\* Four envelopes in any order and repeated; three instances of a sandbox; three rate rows.
SPECIFICATION MCSpec
CONSTANTS
    LedgerEvent <- MCLedgerEvent
    SealedPeriod <- MCSealed
    MaxEvents = 4
    Ttl = 2
    ConfirmTimeout = 2
    MaxEpoch = 3
    v1 = v1
    v2 = v2
    v3 = v3
    Version = {v1, v2, v3}
    LastRateTime = 3
    MaxNumerator = 2
    Denominator = 2
    MonthStart = 2
    SealedFrom = 2
    SealedTo = 3
    MaxRows = 3
INVARIANTS
    LedgerSound
    ReleaseIsProven
    UsagePriced
PROPERTIES
    LossEscalates
    PastRowsStand
\* A sandbox whose stop is confirmed may rest for good.
CHECK_DEADLOCK FALSE
