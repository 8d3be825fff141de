\* A lost-lease correction that spans the sealed period.
SPECIFICATION MCSpec
CONSTANTS
    LedgerEvent <- MCLedgerEvent
    SealedPeriod <- MCSealed
    MaxEvents = 4
    Ttl = 2
    ConfirmTimeout = 2
    MaxEpoch = 1
    v1 = v1
    v2 = v2
    v3 = v3
    Version = {v1, v2, v3}
    LastRateTime = 2
    MaxNumerator = 2
    Denominator = 2
    MonthStart = 2
    SealedFrom = 2
    SealedTo = 3
    MaxRows = 1
PROPERTIES
    SealedNeverRestated
CHECK_DEADLOCK FALSE
