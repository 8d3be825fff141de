\* A row that is upserted for instants of the past.
SPECIFICATION MCSpec
CONSTANTS
    LedgerEvent <- MCLedgerEvent
    SealedPeriod <- MCSealed
    MaxEvents = 1
    Ttl = 2
    ConfirmTimeout = 2
    MaxEpoch = 1
    v1 = v1
    v2 = v2
    v3 = v3
    Version = {v1, v2, v3}
    LastRateTime = 3
    MaxNumerator = 2
    Denominator = 2
    MonthStart = 2
    SealedFrom = 2
    SealedTo = 3
    MaxRows = 2
PROPERTIES
    HistoryImmutable
CHECK_DEADLOCK FALSE
