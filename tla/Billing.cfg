\* Every billing component on an instance of its own; see the README for the bounds.
SPECIFICATION MCSpec
CONSTANTS
    i1 = i1
    i2 = i2
    s1 = s1
    c1 = c1
    e1 = e1
    e2 = e2
    w1 = w1
    w2 = w2
    None = None
    Event <- MCEvents
    Invoice = {i1, i2}
    Subscription = {s1}
    Customer = {c1}
    Grace = 1
    MaxNow = 1
    MaxCrashes = 1
    MaxUnits = 2
    MeterEvent = {e1, e2}
    LastMonth = 1
    Worker = {w1, w2}
    Limit = 9
    BlockNewPct = 80
    TopRate = 1
    CheckInterval = 3
    StopDuration = 2
    CleanupAfter = 3
    StorageRate = 2
    LastPeriod = 1
INVARIANTS
    WebhookSound
    EntriesBacked
    MeteredOnce
    BudgetHeld
PROPERTIES
    TimeOnlyCloses
    EffectSettles
    UnpaidStaysOut
\* Events, months and prices run out.
CHECK_DEADLOCK FALSE
