\* Every policy on an instance of its own; see the README for the bounds.
SPECIFICATION MCSpec
CONSTANTS
    c1 = c1
    c2 = c2
    s1 = s1
    s2 = s2
    k1 = k1
    k2 = k2
    k3 = k3
    k4 = k4
    w1 = w1
    w2 = w2
    t1 = t1
    t2 = t2
    p1 = p1
    p2 = p2
    u1 = u1
    u2 = u2
    g1 = g1
    g2 = g2
    Caller = {c1, c2}
    Quota = 2
    UploadCap = 3
    DiskCap = 3
    HighWaterPct = 80
    CreateLimit = 2
    CreateWindow = 3
    TicketTtl = 1
    LastGateTime = 6
    MaxCreates = 4
    Box = {s1, s2}
    RequestKey = {k1, k2, k3, k4}
    Compute = 1
    Volume = 2
    MaxOperations = 4
    Work = {w1, w2}
    BusyTtl = 2
    IdleAfter = 1
    SuspendAfter = 1
    Cooldown = 2
    LastPolicyTime = 3
    LastInstance = 2
    MaxReports = 2
    CustomerKey = {k1, k2}
    LastGeneration = 2
    MaxTunnels = 2
    DedupWindow = 2
    ProbeFailures = 1
    CriticalMultiplier = 2
    LeaseLead = 2
    Rpo = 1
    Notice = 2
    VolumeRetention = 3
    DbRetention = 4
    LastOpsTime = 4
    Tab = {t1, t2}
    IdleMs = 1
    SuspendMs = 1
    LastNow = 2
    MaxRevision = 2
    Path = {p1, p2}
    Upload = {u1, u2}
    Page = {g1, g2}
INVARIANTS
    GatesHold
    ControlSound
    InjectionCurrent
    OperatorInformed
    DemoSound
PROPERTIES
    WorkProtected
    OverwriteSeen
\* Tokens, keys and clocks run out.
CHECK_DEADLOCK FALSE
