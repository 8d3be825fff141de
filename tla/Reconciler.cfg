\* One sandbox; clients, leases and verdicts get in between the reconciler's steps, and it may crash.
SPECIFICATION RecFairSpec
CONSTANTS
    Sandbox = {s1}
    Key = {}
    None = None
    InitialRows <- MCRows
    EvidenceStates <- MCNoEvidence
    InventoryStates <- MCInventory
    MaxOps = 2
    UserOps = 1
    MaxVersion = 3
    MaxCrashes = 1
INVARIANTS
    IsolatedSuperseded
    PlannedFromCurrent
PROPERTIES
    Recreated
