\* Liveness and the refinement with fairness: one sandbox, a crash, no
\* evidence.  No symmetry: TLC would not be sound with it here.
SPECIFICATION FairSpec
CONSTANTS
    Sandbox = {s1}
    Key = {k1}
    None = None
    InitialRows <- MCActiveRow
    EvidenceStates <- MCNoEvidence
    MaxOps = 2
    MaxVersion = 4
    MaxCrashes = 2
PROPERTIES
    EventuallyPublished
    AbstractFairSpec
    KeysHonoured
