SPECIFICATION Spec
CONSTANTS
    Sandbox = {s1}
    Key = {}
    None = None
    InitialRows <- MCTwoRows
    EvidenceStates <- MCEvidence
    MaxOps = 2
    MaxVersion = 5
    MaxCrashes = 1
INVARIANTS
    TypeOK
    Serialized
    LedgerAgrees
    RowsConsistent
PROPERTIES
    TerminalStable
    AbstractSpec
    VersionFences
