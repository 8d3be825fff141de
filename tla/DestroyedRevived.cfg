\* Evidence sent before a removal arrives after it.
SPECIFICATION Spec
CONSTANTS
    Sandbox = {s1}
    Key = {}
    None = None
    InitialRows <- MCActiveRow
    EvidenceStates <- MCEvidence
    MaxOps = 1
    MaxVersion = 5
    MaxCrashes = 0
PROPERTY DestroyedIsTerminal
