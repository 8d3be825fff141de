\* Two concurrent enforcements, two resources, a crash, two periods.
SPECIFICATION FairSpec
CONSTANTS
    c1 = c1
    c2 = c2
    r1 = r1
    r2 = r2
    None = None
    Call = {c1, c2}
    Resource = {r1, r2}
    MaxCrashes = 1
    MaxPeriod = 1
INVARIANTS
    OneMarkedCall
    StoppedIsStopped
PROPERTIES
    NothingUndone
    EventuallyIssued
