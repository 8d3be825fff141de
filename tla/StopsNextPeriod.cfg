\* The limit is reached, a period begins, and it is reached again.
SPECIFICATION Spec
CONSTANTS
    c1 = c1
    r1 = r1
    c2 = c2
    r2 = r2
    None = None
    Call = {c1}
    Resource = {r1}
    MaxCrashes = 0
    MaxPeriod = 1
PROPERTY StopsInEveryPeriod
