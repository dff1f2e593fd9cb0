\* A worker dies during an overwrite and the next upload fails.
SPECIFICATION Spec
CONSTANTS
    v1 = v1
    v2 = v2
    a = a
    b = b
    c = c
    d = d
    e = e
    None = None
    NoOne = NoOne
    Elsewhere = Elsewhere
    Versions = {v1}
    Uploads = {a, b, c}
    Valid = {a, b, c}
    Target <- SameTarget
    Faults <- CrashFaults
INVARIANTS
    LastGoodSurvivesCrash
CHECK_DEADLOCK FALSE
