\* Two workers handle uploads of one new version; one commit fails.
SPECIFICATION Spec
CONSTANTS
    v1 = v1
    v2 = v2
    a = a
    b = b
    c = c
    d = d
    e = e
    None = None
    NoOne = NoOne
    Elsewhere = Elsewhere
    Versions = {v1}
    Uploads = {a, b}
    Valid = {a, b}
    Target <- SameTarget
    Faults <- OverlapFaults
INVARIANTS
    NoRecordWithoutZip
CHECK_DEADLOCK FALSE
