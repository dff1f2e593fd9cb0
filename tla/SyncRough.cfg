\* Every fault at once on one version, everything but overlaps and failing
\* stats on the other; one upload carries a broken zip.
SPECIFICATION Spec
CONSTANTS
    v1 = v1
    v2 = v2
    a = a
    b = b
    c = c
    d = d
    e = e
    None = None
    NoOne = NoOne
    Elsewhere = Elsewhere
    Versions = {v1, v2}
    Uploads = {a, b, c, d, e}
    Valid = {a, b, c, d}
    Target <- SplitTarget
    Faults <- RoughFaults
INVARIANTS
    RecoverableVersion
    OnlyValidatedBytes
    NoLeakedLock
    RecoverableInv
PROPERTIES
    CommitOnlyWithZipInPlace
CHECK_DEADLOCK FALSE
SYMMETRY Interchangeable
