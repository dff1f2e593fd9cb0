\* Uploads of two jobs, two of them of the same one, and a prune, with every fault
\* but reused inodes and overlapping prunes.
SPECIFICATION Spec
CONSTANTS
    j1 = j1
    j2 = j2
    a = a
    b = b
    c = c
    p = p
    q = q
    None = None
    NoOne = NoOne
    Elsewhere = Elsewhere
    Jobs = {j1, j2}
    Uploads = {a, b, c}
    Prunes = {p}
    DryRuns = {}
    Job <- SplitJob
    Faults = {"crash", "database", "disk"}
INVARIANTS
    TypeOK
    EntryHasItsFile
    PrunedFilesAccounted
    OrphansAreSafeToDelete
    NoLeakedLock
PROPERTIES
    ImplementsHistoryStore
CHECK_DEADLOCK FALSE
SYMMETRY Interchangeable
