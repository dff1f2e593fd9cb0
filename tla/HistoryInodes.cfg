\* The file system hands out inodes again; a prune's check passes on a new file.
SPECIFICATION Spec
CONSTANTS
    j1 = j1
    j2 = j2
    a = a
    b = b
    c = c
    p = p
    q = q
    None = None
    NoOne = NoOne
    Elsewhere = Elsewhere
    Jobs = {j1}
    Uploads = {a, b, c}
    Prunes = {p}
    DryRuns = {}
    Job <- SameJob
    Faults = {"crash", "reuse"}
INVARIANTS
    EntryHasItsFile
CHECK_DEADLOCK FALSE
