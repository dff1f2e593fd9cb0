\* Two prunes run at the same time, and a job is uploaded again between them.
SPECIFICATION Spec
CONSTANTS
    j1 = j1
    j2 = j2
    a = a
    b = b
    c = c
    p = p
    q = q
    None = None
    NoOne = NoOne
    Elsewhere = Elsewhere
    Jobs = {j1}
    Uploads = {a, b}
    Prunes = {p, q}
    DryRuns = {}
    Job <- SameJob
    Faults = {"crash", "twice"}
PROPERTIES
    EntriesOnlyExpire
CHECK_DEADLOCK FALSE
