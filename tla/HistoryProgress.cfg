\* Two uploads of a job, a prune and a dry run, with crashes: everything ends.
SPECIFICATION Spec
CONSTANTS
    j1 = j1
    j2 = j2
    a = a
    b = b
    c = c
    p = p
    q = q
    None = None
    NoOne = NoOne
    Elsewhere = Elsewhere
    Jobs = {j1}
    Uploads = {a, b}
    Prunes = {p, q}
    DryRuns = {q}
    Job <- SameJob
    Faults = {"crash"}
PROPERTIES
    UploadAnswered
    PruneEnds
CHECK_DEADLOCK FALSE
