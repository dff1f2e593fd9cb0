\* A report is sent again after the database was busy.
SPECIFICATION Spec
CONSTANTS
    j1 = j1
    j2 = j2
    r1 = r1
    a = a
    b = b
    c = c
    d = d
    e = e
    x = x
    y = y
    None = None
    NoOne = NoOne
    Elsewhere = Elsewhere
    Jobs = {j1}
    Testruns = {r1}
    Uploads = {a, b}
    Reports = {x, y}
    Valid = {x}
    Testrun <- OneTestrun
    Job <- SplitJob
    Body <- SplitBody
    Faults <- NoFaults
INVARIANTS
    FailedImportLeavesNoFile
CHECK_DEADLOCK FALSE
