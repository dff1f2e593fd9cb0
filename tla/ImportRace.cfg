\* Imports for two jobs of one testrun: those of one fail and crash, those of the
\* other overlap.
SPECIFICATION Spec
CONSTANTS
    j1 = j1
    j2 = j2
    r1 = r1
    a = a
    b = b
    c = c
    d = d
    e = e
    x = x
    y = y
    None = None
    NoOne = NoOne
    Elsewhere = Elsewhere
    Jobs = {j1, j2}
    Testruns = {r1}
    Uploads = {a, b, c, d, e}
    Reports = {x, y}
    Valid = {x}
    Testrun <- OneTestrun
    Job <- SplitJob
    Body <- SplitBody
    Faults <- SplitFaults
INVARIANTS
    TypeOK
    ImportedOnce
    ImportedReportKept
    AcceptedIsImported
    ImportsFindable
    NoLeakedLock
PROPERTIES
    ImplementsReportStore
CHECK_DEADLOCK FALSE
SYMMETRY Interchangeable
