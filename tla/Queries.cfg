\* Imports of two users for two jobs of one testrun, some of which fail, crash or
\* overlap, while a client of one user queries the testrun.
SPECIFICATION QuerySpec
CONSTANTS
    j1 = j1
    j2 = j2
    r1 = r1
    a = a
    b = b
    c = c
    d = d
    x = x
    y = y
    me = me
    you = you
    q1 = q1
    None = None
    NoOne = NoOne
    Elsewhere = Elsewhere
    Jobs = {j1, j2}
    Testruns = {r1}
    Uploads = {a, b, c, d}
    Reports = {x, y}
    Valid = {x, y}
    Askers = {q1}
    TestWords = {"test_mint", "test_top"}
    Empty = ""
    Nested = {"test_a[b::c]"}
    Testrun <- OneTestrun
    Job <- SplitJob
    Body <- SplitBody
    Faults <- SplitFaults
    User <- SplitUser
    AskedFor <- MyTestrun
    Cases <- MixedCases
    Words <- WordNames
    Titles <- TitleNames
INVARIANTS
    QueryTypeOK
    AcceptedIsVisible
    AnswersAreEarned
CHECK_DEADLOCK FALSE
SYMMETRY Interchangeable
