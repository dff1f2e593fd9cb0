\* migrate of three releases, a dry run and init-db, on a new database and on one
\* that predates the migrations.
SPECIFICATION Spec
CONSTANTS
    a = a
    b = b
    c = c
    d = d
    i = i
    t = t
    u = u
    x = x
    NoOne = NoOne
    Elsewhere = Elsewhere
    VersionTable = VersionTable
    Commands = {a, b, c, d, i}
    Versions = {1, 2, 3}
    Objects = {t, u, x}
    Legacies = {{}, {t}}
    Kind <- CommandKinds
    Knows <- Releases
    Adds <- Scripts
    On <- IndexOn
    Faults <- CommandFaults
INVARIANTS
    TypeOK
    RecordedHasRun
    NothingHalfApplied
    SuccessMeansComplete
PROPERTIES
    ImplementsChangeLog
    NewerDatabaseUntouched
    CommandsEnd
CHECK_DEADLOCK FALSE
