\* Three uploads of a version that do not overlap and whose workers do not die
\* replace its zip, fail and are undone, beside other writers, while a client
\* downloads the version again and again.
SPECIFICATION DownloadSpec
CONSTANTS
    v1 = v1
    a = a
    b = b
    c = c
    reader = reader
    None = None
    NoOne = NoOne
    Elsewhere = Elsewhere
    Versions = {v1}
    Uploads = {a, b, c}
    Valid = {a, b, c}
    Readers = {reader}
    Target <- AllTarget
    Wanted <- AllWanted
    Faults <- CalmFaults
INVARIANTS
    TypeOK
    LastGoodZipKept
    QuietVersionSettled
    RefusedLeavesNoTrace
    CalmInv
    NoStaleDownload
PROPERTIES
    ImplementsVersionStore
    UploadAnswered
    MissIsSelfHealing
    MissHasBackup
CHECK_DEADLOCK FALSE
