# A verification development for testing-results-cache

testing-results-cache is a small Flask service that keeps three kinds of things
for a test infrastructure: imported JUnit results, nightly JUnit history, and zips
of sync-test results. It runs as several gunicorn worker processes
(`examples/start_service.sh` starts three) over one SQLite database and a few
folders; command-line tools such as `prune-history` work on the same database
and folders from processes of their own. Every hard question about it is about
that shared state: a database transaction and a handful of file operations have
to look like one step, to other workers and after a crash.

This directory holds TLA+ models of the parts where that matters, TLC
configurations that check them on small instances, and proofs checked by TLAPS.

## Inventory

| Part | State | Operations | Modelled |
|---|---|---|---|
| sync-results (`sync_results_api.py`, `sync_results_cache.py`) | `sync_results` rows; `<version>.zip`, `.zip.prev`, `.upload-*.tmp` | upload; listing, download | upload: `SyncResults`; download: `Downloads` |
| nightly history (`history_api.py`, `history_cache.py`) | `history` rows; `<job>.xml`, `.upload-*.tmp` | upload; listing, download | upload: `History` |
| retention (`retention.py`, `prune-history` in `flask_db.py`) | none of its own | select, delete, unlink, report orphans | `History` |
| results (`results_api.py`, `results_cache.py`) | `testrun`, `results` rows; `<checksum>.xml`, `upload-*.xml` | import; passed, rerun and their pytest forms | import: `ResultsImport`; the others: `Queries` |
| JUnit parsing (`junittools.py`) | none | verdict of a test case | `Queries` |
| migrations (`migrations_runner.py`, `migrations/`, `schema.sql`) | `schema_version` rows and the schema | `migrate`, `migrate --dry-run`, `init-db` | `Migrations` |
| users (`users.py`, `flask_auth.py`) | `users` rows | `add-user`, lookup | no: one insert, one lookup |
| path validation (`common.py`) | none | accept or refuse a URL segment | no: a regular expression |
| application (`app.py`), packaging, CI | configuration | | no |

How the parts interact. A request runs in one worker from start to end and uses
one connection, closed at teardown (`close_db`). The parts never call each
other; they meet at three places. (1) SQLite's single write lock: the first
INSERT or DELETE of a transaction takes it, and whoever comes second waits for
the busy timeout of five seconds and then fails. (2) The rows. (3) The files:
nothing locks those. All write paths share place (1); the history upload and
the prune also share (2) and (3), as do the upload and the download of sync-results.
Imports and queries share (2). Readers take no lock.

What makes each part correct:

- sync-results: an upload replaces the zip of its version as a whole or not at
  all; a recorded version always has its zip; only validated zips are kept.
- history: a row has its file; a duplicate changes nothing; a row only leaves
  by being pruned when it is old.
- retention: never takes the file of an entry it did not delete, accounts for
  every file it could not remove, and reports as orphans only files no entry
  needs.
- results: a report is imported once, whole, where the queries look for it;
  what is refused as already uploaded has been imported. A query finds everything
  that was accepted before it, and nothing no report of its user says.
- migrations: what is recorded as applied has run, as a whole and once; a command
  that reports success has left nothing out; an older release touches nothing.
- everything: the write lock is given up by whoever took it, and every request
  and command ends.

The hazards this code is exposed to, each at its line, are listed in
`PROJECT.json` with the properties that cover them.

## Modules

| Module | What it models |
|---|---|
| `WriteLock` | SQLite's write lock, as the code uses it (not part of the repository). `Elsewhere` is any writer the extending module does not look at. |
| `VersionStore` | What an upload of a sync-results zip promises: an abstract store, one step per upload. |
| `HistoryStore` | What history uploads and prunes promise together: entries that appear and expire in one step. |
| `ReportStore` | What imports promise: a report's place is claimed, then its report is imported for good or given up. |
| `ChangeLog` | What `migrate` and `init-db` promise: a log that grows by one migration at a time. |
| `SyncResults` | `upload_sync_results` and `_finalize_upload_disk_state`, one action per call on the shared state. |
| `History` | `upload_history`, `find_expired`, `prune` and `find_orphans`, the same way. |
| `Downloads` | `get_sync_results_zip`, three reads per request, composed with `SyncResults`. |
| `ResultsImport` | `import_results` and `save_testrun`, the same way as the uploads. |
| `Queries` | `passed`, `rerun` and their pytest forms, composed with `ResultsImport`; verdicts and node ids as functions. |
| `Migrations` | `migrate`, its dry run and `init-db` with the migration runner, one step per transaction. |
| `MC*` | The instances for TLC. |
| `*Proofs` | The theorems about the module they are named after. |

### SyncResults

`row`, `file` and `prev` say which upload's bytes the committed row, the zip and
the backup of a version are; `tmp` which temp files exist. `had` and `backed` are
the local flags `had_previous_file` and `previous_backed_up`. The other two
flags are in the program counter: `entered_disk_phase` holds from `"looking"`
on, `committed` at `"settling"`. `pc[u]` names the call upload `u` makes next:

    new -> saving -> inserting -> looking -> backing -> renaming -> committing
                                     \-> renaming                     |
    cleanup <- settling (DiscardBackup) <-----------------------------+
    cleanup <- undoing (Undo) <- failing (Rollback) <- any of the disk calls

A failure up to the insert goes straight to `"cleanup"`, as
`entered_disk_phase` makes the reconciliation do nothing. The rollback is a step
of its own before the reconciliation, because the `except` clause runs before
`finally`: that order matters, the lock is free between the two. `Cleanup` is the
unlink of the temp file together with the teardown that closes the
connection. The zip's content is abstracted to whether `_valid_zip` accepts
it (`Valid`).

What may go wrong is a constant, `Faults[v]`, for each version: overlapping
uploads of the version, crashes, database errors, disk errors, a failing stat,
a failing reconciliation. A property is about the versions whose faults the code
claims to survive: `Calm` versions (database and disk errors) and `Restartable`
ones (crashes and failing reconciliations as well). In one instance versions of
different kinds share the database and the write lock.

### Downloads

A client asks for the row, looks for the file and sends it (`at[r]`), in three steps
between which uploads go on. `answer` and `got` are what it was told and sent.
`past` is not state of the program: the uploads that were over, and not
recorded, when the request came. `send_file` is one step, opening the file: once open it is
read to its end, whatever becomes of the name.

### History

`row` and `file` as above, `aged` the jobs whose row is older than `--days`,
`inode` the inode an upload's bytes are under, `settled` the uploads whose file
is older than the grace period of the orphan report. A prune `p` goes through the
stages of the command: stating (the select and its loop of stats), deleting,
unlinking, scanning (the orphan report). `seen` is the recorded inode, as the
file that had it; `todo` the entries its current loop has not come to; `hit` the
file it has compared and is about to unlink. Check and unlink are two steps, as
they are two system calls. `raced` is not state of the program: it names the jobs
whose file was replaced between the two.

An upload that is refused because the job is recorded already gets a `reply` of its own
(`"recorded"`, where the service answers 400 as for a bad request): what it is told
is a claim about the rows, and `HistoryStore` holds it to that.

Time is two actions. `Age` makes a row old, `Settle` a file: both wait until the
upload's request is over, because `--days` is at least one day and the
grace period is five minutes, and a request that has saved its file ends
within two busy timeouts (ten seconds) or is killed with its worker.
Rows whose names are unusable are left out: the service never writes one.

### ResultsImport

`testrun` is the table of that name: the names, at their ids. `stored[u]` is
the id the results of request `u` are committed under, 0 without any; 0 also
stands for the -1 of `get_testrun_id`. `file` says which bytes are under each
checksum of each job, `tmp` what is in each `upload-<letters>.xml`. `letters[u]`
is the request whose letters `u` drew, itself unless two draw the same. `sum`,
`read` and `tid` are locals of the request: its checksum, the bytes it parsed,
`testrun_id`. `named` holds the requests whose open transaction has inserted a
testrun row. The steps:

    new -> summing -> comparing -> renaming -> parsing -> resolving -> naming
                          |                       |           |          |
                      dropping                discarding      +-> inserting -> committing

`End` is an answer together with the teardown that closes the connection. It is
also how every failure ends: nothing but a `ValueError` is caught, and nothing
is rolled back by the handler. A failing disk leaves any beginning of the body in
the temp file (`part` in `SaveFails`). Jobs are `Distinct` when their requests draw letters of
their own, and `Orderly` when moreover no report is sent twice at once. Reports are abstracted to their bytes and whether
`get_testsuite_data` can read them (`Valid`).

### Queries

`id[q]` is what `get_testrun_id` has returned to the request of asker `q`, in a read of
its own; the rows are read in the next one and the answer is what `Passed` and
`Rerun` give in that state. The results table is not a variable: its rows are what the
committed imports have parsed, under the id they are `stored` with and the `User` who sent
them. `known` is not state of the program: the imports of the asker's user and testrun
that had been answered 200 when it asked. A report is its set of test cases, a case the
test it is of and the kinds of its child elements in order; `VerdictOf` goes through those
like the loop of `_get_verdict`, break included. A test is its id, `class::title`, split at the
first `::`. The class name is a sequence of `Words`, each with the dot or slash that separates it
from the one before; which words start with `test_`, which is the empty one and which titles
have a `::` in them are constants. `_pytestify` is modelled by what it does to
these (`NodeidsOf`): dots and slashes up to the file name become slashes, a path that is one
empty part is dropped. So names may come to share a node id, as `a/b.test_m` and
`a.b.test_m`, or `.test_m` and `test_m`, do in the code.

`AnswersAreEarned` does not trust that loop: it compares the answers with `Clean`, which says
what a passing case is without going through its children, and with the reports of
the same user and testrun. Its last conjunct, that no test of one list shares its node id with
one of the other, is about the names pytest writes (`Dotted`: words between dots). Of other
names it is false, and the instance has two pairs of them.

### Migrations

`schema` is the set of tables and indexes that exist, `recorded` what is in
`schema_version`, `legacy` the schema before the first command, `ran[v]` the commands that
committed the script of `v`. `todo[c]` is what `apply` has left of its list, `left[c]` what
`schema.sql` has left to drop or to create. `Knows[c]` is the content of the
migrations folder of `c`'s release. The steps:

    migrate: new (Check) -> applying -> ensuring -> running <-> committing -> done
    init-db: new (Reset) -> dropping -> creating -> ensuring -> stamping -> stamped -> done

`pending` is read twice, by the command and by `apply`; both are steps. A script and
its version row are one transaction, which `Run` opens and `Commit` makes visible.
`executescript(schema.sql)` runs in autocommit, so each of its statements is a step, and
a command that dies between them leaves the schema as it is. `schema.sql` creates tables in an
order of its own; here any order will do that has an index after its table.
`README.md:59-60` of the service says to run `init-db` on a new deployment only, and nothing in
the code sees to that: here it starts at any time, on a database with recorded migrations and
beside other commands, whose tables it then drops or finds in its way (`CreateFails`).
`disturbed` is not state of the program: it says whether an `init-db` has ever started on recorded
migrations or been at work together with another command (a dry run is over in one step and
meets nobody). What the two properties about the schema say depends on it (see Theorems).

## Runs

| Run | Result | What it shows |
|---|---|---|
| `sync_calm` | passes | Three uploads of a version, one after the other, beside a client that downloads it again and again and other writers; database and disk errors at any call. The recorded zip is on disk at every moment, a version at rest is settled, a refused upload leaves no trace, uploads implement the atomic `VersionStore`, every upload is answered, a missing zip comes back. A download misses only in the gap of an overwrite, and is never sent a zip that was over when it asked. |
| `sync_rough` | passes | One version with everything but overlaps and failing stats, the other with overlaps, failing stats and failing reconciliations: some zip remains for the first, only validated bytes for both, the lock is never left behind. |
| `sync_overlap` | violated | The undo of a failed upload runs after its rollback gave up the lock, and takes the zip of an overlapping upload. |
| `sync_crash` | violated | After a crash between rename and commit, the next upload moves the unrecorded zip over the `.prev` that held the recorded one; its commit fails. |
| `history_retention` | passes | Three uploads for two jobs race a prune with crashes, failing calls and a busy database. Together they implement `HistoryStore`: entries appear and expire in one step, and only when old; whoever is told that a job is recorded is told the truth. Entries keep their files, files are accounted for, reported orphans stay orphans. |
| `history_progress` | passes | Two uploads of a job, a prune and a dry run, with crashes and a writer that may keep the lock for good: every request is answered, every prune ends. |
| `history_inodes` | violated | A reused inode makes a prune unlink the file of a fresh entry. |
| `history_twice` | violated | Two prunes overlap: the second deletes an entry recorded after the first one's deletion. |
| `import_race` | passes | Five imports: three for a job (the same report twice and one that cannot be read) that crash and fail anywhere, two of the same report at the same time for another job of the same, new testrun. The first job's implement `ReportStore`; what is imported keeps its file and is found. |
| `import_retry` | violated | The database is busy: the import fails and its file stays, so the report can not be sent again. |
| `queries` | passes | Four imports of two users for two jobs of one new testrun, some crashing, failing or overlapping, beside a client of one user. The reports have an error before an expected failure, a failure before one, names without a node id and names that share one. What was accepted is in every later answer, and answers are earned. |
| `migrations` | passes | `migrate` of releases with migrations 1; 1 and 3; 1, 2 and 3 (2 slipped in below 3), a dry run and `init-db`, each failing in its own way, on a new database and on one that predates the migrations; `init-db` starts before, beside or after the others. Together they implement `ChangeLog`: each migration is applied by one command, in order, never below a newer one, and every report is true when it is given. What is recorded is there, as long as no `init-db` was disturbed. |

The violated runs are findings; `PROJECT.json` quotes for each the comment, document or
test it contradicts. Each switches on only the fault it is about, so that its
counterexample is short.

Why the instances are large enough. Requests share nothing but the
database, one lock and the files of a version or job, so all interference is
between requests for one version (job) or through the lock. Two uploads of a
version are an overlap, and one after the other a first upload and an
overwrite; `sync_rough` has three for the version that overlaps, and two versions
with different faults that share the lock. `sync_calm` has three so that a download
may ask before an upload that replaces what yet another has stored;
clients do not see each other, so one is enough. For an import, a second job
brings the second first results of the testrun, so that two testrun
rows of one name arise; a query of one user then needs a report of the other to tell them
apart. Three releases are the least with a migration slipped in between two
others and an older release beside both. Other writers beyond those in an instance are `Elsewhere`,
which may take the lock whenever it is free and keep it. Each request is sent
once: a retry is another request with the same target and bytes. No counter
needs a bound. The theorems below remove the bounds for all safety properties.

Fairness. `SyncResults` assumes weak fairness of what a request that has begun does by
itself (`Progress`), `History` of its steps (`Handler`) and of those of a running prune
(`Work`): a worker runs its request to the end, and SQLite's busy timeout turns every wait
for the lock into an answer, so a step is always enabled. Nothing is assumed of
requests that have not begun, of the writer `Elsewhere`, or of crashes, each of
which may happen or not; and nothing says that the lock is ever free. `Migrations` assumes
the same of a command that has begun (`Work`), a dry run being over in one step. `Downloads`
assumes it of uploads only; nothing makes a client ask or wait. `ResultsImport` and `Queries`
state no liveness. Symmetry is used only in runs without liveness. Deadlock is not checked
because every instance has finitely many requests and the system may stop when
all have ended.

Liveness is checked by TLC only (`UploadAnswered`, `PruneEnds`, `MissIsSelfHealing`,
`CommandsEnd`): proving it takes reasoning about ENABLED, which the installed provers do
not do. All else is proved below.

## Theorems

Every safety property of a passing run is also a theorem, for all numbers of versions, jobs,
reports, requests, clients, prunes, releases and commands, under the named assumptions on the
constants and no others, except where a row says so.

| Module | Theorem | Property |
|---|---|---|
| `SyncResultsProofs` | `TypeCorrect`, `LockReleased`, `ValidatedOnly` | `TypeOK`, `NoLeakedLock`, `OnlyValidatedBytes` |
| | `RecoverableInductive`, `SomeZipRemains`, `CommitsInPlace` | `RecoverableInv`, `RecoverableVersion`, `CommitOnlyWithZipInPlace` |
| | `CalmInductive`, `LastGoodRemains`, `QuietSettled`, `NoTraceOfRefused` | `CalmInv`, `LastGoodZipKept`, `QuietVersionSettled`, `RefusedLeavesNoTrace` |
| | `UploadsImplementStore` | `ImplementsVersionStore` (refinement of `VersionStore`) |
| `DownloadsProofs` | `DownloadTypeCorrect`, `MissesHaveBackup`, `NothingStaleIsSent` | `DownloadTypeOK`, `MissHasBackup`, `NoStaleDownload` |
| `HistoryProofs` | `TypeCorrect`, `LockReleased`, `PruneAccounts`, `OrphansStaySafe` | `TypeOK`, `NoLeakedLock`, `PrunedFilesAccounted`, `OrphansAreSafeToDelete` |
| | `EntriesKeepTheirFiles` (no reused inodes) | `EntryHasItsFile` |
| | `EntriesOnlyLeaveOld` (no overlapping prunes) | `EntriesOnlyExpire` |
| | `NoStepInVain` | `EveryStepCounts` |
| | `HistoryImplementsStore` (neither of the two) | `ImplementsHistoryStore` (refinement of `HistoryStore`) |
| `ResultsImportProofs` | `TypeCorrect`, `LockReleased`, `ImportsAreFindable` | `TypeOK`, `NoLeakedLock`, `ImportsFindable` |
| | `ReportsAreKept`, `AcceptedAreImported`, `ImportsOnce` | `ImportedReportKept`, `AcceptedIsImported`, `ImportedOnce` |
| | `ReadInvariant` | `ReadInv`: what is imported could be read |
| | `ImportsImplementStore` | `ImplementsReportStore` (refinement of `ReportStore`) |
| `QueriesProofs` | `QueryTypeCorrect`, `AcceptedAreVisible` | `QueryTypeOK`, `AcceptedIsVisible` |
| | `VerdictIsClean` | the loop of `_get_verdict` passes the cases that are `Clean`, whatever their children |
| | `AnswersEarned` (node ids: of dotted names) | `AnswersAreEarned` |
| `MigrationsProofs` | `TypeCorrect`, `NothingHalf` | `TypeOK`, `NothingHalfApplied` |
| | `RecordedExists`, `SuccessIsComplete` (objects: unless an `init-db` was disturbed) | `RecordedHasRun`, `SuccessMeansComplete` |
| | `NeverTwice`, `NewerLeftAlone` | `AppliedOnce`, `NewerDatabaseUntouched` |
| | `NoStepInVain` | `EveryStepCounts` |
| | `CommandsImplementLog` | `ImplementsChangeLog` (refinement of `ChangeLog`) |

The two conditions on `History` are necessary: `history_inodes` and `history_twice` are the
counterexamples without them. Likewise the properties that speak only of `Calm`,
`Restartable`, `Distinct` or `Orderly` versions and jobs: `sync_overlap` and
`sync_crash` show what versions lose that are not. Four conditions have no run
to show for them. A `filepath.exists()` that raises (`"stat"`) leaves
`had_previous_file` at its default after `entered_disk_phase` is set, and the undo
removes a recorded zip for that of a first upload. Two requests that draw the same letters
(`"collide"`) write into one temp file, and one report is stored under the checksum of the other. And the
same report sent twice at once (`"overlap"` of an import) is imported twice. And a disturbed
`init-db` makes `RecordedHasRun` false: on a new deployment it drops one table, `migrate` commits
001 and records it, then it drops another and fails at creating the first, which is there
again; or it is run again on a migrated database, dies after the drops, and `migrate` says that
the database is up to date. Without either half of `Disturbs`, TLC finds such a state.

Hardly any of these properties is inductive by itself. The strengthenings are at the
end of each module:

- `CalmInv` (`SyncResults`): for each step of an upload, what row, zip
  and backup of its version hold at that point, e.g. that while renaming a
  backed-up version its `.prev` is the recorded zip. "At most one upload of the
  version is under way" is part of it. `RecoverableInv` is the weaker form that
  survives crashes and a failing undo: a row without a zip has a backup, and
  an upload that saw no zip may only unlink one while nothing is recorded or a
  backup exists. The refinement maps the store's zip to `LastGood`, so that backup
  and rename are stutters and the commit is the one step that replaces.
- `WriterInv`, `PlaceInv` (`History`): between its insert and commit an
  upload has the lock, so its job stays free; a file is at the path of its
  own job. `PruneInv` says what the unlink loop is done with, `ScanInv` that an
  old unrecorded file belongs to an upload that is over. `UnlinkInv` is the
  argument behind the inode check: a file with a recorded inode is one whose row was deleted
  and whose upload can no longer commit. `SelectInv`: between the select and the
  delete the selected rows stay old. `AnswerInv`: an upload is answered once, and the row it
  was refused for is still there when it is told. The refinement maps an entry to its row while the
  file is the one recorded (`Kept`), which `EntryHasItsFile` makes its row outside the
  gap between check and unlink: so the commit of an upload is the step at which an entry
  appears, bytes and all, and the commit of the delete the one at which entries
  expire, before the files go.
- `AskedInv`, `LeftInv`, `PastInv` (`Downloads`): a row once found stays; an upload about
  to be undone has no zip in place but its own or the settled one; an upload that is over
  stays off the disk, except as the backup its successor is about to discard. That last
  exception is why the order of commit and reconciliation matters to a download.
- `FindInv` (`ResultsImport`): an id once found is found again, because rows are only appended, and the
  row a transaction has inserted is appended by nobody else while it has
  the lock. `KeepInv`: with letters of its own a request's checksum, rename and parse are all of
  its own bytes, and only unreadable ones are discarded. `OnceInv`: requests for a
  report come one at a time, and after an import none gets past the comparison.
  `FoundInv`: what the comparison found holds until the request acts on it. The refinement
  maps a place to the kept file, and to the rows once some request has committed its own: rename,
  commit and discard are the steps of the store. `ReadInv` says that
  whatever is imported could be read, by requests that share letters too.
- `KnownInv` (`Queries`), on top of `FindInv`: the id a request has found stays that of its
  testrun, since a name resolves to its first row and rows are only appended; so what
  was accepted when it asked is under that id. For `AnswersAreEarned` there are two
  facts about data. What `VerdictOf` computes for children of any number is an induction over their
  positions; the library's induction theorems take a predicate, so the proof takes the
  least position at which the claim fails instead (`Least`, `UpTo`), and builds the
  states of the loop one by one (`WalkExists`). And a node id belongs to one test (`NodeidsApart`),
  as far as names are words between dots, which is why the pytest forms of those cannot mix
  up what the plain ones keep apart.
- `CommandInv` (`Migrations`), in three parts: `LockedAt`, a transaction is open exactly
  at the two steps that are to commit one; `ResetAt`, while an undisturbed `init-db` works
  nothing is recorded and nobody else is at work; `ApplyAt`, what is not on the list is recorded,
  and what a command is about to commit is not and fits the schema, because it has had the lock
  since it found so and no `init-db` drops a table without it. Only `RecordedHasRun`, and with it the half of
  `SuccessMeansComplete` about objects, rests on `ResetAt`; the order, the refinement and everything about `ran` hold for disturbed ones too.
  `RecordedInOrder` is what protects a newer database: a version on record means its
  release had recorded all earlier ones of its own first, so an older release that
  still has something to apply finds it recorded and fails. `ReportInv`: a command reports once,
  at its end. The refinement maps the log to `recorded` and its authors to `ran`: commits are its
  steps, and so are the decisions to refuse, to list and to give up.
- `HitInv` (`History`): the file a prune is about to unlink is of a job still on its list,
  because it was found at the path of a job on it (`PlaceInv`). Without it the unlink loop could
  turn without getting shorter.

`EveryStepCounts` is the half of the liveness properties that takes no reasoning about
ENABLED: a step of a request, a prune or a command lowers what it has ahead of it, and nobody else's step raises it. For a prune that is its stage, then
the rest of the list its loop is in, then the check before the unlink; for a command the migrations it
may still commit, then its step, then the tables `init-db` has left. The handlers of the other
modules have no loop. That a next step is always possible, also with the lock held elsewhere, is
left to the runs (`UploadAnswered`, `PruneEnds`, `CommandsEnd`).

`AppliedOnce`, `EntriesOnlyExpire`, `EveryStepCounts` and `DownloadTypeOK` are stated by theorems
only; the refinements that runs check imply the first two.

## What is not modelled, and why

- The listings of sync-results and history, one read of committed rows each, and the
  download of history: they change nothing. A history download that races a prune
  may log a legitimate removal as data loss; that is the same gap as the one of `Downloads`,
  without a backup to look for.
- An exception raised by a worker's signal handler between `conn.commit()` and
  `committed = True`: crashes here kill the worker outright.
- Aborted writes below a system call: rename, unlink and fsync are atomic steps. A
  crash is that of a worker, not of the machine.
- The content of zips, beyond whether they are accepted, and the reading of XML: a report is
  its test cases or cannot be read.
- `add-user`, what `init-db` does to the rows of a database in use, and migrations that do
  anything but create tables and indexes (there are none yet).
- Users and passwords, validation of path segments, the application factory.
- Clock values: "old" and "past the grace period" are actions (see History).

## Plan

Done, in the order of the damage a wrong interleaving does: `WriteLock`, `VersionStore` and
`SyncResults`, `History`, `ResultsImport`; then `Migrations`, which every other part
relies on for its tables, and the readers, `Downloads` and `Queries`; then an abstract store
for each of the three write paths and a log for the migrations, with a proof that the module
implements it, and that no step of a prune or a command is in vain. What would be next:

- The history download beside `History`, to say exactly when its log line is a false alarm.
