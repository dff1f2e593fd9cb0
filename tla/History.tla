------------------------------ MODULE History ------------------------------
(***************************************************************************)
(* Nightly history: PUT /history/<testrun>/<job> (upload_history) and the  *)
(* prune-history command, which deletes old rows and their files and then  *)
(* reports files no row mentions (retention.py).                           *)
(*                                                                         *)
(* Uploads run in the worker processes of the service, a prune in a        *)
(* process of its own.  They share the database and the folder of XML      *)
(* files and nothing else; a step of the model is one call on those.       *)
(***************************************************************************)
EXTENDS WriteLock, Naturals

CONSTANTS Jobs,      \* testrun and job id pairs
          Uploads,   \* upload requests, and the bytes they carry
          Job,       \* upload -> the job in its URL
          Prunes,    \* runs of the prune-history command
          DryRuns,   \* those given --dry-run
          Faults,    \* what may go wrong
          None       \* no row, or no file

(***************************************************************************)
(* What may go wrong:                                                      *)
(*   "crash"     a worker or a prune dies                                  *)
(*   "database"  a statement, a commit or a rollback is refused            *)
(*   "disk"      a file operation raises OSError                           *)
(*   "reuse"     the file system hands out the inode of a deleted file     *)
(*   "twice"     two prunes run at the same time                           *)
(***************************************************************************)
FaultKinds == {"crash", "database", "disk", "reuse", "twice"}

ASSUME JobAssumption == Job \in [Uploads -> Jobs]
ASSUME DryRunsAssumption == DryRuns \subseteq Prunes
ASSUME FaultsAssumption == Faults \subseteq FaultKinds
ASSUME NoneAssumption == None \notin Uploads
ASSUME LockAssumption ==
    NoOne # Elsewhere /\ NoOne \notin Uploads /\ Elsewhere \notin Uploads

VARIABLES
    row,       \* job -> upload recorded by the committed history row
    aged,      \* jobs whose row is older than --days
    file,      \* job -> bytes at <job>.xml
    tmp,       \* uploads whose own .upload-*.tmp file is on disk
    inode,     \* upload -> inode of the file its bytes are in
    settled,   \* uploads whose file is older than ORPHAN_GRACE_SECONDS
    pc,        \* upload -> the call it makes next
    reply,     \* upload -> the HTTP status it will be answered with, "recorded"
               \*   for the 400 that says there is an entry already
    stage,     \* prune -> what it is doing
    expired,   \* prune -> jobs find_expired returned
    seen,      \* prune -> job -> bytes whose inode it recorded
    todo,      \* prune -> jobs its current loop has not come to
    hit,       \* prune -> bytes it found unchanged and is about to unlink
    stranded,  \* prune -> jobs whose file it could not remove
    old,       \* prune -> files past the grace period when its scan began
    report,    \* prune -> files it reported as orphans
    raced      \* jobs whose file was replaced between its check and its unlink

entries == <<row, aged>>
files == <<file, tmp, inode, settled>>
uploads == <<pc, reply>>
loop == <<expired, seen, todo, hit, stranded, old, report, raced>>
prunes == <<stage, loop>>
shared == <<entries, files, uploads, lock>>   \* what a prune only looks at, mostly
vars == <<shared, prunes>>

Steps == {"new", "saving", "inserting", "refusing", "renaming", "committing",
          "failing", "cleanup", "done", "dead"}
Stages == {"idle", "stating", "deleting", "unlinking", "scanning", "done", "dead"}
Bytes == Uploads \cup {None}

TypeOK ==
    /\ row \in [Jobs -> Bytes] /\ file \in [Jobs -> Bytes]
    /\ aged \subseteq {j \in Jobs : row[j] # None}
    /\ tmp \subseteq Uploads /\ settled \subseteq Uploads
    /\ inode \in [Uploads -> Uploads]
    /\ pc \in [Uploads -> Steps]
    /\ reply \in [Uploads -> {"none", "200", "400", "recorded", "500"}]
    /\ stage \in [Prunes -> Stages]
    /\ expired \in [Prunes -> SUBSET Jobs]
    /\ seen \in [Prunes -> [Jobs -> Bytes]]
    /\ todo \in [Prunes -> SUBSET Jobs]
    /\ hit \in [Prunes -> Bytes]
    /\ stranded \in [Prunes -> SUBSET Jobs]
    /\ old \in [Prunes -> SUBSET Uploads]
    /\ report \in [Prunes -> SUBSET Uploads]
    /\ raced \subseteq Jobs
    /\ lock \in Uploads \cup {NoOne, Elsewhere}

Init ==
    /\ row = [j \in Jobs |-> None] /\ file = [j \in Jobs |-> None]
    /\ aged = {} /\ tmp = {} /\ settled = {} /\ raced = {}
    /\ inode = [u \in Uploads |-> u]
    /\ pc = [u \in Uploads |-> "new"]
    /\ reply = [u \in Uploads |-> "none"]
    /\ stage = [p \in Prunes |-> "idle"]
    /\ expired = [p \in Prunes |-> {}]
    /\ seen = [p \in Prunes |-> [j \in Jobs |-> None]]
    /\ todo = [p \in Prunes |-> {}]
    /\ hit = [p \in Prunes |-> None]
    /\ stranded = [p \in Prunes |-> {}]
    /\ old = [p \in Prunes |-> {}]
    /\ report = [p \in Prunes |-> {}]
    /\ lock = NoOne

----------------------------------------------------------------------------
May(fault) == fault \in Faults

\* Moves upload u from one step of its handler to the next.
Go(u, from, to) == pc[u] = from /\ pc' = [pc EXCEPT ![u] = to]

\* The same on a path that settles the answer.
Answer(u, from, to, codes) ==
    /\ Go(u, from, to)
    /\ \E code \in codes : reply' = [reply EXCEPT ![u] = code]

\* Moves prune p from one stage to the next.
Turn(p, from, to) == stage[p] = from /\ stage' = [stage EXCEPT ![p] = to]

Over(u) == pc[u] \in {"done", "dead"}
Running(p) == stage[p] \notin {"idle", "done", "dead"}

\* Inodes of files that exist.
InUse == {inode[u] : u \in {w \in Uploads : w \in tmp \/ file[Job[w]] = w}}

----------------------------------------------------------------------------
(* Plausible mistakes in the steps below.  None of them is part of Next:   *)
(* each stands in for the step it is named after, to see that a property   *)
(* of this module tells the two apart.                                     *)

\* Any conflict is taken for a fresh entry (INSERT OR REPLACE).
InsertReplaces(u) ==
    /\ Go(u, "inserting", "renaming")
    /\ Take(u)
    /\ UNCHANGED <<entries, files, reply, prunes>>

\* No busy timeout: the insert waits for as long as it takes.
SaveFailsUnlessBusy(u) ==
    /\ May("disk") /\ Answer(u, "saving", "cleanup", {"500"})
    /\ UNCHANGED <<entries, files, prunes, lock>>

\* The connection is not closed with the request.
CleanupKeepsConnection(u) ==
    /\ Go(u, "cleanup", "done")
    /\ tmp' = tmp \ {u}
    /\ UNCHANGED <<entries, file, inode, settled, reply, prunes, lock>>

\* The cutoff is compared the wrong way round.
SelectFresh(p) ==
    LET fresh == {j \in Jobs : row[j] # None} \ aged IN
    /\ \A q \in Prunes : ~Running(q)
    /\ Turn(p, "idle", "stating")
    /\ expired' = [expired EXCEPT ![p] = fresh]
    /\ todo' = [todo EXCEPT ![p] = fresh]
    /\ UNCHANGED <<seen, hit, stranded, old, report, raced, shared>>

\* No busy timeout for the prune either.
DeleteRefusedNever(p) ==
    /\ May("database")
    /\ Turn(p, "deleting", "dead")
    /\ UNCHANGED <<loop, shared>>

\* The deleted rows stay in the set of old entries.
DeleteRowsOnly(p) ==
    /\ lock = NoOne
    /\ Turn(p, "deleting", "unlinking")
    /\ row' = [j \in Jobs |-> IF j \in expired[p] THEN None ELSE row[j]]
    /\ todo' = [todo EXCEPT ![p] = expired[p]]
    /\ UNCHANGED <<aged, expired, seen, hit, stranded, old, report, raced, files,
                   uploads, lock>>

\* Any file at the path of an expired entry is unlinked.
UnchangedByName(p, j) == file[j] # None /\ seen[p][j] # None

\* A file that will not unlink is forgotten.
UnlinkFailsUnnoticed(p) ==
    /\ May("disk") /\ stage[p] = "unlinking" /\ hit[p] # None
    /\ todo' = [todo EXCEPT ![p] = @ \ {Job[hit[p]]}]
    /\ hit' = [hit EXCEPT ![p] = None]
    /\ UNCHANGED <<stage, expired, seen, stranded, old, report, raced, shared>>

\* No grace period for files just renamed into place.
SnapshotWithoutGrace(p) ==
    /\ todo[p] = {}
    /\ \/ Turn(p, "unlinking", "scanning")
       \/ (p \in DryRuns \/ expired[p] = {}) /\ Turn(p, "stating", "scanning")
    /\ todo' = [todo EXCEPT ![p] = {j \in Jobs : row[j] = None}]
    /\ old' = [old EXCEPT ![p] = Uploads]
    /\ UNCHANGED <<expired, seen, hit, stranded, report, raced, shared>>

----------------------------------------------------------------------------
(* upload_history *)

\* A bad request, or a folder in which no temp file can be made.
Refuse(u) ==
    /\ Answer(u, "new", "done", {"400"} \cup (IF May("disk") THEN {"500"} ELSE {}))
    /\ UNCHANGED <<entries, files, prunes, lock>>

\* mkstemp gives the request a file of its own, under an inode no file has.
Start(u) ==
    /\ Go(u, "new", "saving")
    /\ tmp' = tmp \cup {u}
    /\ \E i \in IF May("reuse") THEN Uploads \ InUse ELSE {u} :
          inode' = [inode EXCEPT ![u] = i]
    /\ UNCHANGED <<entries, file, settled, reply, prunes, lock>>

Save(u) ==
    /\ Go(u, "saving", "inserting")
    /\ UNCHANGED <<entries, files, reply, prunes, lock>>

\* INSERT ... ON CONFLICT DO NOTHING takes the write lock either way.
Insert(u) ==
    /\ Go(u, "inserting", IF row[Job[u]] = None THEN "renaming" ELSE "refusing")
    /\ Take(u)
    /\ UNCHANGED <<entries, files, reply, prunes>>

\* The body cannot be written, or the insert is refused or waits too long.
SaveFails(u) ==
    /\ \/ May("disk") /\ Answer(u, "saving", "cleanup", {"500"})
       \/ /\ May("database") \/ Busy(u)
          /\ Answer(u, "inserting", "cleanup", {"500"})
    /\ UNCHANGED <<entries, files, prunes, lock>>

\* The job is recorded already: the transaction is given up.
RefuseDuplicate(u) ==
    /\ Answer(u, "refusing", "cleanup", {"recorded"})
    /\ Drop(u)
    /\ UNCHANGED <<entries, files, prunes>>

\* tmp_filepath.rename(filepath), over whatever is there
Rename(u) ==
    /\ Go(u, "renaming", "committing")
    /\ file' = [file EXCEPT ![Job[u]] = u]
    /\ tmp' = tmp \ {u}
    /\ UNCHANGED <<entries, inode, settled, reply, prunes, lock>>

Commit(u) ==
    /\ Answer(u, "committing", "cleanup", {"200"})
    /\ row' = [row EXCEPT ![Job[u]] = u]
    /\ Drop(u)
    /\ UNCHANGED <<aged, files, prunes>>

\* The rename, the commit or the rollback of a duplicate raises.
StoreFails(u) ==
    /\ \/ May("disk") /\ Answer(u, "renaming", "failing", {"500"})
       \/ May("database") /\ Answer(u, "committing", "failing", {"500"})
       \/ May("database") /\ Answer(u, "refusing", "failing", {"500"})
    /\ UNCHANGED <<entries, files, prunes, lock>>

\* The rollback of a failed upload; one that raises leaves the transaction to
\* teardown.  The XML stays where it is.
Rollback(u) ==
    /\ Go(u, "failing", "cleanup")
    /\ Drop(u) \/ (May("database") /\ UNCHANGED lock)
    /\ UNCHANGED <<entries, files, reply, prunes>>

\* The temp file is unlinked, the answer is sent, the connection is closed.
Cleanup(u) ==
    /\ Go(u, "cleanup", "done")
    /\ \/ tmp' = tmp \ {u}
       \/ May("disk") /\ UNCHANGED tmp
    /\ Drop(u)
    /\ UNCHANGED <<entries, file, inode, settled, reply, prunes>>

Crash(u) ==
    /\ May("crash") /\ pc[u] # "new" /\ ~Over(u)
    /\ pc' = [pc EXCEPT ![u] = "dead"]
    /\ Drop(u)
    /\ UNCHANGED <<entries, files, reply, prunes>>

----------------------------------------------------------------------------
(* prune-history: find_expired and prune *)

\* SELECT the rows older than the cutoff.
Select(p) ==
    /\ May("twice") \/ \A q \in Prunes : ~Running(q)
    /\ Turn(p, "idle", "stating")
    /\ expired' = [expired EXCEPT ![p] = aged]
    /\ todo' = [todo EXCEPT ![p] = aged]
    /\ UNCHANGED <<seen, hit, stranded, old, report, raced, shared>>

\* Record the inode of an entry's file; 0, which matches nothing, without one.
Stat(p) ==
    /\ stage[p] = "stating"
    /\ \E j \in todo[p] :
          /\ \E x \in {file[j]} \cup (IF May("disk") THEN {None} ELSE {}) :
                seen' = [seen EXCEPT ![p][j] = x]
          /\ todo' = [todo EXCEPT ![p] = @ \ {j}]
    /\ UNCHANGED <<stage, expired, hit, stranded, old, report, raced, shared>>

NothingToDelete(p) == p \in DryRuns \/ expired[p] = {}

Decide(p) ==
    /\ todo[p] = {} /\ ~NothingToDelete(p)
    /\ Turn(p, "stating", "deleting")
    /\ UNCHANGED <<loop, shared>>

\* DELETE the rows by name and commit, in a transaction of its own.
DeleteRows(p) ==
    /\ lock = NoOne
    /\ Turn(p, "deleting", "unlinking")
    /\ row' = [j \in Jobs |-> IF j \in expired[p] THEN None ELSE row[j]]
    /\ aged' = aged \ expired[p]
    /\ todo' = [todo EXCEPT ![p] = expired[p]]
    /\ UNCHANGED <<expired, seen, hit, stranded, old, report, raced, files, uploads,
                   lock>>

\* The delete waits too long or fails, and the command ends.
DeleteRefused(p) ==
    /\ lock # NoOne \/ May("database")
    /\ Turn(p, "deleting", "dead")
    /\ UNCHANGED <<loop, shared>>

\* Compare the inode now at an entry's path with the recorded one.
Unchanged(p, j) ==
    /\ file[j] # None /\ seen[p][j] # None
    /\ inode[file[j]] = inode[seen[p][j]]

Check(p) ==
    /\ stage[p] = "unlinking" /\ hit[p] = None
    /\ \E j \in todo[p] :
          \/ /\ Unchanged(p, j)
             /\ hit' = [hit EXCEPT ![p] = file[j]]
             /\ UNCHANGED <<todo, stranded>>
          \/ /\ ~Unchanged(p, j)
             /\ todo' = [todo EXCEPT ![p] = @ \ {j}]
             /\ UNCHANGED <<hit, stranded>>
          \/ /\ May("disk")
             /\ todo' = [todo EXCEPT ![p] = @ \ {j}]
             /\ stranded' = [stranded EXCEPT ![p] = @ \cup {j}]
             /\ UNCHANGED hit
    /\ UNCHANGED <<stage, expired, seen, old, report, raced, shared>>

\* Unlink the path that was checked, whatever is there by now.
Unlink(p) ==
    /\ stage[p] = "unlinking" /\ hit[p] # None
    /\ LET j == Job[hit[p]] IN
          /\ file' = [file EXCEPT ![j] = None]
          /\ raced' = IF file[j] \in {None, hit[p]} THEN raced ELSE raced \cup {j}
          /\ todo' = [todo EXCEPT ![p] = @ \ {j}]
    /\ hit' = [hit EXCEPT ![p] = None]
    /\ UNCHANGED <<stage, expired, seen, stranded, old, report, entries, tmp, inode,
                   settled, uploads, lock>>

UnlinkFails(p) ==
    /\ May("disk") /\ stage[p] = "unlinking" /\ hit[p] # None
    /\ LET j == Job[hit[p]] IN
          /\ todo' = [todo EXCEPT ![p] = @ \ {j}]
          /\ stranded' = [stranded EXCEPT ![p] = @ \cup {j}]
    /\ hit' = [hit EXCEPT ![p] = None]
    /\ UNCHANGED <<stage, expired, seen, old, report, raced, shared>>

----------------------------------------------------------------------------
(* prune-history: find_orphans *)

\* The rows there are, then the moment files must be older than.
Snapshot(p) ==
    /\ todo[p] = {}
    /\ \/ Turn(p, "unlinking", "scanning")
       \/ NothingToDelete(p) /\ Turn(p, "stating", "scanning")
    /\ todo' = [todo EXCEPT ![p] = {j \in Jobs : row[j] = None}]
    /\ old' = [old EXCEPT ![p] = settled]
    /\ UNCHANGED <<expired, seen, hit, stranded, report, raced, shared>>

\* Look at one path no row mentioned; a file that cannot be examined is skipped.
Scan(p) ==
    /\ stage[p] = "scanning"
    /\ \E j \in todo[p] :
          /\ todo' = [todo EXCEPT ![p] = @ \ {j}]
          /\ \/ report' = [report EXCEPT ![p] = @ \cup ({file[j]} \cap old[p])]
             \/ May("disk") /\ UNCHANGED report
    /\ UNCHANGED <<stage, expired, seen, hit, stranded, old, raced, shared>>

Finish(p) ==
    /\ todo[p] = {}
    /\ Turn(p, "scanning", "done")
    /\ UNCHANGED <<loop, shared>>

PruneCrash(p) ==
    /\ May("crash") /\ Running(p)
    /\ stage' = [stage EXCEPT ![p] = "dead"]
    /\ UNCHANGED <<loop, shared>>

----------------------------------------------------------------------------
(* Time and the rest of the service *)

\* --days pass.  A request is over long before its entry is a day old.
Age(j) ==
    /\ row[j] # None /\ Over(row[j]) /\ j \notin aged
    /\ aged' = aged \cup {j}
    /\ UNCHANGED <<row, files, uploads, prunes, lock>>

\* The grace period passes.  It is five minutes; a request that has saved its
\* file ends within two busy timeouts of five seconds, or is killed.
Settle(u) ==
    /\ Over(u) /\ file[Job[u]] = u /\ u \notin settled
    /\ settled' = settled \cup {u}
    /\ UNCHANGED <<entries, file, tmp, inode, uploads, prunes, lock>>

OtherWriter ==
    /\ ElsewhereTakes \/ ElsewhereDrops
    /\ UNCHANGED <<entries, files, uploads, prunes>>

Handler(u) ==
    \/ Save(u) \/ SaveFails(u) \/ Insert(u) \/ RefuseDuplicate(u) \/ Rename(u)
    \/ Commit(u) \/ StoreFails(u) \/ Rollback(u) \/ Cleanup(u)

Upload(u) == Refuse(u) \/ Start(u) \/ Handler(u) \/ Crash(u)

\* What prune-history does once it is started.
Work(p) ==
    \/ Stat(p) \/ Decide(p) \/ DeleteRows(p) \/ DeleteRefused(p)
    \/ Check(p) \/ Unlink(p) \/ UnlinkFails(p)
    \/ Snapshot(p) \/ Scan(p) \/ Finish(p)

Prune(p) == Select(p) \/ Work(p) \/ PruneCrash(p)

Next == \/ OtherWriter
        \/ \E u \in Uploads : Upload(u) \/ Settle(u)
        \/ \E p \in Prunes : Prune(p)
        \/ \E j \in Jobs : Age(j)

\* A worker runs its handler to the end, and so does a prune that has started:
\* neither waits for another process for longer than the busy timeout.
Spec == /\ Init /\ [][Next]_vars
        /\ \A u \in Uploads : WF_vars(Handler(u))
        /\ \A p \in Prunes : WF_vars(Work(p))

----------------------------------------------------------------------------
(* Properties *)

\* A committed row has its own XML behind it, through failed uploads, crashes and
\* prunes.  A row without a file would lock its job out for good behind the
\* UNIQUE constraint (history_api.py:78-81).  The exception is the gap between
\* the inode check of a prune and its unlink, which raced records.
EntryHasItsFile ==
    \A j \in Jobs \ raced : row[j] # None => file[j] = row[j]

\* An entry never changes, and only goes once it is old: duplicates are refused
\* (history_cache.py:35-51) and a prune keeps "entries newer than this many
\* days" (flask_db.py:99).
EntryExpires ==
    \A j \in Jobs : row[j] # None /\ row'[j] # row[j] => row'[j] = None /\ j \in aged
EntriesOnlyExpire == [][EntryExpires]_vars

\* A prune that ran to its end has removed every file whose inode it recorded, or
\* named it as stranded: nothing is left that no one knows of (retention.py:103-131).
\* A dry run removes nothing.
PrunedFilesAccounted ==
    \A p \in Prunes \ DryRuns : stage[p] \in {"scanning", "done"} =>
        \A j \in expired[p] \ stranded[p] :
            seen[p][j] # None => file[j] # seen[p][j]

\* What a prune reports as an orphan is no entry's file and never becomes one:
\* "those files are safe to delete; uploads still in flight are not listed"
\* (README.md:194-195).
OrphansAreSafeToDelete ==
    \A p \in Prunes : \A x \in report[p] : Over(x) /\ row[Job[x]] # x

\* The write lock never outlives the request that took it.
NoLeakedLock ==
    \A u \in Uploads : lock = u =>
        pc[u] \in {"refusing", "renaming", "committing", "failing", "cleanup"}

\* Every upload that was begun is answered, or its worker dies, also while
\* another writer keeps the lock for good.
UploadAnswered == \A u \in Uploads : pc[u] = "saving" ~> Over(u)

\* A prune that was started ends, whatever uploads come in meanwhile.
PruneEnds == \A p \in Prunes : stage[p] = "stating" ~> ~Running(p)

----------------------------------------------------------------------------
(* What uploads and prunes come to *)

\* What is kept of a job: an entry counts when the bytes are those it was recorded
\* with, but for the gap in Unlink.
Kept(j) == IF j \in raced \/ file[j] = row[j] THEN row[j] ELSE None

Verdict(u) == CASE reply[u] = "none" -> "pending"
                [] reply[u] = "200" -> "accepted"
                [] reply[u] = "recorded" -> "recorded"
                [] reply[u] \in {"400", "500"} -> "failed"

Store == INSTANCE HistoryStore
    WITH entry <- [j \in Jobs |-> Kept(j)],
         old <- aged,
         verdict <- [u \in Uploads |-> Verdict(u)]

\* An upload takes effect in one step, bytes and row together, and at most one per
\* job; a caller is only told that a job is recorded while it is; and a prune takes
\* old entries in one step and no others, however its commands, its unlinks and the
\* uploads are interleaved (history_api.py:78-86, retention.py:85-88).
ImplementsHistoryStore == Store!Spec

----------------------------------------------------------------------------
(* What uploads and prunes have ahead of them *)

StepsLeft == [new |-> 7, saving |-> 6, inserting |-> 5, refusing |-> 4, renaming |-> 4,
              committing |-> 3, failing |-> 2, cleanup |-> 1, done |-> 0, dead |-> 0]
StagesLeft == [idle |-> 5, stating |-> 4, deleting |-> 3, unlinking |-> 2, scanning |-> 1,
               done |-> 0, dead |-> 0]

\* A prune has gone on to a later stage, is done with a job of the loop it is in, or
\* has checked the file it is to unlink.
Nearer(p) ==
    \/ StagesLeft[stage'[p]] < StagesLeft[stage[p]]
    \/ stage'[p] = stage[p] /\ todo'[p] \subseteq todo[p] /\ todo'[p] # todo[p]
    \/ UNCHANGED <<stage[p], todo[p]>> /\ hit[p] = None /\ hit'[p] # None

\* Each step of a request or a prune brings it nearer its end, and what others do in the
\* meantime puts it back nowhere: no upload adds to the files a prune has to unlink or to
\* examine, and none is unlinked or scanned twice (retention.py:103-158).
StepsCount ==
    /\ \A u \in Uploads :
          /\ Handler(u) => pc'[u] # pc[u]
          /\ pc'[u] # pc[u] => StepsLeft[pc'[u]] < StepsLeft[pc[u]]
    /\ \A p \in Prunes :
          /\ Work(p) => Nearer(p)
          /\ Nearer(p) \/ UNCHANGED <<stage[p], todo[p], hit[p]>>
EveryStepCounts == [][StepsCount]_vars

----------------------------------------------------------------------------
(* Inductive invariants *)

\* Past the rename the bytes of u can only be removed, never put back.
Placed(u) == pc[u] \in {"committing", "failing", "cleanup", "done", "dead"}

\* An upload between its insert and the end of its transaction has the write
\* lock, so no one else records the job it found free.
WriterInv == \A u \in Uploads :
    /\ pc[u] \in {"refusing", "renaming", "committing"} => lock = u
    /\ pc[u] \in {"renaming", "committing"} => row[Job[u]] = None
    /\ u \in settled => Over(u)

\* An upload is answered once, and the entry it found keeps its place until it has
\* been told of it.
AnswerInv == \A u \in Uploads :
    /\ pc[u] \in {"new", "saving", "inserting", "refusing", "renaming", "committing"}
          => reply[u] = "none"
    /\ pc[u] = "refusing" => row[Job[u]] # None

\* Files and recorded inodes are of uploads for that very job.
PlaceInv ==
    /\ \A j \in Jobs : file[j] # None => Job[file[j]] = j /\ Placed(file[j])
    /\ \A p \in Prunes, j \in Jobs :
          seen[p][j] # None => Job[seen[p][j]] = j /\ Placed(seen[p][j])

\* A prune only has a file in hand while it unlinks, and the files it is done
\* with are gone or stranded.
PruneInv == \A p \in Prunes :
    /\ stage[p] \in {"idle", "stating", "deleting"} => hit[p] = None
    /\ stage[p] \in {"unlinking", "scanning", "done"} =>
          \A j \in expired[p] \ stranded[p] :
              (stage[p] = "unlinking" /\ j \in todo[p]) \/ p \in DryRuns
                  \/ seen[p][j] = None \/ file[j] # seen[p][j]

\* The file a prune has in hand is of a job it is not done with.
HitInv == \A p \in Prunes :
    stage[p] = "unlinking" /\ hit[p] # None => Job[hit[p]] \in todo[p]

\* Files old enough to be reported belong to uploads that are over, and those at
\* a path still to be looked at were not recorded when the scan began.
ScanInv == \A p \in Prunes :
    /\ old[p] \subseteq settled
    /\ stage[p] = "scanning" =>
          \A x \in old[p] : Job[x] \in todo[p] => row[Job[x]] # x
    /\ \A x \in report[p] : Over(x) /\ row[Job[x]] # x

\* Without reused inodes, the file a prune unlinks is one whose row it deleted:
\* it is not recorded, and no longer can be.
UnlinkInv ==
    /\ \A u \in Uploads : inode[u] = u
    /\ \A j \in Jobs \ raced : row[j] # None => file[j] = row[j]
    /\ \A u \in Uploads : pc[u] = "committing" => file[Job[u]] = u \/ Job[u] \in raced
    /\ \A p \in Prunes : stage[p] = "unlinking" =>
          /\ hit[p] # None => /\ Job[hit[p]] \in expired[p]
                              /\ seen[p][Job[hit[p]]] = hit[p]
          /\ todo[p] \subseteq expired[p]
          /\ \A j \in expired[p] : seen[p][j] # None =>
                row[j] # seen[p][j] /\ pc[seen[p][j]] # "committing"

\* Without overlapping prunes, the rows a prune is about to delete are still
\* the ones it selected.
SelectInv ==
    /\ \A p, q \in Prunes : Running(p) /\ Running(q) => p = q
    /\ \A p \in Prunes : stage[p] \in {"stating", "deleting"} => expired[p] \subseteq aged
=============================================================================
