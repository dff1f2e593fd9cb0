---------------------------- MODULE SyncResults ----------------------------
(***************************************************************************)
(* PUT /sync-results/<version>: upload_sync_results and the disk           *)
(* reconciliation it ends with (sync_results_api.py), over the upsert of   *)
(* sync_results_cache.py.                                                  *)
(*                                                                         *)
(* Each upload request is a process of its own: the service runs several   *)
(* worker processes, which share the database and the folder of zips and   *)
(* nothing else.  A step of the model is one call on that shared state.    *)
(* Zips are not looked into: an upload names the bytes it carries.         *)
(***************************************************************************)
EXTENDS WriteLock

CONSTANTS Versions,   \* versions zips are stored for
          Uploads,    \* upload requests, and the bytes they carry
          Target,     \* upload -> the version in its URL
          Valid,      \* uploads carrying a non-empty zip _valid_zip can read
          Faults,     \* version -> what may go wrong with uploads of it
          None        \* no row, or no file

(***************************************************************************)
(* What may go wrong:                                                      *)
(*   "overlap"   two uploads of the version are handled at once            *)
(*   "crash"     the worker dies, or is killed by its 30 s request timeout *)
(*   "database"  a commit or a rollback is refused, an insert fails        *)
(*   "disk"      saving, fsync, a replace or a rename raises OSError       *)
(*   "stat"      the question whether the stored zip exists raises OSError *)
(*   "undo"      a file operation of the final reconciliation raises       *)
(***************************************************************************)
FaultKinds == {"overlap", "crash", "database", "disk", "stat", "undo"}

ASSUME TargetAssumption == Target \in [Uploads -> Versions]
ASSUME ValidAssumption == Valid \subseteq Uploads
ASSUME FaultsAssumption == Faults \in [Versions -> SUBSET FaultKinds]
ASSUME NoneAssumption == None \notin Uploads
ASSUME LockAssumption ==
    NoOne # Elsewhere /\ NoOne \notin Uploads /\ Elsewhere \notin Uploads

VARIABLES
    row,      \* version -> upload recorded by the committed sync_results row
    file,     \* version -> bytes at <version>.zip
    prev,     \* version -> bytes at <version>.zip.prev
    tmp,      \* uploads whose own .upload-*.tmp file is on disk
    had,      \* uploads with had_previous_file set
    backed,   \* uploads with previous_backed_up set
    pc,       \* upload -> the call it makes next
    reply     \* upload -> the HTTP status it will be answered with

disk == <<file, prev, tmp>>
locals == <<had, backed>>
vars == <<row, file, prev, tmp, had, backed, pc, reply, lock>>

Steps == {"new", "saving", "inserting", "looking", "backing", "renaming",
          "committing", "settling", "failing", "undoing", "cleanup",
          "done", "dead"}
Replies == {"none", "200", "400", "500", "503"}

TypeOK ==
    /\ row \in [Versions -> Uploads \cup {None}]
    /\ file \in [Versions -> Uploads \cup {None}]
    /\ prev \in [Versions -> Uploads \cup {None}]
    /\ tmp \subseteq Uploads
    /\ had \subseteq Uploads
    /\ backed \subseteq had
    /\ pc \in [Uploads -> Steps]
    /\ reply \in [Uploads -> Replies]
    /\ lock \in Uploads \cup {NoOne, Elsewhere}

Init ==
    /\ row = [v \in Versions |-> None]
    /\ file = [v \in Versions |-> None]
    /\ prev = [v \in Versions |-> None]
    /\ tmp = {}
    /\ had = {}
    /\ backed = {}
    /\ pc = [u \in Uploads |-> "new"]
    /\ reply = [u \in Uploads |-> "none"]
    /\ lock = NoOne

----------------------------------------------------------------------------
May(fault, u) == fault \in Faults[Target[u]]

\* Moves u from one step of its handler to the next.
Go(u, from, to) == pc[u] = from /\ pc' = [pc EXCEPT ![u] = to]

\* The same on an error path, which settles the answer.
Fail(u, from, to, codes) ==
    /\ Go(u, from, to)
    /\ \E code \in codes : reply' = [reply EXCEPT ![u] = code]

InFlight(u) == pc[u] \notin {"new", "done", "dead"}

\* One upload of a version at a time, unless overlaps are allowed for it.
Alone(u) ==
    \/ May("overlap", u)
    \/ \A w \in Uploads : Target[w] = Target[u] => ~InFlight(w)

----------------------------------------------------------------------------
(* Plausible mistakes in the steps below.  None of them is part of Next:   *)
(* each stands in for the step it is named after, to see that a property   *)
(* of this module tells the two apart.                                     *)

\* The content check is forgotten.
SaveUnchecked(u) ==
    /\ Go(u, "saving", "inserting")
    /\ UNCHANGED <<row, disk, locals, reply, lock>>

\* The connection is in autocommit mode: the row is visible at once.
InsertAutocommit(u) ==
    /\ Go(u, "inserting", "looking")
    /\ lock = NoOne
    /\ row' = [row EXCEPT ![Target[u]] = u]
    /\ UNCHANGED <<disk, locals, reply, lock>>

\* The reconciliation is not gated by entered_disk_phase.
InsertBusyUngated(u) ==
    /\ Busy(u)
    /\ Fail(u, "inserting", "undoing", {"503"})
    /\ UNCHANGED <<row, disk, locals, lock>>

\* No busy timeout: the insert waits for as long as it takes.
InsertBusyWaits(u) == Busy(u) /\ pc[u] = "inserting" /\ UNCHANGED vars

\* had_previous_file is not recorded.
LookForgets(u) ==
    /\ Go(u, "looking", IF file[Target[u]] = None THEN "renaming" ELSE "backing")
    /\ UNCHANGED <<row, disk, locals, reply, lock>>

\* A rename that raises is taken for one that worked.
RenameFailsUnnoticed(u) ==
    /\ May("disk", u)
    /\ Go(u, "renaming", "committing")
    /\ UNCHANGED <<row, disk, locals, reply, lock>>

\* Whether there is a backup is asked before whether the row was committed.
DiscardPutsBack(u) ==
    LET v == Target[u] IN
    /\ Go(u, "settling", "cleanup")
    /\ IF u \in backed /\ prev[v] # None
       THEN /\ file' = [file EXCEPT ![v] = prev[v]]
            /\ prev' = [prev EXCEPT ![v] = None]
       ELSE UNCHANGED <<file, prev>>
    /\ UNCHANGED <<row, tmp, locals, reply, lock>>

\* The backup is not put back.
UndoWithoutRestore(u) ==
    /\ Go(u, "undoing", "cleanup")
    /\ file' = IF u \in had THEN file ELSE [file EXCEPT ![Target[u]] = None]
    /\ UNCHANGED <<row, prev, tmp, locals, reply, lock>>

\* A first zip that was never recorded is left in place.
UndoKeepsFirst(u) ==
    LET v == Target[u] IN
    /\ Go(u, "undoing", "cleanup")
    /\ IF u \in backed /\ prev[v] # None
       THEN /\ file' = [file EXCEPT ![v] = prev[v]]
            /\ prev' = [prev EXCEPT ![v] = None]
       ELSE UNCHANGED <<file, prev>>
    /\ UNCHANGED <<row, tmp, locals, reply, lock>>

\* Whatever was not moved aside is removed, the untouched zip included.
UndoUnlinksUnbacked(u) ==
    LET v == Target[u] IN
    /\ Go(u, "undoing", "cleanup")
    /\ file' = [file EXCEPT ![v] = IF u \in backed THEN prev[v] ELSE None]
    /\ prev' = IF u \in backed THEN [prev EXCEPT ![v] = None] ELSE prev
    /\ UNCHANGED <<row, tmp, locals, reply, lock>>

\* The temp file stays behind.
CleanupLeavesTemp(u) ==
    /\ Go(u, "cleanup", "done")
    /\ Drop(u)
    /\ UNCHANGED <<row, disk, locals, reply>>

\* The connection is not closed with the request.
CleanupKeepsConnection(u) ==
    /\ Go(u, "cleanup", "done")
    /\ tmp' = tmp \ {u}
    /\ UNCHANGED <<row, file, prev, locals, reply, lock>>

----------------------------------------------------------------------------
(* Before the database is touched *)

\* A bad request is answered before anything is created; so is a folder in
\* which no temp file can be made.
Refuse(u) ==
    /\ Fail(u, "new", "done", {"400"} \cup (IF May("disk", u) THEN {"500"} ELSE {}))
    /\ UNCHANGED <<row, disk, locals, lock>>

\* mkstemp gives the request a temp file no other request shares.
Start(u) ==
    /\ Alone(u)
    /\ Go(u, "new", "saving")
    /\ tmp' = tmp \cup {u}
    /\ UNCHANGED <<row, file, prev, locals, reply, lock>>

\* The body is written, fsynced and found to be a readable zip.
Save(u) ==
    /\ u \in Valid
    /\ Go(u, "saving", "inserting")
    /\ UNCHANGED <<row, disk, locals, reply, lock>>

RejectContent(u) ==
    /\ u \notin Valid
    /\ Fail(u, "saving", "cleanup", {"400"})
    /\ UNCHANGED <<row, disk, locals, lock>>

SaveFails(u) ==
    /\ May("disk", u)
    /\ Fail(u, "saving", "cleanup", {"500"})
    /\ UNCHANGED <<row, disk, locals, lock>>

----------------------------------------------------------------------------
(* The disk phase, under the write lock the upsert took *)

Insert(u) ==
    /\ Go(u, "inserting", "looking")
    /\ Take(u)
    /\ UNCHANGED <<row, disk, locals, reply>>

\* Another writer outlasts the busy timeout; the rollback is a no-op.
InsertBusy(u) ==
    /\ Busy(u)
    /\ Fail(u, "inserting", "cleanup", {"503"})
    /\ UNCHANGED <<row, disk, locals, lock>>

InsertError(u) ==
    /\ May("database", u)
    /\ Fail(u, "inserting", "cleanup", {"500"})
    /\ UNCHANGED <<row, disk, locals, lock>>

\* had_previous_file = filepath.exists()
Look(u) ==
    /\ Go(u, "looking", IF file[Target[u]] = None THEN "renaming" ELSE "backing")
    /\ had' = IF file[Target[u]] = None THEN had ELSE had \cup {u}
    /\ UNCHANGED <<row, disk, backed, reply, lock>>

\* exists() raises with had_previous_file still at its default.
LookFails(u) ==
    /\ May("stat", u)
    /\ Fail(u, "looking", "failing", {"500"})
    /\ UNCHANGED <<row, disk, locals, lock>>

\* filepath.replace(prev_filepath), over whatever .prev held before
Backup(u) ==
    LET v == Target[u] IN
    /\ file[v] # None
    /\ Go(u, "backing", "renaming")
    /\ prev' = [prev EXCEPT ![v] = file[v]]
    /\ file' = [file EXCEPT ![v] = None]
    /\ backed' = backed \cup {u}
    /\ UNCHANGED <<row, tmp, had, reply, lock>>

BackupFails(u) ==
    /\ file[Target[u]] = None \/ May("disk", u)
    /\ Fail(u, "backing", "failing", {"500"})
    /\ UNCHANGED <<row, disk, locals, lock>>

\* tmp_filepath.rename(filepath), over whatever is there
Rename(u) ==
    /\ Go(u, "renaming", "committing")
    /\ file' = [file EXCEPT ![Target[u]] = u]
    /\ tmp' = tmp \ {u}
    /\ UNCHANGED <<row, prev, locals, reply, lock>>

RenameFails(u) ==
    /\ May("disk", u)
    /\ Fail(u, "renaming", "failing", {"500"})
    /\ UNCHANGED <<row, disk, locals, lock>>

\* The row becomes visible and the write lock is given up.
Commit(u) ==
    /\ Fail(u, "committing", "settling", {"200"})
    /\ row' = [row EXCEPT ![Target[u]] = u]
    /\ Drop(u)
    /\ UNCHANGED <<disk, locals>>

\* A reader outlasts the busy timeout (503), or the database is sick (500).
CommitFails(u) ==
    /\ May("database", u)
    /\ Fail(u, "committing", "failing", {"503", "500"})
    /\ UNCHANGED <<row, disk, locals, lock>>

\* _rollback: other writers may go on from here, before the disk is put right.
Rollback(u) ==
    /\ Go(u, "failing", "undoing")
    /\ Drop(u)
    /\ UNCHANGED <<row, disk, locals, reply>>

\* A rollback that raises is only logged; teardown will close the connection.
RollbackFails(u) ==
    /\ May("database", u)
    /\ Go(u, "failing", "undoing")
    /\ UNCHANGED <<row, disk, locals, reply, lock>>

----------------------------------------------------------------------------
(* _finalize_upload_disk_state, without the write lock *)

\* Nothing committed: the backup goes back, or a first zip is removed.  With a
\* zip that was never moved aside there is nothing to do.
Undo(u) ==
    LET v == Target[u] IN
    /\ Go(u, "undoing", "cleanup")
    /\ \/ /\ u \in backed /\ prev[v] # None
          /\ file' = [file EXCEPT ![v] = prev[v]]
          /\ prev' = [prev EXCEPT ![v] = None]
       \/ /\ u \notin had
          /\ file' = [file EXCEPT ![v] = None]
          /\ UNCHANGED prev
       \/ /\ u \in had \ backed \/ (u \in backed /\ prev[v] = None)
          /\ UNCHANGED <<file, prev>>
    /\ UNCHANGED <<row, tmp, locals, reply, lock>>

\* Committed: the backup is no longer needed.
DiscardBackup(u) ==
    /\ Go(u, "settling", "cleanup")
    /\ prev' = IF u \in backed THEN [prev EXCEPT ![Target[u]] = None] ELSE prev
    /\ UNCHANGED <<row, file, tmp, locals, reply, lock>>

\* Either of them raises OSError, which is logged and passed over.
FinalizeFails(u) ==
    /\ May("undo", u)
    /\ Go(u, "undoing", "cleanup") \/ Go(u, "settling", "cleanup")
    /\ UNCHANGED <<row, disk, locals, reply, lock>>

\* The temp file is unlinked, the answer is sent, and teardown closes the
\* connection, which ends a transaction a failed rollback left open.
Cleanup(u) ==
    /\ Go(u, "cleanup", "done")
    /\ \/ tmp' = tmp \ {u}
       \/ May("undo", u) /\ UNCHANGED tmp
    /\ Drop(u)
    /\ UNCHANGED <<row, file, prev, locals, reply>>

\* The worker is gone: SQLite discards its open transaction, the disk stays.
Crash(u) ==
    /\ May("crash", u)
    /\ InFlight(u)
    /\ pc' = [pc EXCEPT ![u] = "dead"]
    /\ Drop(u)
    /\ UNCHANGED <<row, disk, locals, reply>>

----------------------------------------------------------------------------
OtherWriter ==
    /\ ElsewhereTakes \/ ElsewhereDrops
    /\ UNCHANGED <<row, disk, locals, pc, reply>>

\* What a handler does by itself; with no sick database and no failing disk this
\* is all.
Progress(u) ==
    \/ Save(u) \/ RejectContent(u) \/ Insert(u) \/ InsertBusy(u)
    \/ Look(u) \/ Backup(u) \/ BackupFails(u) \/ Rename(u)
    \/ Commit(u) \/ Rollback(u) \/ Undo(u) \/ DiscardBackup(u) \/ Cleanup(u)

\* What may go wrong instead.
Trouble(u) ==
    \/ SaveFails(u) \/ InsertError(u) \/ LookFails(u) \/ RenameFails(u)
    \/ CommitFails(u) \/ RollbackFails(u) \/ FinalizeFails(u)

Handler(u) == Progress(u) \/ Trouble(u)

Request(u) == Refuse(u) \/ Start(u) \/ Handler(u) \/ Crash(u)

Next == OtherWriter \/ \E u \in Uploads : Request(u)

\* A worker runs its handler to the end, with no need of any trouble: no step waits
\* for another process for longer than the busy timeout.  Nothing makes a client
\* send an upload, or another writer take or give up the lock.
Spec == Init /\ [][Next]_vars /\ \A u \in Uploads : WF_vars(Progress(u))

----------------------------------------------------------------------------
(* Properties *)

\* Versions whose uploads never overlap and whose folder answers stat.
Restartable == {v \in Versions : Faults[v] \cap {"overlap", "stat"} = {}}

\* And whose workers neither die nor fail to put the disk right.
Calm == {v \in Restartable : Faults[v] \cap {"crash", "undo"} = {}}

Quiet(v) == \A u \in Uploads : Target[u] = v => ~InFlight(u)
Settled(v) == file[v] = row[v] /\ prev[v] = None

\* The zip a version's row promises, as far as the disk still holds it.
LastGood(v) == IF row[v] \in {file[v], prev[v]} THEN row[v] ELSE None

\* A recorded zip is on disk, in place or as .prev, at every moment: before,
\* during and after an upload that replaces it, and whatever becomes of that
\* upload (sync_results_api.py:246-251, tests/test_sync_results.py:623).
LastGoodZipKept == \A v \in Calm : row[v] # None => LastGood(v) = row[v]

\* Between uploads the row, the zip and the absence of a backup agree: a
\* version is recorded if and only if it can be downloaded, and what can be
\* downloaded is what was recorded (_finalize_upload_disk_state).
QuietVersionSettled == \A v \in Calm : Quiet(v) => Settled(v)

\* A refused upload leaves nothing behind: not its bytes under either name,
\* not its row, not its temp file (the finally block, 302-322).
RefusedLeavesNoTrace ==
    \A u \in Uploads :
        /\ Target[u] \in Calm
        /\ pc[u] = "done"
        /\ reply[u] # "200"
        => /\ u \notin tmp
           /\ u \notin {row[Target[u]], file[Target[u]], prev[Target[u]]}

\* With crashes and a reconciliation that may fail as well, a recorded version
\* still has some zip, in place or as .prev, for the operator to fall back on
\* (README.md:213-219).
RecoverableVersion ==
    \A v \in Restartable : row[v] # None => file[v] # None \/ prev[v] # None

\* The same of every version, whatever may go wrong with it: what the comment
\* on a missing zip (353-362) and the README lead an operator to expect.
NoRecordWithoutZip ==
    \A v \in Versions : row[v] # None => file[v] # None \/ prev[v] # None

\* The last recorded zip survives crashes too, under one name or the other:
\* README.md:213-219 calls .prev "the last good copy".
LastGoodSurvivesCrash ==
    \A v \in Restartable : row[v] # None => LastGood(v) = row[v]

\* Only bytes _valid_zip accepted are ever served, kept or recorded, with every
\* fault and every overlap: the endpoint's "whole safety story" (189-191).
OnlyValidatedBytes ==
    \A v \in Versions : {row[v], file[v], prev[v]} \subseteq Valid \cup {None}

\* A row changes only to name the zip in place at that moment: "commit only
\* after the zip itself is in place" (sync_results_cache.py:36-37).
ZipInPlace ==
    \A v \in Restartable : row'[v] # row[v] => file[v] = row'[v]
CommitOnlyWithZipInPlace == [][ZipInPlace]_vars

\* The write lock never outlives the request that took it, even when the
\* rollback failed or the worker died: no later upload waits on it (close_db).
NoLeakedLock ==
    \A u \in Uploads : lock = u =>
        pc[u] \in {"looking", "backing", "renaming", "committing",
                  "failing", "undoing", "cleanup"}

\* Every upload that was begun is answered, or its worker dies, also while
\* another writer keeps the lock for good.
UploadAnswered ==
    \A u \in Uploads : pc[u] = "saving" ~> pc[u] \in {"done", "dead"}

\* A recorded version whose zip is missing gets it back without help: the miss
\* of an overwrite is "narrow, self-healing" (353-362).
MissIsSelfHealing ==
    \A v \in Calm : (row[v] # None /\ file[v] = None) ~> file[v] # None

\* What a caller is told of an upload.
Verdict(u) == CASE reply[u] = "none" -> "pending"
                [] reply[u] = "200" -> "accepted"
                [] OTHER -> "refused"

CalmUploads == {u \in Uploads : Target[u] \in Calm}

Store == INSTANCE VersionStore
    WITH Versions <- Calm,
         Uploads <- CalmUploads,
         Target <- [u \in CalmUploads |-> Target[u]],
         Valid <- Valid \cap CalmUploads,
         stored <- [v \in Calm |-> LastGood(v)],
         verdict <- [u \in CalmUploads |-> Verdict(u)]

\* An upload replaces the zip of its version in one step or not at all: the
\* backup, the rename and the commit together look like one assignment.
ImplementsVersionStore == Store!Spec

----------------------------------------------------------------------------
(* Inductive invariants.  They relate where an upload is to what the row,  *)
(* the zip and the backup of its version hold at that point.               *)

\* Only an upload that found a zip moves one aside.
LookedFirst == \A u \in Uploads : pc[u] = "backing" => u \in had

Exclusive(v) == \A u, w \in Uploads :
    Target[u] = v /\ Target[w] = v /\ InFlight(u) /\ InFlight(w) => u = w

Recoverable(v) == row[v] # None => file[v] # None \/ prev[v] # None

RecoverableAt(u, v) ==
    /\ pc[u] \in {"new", "saving", "inserting", "looking"} => u \notin had
    /\ pc[u] \in {"committing", "settling"} => file[v] = u
    /\ pc[u] \in {"renaming", "committing", "failing", "undoing"} /\ u \notin had
          => row[v] = None \/ prev[v] # None

\* Removing a first zip or a backup is safe because of what the upload knows by
\* then: that nothing is recorded or a backup exists, that its own zip is there.
RecoverableInv == \A v \in Restartable :
    /\ Exclusive(v)
    /\ Recoverable(v)
    /\ \A u \in Uploads : Target[u] = v => RecoverableAt(u, v)

\* The backup of u is what the row names; without one nothing is recorded.
BackedUp(u, v) == IF u \in backed THEN prev[v] = row[v] /\ row[v] # None
                                  ELSE prev[v] = None /\ row[v] = None /\ u \notin had

CalmAt(u, v) ==
    /\ pc[u] \in {"new", "saving", "inserting", "looking"} => u \notin had
    /\ pc[u] \in {"saving", "inserting", "looking", "cleanup"} => Settled(v)
    /\ pc[u] = "backing" => Settled(v) /\ row[v] # None /\ u \in had \ backed
    /\ pc[u] = "renaming" => BackedUp(u, v) /\ file[v] = None
    /\ pc[u] = "committing" => BackedUp(u, v) /\ file[v] = u
    /\ pc[u] = "settling" => row[v] = u /\ file[v] = u /\ (u \in backed \/ prev[v] = None)
    /\ pc[u] \in {"failing", "undoing"} =>
          \/ BackedUp(u, v)
          \/ u \in had \ backed /\ Settled(v)

\* The bytes of an upload are under a name of its version only once it is
\* recorded, or while its own zip waits for the commit or its undoing.
TraceAt(u, v) ==
    /\ u \in tmp => pc[u] \notin {"new", "done"}
    /\ u \in {row[v], prev[v]} => reply[u] = "200"
    /\ file[v] = u => reply[u] = "200" \/ pc[u] \in {"committing", "failing", "undoing"}

\* At most one upload of a calm version is under way, and at each of its steps
\* the disk is one call away from agreeing with the row again.
CalmInv == \A v \in Calm :
    /\ Exclusive(v)
    /\ Quiet(v) => Settled(v)
    /\ \A u \in Uploads : Target[u] = v => CalmAt(u, v)
=============================================================================
