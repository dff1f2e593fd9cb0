------------------------- MODULE SyncResultsProofs -------------------------
(***************************************************************************)
(* What upload_sync_results guarantees for every number of versions and    *)
(* uploads, every mixture of faults and every interleaving.                *)
(***************************************************************************)
EXTENDS SyncResults, TLAPS

USE TargetAssumption, ValidAssumption, FaultsAssumption, NoneAssumption, LockAssumption

\* An upload moves aside only a zip it found, so it looked before.
LEMMA TypeInductive == Spec => [](TypeOK /\ LookedFirst)
<1> DEFINE TypeInv == TypeOK /\ LookedFirst
<1>1. Init => TypeInv
  BY DEF Init, TypeOK, LookedFirst, Steps, Replies
<1>2. TypeInv /\ [Next]_vars => TypeInv'
  <2> SUFFICES ASSUME TypeInv, [Next]_vars PROVE TypeInv'
    OBVIOUS
  <2> USE DEF TypeOK, LookedFirst, Steps, Replies, disk, locals, Go, Fail, May, Drop, Take
  <2>1. CASE UNCHANGED vars
    BY <2>1 DEF vars
  <2>2. CASE OtherWriter
    BY <2>2 DEF OtherWriter, ElsewhereTakes, ElsewhereDrops
  <2>3. ASSUME NEW u \in Uploads, Request(u) PROVE TypeInv'
    <3> USE DEF InFlight
    <3>1. CASE Refuse(u)
      BY <3>1 DEF Refuse
    <3>2. CASE Start(u)
      BY <3>2 DEF Start
    <3>3. CASE Save(u) \/ RejectContent(u) \/ SaveFails(u)
      BY <3>3 DEF Save, RejectContent, SaveFails
    <3>4. CASE Insert(u) \/ InsertBusy(u) \/ InsertError(u)
      BY <3>4 DEF Insert, InsertBusy, InsertError
    <3>5. CASE Look(u) \/ LookFails(u)
      BY <3>5 DEF Look, LookFails
    <3>6. CASE Backup(u)
      BY <3>6 DEF Backup
    <3>7. CASE BackupFails(u) \/ RenameFails(u) \/ CommitFails(u)
      BY <3>7 DEF BackupFails, RenameFails, CommitFails
    <3>8. CASE Rename(u)
      BY <3>8 DEF Rename
    <3>9. CASE Commit(u)
      BY <3>9 DEF Commit
    <3>10. CASE Rollback(u) \/ RollbackFails(u)
      BY <3>10 DEF Rollback, RollbackFails
    <3>11. CASE Undo(u)
      BY <3>11 DEF Undo
    <3>12. CASE DiscardBackup(u) \/ FinalizeFails(u)
      BY <3>12 DEF DiscardBackup, FinalizeFails
    <3>13. CASE Cleanup(u) \/ Crash(u)
      BY <3>13 DEF Cleanup, Crash
    <3> QED
      BY <2>3, <3>1, <3>2, <3>3, <3>4, <3>5, <3>6, <3>7, <3>8, <3>9, <3>10,
         <3>11, <3>12, <3>13 DEF Request, Handler, Progress, Trouble
  <2> QED
    BY <2>1, <2>2, <2>3 DEF Next
<1> QED
  BY <1>1, <1>2, PTL DEF Spec

\* The variables keep their types: rows and files hold whole uploads or nothing,
\* and an upload only counts a backup it looked for first.
THEOREM TypeCorrect == Spec => []TypeOK
  BY TypeInductive, PTL

-----------------------------------------------------------------------------

\* The write lock is never held for a request that is over: whatever fails, and
\* wherever the worker dies, no other writer is locked out for good.
THEOREM LockReleased == Spec => []NoLeakedLock
<1>1. Init => NoLeakedLock
  BY DEF Init, NoLeakedLock
<1>2. TypeOK /\ NoLeakedLock /\ [Next]_vars => NoLeakedLock'
  <2> SUFFICES ASSUME TypeOK, NoLeakedLock, [Next]_vars PROVE NoLeakedLock'
    OBVIOUS
  <2> USE DEF NoLeakedLock, Take, Drop
  <2>1. CASE UNCHANGED vars
    BY <2>1 DEF vars
  <2>2. CASE OtherWriter
    BY <2>2 DEF OtherWriter, ElsewhereTakes, ElsewhereDrops
  <2>3. ASSUME NEW u \in Uploads, Request(u) PROVE NoLeakedLock'
    <3> USE DEF TypeOK, Go, Fail
    <3>1. CASE Refuse(u) \/ Start(u) \/ Save(u) \/ RejectContent(u) \/ SaveFails(u)
      BY <3>1 DEF Refuse, Start, Save, RejectContent, SaveFails
    <3>2. CASE Insert(u) \/ InsertBusy(u) \/ InsertError(u)
      BY <3>2 DEF Insert, InsertBusy, InsertError
    <3>3. CASE Look(u) \/ LookFails(u) \/ Backup(u) \/ BackupFails(u)
      BY <3>3 DEF Look, LookFails, Backup, BackupFails
    <3>4. CASE Rename(u) \/ RenameFails(u) \/ Commit(u) \/ CommitFails(u)
      BY <3>4 DEF Rename, RenameFails, Commit, CommitFails
    <3>5. CASE Rollback(u) \/ RollbackFails(u)
      BY <3>5 DEF Rollback, RollbackFails
    <3>6. CASE Undo(u) \/ DiscardBackup(u) \/ FinalizeFails(u)
      BY <3>6 DEF Undo, DiscardBackup, FinalizeFails
    <3>7. CASE Cleanup(u) \/ Crash(u)
      BY <3>7 DEF Cleanup, Crash
    <3> QED
      BY <2>3, <3>1, <3>2, <3>3, <3>4, <3>5, <3>6, <3>7 DEF Request, Handler, Progress, Trouble
  <2> QED
    BY <2>1, <2>2, <2>3 DEF Next
<1> QED
  BY <1>1, <1>2, TypeCorrect, PTL DEF Spec

-----------------------------------------------------------------------------

\* Bytes that failed the content check are never under a name a download reads,
\* never kept as a backup and never recorded, in any interleaving.
THEOREM ValidatedOnly == Spec => []OnlyValidatedBytes
<1> DEFINE Checked == \A u \in Uploads :
      pc[u] \in {"inserting", "looking", "backing", "renaming", "committing"} => u \in Valid
<1> DEFINE Inv == OnlyValidatedBytes /\ Checked
<1>1. Init => Inv
  BY DEF Init, OnlyValidatedBytes
<1>2. TypeOK /\ Inv /\ [Next]_vars => Inv'
  <2> SUFFICES ASSUME TypeOK, Inv, [Next]_vars PROVE Inv'
    OBVIOUS
  <2> USE DEF OnlyValidatedBytes, disk
  <2>1. CASE UNCHANGED vars
    BY <2>1 DEF vars
  <2>2. CASE OtherWriter
    BY <2>2 DEF OtherWriter
  <2>3. ASSUME NEW u \in Uploads, Request(u) PROVE Inv'
    <3> USE DEF TypeOK, Go, Fail
    <3>1. CASE Refuse(u) \/ Start(u) \/ Save(u) \/ RejectContent(u) \/ SaveFails(u)
      BY <3>1 DEF Refuse, Start, Save, RejectContent, SaveFails
    <3>2. CASE Insert(u) \/ InsertBusy(u) \/ InsertError(u) \/ Look(u) \/ LookFails(u)
      BY <3>2 DEF Insert, InsertBusy, InsertError, Look, LookFails
    <3>3. CASE Backup(u)
      BY <3>3 DEF Backup
    <3>4. CASE BackupFails(u) \/ RenameFails(u) \/ CommitFails(u)
      BY <3>4 DEF BackupFails, RenameFails, CommitFails
    <3>5. CASE Rename(u)
      BY <3>5 DEF Rename
    <3>6. CASE Commit(u)
      BY <3>6 DEF Commit
    <3>7. CASE Rollback(u) \/ RollbackFails(u)
      BY <3>7 DEF Rollback, RollbackFails
    <3>8. CASE Undo(u)
      BY <3>8 DEF Undo
    <3>9. CASE DiscardBackup(u) \/ FinalizeFails(u)
      BY <3>9 DEF DiscardBackup, FinalizeFails
    <3>10. CASE Cleanup(u) \/ Crash(u)
      BY <3>10 DEF Cleanup, Crash
    <3> QED
      BY <2>3, <3>1, <3>2, <3>3, <3>4, <3>5, <3>6, <3>7, <3>8, <3>9, <3>10
         DEF Request, Handler, Progress, Trouble
  <2> QED
    BY <2>1, <2>2, <2>3 DEF Next
<1> QED
  BY <1>1, <1>2, TypeCorrect, PTL DEF Spec

-----------------------------------------------------------------------------
(* Versions whose uploads do not overlap *)

\* Whatever one upload does, at most one upload of its version is under way.
LEMMA ExclusiveStep ==
  ASSUME TypeOK, [Next]_vars, NEW v \in Restartable, Exclusive(v)
  PROVE  Exclusive(v)'
<1> USE DEF Exclusive, InFlight
<1>1. CASE UNCHANGED vars
  BY <1>1 DEF vars
<1>2. CASE OtherWriter
  BY <1>2 DEF OtherWriter
<1>3. ASSUME NEW u \in Uploads, Request(u) PROVE Exclusive(v)'
  <2> USE DEF TypeOK, Go, Fail
  <2>1. CASE Start(u)
    BY <2>1 DEF Start, Alone, May, Restartable
  <2>2. CASE Refuse(u) \/ Crash(u)
    BY <2>2 DEF Refuse, Crash
  <2>3. CASE Handler(u)
    <3>1. InFlight(u) /\ \A w \in Uploads : w # u => pc'[w] = pc[w]
      BY <2>3 DEF Handler, Progress, Trouble, Save, RejectContent, SaveFails, Insert,
         InsertBusy,
         InsertError, Look, LookFails, Backup, BackupFails, Rename, RenameFails,
         Commit, CommitFails, Rollback, RollbackFails, Undo, DiscardBackup,
         FinalizeFails, Cleanup
    <3> QED
      BY <3>1
  <2> QED
    BY <1>3, <2>1, <2>2, <2>3 DEF Request
<1> QED
  BY <1>1, <1>2, <1>3 DEF Next

\* At each step of an upload that may die or fail to put the disk right: the zip or
\* the backup it may remove is not the last one of a recorded version.
THEOREM RecoverableInductive == Spec => []RecoverableInv
<1>1. Init => RecoverableInv
  BY DEF Init, RecoverableInv, Exclusive, InFlight, Recoverable, RecoverableAt, Restartable
<1>2. TypeOK /\ LookedFirst /\ RecoverableInv /\ [Next]_vars => RecoverableInv'
  <2> SUFFICES ASSUME TypeOK, LookedFirst, RecoverableInv, [Next]_vars, NEW v \in Restartable
               PROVE  /\ Recoverable(v)'
                      /\ \A u \in Uploads : Target[u] = v => RecoverableAt(u, v)'
    BY ExclusiveStep DEF RecoverableInv
  <2> DEFINE Goal == /\ Recoverable(v)'
                     /\ \A u \in Uploads : Target[u] = v => RecoverableAt(u, v)'
  <2> USE DEF Recoverable, RecoverableAt, disk, locals
  <2>0. v \in Versions /\ "overlap" \notin Faults[v] /\ "stat" \notin Faults[v]
    BY DEF Restartable
  <2>a. /\ Exclusive(v) /\ Recoverable(v)
        /\ \A u \in Uploads : Target[u] = v => RecoverableAt(u, v)
    BY DEF RecoverableInv
  <2>1. CASE UNCHANGED vars
    BY <2>1, <2>a DEF vars
  <2>2. CASE OtherWriter
    BY <2>2, <2>a DEF OtherWriter
  <2>3. ASSUME NEW u \in Uploads, Request(u) PROVE Goal
    <3> USE <2>0, <2>a DEF TypeOK, Go, Fail, May, Exclusive, InFlight
    <3>1. CASE Refuse(u) \/ Start(u) \/ Save(u) \/ RejectContent(u) \/ SaveFails(u)
      BY <3>1 DEF Refuse, Start, Save, RejectContent, SaveFails
    <3>2. CASE Insert(u) \/ InsertBusy(u) \/ InsertError(u)
      BY <3>2 DEF Insert, InsertBusy, InsertError
    <3>3. CASE Look(u) \/ LookFails(u)
      BY <3>3 DEF Look, LookFails
    <3>4. CASE Backup(u)
      BY <3>4 DEF Backup
    <3>5. CASE BackupFails(u) \/ RenameFails(u) \/ CommitFails(u)
      BY <3>5 DEF BackupFails, RenameFails, CommitFails, LookedFirst
    <3>6. CASE Rename(u)
      BY <3>6 DEF Rename
    <3>7. CASE Commit(u)
      BY <3>7 DEF Commit
    <3>8. CASE Rollback(u) \/ RollbackFails(u)
      BY <3>8 DEF Rollback, RollbackFails
    <3>9. CASE Undo(u)
      BY <3>9 DEF Undo
    <3>10. CASE DiscardBackup(u) \/ FinalizeFails(u)
      BY <3>10 DEF DiscardBackup, FinalizeFails
    <3>11. CASE Cleanup(u) \/ Crash(u)
      BY <3>11 DEF Cleanup, Crash
    <3> QED
      BY <2>3, <3>1, <3>2, <3>3, <3>4, <3>5, <3>6, <3>7, <3>8, <3>9, <3>10, <3>11
         DEF Request, Handler, Progress, Trouble
  <2> QED
    BY <2>1, <2>2, <2>3 DEF Next
<1> QED
  BY <1>1, <1>2, TypeInductive, PTL DEF Spec

\* With crashes, failing commits, failing disks and failing reconciliations, a
\* recorded version keeps a zip in place or as .prev, as long as its uploads do
\* not overlap and stat works.
THEOREM SomeZipRemains == Spec => []RecoverableVersion
<1>1. RecoverableInv => RecoverableVersion
  BY DEF RecoverableInv, RecoverableVersion, Recoverable
<1> QED
  BY <1>1, RecoverableInductive, PTL

\* A row only ever comes to name the zip that is in place when it changes.
THEOREM CommitsInPlace == Spec => CommitOnlyWithZipInPlace
<1>1. TypeOK /\ RecoverableInv /\ [Next]_vars => [ZipInPlace]_vars
  <2> SUFFICES ASSUME TypeOK, RecoverableInv, Next, NEW v \in Restartable, row'[v] # row[v]
               PROVE  file[v] = row'[v]
    BY DEF ZipInPlace
  <2>1. PICK u \in Uploads : Request(u)
    BY DEF Next, OtherWriter
  <2>2. Commit(u)
    BY <2>1 DEF Request, Refuse, Start, Crash, Handler, Progress, Trouble, Save, RejectContent,
       SaveFails, Insert, InsertBusy, InsertError, Look, LookFails, Backup,
       BackupFails, Rename, RenameFails, CommitFails, Rollback, RollbackFails,
       Undo, DiscardBackup, FinalizeFails, Cleanup
  <2>3. v \in Versions /\ (Target[u] = v => RecoverableAt(u, v))
    BY DEF Restartable, RecoverableInv
  <2> QED
    BY <2>2, <2>3 DEF Commit, Fail, Go, RecoverableAt, TypeOK
<1> QED
  BY <1>1, TypeCorrect, RecoverableInductive, PTL DEF Spec, CommitOnlyWithZipInPlace

-----------------------------------------------------------------------------
(* Versions whose workers also live to put the disk right *)

\* Each step of an upload of a calm version knows what row, zip and backup hold.
THEOREM CalmInductive == Spec => []CalmInv
<1>1. Init => CalmInv
  BY DEF Init, CalmInv, Exclusive, InFlight, Settled, CalmAt, Calm, Restartable
<1>2. TypeOK /\ CalmInv /\ [Next]_vars => CalmInv'
  <2> SUFFICES ASSUME TypeOK, CalmInv, [Next]_vars, NEW v \in Calm
               PROVE  /\ Exclusive(v)' /\ (Quiet(v) => Settled(v))'
                      /\ \A u \in Uploads : Target[u] = v => CalmAt(u, v)'
    BY DEF CalmInv
  <2> DEFINE Goal == /\ (Quiet(v) => Settled(v))'
                     /\ \A u \in Uploads : Target[u] = v => CalmAt(u, v)'
  <2>0. /\ v \in Versions /\ v \in Restartable
        /\ Faults[v] \cap {"overlap", "stat", "crash", "undo"} = {}
    BY DEF Calm, Restartable
  <2>a. /\ Exclusive(v) /\ (Quiet(v) => Settled(v))
        /\ \A u \in Uploads : Target[u] = v => CalmAt(u, v)
    BY DEF CalmInv
  <2>b. Exclusive(v)'
    BY <2>0, <2>a, ExclusiveStep
  <2> USE DEF CalmAt, BackedUp, Settled, Quiet, InFlight, disk, locals
  <2>1. CASE UNCHANGED vars
    BY <2>1, <2>a, <2>b DEF vars
  <2>2. CASE OtherWriter
    BY <2>2, <2>a, <2>b DEF OtherWriter
  <2>3. ASSUME NEW u \in Uploads, Request(u) PROVE Goal
    <3> USE <2>0, <2>a DEF TypeOK, Go, Fail, May, Exclusive
    <3>1. CASE Refuse(u) \/ Crash(u)
      BY <3>1 DEF Refuse, Crash
    <3>2. CASE Start(u)
      BY <3>2 DEF Start, Alone
    <3>3. CASE Save(u) \/ RejectContent(u) \/ SaveFails(u)
      BY <3>3 DEF Save, RejectContent, SaveFails
    <3>4. CASE Insert(u) \/ InsertBusy(u) \/ InsertError(u)
      BY <3>4 DEF Insert, InsertBusy, InsertError
    <3>5. CASE Look(u) \/ LookFails(u)
      BY <3>5 DEF Look, LookFails
    <3>6. CASE Backup(u)
      BY <3>6 DEF Backup
    <3>7. CASE BackupFails(u) \/ RenameFails(u) \/ CommitFails(u)
      BY <3>7 DEF BackupFails, RenameFails, CommitFails
    <3>8. CASE Rename(u)
      BY <3>8 DEF Rename
    <3>9. CASE Commit(u)
      BY <3>9 DEF Commit
    <3>10. CASE Rollback(u) \/ RollbackFails(u)
      BY <3>10 DEF Rollback, RollbackFails
    <3>11. CASE Undo(u)
      BY <3>11 DEF Undo
    <3>12. CASE DiscardBackup(u) \/ FinalizeFails(u)
      BY <3>12 DEF DiscardBackup, FinalizeFails
    <3>13. CASE Cleanup(u)
      BY <3>13 DEF Cleanup
    <3> QED
      BY <2>3, <3>1, <3>2, <3>3, <3>4, <3>5, <3>6, <3>7, <3>8, <3>9, <3>10,
         <3>11, <3>12, <3>13 DEF Request, Handler, Progress, Trouble
  <2> QED
    BY <2>1, <2>2, <2>3, <2>b DEF Next
<1> QED
  BY <1>1, <1>2, TypeCorrect, PTL DEF Spec

\* The last recorded zip of a calm version is on disk at every moment.
THEOREM LastGoodRemains == Spec => []LastGoodZipKept
<1>1. TypeOK /\ CalmInv => LastGoodZipKept
  <2> SUFFICES ASSUME TypeOK, CalmInv, NEW v \in Calm, row[v] # None
               PROVE  row[v] \in {file[v], prev[v]}
    BY DEF LastGoodZipKept, LastGood
  <2>1. CASE Quiet(v)
    BY <2>1 DEF CalmInv, Settled
  <2>2. CASE ~Quiet(v)
    <3>1. PICK u \in Uploads : Target[u] = v /\ InFlight(u)
      BY <2>2 DEF Quiet
    <3>2. CalmAt(u, v)
      BY <3>1 DEF CalmInv
    <3> QED
      BY <3>1, <3>2 DEF CalmAt, BackedUp, Settled, InFlight, TypeOK, Steps
  <2> QED
    BY <2>1, <2>2
<1> QED
  BY <1>1, TypeCorrect, CalmInductive, PTL

\* When no upload of a calm version is under way, its row, its zip and the
\* absence of a backup agree.
THEOREM QuietSettled == Spec => []QuietVersionSettled
<1>1. CalmInv => QuietVersionSettled
  BY DEF CalmInv, QuietVersionSettled
<1> QED
  BY <1>1, CalmInductive, PTL

-----------------------------------------------------------------------------
(* The store the uploads implement *)

\* What is settled of an upload that has not been answered yet.
Unanswered == \A u \in Uploads :
    /\ pc[u] \in {"new", "saving", "inserting", "looking", "backing", "renaming",
                  "committing"} => reply[u] = "none"
    /\ pc[u] = "committing" => u \in Valid

\* A step other than a commit leaves the rows alone and at most refuses the
\* upload that takes it, which had no answer before.
LEMMA OtherSteps ==
  ASSUME TypeOK, Unanswered, NEW u \in Uploads, Request(u), ~Commit(u)
  PROVE  /\ row' = row
         /\ \/ reply' = reply
            \/ /\ reply[u] = "none"
               /\ \E code \in {"400", "500", "503"} : reply' = [reply EXCEPT ![u] = code]
<1> USE DEF TypeOK, Unanswered, Go, Fail
<1>1. CASE Refuse(u) \/ Start(u) \/ Crash(u)
  BY <1>1 DEF Refuse, Start, Crash
<1>2. CASE Save(u) \/ RejectContent(u) \/ SaveFails(u)
  BY <1>2 DEF Save, RejectContent, SaveFails
<1>3. CASE Insert(u) \/ InsertBusy(u) \/ InsertError(u)
  BY <1>3 DEF Insert, InsertBusy, InsertError
<1>4. CASE Look(u) \/ LookFails(u) \/ Backup(u) \/ BackupFails(u)
  BY <1>4 DEF Look, LookFails, Backup, BackupFails
<1>5. CASE Rename(u) \/ RenameFails(u) \/ CommitFails(u)
  BY <1>5 DEF Rename, RenameFails, CommitFails
<1>6. CASE Rollback(u) \/ RollbackFails(u)
  BY <1>6 DEF Rollback, RollbackFails
<1>7. CASE Undo(u) \/ DiscardBackup(u) \/ FinalizeFails(u) \/ Cleanup(u)
  BY <1>7 DEF Undo, DiscardBackup, FinalizeFails, Cleanup
<1> QED
  BY <1>1, <1>2, <1>3, <1>4, <1>5, <1>6, <1>7 DEF Request, Handler, Progress, Trouble

LEMMA UnansweredInvariant == Spec => []Unanswered
<1> DEFINE Checked == \A u \in Uploads :
      pc[u] \in {"inserting", "looking", "backing", "renaming"} => u \in Valid
<1> DEFINE Inv == Unanswered /\ Checked
<1>1. Init => Inv
  BY DEF Init, Unanswered
<1>2. TypeOK /\ Inv /\ [Next]_vars => Inv'
  <2> SUFFICES ASSUME TypeOK, Inv, [Next]_vars PROVE Inv'
    OBVIOUS
  <2> USE DEF Unanswered
  <2>1. CASE UNCHANGED vars
    BY <2>1 DEF vars
  <2>2. CASE OtherWriter
    BY <2>2 DEF OtherWriter
  <2>3. ASSUME NEW u \in Uploads, Request(u) PROVE Inv'
    <3> USE DEF TypeOK, Go, Fail
    <3>1. CASE Refuse(u) \/ Start(u) \/ Crash(u)
      BY <3>1 DEF Refuse, Start, Crash
    <3>2. CASE Save(u) \/ RejectContent(u) \/ SaveFails(u)
      BY <3>2 DEF Save, RejectContent, SaveFails
    <3>3. CASE Insert(u) \/ InsertBusy(u) \/ InsertError(u)
      BY <3>3 DEF Insert, InsertBusy, InsertError
    <3>4. CASE Look(u) \/ LookFails(u) \/ Backup(u) \/ BackupFails(u)
      BY <3>4 DEF Look, LookFails, Backup, BackupFails
    <3>5. CASE Rename(u) \/ RenameFails(u) \/ Commit(u) \/ CommitFails(u)
      BY <3>5 DEF Rename, RenameFails, Commit, CommitFails
    <3>6. CASE Rollback(u) \/ RollbackFails(u)
      BY <3>6 DEF Rollback, RollbackFails
    <3>7. CASE Undo(u) \/ DiscardBackup(u) \/ FinalizeFails(u) \/ Cleanup(u)
      BY <3>7 DEF Undo, DiscardBackup, FinalizeFails, Cleanup
    <3> QED
      BY <2>3, <3>1, <3>2, <3>3, <3>4, <3>5, <3>6, <3>7 DEF Request, Handler, Progress, Trouble
  <2> QED
    BY <2>1, <2>2, <2>3 DEF Next
<1> QED
  BY <1>1, <1>2, TypeCorrect, PTL DEF Spec

\* As long as no last good zip is lost, the store holds what the rows name.
LEMMA StoredIsRow ==
  ASSUME LastGoodZipKept, NEW v \in Calm
  PROVE  LastGood(v) = row[v]
  BY DEF LastGoodZipKept, LastGood

\* Seen from outside, an upload replaces the zip of its version in one step, or
\* is refused and changes nothing; backups, renames, commits and their undoing
\* are invisible.
THEOREM UploadsImplementStore == Spec => ImplementsVersionStore
<1>1. Init => Store!Init
  BY DEF Init, Store!Init, LastGood, Calm, Restartable, CalmUploads, Verdict
<1>2. /\ TypeOK /\ Unanswered /\ CalmInv /\ LastGoodZipKept /\ LastGoodZipKept'
      /\ [Next]_vars
      => [Store!Next]_(Store!vars)
  <2> SUFFICES ASSUME TypeOK, Unanswered, CalmInv, LastGoodZipKept, LastGoodZipKept',
                      [Next]_vars
               PROVE  [Store!Next]_(Store!vars)
    OBVIOUS
  <2>1. \A v \in Calm : LastGood(v) = row[v] /\ LastGood(v)' = row'[v]
    BY StoredIsRow DEF LastGoodZipKept, LastGood
  <2>2. ASSUME row' = row, reply' = reply
        PROVE  UNCHANGED Store!vars
    BY <2>1, <2>2 DEF Store!vars, Verdict
  <2>3. CASE UNCHANGED vars \/ OtherWriter
    BY <2>2, <2>3 DEF vars, OtherWriter
  <2>4. ASSUME NEW u \in Uploads, Request(u)
        PROVE  [Store!Next]_(Store!vars)
    <3>1. CASE Commit(u)
      <4>1. u \in Valid /\ reply[u] = "none" /\ reply' = [reply EXCEPT ![u] = "200"]
            /\ row' = [row EXCEPT ![Target[u]] = u]
        BY <3>1 DEF Commit, Fail, Go, Unanswered
      <4>2. CASE u \in CalmUploads
        <5>1. \A v \in Calm : LastGood(v)' = IF v = Target[u] THEN u ELSE LastGood(v)
          BY <2>1, <4>1 DEF Calm, Restartable, TypeOK
        <5>2. \A w \in CalmUploads : Verdict(w)' = IF w = u THEN "accepted" ELSE Verdict(w)
          BY <4>1 DEF CalmUploads, Verdict, TypeOK
        <5>3. Verdict(u) = "pending" /\ u \in Valid \cap CalmUploads /\ Target[u] \in Calm
          BY <4>1, <4>2 DEF CalmUploads, Verdict
        <5>4. Store!Accept(u)
          BY <4>2, <5>1, <5>2, <5>3 DEF Store!Accept
        <5> QED
          BY <4>2, <5>4 DEF Store!Next
      <4>3. CASE u \notin CalmUploads
        <5>1. \A v \in Calm : row'[v] = row[v]
          BY <4>1, <4>3 DEF CalmUploads, Calm, Restartable, TypeOK
        <5>2. \A w \in CalmUploads : reply'[w] = reply[w]
          BY <4>1, <4>3 DEF CalmUploads, TypeOK
        <5> QED
          BY <2>1, <5>1, <5>2 DEF Store!vars, Verdict
      <4> QED
        BY <4>2, <4>3
    <3>2. CASE ~Commit(u)
      <4>1. CASE reply' = reply
        BY <2>2, <2>4, <3>2, <4>1, OtherSteps
      <4>2. ASSUME reply[u] = "none", NEW code \in {"400", "500", "503"},
                   reply' = [reply EXCEPT ![u] = code]
            PROVE  [Store!Next]_(Store!vars)
        <5>0. row' = row
          BY <2>4, <3>2, OtherSteps
        <5>1. CASE u \in CalmUploads
          <6>1. Store!Refuse(u)
            BY <2>1, <4>2, <5>0, <5>1 DEF Store!Refuse, CalmUploads, Verdict, TypeOK
          <6> QED
            BY <5>1, <6>1 DEF Store!Next
        <5>2. CASE u \notin CalmUploads
          <6>1. \A w \in CalmUploads : reply'[w] = reply[w]
            BY <4>2, <5>2 DEF CalmUploads, TypeOK
          <6> QED
            BY <2>1, <5>0, <6>1 DEF Store!vars, Verdict
        <5> QED
          BY <5>1, <5>2
      <4> QED
        BY <2>4, <3>2, <4>1, <4>2, OtherSteps
    <3> QED
      BY <3>1, <3>2
  <2> QED
    BY <2>3, <2>4 DEF Next
<1> QED
  BY <1>1, <1>2, TypeCorrect, UnansweredInvariant, CalmInductive, LastGoodRemains, PTL
     DEF Spec, ImplementsVersionStore, Store!Spec

\* A refused upload of a calm version leaves no temp file and no bytes behind:
\* they were never more than its own temp file or a zip waiting for its commit.
THEOREM NoTraceOfRefused == Spec => []RefusedLeavesNoTrace
<1> DEFINE Inv == \A v \in Calm : \A u \in Uploads : Target[u] = v => TraceAt(u, v)
<1>1. Init => Inv
  BY DEF Init, TraceAt, Calm, Restartable
<1>2. TypeOK /\ Unanswered /\ CalmInv /\ Inv /\ [Next]_vars => Inv'
  <2> SUFFICES ASSUME TypeOK, Unanswered, CalmInv, Inv, [Next]_vars,
                      NEW v \in Calm, NEW w \in Uploads, Target[w] = v
               PROVE  TraceAt(w, v)'
    OBVIOUS
  <2>0. /\ v \in Versions
        /\ Faults[v] \cap {"overlap", "stat", "crash", "undo"} = {}
    BY DEF Calm, Restartable
  <2>a. /\ \A u \in Uploads : Target[u] = v => CalmAt(u, v)
        /\ \A u \in Uploads : Target[u] = v => TraceAt(u, v)
    BY DEF CalmInv
  <2> USE DEF TraceAt, CalmAt, BackedUp, Settled, disk, locals
  <2>1. CASE UNCHANGED vars
    BY <2>1, <2>a DEF vars
  <2>2. CASE OtherWriter
    BY <2>2, <2>a DEF OtherWriter
  <2>3. ASSUME NEW u \in Uploads, Request(u) PROVE TraceAt(w, v)'
    <3> USE <2>0, <2>a DEF TypeOK, Unanswered, Go, Fail, May
    <3>1. CASE Refuse(u) \/ Crash(u)
      BY <3>1 DEF Refuse, Crash
    <3>2. CASE Start(u) \/ Save(u) \/ RejectContent(u) \/ SaveFails(u)
      BY <3>2 DEF Start, Save, RejectContent, SaveFails
    <3>3. CASE Insert(u) \/ InsertBusy(u) \/ InsertError(u) \/ Look(u) \/ LookFails(u)
      BY <3>3 DEF Insert, InsertBusy, InsertError, Look, LookFails
    <3>4. CASE Backup(u)
      BY <3>4 DEF Backup
    <3>5. CASE BackupFails(u) \/ RenameFails(u) \/ CommitFails(u)
      BY <3>5 DEF BackupFails, RenameFails, CommitFails
    <3>6. CASE Rename(u)
      BY <3>6 DEF Rename
    <3>7. CASE Commit(u)
      BY <3>7 DEF Commit
    <3>8. CASE Rollback(u) \/ RollbackFails(u)
      BY <3>8 DEF Rollback, RollbackFails
    <3>9. CASE Undo(u)
      BY <3>9 DEF Undo
    <3>10. CASE DiscardBackup(u) \/ FinalizeFails(u)
      BY <3>10 DEF DiscardBackup, FinalizeFails
    <3>11. CASE Cleanup(u)
      BY <3>11 DEF Cleanup
    <3> QED
      BY <2>3, <3>1, <3>2, <3>3, <3>4, <3>5, <3>6, <3>7, <3>8, <3>9, <3>10, <3>11
         DEF Request, Handler, Progress, Trouble
  <2> QED
    BY <2>1, <2>2, <2>3 DEF Next
<1>3. Inv => RefusedLeavesNoTrace
  BY DEF RefusedLeavesNoTrace, TraceAt
<1> QED
  BY <1>1, <1>2, <1>3, TypeCorrect, UnansweredInvariant, CalmInductive, PTL DEF Spec

=============================================================================
