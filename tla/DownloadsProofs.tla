-------------------------- MODULE DownloadsProofs --------------------------
(***************************************************************************)
(* Theorems about Downloads, for every number of versions, uploads and     *)
(* readers.  A download changes nothing an upload looks at, so everything  *)
(* proved of SyncResults holds of the composition as well.                 *)
(***************************************************************************)
EXTENDS Downloads, SyncResultsProofs

\* A step of the composition is a step of the uploads, or leaves them alone.
LEMMA UploadsGoOn == DownloadSpec => Spec
<1>1. DownloadInit => Init
  BY DEF DownloadInit
<1>2. [DownloadNext]_allvars => [Next]_vars
  BY DEF DownloadNext, allvars, Download, Ask, LookForFile, Send
<1> QED
  BY <1>1, <1>2, PTL DEF DownloadSpec, Spec

\* A step of an upload, or one of a reader with everything else as it was.
LEMMA StepCases ==
  ASSUME [DownloadNext]_allvars
  PROVE  \/ [Next]_vars /\ UNCHANGED readers
         \/ \E r \in Readers : Download(r) /\ UNCHANGED vars
  BY DEF DownloadNext, allvars, Download, Ask, LookForFile, Send

\* The state of a download keeps its type, and bytes are there exactly when the
\* last request was answered with them.
THEOREM DownloadTypeCorrect == DownloadSpec => []DownloadTypeOK
<1>1. DownloadInit => DownloadTypeOK
  BY DEF DownloadInit, DownloadTypeOK, Answers
<1>2. TypeOK /\ DownloadTypeOK /\ [DownloadNext]_allvars => DownloadTypeOK'
  <2> SUFFICES ASSUME TypeOK, DownloadTypeOK, [DownloadNext]_allvars
               PROVE  DownloadTypeOK'
    OBVIOUS
  <2>1. CASE UNCHANGED readers
    BY <2>1 DEF DownloadTypeOK, readers
  <2>2. ASSUME NEW r \in Readers, Download(r) PROVE DownloadTypeOK'
    <3>0. /\ Wanted[r] \in Versions /\ Over(Wanted[r]) \subseteq Uploads
          /\ file[Wanted[r]] \in Uploads \cup {None}
      BY ReaderAssumption DEF Over, TypeOK
    <3> USE <3>0 DEF DownloadTypeOK, Answers, Reply
    <3>1. CASE Ask(r)
      BY <3>1 DEF Ask
    <3>2. CASE LookForFile(r)
      BY <3>2 DEF LookForFile
    <3>3. CASE Send(r)
      BY <3>3 DEF Send
    <3> QED
      BY <2>2, <3>1, <3>2, <3>3 DEF Download
  <2> QED
    BY <2>1, <2>2, StepCases
<1> QED
  BY <1>1, <1>2, UploadsGoOn, TypeCorrect, PTL DEF DownloadSpec

-----------------------------------------------------------------------------
(* Rows *)

\* A step of an upload only ever makes a row name that upload.
LEMMA RowStep ==
  ASSUME TypeOK, [Next]_vars, NEW v \in Versions, row'[v] # row[v]
  PROVE  \E u \in Uploads : Commit(u) /\ row'[v] = u
<1>1. PICK u \in Uploads : Request(u)
  BY DEF Next, OtherWriter, vars
<1>2. Commit(u)
  BY <1>1 DEF Request, Refuse, Start, Crash, Handler, Progress, Trouble, Save, RejectContent,
     SaveFails, Insert, InsertBusy, InsertError, Look, LookFails, Backup,
     BackupFails, Rename, RenameFails, CommitFails, Rollback, RollbackFails,
     Undo, DiscardBackup, FinalizeFails, Cleanup
<1> QED
  BY <1>2 DEF Commit, TypeOK

LEMMA AskedInductive == DownloadSpec => []AskedInv
<1>1. DownloadInit => AskedInv
  BY DEF DownloadInit, AskedInv
<1>2. TypeOK /\ DownloadTypeOK /\ AskedInv /\ [DownloadNext]_allvars => AskedInv'
  <2> SUFFICES ASSUME TypeOK, DownloadTypeOK, AskedInv, [DownloadNext]_allvars,
                      NEW q \in Readers, at'[q] # "idle"
               PROVE  row'[Wanted[q]] # None
    BY DEF AskedInv
  <2>1. CASE [Next]_vars /\ UNCHANGED readers
    BY <2>1, RowStep, ReaderAssumption, NoneAssumption DEF AskedInv, readers
  <2>2. ASSUME NEW r \in Readers, Download(r), UNCHANGED vars PROVE row'[Wanted[q]] # None
    BY <2>2 DEF AskedInv, DownloadTypeOK, Download, Ask, LookForFile, Send, Reply, vars
  <2> QED
    BY <2>1, <2>2, StepCases
<1> QED
  BY <1>1, <1>2, UploadsGoOn, TypeCorrect, DownloadTypeCorrect, PTL DEF DownloadSpec

\* A request that finds a recorded version's zip gone could have found it as .prev:
\* the row was there when it asked and is never deleted, and the last good zip of
\* a calm version is always on disk.
THEOREM MissesHaveBackup == DownloadSpec => MissHasBackup
<1>1. /\ TypeOK /\ LastGoodZipKept /\ AskedInv /\ DownloadTypeOK
      /\ [DownloadNext]_allvars
      => [MissFindsBackup]_allvars
  <2> SUFFICES ASSUME TypeOK, LastGoodZipKept, AskedInv, DownloadTypeOK, DownloadNext,
                      NEW r \in Readers,
                      at[r] # "idle", answer'[r] \in {"missing", "error"}, at'[r] = "idle",
                      Wanted[r] \in Calm
               PROVE  row[Wanted[r]] # None /\ prev[Wanted[r]] = row[Wanted[r]]
    BY DEF MissFindsBackup
  <2>1. PICK q \in Readers : Download(q)
    BY DEF DownloadNext, readers
  <2>2. q = r /\ file[Wanted[r]] = None
    BY <2>1 DEF Download, Ask, LookForFile, Send, Reply, DownloadTypeOK
  <2>3. row[Wanted[r]] # None
    BY DEF AskedInv
  <2> QED
    BY <2>2, <2>3 DEF LastGoodZipKept, LastGood
<1> QED
  BY <1>1, UploadsGoOn, TypeCorrect, LastGoodRemains, AskedInductive,
     DownloadTypeCorrect, PTL DEF DownloadSpec, MissHasBackup

-----------------------------------------------------------------------------
(* Nothing comes back *)

LEMMA LeftInductive == Spec => []LeftInv
<1>1. Init => LeftInv
  BY DEF Init, LeftInv, LeftInPlace
<1>2. TypeOK /\ CalmInv /\ LeftInv /\ [Next]_vars => LeftInv'
  <2> SUFFICES ASSUME TypeOK, CalmInv, LeftInv, [Next]_vars,
                      NEW v \in Calm, NEW w \in Uploads, Target[w] = v
               PROVE  LeftInPlace(w, v)'
    BY DEF LeftInv
  <2>0. /\ v \in Versions
        /\ Faults[v] \cap {"overlap", "stat", "crash", "undo"} = {}
    BY DEF Calm, Restartable
  <2>a. Exclusive(v) /\ CalmAt(w, v) /\ LeftInPlace(w, v)
    BY DEF CalmInv, LeftInv
  <2> USE DEF LeftInPlace, Settled, disk, locals
  <2>1. CASE UNCHANGED vars
    BY <2>1, <2>a DEF vars
  <2>2. CASE OtherWriter
    BY <2>2, <2>a DEF OtherWriter
  <2>3. ASSUME NEW u \in Uploads, Request(u) PROVE LeftInPlace(w, v)'
    <3> USE <2>0, <2>a DEF TypeOK, Go, Fail, May, Exclusive, InFlight, CalmAt, BackedUp
    <3>1. CASE Refuse(u) \/ Start(u) \/ Save(u) \/ RejectContent(u) \/ SaveFails(u)
      BY <3>1 DEF Refuse, Start, Save, RejectContent, SaveFails
    <3>2. CASE Insert(u) \/ InsertBusy(u) \/ InsertError(u) \/ Look(u) \/ LookFails(u)
      BY <3>2 DEF Insert, InsertBusy, InsertError, Look, LookFails
    <3>3. CASE Backup(u)
      BY <3>3 DEF Backup
    <3>4. CASE BackupFails(u) \/ RenameFails(u) \/ CommitFails(u)
      BY <3>4 DEF BackupFails, RenameFails, CommitFails
    <3>5. CASE Rename(u)
      BY <3>5 DEF Rename
    <3>6. CASE Commit(u)
      BY <3>6 DEF Commit
    <3>7. CASE Rollback(u) \/ RollbackFails(u)
      BY <3>7 DEF Rollback, RollbackFails
    <3>8. CASE Undo(u)
      BY <3>8 DEF Undo
    <3>9. CASE DiscardBackup(u) \/ FinalizeFails(u) \/ Cleanup(u) \/ Crash(u)
      BY <3>9 DEF DiscardBackup, FinalizeFails, Cleanup, Crash
    <3> QED
      BY <2>3, <3>1, <3>2, <3>3, <3>4, <3>5, <3>6, <3>7, <3>8, <3>9
         DEF Request, Handler, Progress, Trouble
  <2> QED
    BY <2>1, <2>2, <2>3 DEF Next
<1> QED
  BY <1>1, <1>2, TypeCorrect, CalmInductive, PTL DEF Spec

\* What is over when a reader asks is neither in place nor recorded, and at most
\* a backup that is about to go.
LEMMA OverIsGone ==
  ASSUME TypeOK, CalmInv, LeftInv, NEW v \in Calm, NEW u \in Over(v)
  PROVE  /\ u \in Uploads /\ Target[u] = v /\ pc[u] = "done"
         /\ u \notin {row[v], file[v], None}
         /\ prev[v] = u => \A w \in Uploads : Target[w] = v /\ InFlight(w) => pc[w] = "settling"
<1>1. /\ u \in Uploads /\ Target[u] = v /\ pc[u] = "done" /\ row[v] # u
      /\ v \in Versions
  BY DEF Over, Calm, Restartable
<1>2. u # None
  BY <1>1, NoneAssumption
<1>3. CASE Quiet(v)
  BY <1>1, <1>2, <1>3 DEF CalmInv, Settled, Quiet
<1>4. CASE ~Quiet(v)
  <2>1. PICK w \in Uploads : Target[w] = v /\ InFlight(w)
    BY <1>4 DEF Quiet
  <2>2. Exclusive(v) /\ CalmAt(w, v) /\ LeftInPlace(w, v)
    BY <2>1 DEF CalmInv, LeftInv
  <2>3. w # u /\ pc[w] \in Steps \ {"new", "done", "dead"}
    BY <1>1, <2>1 DEF InFlight, TypeOK
  <2>4. file[v] # u
    BY <1>1, <1>2, <2>2, <2>3 DEF CalmAt, BackedUp, LeftInPlace, Settled, Steps
  <2>5. prev[v] = u => pc[w] = "settling"
    BY <1>1, <1>2, <2>2, <2>3 DEF CalmAt, BackedUp, Settled, Steps
  <2> QED
    BY <1>1, <1>2, <2>1, <2>2, <2>4, <2>5 DEF Exclusive
<1> QED
  BY <1>3, <1>4

\* An upload that is over stays off the disk, whatever the uploads do.
LEMMA PastStep ==
  ASSUME TypeOK, CalmInv, [Next]_vars, NEW v \in Calm, NEW u \in Uploads,
         Target[u] = v, pc[u] = "done", u \notin {row[v], file[v]},
         prev[v] = u => \A w \in Uploads : Target[w] = v /\ InFlight(w) => pc[w] = "settling"
  PROVE  /\ pc'[u] = "done" /\ u \notin {row'[v], file'[v]}
         /\ prev'[v] = u => \A w \in Uploads :
               Target[w] = v /\ InFlight(w)' => pc'[w] = "settling"
<1> DEFINE Goal == /\ pc'[u] = "done" /\ u \notin {row'[v], file'[v]}
                   /\ prev'[v] = u => \A w \in Uploads :
                         Target[w] = v /\ InFlight(w)' => pc'[w] = "settling"
<1>0. /\ v \in Versions /\ u # None
      /\ Faults[v] \cap {"overlap", "stat", "crash", "undo"} = {}
  BY NoneAssumption DEF Calm, Restartable
<1>a. /\ Exclusive(v) /\ (Quiet(v) => Settled(v))
      /\ \A w \in Uploads : Target[w] = v => CalmAt(w, v)
  BY DEF CalmInv
<1> USE DEF InFlight, disk, locals
<1>1. CASE UNCHANGED vars
  BY <1>1 DEF vars
<1>2. CASE OtherWriter
  BY <1>2 DEF OtherWriter
<1>3. ASSUME NEW x \in Uploads, Request(x) PROVE Goal
  <2> USE <1>0 DEF TypeOK, Go, Fail, May
  <2>1. CASE Refuse(x) \/ Crash(x)
    BY <2>1 DEF Refuse, Crash
  <2>2. CASE Start(x)
    BY <1>a, <2>2 DEF Start, Alone, Quiet, Settled
  <2>3. CASE Save(x) \/ RejectContent(x) \/ SaveFails(x)
    BY <2>3 DEF Save, RejectContent, SaveFails
  <2>4. CASE Insert(x) \/ InsertBusy(x) \/ InsertError(x) \/ Look(x) \/ LookFails(x)
    BY <2>4 DEF Insert, InsertBusy, InsertError, Look, LookFails
  <2>5. CASE Backup(x)
    BY <2>5 DEF Backup
  <2>6. CASE BackupFails(x) \/ RenameFails(x) \/ CommitFails(x)
    BY <2>6 DEF BackupFails, RenameFails, CommitFails
  <2>7. CASE Rename(x)
    BY <2>7 DEF Rename
  <2>8. CASE Commit(x)
    BY <2>8 DEF Commit
  <2>9. CASE Rollback(x) \/ RollbackFails(x)
    BY <2>9 DEF Rollback, RollbackFails
  <2>10. CASE Undo(x)
    BY <2>10 DEF Undo
  <2>11. CASE DiscardBackup(x) \/ FinalizeFails(x)
    BY <1>a, <2>11 DEF DiscardBackup, FinalizeFails, CalmAt
  <2>12. CASE Cleanup(x)
    BY <2>12 DEF Cleanup
  <2> QED
    BY <1>3, <2>1, <2>2, <2>3, <2>4, <2>5, <2>6, <2>7, <2>8, <2>9, <2>10, <2>11, <2>12
       DEF Request, Handler, Progress, Trouble
<1> QED
  BY <1>1, <1>2, <1>3 DEF Next

\* A reader of a calm version is never sent a zip that had been refused or replaced
\* before it asked.
THEOREM NothingStaleIsSent == DownloadSpec => []NoStaleDownload
<1>1. DownloadInit => PastInv
  BY DEF DownloadInit, PastInv, PastAt
<1>2. /\ TypeOK /\ CalmInv /\ LeftInv /\ DownloadTypeOK /\ PastInv
      /\ [DownloadNext]_allvars
      => PastInv'
  <2> SUFFICES ASSUME TypeOK, CalmInv, LeftInv, DownloadTypeOK, PastInv,
                      [DownloadNext]_allvars,
                      NEW q \in Readers, Wanted[q] \in Calm
               PROVE  PastAt(q)'
    BY DEF PastInv
  <2>0. PastAt(q) /\ past[q] \subseteq Uploads /\ Wanted[q] \in Versions
    BY ReaderAssumption DEF PastInv, DownloadTypeOK
  <2>1. CASE [Next]_vars /\ UNCHANGED readers
    <3> SUFFICES ASSUME NEW u \in past[q]
                 PROVE  /\ Target[u] = Wanted[q] /\ pc'[u] = "done"
                        /\ u \notin {row'[Wanted[q]], file'[Wanted[q]], got[q]}
                        /\ prev'[Wanted[q]] = u => \A w \in Uploads :
                              Target[w] = Wanted[q] /\ InFlight(w)' => pc'[w] = "settling"
      BY <2>1 DEF PastAt, readers
    <3> QED
      BY <2>0, <2>1, PastStep DEF PastAt
  <2>2. ASSUME NEW r \in Readers, Download(r), UNCHANGED vars PROVE PastAt(q)'
    <3> USE DEF Reply, DownloadTypeOK, InFlight, vars
    <3>1. CASE r # q
      BY <2>0, <2>2, <3>1 DEF Download, Ask, LookForFile, Send, PastAt
    <3>2. CASE r = q /\ Ask(r)
      <4>1. past'[q] = Over(Wanted[q]) /\ got'[q] = None
        BY <3>2 DEF Ask
      <4> QED
        BY <2>2, <4>1, OverIsGone DEF PastAt
    <3>3. CASE r = q /\ (LookForFile(r) \/ Send(r))
      <4>1. past' = past /\ got'[q] \in {None, got[q], file[Wanted[q]]}
        BY <3>3 DEF LookForFile, Send
      <4> QED
        BY <2>0, <2>2, <4>1, NoneAssumption DEF PastAt
    <3> QED
      BY <2>2, <3>1, <3>2, <3>3 DEF Download
  <2> QED
    BY <2>1, <2>2, StepCases
<1>3. PastInv => NoStaleDownload
  BY DEF PastInv, PastAt, NoStaleDownload
<1> QED
  BY <1>1, <1>2, <1>3, UploadsGoOn, TypeCorrect, CalmInductive, LeftInductive,
     DownloadTypeCorrect, PTL DEF DownloadSpec
=============================================================================
