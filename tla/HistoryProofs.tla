--------------------------- MODULE HistoryProofs ---------------------------
(***************************************************************************)
(* What uploads and prunes guarantee together, for every number of jobs,   *)
(* uploads and prunes and every interleaving of them.                      *)
(***************************************************************************)
EXTENDS History, TLAPS

USE JobAssumption, DryRunsAssumption, NoneAssumption, LockAssumption

\* The two loops over todo, apart from the rest of the state.
LEMMA CheckTypes ==
  ASSUME hit \in [Prunes -> Bytes], todo \in [Prunes -> SUBSET Jobs],
         stranded \in [Prunes -> SUBSET Jobs], file \in [Jobs -> Bytes],
         NEW p \in Prunes, Check(p)
  PROVE  /\ hit' \in [Prunes -> Bytes] /\ todo' \in [Prunes -> SUBSET Jobs]
         /\ stranded' \in [Prunes -> SUBSET Jobs]
<1>1. PICK j \in todo[p] :
         \/ hit' = [hit EXCEPT ![p] = file[j]] /\ UNCHANGED <<todo, stranded>>
         \/ /\ todo' = [todo EXCEPT ![p] = todo[p] \ {j}]
            /\ stranded' \in {stranded, [stranded EXCEPT ![p] = stranded[p] \cup {j}]}
            /\ UNCHANGED hit
  BY DEF Check
<1>2. j \in Jobs /\ file[j] \in Bytes
  OBVIOUS
<1>3. [hit EXCEPT ![p] = file[j]] \in [Prunes -> Bytes]
  BY <1>2
<1>4. [todo EXCEPT ![p] = todo[p] \ {j}] \in [Prunes -> SUBSET Jobs]
  OBVIOUS
<1>5. stranded[p] \cup {j} \in SUBSET Jobs
  BY <1>2
<1>6. [stranded EXCEPT ![p] = stranded[p] \cup {j}] \in [Prunes -> SUBSET Jobs]
  BY <1>5
<1> QED
  BY <1>1, <1>3, <1>4, <1>6

LEMMA ScanTypes ==
  ASSUME report \in [Prunes -> SUBSET Uploads], todo \in [Prunes -> SUBSET Jobs],
         old \in [Prunes -> SUBSET Uploads], NEW p \in Prunes, Scan(p)
  PROVE  report' \in [Prunes -> SUBSET Uploads] /\ todo' \in [Prunes -> SUBSET Jobs]
<1>1. PICK j \in todo[p] :
         /\ todo' = [todo EXCEPT ![p] = todo[p] \ {j}]
         /\ report' \in {report,
                         [report EXCEPT ![p] = report[p] \cup ({file[j]} \cap old[p])]}
  BY DEF Scan
<1>2. [todo EXCEPT ![p] = todo[p] \ {j}] \in [Prunes -> SUBSET Jobs]
  OBVIOUS
<1>3. report[p] \cup ({file[j]} \cap old[p]) \in SUBSET Uploads
  OBVIOUS
<1>4. [report EXCEPT ![p] = report[p] \cup ({file[j]} \cap old[p])]
         \in [Prunes -> SUBSET Uploads]
  BY <1>3
<1> QED
  BY <1>1, <1>2, <1>4

\* The variables keep their types; in particular only existing entries are old.
THEOREM TypeCorrect == Spec => []TypeOK
<1>1. Init => TypeOK
  BY DEF Init, TypeOK, Steps, Stages, Bytes
<1>2. TypeOK /\ [Next]_vars => TypeOK'
  <2> SUFFICES ASSUME TypeOK, [Next]_vars PROVE TypeOK'
    OBVIOUS
  <2> USE DEF TypeOK, Steps, Stages, Bytes, entries, files, uploads, loop, prunes, shared
  <2>1. CASE UNCHANGED vars
    BY <2>1 DEF vars
  <2>2. CASE OtherWriter
    BY <2>2 DEF OtherWriter, ElsewhereTakes, ElsewhereDrops, Take, Drop
  <2>3. ASSUME NEW u \in Uploads, Upload(u) \/ Settle(u) PROVE TypeOK'
    <3> USE DEF Go, Answer, Take, Drop, May, Busy
    <3>1. CASE Refuse(u)
      BY <3>1 DEF Refuse
    <3>2. CASE Start(u)
      BY <3>2 DEF Start
    <3>3. CASE Save(u)
      BY <3>3 DEF Save
    <3>8. CASE SaveFails(u)
      <4>1. /\ pc' = [pc EXCEPT ![u] = "cleanup"]
            /\ reply' = [reply EXCEPT ![u] = "500"]
            /\ UNCHANGED <<entries, files, prunes, lock>>
        BY <3>8 DEF SaveFails
      <4> QED
        BY <4>1
    <3>9. CASE Insert(u)
      BY <3>9 DEF Insert
    <3>4. CASE RefuseDuplicate(u)
      BY <3>4 DEF RefuseDuplicate
    <3>11. CASE Rollback(u)
      <4>1. /\ pc' = [pc EXCEPT ![u] = "cleanup"]
            /\ lock' \in {lock, NoOne}
            /\ UNCHANGED <<entries, files, reply, prunes>>
        BY <3>11 DEF Rollback
      <4> QED
        BY <4>1
    <3>10. CASE StoreFails(u)
      <4>1. /\ pc' = [pc EXCEPT ![u] = "failing"]
            /\ reply' = [reply EXCEPT ![u] = "500"]
            /\ UNCHANGED <<entries, files, prunes, lock>>
        BY <3>10 DEF StoreFails
      <4> QED
        BY <4>1
    <3>5. CASE Rename(u)
      BY <3>5 DEF Rename
    <3>6. CASE Commit(u)
      BY <3>6 DEF Commit
    <3>7. CASE Cleanup(u) \/ Crash(u) \/ Settle(u)
      BY <3>7 DEF Cleanup, Crash, Settle
    <3> QED
      BY <2>3, <3>1, <3>2, <3>3, <3>4, <3>5, <3>6, <3>7, <3>8, <3>9, <3>10,
         <3>11 DEF Upload, Handler
  <2>4. ASSUME NEW p \in Prunes, Prune(p) PROVE TypeOK'
    <3> USE DEF Turn, May
    <3>1. CASE Select(p)
      BY <3>1 DEF Select
    <3>9. CASE Decide(p) \/ DeleteRefused(p) \/ Finish(p) \/ PruneCrash(p)
      <4>1. /\ \E to \in Stages : stage' = [stage EXCEPT ![p] = to]
            /\ UNCHANGED <<loop, shared>>
        BY <3>9 DEF Decide, DeleteRefused, Finish, PruneCrash
      <4> QED
        BY <4>1
    <3>2. CASE Stat(p)
      BY <3>2 DEF Stat
    <3>3. CASE DeleteRows(p)
      BY <3>3 DEF DeleteRows
    <3>4. CASE Check(p)
      BY <3>4, CheckTypes DEF Check
    <3>5. CASE Unlink(p)
      BY <3>5 DEF Unlink
    <3>6. CASE Snapshot(p)
      BY <3>6 DEF Snapshot
    <3>7. CASE UnlinkFails(p)
      BY <3>7 DEF UnlinkFails
    <3>8. CASE Scan(p)
      BY <3>8, ScanTypes DEF Scan
    <3> QED
      BY <2>4, <3>1, <3>2, <3>3, <3>4, <3>5, <3>6, <3>7, <3>8, <3>9 DEF Prune, Work
  <2>5. ASSUME NEW j \in Jobs, Age(j) PROVE TypeOK'
    BY <2>5 DEF Age
  <2> QED
    BY <2>1, <2>2, <2>3, <2>4, <2>5 DEF Next
<1> QED
  BY <1>1, <1>2, PTL DEF Spec

----------------------------------------------------------------------------
(* What the steps of one actor leave alone *)

LEMMA UploadEffects ==
    ASSUME TypeOK, NEW u \in Uploads, Upload(u)
    PROVE  /\ UNCHANGED <<aged, settled, prunes>>
           /\ ~Over(u) /\ \A w \in Uploads \ {u} : pc'[w] = pc[w]
           /\ Commit(u) \/ UNCHANGED row
           /\ Rename(u) \/ UNCHANGED file
           /\ Start(u) \/ UNCHANGED inode
           /\ Placed(u) => Placed(u)'
           /\ Rename(u) \/ pc'[u] # "committing"
           /\ Insert(u) \/ UNCHANGED lock \/ (lock = u /\ lock' = NoOne)
<1> USE DEF entries, files, uploads, Go, Answer, Over, Placed, Take, Drop
<1> SUFFICES ASSUME TRUE PROVE
      /\ UNCHANGED <<aged, settled, prunes>>
      /\ ~Over(u) /\ \E to : pc' = [pc EXCEPT ![u] = to]
      /\ Commit(u) \/ UNCHANGED row
      /\ Rename(u) \/ UNCHANGED file
      /\ Start(u) \/ UNCHANGED inode
      /\ Placed(u) => Placed(u)'
      /\ Rename(u) \/ pc'[u] # "committing"
      /\ Insert(u) \/ UNCHANGED lock \/ (lock = u /\ lock' = NoOne)
  BY DEF TypeOK
<1>0. pc \in [Uploads -> Steps]
  BY DEF TypeOK
<1>1. CASE Refuse(u) \/ Start(u) \/ Save(u)
  BY <1>0, <1>1 DEF Refuse, Start, Save
<1>2. CASE Insert(u)
  BY <1>0, <1>2 DEF Insert
<1>3. CASE SaveFails(u)
  BY <1>0, <1>3 DEF SaveFails
<1>4. CASE RefuseDuplicate(u)
  BY <1>0, <1>4 DEF RefuseDuplicate
<1>5. CASE Rename(u) \/ Commit(u)
  BY <1>0, <1>5 DEF Rename, Commit
<1>6. CASE StoreFails(u)
  BY <1>0, <1>6 DEF StoreFails
<1>7. CASE Rollback(u)
  BY <1>0, <1>7 DEF Rollback
<1>8. CASE Cleanup(u) \/ Crash(u)
  BY <1>0, <1>8 DEF Cleanup, Crash
<1> QED
  BY <1>1, <1>2, <1>3, <1>4, <1>5, <1>6, <1>7, <1>8 DEF Upload, Handler

LEMMA PruneEffects ==
    ASSUME NEW p \in Prunes, Prune(p)
    PROVE  /\ UNCHANGED <<tmp, inode, settled, uploads, lock>>
           /\ DeleteRows(p) \/ UNCHANGED entries
           /\ Unlink(p) \/ UNCHANGED <<file, raced>>
           /\ Stat(p) \/ UNCHANGED seen
<1> USE DEF entries, files, loop, shared
<1>1. CASE Select(p) \/ Stat(p) \/ Decide(p) \/ DeleteRows(p) \/ DeleteRefused(p)
  BY <1>1 DEF Select, Stat, Decide, DeleteRows, DeleteRefused
<1>2. CASE Check(p) \/ Unlink(p) \/ UnlinkFails(p)
  BY <1>2 DEF Check, Unlink, UnlinkFails
<1>3. CASE Snapshot(p) \/ Scan(p) \/ Finish(p) \/ PruneCrash(p)
  BY <1>3 DEF Snapshot, Scan, Finish, PruneCrash
<1> QED
  BY <1>1, <1>2, <1>3 DEF Prune, Work

LEMMA PruneStages ==
    ASSUME TypeOK, NEW p \in Prunes, Prune(p)
    PROVE  \A q \in Prunes \ {p} :
              /\ stage'[q] = stage[q] /\ expired'[q] = expired[q] /\ seen'[q] = seen[q]
              /\ todo'[q] = todo[q] /\ hit'[q] = hit[q] /\ stranded'[q] = stranded[q]
              /\ old'[q] = old[q] /\ report'[q] = report[q]
<1> USE DEF TypeOK, loop, Turn
<1>1. CASE Select(p) \/ Decide(p) \/ DeleteRefused(p)
  BY <1>1 DEF Select, Decide, DeleteRefused
<1>2. CASE Stat(p)
  <2>1. PICK j \in Jobs : \E x : seen' = [seen EXCEPT ![p][j] = x]
    BY <1>2 DEF Stat
  <2>2. \A q \in Prunes \ {p} : seen'[q] = seen[q] /\ todo'[q] = todo[q]
    BY <1>2, <2>1 DEF Stat
  <2> QED
    BY <1>2, <2>2 DEF Stat
<1>3. CASE DeleteRows(p)
  BY <1>3 DEF DeleteRows
<1>4. CASE Check(p)
  <2>1. /\ \E x : hit' = [hit EXCEPT ![p] = x]
        /\ \E x : todo' = [todo EXCEPT ![p] = x]
        /\ \E x : stranded' = [stranded EXCEPT ![p] = x]
    BY <1>4 DEF Check
  <2> QED
    BY <1>4, <2>1 DEF Check
<1>5. CASE Unlink(p) \/ UnlinkFails(p)
  BY <1>5 DEF Unlink, UnlinkFails
<1>6. CASE Snapshot(p)
  BY <1>6 DEF Snapshot
<1>7. CASE Scan(p)
  <2>1. \E x : report' = [report EXCEPT ![p] = x]
    BY <1>7 DEF Scan
  <2> QED
    BY <1>7, <2>1 DEF Scan
<1>8. CASE Finish(p) \/ PruneCrash(p)
  BY <1>8 DEF Finish, PruneCrash
<1> QED
  BY <1>1, <1>2, <1>3, <1>4, <1>5, <1>6, <1>7, <1>8 DEF Prune, Work

----------------------------------------------------------------------------
(* Uploads: the write lock and the rows it protects *)

\* The lock is only ever held by a request in the middle of its handler.
THEOREM LockReleased == Spec => []NoLeakedLock
<1>1. Init => NoLeakedLock
  BY DEF Init, NoLeakedLock
<1>2. TypeOK /\ NoLeakedLock /\ [Next]_vars => NoLeakedLock'
  <2> SUFFICES ASSUME TypeOK, NoLeakedLock, [Next]_vars PROVE NoLeakedLock'
    OBVIOUS
  <2> USE DEF NoLeakedLock, entries, files, uploads, prunes, shared
  <2>1. ASSUME UNCHANGED <<pc, lock>> PROVE NoLeakedLock'
    BY <2>1
  <2>2. CASE OtherWriter
    BY <2>2 DEF OtherWriter, ElsewhereTakes, ElsewhereDrops, Take, Drop
  <2>3. ASSUME NEW u \in Uploads, Upload(u) PROVE NoLeakedLock'
    <3> USE DEF Go, Answer, Take, Drop, TypeOK
    <3>1. CASE Insert(u)
      BY <3>1 DEF Insert
    <3>2. CASE Refuse(u) \/ Start(u) \/ Save(u) \/ SaveFails(u)
      BY <3>2 DEF Refuse, Start, Save, SaveFails
    <3>3. CASE RefuseDuplicate(u) \/ Rename(u) \/ Commit(u)
      BY <3>3 DEF RefuseDuplicate, Rename, Commit
    <3>4. CASE StoreFails(u)
      BY <3>4 DEF StoreFails
    <3>5. CASE Rollback(u)
      BY <3>5 DEF Rollback
    <3>6. CASE Cleanup(u) \/ Crash(u)
      BY <3>6 DEF Cleanup, Crash
    <3> QED
      BY <2>3, <3>1, <3>2, <3>3, <3>4, <3>5, <3>6 DEF Upload, Handler
  <2> QED
    BY <2>1, <2>2, <2>3, PruneEffects DEF Next, vars, Settle, Age
<1> QED
  BY <1>1, <1>2, TypeCorrect, PTL DEF Spec

\* An upload that found its job free keeps it free until its own commit.
LEMMA WriterStep == TypeOK /\ WriterInv /\ [Next]_vars => WriterInv'
<1> SUFFICES ASSUME TypeOK, WriterInv, [Next]_vars PROVE WriterInv'
  OBVIOUS
<1> USE DEF WriterInv, entries, files, uploads, prunes, shared
<1>1. ASSUME UNCHANGED <<row, pc, lock, settled>> PROVE WriterInv'
  BY <1>1 DEF Over
<1>2. CASE OtherWriter
  BY <1>2 DEF OtherWriter, ElsewhereTakes, ElsewhereDrops, Take, Drop, Over
<1>3. ASSUME NEW u \in Uploads, Upload(u) PROVE WriterInv'
  <2>1. ASSUME NEW w \in Uploads \ {u}
        PROVE  /\ pc'[w] \in {"refusing", "renaming", "committing"} => lock' = w
               /\ pc'[w] \in {"renaming", "committing"} => row'[Job[w]] = None
               /\ w \in settled' => Over(w)'
    <3>1. pc'[w] = pc[w] /\ settled' = settled
      BY <1>3, <2>1, UploadEffects
    <3>2. CASE Insert(u)
      BY <3>1, <3>2 DEF Insert, Take, Over
    <3>3. CASE Commit(u)
      BY <3>1, <3>3 DEF Commit, Go, Answer, Drop, Over, TypeOK
    <3> QED
      BY <1>3, <3>1, <3>2, <3>3, UploadEffects DEF Over
  <2>2. /\ pc'[u] \in {"refusing", "renaming", "committing"} => lock' = u
        /\ pc'[u] \in {"renaming", "committing"} => row'[Job[u]] = None
    <3> USE DEF TypeOK, Go, Answer
    <3>1. CASE Refuse(u) \/ Start(u) \/ Save(u) \/ SaveFails(u)
      BY <3>1 DEF Refuse, Start, Save, SaveFails
    <3>2. CASE Insert(u)
      BY <3>2 DEF Insert, Take
    <3>3. CASE RefuseDuplicate(u) \/ Rename(u) \/ Commit(u)
      BY <3>3 DEF RefuseDuplicate, Rename, Commit
    <3>4. CASE StoreFails(u)
      BY <3>4 DEF StoreFails
    <3>5. CASE Rollback(u) \/ Cleanup(u) \/ Crash(u)
      BY <3>5 DEF Rollback, Cleanup, Crash
    <3> QED
      BY <1>3, <3>1, <3>2, <3>3, <3>4, <3>5 DEF Upload, Handler
  <2>3. u \notin settled'
    BY <1>3, UploadEffects DEF prunes
  <2> QED
    BY <2>1, <2>2, <2>3
<1>4. ASSUME NEW u \in Uploads, Settle(u) PROVE WriterInv'
  BY <1>4 DEF Settle, Over
<1>5. ASSUME NEW p \in Prunes, Prune(p) PROVE WriterInv'
  BY <1>5, <1>1, PruneEffects DEF DeleteRows, TypeOK, Over
<1> QED
  BY <1>1, <1>2, <1>3, <1>4, <1>5 DEF Next, vars, Age

\* The files on disk and the inodes a prune recorded are of uploads for that job
\* which are past their rename.
LEMMA PlaceStep == TypeOK /\ PlaceInv /\ [Next]_vars => PlaceInv'
<1> SUFFICES ASSUME TypeOK, PlaceInv, [Next]_vars PROVE PlaceInv'
  OBVIOUS
<1> USE DEF PlaceInv, entries, files, uploads, loop, prunes, shared, Bytes
<1>1. ASSUME UNCHANGED <<file, pc, seen>> PROVE PlaceInv'
  BY <1>1 DEF Placed
<1>2. ASSUME NEW u \in Uploads, Upload(u) PROVE PlaceInv'
  <2>1. \A w \in Uploads : Placed(w) => Placed(w)'
    BY <1>2, UploadEffects DEF Placed
  <2>2. CASE Rename(u)
    <3>1. Placed(u)' /\ UNCHANGED seen
      BY <2>2 DEF Rename, Go, Placed, TypeOK
    <3> QED
      BY <2>1, <2>2, <3>1 DEF Rename, TypeOK
  <2> QED
    BY <1>2, <2>1, <2>2, UploadEffects DEF TypeOK
<1>3. ASSUME NEW p \in Prunes, Prune(p) PROVE PlaceInv'
  <2>0. pc' = pc
    BY <1>3, PruneEffects
  <2>1. \A w \in Uploads : Placed(w)' <=> Placed(w)
    BY <2>0 DEF Placed
  <2>2. CASE Stat(p)
    <3>1. PICK j \in Jobs : \E x \in {file[j], None} : seen' = [seen EXCEPT ![p][j] = x]
      BY <2>2 DEF Stat, TypeOK
    <3>2. \A q \in Prunes, k \in Jobs : seen'[q][k] \in {seen[q][k], file[k], None}
      BY <3>1 DEF TypeOK
    <3> QED
      BY <2>1, <2>2, <3>2 DEF Stat, TypeOK
  <2>3. CASE Unlink(p)
    BY <2>1, <2>3 DEF Unlink, TypeOK
  <2> QED
    BY <1>3, <2>1, <2>2, <2>3, PruneEffects DEF TypeOK
<1> QED
  BY <1>1, <1>2, <1>3 DEF Next, vars, OtherWriter, Settle, Age

----------------------------------------------------------------------------
(* Prunes: every file accounted for, no orphan in use *)

\* What a prune has dealt with is gone or stranded.
LEMMA PruneInductive == TypeOK /\ PlaceInv /\ PruneInv /\ [Next]_vars => PruneInv'
<1> SUFFICES ASSUME TypeOK, PlaceInv, PruneInv, [Next]_vars PROVE PruneInv'
  OBVIOUS
<1> USE DEF entries, files, uploads, loop, prunes, shared
<1> DEFINE Dealt(p, j) == \/ stage[p] = "unlinking" /\ j \in todo[p]
                          \/ p \in DryRuns
                          \/ seen[p][j] = None
                          \/ file[j] # seen[p][j]
           Fine(p) ==
             /\ stage[p] \in {"idle", "stating", "deleting"} => hit[p] = None
             /\ stage[p] \in {"unlinking", "scanning", "done"} =>
                   \A j \in expired[p] \ stranded[p] : Dealt(p, j)
<1>0. ASSUME \A p \in Prunes : Fine(p)' PROVE PruneInv'
  BY <1>0 DEF PruneInv
<1>a. \A p \in Prunes : Fine(p)
  BY DEF PruneInv
<1>1. ASSUME UNCHANGED <<file, stage, loop>> PROVE PruneInv'
  BY <1>1 DEF PruneInv
<1>2. ASSUME NEW u \in Uploads, Rename(u) PROVE PruneInv'
  <2>1. ASSUME NEW p \in Prunes, NEW j \in expired[p] PROVE Dealt(p, j) => Dealt(p, j)'
    <3>1. j \in Jobs /\ ~Placed(u) /\ u # None
      BY <1>2, <2>1 DEF Rename, Go, Placed, TypeOK
    <3>2. seen[p][j] # u
      BY <3>1 DEF PlaceInv
    <3> QED
      BY <1>2, <3>1, <3>2 DEF Rename, TypeOK
  <2> QED
    BY <1>0, <1>a, <1>2, <2>1 DEF Rename
<1>3. ASSUME NEW p \in Prunes, Prune(p) PROVE PruneInv'
  <2>1. ASSUME NEW q \in Prunes \ {p} PROVE Fine(q)'
    <3>1. \A j \in Jobs : file'[j] \in {file[j], None}
      BY <1>3, PruneEffects DEF Unlink, TypeOK
    <3>2. ASSUME NEW j \in expired[q] PROVE Dealt(q, j) => Dealt(q, j)'
      BY <1>3, <2>1, <3>1, PruneStages DEF TypeOK
    <3> QED
      BY <1>3, <1>a, <2>1, <3>2, PruneStages
  <2>2. Fine(p)'
    <3> USE DEF Turn, TypeOK
    <3>0. Fine(p)
      BY <1>a
    <3>1. CASE Select(p) \/ Stat(p) \/ Decide(p) \/ DeleteRefused(p) \/ PruneCrash(p)
      BY <3>0, <3>1 DEF Select, Stat, Decide, DeleteRefused, PruneCrash
    <3>2. CASE DeleteRows(p)
      BY <3>0, <3>2 DEF DeleteRows
    <3>3. CASE Check(p)
      <4>1. PICK j \in todo[p] :
              \/ todo' = todo /\ stranded' = stranded
              \/ ~Unchanged(p, j) /\ todo' = [todo EXCEPT ![p] = todo[p] \ {j}]
                   /\ stranded' = stranded
              \/ /\ todo' = [todo EXCEPT ![p] = todo[p] \ {j}]
                 /\ stranded' = [stranded EXCEPT ![p] = stranded[p] \cup {j}]
        BY <3>3 DEF Check
      <4>2. stage[p] = "unlinking" /\ UNCHANGED <<stage, expired, seen, file>>
        BY <3>3 DEF Check
      <4>3. ~Unchanged(p, j) => seen[p][j] = None \/ file[j] # seen[p][j]
        BY DEF Unchanged
      <4>4. \A k \in expired[p] \ stranded'[p] : Dealt(p, k)'
        BY <3>0, <4>1, <4>2, <4>3
      <4> QED
        BY <4>2, <4>4
    <3>4. CASE Unlink(p)
      <4>1. stage[p] = "unlinking" /\ hit[p] \in Uploads
        BY <3>4 DEF Unlink, Bytes
      <4> QED
        BY <3>0, <3>4, <4>1 DEF Unlink
    <3>5. CASE UnlinkFails(p)
      BY <3>0, <3>5 DEF UnlinkFails, Bytes
    <3>6. CASE Snapshot(p)
      BY <3>0, <3>6 DEF Snapshot, NothingToDelete
    <3>7. CASE Scan(p) \/ Finish(p)
      BY <3>0, <3>7 DEF Scan, Finish
    <3> QED
      BY <1>3, <3>1, <3>2, <3>3, <3>4, <3>5, <3>6, <3>7 DEF Prune, Work
  <2> QED
    BY <1>0, <2>1, <2>2
<1> QED
  BY <1>1, <1>2, <1>3, UploadEffects DEF Next, vars, OtherWriter, Settle, Age

\* A file reported as an orphan is one whose upload has ended unrecorded.
LEMMA ScanStep == TypeOK /\ WriterInv /\ PlaceInv /\ ScanInv /\ [Next]_vars => ScanInv'
<1> SUFFICES ASSUME TypeOK, WriterInv, PlaceInv, ScanInv, [Next]_vars PROVE ScanInv'
  OBVIOUS
<1> USE DEF entries, files, uploads, loop, prunes, shared
<1>0. \A p \in Prunes : \A x \in old[p] : x \in Uploads /\ Over(x)
  BY DEF TypeOK, ScanInv, WriterInv
<1>1. ASSUME UNCHANGED <<pc, row, settled, stage, loop>> PROVE ScanInv'
  BY <1>1 DEF ScanInv, Over
<1>2. ASSUME NEW u \in Uploads, Upload(u) PROVE ScanInv'
  <2>1. \A x \in Uploads : Over(x) => Over(x)' /\ x # u
    BY <1>2, UploadEffects DEF Over
  <2>2. \A j \in Jobs : row'[j] \in {row[j], u}
    BY <1>2, UploadEffects DEF Commit, TypeOK
  <2>3. UNCHANGED <<stage, old, todo, report, settled>>
    BY <1>2, UploadEffects
  <2> QED
    BY <1>0, <2>1, <2>2, <2>3 DEF ScanInv, TypeOK
<1>3. ASSUME NEW u \in Uploads, Settle(u) PROVE ScanInv'
  BY <1>3 DEF Settle, ScanInv, Over
<1>4. ASSUME NEW p \in Prunes, Prune(p) PROVE ScanInv'
  <2>1. UNCHANGED <<pc, settled>>
    BY <1>4, PruneEffects
  <2>2. \A j \in Jobs : row'[j] \in {row[j], None}
    BY <1>4, PruneEffects DEF DeleteRows, TypeOK
  <2>3. ASSUME NEW q \in Prunes, UNCHANGED <<old[q], report[q]>>,
               stage'[q] = "scanning" => stage[q] = "scanning" /\ todo'[q] = todo[q]
        PROVE  /\ old'[q] \subseteq settled'
               /\ stage'[q] = "scanning" =>
                    \A x \in old'[q] : Job[x] \in todo'[q] => row'[Job[x]] # x
               /\ \A x \in report'[q] : Over(x)' /\ row'[Job[x]] # x
    BY <2>1, <2>2, <2>3, <1>0 DEF ScanInv, Over, TypeOK
  <2>4. \A q \in Prunes \ {p} :
               /\ UNCHANGED <<old[q], report[q]>>
               /\ stage'[q] = "scanning" => stage[q] = "scanning" /\ todo'[q] = todo[q]
    BY <1>4, PruneStages
  <2>5. /\ old'[p] \subseteq settled'
        /\ stage'[p] = "scanning" =>
             \A x \in old'[p] : Job[x] \in todo'[p] => row'[Job[x]] # x
        /\ \A x \in report'[p] : Over(x)' /\ row'[Job[x]] # x
    <3> USE DEF Turn
    <3>1. CASE Select(p) \/ Stat(p) \/ Decide(p) \/ DeleteRows(p) \/ DeleteRefused(p)
      BY <2>3, <3>1 DEF Select, Stat, Decide, DeleteRows, DeleteRefused, TypeOK
    <3>2. CASE Check(p) \/ Unlink(p) \/ UnlinkFails(p)
      BY <2>3, <3>2 DEF Check, Unlink, UnlinkFails, TypeOK
    <3>3. CASE Finish(p) \/ PruneCrash(p)
      BY <2>3, <3>3 DEF Finish, PruneCrash, TypeOK
    <3>4. CASE Snapshot(p)
      BY <3>4, <2>1 DEF Snapshot, ScanInv, WriterInv, Over, TypeOK
    <3>5. CASE Scan(p)
      <4>1. PICK j \in todo[p] :
              /\ todo' = [todo EXCEPT ![p] = todo[p] \ {j}]
              /\ \/ report' = report
                 \/ report' = [report EXCEPT ![p] = report[p] \cup ({file[j]} \cap old[p])]
        BY <3>5 DEF Scan
      <4>2. stage[p] = "scanning" /\ UNCHANGED <<stage, old, row>>
        BY <3>5 DEF Scan
      <4>3. ASSUME file[j] \in old[p] PROVE Over(file[j]) /\ row[Job[file[j]]] # file[j]
        <5>1. file[j] \in Uploads /\ Over(file[j]) /\ j \in Jobs
          BY <1>0, <4>1, <4>3 DEF TypeOK
        <5>2. Job[file[j]] = j
          BY <5>1 DEF PlaceInv
        <5> QED
          BY <4>1, <4>2, <4>3, <5>1, <5>2 DEF ScanInv
      <4> QED
        BY <2>1, <4>1, <4>2, <4>3 DEF ScanInv, Over, TypeOK
    <3> QED
      BY <1>4, <3>1, <3>2, <3>3, <3>4, <3>5 DEF Prune, Work
  <2> QED
    BY <2>3, <2>4, <2>5 DEF ScanInv
<1> QED
  BY <1>1, <1>2, <1>3, <1>4 DEF Next, vars, OtherWriter, Age

LEMMA SharedInvariants == Spec => [](WriterInv /\ PlaceInv /\ PruneInv /\ ScanInv)
<1>1. Init => WriterInv /\ PlaceInv /\ PruneInv /\ ScanInv
  BY DEF Init, WriterInv, PlaceInv, PruneInv, ScanInv
<1> QED
  BY <1>1, WriterStep, PlaceStep, PruneInductive, ScanStep, TypeCorrect, PTL DEF Spec

\* A prune that ended left no file behind that it does not name.
THEOREM PruneAccounts == Spec => []PrunedFilesAccounted
<1>1. PruneInv => PrunedFilesAccounted
  BY DEF PruneInv, PrunedFilesAccounted
<1> QED
  BY <1>1, SharedInvariants, PTL

\* Deleting a reported orphan never takes the file of an entry.
THEOREM OrphansStaySafe == Spec => []OrphansAreSafeToDelete
<1>1. ScanInv => OrphansAreSafeToDelete
  BY DEF ScanInv, OrphansAreSafeToDelete
<1> QED
  BY <1>1, SharedInvariants, PTL

----------------------------------------------------------------------------
(* Entries and their files, on a file system that reuses no inode *)

LEMMA UnlinkStep ==
    ASSUME "reuse" \notin Faults
    PROVE  TypeOK /\ WriterInv /\ PlaceInv /\ PruneInv /\ UnlinkInv /\ [Next]_vars
              => UnlinkInv'
<1> SUFFICES ASSUME TypeOK, WriterInv, PlaceInv, PruneInv, UnlinkInv, [Next]_vars
             PROVE  UnlinkInv'
  OBVIOUS
<1> USE DEF entries, files, uploads, loop, prunes, shared
<1> DEFINE Inodes == \A u \in Uploads : inode[u] = u
           Backed(j) == j \notin raced => (row[j] # None => file[j] = row[j])
           Held(u) == pc[u] = "committing" => file[Job[u]] = u \/ Job[u] \in raced
           Doomed(p) == stage[p] = "unlinking" =>
              /\ hit[p] # None => /\ Job[hit[p]] \in expired[p]
                                  /\ seen[p][Job[hit[p]]] = hit[p]
              /\ todo[p] \subseteq expired[p]
              /\ \A j \in expired[p] : seen[p][j] # None =>
                    row[j] # seen[p][j] /\ pc[seen[p][j]] # "committing"
<1>a. /\ Inodes /\ (\A j \in Jobs : Backed(j)) /\ (\A u \in Uploads : Held(u))
      /\ \A p \in Prunes : Doomed(p)
  BY DEF UnlinkInv
<1>b. ASSUME Inodes', \A j \in Jobs : Backed(j)', \A u \in Uploads : Held(u)',
             \A p \in Prunes : Doomed(p)'
      PROVE  UnlinkInv'
  BY <1>b DEF UnlinkInv
<1>1. ASSUME UNCHANGED <<pc, row, file, inode, raced, stage, loop>> PROVE UnlinkInv'
  BY <1>1 DEF UnlinkInv
<1>2. ASSUME NEW u \in Uploads, Upload(u) PROVE UnlinkInv'
  <2>0. UNCHANGED <<stage, loop>> /\ \A w \in Uploads \ {u} : pc'[w] = pc[w]
    BY <1>2, UploadEffects
  <2>1. Inodes'
    <3>1. CASE Start(u)
      <4>1. inode' = [inode EXCEPT ![u] = u]
        BY <3>1 DEF Start, May
      <4> QED
        BY <1>a, <4>1 DEF TypeOK
    <3> QED
      BY <1>a, <1>2, <3>1, UploadEffects
  <2>2. CASE Rename(u)
    <3>1. /\ pc[u] = "renaming" /\ ~Placed(u) /\ row[Job[u]] = None /\ lock = u
          /\ UNCHANGED row /\ file' = [file EXCEPT ![Job[u]] = u]
      BY <2>2 DEF Rename, Go, Placed, WriterInv
    <3>2. ASSUME NEW j \in Jobs PROVE Backed(j)'
      BY <1>a, <2>0, <3>1 DEF TypeOK
    <3>3. ASSUME NEW w \in Uploads PROVE Held(w)'
      BY <1>a, <2>0, <3>1 DEF TypeOK, WriterInv
    <3>4. ASSUME NEW p \in Prunes PROVE Doomed(p)'
      <4>1. ASSUME NEW j \in expired[p], seen[p][j] # None
            PROVE  seen[p][j] \in Uploads \ {u}
        BY <3>1, <4>1 DEF PlaceInv, TypeOK, Bytes
      <4> QED
        BY <1>a, <2>0, <3>1, <4>1
    <3> QED
      BY <1>b, <2>1, <3>2, <3>3, <3>4
  <2>3. CASE Commit(u)
    <3>1. /\ pc[u] = "committing" /\ pc'[u] = "cleanup" /\ UNCHANGED file
          /\ row' = [row EXCEPT ![Job[u]] = u]
      BY <2>3 DEF Commit, Answer, Go, TypeOK
    <3>2. ASSUME NEW j \in Jobs PROVE Backed(j)'
      BY <1>a, <2>0, <3>1 DEF TypeOK
    <3>3. ASSUME NEW w \in Uploads PROVE Held(w)'
      BY <1>a, <2>0, <3>1
    <3>4. ASSUME NEW p \in Prunes PROVE Doomed(p)'
      <4>1. ASSUME NEW j \in expired[p], seen[p][j] # None, stage[p] = "unlinking"
            PROVE  seen[p][j] \in Uploads \ {u}
        BY <1>a, <3>1, <4>1 DEF TypeOK, Bytes
      <4>2. ASSUME NEW j \in expired[p] PROVE row'[j] \in {row[j], u} /\ j \in Jobs
        BY <3>1 DEF TypeOK
      <4> QED
        BY <1>a, <2>0, <3>1, <4>1, <4>2
    <3> QED
      BY <1>b, <2>1, <3>2, <3>3, <3>4
  <2>4. CASE ~Rename(u) /\ ~Commit(u)
    <3>1. UNCHANGED <<row, file>> /\ pc'[u] # "committing"
      BY <1>2, <2>4, UploadEffects
    <3>2. ASSUME NEW j \in Jobs PROVE Backed(j)'
      BY <1>a, <2>0, <3>1
    <3>3. ASSUME NEW w \in Uploads PROVE Held(w)'
      BY <1>a, <2>0, <3>1
    <3>4. ASSUME NEW p \in Prunes PROVE Doomed(p)'
      <4>1. ASSUME NEW j \in expired[p], seen[p][j] # None
            PROVE  seen[p][j] \in Uploads
        BY <4>1 DEF TypeOK, Bytes
      <4> QED
        BY <1>a, <2>0, <3>1, <4>1
    <3> QED
      BY <1>b, <2>1, <3>2, <3>3, <3>4
  <2> QED
    BY <2>2, <2>3, <2>4
<1>3. ASSUME NEW p \in Prunes, Prune(p) PROVE UnlinkInv'
  <2>0. UNCHANGED <<pc, inode>>
    BY <1>3, PruneEffects
  <2>1. \A j \in Jobs : row'[j] \in {row[j], None}
    BY <1>3, PruneEffects DEF DeleteRows, TypeOK
  <2>2. (\A j \in Jobs : Backed(j)') /\ (\A u \in Uploads : Held(u)')
    <3>1. CASE Unlink(p)
      <4> DEFINE k == Job[hit[p]]
      <4>1. /\ stage[p] = "unlinking" /\ hit[p] \in Uploads /\ UNCHANGED row
            /\ file' = [file EXCEPT ![k] = None]
            /\ raced' = IF file[k] \in {None, hit[p]} THEN raced ELSE raced \cup {k}
        BY <3>1 DEF Unlink, TypeOK, Bytes
      <4>2. k \in Jobs /\ row[k] # hit[p] /\ pc[hit[p]] # "committing"
        <5>1. k \in expired[p] /\ seen[p][k] = hit[p]
          BY <1>a, <4>1
        <5> QED
          BY <1>a, <4>1, <5>1 DEF TypeOK
      <4> HIDE DEF k
      <4>3. ASSUME NEW j \in Jobs PROVE Backed(j)'
        BY <1>a, <4>1, <4>2 DEF TypeOK
      <4>4. ASSUME NEW u \in Uploads PROVE Held(u)'
        BY <1>a, <2>0, <4>1, <4>2 DEF TypeOK
      <4> QED
        BY <4>3, <4>4
    <3>2. CASE ~Unlink(p)
      BY <1>a, <1>3, <2>0, <2>1, <3>2, PruneEffects
    <3> QED
      BY <3>1, <3>2
  <2>3. ASSUME NEW q \in Prunes \ {p} PROVE Doomed(q)'
    BY <1>a, <1>3, <2>0, <2>1, <2>3, PruneStages DEF TypeOK
  <2>4. Doomed(p)'
    <3> USE DEF Turn, TypeOK
    <3>1. CASE DeleteRows(p)
      <4>1. \A u \in Uploads : pc[u] # "committing"
        BY <3>1 DEF DeleteRows, WriterInv
      <4>2. hit[p] = None
        BY <3>1 DEF DeleteRows, PruneInv
      <4> QED
        BY <2>0, <3>1, <4>1, <4>2 DEF DeleteRows, Bytes
    <3>2. CASE Check(p)
      <4>1. PICK j \in todo[p] :
              \/ Unchanged(p, j) /\ hit' = [hit EXCEPT ![p] = file[j]] /\ todo' = todo
              \/ hit' = hit /\ todo' = [todo EXCEPT ![p] = todo[p] \ {j}]
        BY <3>2 DEF Check
      <4>2. stage[p] = "unlinking" /\ UNCHANGED <<stage, expired, seen, row>>
        BY <3>2 DEF Check
      <4>3. ASSUME Unchanged(p, j) PROVE seen[p][j] = file[j] /\ Job[file[j]] = j
        BY <1>a, <4>1, <4>3 DEF Unchanged, PlaceInv, Bytes
      <4>4. todo'[p] \subseteq todo[p]
        BY <4>1
      <4>5. hit'[p] # None => Job[hit'[p]] \in expired[p] /\ seen[p][Job[hit'[p]]] = hit'[p]
        BY <1>a, <4>1, <4>2, <4>3
      <4> QED
        BY <1>a, <2>0, <4>2, <4>4, <4>5
    <3>3. CASE Unlink(p) \/ UnlinkFails(p)
      BY <1>a, <2>0, <3>3 DEF Unlink, UnlinkFails
    <3>4. CASE Select(p) \/ Stat(p) \/ Decide(p) \/ DeleteRefused(p)
      BY <3>4 DEF Select, Stat, Decide, DeleteRefused
    <3>5. CASE Snapshot(p) \/ Scan(p) \/ Finish(p) \/ PruneCrash(p)
      BY <3>5 DEF Snapshot, Scan, Finish, PruneCrash
    <3> QED
      BY <1>3, <3>1, <3>2, <3>3, <3>4, <3>5 DEF Prune, Work
  <2> QED
    BY <1>a, <1>b, <2>0, <2>2, <2>3, <2>4
<1> QED
  BY <1>1, <1>2, <1>3 DEF Next, vars, OtherWriter, Settle, Age

\* Where no inode is handed out twice, a prune never takes the file of an entry
\* that is not its own to delete, outside the gap between check and unlink.
THEOREM EntriesKeepTheirFiles ==
    ASSUME "reuse" \notin Faults
    PROVE  Spec => []EntryHasItsFile
<1>1. Init => UnlinkInv
  BY DEF Init, UnlinkInv
<1>2. UnlinkInv => EntryHasItsFile
  BY DEF UnlinkInv, EntryHasItsFile
<1> QED
  BY <1>1, <1>2, UnlinkStep, SharedInvariants, TypeCorrect, PTL DEF Spec

----------------------------------------------------------------------------
(* Entries, when prunes do not overlap *)

\* The rows a lone prune selected stay old until it deletes them.
LEMMA SelectStep ==
    ASSUME "twice" \notin Faults
    PROVE  TypeOK /\ SelectInv /\ [Next]_vars => SelectInv'
<1> SUFFICES ASSUME TypeOK, SelectInv, [Next]_vars PROVE SelectInv'
  OBVIOUS
<1> USE DEF entries, files, uploads, loop, prunes, shared
<1>1. ASSUME UNCHANGED <<stage, expired>>, aged \subseteq aged' PROVE SelectInv'
  BY <1>1 DEF SelectInv, Running
<1>2. ASSUME NEW p \in Prunes, Prune(p) PROVE SelectInv'
  <2> DEFINE Chosen(q) == stage[q] \in {"stating", "deleting"} => expired[q] \subseteq aged
  <2>1. ASSUME NEW q \in Prunes \ {p} PROVE (Running(q)' <=> Running(q)) /\ Chosen(q)'
    <3>1. stage'[q] = stage[q] /\ expired'[q] = expired[q]
      BY <1>2, <2>1, PruneStages
    <3>2. CASE DeleteRows(p)
      BY <2>1, <3>1, <3>2 DEF SelectInv, Running, DeleteRows, Turn
    <3> QED
      BY <1>2, <3>1, <3>2, PruneEffects DEF SelectInv, Running
  <2>2. Chosen(p)' /\ (Running(p)' => Running(p) \/ \A q \in Prunes : ~Running(q))
    <3> USE DEF Turn, TypeOK, Running, SelectInv
    <3>1. CASE Select(p)
      BY <3>1 DEF Select, May
    <3>2. CASE Stat(p) \/ Decide(p) \/ DeleteRows(p) \/ DeleteRefused(p)
      BY <3>2 DEF Stat, Decide, DeleteRows, DeleteRefused
    <3>3. CASE Check(p) \/ Unlink(p) \/ UnlinkFails(p)
      BY <3>3 DEF Check, Unlink, UnlinkFails
    <3>4. CASE Snapshot(p) \/ Scan(p) \/ Finish(p) \/ PruneCrash(p)
      BY <3>4 DEF Snapshot, Scan, Finish, PruneCrash
    <3> QED
      BY <1>2, <3>1, <3>2, <3>3, <3>4 DEF Prune, Work
  <2> QED
    BY <2>1, <2>2 DEF SelectInv
<1> QED
  BY <1>1, <1>2, UploadEffects DEF Next, vars, OtherWriter, Settle, Age

LEMMA SelectInvariant ==
    ASSUME "twice" \notin Faults
    PROVE  Spec => []SelectInv
<1>1. Init => SelectInv
  BY DEF Init, SelectInv, Running
<1> QED
  BY <1>1, SelectStep, TypeCorrect, PTL DEF Spec

\* A recorded entry is never overwritten, and only a prune removes it, once it is
\* as old as the prune was told to take.
THEOREM EntriesOnlyLeaveOld ==
    ASSUME "twice" \notin Faults
    PROVE  Spec => EntriesOnlyExpire
<1>1. TypeOK /\ WriterInv /\ SelectInv /\ [Next]_vars => [EntryExpires]_vars
  <2> SUFFICES ASSUME TypeOK, WriterInv, SelectInv, [Next]_vars PROVE EntryExpires
    OBVIOUS
  <2> USE DEF EntryExpires, entries, prunes, shared
  <2>1. ASSUME UNCHANGED row PROVE EntryExpires
    BY <2>1
  <2>2. ASSUME NEW u \in Uploads, Commit(u) PROVE EntryExpires
    BY <2>2 DEF Commit, Answer, Go, WriterInv, TypeOK
  <2>3. ASSUME NEW p \in Prunes, DeleteRows(p) PROVE EntryExpires
    BY <2>3 DEF DeleteRows, Turn, SelectInv, TypeOK
  <2> QED
    BY <2>1, <2>2, <2>3, UploadEffects, PruneEffects
       DEF Next, vars, OtherWriter, Settle, Age
<1> QED
  BY <1>1, SelectInvariant, SharedInvariants, TypeCorrect, PTL DEF Spec, EntriesOnlyExpire

----------------------------------------------------------------------------
(* Uploads and prunes implement the store *)

\* What a step of an upload tells its caller.
LEMMA UploadAnswers ==
    ASSUME TypeOK, AnswerInv, NEW u \in Uploads, Upload(u)
    PROVE  /\ \/ Commit(u) \/ RefuseDuplicate(u) \/ reply' = reply
              \/ /\ reply[u] = "none"
                 /\ \E code \in {"400", "500"} : reply' = [reply EXCEPT ![u] = code]
           /\ pc'[u] \in {"new", "saving", "inserting", "refusing", "renaming", "committing"}
                 => reply' = reply
           /\ pc'[u] = "refusing" => row[Job[u]] # None
<1> DEFINE Early == {"new", "saving", "inserting", "refusing", "renaming", "committing"}
           Told == \/ Commit(u) \/ RefuseDuplicate(u) \/ reply' = reply
                   \/ /\ reply[u] = "none"
                      /\ \E code \in {"400", "500"} : reply' = [reply EXCEPT ![u] = code]
<1>0. pc \in [Uploads -> Steps] /\ (pc[u] \in Early => reply[u] = "none")
  BY DEF TypeOK, AnswerInv
<1> USE DEF uploads, Go, Answer
<1>1. Told
  <2>1. CASE Refuse(u)
    BY <1>0, <2>1 DEF Refuse
  <2>2. CASE Start(u) \/ Save(u) \/ Insert(u) \/ Rename(u)
    BY <2>2 DEF Start, Save, Insert, Rename
  <2>3. CASE SaveFails(u)
    BY <1>0, <2>3 DEF SaveFails
  <2>4. CASE StoreFails(u)
    BY <1>0, <2>4 DEF StoreFails
  <2>5. CASE Rollback(u) \/ Cleanup(u) \/ Crash(u)
    BY <2>5 DEF Rollback, Cleanup, Crash
  <2> QED
    BY <2>1, <2>2, <2>3, <2>4, <2>5 DEF Upload, Handler
<1>2. pc'[u] \in Early => reply' = reply
  <2>1. CASE Refuse(u) \/ SaveFails(u) \/ StoreFails(u)
    BY <1>0, <2>1 DEF Refuse, SaveFails, StoreFails
  <2>2. CASE RefuseDuplicate(u) \/ Commit(u)
    BY <1>0, <2>2 DEF RefuseDuplicate, Commit
  <2>3. CASE Start(u) \/ Save(u) \/ Insert(u) \/ Rename(u)
    BY <2>3 DEF Start, Save, Insert, Rename
  <2>4. CASE Rollback(u) \/ Cleanup(u) \/ Crash(u)
    BY <2>4 DEF Rollback, Cleanup, Crash
  <2> QED
    BY <2>1, <2>2, <2>3, <2>4 DEF Upload, Handler
<1>3. pc'[u] = "refusing" => row[Job[u]] # None
  <2>1. CASE Refuse(u) \/ SaveFails(u) \/ StoreFails(u)
    BY <1>0, <2>1 DEF Refuse, SaveFails, StoreFails
  <2>2. CASE RefuseDuplicate(u) \/ Commit(u)
    BY <1>0, <2>2 DEF RefuseDuplicate, Commit
  <2>3. CASE Insert(u)
    BY <1>0, <2>3 DEF Insert
  <2>4. CASE Start(u) \/ Save(u) \/ Rename(u)
    BY <1>0, <2>4 DEF Start, Save, Rename
  <2>5. CASE Rollback(u) \/ Cleanup(u) \/ Crash(u)
    BY <1>0, <2>5 DEF Rollback, Cleanup, Crash
  <2> QED
    BY <2>1, <2>2, <2>3, <2>4, <2>5 DEF Upload, Handler
<1> QED
  BY <1>1, <1>2, <1>3

LEMMA OthersAnswers ==
    ASSUME TypeOK, AnswerInv, NEW u \in Uploads, Upload(u)
    PROVE  \A w \in Uploads \ {u} : reply'[w] = reply[w]
BY UploadAnswers DEF Commit, RefuseDuplicate, Answer, TypeOK

\* An upload that found an entry keeps the write lock until it has said so, and a
\* prune cannot delete the entry meanwhile.
LEMMA AnswerStep == TypeOK /\ WriterInv /\ AnswerInv /\ [Next]_vars => AnswerInv'
<1> SUFFICES ASSUME TypeOK, WriterInv, AnswerInv, [Next]_vars PROVE AnswerInv'
  OBVIOUS
<1> USE DEF entries, files, uploads, prunes, shared
<1>1. ASSUME UNCHANGED <<row, pc, reply>> PROVE AnswerInv'
  BY <1>1 DEF AnswerInv
<1>2. ASSUME NEW u \in Uploads, Upload(u) PROVE AnswerInv'
  <2>1. \A j \in Jobs : row[j] # None => row'[j] # None
    BY <1>2, UploadEffects DEF Commit, TypeOK
  <2>2. \A w \in Uploads \ {u} : pc'[w] = pc[w] /\ reply'[w] = reply[w]
    BY <1>2, UploadEffects, OthersAnswers
  <2>3. /\ pc'[u] \in {"new", "saving", "inserting", "refusing", "renaming", "committing"}
               => reply'[u] = "none"
        /\ pc'[u] = "refusing" => row'[Job[u]] # None
    <3>1. Placed(u) \/ reply[u] = "none"
      BY DEF Placed, AnswerInv, TypeOK, Steps
    <3>2. Placed(u) /\ pc[u] # "committing" =>
             pc'[u] \notin {"new", "saving", "inserting", "refusing", "renaming", "committing"}
      BY <1>2, UploadEffects DEF Placed, Rename, Go
    <3> QED
      BY <1>2, <2>1, <3>1, <3>2, UploadAnswers DEF AnswerInv
  <2> QED
    BY <2>1, <2>2, <2>3 DEF AnswerInv
<1>3. ASSUME NEW p \in Prunes, DeleteRows(p) PROVE AnswerInv'
  <2>1. \A u \in Uploads : pc[u] # "refusing"
    BY <1>3 DEF DeleteRows, WriterInv
  <2> QED
    BY <1>3, <2>1 DEF DeleteRows, AnswerInv
<1> QED
  BY <1>1, <1>2, <1>3, PruneEffects DEF Next, vars, OtherWriter, Settle, Age, Prune

LEMMA AnswerInvariant == Spec => []AnswerInv
<1>1. Init => AnswerInv
  BY DEF Init, AnswerInv
<1> QED
  BY <1>1, AnswerStep, SharedInvariants, TypeCorrect, PTL DEF Spec

\* Outside the gap of a prune, what is kept of a job is what its row says.
LEMMA KeptIsRow ==
    EntryHasItsFile => \A j \in Jobs : Kept(j) = row[j]
BY DEF EntryHasItsFile, Kept

\* Where no inode is handed out twice and prunes do not overlap, every interleaving of
\* uploads and prunes, with crashes and failures at every step, is a behaviour of the
\* store: commits and deletes are its steps, and all the rest is invisible.
THEOREM HistoryImplementsStore ==
    ASSUME "reuse" \notin Faults, "twice" \notin Faults
    PROVE  Spec => ImplementsHistoryStore
<1>1. Init => Store!Init
  BY DEF Init, Store!Init, Kept, Verdict
<1>2. /\ TypeOK /\ WriterInv /\ AnswerInv /\ SelectInv /\ EntryHasItsFile /\ EntryHasItsFile'
      /\ [Next]_vars
      => [Store!Next]_(Store!vars)
  <2> SUFFICES ASSUME TypeOK, WriterInv, AnswerInv, SelectInv, EntryHasItsFile,
                      EntryHasItsFile', [Next]_vars
               PROVE  [Store!Next]_(Store!vars)
    OBVIOUS
  <2> USE DEF entries, prunes, shared
  <2>1. \A j \in Jobs : Kept(j) = row[j] /\ Kept(j)' = row'[j]
    BY KeptIsRow DEF EntryHasItsFile, Kept
  <2>2. ASSUME UNCHANGED <<row, aged, reply>> PROVE UNCHANGED Store!vars
    BY <2>1, <2>2 DEF Store!vars, Verdict
  <2>3. ASSUME NEW u \in Uploads, Upload(u) PROVE [Store!Next]_(Store!vars)
    <3>1. UNCHANGED aged
      BY <2>3, UploadEffects
    <3>2. CASE Commit(u)
      <4>1. /\ reply[u] = "none" /\ reply' = [reply EXCEPT ![u] = "200"]
            /\ row[Job[u]] = None /\ row' = [row EXCEPT ![Job[u]] = u]
        BY <3>2 DEF Commit, Go, Answer, AnswerInv, WriterInv
      <4>2. \A j \in Jobs : Kept(j)' = IF j = Job[u] THEN u ELSE Kept(j)
        BY <2>1, <4>1 DEF TypeOK
      <4>3. \A w \in Uploads : Verdict(w)' = IF w = u THEN "accepted" ELSE Verdict(w)
        BY <4>1 DEF Verdict, TypeOK
      <4>4. Kept(Job[u]) = None /\ Verdict(u) = "pending"
        BY <2>1, <4>1 DEF Verdict
      <4>5. Store!Accept(u)
        BY <3>1, <4>2, <4>3, <4>4 DEF Store!Accept, Store!Tell
      <4> QED
        BY <4>5 DEF Store!Next
    <3>3. CASE ~Commit(u)
      <4>0. UNCHANGED row
        BY <2>3, <3>3, UploadEffects
      <4>1. CASE RefuseDuplicate(u)
        <5>1. /\ reply[u] = "none" /\ reply' = [reply EXCEPT ![u] = "recorded"]
              /\ row[Job[u]] # None
          BY <4>1 DEF RefuseDuplicate, Go, Answer, AnswerInv
        <5>2. Store!Recorded(u)
          BY <2>1, <3>1, <4>0, <5>1 DEF Store!Recorded, Store!Tell, Verdict, TypeOK
        <5> QED
          BY <5>2 DEF Store!Next
      <4>2. ASSUME NEW code \in {"400", "500"}, reply[u] = "none",
                   reply' = [reply EXCEPT ![u] = code]
            PROVE  Store!Next
        <5>1. Store!Fail(u)
          BY <2>1, <3>1, <4>0, <4>2 DEF Store!Fail, Store!Tell, Verdict, TypeOK
        <5> QED
          BY <5>1 DEF Store!Next
      <4>3. CASE reply' = reply
        BY <2>2, <3>1, <4>0, <4>3
      <4> QED
        BY <2>3, <3>3, <4>1, <4>2, <4>3, UploadAnswers
    <3> QED
      BY <3>2, <3>3
  <2>4. ASSUME NEW p \in Prunes, DeleteRows(p) PROVE Store!Next
    <3>1. expired[p] \subseteq aged
      BY <2>4 DEF DeleteRows, Turn, SelectInv
    <3>2. Store!Expire(expired[p])
      BY <2>1, <2>4 DEF DeleteRows, Store!Expire, uploads, Verdict, TypeOK
    <3> QED
      BY <3>1, <3>2 DEF Store!Next
  <2>5. ASSUME NEW j \in Jobs, Age(j) PROVE Store!Next
    <3>1. Store!Age(j)
      BY <2>1, <2>5 DEF Age, Store!Age, uploads, Verdict
    <3> QED
      BY <3>1 DEF Store!Next
  <2>6. ASSUME NEW p \in Prunes, Prune(p), ~DeleteRows(p) PROVE UNCHANGED Store!vars
    BY <2>2, <2>6, PruneEffects DEF uploads
  <2>7. CASE UNCHANGED vars \/ OtherWriter \/ \E u \in Uploads : Settle(u)
    BY <2>2, <2>7 DEF vars, OtherWriter, Settle, uploads
  <2> QED
    BY <2>3, <2>4, <2>5, <2>6, <2>7 DEF Next
<1> QED
  BY <1>1, <1>2, TypeCorrect, SharedInvariants, AnswerInvariant, EntriesKeepTheirFiles,
     SelectInvariant, PTL DEF Spec, ImplementsHistoryStore, Store!Spec

----------------------------------------------------------------------------
(* No step is in vain *)

\* The job of the file a prune is to unlink is still on its list, since the file was
\* found at the path of a job on it.
LEMMA HitStep == TypeOK /\ PlaceInv /\ PruneInv /\ HitInv /\ [Next]_vars => HitInv'
<1> SUFFICES ASSUME TypeOK, PlaceInv, PruneInv, HitInv, [Next]_vars PROVE HitInv'
  OBVIOUS
<1>1. ASSUME UNCHANGED prunes PROVE HitInv'
  BY <1>1 DEF HitInv, prunes, loop
<1>2. ASSUME NEW p \in Prunes, Prune(p) PROVE HitInv'
  <2>1. ASSUME NEW q \in Prunes \ {p}, stage'[q] = "unlinking", hit'[q] # None
        PROVE  Job[hit'[q]] \in todo'[q]
    BY <1>2, <2>1, PruneStages DEF HitInv
  <2>2. ASSUME stage'[p] = "unlinking", hit'[p] # None PROVE Job[hit'[p]] \in todo'[p]
    <3> USE DEF Turn, TypeOK, loop
    <3>1. CASE Select(p) \/ Decide(p) \/ DeleteRefused(p) \/ Snapshot(p) \/ Finish(p) \/ PruneCrash(p)
      BY <2>2, <3>1 DEF Select, Decide, DeleteRefused, Snapshot, Finish, PruneCrash
    <3>2. CASE Stat(p) \/ Scan(p)
      BY <2>2, <3>2 DEF Stat, Scan
    <3>3. CASE DeleteRows(p)
      BY <2>2, <3>3 DEF DeleteRows, PruneInv
    <3>4. CASE Check(p)
      <4>1. PICK j \in todo[p] :
              \/ Unchanged(p, j) /\ hit' = [hit EXCEPT ![p] = file[j]] /\ todo' = todo
              \/ hit' = hit
        BY <3>4 DEF Check
      <4>2. hit[p] = None
        BY <3>4 DEF Check
      <4>3. Unchanged(p, j) /\ hit'[p] = file[j] /\ todo'[p] = todo[p]
        BY <2>2, <4>1, <4>2
      <4>4. Job[file[j]] = j
        BY <4>3 DEF PlaceInv, Unchanged
      <4> QED
        BY <4>1, <4>3, <4>4
    <3>5. CASE Unlink(p) \/ UnlinkFails(p)
      BY <2>2, <3>5 DEF Unlink, UnlinkFails
    <3> QED
      BY <1>2, <3>1, <3>2, <3>3, <3>4, <3>5 DEF Prune, Work
  <2> QED
    BY <2>1, <2>2 DEF HitInv
<1> QED
  BY <1>1, <1>2, UploadEffects DEF Next, vars, OtherWriter, Settle, Age

\* A step of a prune is progress of that prune.
LEMMA PruneProgress ==
    ASSUME TypeOK, HitInv, NEW p \in Prunes, Work(p) PROVE Nearer(p)
<1> USE DEF TypeOK, Turn, StagesLeft, loop, Nearer
<1>1. CASE Decide(p) \/ DeleteRows(p) \/ DeleteRefused(p) \/ Snapshot(p) \/ Finish(p)
  BY <1>1 DEF Decide, DeleteRows, DeleteRefused, Snapshot, Finish
<1>2. ASSUME NEW j \in todo[p], todo' = [todo EXCEPT ![p] = @ \ {j}], stage' = stage
      PROVE  Nearer(p)
  <2>1. todo'[p] = todo[p] \ {j}
    BY <1>2
  <2> QED
    BY <1>2, <2>1
<1>3. CASE Stat(p) \/ Scan(p)
  BY <1>2, <1>3 DEF Stat, Scan
<1>4. CASE Check(p)
  <2>1. PICK j \in todo[p] :
          \/ Unchanged(p, j) /\ hit' = [hit EXCEPT ![p] = file[j]] /\ todo' = todo
          \/ todo' = [todo EXCEPT ![p] = @ \ {j}]
    BY <1>4 DEF Check
  <2>2. stage' = stage /\ hit[p] = None
    BY <1>4 DEF Check
  <2> QED
    BY <1>2, <2>1, <2>2 DEF Unchanged
<1>5. CASE Unlink(p) \/ UnlinkFails(p)
  <2>1. Job[hit[p]] \in todo[p]
    BY <1>5 DEF HitInv, Unlink, UnlinkFails
  <2> QED
    BY <1>2, <1>5, <2>1 DEF Unlink, UnlinkFails
<1> QED
  BY <1>1, <1>3, <1>4, <1>5 DEF Work

\* A step of an upload is progress of that upload.
LEMMA UploadProgress ==
    ASSUME TypeOK, NEW u \in Uploads, Upload(u)
    PROVE  StepsLeft[pc'[u]] < StepsLeft[pc[u]]
<1> USE DEF TypeOK, Go, Answer, StepsLeft
<1>1. CASE Refuse(u) \/ Start(u) \/ Save(u) \/ SaveFails(u)
  BY <1>1 DEF Refuse, Start, Save, SaveFails
<1>2. CASE Insert(u)
  BY <1>2 DEF Insert
<1>3. CASE RefuseDuplicate(u) \/ Rename(u) \/ Commit(u)
  BY <1>3 DEF RefuseDuplicate, Rename, Commit
<1>4. CASE StoreFails(u) \/ Rollback(u) \/ Cleanup(u)
  BY <1>4 DEF StoreFails, Rollback, Cleanup
<1>5. CASE Crash(u)
  <2>1. pc'[u] = "dead" /\ pc[u] \notin {"done", "dead"}
    BY <1>5 DEF Crash, Over
  <2> QED
    BY <2>1 DEF Steps
<1> QED
  BY <1>1, <1>2, <1>3, <1>4, <1>5 DEF Upload, Handler

\* Every step brings the request or the prune that takes it nearer its end and sets no
\* other back, whatever fails, restarts, reuses inodes or runs twice.
THEOREM NoStepInVain == Spec => EveryStepCounts
<1>1. Init => HitInv
  BY DEF Init, HitInv
<1>2. TypeOK /\ HitInv /\ [Next]_vars => [StepsCount]_vars
  <2> SUFFICES ASSUME TypeOK, HitInv, Next PROVE StepsCount
    BY DEF StepsCount
  <2> USE DEF prunes, loop, uploads, shared
  <2>1. ASSUME NEW u \in Uploads, Upload(u)
        PROVE  /\ UNCHANGED prunes
               /\ StepsLeft[pc'[u]] < StepsLeft[pc[u]]
               /\ \A w \in Uploads \ {u} : pc'[w] = pc[w]
    BY <2>1, UploadEffects, UploadProgress
  <2>2. ASSUME NEW p \in Prunes, Prune(p)
        PROVE  /\ UNCHANGED uploads
               /\ Nearer(p)
               /\ \A q \in Prunes \ {p} : UNCHANGED <<stage[q], todo[q], hit[q]>>
    <3>1. CASE Select(p)
      BY <3>1 DEF Select, Turn, Nearer, StagesLeft, TypeOK
    <3>2. CASE PruneCrash(p)
      <4>1. stage'[p] = "dead" /\ stage[p] \in {"stating", "deleting", "unlinking", "scanning"}
        BY <3>2 DEF PruneCrash, Running, TypeOK, Stages
      <4> QED
        BY <4>1, <2>2, PruneEffects, PruneStages DEF Nearer, StagesLeft
    <3> QED
      BY <2>2, <3>1, <3>2, PruneEffects, PruneStages, PruneProgress DEF Prune
  <2>3. ASSUME NEW u \in Uploads
        PROVE  /\ Handler(u) => pc'[u] # pc[u]
               /\ pc'[u] # pc[u] => StepsLeft[pc'[u]] < StepsLeft[pc[u]]
    <3>1. Handler(u) => pc'[u] # pc[u]
      <4>1. StepsLeft[pc[u]] \in Nat
        BY DEF StepsLeft, TypeOK, Steps
      <4> QED
        BY <2>1, <4>1 DEF Upload
    <3>2. pc'[u] # pc[u] => Upload(u)
      BY <2>1, <2>2 DEF Next, OtherWriter, Settle, Age
    <3> QED
      BY <2>1, <3>1, <3>2
  <2>4. ASSUME NEW p \in Prunes
        PROVE  /\ Work(p) => Nearer(p)
               /\ Nearer(p) \/ UNCHANGED <<stage[p], todo[p], hit[p]>>
    BY <2>1, <2>2 DEF Next, OtherWriter, Settle, Age, Prune
  <2> QED
    BY <2>3, <2>4 DEF StepsCount
<1> QED
  BY <1>1, <1>2, HitStep, TypeCorrect, SharedInvariants, PTL DEF Spec, EveryStepCounts
=============================================================================
