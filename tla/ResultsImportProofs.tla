------------------------ MODULE ResultsImportProofs ------------------------
(***************************************************************************)
(* What imports of results guarantee, for every number of jobs, reports    *)
(* and requests and every interleaving of them.                            *)
(***************************************************************************)
EXTENDS ResultsImport, TLAPS

USE TestrunAssumption, UploadAssumption, ValidAssumption, NoneAssumption, LockAssumption

\* The variables keep their types; in particular a transaction that inserts a
\* testrun row knows an id.
THEOREM TypeCorrect == Spec => []TypeOK
<1>1. Init => TypeOK
  BY DEF Init, TypeOK, Steps, Summed, Closing, Replies, Bytes
<1>2. TypeOK /\ [Next]_vars => TypeOK'
  <2> SUFFICES ASSUME TypeOK, [Next]_vars PROVE TypeOK'
    OBVIOUS
  <2> USE DEF TypeOK, Steps, Summed, Closing, Replies, Bytes, folder, tables, locals
  <2>1. CASE UNCHANGED vars
    BY <2>1 DEF vars
  <2>2. CASE OtherWriter
    BY <2>2 DEF OtherWriter, ElsewhereTakes, ElsewhereDrops, Take, Drop
  <2>3. ASSUME NEW u \in Uploads, Request(u) PROVE TypeOK'
    <3> USE DEF Go, End, Take, Drop
    <3>0. Draws(u) \subseteq Uploads
      BY DEF Draws
    <3>1. CASE Refuse(u)
      BY <3>1 DEF Refuse
    <3>2. CASE Save(u)
      BY <3>0, <3>2 DEF Save
    <3>3. CASE SaveFails(u)
      BY <3>0, <3>3 DEF SaveFails
    <3>4. CASE Sum(u)
      BY <3>4 DEF Sum, Temp
    <3>5. CASE Compare(u)
      BY <3>5 DEF Compare
    <3>6. CASE DropCopy(u)
      BY <3>6 DEF DropCopy, DropTemp
    <3>7. CASE Rename(u)
      BY <3>7 DEF Rename, Keep, DropTemp, Temp
    <3>8. CASE Parse(u)
      BY <3>8 DEF Parse, Kept
    <3>9. CASE Discard(u)
      BY <3>9 DEF Discard, Keep
    <3>10. CASE FileFails(u) \/ TableFails(u)
      <4>1. UNCHANGED <<folder, tables, locals>> /\ End(u, pc[u], "error")
        BY <3>10 DEF FileFails, TableFails
      <4> QED
        BY <4>1
    <3>11. CASE Resolve(u)
      <4>1. \E i \in Nat : tid' = [tid EXCEPT ![u] = i]
        <5>1. 0..Len(testrun) \subseteq Nat
          BY DEF TypeOK
        <5> QED
          BY <3>11, <5>1 DEF Resolve
      <4>2. UNCHANGED <<folder, tables, letters, sum, read, named, reply, lock>>
        BY <3>11 DEF Resolve
      <4>3. \E to \in {"naming", "inserting"} : pc' = [pc EXCEPT ![u] = to]
        BY <3>11 DEF Resolve
      <4>4. u \notin named
        BY <3>11 DEF Resolve
      <4> QED
        BY <4>1, <4>2, <4>3, <4>4
    <3>12. CASE Name(u)
      BY <3>12 DEF Name
    <3>13. CASE Insert(u)
      BY <3>13 DEF Insert
    <3>14. CASE Commit(u)
      BY <3>14 DEF Commit
    <3>15. CASE Crash(u)
      BY <3>15 DEF Crash
    <3> QED
      BY <2>3, <3>1, <3>2, <3>3, <3>4, <3>5, <3>6, <3>7, <3>8, <3>9, <3>10, <3>11,
         <3>12, <3>13, <3>14, <3>15 DEF Request, Handler
  <2> QED
    BY <2>1, <2>2, <2>3 DEF Next
<1> QED
  BY <1>1, <1>2, PTL DEF Spec

----------------------------------------------------------------------------
\* A step of one request leaves the others where they are.
LEMMA RequestFrame ==
  ASSUME TypeOK, NEW u \in Uploads, Request(u)
  PROVE  /\ \A v \in Uploads \ {u} :
                /\ pc'[v] = pc[v] /\ reply'[v] = reply[v] /\ stored'[v] = stored[v]
                /\ letters'[v] = letters[v] /\ sum'[v] = sum[v] /\ read'[v] = read[v]
                /\ tid'[v] = tid[v] /\ (v \in named' <=> v \in named)
         /\ lock' = lock \/ (lock = NoOne /\ lock' = u) \/ (lock = u /\ lock' = NoOne)
<1> USE DEF TypeOK, Go, End, Take, Drop, folder, tables, locals
<1>1. CASE Refuse(u) \/ Crash(u)
  BY <1>1 DEF Refuse, Crash
<1>2. CASE Save(u) \/ SaveFails(u)
  BY <1>2 DEF Save, SaveFails
<1>3. CASE Sum(u) \/ Compare(u)
  BY <1>3 DEF Sum, Compare
<1>4. CASE DropCopy(u) \/ Rename(u)
  BY <1>4 DEF DropCopy, Rename
<1>5. CASE Parse(u) \/ Discard(u)
  BY <1>5 DEF Parse, Discard
<1>6. CASE FileFails(u) \/ TableFails(u)
  BY <1>6 DEF FileFails, TableFails
<1>7. CASE Resolve(u)
  BY <1>7 DEF Resolve
<1>8. CASE Name(u)
  BY <1>8 DEF Name
<1>9. CASE Insert(u) \/ Commit(u)
  BY <1>9 DEF Insert, Commit
<1> QED
  BY <1>1, <1>2, <1>3, <1>4, <1>5, <1>6, <1>7, <1>8, <1>9 DEF Request, Handler

----------------------------------------------------------------------------
\* Whoever has the write lock is between its first statement and its commit: every
\* answer and every crash gives it up.
THEOREM LockReleased == Spec => []NoLeakedLock
<1>1. Init => NoLeakedLock
  BY DEF Init, NoLeakedLock
<1>2. TypeOK /\ NoLeakedLock /\ [Next]_vars => NoLeakedLock'
  <2> SUFFICES ASSUME TypeOK, NoLeakedLock, [Next]_vars PROVE NoLeakedLock'
    OBVIOUS
  <2>1. CASE UNCHANGED vars
    BY <2>1 DEF vars, NoLeakedLock
  <2>2. CASE OtherWriter
    BY <2>2 DEF OtherWriter, ElsewhereTakes, ElsewhereDrops, Take, Drop, NoLeakedLock
  <2>3. ASSUME NEW u \in Uploads, Request(u) PROVE NoLeakedLock'
    <3>1. lock' = u => pc'[u] \in {"inserting", "committing"}
      <4> USE DEF TypeOK, NoLeakedLock, Go, End, Take, Drop
      <4>1. CASE Refuse(u) \/ Crash(u)
        BY <4>1 DEF Refuse, Crash
      <4>2. CASE Save(u) \/ SaveFails(u)
        BY <4>2 DEF Save, SaveFails
      <4>3. CASE Sum(u) \/ Compare(u)
        BY <4>3 DEF Sum, Compare
      <4>4. CASE DropCopy(u) \/ Rename(u)
        BY <4>4 DEF DropCopy, Rename
      <4>5. CASE Parse(u) \/ Discard(u)
        BY <4>5 DEF Parse, Discard
      <4>6. CASE FileFails(u) \/ TableFails(u)
        BY <4>6 DEF FileFails, TableFails
      <4>7. CASE Resolve(u)
        BY <4>7 DEF Resolve
      <4>8. CASE Name(u)
        BY <4>8 DEF Name
      <4>9. CASE Insert(u) \/ Commit(u)
        BY <4>9 DEF Insert, Commit
      <4> QED
        BY <2>3, <4>1, <4>2, <4>3, <4>4, <4>5, <4>6, <4>7, <4>8, <4>9
           DEF Request, Handler
    <3> QED
      BY <2>3, <3>1, RequestFrame DEF NoLeakedLock
  <2> QED
    BY <2>1, <2>2, <2>3 DEF Next
<1> QED
  BY <1>1, <1>2, TypeCorrect, PTL DEF Spec

----------------------------------------------------------------------------
\* An id found stays the one that is found when a row is appended.
LEMMA AppendResolves ==
  ASSUME NEW rows \in Seq(Testruns), NEW more \in Testruns, NEW name,
         NEW i \in Nat \ {0}, Resolves(rows, name, i)
  PROVE  Resolves(Append(rows, more), name, i)
<1> DEFINE longer == Append(rows, more)
<1>1. Len(rows) \in Nat /\ DOMAIN rows = 1..Len(rows)
  OBVIOUS
<1>2. DOMAIN longer = 1..(Len(rows) + 1)
  OBVIOUS
<1>3. i \in 1..Len(rows) /\ rows[i] = name
  BY <1>1 DEF Resolves
<1>4. \A k \in 1..Len(rows) : longer[k] = rows[k]
  OBVIOUS
<1>5. ASSUME NEW k \in DOMAIN longer, longer[k] = name PROVE i <= k
  <2>1. CASE k \in 1..Len(rows)
    BY <2>1, <1>1, <1>4, <1>5 DEF Resolves
  <2>2. CASE k = Len(rows) + 1
    BY <2>2, <1>1, <1>3
  <2> QED
    BY <2>1, <2>2, <1>1, <1>2
<1> HIDE DEF longer
<1> QED
  BY <1>1, <1>2, <1>3, <1>4, <1>5 DEF Resolves, longer

\* A step keeps the ids of the requests: while one is about to insert the row of
\* its testrun it has the write lock, so no other commits a row.
LEMMA FindStep ==
  ASSUME TypeOK, FindInv, NEW u \in Uploads, Request(u)
  PROVE  FindInv'
<1> USE DEF TypeOK
<1>0. \A v \in Uploads : Testrun[Job[v]] \in Testruns
  OBVIOUS
<1>1. CASE Commit(u)
  <2>1. /\ pc[u] = "committing" /\ lock = u
        /\ pc' = [pc EXCEPT ![u] = "done"] /\ UNCHANGED <<tid, named>>
        /\ stored' = [stored EXCEPT ![u] = tid[u]]
        /\ testrun' = IF u \in named THEN Append(testrun, Testrun[Job[u]]) ELSE testrun
    BY <1>1 DEF Commit, End, Go, FindInv, Finds, locals
  <2>2. ASSUME NEW v \in Uploads, NEW i \in Nat \ {0},
               Resolves(testrun, Testrun[Job[v]], i)
        PROVE  Resolves(testrun, Testrun[Job[v]], i)'
    <3>1. CASE u \in named
      <4>1. Resolves(Append(testrun, Testrun[Job[u]]), Testrun[Job[v]], i)
        BY <1>0, <2>2, AppendResolves
      <4> QED
        BY <2>1, <3>1, <4>1 DEF Resolves
    <3>2. CASE u \notin named
      BY <2>1, <2>2, <3>2 DEF Resolves
    <3> QED
      BY <3>1, <3>2
  <2>3. Finds(u)'
    <3>1. tid[u] # 0 /\ Resolves(testrun, Testrun[Job[u]], tid[u])'
      <4>1. CASE u \in named
        BY <2>1, <4>1 DEF FindInv, Finds, Resolves
      <4>2. CASE u \notin named
        BY <2>1, <4>2 DEF FindInv, Finds, Resolves
      <4> QED
        BY <4>1, <4>2
    <3>2. stored'[u] = tid'[u] /\ tid'[u] = tid[u] /\ pc'[u] = "done"
      BY <2>1
    <3>3. Resolves(testrun, Testrun[Job[u]], stored[u])'
      BY <3>1, <3>2 DEF Resolves
    <3> QED
      BY <3>2, <3>3 DEF Finds
  <2>4. ASSUME NEW v \in Uploads \ {u} PROVE Finds(v)'
    <3>1. pc'[v] = pc[v] /\ stored'[v] = stored[v] /\ tid'[v] = tid[v]
      BY <2>1
    <3>2. Finds(v) /\ lock # v
      BY <2>1 DEF FindInv
    <3>3. stored[v] # 0 => Resolves(testrun, Testrun[Job[v]], stored[v])'
      BY <2>2, <3>1, <3>2 DEF Finds
    <3>4. pc[v] \in {"inserting", "committing"} =>
            v \notin named /\ tid[v] # 0 /\ Resolves(testrun, Testrun[Job[v]], tid[v])'
      BY <2>2, <3>1, <3>2 DEF Finds
    <3> QED
      BY <2>1, <3>1, <3>2, <3>3, <3>4 DEF Finds
  <2> QED
    BY <2>3, <2>4 DEF FindInv
<1>2. CASE ~Commit(u)
  <2>1. UNCHANGED <<testrun, stored>>
    <3> USE DEF tables
    <3>1. CASE Refuse(u) \/ Save(u) \/ SaveFails(u) \/ Crash(u)
      BY <3>1 DEF Refuse, Save, SaveFails, Crash
    <3>2. CASE Sum(u) \/ Compare(u) \/ DropCopy(u) \/ Rename(u) \/ Parse(u) \/ Discard(u)
      BY <3>2 DEF Sum, Compare, DropCopy, Rename, Parse, Discard
    <3>3. CASE FileFails(u) \/ Resolve(u) \/ Name(u) \/ Insert(u) \/ TableFails(u)
      BY <3>3 DEF FileFails, Resolve, Name, Insert, TableFails
    <3> QED
      BY <1>2, <3>1, <3>2, <3>3 DEF Request, Handler
  <2>2. ASSUME NEW v \in Uploads \ {u} PROVE Finds(v)'
    <3>1. lock = v => lock' = v
      BY RequestFrame
    <3>2. /\ pc'[v] = pc[v] /\ tid'[v] = tid[v] /\ stored'[v] = stored[v]
          /\ v \in named' <=> v \in named
      BY RequestFrame
    <3> QED
      BY <2>1, <3>1, <3>2 DEF FindInv, Finds, Resolves
  <2>3. Finds(u)'
    <3> USE DEF FindInv, Finds, Go
    <3>1. CASE pc'[u] \notin {"inserting", "committing"}
      BY <2>1, <3>1 DEF Resolves
    <3>2. CASE Resolve(u)
      <4>1. PICK i \in 0..Len(testrun) :
               /\ Resolves(testrun, Testrun[Job[u]], i)
               /\ tid' = [tid EXCEPT ![u] = i]
               /\ Go(u, "resolving", IF i = 0 THEN "naming" ELSE "inserting")
        BY <3>2 DEF Resolve
      <4>2. u \notin named' /\ tid'[u] = i /\ pc[u] = "resolving"
        BY <3>2, <4>1 DEF Resolve, Closing
      <4>3. CASE i = 0
        BY <2>1, <4>1, <4>2, <4>3 DEF Resolves
      <4>4. CASE i # 0
        <5>1. pc'[u] = "inserting" /\ Resolves(testrun, Testrun[Job[u]], tid[u])'
          BY <2>1, <4>1, <4>2, <4>4 DEF Resolves
        <5>2. stored'[u] # 0 => Resolves(testrun, Testrun[Job[u]], stored[u])'
          BY <2>1 DEF Resolves
        <5> QED
          BY <4>2, <4>4, <5>1, <5>2
      <4> QED
        BY <4>3, <4>4
    <3>3. CASE Name(u)
      <4>1. pc'[u] = "inserting" /\ u \in named' /\ lock' = u
        BY <3>3 DEF Name, Take
      <4>2. /\ tid'[u] # 0
            /\ Resolves(Append(testrun, Testrun[Job[u]]), Testrun[Job[u]], tid'[u])
        BY <3>3 DEF Name
      <4> QED
        BY <2>1, <4>1, <4>2 DEF Resolves
    <3>4. CASE Insert(u)
      <4>1. /\ pc[u] = "inserting" /\ pc'[u] = "committing" /\ lock' = u
            /\ UNCHANGED <<tid, named>>
        BY <3>4 DEF Insert, Take, locals
      <4> QED
        BY <2>1, <4>1 DEF Resolves
    <3>5. pc'[u] \notin {"inserting", "committing"} \/ Resolve(u) \/ Name(u) \/ Insert(u)
      <4>1. CASE Refuse(u) \/ Save(u) \/ SaveFails(u) \/ Crash(u)
        BY <4>1 DEF Refuse, Save, SaveFails, Crash, End
      <4>2. CASE Sum(u) \/ Compare(u) \/ DropCopy(u) \/ Rename(u) \/ Parse(u) \/ Discard(u)
        BY <4>2 DEF Sum, Compare, DropCopy, Rename, Parse, Discard, End
      <4>3. CASE FileFails(u) \/ TableFails(u)
        BY <4>3 DEF FileFails, TableFails, End
      <4> QED
        BY <1>2, <4>1, <4>2, <4>3 DEF Request, Handler
    <3> QED
      BY <3>1, <3>2, <3>3, <3>4, <3>5
  <2> QED
    BY <2>2, <2>3 DEF FindInv
<1> QED
  BY <1>1, <1>2

\* The ids of imports in progress and of committed ones are found again.
THEOREM FindInvariant == Spec => []FindInv
<1>1. Init => FindInv
  BY DEF Init, FindInv, Finds
<1>2. TypeOK /\ FindInv /\ [Next]_vars => FindInv'
  <2> SUFFICES ASSUME TypeOK, FindInv, [Next]_vars PROVE FindInv'
    OBVIOUS
  <2>1. CASE UNCHANGED vars
    BY <2>1 DEF vars, tables, locals, FindInv, Finds, Resolves
  <2>2. CASE OtherWriter
    BY <2>2 DEF OtherWriter, ElsewhereTakes, ElsewhereDrops, Take, Drop, tables, locals,
                FindInv, Finds, Resolves
  <2> QED
    BY <2>1, <2>2, FindStep DEF Next
<1> QED
  BY <1>1, <1>2, TypeCorrect, PTL DEF Spec

\* Whatever the races for the first report of a testrun, committed results are
\* under the id its queries resolve to.
THEOREM ImportsAreFindable == Spec => []ImportsFindable
<1>1. FindInv => ImportsFindable
  BY DEF FindInv, Finds, ImportsFindable
<1> QED
  BY <1>1, FindInvariant, PTL

----------------------------------------------------------------------------
\* What a step does to the folder: a temp file changes that is u's own or one its
\* letters may stand for, and only Rename and Discard touch kept files.
LEMMA FolderEffects ==
  ASSUME TypeOK, KeepInv, NEW u \in Uploads, Request(u)
  PROVE  /\ \A v \in Uploads \ {u} : Job[v] \in Distinct => tmp'[v] = tmp[v]
         /\ file' = file \/ Rename(u) \/ Discard(u)
<1> USE DEF TypeOK, folder
<1>1. \A w \in Draws(u) : w \in Uploads /\ (w # u => Job[w] \notin Distinct)
  BY DEF Draws, May, Distinct
<1>2. letters[u] \in Uploads /\ (letters[u] # u => Job[letters[u]] \notin Distinct)
  BY DEF KeepInv, KeepsOwn
<1>3. CASE Save(u) \/ SaveFails(u)
  BY <1>1, <1>3 DEF Save, SaveFails
<1>4. CASE DropCopy(u) \/ Rename(u)
  BY <1>2, <1>4 DEF DropCopy, Rename, DropTemp
<1>5. CASE Refuse(u) \/ Crash(u) \/ Sum(u) \/ Compare(u) \/ Parse(u) \/ Discard(u)
  BY <1>5 DEF Refuse, Crash, Sum, Compare, Parse, Discard
<1>6. CASE FileFails(u) \/ Resolve(u) \/ Name(u) \/ Insert(u) \/ Commit(u) \/ TableFails(u)
  BY <1>6 DEF FileFails, Resolve, Name, Insert, Commit, TableFails
<1> QED
  BY <1>3, <1>4, <1>5, <1>6 DEF Request, Handler

\* With letters of its own a request works on its own bytes: it renames its report
\* to the name of its report, and discards only what no one could import.
LEMMA KeepStep ==
  ASSUME TypeOK, FindInv, KeepInv, NEW u \in Uploads, Request(u)
  PROVE  KeepInv'
<1> USE DEF TypeOK
<1>1. CASE Job[u] \notin Distinct
  <2>1. \A j \in Distinct : file'[j] = file[j]
    <3>1. file' = file \/ \E bytes \in Bytes : Keep(u, bytes)
      BY FolderEffects DEF Rename, Discard, Temp, Bytes
    <3> QED
      BY <1>1, <3>1 DEF Keep, Distinct
  <2>2. Job[letters'[u]] = Job[u]
    <3>1. CASE Save(u)
      BY <3>1 DEF Save, Draws
    <3>2. CASE ~Save(u)
      <4>1. letters' = letters
        <5> USE DEF locals
        <5>1. CASE Refuse(u) \/ SaveFails(u) \/ Crash(u) \/ Sum(u) \/ Compare(u) \/ DropCopy(u)
          BY <5>1 DEF Refuse, SaveFails, Crash, Sum, Compare, DropCopy
        <5>2. CASE Rename(u) \/ Parse(u) \/ Discard(u) \/ FileFails(u) \/ Resolve(u)
          BY <5>2 DEF Rename, Parse, Discard, FileFails, Resolve
        <5>3. CASE Name(u) \/ Insert(u) \/ Commit(u) \/ TableFails(u)
          BY <5>3 DEF Name, Insert, Commit, TableFails
        <5> QED
          BY <3>2, <5>1, <5>2, <5>3 DEF Request, Handler
      <4> QED
        BY <4>1 DEF KeepInv
    <3> QED
      BY <3>1, <3>2
  <2>3. ASSUME NEW v \in Uploads, Job[v] \in Distinct PROVE KeepsOwn(v)'
    <3>1. v \in Uploads \ {u} /\ KeepsOwn(v)
      BY <1>1, <2>3 DEF KeepInv
    <3>2. file'[Job[v]] = file[Job[v]] /\ tmp'[v] = tmp[v]
      BY <2>1, <2>3, <3>1, FolderEffects
    <3> QED
      BY <3>1, <3>2, RequestFrame DEF KeepsOwn, InPlace
  <2>4. ASSUME NEW v \in Uploads PROVE Job[letters'[v]] = Job[v]
    <3>1. CASE v = u
      BY <2>2, <3>1
    <3>2. CASE v # u
      <4>1. letters'[v] = letters[v]
        BY <3>2, RequestFrame
      <4> QED
        BY <4>1 DEF KeepInv
    <3> QED
      BY <3>1, <3>2
  <2> QED
    BY <2>1, <2>3, <2>4 DEF KeepInv, Distinct
<1>2. CASE Job[u] \in Distinct
  <2>1. KeepsOwn(u) /\ letters[u] = u
    BY <1>2 DEF KeepInv, KeepsOwn
  <2>2. Rename(u) => file' = [file EXCEPT ![Job[u]][Body[u]] = Body[u]]
    BY <2>1 DEF Rename, Go, Keep, Temp, KeepsOwn, Writing, Summed
  <2>3. Discard(u) => /\ file' = [file EXCEPT ![Job[u]][Body[u]] = None]
                      /\ Body[u] \notin Valid
    BY <2>1 DEF Discard, End, Go, Keep, KeepsOwn, Summed
  <2>4. \A j \in Jobs, r \in Reports :
           \/ file'[j][r] = file[j][r]
           \/ /\ j = Job[u] /\ r = Body[u]
              /\ file'[j][r] \in {None, r}
              /\ r \in Valid => file'[j][r] = r
    <3>0. Job[u] \in Jobs /\ Body[u] \in Reports
      OBVIOUS
    <3>1. CASE Rename(u)
      BY <2>2, <3>0, <3>1
    <3>2. CASE Discard(u)
      BY <2>3, <3>0, <3>2
    <3> QED
      BY <3>1, <3>2, FolderEffects
  <2>5. \A v \in Uploads : InPlace(v) => InPlace(v)'
    BY <2>4 DEF InPlace
  <2>6. KeepsOwn(u)'
    <3> USE DEF KeepsOwn, Writing, Summed, Importing, Go, End, folder, tables, locals
    <3>1. CASE Refuse(u) \/ SaveFails(u) \/ Crash(u)
      BY <2>1, <2>5, <3>1 DEF Refuse, SaveFails, Crash, InFlight
    <3>2. CASE Save(u)
      <4>1. letters'[u] = u /\ tmp'[u] = Body[u]
        BY <1>2, <3>2 DEF Save, Draws, May, Distinct
      <4> QED
        BY <2>1, <2>5, <3>2, <4>1 DEF Save
    <3>3. CASE Sum(u)
      BY <2>1, <2>5, <3>3 DEF Sum, Temp
    <3>4. CASE Compare(u)
      BY <2>1, <2>5, <3>4 DEF Compare
    <3>5. CASE DropCopy(u)
      BY <2>1, <2>5, <3>5 DEF DropCopy
    <3>6. CASE Rename(u)
      <4>1. file'[Job[u]][Body[u]] = Body[u]
        BY <2>2, <3>6
      <4>2. Body[u] \in Valid => InPlace(u)'
        BY <4>1 DEF InPlace
      <4> QED
        BY <2>1, <2>5, <3>6, <4>2 DEF Rename
    <3>7. CASE Parse(u)
      <4>1. Kept(u) = Body[u]
        BY <1>2, <2>1, <3>7 DEF Parse, Kept, KeepInv
      <4>2. InPlace(u) <=> Body[u] \in Valid
        BY <2>1, <3>7, <4>1 DEF Parse, Kept, InPlace
      <4> QED
        BY <2>1, <2>5, <3>7, <4>1, <4>2 DEF Parse
    <3>8. CASE Discard(u)
      BY <2>1, <2>5, <3>8 DEF Discard
    <3>9. CASE FileFails(u) \/ TableFails(u)
      <4>1. /\ UNCHANGED <<folder, tables, locals>> /\ End(u, pc[u], "error")
            /\ pc[u] \in Writing \cup Summed \cup Importing
        BY <3>9 DEF FileFails, TableFails
      <4> QED
        BY <2>1, <2>5, <4>1
    <3>10. CASE Resolve(u)
      <4>1. /\ pc[u] = "resolving" /\ pc'[u] \in {"naming", "inserting"}
            /\ UNCHANGED <<folder, tables, letters, sum, read, reply>>
        BY <3>10 DEF Resolve
      <4> QED
        BY <2>1, <2>5, <4>1
    <3>11. CASE Name(u)
      BY <2>1, <2>5, <3>11 DEF Name
    <3>12. CASE Insert(u)
      BY <2>1, <2>5, <3>12 DEF Insert
    <3>13. CASE Commit(u)
      <4>1. stored'[u] # 0
        BY <3>13 DEF Commit, FindInv, Finds
      <4> QED
        BY <2>1, <2>5, <3>13, <4>1 DEF Commit
    <3> QED
      BY <3>1, <3>2, <3>3, <3>4, <3>5, <3>6, <3>7, <3>8, <3>9, <3>10, <3>11, <3>12, <3>13
         DEF Request, Handler
  <2>7. ASSUME NEW v \in Uploads \ {u}, Job[v] \in Distinct PROVE KeepsOwn(v)'
    <3>1. KeepsOwn(v)
      BY <2>7 DEF KeepInv
    <3>2. tmp'[v] = tmp[v]
      BY <2>7, FolderEffects
    <3> QED
      BY <2>5, <3>1, <3>2, RequestFrame DEF KeepsOwn
  <2>8. ASSUME NEW v \in Uploads PROVE Job[letters'[v]] = Job[v]
    <3>1. CASE v = u
      BY <2>6, <3>1 DEF KeepsOwn
    <3>2. CASE v # u
      <4>1. letters'[v] = letters[v]
        BY <3>2, RequestFrame
      <4> QED
        BY <4>1 DEF KeepInv
    <3> QED
      BY <3>1, <3>2
  <2>9. \A j \in Distinct, r \in Reports : file'[j][r] \in {None, r}
    BY <2>4 DEF KeepInv, Distinct
  <2> QED
    BY <2>6, <2>7, <2>8, <2>9 DEF KeepInv, Distinct
<1> QED
  BY <1>1, <1>2

\* Requests that draw letters of their own work on their own bytes.
THEOREM KeepInvariant == Spec => []KeepInv
<1>1. Init => KeepInv
  BY DEF Init, KeepInv, KeepsOwn, Distinct, Writing, Summed, Importing
<1>2. TypeOK /\ FindInv /\ KeepInv /\ [Next]_vars => KeepInv'
  <2> SUFFICES ASSUME TypeOK, FindInv, KeepInv, [Next]_vars PROVE KeepInv'
    OBVIOUS
  <2>1. CASE UNCHANGED vars \/ OtherWriter
    BY <2>1 DEF vars, OtherWriter, folder, tables, locals, KeepInv, KeepsOwn, InPlace, Distinct
  <2> QED
    BY <2>1, KeepStep DEF Next
<1> QED
  BY <1>1, <1>2, TypeCorrect, FindInvariant, PTL DEF Spec

\* What is imported keeps its file, whatever else is sent, as long as no two
\* requests of the job draw the same letters.
THEOREM ReportsAreKept == Spec => []ImportedReportKept
<1>1. KeepInv => ImportedReportKept
  BY DEF KeepInv, KeepsOwn, InPlace, ImportedReportKept
<1> QED
  BY <1>1, KeepInvariant, PTL

\* And a request that is answered 200 has imported the report it was sent.
THEOREM AcceptedAreImported == Spec => []AcceptedIsImported
<1>1. KeepInv => AcceptedIsImported
  BY DEF KeepInv, KeepsOwn, AcceptedIsImported
<1> QED
  BY <1>1, KeepInvariant, PTL

----------------------------------------------------------------------------
\* How far a step takes its own request.
LEMMA OwnProgress ==
  ASSUME TypeOK, KeepInv, NEW u \in Uploads, Request(u)
  PROVE  /\ InFlight(u)' /\ ~InFlight(u) => Save(u)
         /\ stored'[u] # stored[u] => Commit(u)
         /\ pc'[u] = "renaming" => Compare(u) /\ Kept(u) = None
         /\ pc'[u] = "parsing" => pc[u] = "renaming"
         /\ pc'[u] \in Importing => pc[u] \in Importing \cup {"parsing"}
<1> USE DEF TypeOK, InFlight, Importing, Go, End, folder, tables, locals
<1>1. CASE Refuse(u) \/ Crash(u)
  BY <1>1 DEF Refuse, Crash
<1>2. CASE Save(u) \/ SaveFails(u)
  BY <1>2 DEF Save, SaveFails
<1>3. CASE Sum(u) \/ Compare(u)
  BY <1>3 DEF Sum, Compare
<1>4. CASE DropCopy(u) \/ Rename(u)
  BY <1>4 DEF DropCopy, Rename
<1>5. CASE Parse(u) \/ Discard(u)
  BY <1>5 DEF Parse, Discard
<1>6. CASE FileFails(u) \/ TableFails(u)
  BY <1>6 DEF FileFails, TableFails
<1>7. CASE Resolve(u)
  BY <1>7 DEF Resolve
<1>8. CASE Name(u)
  BY <1>8 DEF Name
<1>9. CASE Insert(u) \/ Commit(u)
  BY <1>9 DEF Insert, Commit
<1> QED
  BY <1>1, <1>2, <1>3, <1>4, <1>5, <1>6, <1>7, <1>8, <1>9 DEF Request, Handler

\* A step keeps requests for a report apart: one that compares while another has
\* imported the report finds its file, and is a duplicate.
LEMMA OnceStep ==
  ASSUME TypeOK, KeepInv, OnceInv, NEW x \in Uploads, Request(x)
  PROVE  OnceInv'
<1> SUFFICES ASSUME NEW u \in Uploads, NEW w \in Uploads, u # w,
                    Job[u] = Job[w], Body[u] = Body[w], Job[u] \in Orderly
             PROVE  Apart(u, w)'
  BY DEF OnceInv, Apart, Orderly, Distinct
<1>1. Apart(u, w) /\ Apart(w, u)
  BY DEF OnceInv, Apart
<1>2. ~InFlight(u)' \/ ~InFlight(w)'
  <2>1. \A v \in {u, w} : v = x /\ InFlight(v)' /\ ~InFlight(v) =>
           ~InFlight(u) /\ ~InFlight(w)
    BY OwnProgress DEF Save, Alone, May, Orderly
  <2>2. \A v \in {u, w} : v # x => InFlight(v)' = InFlight(v)
    BY RequestFrame DEF InFlight
  <2>3. ~InFlight(u) \/ ~InFlight(w)
    BY <1>1 DEF Apart
  <2> QED
    BY <2>1, <2>2, <2>3
<1>3. ASSUME stored'[w] # 0
      PROVE  stored'[u] = 0 /\ pc'[u] \notin Importing \cup {"renaming", "parsing"}
  <2>1. CASE x = w
    <3>1. stored'[u] = stored[u] /\ pc'[u] = pc[u]
      BY <2>1, RequestFrame
    <3>2. CASE stored[w] # 0
      BY <1>1, <3>1, <3>2 DEF Apart
    <3>3. CASE stored[w] = 0
      <4>1. pc[w] = "committing"
        BY <1>3, <2>1, <3>3, OwnProgress DEF Commit, End, Go
      <4>2. ~InFlight(u) /\ stored[u] = 0
        BY <1>1, <4>1 DEF Apart, InFlight, Importing
      <4> QED
        BY <3>1, <4>2 DEF InFlight, Importing
    <3> QED
      BY <3>2, <3>3
  <2>2. CASE x # w
    <3>1. stored[w] # 0
      BY <1>3, <2>2, RequestFrame
    <3>2. stored[u] = 0 /\ pc[u] \notin Importing \cup {"renaming", "parsing"}
      BY <1>1, <3>1 DEF Apart
    <3>3. CASE x # u
      BY <3>2, <3>3, RequestFrame
    <3>4. CASE x = u
      <4>1. stored'[u] = 0
        BY <3>2, <3>4, OwnProgress DEF Commit, End, Go, Importing
      <4>2. pc'[u] # "renaming"
        <5>1. file[Job[w]][Body[w]] = Body[w]
          BY <3>1 DEF KeepInv, KeepsOwn, InPlace, Orderly
        <5>2. Compare(u) => sum[u] = Body[u]
          BY DEF Compare, Go, KeepInv, KeepsOwn, Summed, Orderly
        <5>3. Compare(u) => Kept(u) # None
          BY <5>1, <5>2 DEF Kept, TypeOK
        <5> QED
          BY <3>4, <5>3, OwnProgress
      <4>3. pc'[u] \notin Importing \cup {"parsing"}
        BY <3>2, <3>4, OwnProgress
      <4> QED
        BY <4>1, <4>2, <4>3
    <3> QED
      BY <3>3, <3>4
  <2> QED
    BY <2>1, <2>2
<1> QED
  BY <1>2, <1>3 DEF Apart

LEMMA OnceInvariant == Spec => []OnceInv
<1>1. Init => OnceInv
  BY DEF Init, OnceInv, Apart, InFlight, Importing
<1>2. TypeOK /\ KeepInv /\ OnceInv /\ [Next]_vars => OnceInv'
  <2> SUFFICES ASSUME TypeOK, KeepInv, OnceInv, [Next]_vars PROVE OnceInv'
    OBVIOUS
  <2>1. CASE UNCHANGED vars \/ OtherWriter
    BY <2>1 DEF vars, OtherWriter, folder, tables, locals, OnceInv, Apart, InFlight,
                Importing, Orderly, Distinct
  <2> QED
    BY <2>1, OnceStep DEF Next
<1> QED
  BY <1>1, <1>2, TypeCorrect, KeepInvariant, PTL DEF Spec

\* A report of a job is imported at most once, through crashes, a failing disk and
\* a failing database, as long as it is not sent twice at the same time.
THEOREM ImportsOnce == Spec => []ImportedOnce
<1>1. OnceInv => ImportedOnce
  BY DEF OnceInv, Apart, ImportedOnce
<1> QED
  BY <1>1, OnceInvariant, PTL

----------------------------------------------------------------------------
\* A step takes its own request to save_testrun only with a readable report, and to
\* the end with its commit.
LEMMA ReadStep ==
  ASSUME TypeOK, ReadInv, NEW u \in Uploads, Request(u)
  PROVE  ReadInv'
<1> USE DEF TypeOK, Importing, Go, End, InFlight, folder, tables, locals
<1>1. ReadsValid(u)
  BY DEF ReadInv
<1>2. ReadsValid(u)'
  <2> USE DEF ReadsValid
  <2>1. CASE Refuse(u) \/ SaveFails(u) \/ Crash(u)
    BY <1>1, <2>1 DEF Refuse, SaveFails, Crash
  <2>2. CASE Save(u) \/ Sum(u) \/ Compare(u)
    BY <1>1, <2>2 DEF Save, Sum, Compare
  <2>3. CASE DropCopy(u) \/ Rename(u) \/ Discard(u)
    BY <1>1, <2>3 DEF DropCopy, Rename, Discard
  <2>4. CASE Parse(u)
    BY <1>1, <2>4 DEF Parse
  <2>5. CASE FileFails(u) \/ TableFails(u)
    <3>1. /\ UNCHANGED <<tables, locals>> /\ End(u, pc[u], "error")
          /\ pc[u] \notin {"done", "dead"}
      BY <2>5 DEF FileFails, TableFails
    <3> QED
      BY <1>1, <3>1
  <2>6. CASE Resolve(u)
    <3>1. /\ pc[u] = "resolving" /\ pc'[u] \in {"naming", "inserting"}
          /\ UNCHANGED <<stored, read>>
      BY <2>6 DEF Resolve
    <3> QED
      BY <1>1, <3>1
  <2>7. CASE Name(u) \/ Insert(u)
    BY <1>1, <2>7 DEF Name, Insert
  <2>8. CASE Commit(u)
    BY <1>1, <2>8 DEF Commit
  <2> QED
    BY <2>1, <2>2, <2>3, <2>4, <2>5, <2>6, <2>7, <2>8 DEF Request, Handler
<1>3. ASSUME NEW v \in Uploads \ {u} PROVE ReadsValid(v)'
  <2>1. ReadsValid(v)
    BY DEF ReadInv
  <2> QED
    BY <2>1, RequestFrame DEF ReadsValid
<1> QED
  BY <1>2, <1>3 DEF ReadInv

\* What is imported has been read, by requests that share letters too.
THEOREM ReadInvariant == Spec => []ReadInv
<1>1. Init => ReadInv
  BY DEF Init, ReadInv, ReadsValid, Importing
<1>2. TypeOK /\ ReadInv /\ [Next]_vars => ReadInv'
  <2> SUFFICES ASSUME TypeOK, ReadInv, [Next]_vars PROVE ReadInv'
    OBVIOUS
  <2>1. CASE UNCHANGED vars \/ OtherWriter
    BY <2>1 DEF vars, OtherWriter, tables, locals, ReadInv, ReadsValid
  <2> QED
    BY <2>1, ReadStep DEF Next
<1> QED
  BY <1>1, <1>2, TypeCorrect, PTL DEF Spec
----------------------------------------------------------------------------
(* Imports implement the store of reports *)

\* Where letters are not shared, a kept file only changes by the rename or the discard
\* of a request that sends this very report.
LEMMA KeptChanges ==
  ASSUME TypeOK, KeepInv, NEW x \in Uploads, Request(x),
         NEW j \in Distinct, NEW r \in Reports
  PROVE  \/ file'[j][r] = file[j][r]
         \/ /\ Job[x] = j /\ Body[x] = r
            /\ \/ Rename(x) /\ file'[j][r] = r
               \/ Discard(x) /\ file'[j][r] = None
<1> USE DEF TypeOK
<1>0. j \in Jobs
  BY DEF Distinct
<1>1. CASE Job[x] # j
  <2>1. Rename(x) => file'[j] = file[j]
    BY <1>0, <1>1 DEF Rename, Keep
  <2>2. Discard(x) => file'[j] = file[j]
    BY <1>0, <1>1 DEF Discard, Keep
  <2> QED
    BY <2>1, <2>2, FolderEffects
<1>2. CASE Job[x] = j
  <2>1. KeepsOwn(x)
    BY <1>2 DEF KeepInv
  <2>2. ASSUME Rename(x)
        PROVE  file' = [file EXCEPT ![j][Body[x]] = Body[x]]
    BY <1>2, <2>1, <2>2 DEF Rename, Go, Keep, Temp, KeepsOwn, Writing, Summed
  <2>3. ASSUME Discard(x)
        PROVE  file' = [file EXCEPT ![j][Body[x]] = None]
    BY <1>2, <2>1, <2>3 DEF Discard, End, Go, Keep, KeepsOwn, Summed
  <2> QED
    BY <1>0, <1>2, <2>2, <2>3, FolderEffects
<1> QED
  BY <1>1, <1>2

\* What a request does to its own answer: it is told one thing, at the step that ends
\* its request.
LEMMA OwnAnswer ==
  ASSUME TypeOK, FoundInv, NEW u \in Uploads, Request(u)
  PROVE  /\ reply[u] = "none"
         /\ \/ /\ reply' = reply
               /\ ~Commit(u) /\ ~DropCopy(u) /\ ~Discard(u)
            \/ /\ pc'[u] = "done"
               /\ \/ Commit(u) /\ reply' = [reply EXCEPT ![u] = "ok"]
                  \/ DropCopy(u) /\ reply' = [reply EXCEPT ![u] = "duplicate"]
                  \/ Discard(u) /\ reply' = [reply EXCEPT ![u] = "unreadable"]
                  \/ /\ \E what \in {"refused", "error"} : reply' = [reply EXCEPT ![u] = what]
                     /\ ~Commit(u) /\ ~DropCopy(u) /\ ~Discard(u) /\ ~Rename(u)
<1> USE DEF TypeOK, FoundInv, ActsOnFound, Go, End, InFlight
<1>1. CASE Refuse(u) \/ SaveFails(u)
  BY <1>1 DEF Refuse, SaveFails, Commit, DropCopy, Discard, Rename
<1>2. CASE Save(u) \/ Crash(u)
  BY <1>2 DEF Save, Crash, Commit, DropCopy, Discard
<1>3. CASE Sum(u) \/ Compare(u)
  BY <1>3 DEF Sum, Compare, Commit, DropCopy, Discard
<1>4. CASE DropCopy(u) \/ Discard(u)
  BY <1>4 DEF DropCopy, Discard
<1>5. CASE Rename(u) \/ Parse(u)
  BY <1>5 DEF Rename, Parse, Commit, DropCopy, Discard
<1>6. CASE FileFails(u) \/ TableFails(u)
  <2>1. End(u, pc[u], "error") /\ pc[u] \notin {"done", "dead"}
    BY <1>6 DEF FileFails, TableFails
  <2>2. reply'[u] = "error"
    BY <2>1
  <2> QED
    BY <2>1, <2>2 DEF Commit, DropCopy, Discard, Rename
<1>7. CASE Resolve(u)
  <2>1. pc[u] = "resolving" /\ pc'[u] \in {"naming", "inserting"} /\ reply' = reply
    BY <1>7 DEF Resolve
  <2> QED
    BY <2>1 DEF Commit, DropCopy, Discard
<1>8. CASE Name(u) \/ Insert(u)
  BY <1>8 DEF Name, Insert, Commit, DropCopy, Discard
<1>9. CASE Commit(u)
  BY <1>9 DEF Commit
<1> QED
  BY <1>1, <1>2, <1>3, <1>4, <1>5, <1>6, <1>7, <1>8, <1>9 DEF Request, Handler

\* And to the steps at which it acts on what it found.
LEMMA OwnFinding ==
  ASSUME TypeOK, KeepInv, NEW u \in Uploads, Request(u), Job[u] \in Orderly
  PROVE  /\ pc'[u] = "renaming" => file'[Job[u]][Body[u]] = None
         /\ pc'[u] \in {"dropping", "parsing", "discarding"} => file'[Job[u]][Body[u]] # None
<1> USE DEF TypeOK, Go, End, folder
<1>0. KeepsOwn(u) /\ Job[u] \in Distinct
  BY DEF KeepInv, Orderly
<1>1. CASE Compare(u)
  <2>1. sum[u] = Body[u]
    BY <1>0, <1>1 DEF Compare, KeepsOwn, Summed
  <2> QED
    BY <1>1, <2>1 DEF Compare, Kept
<1>2. CASE Rename(u)
  <2>1. file'[Job[u]][Body[u]] = Body[u]
    BY <1>0, <1>2 DEF Rename, Keep, Temp, KeepsOwn, Writing, Summed
  <2> QED
    BY <1>2, <2>1 DEF Rename
<1>3. CASE Parse(u)
  <2>1. sum[u] = Body[u]
    BY <1>0, <1>3 DEF Parse, KeepsOwn, Summed
  <2> QED
    BY <1>3, <2>1 DEF Parse, Kept
<1>4. CASE ~Compare(u) /\ ~Rename(u) /\ ~Parse(u)
  <2>1. CASE Refuse(u) \/ SaveFails(u) \/ Save(u) \/ Crash(u)
    BY <2>1 DEF Refuse, SaveFails, Save, Crash
  <2>2. CASE Sum(u) \/ DropCopy(u) \/ Discard(u)
    BY <2>2 DEF Sum, DropCopy, Discard
  <2>3. CASE FileFails(u) \/ TableFails(u)
    BY <2>3 DEF FileFails, TableFails
  <2>4. CASE Resolve(u)
    BY <2>4 DEF Resolve
  <2>5. CASE Name(u) \/ Insert(u) \/ Commit(u)
    BY <2>5 DEF Name, Insert, Commit
  <2> QED
    BY <1>4, <2>1, <2>2, <2>3, <2>4, <2>5 DEF Request, Handler
<1> QED
  BY <1>1, <1>2, <1>3, <1>4

\* Nobody else touches the place of a report while a request for it goes on.
LEMMA FoundStep ==
  ASSUME TypeOK, KeepInv, OnceInv, FoundInv, NEW x \in Uploads, Request(x)
  PROVE  FoundInv'
<1>1. ASSUME NEW u \in Uploads \ {x} PROVE ActsOnFound(u)'
  <2>1. ActsOnFound(u) /\ pc'[u] = pc[u] /\ reply'[u] = reply[u]
    BY RequestFrame DEF FoundInv
  <2>2. ASSUME Job[u] \in Orderly, InFlight(u)
        PROVE  file'[Job[u]][Body[u]] = file[Job[u]][Body[u]]
    <3>1. (Rename(x) \/ Discard(x)) => InFlight(x)
      BY DEF Rename, Discard, Go, End, InFlight
    <3>2. InFlight(x) => Job[x] # Job[u] \/ Body[x] # Body[u]
      BY <2>2 DEF OnceInv, Apart
    <3>3. Job[u] \in Distinct /\ Body[u] \in Reports
      BY <2>2 DEF Orderly
    <3> QED
      BY <3>1, <3>2, <3>3, KeptChanges
  <2> QED
    BY <2>1, <2>2 DEF ActsOnFound, InFlight, Orderly, Distinct
<1>2. ActsOnFound(x)'
  <2>1. reply'[x] # "none" => pc'[x] = "done"
    BY OwnAnswer DEF TypeOK
  <2> QED
    BY <2>1, OwnFinding DEF ActsOnFound, Orderly, Distinct
<1> QED
  BY <1>1, <1>2 DEF FoundInv

LEMMA FoundInvariant == Spec => []FoundInv
<1>1. Init => FoundInv
  BY DEF Init, FoundInv, ActsOnFound
<1>2. TypeOK /\ KeepInv /\ OnceInv /\ FoundInv /\ [Next]_vars => FoundInv'
  <2> SUFFICES ASSUME TypeOK, KeepInv, OnceInv, FoundInv, [Next]_vars PROVE FoundInv'
    OBVIOUS
  <2>1. CASE UNCHANGED vars \/ OtherWriter
    BY <2>1 DEF vars, OtherWriter, folder, FoundInv, ActsOnFound, Orderly, Distinct
  <2> QED
    BY <2>1, FoundStep DEF Next
<1> QED
  BY <1>1, <1>2, TypeCorrect, KeepInvariant, OnceInvariant, PTL DEF Spec

\* A report has been imported only where it is kept, and then it could be read.
LEMMA ImportedIsKept ==
  ASSUME KeepInv, NEW j \in Orderly, NEW r \in Reports, Place(j, r) = "imported"
  PROVE  file[j][r] = r /\ r \in Valid
BY DEF Place, KeepInv, KeepsOwn, InPlace, Orderly
\* Places are the same before and after a step that neither commits nor moves a kept file.
LEMMA PlaceFrame ==
  ASSUME TypeOK, NEW j \in Jobs, NEW r \in Reports,
         \A u \in Uploads : Job[u] = j /\ Body[u] = r => (stored'[u] # 0 <=> stored[u] # 0),
         file'[j][r] = file[j][r]
  PROVE  Place(j, r)' = Place(j, r)
<1>1. (\E u \in Uploads : Job[u] = j /\ Body[u] = r /\ stored[u] # 0)' <=>
      \E u \in Uploads : Job[u] = j /\ Body[u] = r /\ stored[u] # 0
  OBVIOUS
<1> QED
  BY <1>1 DEF Place

\* Only one commit changes which reports are imported.
LEMMA StoredChanges ==
  ASSUME TypeOK, KeepInv, NEW x \in Uploads, Request(x)
  PROVE  \A u \in Uploads : stored'[u] # stored[u] => u = x /\ Commit(x)
<1>1. stored'[x] # stored[x] => Commit(x)
  BY OwnProgress
<1> QED
  BY <1>1, RequestFrame

\* For jobs whose requests draw letters of their own and do not send a report twice at
\* once, every interleaving of imports, with crashes and failures at every step, is a
\* behaviour of the store: rename, commit and discard are its steps, the answers that
\* move nothing too, and all the rest is invisible.
THEOREM ImportsImplementStore == Spec => ImplementsReportStore
<1>1. Init => Store!Init
  BY DEF Init, Store!Init, Place, OrderlyUploads, Orderly, Distinct
<1>2. /\ TypeOK /\ FindInv /\ KeepInv /\ OnceInv /\ ReadInv /\ FoundInv /\ KeepInv'
      /\ [Next]_vars
      => [Store!Next]_(Store!vars)
  <2> SUFFICES ASSUME TypeOK, FindInv, KeepInv, OnceInv, ReadInv, FoundInv, KeepInv', [Next]_vars
               PROVE  [Store!Next]_(Store!vars)
    OBVIOUS
  <2>0. /\ Orderly \subseteq Jobs /\ Orderly \subseteq Distinct
        /\ Orderly' = Orderly /\ OrderlyUploads' = OrderlyUploads
    BY DEF Orderly, Distinct, OrderlyUploads
  <2> DEFINE Same(j, r) == Place(j, r)' = Place(j, r)
  <2>1. ASSUME \A j \in Orderly, r \in Reports : Same(j, r),
               \A u \in OrderlyUploads : reply'[u] = reply[u]
        PROVE  UNCHANGED Store!vars
    BY <2>0, <2>1 DEF Store!vars
  <2>2. CASE UNCHANGED vars \/ OtherWriter
    <3>1. UNCHANGED <<file, stored, reply>>
      BY <2>2 DEF vars, OtherWriter, folder, tables
    <3>2. \A j \in Orderly, r \in Reports : Same(j, r)
      BY <2>0, <3>1, PlaceFrame
    <3> QED
      BY <2>1, <3>1, <3>2
  <2>3. ASSUME NEW x \in Uploads, Request(x), Job[x] \notin Orderly
        PROVE  UNCHANGED Store!vars
    <3>1. \A u \in OrderlyUploads : u \in Uploads \ {x}
      BY <2>3 DEF OrderlyUploads
    <3>2. ASSUME NEW j \in Orderly, NEW r \in Reports PROVE Same(j, r)
      <4>1. file'[j][r] = file[j][r]
        BY <2>0, <2>3, KeptChanges
      <4>2. \A u \in Uploads : Job[u] = j => stored'[u] = stored[u]
        BY <2>3, RequestFrame
      <4> QED
        BY <2>0, <4>1, <4>2, PlaceFrame
    <3>3. \A u \in OrderlyUploads : reply'[u] = reply[u]
      BY <2>3, <3>1, RequestFrame
    <3> QED
      BY <2>1, <3>2, <3>3
  <2>4. ASSUME NEW x \in Uploads, Request(x), Job[x] \in Orderly
        PROVE  [Store!Next]_(Store!vars)
    <3> DEFINE J == Job[x]
               R == Body[x]
               Others == \A j \in Orderly, r \in Reports : j # J \/ r # R => Same(j, r)
               Turns(to) == Others /\ Place(J, R)' = to
               Told(what) == \A u \in OrderlyUploads :
                                reply'[u] = IF u = x THEN what ELSE reply[u]
    <3>0. /\ J \in Orderly /\ J \in Distinct /\ J \in Jobs /\ R \in Reports
          /\ x \in OrderlyUploads
          /\ KeepsOwn(x) /\ ActsOnFound(x) /\ reply[x] = "none"
      BY <2>0, <2>4, OwnAnswer DEF OrderlyUploads, KeepInv, FoundInv
    <3>1. Others
      <4> SUFFICES ASSUME NEW j \in Orderly, NEW r \in Reports, j # J \/ r # R
                   PROVE  Same(j, r)
        OBVIOUS
      <4>1. file'[j][r] = file[j][r]
        BY <2>0, <2>4, KeptChanges
      <4>2. \A u \in Uploads : Job[u] = j /\ Body[u] = r => stored'[u] = stored[u]
        BY <2>4, RequestFrame
      <4> QED
        BY <2>0, <4>1, <4>2, PlaceFrame
    <3>2. ASSUME file'[J][R] = file[J][R], ~Commit(x) PROVE Same(J, R)
      <4>1. \A u \in Uploads : stored'[u] = stored[u]
        BY <2>4, <3>2, StoredChanges
      <4> QED
        BY <3>0, <3>2, <4>1, PlaceFrame
    <3>3. ASSUME NEW from, NEW to, Place(J, R) = from, Turns(to) PROVE Store!Becomes(x, from, to)
      BY <2>0, <3>0, <3>3 DEF Store!Becomes, Store!Place
    <3>4. ASSUME Same(J, R)
          PROVE  UNCHANGED [j \in Orderly |-> [r \in Reports |-> Place(j, r)]]
      BY <2>0, <3>0, <3>1, <3>4
    <3>5. ASSUME NEW what, reply' = [reply EXCEPT ![x] = what] PROVE Store!Tell(x, what)
      BY <2>0, <3>0, <3>5 DEF Store!Tell, OrderlyUploads, TypeOK
    <3>6. ASSUME reply' = reply PROVE UNCHANGED [u \in OrderlyUploads |-> reply[u]]
      BY <2>0, <3>6
    <3>7. CASE Rename(x)
      <4>1. file[J][R] = None /\ file'[J][R] # None
        <5>1. file'[J][R] = R
          BY <3>0, <3>7 DEF Rename, Go, Keep, Temp, KeepsOwn, Writing, Summed, TypeOK
        <5> QED
          BY <3>0, <3>7, <5>1 DEF Rename, Go, ActsOnFound
      <4>2. Place(J, R) = "free"
        BY <3>0, <4>1, ImportedIsKept DEF Place
      <4>3. ~Commit(x) /\ reply' = reply
        BY <3>7 DEF Rename, Commit, End, Go
      <4>4. Place(J, R)' = "claimed"
        <5>1. \A u \in Uploads : stored'[u] = stored[u]
          BY <2>4, <4>3, StoredChanges
        <5> QED
          BY <4>1, <4>2, <5>1 DEF Place
      <4>5. Store!Claim(x)
        BY <3>0, <3>1, <3>3, <3>6, <4>2, <4>3, <4>4 DEF Store!Claim
      <4> QED
        BY <3>0, <4>5 DEF Store!Next
    <3>8. CASE Commit(x)
      <4>1. pc[x] = "committing" /\ reply' = [reply EXCEPT ![x] = "ok"]
        BY <3>8 DEF Commit, End, Go
      <4>2. file[J][R] = R /\ R \in Valid
        BY <3>0, <4>1 DEF KeepsOwn, InPlace, Importing
      <4>3. Place(J, R) = "claimed"
        <5>1. \A u \in Uploads : Job[u] = J /\ Body[u] = R => stored[u] = 0
          BY <3>0, <4>1 DEF ReadInv, ReadsValid, OnceInv, Apart, Importing
        <5> QED
          BY <3>0, <4>2, <5>1 DEF Place
      <4>4. Place(J, R)' = "imported"
        <5>1. stored'[x] # 0
          BY <3>8, <4>1 DEF Commit, FindInv, Finds, TypeOK
        <5> QED
          BY <5>1 DEF Place
      <4>5. Store!Import(x)
        BY <3>1, <3>3, <3>5, <4>1, <4>2, <4>3, <4>4 DEF Store!Import
      <4> QED
        BY <3>0, <4>5 DEF Store!Next
    <3>9. CASE Discard(x)
      <4>1. pc[x] = "discarding" /\ ~Commit(x) /\ reply' = [reply EXCEPT ![x] = "unreadable"]
        BY <3>9 DEF Discard, Commit, End, Go
      <4>2. R \notin Valid /\ file[J][R] # None
        BY <3>0, <4>1 DEF KeepsOwn, ActsOnFound
      <4>3. Place(J, R) = "claimed"
        BY <3>0, <4>2, ImportedIsKept DEF Place
      <4>4. Place(J, R)' = "free"
        <5>1. \A u \in Uploads : stored'[u] = stored[u]
          BY <2>4, <4>1, StoredChanges
        <5>2. file'[J][R] = None
          BY <3>0, <3>9 DEF Discard, End, Go, Keep, KeepsOwn, Summed, TypeOK
        <5> QED
          BY <4>3, <5>1, <5>2 DEF Place
      <4>5. Store!Unreadable(x)
        BY <3>1, <3>3, <3>5, <4>1, <4>2, <4>3, <4>4 DEF Store!Unreadable
      <4> QED
        BY <3>0, <4>5 DEF Store!Next
    <3>10. CASE ~Rename(x) /\ ~Commit(x) /\ ~Discard(x)
      <4>1. Same(J, R)
        BY <2>4, <3>0, <3>2, <3>10, KeptChanges
      <4>2. CASE DropCopy(x)
        <5>1. Place(J, R) # "free"
          BY <3>0, <4>2 DEF DropCopy, End, Go, ActsOnFound, Place
        <5>2. reply' = [reply EXCEPT ![x] = "duplicate"]
          BY <4>2 DEF DropCopy, End
        <5>3. Store!Duplicate(x)
          BY <3>0, <3>4, <3>5, <4>1, <5>1, <5>2 DEF Store!Duplicate, Store!Place
        <5> QED
          BY <3>0, <5>3 DEF Store!Next
      <4>3. ASSUME NEW what \in {"refused", "error"}, reply' = [reply EXCEPT ![x] = what]
            PROVE  Store!Next
        <5>1. Store!Fail(x)
          BY <3>4, <3>5, <4>1, <4>3 DEF Store!Fail
        <5> QED
          BY <3>0, <5>1 DEF Store!Next
      <4>4. CASE reply' = reply
        BY <3>4, <3>6, <4>1, <4>4 DEF Store!vars
      <4> QED
        BY <2>4, <3>10, <4>2, <4>3, <4>4, OwnAnswer
    <3> QED
      BY <3>7, <3>8, <3>9, <3>10
  <2> QED
    BY <2>2, <2>3, <2>4 DEF Next
<1> QED
  BY <1>1, <1>2, TypeCorrect, FindInvariant, KeepInvariant, OnceInvariant, ReadInvariant,
     FoundInvariant, PTL DEF Spec, ImplementsReportStore, Store!Spec
=============================================================================
