--------------------------- MODULE QueriesProofs ---------------------------
(***************************************************************************)
(* Theorems about Queries, for every number of jobs, reports, imports and  *)
(* clients, and whatever the reports say.                                  *)
(***************************************************************************)
EXTENDS Queries, ResultsImportProofs, SequenceTheorems, WellFoundedInduction

\* A step of the composition is a step of the imports, or leaves them alone.
LEMMA ImportsGoOn == QuerySpec => Spec
<1>1. QueryInit => Init
  BY DEF QueryInit
<1>2. [QueryNext]_allvars => [Next]_vars
  BY DEF QueryNext, allvars, ResolveId, Load
<1> QED
  BY <1>1, <1>2, PTL DEF QuerySpec, Spec

\* A step of an import, or one of an asker with everything else as it was.
LEMMA StepCases ==
  ASSUME [QueryNext]_allvars
  PROVE  \/ [Next]_vars /\ UNCHANGED askers
         \/ \E q \in Askers : (ResolveId(q) \/ Load(q)) /\ UNCHANGED vars
  BY DEF QueryNext, allvars, ResolveId, Load

\* The state of a query keeps its type: it has an id exactly while it loads.
THEOREM QueryTypeCorrect == QuerySpec => []QueryTypeOK
<1>1. QueryInit => QueryTypeOK
  BY DEF QueryInit, QueryTypeOK
<1>2. TypeOK /\ QueryTypeOK /\ [QueryNext]_allvars => QueryTypeOK'
  <2> SUFFICES ASSUME TypeOK, QueryTypeOK, [QueryNext]_allvars
               PROVE  QueryTypeOK'
    OBVIOUS
  <2> USE DEF QueryTypeOK
  <2>1. CASE UNCHANGED askers
    BY <2>1 DEF askers
  <2>2. ASSUME NEW q \in Askers, ResolveId(q) PROVE QueryTypeOK'
    <3>1. Len(testrun) \in Nat
      BY DEF TypeOK
    <3>2. PICK i \in 0..Len(testrun) :
            /\ id' = [id EXCEPT ![q] = i]
            /\ at' = [at EXCEPT ![q] = IF i = 0 THEN "empty" ELSE "loading"]
      BY <2>2 DEF ResolveId
    <3>3. known' \in [Askers -> SUBSET Uploads]
      BY <2>2 DEF ResolveId, Accepted
    <3>4. i \in Nat
      BY <3>1, <3>2
    <3>5. CASE i = 0
      BY <3>2, <3>3, <3>5
    <3>6. CASE i # 0
      BY <3>2, <3>3, <3>4, <3>6
    <3> QED
      BY <3>5, <3>6
  <2>3. ASSUME NEW q \in Askers, Load(q) PROVE QueryTypeOK'
    BY <2>3 DEF Load
  <2> QED
    BY <2>1, <2>2, <2>3, StepCases
<1> QED
  BY <1>1, <1>2, ImportsGoOn, TypeCorrect, PTL DEF QuerySpec

-----------------------------------------------------------------------------
(* One id for each testrun *)

\* There is at most one id a name resolves to.
LEMMA ResolvesOnce ==
  ASSUME NEW rows \in Seq(Testruns), NEW name, NEW i \in Nat, NEW k \in Nat,
         Resolves(rows, name, i), Resolves(rows, name, k)
  PROVE  i = k
<1>1. CASE i > 0
  BY <1>1 DEF Resolves
<1>2. CASE i = 0
  BY <1>2 DEF Resolves
<1> QED
  BY <1>1, <1>2

\* The table of testruns is only ever appended to.
LEMMA RowsAppended ==
  ASSUME TypeOK, [Next]_vars
  PROVE  testrun' = testrun \/ \E name \in Testruns : testrun' = Append(testrun, name)
<1> USE DEF tables
<1>1. CASE UNCHANGED vars
  BY <1>1 DEF vars
<1>2. CASE OtherWriter
  BY <1>2 DEF OtherWriter
<1>3. ASSUME NEW u \in Uploads, Request(u)
      PROVE  testrun' = testrun \/ \E name \in Testruns : testrun' = Append(testrun, name)
  <2>1. CASE Refuse(u) \/ Save(u) \/ SaveFails(u) \/ Crash(u) \/ Sum(u) \/ Compare(u)
    BY <2>1 DEF Refuse, Save, SaveFails, Crash, Sum, Compare
  <2>2. CASE DropCopy(u) \/ Rename(u) \/ Parse(u) \/ Discard(u) \/ FileFails(u)
    BY <2>2 DEF DropCopy, Rename, Parse, Discard, FileFails
  <2>3. CASE Resolve(u) \/ Name(u) \/ Insert(u) \/ TableFails(u)
    BY <2>3 DEF Resolve, Name, Insert, TableFails
  <2>4. CASE Commit(u)
    <3>1. Testrun[Job[u]] \in Testruns
      BY TestrunAssumption, UploadAssumption
    <3> QED
      BY <2>4, <3>1 DEF Commit
  <2> QED
    BY <1>3, <2>1, <2>2, <2>3, <2>4 DEF Request, Handler
<1> QED
  BY <1>1, <1>2, <1>3 DEF Next

\* An import that was answered 200 stays so.
LEMMA AcceptedStays ==
  ASSUME TypeOK, KeepInv, [Next]_vars, NEW u \in Uploads, Job[u] \in Distinct,
         reply[u] = "ok"
  PROVE  reply'[u] = "ok"
<1>1. pc[u] = "done"
  BY DEF KeepInv, KeepsOwn
<1>2. CASE UNCHANGED vars
  BY <1>2 DEF vars
<1>3. CASE OtherWriter
  BY <1>3 DEF OtherWriter
<1>4. ASSUME NEW w \in Uploads, Request(w) PROVE reply'[u] = "ok"
  <2>1. w # u
    <3> USE <1>1 DEF Go, End, InFlight
    <3>1. ~Refuse(u) /\ ~Save(u) /\ ~SaveFails(u) /\ ~Crash(u)
      BY DEF Refuse, Save, SaveFails, Crash
    <3>2. ~Sum(u) /\ ~Compare(u) /\ ~DropCopy(u) /\ ~Rename(u) /\ ~Parse(u) /\ ~Discard(u)
      BY DEF Sum, Compare, DropCopy, Rename, Parse, Discard
    <3>3. ~FileFails(u) /\ ~Resolve(u) /\ ~Name(u) /\ ~Insert(u) /\ ~Commit(u) /\ ~TableFails(u)
      BY DEF FileFails, Resolve, Name, Insert, Commit, TableFails
    <3> QED
      BY <1>4, <3>1, <3>2, <3>3 DEF Request, Handler
  <2> QED
    BY <1>4, <2>1, RequestFrame
<1> QED
  BY <1>2, <1>3, <1>4 DEF Next

-----------------------------------------------------------------------------
(* What an answer finds *)

LEMMA KnownInductive == QuerySpec => []KnownInv
<1>1. QueryInit => KnownInv
  BY DEF QueryInit, KnownInv, KnownAt
<1>2. /\ TypeOK /\ KeepInv /\ FindInv /\ QueryTypeOK /\ KnownInv
      /\ [QueryNext]_allvars
      => KnownInv'
  <2> SUFFICES ASSUME TypeOK, KeepInv, FindInv, QueryTypeOK, KnownInv,
                      [QueryNext]_allvars, NEW q \in Askers
               PROVE  KnownAt(q)'
    BY DEF KnownInv
  <2>0. KnownAt(q) /\ known[q] \subseteq Uploads /\ testrun \in Seq(Testruns)
    BY DEF KnownInv, QueryTypeOK, TypeOK
  <2>1. CASE [Next]_vars /\ UNCHANGED askers
    <3>1. at[q] = "loading" => Resolves(testrun', AskedFor[q].testrun, id[q])
      <4> SUFFICES ASSUME at[q] = "loading"
                   PROVE  Resolves(testrun', AskedFor[q].testrun, id[q])
        OBVIOUS
      <4>1. Resolves(testrun, AskedFor[q].testrun, id[q]) /\ id[q] \in Nat \ {0}
        BY <2>0 DEF KnownAt, QueryTypeOK
      <4>2. CASE testrun' = testrun
        BY <4>1, <4>2
      <4>3. ASSUME NEW name \in Testruns, testrun' = Append(testrun, name)
            PROVE  Resolves(testrun', AskedFor[q].testrun, id[q])
        BY <2>0, <4>1, <4>3, AppendResolves
      <4> QED
        BY <2>1, <4>2, <4>3, RowsAppended
    <3>2. \A u \in known[q] : Job[u] \in Distinct => reply'[u] = "ok"
      BY <2>0, <2>1, AcceptedStays DEF KnownAt
    <3> QED
      BY <2>0, <2>1, <3>1, <3>2 DEF KnownAt, askers
  <2>2. ASSUME NEW r \in Askers, ResolveId(r) \/ Load(r), UNCHANGED vars, r # q
        PROVE  KnownAt(q)'
    <3>1. at'[q] = at[q] /\ id'[q] = id[q] /\ known'[q] = known[q]
      BY <2>2 DEF ResolveId, Load, QueryTypeOK
    <3> QED
      BY <2>0, <2>2, <3>1 DEF KnownAt, vars, tables
  <2>3. CASE ResolveId(q)
    <3>1. PICK i \in 0..Len(testrun) :
            /\ Resolves(testrun, AskedFor[q].testrun, i)
            /\ id'[q] = i
            /\ at'[q] = IF i = 0 THEN "empty" ELSE "loading"
      BY <2>3 DEF ResolveId, QueryTypeOK
    <3>2. known'[q] = Accepted(AskedFor[q].user, AskedFor[q].testrun)
      BY <2>3 DEF ResolveId, QueryTypeOK
    <3>3. testrun' = testrun /\ reply' = reply
      BY <2>3 DEF ResolveId, vars, tables
    <3>4. ASSUME NEW u \in known'[q], Job[u] \in Distinct PROVE i # 0
      <4>1. u \in Uploads /\ reply[u] = "ok" /\ Testrun[Job[u]] = AskedFor[q].testrun
        BY <3>2 DEF Accepted
      <4>2. stored[u] # 0 /\ stored[u] \in Nat
        BY <3>4, <4>1 DEF KeepInv, KeepsOwn, TypeOK
      <4>3. Resolves(testrun, AskedFor[q].testrun, stored[u])
        BY <4>1, <4>2 DEF FindInv, Finds
      <4>4. i \in Nat
        BY <2>0
      <4> QED
        BY <2>0, <3>1, <4>2, <4>3, <4>4, ResolvesOnce
    <3> QED
      BY <3>1, <3>2, <3>3, <3>4 DEF KnownAt, Accepted
  <2>4. CASE Load(q)
    BY <2>4 DEF Load, KnownAt, QueryTypeOK
  <2> QED
    BY <2>1, <2>2, <2>3, <2>4, StepCases
<1> QED
  BY <1>1, <1>2, ImportsGoOn, TypeCorrect, KeepInvariant, FindInvariant,
     QueryTypeCorrect, PTL DEF QuerySpec

\* An answer holds every verdict of every import that was accepted before the client
\* asked, whoever else made the testrun meanwhile: both found the same row of it.
THEOREM AcceptedAreVisible == QuerySpec => []AcceptedIsVisible
<1>1. TypeOK /\ KeepInv /\ FindInv /\ QueryTypeOK /\ KnownInv => AcceptedIsVisible
  <2> SUFFICES ASSUME TypeOK, KeepInv, FindInv, QueryTypeOK, KnownInv,
                      NEW q \in Askers, NEW u \in known[q], Job[u] \in Distinct
               PROVE  /\ get_passed(Verdicts[Body[u]]) \subseteq Passed(q) \ Rerun(q)
                      /\ Tests(Body[u]) \subseteq Passed(q) \cup Rerun(q)
    BY DEF AcceptedIsVisible
  <2>1. /\ KnownAt(q) /\ u \in Uploads /\ testrun \in Seq(Testruns)
        /\ at[q] \in {"idle", "loading", "empty"}
    BY DEF KnownInv, QueryTypeOK, TypeOK
  <2>2. /\ reply[u] = "ok" /\ at[q] = "loading" /\ User[u] = AskedFor[q].user
        /\ Testrun[Job[u]] = AskedFor[q].testrun
        /\ Resolves(testrun, AskedFor[q].testrun, id[q])
    BY <2>1 DEF KnownAt
  <2>3. stored[u] # 0 /\ read[u] = Body[u] /\ Body[u] \in Valid
    BY <2>1, <2>2 DEF KeepInv, KeepsOwn, InPlace
  <2>4. stored[u] = id[q]
    <3>1. Resolves(testrun, AskedFor[q].testrun, stored[u])
      BY <2>1, <2>2, <2>3 DEF FindInv, Finds
    <3>2. stored[u] \in Nat /\ id[q] \in Nat
      BY <2>1 DEF TypeOK, QueryTypeOK
    <3> QED
      BY <2>1, <2>2, <3>1, <3>2, ResolvesOnce
  <2>5. Verdicts[Body[u]] \subseteq Found(q)
    BY <2>1, <2>2, <2>3, <2>4 DEF Found, Rows
  <2>6. get_passed(Verdicts[Body[u]]) \subseteq Passed(q)
    BY <2>5 DEF Passed, get_passed
  <2>7. Tests(Body[u]) \subseteq {t.testid : t \in Verdicts[Body[u]]}
    <3>1. Verdicts[Body[u]] =
            {[testid |-> c.test, verdict |-> VerdictOf(c.children)] : c \in Cases[Body[u]]}
      BY <2>3 DEF Verdicts
    <3> SUFFICES ASSUME NEW c \in Cases[Body[u]]
                 PROVE  \E t \in Verdicts[Body[u]] : t.testid = c.test
      BY DEF Tests
    <3>2. [testid |-> c.test, verdict |-> VerdictOf(c.children)] \in Verdicts[Body[u]]
      BY <3>1
    <3> QED
      BY <3>2
  <2> QED
    BY <2>5, <2>6, <2>7 DEF Passed, Rerun, get_nonpassed
<1> QED
  BY <1>1, ImportsGoOn, TypeCorrect, KeepInvariant, FindInvariant,
     QueryTypeCorrect, KnownInductive, PTL

-----------------------------------------------------------------------------
(* Induction over the numbers up to n, with a set for the predicate        *)

Less == OpToRel(<, Nat)

LEMMA Least ==
  ASSUME NEW T, T \subseteq Nat, T # {}
  PROVE  \E n \in T : \A m \in T : n <= m
<1>1. IsWellFoundedOn(Less, Nat)
  BY NatLessThanWellFounded DEF Less
<1>2. PICK n \in T : \A m \in T : <<m, n>> \notin Less
  BY <1>1, WFMin
<1>3. \A m \in T : ~(m < n)
  BY <1>2 DEF Less, OpToRel
<1>4. \A m \in T : n <= m
  BY <1>3
<1> QED
  BY <1>4

LEMMA UpTo ==
  ASSUME NEW n \in Nat, NEW T, 0 \in T, \A m \in 1..n : m - 1 \in T => m \in T
  PROVE  0..n \subseteq T
<1> DEFINE Missing == (0..n) \ T
<1> SUFFICES ASSUME Missing # {} PROVE FALSE
  OBVIOUS
<1>1. PICK m \in Missing : \A k \in Missing : m <= k
  <2>1. Missing \subseteq Nat
    OBVIOUS
  <2> HIDE DEF Missing
  <2> QED
    BY <2>1, Least
<1>2. m \in 1..n /\ m - 1 \in 0..n /\ ~(m <= m - 1)
  BY <1>1
<1>3. m - 1 \in T
  BY <1>1, <1>2
<1> QED
  BY <1>1, <1>2, <1>3

\* The sequences of states that start at base and make one step after the other; there
\* is one of every length.
Walks(n, S, base, step) ==
    {f \in [0..n -> S] : f[0] = base /\ \A k \in 1..n : f[k] = step[k][f[k - 1]]}

LEMMA WalkExists ==
  ASSUME NEW n \in Nat, NEW S, NEW base \in S, NEW step \in [1..n -> [S -> S]]
  PROVE  Walks(n, S, base, step) # {}
<1> DEFINE Upto(m) == Walks(m, S, base, step)
           T == {m \in 0..n : Upto(m) # {}}
<1>1. 0 \in T
  <2>1. [k \in 0..0 |-> base] \in Upto(0)
    BY DEF Walks
  <2> QED
    BY <2>1
<1>2. ASSUME NEW m \in 1..n, m - 1 \in T PROVE m \in T
  <2>1. PICK f : f \in Upto(m - 1)
    BY <1>2
  <2> DEFINE g == [k \in 0..m |-> IF k = m THEN step[m][f[m - 1]] ELSE f[k]]
  <2>2. m - 1 \in Nat /\ m \in Nat
    OBVIOUS
  <2>3. f[m - 1] \in S
    BY <2>1, <2>2 DEF Walks
  <2>4. step[m][f[m - 1]] \in S
    BY <2>3
  <2>5. g \in [0..m -> S]
    BY <2>1, <2>2, <2>4 DEF Walks
  <2>6. g[0] = base
    BY <2>1, <2>2 DEF Walks
  <2>7. ASSUME NEW k \in 1..m PROVE g[k] = step[k][g[k - 1]]
    <3>1. g[k - 1] = f[k - 1]
      BY <2>2
    <3>2. CASE k = m
      BY <3>1, <3>2
    <3>3. CASE k # m
      <4>1. k \in 1..(m - 1) /\ g[k] = f[k]
        BY <2>2, <3>3
      <4> QED
        BY <2>1, <3>1, <4>1 DEF Walks
    <3> QED
      BY <3>2, <3>3
  <2>8. g \in Upto(m)
    BY <2>5, <2>6, <2>7 DEF Walks
  <2> QED
    <3>1. m \in 0..n
      BY <2>2
    <3> HIDE DEF Upto, g
    <3> QED
      BY <2>8, <3>1
<1>3. n \in T
  <2> HIDE DEF T
  <2>1. \A m \in 1..n : m - 1 \in T => m \in T
    BY <1>2
  <2>2. 0..n \subseteq T
    BY <1>1, <2>1, UpTo
  <2> QED
    BY <2>2
<1> QED
  BY <1>3 DEF T

-----------------------------------------------------------------------------
(* What the loop over the children of a test case comes to *)

Seen == [verdict : {"passed", "failed", "skipped", "xfailed"}, broke : BOOLEAN]

LEMMA LookType ==
  ASSUME NEW seen \in Seen, NEW child \in Children
  PROVE  Look(seen, child) \in Seen
BY DEF Seen, Children, Look, Meaning

\* VerdictOf ends with the last of a sequence of states, one for each child.
LEMMA VerdictIsLast ==
  ASSUME NEW children \in Seq(Children)
  PROVE  \E after \in [0..Len(children) -> Seen] :
            /\ after[0] = Unseen
            /\ \A k \in 1..Len(children) : after[k] = Look(after[k - 1], children[k])
            /\ VerdictOf(children) = after[Len(children)].verdict
<1> DEFINE n == Len(children)
           Eqn(f) == f = [k \in 0..n |-> IF k = 0 THEN Unseen ELSE Look(f[k - 1], children[k])]
           step == [k \in 1..n |-> [seen \in Seen |-> Look(seen, children[k])]]
<1>1. n \in Nat /\ Unseen \in Seen /\ \A k \in 1..n : children[k] \in Children
  BY DEF Unseen, Seen
<1>2. step \in [1..n -> [Seen -> Seen]]
  BY <1>1, LookType
<1>3. \E f : Eqn(f)
  <2>1. PICK f : f \in Walks(n, Seen, Unseen, step)
    <3> HIDE DEF step, n
    <3> QED
      BY <1>1, <1>2, WalkExists
  <2>2. ASSUME NEW k \in 1..n PROVE f[k] = Look(f[k - 1], children[k])
    <3>1. f[k] = step[k][f[k - 1]] /\ f[k - 1] \in Seen
      BY <1>1, <2>1 DEF Walks
    <3>2. step[k] = [seen \in Seen |-> Look(seen, children[k])]
      OBVIOUS
    <3> QED
      BY <3>1, <3>2
  <2>3. Eqn(f)
    BY <1>1, <2>1, <2>2 DEF Walks
  <2> QED
    BY <2>3
<1> DEFINE after == CHOOSE f : Eqn(f)
<1>4. Eqn(after)
  BY <1>3
<1>5. VerdictOf(children) = after[n].verdict
  BY DEF VerdictOf
<1> HIDE DEF after
<1>6. after[0] = Unseen /\ \A k \in 1..n : after[k] = Look(after[k - 1], children[k])
  BY <1>1, <1>4
<1> DEFINE T == {k \in 0..n : after[k] \in Seen}
<1>7. ASSUME NEW k \in 1..n, k - 1 \in T PROVE k \in T
  BY <1>1, <1>6, <1>7, LookType
<1>8. 0..n \subseteq T
  <2>1. 0 \in T
    BY <1>1, <1>6
  <2>2. \A k \in 1..n : k - 1 \in T => k \in T
    BY <1>7
  <2> HIDE DEF T, n
  <2> QED
    BY <1>1, <2>1, <2>2, UpTo
<1>9. after \in [0..n -> Seen]
  BY <1>4, <1>8
<1> QED
  BY <1>5, <1>6, <1>9

\* The loop says a test passed exactly when the first child that settles anything is
\* an expected failure, or none does and there is no error.
THEOREM VerdictIsClean ==
  ASSUME NEW children \in Seq(Children)
  PROVE  VerdictOf(children) \in {"passed", "xfailed"} <=> Clean(children)
<1> DEFINE n == Len(children)
           first(k) == k \in Settling(children) /\ \A i \in Settling(children) : k <= i
           Loop(seen, k) ==
               IF seen.broke THEN \E i \in 1..k : first(i) /\ seen.verdict = Meaning[children[i]]
               ELSE /\ \A i \in 1..k : i \notin Settling(children)
                    /\ seen.verdict = IF \E i \in 1..k : children[i] = "error"
                                      THEN "failed" ELSE "passed"
<1>1. PICK after \in [0..n -> Seen] :
         /\ after[0] = Unseen
         /\ \A k \in 1..n : after[k] = Look(after[k - 1], children[k])
         /\ VerdictOf(children) = after[n].verdict
  BY VerdictIsLast
<1>2. /\ n \in Nat /\ DOMAIN children = 1..n
      /\ \A k \in 1..n : children[k] \in Children
      /\ Settling(children) \subseteq 1..n
  BY DEF Settling
<1> HIDE DEF n
<1> DEFINE T == {k \in 0..n : Loop(after[k], k)}
<1>3. 0 \in T
  <2>1. Loop(Unseen, 0)
    BY DEF Unseen
  <2> QED
    BY <1>1, <1>2, <2>1
<1>4. ASSUME NEW k \in 1..n, k - 1 \in T PROVE k \in T
  <2> DEFINE seen == after[k - 1]
             child == children[k]
  <2>1. /\ k \in Nat /\ k - 1 \in 0..n /\ Loop(seen, k - 1) /\ child \in Children
        /\ seen \in Seen /\ after[k] = Look(seen, child)
    BY <1>1, <1>2, <1>4
  <2>2. 1..k = 1..(k - 1) \cup {k}
    BY <2>1
  <2> HIDE DEF seen
  <2>3. CASE seen.broke
    BY <2>1, <2>2, <2>3 DEF Look
  <2>4. CASE ~seen.broke /\ child = "other"
    BY <1>2, <2>1, <2>2, <2>4 DEF Look, Settling
  <2>5. CASE ~seen.broke /\ child = "error"
    <3>1. after[k] = [verdict |-> "failed", broke |-> FALSE]
      <4>1. after[k] = [verdict |-> Meaning["error"], broke |-> "error" # "error"]
        BY <2>1, <2>5 DEF Look
      <4>2. Meaning["error"] = "failed"
        BY DEF Meaning
      <4> QED
        BY <4>1, <4>2
    <3>2. k \notin Settling(children)
      BY <2>5 DEF Settling
    <3>3. \A i \in 1..(k - 1) : i \notin Settling(children)
      BY <2>1, <2>5
    <3> QED
      BY <2>1, <2>2, <2>5, <3>1, <3>2, <3>3
  <2>6. CASE ~seen.broke /\ child \in {"failure", "skipped", "xfail"}
    <3>1. after[k] = [verdict |-> Meaning[child], broke |-> TRUE]
      BY <2>1, <2>6 DEF Look
    <3>2. first(k)
      BY <1>2, <2>1, <2>6 DEF Settling
    <3> QED
      BY <2>1, <3>1, <3>2
  <2> QED
    BY <2>1, <2>3, <2>4, <2>5, <2>6 DEF Children
<1>5. Loop(after[n], n)
  <2>1. \A k \in 1..n : k - 1 \in T => k \in T
    BY <1>4
  <2>2. 0..n \subseteq T
    <3> HIDE DEF T
    <3> QED
      BY <1>2, <1>3, <2>1, UpTo
  <2> QED
    BY <1>2, <2>2
<1>6. CASE after[n].broke
  <2>1. PICK i \in 1..n : first(i) /\ after[n].verdict = Meaning[children[i]]
    BY <1>5, <1>6
  <2>2. Clean(children) <=> children[i] = "xfail"
    BY <1>2, <2>1 DEF Clean
  <2>3. children[i] \in {"failure", "skipped", "xfail"}
    BY <2>1 DEF Settling
  <2>4. Meaning[children[i]] \in {"passed", "xfailed"} <=> children[i] = "xfail"
    BY <2>3 DEF Meaning
  <2> QED
    BY <1>1, <2>1, <2>2, <2>4
<1>7. CASE ~after[n].broke
  <2>1. Settling(children) = {}
    BY <1>2, <1>5, <1>7
  <2>2. after[n].verdict = IF \E i \in 1..n : children[i] = "error" THEN "failed" ELSE "passed"
    BY <1>5, <1>7
  <2> QED
    BY <1>1, <1>2, <2>1, <2>2 DEF Clean
<1> QED
  BY <1>6, <1>7

-----------------------------------------------------------------------------
(* The pytest form of a name *)

\* A name with dots only has its file in one word, and nothing to drop before it.
LEMMA DottedNodeids ==
  ASSUME NEW t \in TestNames, Dotted(t), NEW x \in NodeidsOf(t)
  PROVE  \E i \in DOMAIN t.class :
            x = [file |-> Slashed(SubSeq(t.class, 1, i)),
                 within |-> SubSeq(t.class, i + 1, Len(t.class)), title |-> t.title]
<1>1. t.class \in Seq(Spelled)
  BY DEF TestNames
<1>2. PICK i \in DOMAIN t.class, n \in DOMAIN t.class :
         GoesTo(i, n, t) /\ x = Nodeid(i, n, t)
  BY DEF NodeidsOf
<1>3. /\ i \in Nat /\ n \in Nat /\ i >= 1 /\ i <= n
      /\ \A k \in 1..n : k \in DOMAIN t.class
  BY <1>1, <1>2 DEF GoesTo
<1>4. n = i
  <2> SUFFICES ASSUME i < n PROVE FALSE
    BY <1>3
  <2>1. n \in (i + 1)..n
    BY <1>3
  <2>2. ~StartsPart(n, t) /\ StartsPart(n, t)
    BY <1>2, <2>1 DEF GoesTo, Dotted
  <2> QED
    BY <2>2
<1>5. FirstWord(i, t) = 1
  <2>1. 1 \in DOMAIN t.class
    BY <1>3
  <2>2. t.class[1].word # Empty
    BY <2>1 DEF Dotted
  <2> QED
    BY <2>2 DEF FirstWord
<1>6. x = [file |-> Slashed(SubSeq(t.class, 1, i)),
           within |-> SubSeq(t.class, i + 1, Len(t.class)), title |-> t.title]
  BY <1>2, <1>4, <1>5 DEF Nodeid
<1> QED
  BY <1>6

LEMMA Slices ==
  ASSUME NEW s \in Seq(Spelled), NEW i \in DOMAIN s
  PROVE  LET words == Slashed(SubSeq(s, 1, i))
             rest == SubSeq(s, i + 1, Len(s))
         IN  /\ DOMAIN words = 1..i /\ Len(rest) = Len(s) - i
             /\ \A m \in 1..Len(s) : /\ m <= i => s[m].word = words[m]
                                     /\ m > i => s[m] = rest[m - i]
BY DEF Slashed

LEMMA SameUpTo ==
  ASSUME NEW i \in Nat, NEW k \in Nat, 1..i = 1..k
  PROVE  i = k
<1>1. CASE i < k
  <2>1. k \in 1..k /\ k \notin 1..i
    BY <1>1
  <2> QED
    BY <2>1
<1>2. CASE k < i
  <2>1. i \in 1..i /\ i \notin 1..k
    BY <1>2
  <2> QED
    BY <2>1
<1> QED
  BY <1>1, <1>2

\* Two tests with the names pytest writes never get the same node id, though the dots of
\* the class name become slashes on one side of the file and colons on the other.
LEMMA NodeidsApart ==
  ASSUME NEW s \in TestNames, NEW t \in TestNames, Dotted(s), Dotted(t),
         NEW x \in NodeidsOf(s), x \in NodeidsOf(t)
  PROVE  s = t
<1>1. PICK i \in DOMAIN s.class :
         x = [file |-> Slashed(SubSeq(s.class, 1, i)),
              within |-> SubSeq(s.class, i + 1, Len(s.class)), title |-> s.title]
  BY DottedNodeids
<1>2. PICK k \in DOMAIN t.class :
         x = [file |-> Slashed(SubSeq(t.class, 1, k)),
              within |-> SubSeq(t.class, k + 1, Len(t.class)), title |-> t.title]
  BY DottedNodeids
<1> DEFINE c == s.class
           d == t.class
<1>3. /\ c \in Seq(Spelled) /\ d \in Seq(Spelled) /\ i \in 1..Len(c) /\ k \in 1..Len(d)
      /\ Len(c) \in Nat /\ Len(d) \in Nat
  BY DEF TestNames
<1>4. /\ \A m \in 1..Len(c) : c[m] \in Spelled /\ c[m].sep = "dot"
      /\ \A m \in 1..Len(d) : d[m] \in Spelled /\ d[m].sep = "dot"
  BY <1>3 DEF Dotted, StartsPart
<1> DEFINE rest == SubSeq(c, i + 1, Len(c))
           words == Slashed(SubSeq(c, 1, i))
<1>5. /\ words = Slashed(SubSeq(d, 1, k)) /\ rest = SubSeq(d, k + 1, Len(d))
      /\ s.title = t.title
  <2>1. x.file = words /\ x.within = rest /\ x.title = s.title
    BY <1>1
  <2>2. /\ x.file = Slashed(SubSeq(d, 1, k)) /\ x.within = SubSeq(d, k + 1, Len(d))
        /\ x.title = t.title
    BY <1>2
  <2> QED
    BY <2>1, <2>2
<1>6. /\ DOMAIN words = 1..i /\ Len(rest) = Len(c) - i
      /\ \A m \in 1..Len(c) : (m <= i => c[m].word = words[m]) /\ (m > i => c[m] = rest[m - i])
  BY <1>3, Slices
<1>7. /\ DOMAIN words = 1..k /\ Len(rest) = Len(d) - k
      /\ \A m \in 1..Len(d) : (m <= k => d[m].word = words[m]) /\ (m > k => d[m] = rest[m - k])
  <2> DEFINE tail == SubSeq(d, k + 1, Len(d))
             head == Slashed(SubSeq(d, 1, k))
  <2>1. /\ DOMAIN head = 1..k /\ Len(tail) = Len(d) - k
        /\ \A m \in 1..Len(d) : (m <= k => d[m].word = head[m]) /\ (m > k => d[m] = tail[m - k])
    BY <1>3, Slices
  <2>2. words = head /\ rest = tail
    BY <1>5
  <2> HIDE DEF head, tail, words, rest
  <2> QED
    BY <2>1, <2>2
<1> HIDE DEF c, d, rest, words
<1>8. i = k /\ Len(c) = Len(d)
  <2>1. i = k
    BY <1>3, <1>6, <1>7, SameUpTo
  <2> QED
    BY <1>3, <1>6, <1>7, <2>1
<1>9. c = d
  <2>1. ASSUME NEW m \in 1..Len(c) PROVE c[m] = d[m]
    <3>1. m \in 1..Len(d) /\ (m <= i \/ m > i)
      BY <1>3, <1>8
    <3>2. CASE m > i
      BY <1>6, <1>7, <1>8, <3>1, <3>2
    <3>3. CASE m <= i
      <4>1. c[m].word = d[m].word /\ c[m].sep = d[m].sep
        BY <1>4, <1>6, <1>7, <1>8, <3>1, <3>3
      <4>2. c[m] \in Spelled /\ d[m] \in Spelled
        BY <1>4, <3>1
      <4> QED
        BY <4>1, <4>2 DEF Spelled
    <3> QED
      BY <3>1, <3>2, <3>3
  <2> QED
    BY <1>3, <1>8, <2>1, SeqEqual
<1>10. s.class = t.class /\ s.title = t.title
  BY <1>5, <1>9 DEF c, d
<1>11. s = [class |-> s.class, title |-> s.title] /\ t = [class |-> t.class, title |-> t.title]
  BY DEF TestNames
<1> QED
  BY <1>10, <1>11

-----------------------------------------------------------------------------
(* What an answer says *)

\* What is stored of a report that was read says what the report means.
LEMMA StoredSays ==
  ASSUME NEW report \in Valid
  PROVE  /\ get_passed(Verdicts[report]) = Passes(report)
         /\ {t.testid : t \in Verdicts[report]} = Tests(report)
<1> DEFINE row(c) == [testid |-> c.test, verdict |-> VerdictOf(c.children)]
<1>1. Verdicts[report] = {row(c) : c \in Cases[report]}
  BY DEF Verdicts
<1>2. \A c \in Cases[report] : row(c).verdict \in {"passed", "xfailed"} <=> Clean(c.children)
  <2>1. \A c \in Cases[report] : c.children \in Seq(Children)
    BY CasesAssumption, ValidAssumption
  <2>2. \A c \in Cases[report] : row(c).verdict = VerdictOf(c.children)
    OBVIOUS
  <2> QED
    BY <2>1, <2>2, VerdictIsClean
<1>3. \A c \in Cases[report] : row(c).testid = c.test
  OBVIOUS
<1> HIDE DEF row
<1>4. get_passed(Verdicts[report]) = Passes(report)
  BY <1>1, <1>2, <1>3 DEF get_passed, Passes
<1>5. {t.testid : t \in Verdicts[report]} = Tests(report)
  BY <1>1, <1>3 DEF Tests
<1> QED
  BY <1>4, <1>5

\* A request that has found an id answers with exactly what the committed imports of
\* its user and testrun say.
LEMMA AnswerIs ==
  ASSUME TypeOK, FindInv, ReadInv, QueryTypeOK, KnownInv, NEW q \in Askers,
         at[q] = "loading"
  PROVE  Passed(q) = Earned(q) /\ Rerun(q) = Reported(q) \ Earned(q)
<1>1. /\ id[q] \in Nat \ {0} /\ testrun \in Seq(Testruns)
      /\ Resolves(testrun, AskedFor[q].testrun, id[q])
  BY DEF QueryTypeOK, KnownInv, KnownAt, TypeOK
<1>2. \A u \in Uploads : stored[u] = id[q] <=>
         stored[u] # 0 /\ Testrun[Job[u]] = AskedFor[q].testrun
  <2> SUFFICES ASSUME NEW u \in Uploads, stored[u] # 0
               PROVE  stored[u] = id[q] <=> Testrun[Job[u]] = AskedFor[q].testrun
    BY <1>1
  <2>1. stored[u] \in Nat /\ Resolves(testrun, Testrun[Job[u]], stored[u])
    BY DEF TypeOK, FindInv, Finds
  <2>2. stored[u] = id[q] => Testrun[Job[u]] = AskedFor[q].testrun
    BY <1>1, <2>1 DEF Resolves
  <2>3. Testrun[Job[u]] = AskedFor[q].testrun => stored[u] = id[q]
    BY <1>1, <2>1, ResolvesOnce
  <2> QED
    BY <2>2, <2>3
<1>3. Found(q) = UNION {Verdicts[read[u]] : u \in Own(q)}
  BY <1>1, <1>2 DEF Found, Rows, Own
<1>4. \A u \in Own(q) : read[u] \in Valid
  BY DEF ReadInv, ReadsValid, Own
<1>5. Passed(q) = UNION {get_passed(Verdicts[read[u]]) : u \in Own(q)}
  BY <1>3 DEF Passed, get_passed
<1>6. Passed(q) = Earned(q)
  BY <1>4, <1>5, StoredSays DEF Earned
<1>7. {t.testid : t \in Found(q)} = Reported(q)
  <2>1. {t.testid : t \in Found(q)} =
           UNION {{t.testid : t \in Verdicts[read[u]]} : u \in Own(q)}
    BY <1>3
  <2> QED
    BY <1>4, <2>1, StoredSays DEF Reported
<1>8. Rerun(q) = {t.testid : t \in Found(q)} \ Passed(q)
  BY DEF Rerun, get_nonpassed, Passed
<1> QED
  BY <1>6, <1>7, <1>8

\* Answers say what the user's own reports say, all of it and nothing else: one pass
\* is enough to get a test out of rerun, and of the names that pytest writes the two
\* lists have no node id in common.
THEOREM AnswersEarned == QuerySpec => []AnswersAreEarned
<1>1. TypeOK /\ FindInv /\ ReadInv /\ QueryTypeOK /\ KnownInv => AnswersAreEarned
  <2> SUFFICES ASSUME TypeOK, FindInv, ReadInv, QueryTypeOK, KnownInv, NEW q \in Askers,
                      at[q] = "loading"
               PROVE  pytestify(DottedOf(Passed(q))) \cap pytestify(DottedOf(Rerun(q))) = {}
    BY AnswerIs DEF AnswersAreEarned
  <2>1. Passed(q) = Earned(q) /\ Rerun(q) = Reported(q) \ Earned(q)
    BY AnswerIs
  <2>2. Passed(q) \subseteq TestNames /\ Rerun(q) \subseteq TestNames
    <3>1. \A u \in Own(q) : Tests(read[u]) \subseteq TestNames
      <4> SUFFICES ASSUME NEW u \in Own(q) PROVE Tests(read[u]) \subseteq TestNames
        OBVIOUS
      <4>1. read[u] \in Reports
        BY ValidAssumption DEF ReadInv, ReadsValid, Own
      <4> QED
        BY <4>1, CasesAssumption DEF Tests
    <3>2. \A u \in Own(q) : Passes(read[u]) \subseteq Tests(read[u])
      BY DEF Passes, Tests
    <3> QED
      BY <2>1, <3>1, <3>2 DEF Reported, Earned
  <2> SUFFICES ASSUME NEW s \in DottedOf(Passed(q)), NEW t \in DottedOf(Rerun(q)),
                      NEW x \in NodeidsOf(s), x \in NodeidsOf(t)
               PROVE  FALSE
    BY DEF pytestify
  <2>3. s = t
    BY <2>2, NodeidsApart DEF DottedOf
  <2>4. s \in Passed(q) /\ t \notin Passed(q)
    BY <2>1 DEF DottedOf
  <2> QED
    BY <2>3, <2>4
<1> QED
  BY <1>1, ImportsGoOn, TypeCorrect, FindInvariant, ReadInvariant, QueryTypeCorrect,
     KnownInductive, PTL
=============================================================================
