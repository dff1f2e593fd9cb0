-------------------------- MODULE MigrationsProofs --------------------------
(***************************************************************************)
(* What migrate and init-db guarantee for every number of commands,        *)
(* releases and migrations, with every failure and every interleaving.     *)
(***************************************************************************)
EXTENDS Migrations, TLAPS

USE CommandAssumption, LockAssumption

LEMMA MakesObjects == \A c \in Commands : Makes(c) \in SUBSET Objects
<1> TAKE c \in Commands
<1>1. \A v \in Knows[c] : Adds[v] \subseteq Objects
  BY SchemaAssumption
<1> QED
  BY <1>1 DEF Makes

\* The variables keep their types; apply works only on migrations of its release.
THEOREM TypeCorrect == Spec => []TypeOK
<1>1. Init => TypeOK
  BY SchemaAssumption DEF Init, TypeOK, Steps, Replies
<1>2. TypeOK /\ [Next]_vars => TypeOK'
  <2> SUFFICES ASSUME TypeOK, [Next]_vars PROVE TypeOK'
    OBVIOUS
  <2> USE DEF TypeOK, Steps, Replies, database, past, locals, Go, End, Drop, Take
  <2>1. CASE UNCHANGED vars
    BY <2>1 DEF vars
  <2>2. CASE OtherWriter
    BY <2>2 DEF OtherWriter, ElsewhereTakes, ElsewhereDrops
  <2>3. ASSUME NEW c \in Commands, Command(c) PROVE TypeOK'
    <3>1. CASE Check(c)
      <4>1. pc' \in [Commands -> Steps]
        <5>1. \E to \in Steps : pc' = [pc EXCEPT ![c] = to]
          BY <3>1 DEF Check
        <5> QED
          BY <5>1
      <4>2. reply' \in [Commands -> Replies]
        <5>1. reply' = reply \/ \E answer \in Replies : reply' = [reply EXCEPT ![c] = answer]
          BY <3>1 DEF Check
        <5> QED
          BY <5>1
      <4>3. lock' \in {lock, NoOne}
        BY <3>1 DEF Check
      <4>4. UNCHANGED <<schema, recorded, legacy, ran, todo, left>>
        BY <3>1 DEF Check
      <4>5. disturbed' \in BOOLEAN
        BY <3>1 DEF Check, Begin
      <4> QED
        BY <4>1, <4>2, <4>3, <4>4, <4>5
    <3>2. CASE Apply(c)
      <4>1. todo' \in [Commands -> SUBSET Versions] /\ \A d \in Commands : todo'[d] \subseteq Knows[d]
        <5>1. Pending(c) \subseteq Knows[c] /\ Knows[c] \in SUBSET Versions
          BY DEF Pending
        <5>2. todo' = todo \/ todo' = [todo EXCEPT ![c] = Pending(c)]
          BY <3>2 DEF Apply
        <5>3. CASE todo' = todo
          BY <5>3
        <5>4. CASE todo' = [todo EXCEPT ![c] = Pending(c)]
          <6>1. Pending(c) \in SUBSET Versions
            BY <5>1
          <6> HIDE DEF Pending
          <6> QED
            BY <5>1, <5>4, <6>1
        <5> QED
          BY <5>2, <5>3, <5>4
      <4>2. pc' \in [Commands -> Steps]
        <5>1. \E to \in Steps : pc' = [pc EXCEPT ![c] = to]
          BY <3>2 DEF Apply
        <5> QED
          BY <5>1
      <4>3. reply' \in [Commands -> Replies]
        <5>1. reply' = reply \/ \E answer \in Replies : reply' = [reply EXCEPT ![c] = answer]
          BY <3>2 DEF Apply
        <5> QED
          BY <5>1
      <4>4. lock' \in {lock, NoOne}
        BY <3>2 DEF Apply
      <4>5. UNCHANGED <<schema, recorded, legacy, disturbed, ran, left>>
        BY <3>2 DEF Apply
      <4> QED
        BY <4>1, <4>2, <4>3, <4>4, <4>5
    <3>3. CASE Ensure(c)
      BY <3>3 DEF Ensure
    <3>4. CASE Run(c) \/ RunFails(c)
      <4>1. CASE Run(c)
        BY <4>1 DEF Run
      <4>2. CASE RunFails(c)
        BY <4>2 DEF RunFails
      <4> QED
        BY <3>4, <4>1, <4>2
    <3>5. CASE Commit(c)
      <4> PICK v \in todo[c] :
            /\ schema' = schema \cup Adds[v]
            /\ recorded' = recorded \cup {v}
            /\ ran' = [ran EXCEPT ![v] = @ \cup {c}]
            /\ todo' = [todo EXCEPT ![c] = @ \ {v}]
        BY <3>5 DEF Commit
      <4>1. v \in Versions /\ Adds[v] \subseteq Objects
        BY SchemaAssumption
      <4>2. todo' \in [Commands -> SUBSET Versions] /\ \A d \in Commands : todo'[d] \subseteq Knows[d]
        OBVIOUS
      <4>3. ran' \in [Versions -> SUBSET Commands]
        BY <4>1
      <4>4. schema' \subseteq Objects \cup {VersionTable} /\ recorded' \subseteq Versions
        BY <4>1
      <4>5. /\ \E to \in Steps : pc' = [pc EXCEPT ![c] = to]
            /\ \E answer \in Replies : reply' = [reply EXCEPT ![c] = answer] \/ reply' = reply
            /\ lock' \in {lock, NoOne}
        BY <3>5 DEF Commit
      <4>6. legacy' = legacy /\ disturbed' = disturbed /\ left' = left
        BY <3>5 DEF Commit
      <4> HIDE DEF Steps, Replies
      <4>7. pc' \in [Commands -> Steps] /\ lock' \in Commands \cup {NoOne, Elsewhere}
        BY <4>5
      <4>8. reply' \in [Commands -> Replies]
        BY <4>5
      <4> QED
        BY <4>2, <4>3, <4>4, <4>6, <4>7, <4>8
    <3>6. CASE Reset(c)
      <4>1. Tables(c) \in SUBSET Objects
        BY MakesObjects DEF Tables
      <4>2. disturbed' \in BOOLEAN
        BY <3>6 DEF Reset, Begin
      <4> QED
        BY <3>6, <4>1, <4>2 DEF Reset
    <3>7. CASE DropTable(c)
      <4>1. PICK t \in left[c] :
              /\ schema' = IF t \in schema
                           THEN schema \ ({t} \cup {i \in DOMAIN On : On[i] = t}) ELSE schema
              /\ left' = [left EXCEPT ![c] = IF @ = {t} THEN Makes(c) ELSE @ \ {t}]
        BY <3>7 DEF DropTable
      <4>2. left' \in [Commands -> SUBSET Objects]
        BY <4>1, MakesObjects
      <4>3. pc' \in [Commands -> Steps]
        <5>1. pc' = pc \/ pc' = [pc EXCEPT ![c] = "creating"]
          BY <3>7, Zenon DEF DropTable
        <5> QED
          BY <5>1
      <4>4. schema' \subseteq schema
        BY <4>1
      <4> QED
        BY <3>7, <4>2, <4>3, <4>4 DEF DropTable
    <3>8. CASE Create(c)
      <4>1. PICK o \in left[c] :
              /\ schema' = schema \cup {o}
              /\ left' = [left EXCEPT ![c] = @ \ {o}]
        BY <3>8 DEF Create
      <4>2. left' \in [Commands -> SUBSET Objects] /\ schema' \subseteq Objects \cup {VersionTable}
        BY <4>1
      <4>3. pc' \in [Commands -> Steps]
        <5>1. pc' = pc \/ pc' = [pc EXCEPT ![c] = "ensuring"]
          BY <3>8, Zenon DEF Create
        <5> QED
          BY <5>1
      <4> QED
        BY <3>8, <4>2, <4>3 DEF Create
    <3>9. CASE Stamp(c) \/ CommitStamp(c)
      <4>1. CASE Stamp(c)
        BY <4>1 DEF Stamp
      <4>2. CASE CommitStamp(c)
        BY <4>2, CommandAssumption DEF CommitStamp
      <4> QED
        BY <3>9, <4>1, <4>2
    <3>10. CASE Fails(c) \/ Crash(c)
      <4>1. CASE Fails(c)
        BY <4>1 DEF Fails
      <4>2. CASE Crash(c)
        BY <4>2 DEF Crash
      <4> QED
        BY <3>10, <4>1, <4>2
    <3>11. CASE CreateFails(c)
      BY <3>11 DEF CreateFails
    <3> QED
      BY <2>3, <3>1, <3>2, <3>3, <3>4, <3>5, <3>6, <3>7, <3>8, <3>9, <3>10, <3>11
         DEF Command, Work
  <2> QED
    BY <2>1, <2>2, <2>3 DEF Next
<1> QED
  BY <1>1, <1>2, PTL DEF Spec

-----------------------------------------------------------------------------

LEMMA SomeLeft ==
    ASSUME NEW S, NEW v \in S, S # {v} PROVE S \ {v} # {}
<1>1. \E w \in S : w # v
  OBVIOUS
<1> QED
  BY <1>1

\* Only one migration of a command is the next one.
LEMMA NextIsOne ==
    ASSUME TypeOK, NEW c \in Commands, NEW v \in todo[c], NEW w \in todo[c],
           IsNext(c, v), IsNext(c, w)
    PROVE  v = w
<1>1. v \in Nat /\ w \in Nat
  BY VersionAssumption DEF TypeOK
<1>2. v <= w /\ w <= v
  BY DEF IsNext
<1> QED
  BY <1>1, <1>2

\* A command moves only itself, and takes the lock from nobody.
LEMMA OthersStay ==
    ASSUME TypeOK, NEW c \in Commands, Command(c), NEW d \in Commands \ {c}
    PROVE  /\ pc'[d] = pc[d] /\ todo'[d] = todo[d] /\ left'[d] = left[d] /\ reply'[d] = reply[d]
           /\ lock' = d <=> lock = d
<1> USE DEF TypeOK, Go, End, Drop, Take, locals
<1>1. CASE Check(c)
  <2>1. /\ todo' = todo /\ left' = left
        /\ \E to \in Steps : pc' = [pc EXCEPT ![c] = to]
    BY <1>1 DEF Check, Steps
  <2>2. reply' = reply \/ \E answer \in Replies : reply' = [reply EXCEPT ![c] = answer]
    BY <1>1 DEF Check, Replies
  <2>3. lock' = lock \/ (lock = c /\ lock' = NoOne)
    BY <1>1 DEF Check
  <2>4. pc'[d] = pc[d] /\ reply'[d] = reply[d]
    BY <2>1, <2>2
  <2> QED
    BY <2>1, <2>3, <2>4, LockAssumption
<1>7. CASE Apply(c)
  BY <1>7 DEF Apply
<1>2. CASE Ensure(c) \/ Run(c) \/ RunFails(c)
  BY <1>2 DEF Ensure, Run, RunFails
<1>3. CASE Commit(c)
  BY <1>3 DEF Commit
<1>4. CASE Reset(c) \/ Stamp(c) \/ CommitStamp(c)
  BY <1>4 DEF Reset, Stamp, CommitStamp
<1>5. CASE DropTable(c) \/ Create(c)
  <2>1. \E to \in Steps : pc' = pc \/ pc' = [pc EXCEPT ![c] = to]
    BY <1>5, Zenon DEF DropTable, Create, Steps
  <2>2. \E objects : left' = [left EXCEPT ![c] = objects]
    BY <1>5, Zenon DEF DropTable, Create
  <2> QED
    BY <1>5, <2>1, <2>2 DEF DropTable, Create
<1>6. CASE Fails(c) \/ CreateFails(c) \/ Crash(c)
  BY <1>6 DEF Fails, CreateFails, Crash
<1> QED
  BY <1>1, <1>2, <1>3, <1>4, <1>5, <1>6, <1>7 DEF Command, Work

\* An open transaction has the lock, and what is to run is there.
LEMMA LockedInductive == Spec => [](\A c \in Commands : LockedAt(c))
<1> DEFINE Locked == \A c \in Commands : LockedAt(c)
<1>1. Init => Locked
  BY DEF Init, LockedAt
<1>2. TypeOK /\ Locked /\ [Next]_vars => Locked'
  <2> SUFFICES ASSUME TypeOK, Locked, [Next]_vars PROVE Locked'
    OBVIOUS
  <2>1. CASE UNCHANGED vars
    BY <2>1 DEF vars, locals, LockedAt
  <2>2. CASE OtherWriter
    BY <2>2 DEF OtherWriter, ElsewhereTakes, ElsewhereDrops, locals, LockedAt, Take, Drop
  <2>3. ASSUME NEW c \in Commands, Command(c), NEW d \in Commands \ {c} PROVE LockedAt(d)'
    BY <2>3, OthersStay DEF LockedAt
  <2>4. ASSUME NEW c \in Commands, Command(c) PROVE LockedAt(c)'
    <3>0. LockedAt(c)
      OBVIOUS
    <3> HIDE DEF Locked
    <3> USE <3>0 DEF LockedAt, Take, Drop, TypeOK, Go, End, locals, Kinds
    <3>1. CASE Check(c)
      BY <3>1 DEF Check
    <3>2. CASE Apply(c)
      <4>1. pc[c] = "applying" /\ lock # c /\ lock' # c
        BY <3>2, LockAssumption DEF Apply
      <4>2. CASE pc'[c] = "done"
        BY <4>1, <4>2
      <4>3. CASE pc'[c] = "ensuring" /\ todo'[c] = Pending(c) /\ Pending(c) # {}
        BY <4>1, <4>3
      <4>4. \/ pc'[c] = "done"
            \/ pc'[c] = "ensuring" /\ ~Ahead(c) /\ Pending(c) # {}
               /\ todo' = [todo EXCEPT ![c] = Pending(c)]
        <5> HIDE <3>0 DEF LockedAt, Drop, Kinds, locals, TypeOK
        <5>1. pc \in [Commands -> Steps]
          BY DEF TypeOK
        <5> QED
          BY <3>2, <5>1 DEF Apply
      <4> QED
        BY <4>2, <4>3, <4>4
    <3>3. CASE Ensure(c)
      BY <3>3 DEF Ensure
    <3>4. CASE Run(c) \/ RunFails(c)
      <4>1. CASE Run(c)
        BY <4>1 DEF Run
      <4>2. CASE RunFails(c)
        BY <4>2 DEF RunFails
      <4> QED
        BY <3>4, <4>1, <4>2
    <3>5. CASE Commit(c)
      <4>1. lock = c /\ Kind[c] = "migrate"
        BY <3>5 DEF Commit
      <4>2. PICK v \in todo[c] :
              /\ todo' = [todo EXCEPT ![c] = @ \ {v}]
              /\ \/ todo[c] # {v} /\ Go(c, "committing", "running") /\ Drop(c)
                 \/ Go(c, "committing", "done") /\ Drop(c)
        BY <3>5 DEF Commit
      <4>3. todo'[c] = todo[c] \ {v}
        BY <4>2
      <4>4. todo[c] # {v} => todo[c] \ {v} # {}
        BY <4>2, SomeLeft
      <4> QED
        BY <4>1, <4>2, <4>3, <4>4
    <3>6. CASE Reset(c)
      BY <3>6 DEF Reset
    <3>7. CASE DropTable(c)
      <4>1. pc[c] = "dropping" /\ (pc' = pc \/ pc' = [pc EXCEPT ![c] = "creating"])
        BY <3>7, Zenon DEF DropTable
      <4>2. pc'[c] \in {"dropping", "creating"}
        BY <4>1
      <4>3. lock' = lock
        BY <3>7 DEF DropTable
      <4> QED
        BY <4>1, <4>2, <4>3
    <3>8. CASE Create(c)
      <4>1. pc[c] = "creating" /\ (pc' = pc \/ pc' = [pc EXCEPT ![c] = "ensuring"])
        BY <3>8, Zenon DEF Create
      <4>2. Kind[c] = "init-db"
        BY <4>1
      <4>3. pc'[c] \in {"creating", "ensuring"}
        BY <4>1
      <4>4. lock' = lock
        BY <3>8 DEF Create
      <4> QED
        BY <4>1, <4>2, <4>3, <4>4
    <3>9. CASE Stamp(c) \/ CommitStamp(c)
      <4>1. CASE Stamp(c)
        BY <4>1 DEF Stamp
      <4>2. CASE CommitStamp(c)
        BY <4>2 DEF CommitStamp
      <4> QED
        BY <3>9, <4>1, <4>2
    <3>10. CASE Fails(c) \/ CreateFails(c) \/ Crash(c)
      <4>1. CASE Fails(c) \/ CreateFails(c)
        BY <4>1 DEF Fails, CreateFails, InFlight
      <4>2. CASE Crash(c)
        BY <4>2 DEF Crash, InFlight
      <4> QED
        BY <3>10, <4>1, <4>2
    <3> QED
      BY <2>4, <3>1, <3>2, <3>3, <3>4, <3>5, <3>6, <3>7, <3>8, <3>9, <3>10 DEF Command, Work
  <2> QED
    BY <2>1, <2>2, <2>3, <2>4 DEF Next
<1> QED
  BY <1>1, <1>2, TypeCorrect, PTL DEF Spec

-----------------------------------------------------------------------------

\* What is recorded stays recorded and only the holder of the lock adds to it; the
\* schema loses nothing but to an init-db, and that not while someone has the lock.
LEMMA DatabaseGrows ==
    ASSUME TypeOK, \A d \in Commands : LockedAt(d), NEW c \in Commands, Command(c)
    PROVE  /\ recorded \subseteq recorded'
           /\ recorded' # recorded => lock = c
           /\ schema \subseteq schema' \/ (pc[c] = "dropping" /\ lock = NoOne)
<1>0. LockedAt(c)
  OBVIOUS
<1>1. CASE Check(c) \/ Apply(c) \/ Ensure(c) \/ Run(c) \/ RunFails(c)
  BY <1>1 DEF Check, Apply, Ensure, Run, RunFails, database
<1>2. CASE Commit(c)
  BY <1>0, <1>2 DEF Commit, LockedAt, Go, End
<1>3. CASE Reset(c) \/ Create(c) \/ Stamp(c)
  BY <1>3 DEF Reset, Create, Stamp, database
<1>4. CASE DropTable(c)
  BY <1>4 DEF DropTable
<1>5. CASE CommitStamp(c)
  BY <1>0, <1>5 DEF CommitStamp, LockedAt, Go, End
<1>6. CASE Fails(c) \/ CreateFails(c) \/ Crash(c)
  BY <1>6 DEF Fails, CreateFails, Crash, database
<1> QED
  BY <1>1, <1>2, <1>3, <1>4, <1>5, <1>6 DEF Command, Work

\* Once an init-db was disturbed, that stays written down.
LEMMA DisturbedStays ==
    ASSUME NEW c \in Commands, Command(c), disturbed PROVE disturbed'
<1> USE DEF past, database
<1>1. CASE Check(c) \/ Reset(c)
  BY <1>1 DEF Check, Reset, Begin
<1>2. CASE Apply(c) \/ Ensure(c) \/ Run(c) \/ RunFails(c) \/ Commit(c)
  BY <1>2 DEF Apply, Ensure, Run, RunFails, Commit
<1>3. CASE DropTable(c) \/ Create(c) \/ CreateFails(c) \/ Stamp(c) \/ CommitStamp(c)
  BY <1>3 DEF DropTable, Create, CreateFails, Stamp, CommitStamp
<1>4. CASE Fails(c) \/ Crash(c)
  BY <1>4 DEF Fails, Crash
<1> QED
  BY <1>1, <1>2, <1>3, <1>4 DEF Command, Work

\* An undisturbed init-db works alone and on a database without a history, and builds
\* all of its release before it records it.
LEMMA ResetInductive == Spec => [](disturbed \/ \A c \in Commands : ResetAt(c))
<1> DEFINE Locked == \A c \in Commands : LockedAt(c)
           Alone == disturbed \/ \A c \in Commands : ResetAt(c)
<1>1. Init => Alone
  BY DEF Init, ResetAt, InFlight
<1>2. TypeOK /\ Locked /\ Locked' /\ Alone /\ [Next]_vars => Alone'
  <2> SUFFICES ASSUME TypeOK, Locked, Locked', Alone, [Next]_vars PROVE Alone'
    OBVIOUS
  <2>1. CASE UNCHANGED vars
    BY <2>1 DEF vars, locals, database, past, ResetAt, InFlight
  <2>2. CASE OtherWriter
    BY <2>2 DEF OtherWriter, locals, database, past, ResetAt, InFlight
  <2>3. ASSUME NEW c \in Commands, Command(c), ~disturbed' PROVE \A d \in Commands : ResetAt(d)'
    <3>0. ~disturbed /\ \A d \in Commands : ResetAt(d)
      BY <2>3, DisturbedStays
    <3>1. ASSUME NEW d \in Commands \ {c} PROVE ResetAt(d)'
      <4>1. pc'[d] = pc[d]
        BY <2>3, OthersStay
      <4>2. CASE Kind[d] = "init-db" /\ InFlight(d)
        <5>1. recorded = {} /\ ~InFlight(c) /\ \A e \in Commands \ {d} : ~InFlight(e)
          BY <3>0, <4>2 DEF ResetAt
        <5>2. Check(c) \/ Reset(c)
          BY <2>3, <5>1 DEF Command, Work, Apply, Ensure, Run, RunFails, Commit, DropTable,
             Create, CreateFails, Stamp, CommitStamp, Fails, Crash, InFlight, Go, End
        <5>3. /\ schema' = schema /\ recorded' = recorded
              /\ left'[d] = left[d] /\ \A e \in Commands \ {c} : pc'[e] = pc[e]
          BY <2>3, <5>2, OthersStay DEF Check, Reset
        <5>4. ~InFlight(c)'
          <6>1. ~Begin(c)
            BY <2>3, <4>2, <5>2 DEF Begin, Disturbs, Check, Reset
          <6>2. CASE Check(c)
            <7>1. pc' = [pc EXCEPT ![c] = "done"]
              BY <6>1, <6>2 DEF Check, End, Go
            <7> QED
              BY <7>1 DEF TypeOK, InFlight
          <6>3. ~Reset(c)
            BY <6>1 DEF Reset
          <6> QED
            BY <5>2, <6>2, <6>3
        <5>5. Makes(d)' = Makes(d)
          BY DEF Makes
        <5>6. ResetAt(d)
          BY <3>0
        <5> QED
          BY <4>1, <5>1, <5>3, <5>4, <5>5, <5>6 DEF ResetAt, InFlight
      <4>3. CASE Kind[d] # "init-db" \/ ~InFlight(d)
        <5>1. LockedAt(d)
          OBVIOUS
        <5> QED
          BY <4>1, <4>3, <5>1 DEF ResetAt, LockedAt, InFlight, Kinds
      <4> QED
        BY <4>2, <4>3
    <3>2. ResetAt(c)'
      <4>0. LockedAt(c) /\ LockedAt(c)' /\ ResetAt(c)
        BY <3>0
      <4>1. CASE Kind[c] # "init-db"
        BY <4>0, <4>1 DEF ResetAt, LockedAt, Kinds
      <4>2. CASE Kind[c] = "init-db"
        <5>1. \A d \in Commands \ {c} : pc'[d] = pc[d]
          BY <2>3, OthersStay
        <5>2. pc[c] \notin {"applying", "running", "committing"}
          BY <4>0, <4>2 DEF LockedAt
        <5>9. Makes(c)' = Makes(c)
          BY DEF Makes
        <5> HIDE DEF Locked, Alone
        <5> USE <4>0, <4>2, <5>1, <5>2, <5>9 DEF ResetAt, InFlight, TypeOK
        <5>3. CASE Reset(c)
          <6>1. ~Disturbs(c)
            BY <2>3, <5>3 DEF Reset, Begin
          <6> QED
            BY <5>3, <6>1 DEF Reset, Disturbs, Go
        <5>4. CASE DropTable(c)
          <6>1. \E t \in left[c] :
                  \/ left[c] = {t} /\ left'[c] = Makes(c) /\ pc'[c] = "creating"
                  \/ pc'[c] = "dropping"
            BY <5>4 DEF DropTable
          <6> QED
            BY <5>4, <6>1 DEF DropTable
        <5>5. CASE Create(c)
          <6>1. PICK o \in left[c] :
                  /\ schema' = schema \cup {o}
                  /\ left' = [left EXCEPT ![c] = @ \ {o}]
                  /\ \/ pc' = pc /\ pc[c] = "creating"
                     \/ left[c] = {o} /\ pc' = [pc EXCEPT ![c] = "ensuring"]
            BY <5>5, Zenon DEF Create
          <6>2. Makes(c) \ left[c] \subseteq schema /\ recorded' = recorded
            BY <5>5 DEF Create
          <6>3. Makes(c) \ left'[c] \subseteq schema'
            BY <6>1, <6>2
          <6>4. left[c] = {o} => Makes(c) \subseteq schema'
            BY <6>1, <6>2
          <6> QED
            BY <5>5, <6>1, <6>2, <6>3, <6>4 DEF Create
        <5>6. CASE Ensure(c) \/ Stamp(c)
          BY <5>6 DEF Ensure, Stamp, database, Go
        <5>7. CASE CommitStamp(c) \/ Fails(c) \/ CreateFails(c) \/ Crash(c)
          BY <5>7 DEF CommitStamp, Fails, CreateFails, Crash, End, Go
        <5> QED
          BY <2>3, <5>3, <5>4, <5>5, <5>6, <5>7 DEF Command, Work, Check, Apply, Run, RunFails,
             Commit, Go, End
      <4> QED
        BY <4>1, <4>2
    <3> QED
      BY <3>1, <3>2
  <2> QED
    BY <2>1, <2>2, <2>3 DEF Next
<1> QED
  BY <1>1, <1>2, TypeCorrect, LockedInductive, PTL DEF Spec

-----------------------------------------------------------------------------

\* What a commit of migrate does, given what ApplyAt says of it.
LEMMA CommitsNext ==
    ASSUME TypeOK, NEW c \in Commands, Commit(c), LockedAt(c), ApplyAt(c)
    PROVE  \E v \in todo[c] :
              /\ v \in Knows[c] /\ v \notin recorded /\ Knows[c] \ todo[c] \subseteq recorded
              /\ \A w \in Knows[c] : w < v => w \in recorded
              /\ schema' = schema \cup Adds[v] /\ recorded' = recorded \cup {v}
              /\ ran' = [ran EXCEPT ![v] = @ \cup {c}]
              /\ todo' = [todo EXCEPT ![c] = @ \ {v}]
              /\ reply'[c] # reply[c] => todo[c] = {v}
<1>1. PICK v \in todo[c] :
        /\ IsNext(c, v)
        /\ schema' = schema \cup Adds[v] /\ recorded' = recorded \cup {v}
        /\ ran' = [ran EXCEPT ![v] = @ \cup {c}]
        /\ todo' = [todo EXCEPT ![c] = @ \ {v}]
        /\ reply' = reply \/ todo[c] = {v}
  BY DEF Commit, End
<1>2. pc[c] = "committing"
  BY DEF Commit, Go, End
<1>3. PICK u \in todo[c] : IsNext(c, u) /\ Runs(u)
  BY <1>2 DEF ApplyAt
<1>4. v \notin recorded
  BY <1>1, <1>3, NextIsOne DEF Runs
<1>5. Knows[c] \ todo[c] \subseteq recorded
  BY <1>2 DEF ApplyAt, LockedAt
<1>6. \A w \in Knows[c] : w < v => w \in recorded
  <2> SUFFICES ASSUME NEW w \in Knows[c], w < v PROVE w \notin todo[c]
    BY <1>5
  <2>1. w \in Nat /\ v \in Nat
    BY VersionAssumption DEF TypeOK
  <2> QED
    BY <1>1, <2>1 DEF IsNext
<1>7. v \in Knows[c]
  BY DEF TypeOK
<1> QED
  BY <1>1, <1>4, <1>5, <1>6, <1>7

\* What apply does not have left is recorded, and what it is about to commit still
\* fits the database when it commits.
LEMMA ApplyInductive == Spec => [](\A c \in Commands : ApplyAt(c))
<1> DEFINE Locked == \A c \in Commands : LockedAt(c)
           Applies == \A c \in Commands : ApplyAt(c)
<1>1. Init => Applies
  BY DEF Init, ApplyAt
<1>2. TypeOK /\ Locked /\ Locked' /\ Applies /\ [Next]_vars => Applies'
  <2> SUFFICES ASSUME TypeOK, Locked, Locked', Applies, [Next]_vars PROVE Applies'
    OBVIOUS
  <2>1. CASE UNCHANGED vars
    BY <2>1 DEF vars, locals, database, ApplyAt, IsNext, Runs
  <2>2. CASE OtherWriter
    BY <2>2 DEF OtherWriter, locals, database, ApplyAt, IsNext, Runs
  <2>3. ASSUME NEW c \in Commands, Command(c), NEW d \in Commands \ {c} PROVE ApplyAt(d)'
    <3>1. pc'[d] = pc[d] /\ todo'[d] = todo[d] /\ recorded \subseteq recorded'
      BY <2>3, OthersStay, DatabaseGrows
    <3>2. ASSUME pc[d] = "committing"
          PROVE  \E v \in todo'[d] : IsNext(d, v)' /\ Runs(v)'
      <4>1. lock = d
        <5>1. LockedAt(d)
          OBVIOUS
        <5> QED
          BY <3>2, <5>1 DEF LockedAt
      <4>2. recorded' = recorded /\ schema \subseteq schema'
        BY <2>3, <4>1, DatabaseGrows
      <4>3. PICK v \in todo[d] : IsNext(d, v) /\ Runs(v)
        BY <3>2 DEF ApplyAt
      <4> QED
        BY <3>1, <4>2, <4>3 DEF IsNext, Runs
    <3>3. ApplyAt(d)
      OBVIOUS
    <3> QED
      BY <3>1, <3>2, <3>3 DEF ApplyAt
  <2>4. ASSUME NEW c \in Commands, Command(c) PROVE ApplyAt(c)'
    <3>0. LockedAt(c) /\ LockedAt(c)' /\ ApplyAt(c)
      OBVIOUS
    <3> HIDE DEF Locked, Applies
    <3> USE DEF TypeOK, Go, End
    <3>1. CASE Kind[c] # "migrate"
      BY <3>0, <3>1 DEF ApplyAt, LockedAt
    <3>2. CASE Kind[c] = "migrate"
      <4> USE <3>0, <3>2
      <4>1. CASE Check(c) \/ Fails(c) \/ Crash(c) \/ RunFails(c)
        BY <4>1 DEF Check, Fails, Crash, RunFails, ApplyAt
      <4>2. CASE Apply(c)
        BY <4>2 DEF Apply, Pending, ApplyAt, database
      <4>3. CASE Ensure(c)
        BY <4>3 DEF Ensure, ApplyAt, locals
      <4>4. CASE Run(c)
        BY <4>4 DEF Run, ApplyAt, locals, database, IsNext, Runs
      <4>5. CASE Commit(c)
        <5>1. pc'[c] \in {"running", "done"}
          BY <4>5 DEF Commit
        <5>2. Knows[c] \ todo'[c] \subseteq recorded'
          BY <4>5, CommitsNext
        <5> QED
          BY <5>1, <5>2 DEF ApplyAt
      <4>6. ~(\/ Reset(c) \/ DropTable(c) \/ Create(c) \/ CreateFails(c)
              \/ Stamp(c) \/ CommitStamp(c))
        BY DEF Reset, DropTable, Create, CreateFails, Stamp, CommitStamp, LockedAt
      <4> QED
        BY <2>4, <4>1, <4>2, <4>3, <4>4, <4>5, <4>6 DEF Command, Work
    <3> QED
      BY <3>1, <3>2
  <2> QED
    BY <2>1, <2>2, <2>3, <2>4 DEF Next
<1> QED
  BY <1>1, <1>2, TypeCorrect, LockedInductive, PTL DEF Spec

-----------------------------------------------------------------------------

\* The three ways a step treats what is recorded.
LEMMA RecordSteps ==
    ASSUME TypeOK, NEW c \in Commands, Command(c)
    PROVE  \/ Commit(c)
           \/ CommitStamp(c)
           \/ DropTable(c) /\ recorded' = recorded /\ ran' = ran
           \/ schema \subseteq schema' /\ recorded' = recorded /\ ran' = ran
  BY DEF Command, Work, Check, Apply, Ensure, Run, RunFails, Reset, DropTable, Create,
     CreateFails, Stamp, Fails, Crash, database

\* Whatever is recorded has run or was built by an init-db, in the order of some
\* release; whoever runs a script records it.
LEMMA RecordInductive == Spec => []RecordInv
<1> DEFINE Locked == \A c \in Commands : LockedAt(c)
           Alone == disturbed \/ \A c \in Commands : ResetAt(c)
           Applies == \A c \in Commands : ApplyAt(c)
<1>1. Init => RecordInv
  BY DEF Init, RecordInv, RecordedHasRun, RecordedInOrder
<1>2. TypeOK /\ Locked /\ Alone /\ Applies /\ RecordInv /\ [Next]_vars => RecordInv'
  <2> SUFFICES ASSUME TypeOK, Locked, Alone, Applies, RecordInv, [Next]_vars PROVE RecordInv'
    OBVIOUS
  <2>1. CASE UNCHANGED vars
    BY <2>1 DEF vars, database, past, RecordInv, RecordedHasRun, RecordedInOrder
  <2>2. CASE OtherWriter
    BY <2>2 DEF OtherWriter, database, past, RecordInv, RecordedHasRun, RecordedInOrder
  <2>3. ASSUME NEW c \in Commands, Command(c) PROVE RecordInv'
    <3>0. LockedAt(c) /\ (disturbed \/ ResetAt(c)) /\ ApplyAt(c) /\ (disturbed => disturbed')
      BY <2>3, DisturbedStays
    <3> HIDE DEF Locked, Alone, Applies
    <3>1. CASE Commit(c)
      <4>1. PICK v \in Knows[c] :
              /\ \A w \in Knows[c] : w < v => w \in recorded
              /\ schema' = schema \cup Adds[v] /\ recorded' = recorded \cup {v}
              /\ ran' = [ran EXCEPT ![v] = @ \cup {c}]
        BY <3>0, <3>1, CommitsNext
      <4>2. RecordedHasRun'
        BY <3>0, <4>1 DEF RecordInv, RecordedHasRun
      <4>3. RecordedInOrder'
        <5> SUFFICES ASSUME NEW w \in recorded'
                     PROVE  \E d \in Commands :
                               w \in Knows[d] /\ \A u \in Knows[d] : u < w => u \in recorded'
          BY DEF RecordedInOrder
        <5>1. CASE w \in recorded
          BY <4>1, <5>1 DEF RecordInv, RecordedInOrder
        <5>2. CASE w = v
          BY <4>1, <5>2
        <5> QED
          BY <4>1, <5>1, <5>2
      <4>4. \A w \in Versions : ran'[w] # {} => w \in recorded'
        BY <4>1 DEF TypeOK, RecordInv
      <4> QED
        BY <4>2, <4>3, <4>4 DEF RecordInv
    <3>2. CASE CommitStamp(c)
      <4>1. Kind[c] = "init-db" /\ pc[c] = "stamped"
        BY <3>0, <3>2 DEF CommitStamp, End, Go, LockedAt, Kinds
      <4>2. recorded' = recorded \cup Knows[c] /\ schema' = schema /\ ran' = ran
        BY <3>2 DEF CommitStamp
      <4>3. disturbed \/ \A v \in Knows[c] : Adds[v] \subseteq schema
        BY <3>0, <4>1 DEF ResetAt, Makes
      <4>4. RecordedHasRun'
        BY <3>0, <4>2, <4>3 DEF RecordInv, RecordedHasRun
      <4>5. RecordedInOrder'
        BY <4>2 DEF RecordInv, RecordedInOrder
      <4> QED
        BY <4>2, <4>4, <4>5 DEF RecordInv
    <3>3. CASE DropTable(c) /\ recorded' = recorded /\ ran' = ran
      <4>1. disturbed \/ recorded = {}
        BY <3>0, <3>3 DEF DropTable, LockedAt, ResetAt, InFlight, Kinds
      <4> QED
        BY <3>0, <3>3, <4>1 DEF RecordInv, RecordedHasRun, RecordedInOrder
    <3>4. CASE schema \subseteq schema' /\ recorded' = recorded /\ ran' = ran
      BY <3>0, <3>4 DEF RecordInv, RecordedHasRun, RecordedInOrder
    <3> QED
      BY <2>3, <3>1, <3>2, <3>3, <3>4, RecordSteps
  <2> QED
    BY <2>1, <2>2, <2>3 DEF Next
<1> QED
  BY <1>1, <1>2, TypeCorrect, LockedInductive, ResetInductive, ApplyInductive, PTL DEF Spec

\* What schema_version claims exists, whatever fails or dies and however many migrate
\* commands race, unless an init-db was started on recorded migrations or beside
\* another command.
THEOREM RecordedExists == Spec => []RecordedHasRun
<1>1. RecordInv => RecordedHasRun
  BY DEF RecordInv
<1> QED
  BY <1>1, RecordInductive, PTL

\* No two commands ever commit the script of one migration: the primary key of
\* schema_version refuses the one that worked from an old list.
THEOREM NeverTwice == Spec => []AppliedOnce
<1> DEFINE Locked == \A c \in Commands : LockedAt(c)
           Applies == \A c \in Commands : ApplyAt(c)
<1>1. Init => AppliedOnce
  BY DEF Init, AppliedOnce
<1>2. TypeOK /\ Locked /\ Applies /\ RecordInv /\ AppliedOnce /\ [Next]_vars => AppliedOnce'
  <2> SUFFICES ASSUME TypeOK, Locked, Applies, RecordInv, AppliedOnce, [Next]_vars
               PROVE  AppliedOnce'
    OBVIOUS
  <2>1. CASE UNCHANGED vars
    BY <2>1 DEF vars, database, AppliedOnce
  <2>2. CASE OtherWriter
    BY <2>2 DEF OtherWriter, database, AppliedOnce
  <2>3. ASSUME NEW c \in Commands, Command(c) PROVE AppliedOnce'
    <3>1. CASE Commit(c)
      <4>1. PICK v \in Knows[c] : v \notin recorded /\ ran' = [ran EXCEPT ![v] = @ \cup {c}]
        BY <3>1, CommitsNext
      <4>2. ran[v] = {}
        BY <4>1 DEF RecordInv
      <4> QED
        BY <4>1, <4>2 DEF TypeOK, AppliedOnce
    <3>2. CASE ran' = ran
      BY <3>2 DEF AppliedOnce
    <3> QED
      BY <2>3, <3>1, <3>2, RecordSteps DEF CommitStamp
  <2> QED
    BY <2>1, <2>2, <2>3 DEF Next
<1> QED
  BY <1>1, <1>2, TypeCorrect, LockedInductive, ApplyInductive, RecordInductive, PTL DEF Spec

\* A release that has something to apply knows of a migration as new as any on record.
LEMMA OldestFirst ==
    ASSUME RecordInv, NEW c \in Commands, NEW v \in Knows[c], v \notin recorded
    PROVE  \A w \in recorded : \E k \in Knows[c] : w <= k
<1> TAKE w \in recorded
<1>1. PICK d \in Commands : w \in Knows[d] /\ \A u \in Knows[d] : u < w => u \in recorded
  BY DEF RecordInv, RecordedInOrder
<1>2. w \in Nat /\ v \in Nat
  BY <1>1, VersionAssumption
<1>3. CASE Knows[d] \subseteq Knows[c]
  BY <1>1, <1>2, <1>3
<1>4. CASE Knows[c] \subseteq Knows[d]
  BY <1>1, <1>2, <1>4
<1> QED
  BY <1>3, <1>4, ReleaseAssumption

\* A database that a newer release has migrated is left alone by an older one.
THEOREM NewerLeftAlone == Spec => NewerDatabaseUntouched
<1> DEFINE Locked == \A c \in Commands : LockedAt(c)
           Applies == \A c \in Commands : ApplyAt(c)
<1>1. TypeOK /\ Locked /\ Applies /\ RecordInv /\ [Next]_vars => [OlderReleaseStops]_vars
  <2> SUFFICES ASSUME TypeOK, Locked, Applies, RecordInv, Next PROVE OlderReleaseStops
    OBVIOUS
  <2>1. CASE OtherWriter
    BY <2>1 DEF OtherWriter, database, OlderReleaseStops
  <2>2. ASSUME NEW c \in Commands, Command(c) PROVE OlderReleaseStops
    <3>1. CASE Commit(c)
      <4>1. PICK v \in Knows[c] : v \notin recorded /\ ran' = [ran EXCEPT ![v] = @ \cup {c}]
        BY <3>1, CommitsNext
      <4>2. \A w \in recorded : \E k \in Knows[c] : w <= k
        BY <4>1, OldestFirst
      <4>3. \A d \in Commands, u \in Versions : d \in ran'[u] \ ran[u] => d = c
        BY <4>1 DEF TypeOK
      <4> QED
        BY <4>2, <4>3 DEF OlderReleaseStops
    <3>2. CASE ran' = ran
      BY <3>2 DEF OlderReleaseStops
    <3> QED
      BY <2>2, <3>1, <3>2, RecordSteps DEF CommitStamp
  <2> QED
    BY <2>1, <2>2 DEF Next
<1> QED
  BY <1>1, TypeCorrect, LockedInductive, ApplyInductive, RecordInductive, PTL
     DEF Spec, NewerDatabaseUntouched

-----------------------------------------------------------------------------

\* A command that reports success leaves every migration of its release recorded for
\* good, and everything its release needs in place unless an init-db was disturbed.
THEOREM SuccessIsComplete == Spec => []SuccessMeansComplete
<1> DEFINE Locked == \A c \in Commands : LockedAt(c)
           Applies == \A c \in Commands : ApplyAt(c)
           Good == {"applied", "up to date", "initialized"}
           Complete == \A c \in Commands : reply[c] \in Good => Knows[c] \subseteq recorded
<1>1. Init => Complete
  BY DEF Init
<1>2. TypeOK /\ Locked /\ Applies /\ Complete /\ [Next]_vars => Complete'
  <2> SUFFICES ASSUME TypeOK, Locked, Applies, Complete, [Next]_vars PROVE Complete'
    OBVIOUS
  <2>1. CASE UNCHANGED vars
    BY <2>1 DEF vars, database
  <2>2. CASE OtherWriter
    BY <2>2 DEF OtherWriter, database
  <2>3. ASSUME NEW c \in Commands, Command(c) PROVE Complete'
    <3>1. recorded \subseteq recorded'
      BY <2>3, DatabaseGrows
    <3>2. \A d \in Commands \ {c} : reply'[d] = reply[d]
      BY <2>3, OthersStay
    <3>3. ASSUME reply'[c] \in Good, reply'[c] # reply[c] PROVE Knows[c] \subseteq recorded'
      <4> USE DEF TypeOK, End, Go
      <4>1. CASE Check(c)
        BY <3>1, <3>3, <4>1 DEF Check, Pending
      <4>2. CASE Apply(c)
        BY <3>1, <3>3, <4>2 DEF Apply, Pending
      <4>3. CASE Commit(c)
        <5>1. LockedAt(c) /\ ApplyAt(c)
          OBVIOUS
        <5>2. PICK v \in todo[c] :
                /\ Knows[c] \ todo[c] \subseteq recorded /\ recorded' = recorded \cup {v}
                /\ todo[c] = {v}
          BY <3>3, <4>3, <5>1, CommitsNext
        <5> QED
          BY <5>2
      <4>4. CASE CommitStamp(c)
        BY <4>4 DEF CommitStamp
      <4>5. CASE Fails(c) \/ RunFails(c) \/ CreateFails(c)
        BY <3>3, <4>5 DEF Fails, RunFails, CreateFails
      <4>6. ~(Ensure(c) \/ Run(c) \/ Reset(c) \/ DropTable(c) \/ Create(c) \/ Stamp(c) \/ Crash(c))
        BY <3>3 DEF Ensure, Run, Reset, DropTable, Create, Stamp, Crash
      <4> QED
        BY <2>3, <4>1, <4>2, <4>3, <4>4, <4>5, <4>6 DEF Command, Work
    <3>4. CASE reply'[c] = reply[c]
      BY <3>1, <3>2, <3>4
    <3> QED
      BY <3>1, <3>2, <3>3, <3>4
  <2> QED
    BY <2>1, <2>2, <2>3 DEF Next
<1>3. Complete /\ RecordedHasRun => SuccessMeansComplete
  <2> SUFFICES ASSUME Complete, RecordedHasRun, NEW c \in Commands, reply[c] \in Good
               PROVE  Knows[c] \subseteq recorded /\ (disturbed \/ Makes(c) \subseteq schema)
    BY DEF SuccessMeansComplete
  <2>1. Knows[c] \subseteq recorded
    OBVIOUS
  <2>2. disturbed \/ \A v \in Knows[c] : Adds[v] \subseteq schema
    BY <2>1 DEF RecordedHasRun
  <2>3. ASSUME NEW o \in Makes(c) PROVE \E v \in Knows[c] : o \in Adds[v]
    BY DEF Makes
  <2> QED
    BY <2>1, <2>2, <2>3
<1> QED
  BY <1>1, <1>2, <1>3, TypeCorrect, LockedInductive, ApplyInductive, RecordedExists, PTL DEF Spec

\* A migration that fails, or whose process dies, leaves nothing behind.
THEOREM NothingHalf == Spec => []NothingHalfApplied
<1> DEFINE Locked == \A c \in Commands : LockedAt(c)
           Applies == \A c \in Commands : ApplyAt(c)
           Untouched == \A c \in Commands : Kind[c] = "init-db" => pc[c] = "new"
           Recorded == UNION {Adds[v] : v \in recorded}
<1>1. Init => NothingHalfApplied
  BY DEF Init, NothingHalfApplied
<1>2. TypeOK /\ Locked /\ Applies /\ NothingHalfApplied /\ [Next]_vars => NothingHalfApplied'
  <2> SUFFICES ASSUME TypeOK, Locked, Applies, NothingHalfApplied, [Next]_vars, Untouched'
               PROVE  schema' \cap Objects \subseteq legacy' \cup Recorded'
    BY DEF NothingHalfApplied
  <2>1. CASE UNCHANGED vars
    BY <2>1 DEF vars, database, past, NothingHalfApplied
  <2>2. CASE OtherWriter
    BY <2>2 DEF OtherWriter, database, past, NothingHalfApplied
  <2>3. ASSUME NEW c \in Commands, Command(c)
        PROVE  schema' \cap Objects \subseteq legacy' \cup Recorded'
    <3>1. LockedAt(c)
      OBVIOUS
    <3>0. Kind[c] # "init-db"
      <4> SUFFICES pc'[c] # "new"
        OBVIOUS
      <4> USE DEF TypeOK, Go, End
      <4>1. CASE DropTable(c)
        <5>1. pc[c] = "dropping" /\ (pc' = pc \/ pc' = [pc EXCEPT ![c] = "creating"])
          BY <4>1, Zenon DEF DropTable
        <5> QED
          BY <5>1
      <4>2. CASE Create(c)
        <5>1. pc[c] = "creating" /\ (pc' = pc \/ pc' = [pc EXCEPT ![c] = "ensuring"])
          BY <4>2, Zenon DEF Create
        <5> QED
          BY <5>1
      <4>3. CASE Check(c) \/ Apply(c)
        <5>1. \E to \in {"done", "applying", "ensuring"} : pc' = [pc EXCEPT ![c] = to]
          BY <4>3 DEF Check, Apply
        <5> QED
          BY <5>1
      <4>4. CASE Ensure(c) \/ Run(c) \/ RunFails(c) \/ Fails(c) \/ CreateFails(c) \/ Crash(c)
        BY <4>4 DEF Ensure, Run, RunFails, Fails, CreateFails, Crash
      <4>5. CASE Commit(c) \/ Reset(c) \/ Stamp(c) \/ CommitStamp(c)
        BY <4>5 DEF Commit, Reset, Stamp, CommitStamp
      <4> QED
        BY <2>3, <4>1, <4>2, <4>3, <4>4, <4>5 DEF Command, Work
    <3>2. ~(\/ Reset(c) \/ DropTable(c) \/ Create(c) \/ CreateFails(c)
            \/ Stamp(c) \/ CommitStamp(c))
      BY <3>0, <3>1 DEF LockedAt, Reset, DropTable, Create, CreateFails, Stamp, CommitStamp, Go, End, Kinds
    <3>3. Untouched
      BY <2>3, <3>0, OthersStay
    <3>4. CASE Commit(c)
      <4>1. PICK v \in Versions : schema' = schema \cup Adds[v] /\ recorded' = recorded \cup {v}
        BY <3>1, <3>4, CommitsNext
      <4>2. legacy' = legacy /\ Recorded' = Recorded \cup Adds[v]
        BY <3>4, <4>1 DEF Commit, past
      <4> QED
        BY <3>3, <4>1, <4>2 DEF NothingHalfApplied
    <3>5. CASE ~Commit(c)
      <4>1. /\ schema' = schema \/ schema' = schema \cup {VersionTable}
            /\ recorded' = recorded /\ legacy' = legacy
        BY <2>3, <3>2, <3>5 DEF Command, Work, Check, Apply, Ensure, Run, RunFails, Fails, Crash,
           database, past
      <4> QED
        BY <3>3, <4>1, SchemaAssumption DEF NothingHalfApplied
    <3> QED
      BY <3>4, <3>5
  <2> QED
    BY <2>1, <2>2, <2>3 DEF Next
<1> QED
  BY <1>1, <1>2, TypeCorrect, LockedInductive, ApplyInductive, PTL DEF Spec
-----------------------------------------------------------------------------
(* Commands implement the change log *)

\* What a step does to the report of its own command: it is given once, at the end.
LEMMA OwnReport ==
    ASSUME TypeOK, ReportInv, NEW c \in Commands, Command(c)
    PROVE  /\ reply[c] = "none"
           /\ \/ reply' = reply
              \/ pc'[c] = "done" /\ \E what \in Replies : reply' = [reply EXCEPT ![c] = what]
<1> USE DEF TypeOK, ReportInv, Go, End, Replies
<1>1. CASE Check(c)
  <2>1. pc[c] = "new"
    BY <1>1 DEF Check
  <2>2. \/ reply' = reply
        \/ pc'[c] = "done" /\ \E what \in Replies : reply' = [reply EXCEPT ![c] = what]
    BY <1>1 DEF Check
  <2> QED
    BY <2>1, <2>2
<1>2. CASE Apply(c)
  <2>1. pc[c] = "applying"
    BY <1>2 DEF Apply
  <2>2. \/ reply' = reply
        \/ pc'[c] = "done" /\ \E what \in Replies : reply' = [reply EXCEPT ![c] = what]
    BY <1>2 DEF Apply
  <2> QED
    BY <2>1, <2>2
<1>3. CASE Ensure(c) \/ Run(c)
  BY <1>3 DEF Ensure, Run
<1>8. CASE RunFails(c)
  BY <1>8 DEF RunFails
<1>4. CASE Commit(c)
  <2>1. pc[c] = "committing"
    BY <1>4 DEF Commit
  <2>2. reply' = reply \/ (pc' = [pc EXCEPT ![c] = "done"] /\ reply' = [reply EXCEPT ![c] = "applied"])
    BY <1>4 DEF Commit
  <2> QED
    BY <2>1, <2>2
<1>5. CASE Reset(c) \/ Stamp(c) \/ CommitStamp(c)
  BY <1>5 DEF Reset, Stamp, CommitStamp
<1>6. CASE DropTable(c) \/ Create(c)
  <2>1. pc[c] \in {"dropping", "creating"} /\ reply' = reply
    BY <1>6, Zenon DEF DropTable, Create
  <2> QED
    BY <2>1
<1>7. CASE Fails(c) \/ CreateFails(c) \/ Crash(c)
  <2>1. pc[c] # "done"
    BY <1>7 DEF Fails, CreateFails, Crash, InFlight
  <2>2. CASE Fails(c) \/ CreateFails(c)
    BY <2>1, <2>2 DEF Fails, CreateFails
  <2>3. CASE Crash(c)
    BY <2>1, <2>3 DEF Crash
  <2> QED
    BY <1>7, <2>2, <2>3
<1> QED
  BY <1>1, <1>2, <1>3, <1>4, <1>5, <1>6, <1>7, <1>8 DEF Command, Work

LEMMA ReportInvariant == Spec => []ReportInv
<1>1. Init => ReportInv
  BY DEF Init, ReportInv
<1>2. TypeOK /\ ReportInv /\ [Next]_vars => ReportInv'
  <2> SUFFICES ASSUME TypeOK, ReportInv, [Next]_vars PROVE ReportInv'
    OBVIOUS
  <2>1. CASE UNCHANGED vars \/ OtherWriter
    BY <2>1 DEF vars, OtherWriter, ReportInv
  <2>2. ASSUME NEW c \in Commands, Command(c) PROVE ReportInv'
    <3>1. reply'[c] # "none" => pc'[c] = "done"
      BY <2>2, OwnReport
    <3>2. \A d \in Commands \ {c} : reply'[d] # "none" => pc'[d] = "done"
      BY <2>2, OthersStay DEF ReportInv
    <3> QED
      BY <3>1, <3>2 DEF ReportInv
  <2> QED
    BY <2>1, <2>2 DEF Next
<1> QED
  BY <1>1, <1>2, TypeCorrect, PTL DEF Spec

\* Steps that record nothing tell the operator what is so, or nothing.
LEMMA ReportIsTrue ==
    ASSUME TypeOK, ReportInv, NEW c \in Commands, Command(c), ~Commit(c), ~CommitStamp(c),
           reply' # reply
    PROVE  Store!Report(c)
<1>0. reply[c] = "none" /\ UNCHANGED <<recorded, ran>>
  BY OwnReport, RecordSteps
<1> USE DEF Store!Report, Store!Tell, Store!Newer, End
<1>1. CASE Check(c)
  <2>1. \/ Ahead(c) /\ End(c, "new", "refused")
        \/ End(c, "new", "failed")
        \/ ~Ahead(c) /\ Pending(c) = {} /\ End(c, "new", "up to date")
        \/ ~Ahead(c) /\ Pending(c) # {} /\ End(c, "new", "listed")
    BY <1>1 DEF Check
  <2> QED
    BY <1>0, <2>1 DEF Ahead, Pending
<1>2. CASE Apply(c)
  <2>1. \/ Ahead(c) /\ End(c, "applying", "refused")
        \/ ~Ahead(c) /\ Pending(c) = {} /\ End(c, "applying", "applied")
    BY <1>2 DEF Apply
  <2> QED
    BY <1>0, <2>1 DEF Ahead, Pending
<1>3. CASE RunFails(c) \/ Fails(c) \/ CreateFails(c)
  BY <1>0, <1>3 DEF RunFails, Fails, CreateFails
<1>4. ~(Ensure(c) \/ Run(c) \/ Reset(c) \/ DropTable(c) \/ Create(c) \/ Stamp(c) \/ Crash(c))
  BY DEF Ensure, Run, Reset, DropTable, Create, Stamp, Crash
<1> QED
  BY <1>1, <1>2, <1>3, <1>4 DEF Command, Work

\* Every interleaving of commands of any releases, with crashes and failures at every step,
\* is a behaviour of the log: each commit is one of its steps, and so is each report.
THEOREM CommandsImplementLog == Spec => ImplementsChangeLog
<1> DEFINE Locked == \A c \in Commands : LockedAt(c)
           Applies == \A c \in Commands : ApplyAt(c)
<1>1. Init => Store!Init
  BY DEF Init, Store!Init
<1>2. /\ TypeOK /\ Locked /\ Applies /\ RecordInv /\ ReportInv
      /\ [Next]_vars
      => [Store!Next]_(Store!vars)
  <2> SUFFICES ASSUME TypeOK, Locked, Applies, RecordInv, ReportInv, [Next]_vars
               PROVE  [Store!Next]_(Store!vars)
    OBVIOUS
  <2>1. CASE UNCHANGED vars \/ OtherWriter
    BY <2>1 DEF vars, OtherWriter, database, Store!vars
  <2>2. ASSUME NEW c \in Commands, Command(c) PROVE [Store!Next]_(Store!vars)
    <3>0. LockedAt(c) /\ ApplyAt(c)
      OBVIOUS
    <3> HIDE DEF Locked, Applies
    <3>1. CASE Commit(c)
      <4>1. PICK v \in todo[c] :
              /\ v \in Knows[c] /\ v \notin recorded /\ Knows[c] \ todo[c] \subseteq recorded
              /\ \A w \in Knows[c] : w < v => w \in recorded
              /\ recorded' = recorded \cup {v}
              /\ ran' = [ran EXCEPT ![v] = @ \cup {c}]
              /\ reply'[c] # reply[c] => todo[c] = {v}
        BY <3>0, <3>1, CommitsNext
      <4>2. v \in Versions
        BY <4>1
      <4>3. ran' = [ran EXCEPT ![v] = {c}]
        BY <4>1, <4>2 DEF RecordInv
      <4>4. ~Store!Newer(c)
        <5>1. recorded \subseteq Nat /\ Knows[c] \subseteq Nat
          BY VersionAssumption DEF TypeOK
        <5> QED
          BY <4>1, <5>1, OldestFirst DEF Store!Newer
      <4>5. UNCHANGED reply \/ (Knows[c] \subseteq recorded' /\ Store!Tell(c, "applied"))
        <5>1. UNCHANGED reply \/ reply' = [reply EXCEPT ![c] = "applied"]
          BY <3>1 DEF Commit, End
        <5>2. reply[c] = "none"
          BY <2>2, OwnReport
        <5>3. CASE reply' = [reply EXCEPT ![c] = "applied"]
          <6>1. reply'[c] = "applied"
            BY <5>3 DEF TypeOK
          <6>2. Knows[c] \subseteq recorded'
            BY <4>1, <5>2, <6>1
          <6> QED
            BY <5>2, <5>3, <6>2 DEF Store!Tell
        <5> QED
          BY <5>1, <5>3
      <4>6. Store!Change(c, v)
        BY <4>1, <4>3, <4>4, <4>5 DEF Store!Change
      <4> QED
        BY <4>2, <4>6 DEF Store!Next
    <3>2. CASE CommitStamp(c)
      <4>1. reply[c] = "none"
        BY <2>2, OwnReport
      <4>2. Store!Start(c)
        BY <3>2, <4>1 DEF CommitStamp, End, Store!Start, Store!Tell
      <4> QED
        BY <4>2 DEF Store!Next
    <3>3. CASE ~Commit(c) /\ ~CommitStamp(c) /\ reply' # reply
      BY <2>2, <3>3, ReportIsTrue DEF Store!Next
    <3>4. CASE ~Commit(c) /\ ~CommitStamp(c) /\ reply' = reply
      BY <2>2, <3>4, RecordSteps DEF Store!vars
    <3> QED
      BY <3>1, <3>2, <3>3, <3>4
  <2> QED
    BY <2>1, <2>2 DEF Next
<1> QED
  BY <1>1, <1>2, TypeCorrect, LockedInductive, ApplyInductive, RecordInductive,
     ReportInvariant, PTL DEF Spec, ImplementsChangeLog, Store!Spec

-----------------------------------------------------------------------------
(* No step is in vain *)

\* A step of a command is progress of that command: apply's list only gets shorter.
LEMMA CommandProgress ==
    ASSUME TypeOK, NEW c \in Commands, Command(c) PROVE Nearer(c)
<1>0. todo[c] \subseteq Knows[c]
  BY DEF TypeOK
<1> USE DEF TypeOK, Go, End, StepsLeft, Nearer, Undone, locals
<1>1. CASE Check(c)
  <2>1. /\ pc[c] = "new" /\ todo' = todo
        /\ pc' = [pc EXCEPT ![c] = "done"] \/ pc' = [pc EXCEPT ![c] = "applying"]
    BY <1>1 DEF Check
  <2> QED
    BY <1>0, <2>1
<1>2. CASE Apply(c)
  <2>1. Pending(c) \subseteq Knows[c]
    BY DEF Pending
  <2>2. /\ pc[c] = "applying"
        /\ \/ pc'[c] = "done" /\ todo' = todo
           \/ pc'[c] = "ensuring" /\ todo'[c] = Pending(c)
    BY <1>2 DEF Apply
  <2> HIDE DEF Pending
  <2> QED
    BY <1>0, <2>1, <2>2
<1>3. CASE Ensure(c) \/ Run(c) \/ RunFails(c)
  BY <1>3 DEF Ensure, Run, RunFails
<1>4. CASE Commit(c)
  <2>1. PICK v \in todo[c] : todo' = [todo EXCEPT ![c] = @ \ {v}]
    BY <1>4 DEF Commit
  <2>2. pc[c] = "committing" /\ pc'[c] \in {"running", "done"}
    BY <1>4 DEF Commit
  <2>3. todo'[c] = todo[c] \ {v}
    BY <2>1
  <2> QED
    BY <2>2, <2>3
<1>5. CASE Reset(c)
  <2>1. pc[c] = "new" /\ pc'[c] = "dropping" /\ todo' = todo
    BY <1>5 DEF Reset
  <2> QED
    BY <1>0, <2>1
<1>6. CASE DropTable(c)
  <2>1. PICK t \in left[c] :
          /\ left' = [left EXCEPT ![c] = IF @ = {t} THEN Makes(c) ELSE @ \ {t}]
          /\ pc' = IF left[c] = {t} THEN [pc EXCEPT ![c] = "creating"] ELSE pc
    BY <1>6 DEF DropTable
  <2>2. pc[c] = "dropping" /\ todo' = todo
    BY <1>6 DEF DropTable
  <2>3. CASE left[c] = {t}
    BY <2>1, <2>2, <2>3
  <2>4. CASE left[c] # {t}
    <3>1. pc' = pc /\ left'[c] = left[c] \ {t}
      BY <2>1, <2>4
    <3> QED
      BY <2>2, <3>1
  <2> QED
    BY <2>3, <2>4
<1>7. CASE Create(c)
  <2>1. PICK o \in left[c] :
          /\ left' = [left EXCEPT ![c] = @ \ {o}]
          /\ pc' = IF left[c] = {o} THEN [pc EXCEPT ![c] = "ensuring"] ELSE pc
    BY <1>7 DEF Create
  <2>2. pc[c] = "creating" /\ todo' = todo /\ left'[c] = left[c] \ {o}
    BY <1>7, <2>1 DEF Create
  <2> QED
    BY <2>1, <2>2
<1>8. CASE Stamp(c) \/ CommitStamp(c)
  BY <1>8 DEF Stamp, CommitStamp
<1>9. CASE Fails(c) \/ CreateFails(c) \/ Crash(c)
  <2>1. pc'[c] \in {"done", "dead"} /\ pc[c] \notin {"new", "done", "dead"} /\ todo' = todo
    BY <1>9 DEF Fails, CreateFails, Crash, InFlight
  <2>2. StepsLeft[pc'[c]] < StepsLeft[pc[c]]
    BY <2>1 DEF Steps
  <2> QED
    BY <1>0, <2>1, <2>2
<1> QED
  BY <1>1, <1>2, <1>3, <1>4, <1>5, <1>6, <1>7, <1>8, <1>9 DEF Command, Work

\* Every step brings the command that takes it nearer its end and sets no other back.
THEOREM NoStepInVain == Spec => EveryStepCounts
<1>1. TypeOK /\ [Next]_vars => [StepsCount]_vars
  <2> SUFFICES ASSUME TypeOK, Next, NEW c \in Commands
               PROVE  /\ Command(c) => Nearer(c)
                      /\ Nearer(c) \/ UNCHANGED <<pc[c], todo[c], left[c]>>
    BY DEF StepsCount
  <2>1. Command(c) => Nearer(c)
    BY CommandProgress
  <2>2. CASE OtherWriter
    BY <2>1, <2>2 DEF OtherWriter, locals
  <2>3. ASSUME NEW d \in Commands \ {c}, Command(d) PROVE UNCHANGED <<pc[c], todo[c], left[c]>>
    BY <2>3, OthersStay
  <2> QED
    BY <2>1, <2>2, <2>3 DEF Next
<1> QED
  BY <1>1, TypeCorrect, PTL DEF Spec, EveryStepCounts
=============================================================================
