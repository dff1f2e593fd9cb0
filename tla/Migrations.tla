----------------------------- MODULE Migrations -----------------------------
(***************************************************************************)
(* flask migrate and flask init-db: migrate_command and init_db            *)
(* (flask_db.py) over the migration runner (migrations_runner.py).         *)
(*                                                                         *)
(* Each command is a process of its own, run by an operator or a           *)
(* deployment, possibly of different releases and at the same time.  They  *)
(* share the database and nothing else; a step of the model is one         *)
(* transaction of it, or the decision to give up.  The schema is the set   *)
(* of tables and indexes that exist.                                       *)
(***************************************************************************)
EXTENDS WriteLock, Naturals

CONSTANTS Commands,      \* runs of migrate, migrate --dry-run and init-db
          Kind,          \* command -> which of the three it is
          Versions,      \* numbers of migrations
          Knows,         \* command -> versions in its release's migrations/
          Objects,       \* tables and indexes
          Adds,          \* version -> objects its script creates
          On,            \* index -> the table it is on
          VersionTable,  \* the table schema_version
          Legacies,      \* schemas a deployment may have before its first migrate
          Faults         \* command -> what may go wrong with it

(***************************************************************************)
(* What may go wrong:                                                      *)
(*   "crash"     the process dies                                          *)
(*   "database"  a statement or a commit is refused                        *)
(*   "script"    a migration file is wrong or cannot be read               *)
(***************************************************************************)
FaultKinds == {"crash", "database", "script"}
Kinds == {"migrate", "dry run", "init-db"}

ASSUME CommandAssumption == Kind \in [Commands -> Kinds] /\ Knows \in [Commands -> SUBSET Versions]
ASSUME VersionAssumption == Versions \subseteq Nat \ {0}
ASSUME SchemaAssumption ==
    /\ Adds \in [Versions -> SUBSET Objects]
    /\ DOMAIN On \subseteq Objects /\ \A i \in DOMAIN On : On[i] \in Objects \ DOMAIN On
    /\ VersionTable \notin Objects
    /\ Legacies \subseteq SUBSET Objects
ASSUME FaultsAssumption == Faults \in [Commands -> SUBSET FaultKinds]
ASSUME LockAssumption ==
    NoOne # Elsewhere /\ NoOne \notin Commands /\ Elsewhere \notin Commands

\* A later release keeps the migrations of an earlier one.
ASSUME ReleaseAssumption ==
    \A c, d \in Commands : Knows[c] \subseteq Knows[d] \/ Knows[d] \subseteq Knows[c]

VARIABLES
    schema,    \* the tables and indexes that exist
    recorded,  \* versions in schema_version
    legacy,    \* the schema before the first command
    ran,       \* version -> commands that committed its script
    todo,      \* command -> what apply has left to do
    left,      \* command -> tables or objects init-db has left to drop or create
    pc,        \* command -> what it does next
    reply,     \* command -> what it tells the operator
    disturbed  \* whether an init-db has met recorded migrations, or another command

past == <<legacy, disturbed>>
database == <<schema, recorded, ran, past>>
locals == <<todo, left>>
vars == <<database, locals, pc, reply, lock>>

Steps == {"new", "applying", "ensuring", "running", "committing",
          "dropping", "creating", "stamping", "stamped", "done", "dead"}
Replies == {"none", "refused", "up to date", "listed", "applied", "initialized", "failed"}

TypeOK ==
    /\ schema \subseteq Objects \cup {VersionTable}
    /\ recorded \subseteq Versions
    /\ legacy \subseteq Objects
    /\ ran \in [Versions -> SUBSET Commands]
    /\ todo \in [Commands -> SUBSET Versions]
    /\ \A c \in Commands : todo[c] \subseteq Knows[c]
    /\ left \in [Commands -> SUBSET Objects]
    /\ pc \in [Commands -> Steps]
    /\ reply \in [Commands -> Replies]
    /\ disturbed \in BOOLEAN
    /\ lock \in Commands \cup {NoOne, Elsewhere}

Init ==
    /\ schema \in Legacies
    /\ legacy = schema
    /\ recorded = {}
    /\ ran = [v \in Versions |-> {}]
    /\ todo = [c \in Commands |-> {}]
    /\ left = [c \in Commands |-> {}]
    /\ pc = [c \in Commands |-> "new"]
    /\ reply = [c \in Commands |-> "none"]
    /\ disturbed = FALSE
    /\ lock = NoOne

----------------------------------------------------------------------------
May(fault, c) == fault \in Faults[c]

\* Moves c from one step to the next.
Go(c, from, to) == pc[c] = from /\ pc' = [pc EXCEPT ![c] = to]

\* Ends c: its connection is closed, which discards what it has not committed.
End(c, from, answer) ==
    /\ Go(c, from, "done")
    /\ reply' = [reply EXCEPT ![c] = answer]
    /\ Drop(c)

InFlight(c) == pc[c] \notin {"new", "done", "dead"}

\* What schema.sql of c's release creates, and which of it are tables.
Makes(c) == UNION {Adds[v] : v \in Knows[c]}
Tables(c) == Makes(c) \ DOMAIN On

----------------------------------------------------------------------------
(* Plausible mistakes in the definitions and steps below.  None of them is *)
(* part of Next: each stands in for the one it is named after, to see that *)
(* a property of this module tells the two apart.                          *)

\* Whatever is above the highest applied version.
PendingAboveHighest(c) == {v \in Knows[c] : \A w \in recorded : v > w}

\* Sorted by file name, which puts 10 before 3.
IsNextByName(c, v) == v \in todo[c] /\ \A w \in todo[c] : v >= w

\* INSERT OR IGNORE into schema_version.
RunsAgain(v) ==
    /\ VersionTable \in schema
    /\ \A i \in Adds[v] \cap DOMAIN On : On[i] \in schema \cup Adds[v]

----------------------------------------------------------------------------
\* max(applied) > highest: the database was written by a newer release.
Ahead(c) == \E w \in recorded : \A v \in Knows[c] : w > v

\* pending: membership, not "greater than the highest".
Pending(c) == Knows[c] \ recorded

\* found.sort(): by number.
IsNext(c, v) == v \in todo[c] /\ \A w \in todo[c] : v <= w

\* The script of v and its version row succeed on the database as it is.
Runs(v) ==
    /\ VersionTable \in schema /\ v \notin recorded
    /\ \A i \in Adds[v] \cap DOMAIN On : On[i] \in schema \cup Adds[v]

\* "run it only on a new deployment" (README.md:59-60).  Nothing stops an init-db
\* elsewhere, or beside another command; that it happened is written down.
Disturbs(c) ==
    IF Kind[c] = "init-db"
    THEN recorded # {} \/ \E d \in Commands \ {c} : InFlight(d)
    ELSE \E d \in Commands : Kind[d] = "init-db" /\ InFlight(d)
Begin(c) == disturbed' = (disturbed \/ Disturbs(c))

----------------------------------------------------------------------------
(* Plausible mistakes in the steps below, as above.                        *)

\* The version row is inserted before executescript, which commits it.
RunRecordsFirst(c) ==
    /\ Go(c, "running", "committing")
    /\ Take(c)
    /\ \E v \in todo[c] : IsNext(c, v) /\ Runs(v) /\ recorded' = recorded \cup {v}
    /\ UNCHANGED <<schema, ran, past, locals, reply>>

\* No BEGIN: every statement of the script commits by itself.
RunAutocommits(c) ==
    /\ Go(c, "running", "committing")
    /\ Take(c)
    /\ \E v \in todo[c] : \E o \in Adds[v] :
          IsNext(c, v) /\ Runs(v) /\ schema' = schema \cup {o}
    /\ UNCHANGED <<recorded, ran, past, locals, reply>>

\* No busy timeout.
RunWaits(c) ==
    /\ \E v \in todo[c] : IsNext(c, v) /\ (May("script", c) \/ ~Runs(v))
    /\ End(c, "running", "failed")
    /\ UNCHANGED <<database, locals>>

\* The list of what is to be done comes from all known releases.
ApplyEverything(c) ==
    /\ Go(c, "applying", "ensuring")
    /\ todo' = [todo EXCEPT ![c] = Versions \ recorded]
    /\ UNCHANGED <<database, left, reply, lock>>

----------------------------------------------------------------------------
(* migrate_command *)

\* pending, in a read of its own: refuse, be done, list or go on.
Check(c) ==
    /\ Kind[c] # "init-db"
    /\ \/ /\ \/ Ahead(c) /\ End(c, "new", "refused")
             \/ May("database", c) /\ End(c, "new", "failed")
             \/ ~Ahead(c) /\ Pending(c) = {} /\ End(c, "new", "up to date")
             \/ ~Ahead(c) /\ Pending(c) # {} /\ Kind[c] = "dry run" /\ End(c, "new", "listed")
          /\ UNCHANGED disturbed
       \/ /\ ~Ahead(c) /\ Pending(c) # {} /\ Kind[c] = "migrate"
          /\ Go(c, "new", "applying")
          /\ Begin(c)
          /\ UNCHANGED <<reply, lock>>
    /\ UNCHANGED <<schema, recorded, ran, legacy, locals>>

\* apply asks again, and works from what it reads now.
Apply(c) ==
    /\ \/ Ahead(c) /\ End(c, "applying", "refused") /\ UNCHANGED todo
       \/ ~Ahead(c) /\ Pending(c) = {} /\ End(c, "applying", "applied") /\ UNCHANGED todo
       \/ /\ ~Ahead(c) /\ Pending(c) # {}
          /\ Go(c, "applying", "ensuring")
          /\ todo' = [todo EXCEPT ![c] = Pending(c)]
          /\ UNCHANGED <<reply, lock>>
    /\ UNCHANGED <<database, left>>

\* _ensure_version_table: only a table that is not there takes the lock.
Ensure(c) ==
    /\ Go(c, "ensuring", IF Kind[c] = "init-db" THEN "stamping" ELSE "running")
    /\ lock = NoOne \/ VersionTable \in schema
    /\ schema' = schema \cup {VersionTable}
    /\ UNCHANGED <<recorded, ran, past, locals, reply, lock>>

\* BEGIN, the script and its version row.
Run(c) ==
    /\ Go(c, "running", "committing")
    /\ Take(c)
    /\ \E v \in todo[c] : IsNext(c, v) /\ Runs(v)
    /\ UNCHANGED <<database, locals, reply>>

\* The version row exists by now, the script is bad, or another writer is in the
\* way: everything is rolled back and what is left is not tried.
RunFails(c) ==
    /\ \/ Busy(c) \/ May("script", c)
       \/ \E v \in todo[c] : IsNext(c, v) /\ ~Runs(v)
    /\ End(c, "running", "failed")
    /\ UNCHANGED <<database, locals>>

\* COMMIT, and on to the next one.
Commit(c) ==
    /\ \E v \in todo[c] :
          /\ IsNext(c, v)
          /\ schema' = schema \cup Adds[v]
          /\ recorded' = recorded \cup {v}
          /\ ran' = [ran EXCEPT ![v] = @ \cup {c}]
          /\ todo' = [todo EXCEPT ![c] = @ \ {v}]
          /\ \/ todo[c] # {v} /\ Go(c, "committing", "running") /\ Drop(c) /\ UNCHANGED reply
             \/ todo[c] = {v} /\ End(c, "committing", "applied")
    /\ UNCHANGED <<past, left>>

----------------------------------------------------------------------------
(* init_db *)

Reset(c) ==
    /\ Kind[c] = "init-db"
    /\ Go(c, "new", "dropping")
    /\ Begin(c)
    /\ left' = [left EXCEPT ![c] = Tables(c)]
    /\ UNCHANGED <<schema, recorded, ran, legacy, todo, reply, lock>>

\* executescript runs schema.sql in autocommit.  A table takes its indexes along, and
\* only one that is there takes the lock; schema_version is not dropped.
DropTable(c) ==
    /\ pc[c] = "dropping"
    /\ \E t \in left[c] :
          /\ lock = NoOne \/ t \notin schema
          /\ schema' = IF t \in schema THEN schema \ ({t} \cup {i \in DOMAIN On : On[i] = t})
                       ELSE schema
          /\ left' = [left EXCEPT ![c] = IF @ = {t} THEN Makes(c) ELSE @ \ {t}]
          /\ pc' = IF left[c] = {t} THEN [pc EXCEPT ![c] = "creating"] ELSE pc
    /\ UNCHANGED <<recorded, ran, past, todo, reply, lock>>

\* The tables come first, then the indexes.  Without IF NOT EXISTS, what another command
\* has created meanwhile is in the way.
IsTurnOf(c, o) == o \in left[c] /\ (o \in DOMAIN On => left[c] \subseteq DOMAIN On)
Creatable(o) == o \notin schema /\ (o \in DOMAIN On => On[o] \in schema)

Create(c) ==
    /\ pc[c] = "creating" /\ lock = NoOne
    /\ \E o \in left[c] :
          /\ IsTurnOf(c, o) /\ Creatable(o)
          /\ schema' = schema \cup {o}
          /\ left' = [left EXCEPT ![c] = @ \ {o}]
          /\ pc' = IF left[c] = {o} THEN [pc EXCEPT ![c] = "ensuring"] ELSE pc
    /\ UNCHANGED <<recorded, ran, past, todo, reply, lock>>

CreateFails(c) ==
    /\ \E o \in left[c] : IsTurnOf(c, o) /\ ~Creatable(o)
    /\ End(c, "creating", "failed")
    /\ UNCHANGED <<database, locals>>

\* stamp_as_current: INSERT OR IGNORE of every version of the release.
Stamp(c) ==
    /\ Go(c, "stamping", "stamped")
    /\ Take(c)
    /\ UNCHANGED <<database, locals, reply>>

CommitStamp(c) ==
    /\ End(c, "stamped", "initialized")
    /\ recorded' = recorded \cup Knows[c]
    /\ UNCHANGED <<schema, ran, past, locals>>

----------------------------------------------------------------------------
\* Another writer outlasts the busy timeout, or the database is sick.  migrate
\* turns the error into a message, init-db into a traceback.
Fails(c) ==
    /\ InFlight(c)
    /\ \/ May("database", c)
       \/ Busy(c) /\ pc[c] \in {"creating", "stamping"}
       \/ Busy(c) /\ pc[c] = "dropping" /\ left[c] \cap schema # {}
       \/ Busy(c) /\ pc[c] = "ensuring" /\ VersionTable \notin schema
    /\ End(c, pc[c], "failed")
    /\ UNCHANGED <<database, locals>>

Crash(c) ==
    /\ May("crash", c) /\ InFlight(c)
    /\ pc' = [pc EXCEPT ![c] = "dead"]
    /\ Drop(c)
    /\ UNCHANGED <<database, locals, reply>>

OtherWriter ==
    /\ ElsewhereTakes \/ ElsewhereDrops
    /\ UNCHANGED <<database, locals, pc, reply>>

Work(c) ==
    \/ Apply(c) \/ Ensure(c) \/ Run(c) \/ RunFails(c) \/ Commit(c)
    \/ DropTable(c) \/ Create(c) \/ CreateFails(c) \/ Stamp(c) \/ CommitStamp(c) \/ Fails(c)

Command(c) == Check(c) \/ Reset(c) \/ Work(c) \/ Crash(c)

Next == OtherWriter \/ \E c \in Commands : Command(c)

\* A command that was started runs on; nothing makes an operator start one, or
\* another writer take or give up the lock.
Spec == Init /\ [][Next]_vars /\ \A c \in Commands : WF_vars(Work(c))

----------------------------------------------------------------------------
(* Properties *)

\* What schema_version claims is there: no failure, crash or race of migrate commands
\* makes a migration "recorded as applied without having run" (migrations_runner.py:
\* 142-145), nor does an init-db that dies half way, as long as it was run for what it is
\* for, by itself and before the first migration.  Otherwise the tables it drops may
\* belong to migrations that are recorded, or get recorded while it goes on.
RecordedHasRun == disturbed \/ \A v \in recorded : Adds[v] \subseteq schema

\* "The version row and the SQL land together, or neither does"
\* (tests/test_migrations.py:68): what no recorded migration made was there before.
NothingHalfApplied ==
    (\A c \in Commands : Kind[c] = "init-db" => pc[c] = "new") =>
        schema \cap Objects \subseteq legacy \cup UNION {Adds[v] : v \in recorded}

\* No script is committed twice, though two commands may have read the same list
\* of pending migrations, and none after an init-db has stamped it.
AppliedOnce ==
    \A v \in Versions : \A c, d \in ran[v] : c = d

\* A command that reports success leaves its whole release recorded, also the
\* migration a later release has slipped in below the highest one (110-112), whatever
\* other commands do; and applied, unless an init-db was disturbed.
SuccessMeansComplete ==
    \A c \in Commands : reply[c] \in {"applied", "up to date", "initialized"} =>
        Knows[c] \subseteq recorded /\ (disturbed \/ Makes(c) \subseteq schema)

\* An older release never applies anything to a database a newer one has migrated
\* (101-108), not even from a list it has read before that happened.
OlderReleaseStops ==
    \A c \in Commands, v \in Versions :
        c \in ran'[v] \ ran[v] => \A w \in recorded : \E k \in Knows[c] : w <= k
NewerDatabaseUntouched == [][OlderReleaseStops]_vars

\* Every migrate that goes on to apply, and every init-db, comes to an end, also
\* while another writer keeps the lock for good.
CommandsEnd == []<>(\A c \in Commands : ~InFlight(c))

----------------------------------------------------------------------------
(* What commands come to *)

Store == INSTANCE ChangeLog WITH log <- recorded, by <- ran, verdict <- reply

\* Each migration is recorded by one command, in the order of its release, and every
\* command tells the operator how things stood when it decided, though it reads the list
\* twice and commits one by one (flask_db.py:68-93, migrations_runner.py:91-168).
ImplementsChangeLog == Store!Spec

----------------------------------------------------------------------------
(* What a command has ahead of it *)

StepsLeft == [new |-> 8, applying |-> 7, dropping |-> 7, creating |-> 6, ensuring |-> 5,
              running |-> 4, committing |-> 3, stamping |-> 2, stamped |-> 1,
              done |-> 0, dead |-> 0]

\* Migrations c may still commit: any of its release until apply has made its list.
Undone(c) == IF pc[c] \in {"new", "applying"} THEN Knows[c] ELSE todo[c]

\* One migration less is to be committed, or c is at a later step, or has one table or
\* index less to drop or to create.
Nearer(c) ==
    /\ Undone(c)' \subseteq Undone(c)
    /\ \/ Undone(c)' # Undone(c)
       \/ StepsLeft[pc'[c]] < StepsLeft[pc[c]]
       \/ pc'[c] = pc[c] /\ left'[c] \subseteq left[c] /\ left'[c] # left[c]

\* Each step of a command brings it nearer its end, and what others do in the meantime
\* puts it back nowhere: the list apply works from is made once and only gets
\* shorter, though other commands migrate the same database (migrations_runner.py:125-168).
StepsCount == \A c \in Commands :
    /\ Command(c) => Nearer(c)
    /\ Nearer(c) \/ UNCHANGED <<pc[c], todo[c], left[c]>>
EveryStepCounts == [][StepsCount]_vars

----------------------------------------------------------------------------
(* Inductive invariants *)

\* Each kind of command has steps of its own, and a transaction is open exactly
\* where it is to be committed, under the lock.
LockedAt(c) ==
    /\ pc[c] \in {"new", "done", "dead"} \cup
          (CASE Kind[c] = "migrate" -> {"applying", "ensuring", "running", "committing"}
             [] Kind[c] = "init-db" -> {"dropping", "creating", "ensuring", "stamping", "stamped"}
             [] OTHER -> {})
    /\ lock = c => pc[c] \in {"committing", "stamped"}
    /\ pc[c] \in {"committing", "stamped"} => lock = c
    /\ Kind[c] = "migrate" /\ pc[c] \in {"ensuring", "running", "committing"} => todo[c] # {}

\* While an undisturbed init-db works nothing is recorded and nobody else is at work.
ResetAt(c) ==
    /\ Kind[c] = "init-db" /\ InFlight(c) =>
          recorded = {} /\ \A d \in Commands \ {c} : ~InFlight(d)
    /\ pc[c] = "creating" => Makes(c) \ left[c] \subseteq schema
    /\ Kind[c] = "init-db" /\ pc[c] \in {"ensuring", "stamping", "stamped"} =>
          Makes(c) \subseteq schema

\* What apply has not left to do is recorded; what it is about to commit is not,
\* and the lock it has keeps it so.
ApplyAt(c) ==
    /\ Kind[c] = "migrate" /\ pc[c] \in {"ensuring", "running", "committing"}
           => Knows[c] \ todo[c] \subseteq recorded
    /\ pc[c] = "committing" => \E v \in todo[c] : IsNext(c, v) /\ Runs(v)

\* A command reports once, at its end.
ReportInv == \A c \in Commands : reply[c] # "none" => pc[c] = "done"

CommandInv == \A c \in Commands : LockedAt(c) /\ (disturbed \/ ResetAt(c)) /\ ApplyAt(c)

\* What is recorded was recorded by a release that had recorded all its earlier
\* migrations first.
RecordedInOrder ==
    \A w \in recorded : \E d \in Commands :
        w \in Knows[d] /\ \A v \in Knows[d] : v < w => v \in recorded

RecordInv ==
    /\ RecordedHasRun
    /\ RecordedInOrder
    /\ \A v \in Versions : ran[v] # {} => v \in recorded
=============================================================================
