----------------------------- MODULE ChangeLog -----------------------------
(***************************************************************************)
(* What migrate and init-db promise: the log of a database grows by one    *)
(* migration at a time, each applied by one command, in the order of its   *)
(* release and never below a newer one; or it is given all of a release    *)
(* at once.  Commands are told how the log stands when they end.           *)
(***************************************************************************)
EXTENDS Naturals

CONSTANTS Commands,  \* runs of migrate, migrate --dry-run and init-db
          Versions,  \* numbers of migrations
          Knows      \* command -> migrations of its release

VARIABLES log,       \* migrations that are applied
          by,        \* migration -> commands that applied it
          verdict    \* command -> what it tells the operator

vars == <<log, by, verdict>>

Init == /\ log = {}
        /\ by = [v \in Versions |-> {}]
        /\ verdict = [c \in Commands |-> "none"]

\* Some migration in the log is newer than all c knows of.
Newer(c) == \E w \in log : \A v \in Knows[c] : w > v

Tell(c, what) == verdict[c] = "none" /\ verdict' = [verdict EXCEPT ![c] = what]

Change(c, v) ==
    /\ v \in Knows[c] \ log /\ ~Newer(c)
    /\ \A w \in Knows[c] : w < v => w \in log
    /\ log' = log \cup {v}
    /\ by' = [by EXCEPT ![v] = {c}]
    /\ UNCHANGED verdict \/ (Knows[c] \subseteq log' /\ Tell(c, "applied"))

Start(c) ==
    /\ log' = log \cup Knows[c]
    /\ Tell(c, "initialized")
    /\ UNCHANGED by

Report(c) ==
    /\ \/ Newer(c) /\ Tell(c, "refused")
       \/ ~Newer(c) /\ Knows[c] \subseteq log /\ (Tell(c, "up to date") \/ Tell(c, "applied"))
       \/ ~Newer(c) /\ ~(Knows[c] \subseteq log) /\ Tell(c, "listed")
       \/ Tell(c, "failed")
    /\ UNCHANGED <<log, by>>

Next == \E c \in Commands : Start(c) \/ Report(c) \/ \E v \in Versions : Change(c, v)

Spec == Init /\ [][Next]_vars
=============================================================================
