---------------------------- MODULE MCMigrations ----------------------------
(* A small instance of Migrations for TLC. *)
EXTENDS Migrations, TLC

CONSTANTS a, b, c, d, i,  \* commands
          t, u, x         \* tables t and u, an index x

\* Three releases: the second adds an index, the third slips a table in before it.
Releases == a :> {1} @@ b :> {1, 3} @@ c :> {1, 2, 3} @@ d :> {1} @@ i :> {1, 3}

CommandKinds == [k \in Commands |-> CASE k = i -> "init-db"
                                      [] k = d -> "dry run"
                                      [] OTHER -> "migrate"]

Scripts == 1 :> {t} @@ 2 :> {u} @@ 3 :> {x}
IndexOn == x :> t

\* Each command fails in its own way.
CommandFaults == a :> {} @@ b :> {"database", "crash"} @@ c :> {"script"}
                 @@ d :> {} @@ i :> {"crash"}
=============================================================================
