----------------------------- MODULE WriteLock -----------------------------
(***************************************************************************)
(* The write lock of the SQLite database every worker process of the       *)
(* service opens (rollback journal, default five second busy timeout).     *)
(* SQLite is not part of the repository: this is the lock as the code in   *)
(* src/ uses it.  The first INSERT or DELETE of a request opens a          *)
(* transaction and takes the lock; commit, rollback, closing the           *)
(* connection or the death of the process gives it up.                     *)
(***************************************************************************)

CONSTANTS NoOne,      \* the lock is free
          Elsewhere   \* a writer the extending module says nothing about

VARIABLE lock         \* who holds the write lock

\* A statement of p opens a write transaction.
Take(p) == lock = NoOne /\ lock' = p

\* The busy timeout of p expires with someone else still writing.
Busy(p) == lock \notin {NoOne, p}

\* p gives the lock up, if p holds it.
Drop(p) == lock' = IF lock = p THEN NoOne ELSE lock

\* The other write paths of the service share the database.
ElsewhereTakes == Take(Elsewhere)
ElsewhereDrops == lock = Elsewhere /\ Drop(Elsewhere)
=============================================================================
