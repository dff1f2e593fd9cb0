----------------------------- MODULE MCHistory -----------------------------
(* Small instances of History for TLC. *)
EXTENDS History, TLC

CONSTANTS j1, j2,       \* jobs
          a, b, c,      \* uploads
          p, q          \* prunes

\* c is for j2, the others are for j1.
SplitJob == [u \in Uploads |-> IF u = c THEN j2 ELSE j1]

\* Everything is for one job.
SameJob == [u \in Uploads |-> j1]

\* Uploads of one job are interchangeable.
Interchangeable == Permutations({a, b})
=============================================================================
