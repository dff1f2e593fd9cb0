-------------------------- MODULE MCResultsImport --------------------------
(* Small instances of ResultsImport for TLC. *)
EXTENDS ResultsImport, TLC

CONSTANTS j1, j2,          \* jobs
          r1,              \* testruns
          a, b, c, d, e,   \* uploads
          x, y             \* reports

\* Both jobs report for one testrun.
OneTestrun == [j \in Jobs |-> r1]

\* a and b bring the same report for j1, c another one; d and e bring the first
\* one for j2.
SplitJob == [u \in Uploads |-> IF u \in {a, b, c} THEN j1 ELSE j2]
SplitBody == [u \in Uploads |-> IF u = c THEN y ELSE x]

\* Requests for j1 crash and meet a failing disk and database, those for j2
\* overlap.
SplitFaults == [j \in Jobs |-> IF j = j1 THEN {"crash", "database", "disk"}
                                         ELSE {"overlap"}]

\* Only the busy timeout.
NoFaults == [j \in Jobs |-> {}]

Interchangeable == Permutations({a, b}) \cup Permutations({d, e})
=============================================================================
