--------------------------- MODULE MCSyncResults ---------------------------
(* Small instances of SyncResults for TLC. *)
EXTENDS SyncResults, TLC

CONSTANTS v1, v2,       \* versions
          a, b, c, d, e \* uploads

\* a and b are for v1, the others for v2.
SplitTarget == [u \in Uploads |-> IF u \in {a, b} THEN v1 ELSE v2]

\* Everything is for one version.
SameTarget == [u \in Uploads |-> v1]

\* v1 suffers everything but overlaps and failing stats; uploads of v2 overlap,
\* meet failing stats and fail to put the disk right.
RoughFaults == [v \in Versions |-> IF v = v1 THEN FaultKinds \ {"overlap", "stat"}
                                            ELSE {"overlap", "stat", "undo"}]

\* Valid uploads of one version are interchangeable.
Interchangeable == Permutations({a, b}) \cup Permutations({c, d})

\* A single kind of trouble besides a failing commit.
OverlapFaults == [v \in Versions |-> {"overlap", "database"}]
CrashFaults == [v \in Versions |-> {"crash", "database"}]
=============================================================================
