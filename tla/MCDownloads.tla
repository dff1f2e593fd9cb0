---------------------------- MODULE MCDownloads ----------------------------
(* Small instances of Downloads for TLC. *)
EXTENDS Downloads

CONSTANTS v1,      \* the version
          a, b, c, \* uploads of it
          reader

\* Everything is for one version.
AllTarget == [u \in Uploads |-> v1]
AllWanted == [r \in Readers |-> v1]

\* No overlaps, crashes, failing stats or failing reconciliations.
CalmFaults == [v \in Versions |-> {"database", "disk"}]
=============================================================================
