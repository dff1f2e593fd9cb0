---------------------------- MODULE HistoryStore ----------------------------
(***************************************************************************)
(* What PUT /history/<testrun>/<job> and prune-history promise: a job      *)
(* keeps the XML of the one upload that was accepted for it, bytes and     *)
(* all, until it is old and a prune takes it, with any others, in one      *)
(* step.  Whoever is told that a job is recorded is told the truth.        *)
(***************************************************************************)
CONSTANTS Jobs,     \* testrun and job id pairs
          Uploads,  \* upload requests; each also names the bytes it carries
          Job,      \* upload -> the job it is for
          None      \* no entry

VARIABLES entry,    \* job -> the upload whose XML it keeps
          old,      \* jobs whose entry may be pruned
          verdict   \* upload -> what its caller is told

vars == <<entry, old, verdict>>

Init == /\ entry = [j \in Jobs |-> None]
        /\ old = {}
        /\ verdict = [u \in Uploads |-> "pending"]

Tell(u, what) == verdict[u] = "pending" /\ verdict' = [verdict EXCEPT ![u] = what]

Accept(u) ==
    /\ entry[Job[u]] = None
    /\ entry' = [entry EXCEPT ![Job[u]] = u]
    /\ Tell(u, "accepted")
    /\ UNCHANGED old

Recorded(u) ==
    /\ entry[Job[u]] # None
    /\ Tell(u, "recorded")
    /\ UNCHANGED <<entry, old>>

Fail(u) ==
    /\ Tell(u, "failed")
    /\ UNCHANGED <<entry, old>>

Age(j) ==
    /\ entry[j] # None
    /\ old' = old \cup {j}
    /\ UNCHANGED <<entry, verdict>>

Expire(gone) ==
    /\ entry' = [j \in Jobs |-> IF j \in gone THEN None ELSE entry[j]]
    /\ old' = old \ gone
    /\ UNCHANGED verdict

Next ==
    \/ \E u \in Uploads : Accept(u) \/ Recorded(u) \/ Fail(u)
    \/ \E j \in Jobs : Age(j)
    \/ \E gone \in SUBSET old : Expire(gone)

Spec == Init /\ [][Next]_vars
=============================================================================
