---------------------------- MODULE VersionStore ----------------------------
(***************************************************************************)
(* What PUT /sync-results/<version> promises its callers: a version holds  *)
(* the zip of the last accepted upload.  Accepting an upload replaces the  *)
(* zip in one step, refusing it changes nothing, and no stored zip is ever *)
(* lost.                                                                   *)
(***************************************************************************)
CONSTANTS Versions,   \* the versions of this store
          Uploads,    \* upload requests; each also names the bytes it carries
          Target,     \* the version an upload is for
          Valid,      \* uploads that carry a readable, non-empty zip
          None        \* no zip

VARIABLES stored,     \* version -> the upload whose zip it holds
          verdict     \* upload -> what its caller is told

vars == <<stored, verdict>>

Init == /\ stored = [v \in Versions |-> None]
        /\ verdict = [u \in Uploads |-> "pending"]

Accept(u) ==
    /\ verdict[u] = "pending"
    /\ u \in Valid
    /\ stored' = [stored EXCEPT ![Target[u]] = u]
    /\ verdict' = [verdict EXCEPT ![u] = "accepted"]

Refuse(u) ==
    /\ verdict[u] = "pending"
    /\ verdict' = [verdict EXCEPT ![u] = "refused"]
    /\ UNCHANGED stored

Next == \E u \in Uploads : Accept(u) \/ Refuse(u)

Spec == Init /\ [][Next]_vars
=============================================================================
