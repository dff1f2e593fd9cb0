---------------------------- MODULE ReportStore ----------------------------
(***************************************************************************)
(* What PUT /results/<testrun>/<job>/import promises for reports that are  *)
(* not sent twice at once: the first request to send a report claims its   *)
(* place in the job; the report is then imported, once and for good, or    *)
(* found unreadable, which frees the place.  A request that fails after    *)
(* its claim leaves the place claimed, and whoever sends the report again  *)
(* is told that it was uploaded already.                                   *)
(***************************************************************************)
CONSTANTS Jobs,     \* folders reports are kept in
          Reports,  \* the bytes of reports
          Uploads,  \* import requests
          Job,      \* upload -> the job it is for
          Body,     \* upload -> the report it carries
          Valid     \* reports that can be read

VARIABLES place,    \* job -> report -> "free", "claimed" or "imported"
          verdict   \* upload -> what its caller is told

vars == <<place, verdict>>

Init == /\ place = [j \in Jobs |-> [r \in Reports |-> "free"]]
        /\ verdict = [u \in Uploads |-> "none"]

Place(u) == place[Job[u]][Body[u]]

Becomes(u, from, to) ==
    Place(u) = from /\ place' = [place EXCEPT ![Job[u]][Body[u]] = to]

Tell(u, what) == verdict[u] = "none" /\ verdict' = [verdict EXCEPT ![u] = what]

Claim(u) ==
    /\ verdict[u] = "none"
    /\ Becomes(u, "free", "claimed")
    /\ UNCHANGED verdict

Import(u) ==
    /\ Body[u] \in Valid
    /\ Becomes(u, "claimed", "imported")
    /\ Tell(u, "ok")

Unreadable(u) ==
    /\ Body[u] \notin Valid
    /\ Becomes(u, "claimed", "free")
    /\ Tell(u, "unreadable")

Duplicate(u) ==
    /\ Place(u) # "free"
    /\ Tell(u, "duplicate")
    /\ UNCHANGED place

Fail(u) ==
    /\ \E what \in {"refused", "error"} : Tell(u, what)
    /\ UNCHANGED place

Next == \E u \in Uploads :
    Claim(u) \/ Import(u) \/ Unreadable(u) \/ Duplicate(u) \/ Fail(u)

Spec == Init /\ [][Next]_vars
=============================================================================
