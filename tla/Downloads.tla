----------------------------- MODULE Downloads -----------------------------
(***************************************************************************)
(* GET /sync-results/<version>/zip: get_sync_results_zip                   *)
(* (sync_results_api.py), beside the uploads of SyncResults.               *)
(*                                                                         *)
(* A download asks three questions, each answered by the state of that     *)
(* moment: whether the version is recorded, whether its zip is there, and  *)
(* what the zip holds.  It takes no lock and changes nothing an upload     *)
(* looks at.                                                               *)
(***************************************************************************)
EXTENDS SyncResults

CONSTANTS Readers,  \* clients that download, one request after the other
          Wanted    \* reader -> the version in its URL

ASSUME ReaderAssumption == Wanted \in [Readers -> Versions]

VARIABLES
    at,      \* reader -> the call its request makes next
    answer,  \* reader -> how its last request was answered
    got,     \* reader -> the bytes it was sent, if any
    past     \* reader -> uploads that were over and not recorded when it asked

readers == <<at, answer, got, past>>
allvars == <<vars, readers>>

Answers == {"none", "unknown", "missing", "sent", "error"}

DownloadTypeOK ==
    /\ at \in [Readers -> {"idle", "looking", "sending"}]
    /\ answer \in [Readers -> Answers]
    /\ got \in [Readers -> Uploads \cup {None}]
    /\ past \in [Readers -> SUBSET Uploads]
    /\ \A r \in Readers : got[r] # None <=> at[r] = "idle" /\ answer[r] = "sent"

DownloadInit ==
    /\ Init
    /\ at = [r \in Readers |-> "idle"]
    /\ answer = [r \in Readers |-> "none"]
    /\ got = [r \in Readers |-> None]
    /\ past = [r \in Readers |-> {}]

----------------------------------------------------------------------------
Reply(r, from, how, bytes) ==
    /\ at[r] = from
    /\ at' = [at EXCEPT ![r] = "idle"]
    /\ answer' = [answer EXCEPT ![r] = how]
    /\ got' = [got EXCEPT ![r] = bytes]

\* Uploads of v that are over and whose zip is not the recorded one: refused, or
\* replaced since.
Over(v) == {u \in Uploads : Target[u] = v /\ pc[u] = "done" /\ row[v] # u}

\* sync_results_exists: the committed row, in a read of its own.
Ask(r) ==
    /\ \/ /\ row[Wanted[r]] = None
          /\ Reply(r, "idle", "unknown", None)
       \/ /\ row[Wanted[r]] # None
          /\ at[r] = "idle"
          /\ at' = [at EXCEPT ![r] = "looking"]
          /\ got' = [got EXCEPT ![r] = None]
          /\ UNCHANGED answer
    /\ past' = [past EXCEPT ![r] = Over(Wanted[r])]
    /\ UNCHANGED vars

\* filepath.is_file(): a miss is logged and answered like an unknown version.
LookForFile(r) ==
    /\ \/ /\ file[Wanted[r]] = None
          /\ Reply(r, "looking", "missing", None)
       \/ /\ file[Wanted[r]] # None
          /\ at[r] = "looking"
          /\ at' = [at EXCEPT ![r] = "sending"]
          /\ UNCHANGED <<answer, got>>
    /\ UNCHANGED <<past, vars>>

\* send_file opens whatever has the name by now; nothing catches its OSError.
Send(r) ==
    /\ \/ file[Wanted[r]] # None /\ Reply(r, "sending", "sent", file[Wanted[r]])
       \/ file[Wanted[r]] = None /\ Reply(r, "sending", "error", None)
    /\ UNCHANGED <<past, vars>>

Download(r) == Ask(r) \/ LookForFile(r) \/ Send(r)

DownloadNext ==
    \/ Next /\ UNCHANGED readers
    \/ \E r \in Readers : Download(r)

\* Uploads run to their end, as in SyncResults; nothing makes a client ask.
DownloadSpec ==
    DownloadInit /\ [][DownloadNext]_allvars /\ \A u \in Uploads : WF_vars(Progress(u))

----------------------------------------------------------------------------
(* Properties *)

\* A recorded version that cannot be sent has its last good zip as .prev at that
\* very moment: the miss in the gap of an overwrite is the only kind there is, and
\* the .prev the log line tells the operator to check for is the recorded zip
\* (sync_results_api.py:355-362).
MissFindsBackup ==
    \A r \in Readers :
        at[r] # "idle" /\ answer'[r] \in {"missing", "error"} /\ at'[r] = "idle"
            /\ Wanted[r] \in Calm
        => row[Wanted[r]] # None /\ prev[Wanted[r]] = row[Wanted[r]]
MissHasBackup == [][MissFindsBackup]_allvars

\* A download never goes back in time: it is not sent the zip of an upload that
\* had been refused, or replaced by a later one, before it asked, however many
\* uploads are undone while it is answered.
NoStaleDownload ==
    \A r \in Readers : Wanted[r] \in Calm => got[r] \notin past[r]

----------------------------------------------------------------------------
(* Inductive invariants *)

\* A row is never deleted.
AskedInv == \A r \in Readers : at[r] # "idle" => row[Wanted[r]] # None

\* An upload that is about to be undone has put no other zip in place than its own.
LeftInPlace(u, v) ==
    pc[u] \in {"failing", "undoing"} => file[v] \in {None, u} \/ Settled(v)

LeftInv == \A v \in Calm : \A u \in Uploads : Target[u] = v => LeftInPlace(u, v)

\* What is over stays off the disk, but for the backup its successor is about to
\* discard.
PastAt(r) ==
    LET v == Wanted[r] IN
    \A u \in past[r] :
        /\ Target[u] = v /\ pc[u] = "done"
        /\ u \notin {row[v], file[v], got[r]}
        /\ prev[v] = u => \A w \in Uploads : Target[w] = v /\ InFlight(w) => pc[w] = "settling"

PastInv == \A r \in Readers : Wanted[r] \in Calm => PastAt(r)
=============================================================================
