--------------------------- MODULE ResultsImport ---------------------------
(***************************************************************************)
(* PUT /results/<testrun>/<job>/import: import_results (results_api.py)    *)
(* and save_testrun (results_cache.py).                                    *)
(*                                                                         *)
(* A report is kept under its checksum, in a folder of its job, and its    *)
(* verdicts go into the results table under the id of its testrun.  Each   *)
(* request is a process of its own; a step of the model is one call on     *)
(* the folder or the database, which is all they share.  Two reports are   *)
(* the same bytes if and only if they have the same checksum, and a report *)
(* has at least one test case.  Who sends a report and what is in it only  *)
(* matters to the queries (module Queries).                                *)
(***************************************************************************)
EXTENDS WriteLock, Sequences, Naturals

CONSTANTS Jobs,      \* folders reports are kept in: testrun and job id
          Testruns,  \* testrun names
          Testrun,   \* job -> the testrun in its URL
          Uploads,   \* import requests
          Job,       \* upload -> the job in its URL
          Reports,   \* the bytes of reports
          Body,      \* upload -> the report it carries
          Valid,     \* reports get_testsuite_data can read
          Faults,    \* job -> what may go wrong with imports for it
          None       \* no file

(***************************************************************************)
(* What may go wrong:                                                      *)
(*   "overlap"   the same report is imported by two requests at once       *)
(*   "collide"   two requests draw the same five letters for their files   *)
(*   "crash"     the worker dies                                           *)
(*   "database"  a statement or the commit is refused                      *)
(*   "disk"      a file operation raises OSError                           *)
(***************************************************************************)
FaultKinds == {"overlap", "collide", "crash", "database", "disk"}

ASSUME TestrunAssumption == Testrun \in [Jobs -> Testruns]
ASSUME UploadAssumption == Job \in [Uploads -> Jobs] /\ Body \in [Uploads -> Reports]
ASSUME ValidAssumption == Valid \subseteq Reports
ASSUME FaultsAssumption == Faults \in [Jobs -> SUBSET FaultKinds]
ASSUME NoneAssumption == None \notin Reports
ASSUME LockAssumption ==
    NoOne # Elsewhere /\ NoOne \notin Uploads /\ Elsewhere \notin Uploads

VARIABLES
    testrun,  \* committed testrun rows: the names, in the order of their ids
    stored,   \* upload -> id its results are committed under, 0 without any
    file,     \* job -> report -> bytes in the file named by its checksum
    tmp,      \* upload -> bytes in upload-<letters>.xml of the first to draw them
    letters,  \* upload -> the upload whose letters it drew
    sum,      \* upload -> the report its checksum is of
    read,     \* upload -> the bytes it parsed
    tid,      \* upload -> testrun_id
    named,    \* uploads whose transaction inserts the testrun row
    pc,       \* upload -> the call it makes next
    reply     \* upload -> what it is answered

folder == <<file, tmp>>
tables == <<testrun, stored>>
locals == <<letters, sum, read, tid, named>>
vars == <<folder, tables, locals, pc, reply, lock>>

Steps == {"new", "summing", "comparing", "dropping", "renaming", "parsing",
          "discarding", "resolving", "naming", "inserting", "committing",
          "done", "dead"}
Summed == {"comparing", "dropping", "renaming", "parsing", "discarding"}
Closing == {"inserting", "committing", "done", "dead"}
Replies == {"none", "ok", "refused", "duplicate", "unreadable", "error"}
Bytes == Reports \cup {None}

TypeOK ==
    /\ testrun \in Seq(Testruns)
    /\ stored \in [Uploads -> Nat]
    /\ file \in [Jobs -> [Reports -> Bytes]]
    /\ tmp \in [Uploads -> Bytes]
    /\ letters \in [Uploads -> Uploads]
    /\ sum \in [Uploads -> Bytes] /\ read \in [Uploads -> Bytes]
    /\ tid \in [Uploads -> Nat]
    /\ named \subseteq {u \in Uploads : tid[u] # 0 /\ pc[u] \in Closing}
    /\ pc \in [Uploads -> Steps]
    /\ \A u \in Uploads : pc[u] \in Summed => sum[u] # None
    /\ reply \in [Uploads -> Replies]
    /\ lock \in Uploads \cup {NoOne, Elsewhere}

Init ==
    /\ testrun = <<>>
    /\ stored = [u \in Uploads |-> 0]
    /\ file = [j \in Jobs |-> [r \in Reports |-> None]]
    /\ tmp = [u \in Uploads |-> None]
    /\ letters = [u \in Uploads |-> u]
    /\ sum = [u \in Uploads |-> None] /\ read = [u \in Uploads |-> None]
    /\ tid = [u \in Uploads |-> 0]
    /\ named = {}
    /\ pc = [u \in Uploads |-> "new"]
    /\ reply = [u \in Uploads |-> "none"]
    /\ lock = NoOne

----------------------------------------------------------------------------
May(fault, u) == fault \in Faults[Job[u]]

\* Moves u from one step of its handler to the next.
Go(u, from, to) == pc[u] = from /\ pc' = [pc EXCEPT ![u] = to]

\* Ends the request of u: it is answered and teardown closes its connection.
End(u, from, answer) ==
    /\ Go(u, from, "done")
    /\ reply' = [reply EXCEPT ![u] = answer]
    /\ Drop(u)

InFlight(u) == pc[u] \notin {"new", "done", "dead"}

\* One request for a report of a job at a time, unless overlaps are allowed.
Alone(u) ==
    \/ May("overlap", u)
    \/ \A w \in Uploads : Job[w] = Job[u] /\ Body[w] = Body[u] => ~InFlight(w)

\* Not used, but a plausible mistake, like those below: a name per job instead of a
\* random one.
DrawsAny(u) == {w \in Uploads : Job[w] = Job[u]}

\* The letters u may draw: no other request's, but for a collision in its folder.
Draws(u) == IF May("collide", u) THEN {w \in Uploads : Job[w] = Job[u]} ELSE {u}

\* i is the id get_testrun_id finds for name: its first row, or 0 (-1 in the code).
Resolves(rows, name, i) ==
    /\ i > 0 => i \in DOMAIN rows /\ rows[i] = name
    /\ \A k \in DOMAIN rows : rows[k] = name => 0 < i /\ i <= k

\* Where the file operations of u go.
Temp(u) == tmp[letters[u]]
Kept(u) == file[Job[u]][sum[u]]
Keep(u, bytes) == file' = [file EXCEPT ![Job[u]][sum[u]] = bytes]
DropTemp(u) == tmp' = [tmp EXCEPT ![letters[u]] = None]

----------------------------------------------------------------------------
(* Plausible mistakes in the definitions above and the steps below.  None  *)
(* of them is part of Next: each stands in for the one it is named after,  *)
(* to see that a property of this module tells the two apart.              *)

\* The check for an earlier upload is forgotten.
CompareSkipped(u) ==
    /\ Go(u, "comparing", "renaming")
    /\ UNCHANGED <<folder, tables, locals, reply, lock>>

\* A duplicate removes the kept file and not its own.
DropKept(u) ==
    /\ End(u, "dropping", "duplicate")
    /\ Keep(u, None)
    /\ UNCHANGED <<tmp, tables, locals>>

\* The report that cannot be read stays.
DiscardForgotten(u) ==
    /\ End(u, "discarding", "unreadable")
    /\ Kept(u) # None
    /\ UNCHANGED <<folder, tables, locals>>

\* The id is not looked up again after the insert.
NameWithoutLookup(u) ==
    /\ Go(u, "naming", "inserting")
    /\ Take(u)
    /\ named' = named \cup {u}
    /\ UNCHANGED <<folder, tables, letters, sum, read, tid, reply>>

\* The id is that of the inserted row (cur.lastrowid).
NameOwnRow(u) ==
    /\ Go(u, "naming", "inserting")
    /\ Take(u)
    /\ named' = named \cup {u}
    /\ tid' = [tid EXCEPT ![u] = Len(testrun) + 1]
    /\ UNCHANGED <<folder, tables, letters, sum, read, reply>>

\* The connection is not closed with the request.
TableFailsOpen(u) ==
    /\ pc[u] \in {"naming", "inserting", "committing"}
    /\ May("database", u) /\ Go(u, pc[u], "done")
    /\ reply' = [reply EXCEPT ![u] = "error"]
    /\ UNCHANGED <<folder, tables, locals, lock>>

----------------------------------------------------------------------------
(* The report becomes a file *)

\* A bad request is answered before anything is written.
Refuse(u) ==
    /\ End(u, "new", "refused")
    /\ UNCHANGED <<folder, tables, locals>>

\* file.save, over whatever has the name
Save(u) ==
    /\ Alone(u)
    /\ Go(u, "new", "summing")
    /\ \E w \in Draws(u) :
          /\ letters' = [letters EXCEPT ![u] = w]
          /\ tmp' = [tmp EXCEPT ![w] = Body[u]]
    /\ UNCHANGED <<file, tables, sum, read, tid, named, reply, lock>>

\* Nothing or the beginning of the body gets written, and stays.
SaveFails(u) ==
    /\ May("disk", u) /\ Alone(u)
    /\ End(u, "new", "error")
    /\ \E w \in Draws(u) : \E part \in {tmp[w]} \cup (Reports \ Valid) :
          tmp' = [tmp EXCEPT ![w] = part]
    /\ UNCHANGED <<file, tables, locals>>

\* checksum(upload_filepath)
Sum(u) ==
    /\ Temp(u) # None
    /\ Go(u, "summing", "comparing")
    /\ sum' = [sum EXCEPT ![u] = Temp(u)]
    /\ UNCHANGED <<folder, tables, letters, read, tid, named, reply, lock>>

\* filepath.exists()
Compare(u) ==
    /\ Go(u, "comparing", IF Kept(u) # None THEN "dropping" ELSE "renaming")
    /\ UNCHANGED <<folder, tables, locals, reply, lock>>

DropCopy(u) ==
    /\ Temp(u) # None
    /\ End(u, "dropping", "duplicate")
    /\ DropTemp(u)
    /\ UNCHANGED <<file, tables, locals>>

\* upload_filepath.rename(filepath), over whatever is there by now
Rename(u) ==
    /\ Temp(u) # None
    /\ Go(u, "renaming", "parsing")
    /\ Keep(u, Temp(u))
    /\ DropTemp(u)
    /\ UNCHANGED <<tables, locals, reply, lock>>

\* get_testsuite_data: what it cannot read is a ValueError.
Parse(u) ==
    /\ Go(u, "parsing", IF Kept(u) \in Valid THEN "resolving" ELSE "discarding")
    /\ Kept(u) # None
    /\ read' = [read EXCEPT ![u] = Kept(u)]
    /\ UNCHANGED <<folder, tables, letters, sum, tid, named, reply, lock>>

Discard(u) ==
    /\ End(u, "discarding", "unreadable")
    /\ Kept(u) # None
    /\ Keep(u, None)
    /\ UNCHANGED <<tmp, tables, locals>>

\* A file is gone, or the disk is sick.  Nothing catches the OSError, and nothing
\* is cleaned up.
FileFails(u) ==
    /\ \/ May("disk", u) /\ pc[u] \in {"summing", "comparing", "dropping", "renaming",
                                       "parsing", "discarding"}
       \/ pc[u] \in {"summing", "dropping", "renaming"} /\ Temp(u) = None
       \/ pc[u] \in {"parsing", "discarding"} /\ Kept(u) = None
    /\ End(u, pc[u], "error")
    /\ UNCHANGED <<folder, tables, locals>>

----------------------------------------------------------------------------
(* save_testrun *)

\* SELECT the id, in no transaction.
Resolve(u) ==
    /\ \E i \in 0..Len(testrun) :
          /\ Resolves(testrun, Testrun[Job[u]], i)
          /\ tid' = [tid EXCEPT ![u] = i]
          /\ Go(u, "resolving", IF i = 0 THEN "naming" ELSE "inserting")
    /\ UNCHANGED <<folder, tables, letters, sum, read, named, reply, lock>>

\* INSERT the testrun and SELECT again, now in a transaction.
Name(u) ==
    /\ Go(u, "naming", "inserting")
    /\ Take(u)
    /\ named' = named \cup {u}
    /\ LET rows == Append(testrun, Testrun[Job[u]]) IN
       \E i \in 1..Len(rows) :
          /\ Resolves(rows, Testrun[Job[u]], i)
          /\ tid' = [tid EXCEPT ![u] = i]
    /\ UNCHANGED <<folder, tables, letters, sum, read, reply>>

\* INSERT the results.
Insert(u) ==
    /\ Go(u, "inserting", "committing")
    /\ Take(u) \/ (lock = u /\ UNCHANGED lock)
    /\ UNCHANGED <<folder, tables, locals, reply>>

Commit(u) ==
    /\ End(u, "committing", "ok")
    /\ testrun' = IF u \in named THEN Append(testrun, Testrun[Job[u]]) ELSE testrun
    /\ stored' = [stored EXCEPT ![u] = tid[u]]
    /\ UNCHANGED <<folder, locals>>

\* Another writer outlasts the busy timeout, or the database is sick.  No
\* sqlite3.Error is a ValueError: the file stays.
TableFails(u) ==
    /\ \/ Busy(u) /\ pc[u] \in {"naming", "inserting"}
       \/ May("database", u) /\ pc[u] \in {"resolving", "naming", "inserting", "committing"}
    /\ End(u, pc[u], "error")
    /\ UNCHANGED <<folder, tables, locals>>

Crash(u) ==
    /\ May("crash", u) /\ InFlight(u)
    /\ pc' = [pc EXCEPT ![u] = "dead"]
    /\ Drop(u)
    /\ UNCHANGED <<folder, tables, locals, reply>>

----------------------------------------------------------------------------
OtherWriter ==
    /\ ElsewhereTakes \/ ElsewhereDrops
    /\ UNCHANGED <<folder, tables, locals, pc, reply>>

Handler(u) ==
    \/ Sum(u) \/ Compare(u) \/ DropCopy(u) \/ Rename(u) \/ Parse(u) \/ Discard(u)
    \/ FileFails(u)
    \/ Resolve(u) \/ Name(u) \/ Insert(u) \/ Commit(u) \/ TableFails(u)

Request(u) == Refuse(u) \/ Save(u) \/ SaveFails(u) \/ Handler(u) \/ Crash(u)

Next == OtherWriter \/ \E u \in Uploads : Request(u)

Spec == Init /\ [][Next]_vars

----------------------------------------------------------------------------
(* Properties *)

\* Jobs whose requests never draw the same letters.
Distinct == {j \in Jobs : "collide" \notin Faults[j]}

\* And whose reports are not sent twice at the same time.
Orderly == {j \in Distinct : "overlap" \notin Faults[j]}

\* A report is imported for a job at most once, through crashes, retries and a
\* failing database: the checksum file stands for the import
\* (tests/test_results.py:125-132).
ImportedOnce ==
    \A u, w \in Uploads :
        u # w /\ stored[u] # 0 /\ stored[w] # 0 /\ Job[u] = Job[w] /\ Job[u] \in Orderly
            => Body[u] # Body[w]

\* What is imported keeps its file, also when the same report comes again, and
\* twice at once: without the file a retry would import it again.
ImportedReportKept ==
    \A u \in Uploads : stored[u] # 0 /\ Job[u] \in Distinct
        => file[Job[u]][Body[u]] = Body[u]

\* A request that is answered 200 has had its own report imported, whatever other
\* requests for the job did to the folder meanwhile.
AcceptedIsImported ==
    \A u \in Uploads : reply[u] = "ok" /\ Job[u] \in Distinct
        => stored[u] # 0 /\ read[u] = Body[u]

\* Committed results are under the id the queries resolve their testrun to, also
\* when several requests bring the first results of a testrun and it gets several
\* rows (testrun.name is not UNIQUE).
ImportsFindable ==
    \A u \in Uploads : stored[u] # 0 => Resolves(testrun, Testrun[Job[u]], stored[u])

\* The write lock never outlives the request that took it, though no error path
\* rolls back: teardown closes the connection.
NoLeakedLock == \A u \in Uploads : lock = u => pc[u] \in {"inserting", "committing"}

\* "A failed import leaves no file" (tests/test_results.py:181-185), so that it
\* can be sent again.
FailedImportLeavesNoFile ==
    \A u \in Uploads : reply[u] \in {"unreadable", "error"} /\ Job[u] \in Orderly
        => \/ file[Job[u]][Body[u]] = None
           \/ \E w \in Uploads \ {u} : Job[w] = Job[u] /\ Body[w] = Body[u] /\ pc[w] # "new"

----------------------------------------------------------------------------
(* What imports come to *)

\* A report has its place in a job from the rename on.
Place(j, r) ==
    IF \E u \in Uploads : Job[u] = j /\ Body[u] = r /\ stored[u] # 0 THEN "imported"
    ELSE IF file[j][r] # None THEN "claimed" ELSE "free"

OrderlyUploads == {u \in Uploads : Job[u] \in Orderly}

Store == INSTANCE ReportStore
    WITH Jobs <- Orderly,
         Uploads <- OrderlyUploads,
         place <- [j \in Orderly |-> [r \in Reports |-> Place(j, r)]],
         verdict <- [u \in OrderlyUploads |-> reply[u]]

\* The file under its checksum and the rows of a report change in step, though no
\* transaction spans the two: a report is claimed, imported and given up by one request
\* at a time, a duplicate or a failing call moves nothing, and a caller is told what
\* became of the report (results_api.py:101-117).
ImplementsReportStore == Store!Spec

----------------------------------------------------------------------------
(* Inductive invariants *)

\* An id once found is found again: rows are only appended, and one's own row
\* only under the write lock.
Finds(u) ==
    LET name == Testrun[Job[u]] IN
    /\ stored[u] # 0 => Resolves(testrun, name, stored[u])
    /\ pc[u] = "committing" => lock = u
    /\ pc[u] \in {"inserting", "committing"} =>
          /\ tid[u] # 0
          /\ u \notin named => Resolves(testrun, name, tid[u])
          /\ u \in named => lock = u /\ Resolves(Append(testrun, name), name, tid[u])

FindInv == \A u \in Uploads : Finds(u)

\* Steps at which u has a temp file, and a readable report in place.
Writing == {"summing", "comparing", "dropping", "renaming"}
Importing == {"resolving", "naming", "inserting", "committing"}

InPlace(u) == file[Job[u]][Body[u]] = Body[u] /\ Body[u] \in Valid

\* With letters of its own a request works on its own bytes, and what is in place
\* under a readable report's name stays there.
KeepsOwn(u) ==
    /\ letters[u] = u
    /\ pc[u] \in Writing => tmp[u] = Body[u]
    /\ pc[u] \in Summed => sum[u] = Body[u]
    /\ pc[u] \in Importing => InPlace(u) /\ read[u] = Body[u]
    /\ pc[u] = "parsing" /\ Body[u] \in Valid => InPlace(u)
    /\ pc[u] = "discarding" => Body[u] \notin Valid
    /\ stored[u] # 0 => InPlace(u)
    /\ reply[u] = "ok" => stored[u] # 0 /\ read[u] = Body[u] /\ pc[u] = "done"

KeepInv ==
    /\ \A j \in Distinct, r \in Reports : file[j][r] \in {None, r}
    /\ \A u \in Uploads : Job[letters[u]] = Job[u]
    /\ \A u \in Uploads : Job[u] \in Distinct => KeepsOwn(u)

\* What gets imported is what could be read, whichever request's bytes they were, and
\* a request that has committed reads no more.
ReadsValid(u) ==
    /\ pc[u] \in Importing \/ stored[u] # 0 => read[u] \in Valid
    /\ stored[u] # 0 => pc[u] = "done"

ReadInv == \A u \in Uploads : ReadsValid(u)

\* Requests for a report of an orderly job come one after the other, and after
\* the one that imports it none gets past the comparison.
Apart(u, w) ==
    u # w /\ Job[u] = Job[w] /\ Body[u] = Body[w] /\ Job[u] \in Orderly =>
        /\ ~InFlight(u) \/ ~InFlight(w)
        /\ stored[w] # 0 =>
              stored[u] = 0 /\ pc[u] \notin Importing \cup {"renaming", "parsing"}

OnceInv == \A u, w \in Uploads : Apart(u, w)

\* A request is answered once, and what the comparison found is still there, or still
\* missing, when the request acts on it.
ActsOnFound(u) ==
    /\ reply[u] # "none" => pc[u] = "done"
    /\ Job[u] \in Orderly =>
          /\ pc[u] = "renaming" => file[Job[u]][Body[u]] = None
          /\ pc[u] \in {"dropping", "parsing", "discarding"} => file[Job[u]][Body[u]] # None

FoundInv == \A u \in Uploads : ActsOnFound(u)
=============================================================================
