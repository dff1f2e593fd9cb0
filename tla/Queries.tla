------------------------------ MODULE Queries ------------------------------
(***************************************************************************)
(* GET /results/<testrun>/passed, rerun, pypassed and pyrerun              *)
(* (results_api.py), with load_testrun (results_cache.py) and the verdicts *)
(* of junittools.py, beside the imports of ResultsImport.                  *)
(*                                                                         *)
(* A query finds the id of its testrun in one read and the rows of that id *)
(* and its user in another.  The results table is not a variable: its rows *)
(* are what the committed imports have parsed.                             *)
(***************************************************************************)
EXTENDS ResultsImport

CONSTANTS User,      \* upload -> the user who sends it
          Cases,     \* report -> its test cases
          Words,     \* what the dots and slashes of a class name separate
          Empty,     \* the word without a letter
          Titles,    \* titles of tests
          Askers,    \* clients that query, one request after the other
          AskedFor,  \* asker -> the user and the testrun it asks for
          TestWords, \* words that start with "test_"
          Nested     \* titles with a "::" in them

(***************************************************************************)
(* A test case is the test it is of and what its child elements say, in    *)
(* their order.  An "xfail" is a skipped element with xfail in its type.   *)
(*                                                                         *)
(* A test is its id "class::title", split at the first "::".  A class name *)
(* is its words, each with what separates it from the one before; a part   *)
(* of the name starts at each dot, and the first word starts one too.      *)
(***************************************************************************)
Children == {"error", "failure", "skipped", "xfail", "other"}
Spelled == [sep : {"dot", "slash"}, word : Words]
TestNames == [class : {s \in Seq(Spelled) : s # <<>> /\ s[1].sep = "dot"}, title : Titles]

ASSUME NamesAssumption == TestWords \subseteq Words /\ Empty \in Words \ TestWords
ASSUME CasesAssumption ==
    \A r \in Reports : \A c \in Cases[r] :
        c.test \in TestNames /\ c.children \in Seq(Children)
ASSUME AskersAssumption == \A q \in Askers : AskedFor[q].testrun \in Testruns

VARIABLES
    at,    \* asker -> where its request is
    id,    \* asker -> the id get_testrun_id returned, 0 for its -1
    known  \* asker -> its user's imports that were answered 200 when it asked

askers == <<at, id, known>>
allvars == <<vars, askers>>

QueryTypeOK ==
    /\ at \in [Askers -> {"idle", "loading", "empty"}]
    /\ id \in [Askers -> Nat]
    /\ \A q \in Askers : id[q] = 0 <=> at[q] # "loading"
    /\ known \in [Askers -> SUBSET Uploads]

QueryInit ==
    /\ Init
    /\ at = [q \in Askers |-> "idle"]
    /\ id = [q \in Askers |-> 0]
    /\ known = [q \in Askers |-> {}]

----------------------------------------------------------------------------
(* What a report says of its tests *)

\* The verdict of a test case so far, and whether the loop over its children is over.
Unseen == [verdict |-> "passed", broke |-> FALSE]

Meaning == [error |-> "failed", failure |-> "failed", skipped |-> "skipped",
            xfail |-> "xfailed"]

\* Not used, but a plausible mistake: an error settles the verdict.
LookFirst(seen, child) ==
    IF seen.broke \/ child = "other" THEN seen
    ELSE [verdict |-> Meaning[child], broke |-> TRUE]

\* An error is remembered, a failure or a skip settles the verdict.
Look(seen, child) ==
    IF seen.broke \/ child = "other" THEN seen
    ELSE [verdict |-> Meaning[child], broke |-> child # "error"]

\* _get_verdict: one child after the other.
VerdictOf(children) ==
    LET after[n \in 0..Len(children)] ==
            IF n = 0 THEN Unseen ELSE Look(after[n - 1], children[n])
    IN  after[Len(children)].verdict

\* _get_testcases_data, of every report that can be read
Verdicts == [r \in Valid |->
    {[testid |-> c.test, verdict |-> VerdictOf(c.children)] : c \in Cases[r]}]

\* SELECT test_name, verdict FROM results: what the user's imports have committed
\* under id i.
Rows(i, user) ==
    UNION {Verdicts[read[u]] : u \in {w \in Uploads : stored[w] = i /\ User[w] = user}}

get_passed(rows) == {t.testid : t \in {s \in rows : s.verdict \in {"passed", "xfailed"}}}
get_nonpassed(rows) == {t.testid : t \in rows} \ get_passed(rows)

\* _pytestify.  The last part of the class name that starts with "test_" is a file; a
\* path is before it and at most one class after it.  Other names are dropped.
StartsPart(k, t) == t.class[k].sep = "dot"
IsFileOf(i, t) ==
    LET files == {k \in DOMAIN t.class : StartsPart(k, t) /\ t.class[k].word \in TestWords}
    IN  i \in files /\ \A k \in files : k <= i
Convertible(i, t) ==
    /\ t.title \notin Nested /\ IsFileOf(i, t)
    /\ \A k, m \in DOMAIN t.class :
          k > i /\ m > i /\ StartsPart(k, t) /\ StartsPart(m, t) => k = m

\* The part that starts at word i goes on to word n.
GoesTo(i, n, t) ==
    /\ i <= n /\ \A k \in (i + 1)..n : ~StartsPart(k, t)
    /\ n = Len(t.class) \/ StartsPart(n + 1, t)

\* Dots and slashes up to the file name all become slashes.  A path that is nothing but
\* one empty part is dropped, and its slash with it.
Slashed(s) == [k \in DOMAIN s |-> s[k].word]
FirstWord(i, t) == IF i = 2 /\ t.class[1].word = Empty THEN 2 ELSE 1
Nodeid(i, n, t) ==
    [file |-> Slashed(SubSeq(t.class, FirstWord(i, t), n)),
     within |-> SubSeq(t.class, n + 1, Len(t.class)), title |-> t.title]
NodeidsOf(t) ==
    {Nodeid(p[1], p[2], t) : p \in {o \in (DOMAIN t.class) \X (DOMAIN t.class) :
        Convertible(o[1], t) /\ GoesTo(o[1], o[2], t)}}
pytestify(tests) == UNION {NodeidsOf(t) : t \in tests}

----------------------------------------------------------------------------
\* The user's imports for the testrun that have been answered 200 by now.
Accepted(user, name) ==
    {u \in Uploads : User[u] = user /\ Testrun[Job[u]] = name /\ reply[u] = "ok"}

\* Not part of Next, but a plausible mistake: the -1 of get_testrun_id is not noticed.
ResolveIdUnchecked(q) ==
    /\ at[q] # "loading"
    /\ \E i \in 0..Len(testrun) :
          /\ Resolves(testrun, AskedFor[q].testrun, i)
          /\ id' = [id EXCEPT ![q] = i]
    /\ at' = [at EXCEPT ![q] = "loading"]
    /\ known' = [known EXCEPT ![q] = Accepted(AskedFor[q].user, AskedFor[q].testrun)]
    /\ UNCHANGED vars

\* get_testrun_id.  A testrun nobody has named is answered with an empty list.
ResolveId(q) ==
    /\ at[q] # "loading"
    /\ \E i \in 0..Len(testrun) :
          /\ Resolves(testrun, AskedFor[q].testrun, i)
          /\ id' = [id EXCEPT ![q] = i]
          /\ at' = [at EXCEPT ![q] = IF i = 0 THEN "empty" ELSE "loading"]
    /\ known' = [known EXCEPT ![q] = Accepted(AskedFor[q].user, AskedFor[q].testrun)]
    /\ UNCHANGED vars

\* The rows are read and the answer, which Passed and Rerun give, is sent.
Load(q) ==
    /\ at[q] = "loading"
    /\ at' = [at EXCEPT ![q] = "idle"]
    /\ id' = [id EXCEPT ![q] = 0]
    /\ known' = [known EXCEPT ![q] = {}]
    /\ UNCHANGED vars

Found(q) == IF id[q] = 0 THEN {} ELSE Rows(id[q], AskedFor[q].user)
Passed(q) == get_passed(Found(q))
Rerun(q) == get_nonpassed(Found(q))

QueryNext ==
    \/ Next /\ UNCHANGED askers
    \/ \E q \in Askers : ResolveId(q) \/ Load(q)

QuerySpec == QueryInit /\ [][QueryNext]_allvars

----------------------------------------------------------------------------
(* Properties *)

\* A request that comes after an import was answered 200 finds it: its passes are
\* in passed and no longer in rerun, and none of its tests is lost, also when the
\* testrun got several rows, and with whatever is committed between the two reads.
Tests(report) == {c.test : c \in Cases[report]}
AcceptedIsVisible ==
    \A q \in Askers : \A u \in known[q] : Job[u] \in Distinct =>
        /\ get_passed(Verdicts[Body[u]]) \subseteq Passed(q) \ Rerun(q)
        /\ Tests(Body[u]) \subseteq Passed(q) \cup Rerun(q)

\* What a report means by a pass, said without going through its children: the
\* first that settles anything is an expected failure, or none does and there is
\* no error (tests/test_junittools.py:44-70).
Settling(children) == {i \in DOMAIN children : children[i] \in {"failure", "skipped", "xfail"}}
Clean(children) ==
    IF Settling(children) = {} THEN \A i \in DOMAIN children : children[i] # "error"
    ELSE \E i \in Settling(children) :
            children[i] = "xfail" /\ \A k \in Settling(children) : i <= k
Passes(report) == {c.test : c \in {d \in Cases[report] : Clean(d.children)}}

\* What the committed imports of the same user and testrun report on, and pass.
Own(q) == {u \in Uploads : stored[u] # 0 /\ User[u] = AskedFor[q].user
                           /\ Testrun[Job[u]] = AskedFor[q].testrun}
Reported(q) == UNION {Tests(read[u]) : u \in Own(q)}
Earned(q) == UNION {Passes(read[u]) : u \in Own(q)}

\* The names pytest writes: words between dots.
Dotted(t) == \A k \in DOMAIN t.class : StartsPart(k, t) /\ t.class[k].word # Empty
DottedOf(tests) == {t \in tests : Dotted(t)}

\* passed holds a test exactly if a report of the same user and testrun says so, and
\* rerun exactly those that reports mention and none passes, at one moment for the
\* whole answer (TestPerUserIsolation, tests/test_results.py:369).  The pytest forms do
\* not mix the two up either, as far as names go as pytest writes them, whatever they
\* drop; "a/b.test_m" and "a.b.test_m", or "test_m" and ".test_m", share their node ids.
AnswersAreEarned ==
    \A q \in Askers : at[q] = "loading" =>
        /\ Passed(q) = Earned(q)
        /\ Rerun(q) = Reported(q) \ Earned(q)
        /\ pytestify(DottedOf(Passed(q))) \cap pytestify(DottedOf(Rerun(q))) = {}

----------------------------------------------------------------------------
(* Inductive invariant *)

\* The id a request has found stays that of its testrun, and what was accepted when
\* it asked stays accepted; with something accepted there is a row to find.
KnownAt(q) ==
    /\ at[q] = "idle" => known[q] = {}
    /\ at[q] = "loading" => Resolves(testrun, AskedFor[q].testrun, id[q])
    /\ \A u \in known[q] :
          /\ User[u] = AskedFor[q].user /\ Testrun[Job[u]] = AskedFor[q].testrun
          /\ Job[u] \in Distinct => reply[u] = "ok" /\ at[q] # "empty"

KnownInv == \A q \in Askers : KnownAt(q)
=============================================================================
