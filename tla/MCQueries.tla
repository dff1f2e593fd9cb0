----------------------------- MODULE MCQueries -----------------------------
(* Small instances of Queries for TLC. *)
EXTENDS Queries, TLC

CONSTANTS j1, j2,        \* jobs
          r1,            \* testruns
          a, b, c, d,    \* uploads
          x, y,          \* reports
          me, you,       \* users
          q1             \* an asker

OneTestrun == [j \in Jobs |-> r1]

\* a and b bring one report for j1, each for a user of its own; c and d bring another
\* one for j2.
SplitJob == [u \in Uploads |-> IF u \in {a, b} THEN j1 ELSE j2]
SplitBody == [u \in Uploads |-> IF u \in {a, b} THEN x ELSE y]
SplitUser == [u \in Uploads |-> IF u = b THEN you ELSE me]

\* Requests for j1 crash and meet a failing disk and database, those for j2
\* overlap.
SplitFaults == [j \in Jobs |-> IF j = j1 THEN {"crash", "database", "disk"}
                                         ELSE {"overlap"}]

MyTestrun == [q \in Askers |-> [user |-> me, testrun |-> r1]]

\* Flaky errs in one report and passes in the other; Plain is an expected failure
\* in one and skipped in the other; Deep and Odd have no pytest node id.  Led and Path
\* pass and share the node ids of Bare and Long, which do not.
Dots(words) == [k \in DOMAIN words |-> [sep |-> "dot", word |-> words[k]]]
Flaky == [class |-> Dots(<<"tests", "test_mint", "TestMint">>), title |-> "test_a"]
Plain == [class |-> Dots(<<"tests", "test_mint">>), title |-> "test_a"]
Deep == [class |-> Dots(<<"test_top", "test_mint", "TestMint", "Inner">>), title |-> "test_a"]
Odd == [class |-> Dots(<<"tests", "test_mint">>), title |-> "test_a[b::c]"]
Bare == [class |-> Dots(<<"test_top">>), title |-> "test_a"]
Led == [class |-> Dots(<<"", "test_top">>), title |-> "test_a"]
Long == [class |-> Dots(<<"test_top", "tests", "test_mint", "Inner">>), title |-> "test_a"]
Path == [Long EXCEPT !.class[2].sep = "slash"]

WordNames == {"", "tests", "test_mint", "test_top", "TestMint", "Inner"}
TitleNames == {"test_a", "test_a[b::c]"}

Case(test, children) == [test |-> test, children |-> children]
MixedCases == [r \in Reports |->
    CASE r = x -> {Case(Flaky, <<"error", "other">>), Case(Plain, <<"error", "xfail">>),
                   Case(Odd, <<"failure", "xfail">>), Case(Led, <<>>),
                   Case(Long, <<"error">>)}
      [] r = y -> {Case(Flaky, <<"other">>), Case(Plain, <<"skipped">>), Case(Deep, <<>>),
                   Case(Odd, <<"skipped", "error">>), Case(Bare, <<"failure">>),
                   Case(Path, <<"other">>)}]

Interchangeable == Permutations({c, d})
=============================================================================
