-------------------------- MODULE MCCourseScaffold --------------------------
(* One call whose model may reply any of some hundred proposals of up to   *)
(* three nodes and three edges, or two calls of one job, whose request has *)
(* a good reply and a bad one, or one of a job whose reports may get lost. *)
EXTENDS CourseScaffold

CONSTANTS wide, a, b, d, j, lost

MCCalls == {wide, a, b, d}
MCJobOf == [c \in MCCalls |-> CASE c \in {a, b} -> j [] c = d -> lost [] c = wide -> NoJob]
MCRequestOf == [c \in MCCalls |-> IF c = wide THEN "any" ELSE "course"]

Node(id, index, kind) == [id |-> id, index |-> index, kind |-> kind]
R == Node("r", "0", "root")
M == Node("m", "1", "module")
L == Node("l", "2", "lesson")
NodeLists == {<<R>>, <<R, M>>, <<M, R>>, <<R, M, L>>, <<M, L>>, <<R, M, R>>, <<R, M, M>>,
              <<R, M, Node("l", "2", "root")>>, <<R, Node("r", "1", "module")>>,
              <<R, M, Node("l", "1", "lesson")>>}
Edges == {<<"r", "m">>, <<"r", "l">>, <<"m", "l">>, <<"l", "m">>, <<"m", "r">>, <<"r", "x">>}
EdgeLists(edges, n) == UNION {[1..k -> edges] : k \in 0..n}
Proposal(n, e) == Proposed([nodes |-> n, edges |-> e])

Tree == Proposal(<<R, M>>, <<<<"r", "m">>>>)
Loop == Proposal(<<R, M>>, <<<<"r", "m">>, <<"m", "r">>>>)
NoJson == [is |-> "notJson"]
BodyKeys == [is |-> "proposal", proposal |-> Tree.proposal, body |-> "text"]

Proposals ==
  {Proposal(n, e) : n \in NodeLists, e \in EdgeLists(Edges \cup {<<"m", "m">>}, 1)}
    \cup {Proposal(<<M, R, L>>, e) : e \in EdgeLists(Edges \ {<<"r", "x">>}, 3)}
    \cup {NoJson, BodyKeys}
MCReplies == [q \in {"any", "course"} |->
  IF q = "any" THEN Proposals ELSE {Tree, Loop}]
MCStored == {Tree, Loop}

\* Only the calls in focus are made.  A row that succeeded earlier is met by
\* a call on its own, and the second reply to the wide call is a good one.
VARIABLE focus
MCInit ==
  /\ Init
  /\ row[lost].status = "queued"
  /\ \/ focus \in {{wide}, {a, b}, {d}} /\ row[j].status = "queued"
     \/ focus = {b}
MCSpec ==
  /\ MCInit
  /\ [][/\ Next
        /\ UNCHANGED focus
        /\ \A c \in Calls \ focus : UNCHANGED pc[c]
        /\ count[wide] = 1 => reply'[wide] \in {reply[wide], Tree}]_<<vars, focus>>
  /\ Fairness
=============================================================================
