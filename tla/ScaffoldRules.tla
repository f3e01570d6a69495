---------------------------- MODULE ScaffoldRules ----------------------------
(***************************************************************************)
(* domain/course_scaffold.py: what validate_scaffold_proposal finds in a   *)
(* proposed course graph.  A proposal has a sequence of nodes (an id, a    *)
(* graph_index, a kind) and one of edges (<<parent, child>>), in the order *)
(* they were listed.                                                       *)
(***************************************************************************)
EXTENDS Integers, SequencesExt

IsProposal(p) ==
  /\ p.nodes \in Seq([id : STRING, index : STRING, kind : STRING])
  /\ p.edges \in Seq(STRING \X STRING)

Ids(p) == {p.nodes[i].id : i \in DOMAIN p.nodes}
Indexes(p) == [i \in DOMAIN p.nodes |-> p.nodes[i].index]

\* The k-th of a set of positions.
Kth(S, k) == CHOOSE i \in S : Cardinality({j \in S : j < i}) = k - 1

\* The positions of the nodes that are roots, and the id of the first.
Roots(p) == {i \in DOMAIN p.nodes : p.nodes[i].kind = "root"}
RootId(p) == p.nodes[Kth(Roots(p), 1)].id

----------------------------------------------------------------------------
(* The edges *)

\* Edge i is between two nodes.
Sound(p, i) ==
  {p.edges[i][1], p.edges[i][2]} \subseteq Ids(p) /\ p.edges[i][1] # p.edges[i][2]

\* The first such edge to a child makes it one of children, and the later
\* ones are findings.
Accepted(p, i) ==
  Sound(p, i) /\ \A j \in 1..(i - 1) : Sound(p, j) => p.edges[j][2] # p.edges[i][2]

EdgeFinding(p, i) ==
  CASE ~({p.edges[i][1], p.edges[i][2]} \subseteq Ids(p)) -> "edgeOfNoNode"
    [] p.edges[i][1] = p.edges[i][2] -> "selfLoop"
    [] OTHER -> "twoParents"

EdgeFindings(p) ==
  LET bad == {i \in DOMAIN p.edges : ~Accepted(p, i)}
  IN  [k \in 1..Cardinality(bad) |-> EdgeFinding(p, Kth(bad, k))]

\* adjacency: the children of node n.
Below(p, n) ==
  LET out == {i \in DOMAIN p.edges : Accepted(p, i) /\ p.edges[i][1] = n}
  IN  [k \in 1..Cardinality(out) |-> p.edges[Kth(out, k)][2]]

----------------------------------------------------------------------------
(* The walk *)

WalkStart(root) == [cyclic |-> FALSE, seen |-> {}, stack |-> <<root>>]

\* Mutant: a node that is seen again is passed over.
VisitOn(p, w) ==
  IF w.stack = <<>> THEN w
  ELSE LET n == Last(w.stack) IN
    IF n \in w.seen THEN [w EXCEPT !.stack = Front(@)]
    ELSE [w EXCEPT !.seen = @ \cup {n}, !.stack = Front(@) \o Below(p, n)]

\* A turn of the loop, which ends with the stack or with a node seen twice.
Visit(p, w) ==
  IF w.stack = <<>> THEN w
  ELSE LET n == Last(w.stack) IN
    IF n \in w.seen THEN [w EXCEPT !.cyclic = TRUE]
    ELSE [w EXCEPT !.seen = @ \cup {n}, !.stack = Front(@) \o Below(p, n)]

\* What is seen from the root, depth first.  Every turn but the last sees a
\* node that was not seen before.
Walk(p) ==
  LET walk[k \in Nat] == IF k = 0 THEN WalkStart(RootId(p)) ELSE Visit(p, walk[k - 1])
  IN  walk[Cardinality(Ids(p)) + 1]

----------------------------------------------------------------------------
(* The findings *)

When(found, finding) == IF found THEN <<finding>> ELSE <<>>

\* The kind looked up for the root is that of the last node with its id.
KindOfRoot(p) ==
  LET last == CHOOSE i \in DOMAIN p.nodes :
                /\ p.nodes[i].id = RootId(p)
                /\ \A k \in DOMAIN p.nodes : k > i => p.nodes[k].id # RootId(p)
  IN  p.nodes[last].kind

\* What is found once there is a root.
WalkFindings(p) ==
  IF Walk(p).cyclic THEN <<"cyclic">>
  ELSE When(Walk(p).seen # Ids(p), "notConnected") \o When(KindOfRoot(p) # "root", "rootKind")

\* validate_scaffold_proposal
Findings(p) ==
  When(Cardinality(Ids(p)) # Len(p.nodes), "idTwice")
    \o When(~IsInjective(Indexes(p)), "indexTwice")
    \o When(Cardinality(Roots(p)) # 1, "notOneRoot")
    \o EdgeFindings(p)
    \o IF Roots(p) = {} THEN <<>> ELSE WalkFindings(p)

----------------------------------------------------------------------------
(* What a course graph is: named nodes of which one is the root, and as    *)
(* many edges as it takes to reach each of the others from it, so that no  *)
(* set of nodes without one of them has the root and is closed under the   *)
(* edges.                                                                  *)
IsCourseTree(p) ==
  /\ Cardinality(Ids(p)) = Len(p.nodes)
  /\ \A i, k \in DOMAIN p.nodes : p.nodes[i].index = p.nodes[k].index => i = k
  /\ Cardinality(Roots(p)) = 1
  /\ \A i \in DOMAIN p.edges : {p.edges[i][1], p.edges[i][2]} \subseteq Ids(p)
  /\ Len(p.edges) = Len(p.nodes) - 1
  /\ \A S \in SUBSET Ids(p) :
       /\ RootId(p) \in S
       /\ \A i \in DOMAIN p.edges : p.edges[i][1] \in S => p.edges[i][2] \in S
       => S = Ids(p)
=============================================================================
