--------------------------- MODULE MCProjectReview ---------------------------
(* Two calls through the tool cache, or two of one job, one of which does   *)
(* not persist, after a first delivery, or one call before it.  Calls with  *)
(* a job and calls without share no state but the deliveries, so those not  *)
(* called count as done from the start.                                     *)
EXTENDS ProjectReview

CONSTANTS a, b, c, d, j

MCCalls == {a, b, c, d}
MCJobOf == [x \in MCCalls |-> IF x \in {c, d} THEN j ELSE NoJob]
MCPersists == [x \in MCCalls |-> x # d]

MCInit ==
  /\ \E called \in {{a, b}, {c, d}, {c}} :
       /\ pc = [x \in Calls |-> IF x \in called THEN "new" ELSE "done"]
       /\ latest = IF called = {c} THEN 0 ELSE 1
  /\ InitGraph
  /\ InitWorld

MCSpec == MCInit /\ [][Next]_vars /\ Fairness
===============================================================================
