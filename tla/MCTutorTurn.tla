----------------------------- MODULE MCTutorTurn -----------------------------
(* Two turns of an orderly session, or one of a session whose patches fail  *)
(* and come late.  Sessions share no state, so only the turns of one are    *)
(* called; the others count as done from the start.                         *)
EXTENDS TutorTurn

CONSTANTS t1, t2, t3, calm, rough

MCTurns == {t1, t2, t3}
MCSessionOf == [t \in MCTurns |-> IF t \in {t1, t2} THEN calm ELSE rough]

MCInit ==
  /\ \E s \in Sessions :
       pc = [t \in Turns |-> IF SessionOf[t] = s THEN "new" ELSE "done"]
  /\ attempts = [t \in Turns |-> 0]
  /\ written = [t \in Turns |-> 0]
  /\ flushed = [t \in Turns |-> 0]
  /\ rejected = [t \in Turns |-> 0]
  /\ draft = [s \in Sessions |-> NoText]
  /\ late = {}
  /\ told = [t \in Turns |-> Silent]

MCSpec == MCInit /\ [][Next]_vars /\ Fairness
===============================================================================
