-------------------------- MODULE GenerationPromise --------------------------
(***************************************************************************)
(* What invoke_content_generation promises its caller: the lesson, the     *)
(* quiz and the project are made in this order, each from the lesson       *)
(* before it; an answer is what was made once the graph had finished, and  *)
(* a caller that was answered, or got an exception, has no graph left at   *)
(* work for it.  No queue, no deadline, no retries: only a caller that is  *)
(* cancelled may leave a graph behind.                                     *)
(***************************************************************************)
VARIABLES made,    \* the artifacts the graph has made
          graph,   \* "working", "finished", "failed" or "stopped"
          answer,  \* "none", "given", "raised" or "cancelled"
          given    \* the artifacts of an answer that was given

promiseVars == <<made, graph, answer, given>>

Init == made = {} /\ graph = "working" /\ answer = "none" /\ given = {}

Waited == answer \in {"none", "cancelled"}

\* The artifacts that may follow those made.
Following(m) == CASE m = {} -> {"lesson"}
                  [] m = {"lesson"} -> {"quiz"}
                  [] m = {"lesson", "quiz"} -> {"pbl"}
                  [] OTHER -> {}

Make == /\ graph = "working"
        /\ Waited
        /\ \E a \in Following(made) : made' = made \cup {a}
        /\ UNCHANGED <<graph, answer, given>>

EndGraph == /\ graph = "working"
            /\ Waited
            /\ graph' \in {"finished", "failed"}
            /\ UNCHANGED <<made, answer, given>>

Answer == /\ answer = "none"
          /\ graph = "finished"
          /\ answer' = "given"
          /\ given' = made
          /\ UNCHANGED <<made, graph>>

Raise == /\ answer = "none"
         /\ answer' = "raised"
         /\ graph' = IF graph = "working" THEN "stopped" ELSE graph
         /\ UNCHANGED <<made, given>>

Cancelled == /\ answer = "none"
             /\ answer' = "cancelled"
             /\ \/ UNCHANGED graph
                \/ graph = "working" /\ graph' = "stopped"
             /\ UNCHANGED <<made, given>>

Stop == /\ graph = "working"
        /\ answer = "cancelled"
        /\ graph' = "stopped"
        /\ UNCHANGED <<made, answer, given>>

Next == Make \/ EndGraph \/ Answer \/ Raise \/ Cancelled \/ Stop

Spec == Init /\ [][Next]_promiseVars
=============================================================================
