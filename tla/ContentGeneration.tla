-------------------------- MODULE ContentGeneration --------------------------
(***************************************************************************)
(* application/agents/content_generation: the graph that makes a lesson, a *)
(* quiz and a project (graph.py, nodes.py), run by the streaming path of   *)
(* application/content_generation_runner.py: invoke_content_generation.    *)
(*                                                                         *)
(* An artifact is generated by a node that asks the model and parses its   *)
(* answer, and validated by a node that counts the failures.  A node that  *)
(* raises is attempted again by its retry policy; an artifact that is not  *)
(* valid is generated again by the retry edge.  Every event of the graph   *)
(* makes the runner report a phase: Handled is that report.                *)
(***************************************************************************)
EXTENDS WorkflowStream

CONSTANTS ValidationRetries,  \* validation_retries
          NodeRetries         \* node_retries

ASSUME RetriesAssumption ==
  /\ ValidationRetries \in Nat
  /\ NodeRetries \in Nat
  /\ Payloads = SUBSET {"lesson", "quiz", "pbl"}

VARIABLES node,      \* the kind of the node the graph is in
          of,        \* the artifact of that node
          asking,    \* whether the node awaits the model
          attempts,  \* the attempts of the node that raised
          retries,   \* lesson_retry_count, quiz_retry_count, pbl_retry_count
          have,      \* the artifacts in the state of the graph
          calls      \* the calls of the model for each artifact

graphVars == <<node, of, asking, attempts, retries, have, calls>>
vars == <<graphVars, streamVars>>

Artifacts == {"lesson", "quiz", "pbl"}

TypeOK ==
  /\ StreamTypeOK
  /\ node \in {"generate", "validate", "merge", "end", "broken"}
  /\ of \in Artifacts
  /\ asking \in BOOLEAN
  /\ attempts \in 0..NodeRetries
  /\ retries \in [Artifacts -> 0..(ValidationRetries + 1)]
  /\ have \in Payloads
  /\ calls \in [Artifacts -> Nat]

Init ==
  /\ StreamInit
  /\ node = "generate"
  /\ of = "lesson"
  /\ asking = FALSE
  /\ attempts = 0
  /\ retries = [a \in Artifacts |-> 0]
  /\ have = {}
  /\ calls = [a \in Artifacts |-> 0]

----------------------------------------------------------------------------
(* The nodes *)

\* generate_lesson, generate_quiz, generate_pbl: the model is asked.
Ask ==
  /\ Driving
  /\ node = "generate"
  /\ ~asking
  /\ asking' = TRUE
  /\ calls' = [calls EXCEPT ![of] = @ + 1]
  /\ UNCHANGED <<node, of, attempts, retries, have, streamVars>>

\* The model's answer parses, or its errors are kept for the next prompt.
Drafted ==
  /\ Driving
  /\ asking
  /\ have' \in {have, have \cup {of}}
  /\ asking' = FALSE
  /\ attempts' = 0
  /\ node' = "validate"
  /\ Put(<<Item, Item>>)
  /\ UNCHANGED <<of, retries, calls>>

\* Mutant: one attempt too many.
MayAttemptMore == attempts <= NodeRetries

\* RetryPolicy(max_attempts=node_retries + 1).
MayAttempt == attempts < NodeRetries

\* The model raises or the node times out: another attempt, if the policy
\* retries that exception, or the graph raises.
NodeRaises ==
  /\ Driving
  /\ asking
  /\ asking' = FALSE
  /\ \/ /\ MayAttempt
        /\ attempts' = attempts + 1
        /\ UNCHANGED <<node, streamVars>>
     \/ /\ node' = "broken"
        /\ PutLast(<<Raised>>)
        /\ UNCHANGED attempts
  /\ UNCHANGED <<of, retries, have, calls>>

\* Mutants of the retry edge: one retry too few, one too many.
RouteStrict(a, n) ==
  IF a \in have THEN "next" ELSE IF n < ValidationRetries THEN "again" ELSE "merge"
RouteLoose(a, n) ==
  IF a \in have THEN "next" ELSE IF n <= ValidationRetries + 1 THEN "again" ELSE "merge"

\* _route_after_validate_lesson and the two others, with the count of the
\* failures that the validation has just written.
Route(a, n) ==
  IF a \in have THEN "next" ELSE IF n <= ValidationRetries THEN "again" ELSE "merge"

\* validate_lesson, validate_quiz, validate_pbl and the edge that follows.
Validate ==
  /\ Driving
  /\ node = "validate"
  /\ retries' = IF of \in have THEN retries ELSE [retries EXCEPT ![of] = @ + 1]
  /\ LET to == Route(of, retries'[of])
     IN  /\ node' = IF to = "merge" \/ (to = "next" /\ of = "pbl")
                    THEN "merge" ELSE "generate"
         /\ of' = IF to = "next"
                  THEN IF of = "lesson" THEN "quiz" ELSE "pbl"
                  ELSE of
  /\ Put(<<Item, Item>>)
  /\ UNCHANGED <<asking, attempts, have, calls>>

\* merge_results, the end of the graph and GraphStreamComplete.
Merged ==
  /\ Driving
  /\ node = "merge"
  /\ node' = "end"
  /\ PutLast(<<Item, Complete(have)>>)
  /\ UNCHANGED <<of, asking, attempts, retries, have, calls>>

GraphStep == Ask \/ Drafted \/ NodeRaises \/ Validate \/ Merged

Rest == /\ caller \in Left
        /\ producer = "stopped"
        /\ expired
        /\ UNCHANGED vars

Next ==
  \/ GraphStep
  \/ StreamStep /\ UNCHANGED graphVars
  \/ CancelCaller /\ UNCHANGED graphVars
  \/ Rest

\* Time passes, a report gives up in the end, and a cancelled producer stops.
\* Nothing is assumed of the graph and its model.
Fairness == WF_vars(StreamStep /\ UNCHANGED graphVars)

Spec == Init /\ [][Next]_vars /\ Fairness

----------------------------------------------------------------------------
(* Properties *)

\* No artifact costs more calls of the model than the two retries allow.
CallsBounded ==
  \A a \in Artifacts : calls[a] <= (ValidationRetries + 1) * (NodeRetries + 1)

\* An answer lacks an artifact only if the model was asked for it, or for
\* one it is made from, the first time and once for every retry.
GivenUpAfterRetries ==
  caller = "answered" =>
    \A a \in Artifacts \ result.made :
      \E b \in Artifacts \ result.made : calls[b] > ValidationRetries

\* However slow the model, its graph and the reports are, the caller gets an
\* answer or an exception, and no graph is left at work.
GenerationEnds == <>[](caller \in Left /\ producer = "stopped")

Promise == INSTANCE GenerationPromise WITH
  made <- have,
  graph <- CASE node = "end" -> "finished"
             [] node = "broken" -> "failed"
             [] OTHER -> IF producer = "running" THEN "working" ELSE "stopped",
  answer <- CASE caller = "answered"  -> "given"
              [] caller = "raised"    -> "raised"
              [] caller = "cancelled" -> "cancelled"
              [] OTHER                -> "none",
  given <- IF caller = "answered" THEN result.made ELSE {}

ImplementsPromise == Promise!Spec

\* author_job_progress.py:54, "progress writes are advisory; never fail the
\* pipeline for telemetry": a generation that completed before its deadline
\* does not time out because its caller was still busy with reports.
ReportsAreAdvisory ==
  [][caller' = "timingOut" /\ caller # "timingOut" =>
       \A i \in DOMAIN queue : ~queue[i].inTime]_vars
=============================================================================
