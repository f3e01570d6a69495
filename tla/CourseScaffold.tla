--------------------------- MODULE CourseScaffold ---------------------------
(***************************************************************************)
(* application/course_scaffold_runner.py, with the graph of                *)
(* application/agents/course_scaffold and generate_course_scaffold of      *)
(* interface/custom_tools_authoring.py: a model is asked for a course      *)
(* graph, shown what is wrong with its answer, and asked again.            *)
(*                                                                         *)
(* The model is a CachedChatModel: its completions are kept under the      *)
(* request and the errors shown with it, whatever becomes of them.  This   *)
(* server never says that a job succeeded: the backend does, when it has   *)
(* stored the proposal it was answered.                                    *)
(*                                                                         *)
(* A call's last reply stands for the graph's proposal and errors.  On a   *)
(* Reliable job reports arrive and no call is cancelled.                   *)
(***************************************************************************)
EXTENDS ScaffoldRules

CONSTANTS Calls, Jobs, NoJob,
          JobOf,        \* the job_id of each call, or NoJob
          RequestOf,    \* what each call asks for
          Replies,      \* what the model may reply to each request
          Stored,       \* result_ref of a job that succeeded earlier
          Cached,       \* the requests whose completions are cached
          Reliable,     \* the jobs whose reports arrive
          Retries,      \* validation_retries
          NodeRetries   \* node_retries

ASSUME ScaffoldAssumption ==
  /\ JobOf \in [Calls -> Jobs \cup {NoJob}]
  /\ NoJob \notin Jobs
  /\ Reliable \subseteq Jobs
  /\ Retries \in Nat /\ NodeRetries \in Nat
  /\ \A r \in Stored \cup UNION {Replies[RequestOf[c]] : c \in Calls} :
       r.is = "proposal" => IsProposal(r.proposal)

VARIABLES pc,        \* where each call is suspended
          attempts,  \* failed attempts of the node in hand
          count,     \* generate_retry_count
          reply,     \* the model's last reply to each call
          cause,     \* why the call fails: what the reply lacks, or an exception
          told,      \* what each call was answered
          asked,     \* completions of the model per call
          row,       \* the row of each job
          cache      \* completions by request and errors shown

vars == <<pc, attempts, count, reply, cause, told, asked, row, cache>>

NoReply == [is |-> "none"]
Untold == [is |-> "untold"]
Raised == [is |-> "error"]
Proposed(p) == [is |-> "proposal", proposal |-> p]

\* raw_forbidden_body_keys: a course graph with texts of lessons in it is no
\* proposal.
HasBodies(r) == r.is = "proposal" /\ "body" \in DOMAIN r

\* validation_errors after a reply: what it is instead of a proposal, or the
\* findings about it.
Errors(r) ==
  CASE r.is = "none"    -> <<>>
    [] r.is = "notJson" -> <<"notJson">>
    [] HasBodies(r)     -> <<"bodyKeys">>
    [] OTHER            -> Findings(r.proposal)
Usable(r) == r.is = "proposal" /\ Errors(r) = <<>>

Asking == {"generate", "asking"}
InGraph == Asking \cup {"validate", "settle"}
Active == InGraph \cup {"claim", "failing", "raising"}
Ended == {"done", "cancelled"}
Statuses == {"queued", "running", "failed", "succeeded"}

TypeOK ==
  /\ pc \in [Calls -> {"new"} \cup Active \cup Ended]
  /\ attempts \in [Calls -> 0..NodeRetries]
  /\ count \in [Calls -> 0..(Retries + 1)]
  /\ \A c \in Calls : reply[c] \in Replies[RequestOf[c]] \cup {NoReply}
  /\ cause \in [Calls -> {"none", "reply", "exception"}]
  /\ \A c \in Calls : told[c].is \in {"untold", "error", "proposal"}
  /\ \A j \in Jobs : row[j].status \in Statuses

Init ==
  /\ pc = [c \in Calls |-> "new"]
  /\ attempts = [c \in Calls |-> 0]
  /\ count = [c \in Calls |-> 0]
  /\ reply = [c \in Calls |-> NoReply]
  /\ cause = [c \in Calls |-> "none"]
  /\ told = [c \in Calls |-> Untold]
  /\ asked = [c \in Calls |-> 0]
  /\ row \in [Jobs -> {[status |-> "queued", ref |-> NoReply]}
                        \cup {[status |-> "succeeded", ref |-> s] : s \in Stored}]
  /\ cache = {}

Goto(c, p) == pc' = [pc EXCEPT ![c] = p]

\* report_ai_generation_job: a partial update of the row, or none.
Report(c, s) ==
  IF JobOf[c] = NoJob THEN UNCHANGED row
  ELSE \/ row' = [row EXCEPT ![JobOf[c]].status = s]
       \/ JobOf[c] \notin Reliable /\ UNCHANGED row

----------------------------------------------------------------------------
\* load_succeeded_scaffold_proposal: what the job has stored is validated
\* again, and is the answer if it is still usable ...
Replay(c) ==
  /\ pc[c] = "new" /\ JobOf[c] # NoJob
  /\ row[JobOf[c]].status = "succeeded"
  /\ Usable(row[JobOf[c]].ref)
  /\ told' = [told EXCEPT ![c] = Proposed(row[JobOf[c]].ref.proposal)]
  /\ Goto(c, "done")
  /\ UNCHANGED <<attempts, count, reply, cause, asked, row, cache>>

\* ... else, or when the row cannot be read, the job runs.
Start(c) ==
  /\ pc[c] = "new"
  /\ Goto(c, "claim")
  /\ UNCHANGED <<attempts, count, reply, cause, told, asked, row, cache>>

Claim(c) ==
  /\ pc[c] = "claim"
  /\ Report(c, "running")
  /\ Goto(c, "generate")
  /\ UNCHANGED <<attempts, count, reply, cause, told, asked, cache>>

\* The stream of the graph's events: each is reported.
Progress(c) ==
  /\ pc[c] \in InGraph
  /\ Report(c, "running")
  /\ UNCHANGED <<pc, attempts, count, reply, cause, told, asked, cache>>

Key(c) == <<RequestOf[c], Errors(reply[c])>>

Read(c, r) ==
  /\ reply' = [reply EXCEPT ![c] = r]
  /\ attempts' = [attempts EXCEPT ![c] = 0]
  /\ Goto(c, "validate")

\* generate: the completion is in the cache, or the model is asked for it.
Hit(c) ==
  /\ pc[c] = "generate"
  /\ \E e \in cache : e.key = Key(c) /\ Read(c, e.reply)
  /\ UNCHANGED <<count, cause, told, asked, row, cache>>

Ask(c) ==
  /\ pc[c] = "generate"
  /\ ~\E e \in cache : e.key = Key(c)
  /\ asked' = [asked EXCEPT ![c] = @ + 1]
  /\ Goto(c, "asking")
  /\ UNCHANGED <<attempts, count, reply, cause, told, row, cache>>

Answered(c) ==
  /\ pc[c] = "asking"
  /\ \E r \in Replies[RequestOf[c]] :
       /\ Read(c, r)
       /\ cache' = IF RequestOf[c] \notin Cached THEN cache
                   ELSE {e \in cache : e.key # Key(c)} \cup {[key |-> Key(c), reply |-> r]}
  /\ UNCHANGED <<count, cause, told, asked, row>>

\* Mutants: one attempt too many; one retry too many; a failed call leaves
\* its row as it is; a deadline that is only looked at between nodes.
MayAttemptMore(c) == attempts[c] <= NodeRetries
AgainMore(n) == n <= Retries + 1
FailsSilently(c, why) ==
  /\ cause' = [cause EXCEPT ![c] = why]
  /\ told' = [told EXCEPT ![c] = Raised]
  /\ Goto(c, "done")
TimesOutBetween(c) ==
  /\ pc[c] \in {"validate", "settle"}
  /\ FailsSilently(c, "exception")
  /\ UNCHANGED <<attempts, count, reply, asked, row, cache>>

\* RetryPolicy(max_attempts=node_retries + 1).
MayAttempt(c) == attempts[c] < NodeRetries

\* The run raises, and its handler will report that it failed.
Fails(c, why) ==
  /\ cause' = [cause EXCEPT ![c] = why]
  /\ Goto(c, "failing")
  /\ UNCHANGED told

\* The model raises, or the node times out: another attempt, or the end.
NodeRaises(c) ==
  /\ pc[c] \in Asking
  /\ \/ /\ MayAttempt(c)
        /\ attempts' = [attempts EXCEPT ![c] = @ + 1]
        /\ Goto(c, "generate")
        /\ UNCHANGED <<cause, told>>
     \/ Fails(c, "exception") /\ UNCHANGED attempts
  /\ UNCHANGED <<count, reply, asked, row, cache>>

\* _route_after_validate, of the count it finds.
Again(n) == n <= Retries

Validate(c) ==
  /\ pc[c] = "validate"
  /\ IF Usable(reply[c])
     THEN Goto(c, "settle") /\ UNCHANGED count
     ELSE /\ count' = [count EXCEPT ![c] = @ + 1]
          /\ Goto(c, IF Again(count[c] + 1) THEN "generate" ELSE "settle")
  /\ UNCHANGED <<attempts, reply, cause, told, asked, row, cache>>

\* _proposal_from_state: the answer, or the errors of the last reply.
Settle(c) ==
  /\ pc[c] = "settle"
  /\ IF Usable(reply[c])
     THEN /\ told' = [told EXCEPT ![c] = Proposed(reply[c].proposal)]
          /\ Goto(c, "done")
          /\ UNCHANGED cause
     ELSE Fails(c, "reply")
  /\ UNCHANGED <<attempts, count, reply, asked, row, cache>>

\* The deadline of the stream, or of ainvoke_with_workflow_timeout.
TimesOut(c) ==
  /\ pc[c] \in InGraph
  /\ Fails(c, "exception")
  /\ UNCHANGED <<attempts, count, reply, asked, row, cache>>

\* The runner reports the failure with its errors and raises; the tool then
\* reports it again, with a text that stands for any.
Failing(c) ==
  /\ pc[c] \in {"failing", "raising"}
  /\ Report(c, "failed")
  /\ IF pc[c] = "failing"
     THEN Goto(c, "raising") /\ UNCHANGED told
     ELSE Goto(c, "done") /\ told' = [told EXCEPT ![c] = Raised]
  /\ UNCHANGED <<attempts, count, reply, cause, asked, cache>>

\* CancelledError passes the handlers; a report in flight may have arrived.
Cancel(c) ==
  /\ pc[c] \in Active
  /\ JobOf[c] \notin Reliable
  /\ \/ UNCHANGED row
     \/ pc[c] \in {"claim"} \cup InGraph /\ Report(c, "running")
     \/ pc[c] \in {"failing", "raising"} /\ Report(c, "failed")
  /\ Goto(c, "cancelled")
  /\ UNCHANGED <<attempts, count, reply, cause, told, asked, cache>>

\* The backend stores a proposal that a call of the job was answered.
Stores(c) ==
  /\ pc[c] = "done" /\ JobOf[c] # NoJob /\ told[c].is = "proposal"
  /\ row' = [row EXCEPT ![JobOf[c]] = [status |-> "succeeded", ref |-> told[c]]]
  /\ UNCHANGED <<pc, attempts, count, reply, cause, told, asked, cache>>

Expire ==
  /\ \E e \in cache : cache' = cache \ {e}
  /\ UNCHANGED <<pc, attempts, count, reply, cause, told, asked, row>>

Run(c) ==
  \/ Claim(c) \/ Hit(c) \/ Ask(c) \/ Answered(c) \/ NodeRaises(c)
  \/ Validate(c) \/ Settle(c) \/ TimesOut(c) \/ Failing(c)

Next ==
  \/ \E c \in Calls : Replay(c) \/ Start(c) \/ Run(c) \/ Progress(c) \/ Cancel(c) \/ Stores(c)
  \/ Expire

\* Reports give up and deadlines strike; nothing is assumed of the model.
Fairness == \A c \in Calls : WF_vars(Claim(c) \/ TimesOut(c) \/ Failing(c))

Spec == Init /\ [][Next]_vars /\ Fairness

----------------------------------------------------------------------------
(* Properties *)

\* validate_scaffold_proposal and the graph around it: whatever the model
\* replies, in whatever order it lists nodes and edges, and whatever a row
\* holds, a call is answered with a course tree or with an error, and a reply
\* that is a course tree is not turned down.
AnswersAreTrees ==
  \A c \in Calls :
    /\ told[c].is = "proposal" => IsCourseTree(told[c].proposal)
    /\ cause[c] = "reply" /\ reply[c].is = "proposal" /\ ~HasBodies(reply[c]) =>
         ~IsCourseTree(reply[c].proposal)

\* Retries of the node and of the validation, together, are bounded; a call
\* that fails for its replies has made use of all of them.
CallsBounded ==
  \A c \in Calls :
    /\ asked[c] <= (Retries + 1) * (NodeRetries + 1)
    /\ cause[c] = "reply" => count[c] = Retries + 1

\* When no call of a reliable job is at work, a row that says "running" has
\* a proposal somebody was answered and that the backend has yet to store.
RowIsNotLeftRunning ==
  \A j \in Reliable :
    /\ row[j].status = "running"
    /\ \A c \in Calls : JobOf[c] = j => pc[c] \notin Active
    => \E c \in Calls : JobOf[c] = j /\ told[c].is = "proposal"

\* Every call that was made ends, whatever the model does.
EveryCallEnds == \A c \in Calls : pc[c] \in Active ~> pc[c] \in Ended
=============================================================================
