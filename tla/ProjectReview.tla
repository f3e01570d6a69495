---------------------------- MODULE ProjectReview ----------------------------
(***************************************************************************)
(* project_review of interface/custom_tools_project_review.py and the      *)
(* graph it runs (application/agents/project_review), over the repository  *)
(* that reads deliveries and posts grades.  Calls with a job report to its *)
(* row; calls without one go through the tool cache, whose key has the     *)
(* arguments but no delivery.                                              *)
(*                                                                         *)
(* A delivery is its number in the order the learner handed them in, and a *)
(* model's reply is what the rules about scores and comments make of it.   *)
(***************************************************************************)
EXTENDS Integers, FiniteSets

CONSTANTS Calls,         \* the calls of project_review, about one project
          Jobs, NoJob,   \* rows of ai_generation_jobs, and no row
          JobOf,         \* the job_id of each call
          Persists,      \* its argument persist
          NodeRetries,   \* node_retries
          MaxDeliveries, \* bound of the model: deliveries handed in
          MaxLate        \* bound of the model: requests on their way at a time

ASSUME CallAssumption ==
  /\ JobOf \in [Calls -> Jobs \cup {NoJob}] /\ NoJob \notin Jobs
  /\ Persists \in [Calls -> BOOLEAN]
ASSUME BoundAssumption ==
  NodeRetries \in Nat /\ MaxDeliveries \in Nat /\ MaxLate \in Nat

VARIABLES pc,       \* where each call is
          seen,     \* context.latest_delivery_id, 0 for None
          tries,    \* the tries of grade_delivery that raised
          scored,   \* the reply state.score and state.comment are from
          failed,   \* state.error
          entry,    \* the tool cache's entry for persist or not, 0 for none
          latest, began, stored, told, row,  \* see ReviewPromise
          late,     \* grades posted by callers that gave up
          lateRow   \* updates of rows that were given up

graphVars == <<pc, seen, tries, scored, failed>>
worldVars == <<latest, began, stored, told, row>>
vars == <<graphVars, entry, worldVars, late, lateRow>>

Nodes == {"collect", "grade", "validate", "persist"}
Reporting == {"starting", "succeeding", "failing"}
Active == Nodes \cup Reporting \cup {"lookup", "finish"}

Replies == {"good", "malformed", "out of range", "bad comment"}
Grades == [by : Calls, delivery : 1..MaxDeliveries]
Statuses == [status : {"queued", "running", "succeeded", "failed"},
             delivery : 0..MaxDeliveries]
Answers == [kind : {"nothing", "error", "cancelled", "persisted", "unsaved"},
            delivery : 0..MaxDeliveries, cached : BOOLEAN]
Untold == [kind |-> "nothing", delivery |-> 0, cached |-> FALSE]

TypeOK ==
  /\ pc \in [Calls -> {"new", "done"} \cup Active]
  /\ seen \in [Calls -> 0..MaxDeliveries]
  /\ tries \in [Calls -> 0..NodeRetries]
  /\ scored \in [Calls -> Replies \cup {"none"}]
  /\ failed \in [Calls -> BOOLEAN]
  /\ entry \in [BOOLEAN -> 0..MaxDeliveries]
  /\ latest \in 0..MaxDeliveries
  /\ began \in [Calls -> -1..MaxDeliveries]
  /\ stored \subseteq Grades
  /\ told \in [Calls -> Answers]
  /\ row \in [Jobs -> Statuses]
  /\ late \subseteq Grades
  /\ lateRow \subseteq [job : Jobs, update : Statuses]

\* initial_project_review_state, of every call.
InitGraph ==
  /\ seen = [c \in Calls |-> 0]
  /\ tries = [c \in Calls |-> 0]
  /\ scored = [c \in Calls |-> "none"]
  /\ failed = [c \in Calls |-> FALSE]

InitWorld ==
  /\ entry = [p \in BOOLEAN |-> 0]
  /\ latest \in 0..MaxDeliveries
  /\ began = [c \in Calls |-> -1]
  /\ stored = {} /\ late = {} /\ lateRow = {}
  /\ told = [c \in Calls |-> Untold]
  /\ row = [j \in Jobs |-> [status |-> "queued", delivery |-> 0]]

Init == pc = [c \in Calls |-> "new"] /\ InitGraph /\ InitWorld

Goto(c, p) == pc' = [pc EXCEPT ![c] = p]

Kind(c) == IF Persists[c] THEN "persisted" ELSE "unsaved"

\* The call ends, and its variables with it.
Answer(c, k, d, hit) ==
  /\ told' = [told EXCEPT ![c] = [kind |-> k, delivery |-> d, cached |-> hit]]
  /\ seen' = [seen EXCEPT ![c] = 0]
  /\ tries' = [tries EXCEPT ![c] = 0]
  /\ scored' = [scored EXCEPT ![c] = "none"]
  /\ failed' = [failed EXCEPT ![c] = FALSE]
  /\ Goto(c, "done")

MoreOnTheWay == Cardinality(late) + Cardinality(lateRow) < MaxLate

----------------------------------------------------------------------------
(* The row *)

\* report_ai_generation_job returns, whatever came of the update: executed,
\* lost, or still on its way.
Reported(j, s, d) ==
  LET u == [status |-> s, delivery |-> d] IN
  \/ row' = [row EXCEPT ![j] = u] /\ UNCHANGED lateRow
  \/ UNCHANGED <<row, lateRow>>
  \/ /\ MoreOnTheWay
     /\ lateRow' = lateRow \cup {[job |-> j, update |-> u]}
     /\ UNCHANGED row

\* The report a call is at.
Reports(c) ==
  \/ pc[c] = "starting" /\ Reported(JobOf[c], "running", 0)
  \/ pc[c] = "succeeding" /\ Reported(JobOf[c], "succeeded", seen[c])
  \/ pc[c] = "failing" /\ Reported(JobOf[c], "failed", 0)

\* An update that was given up is executed after all.
RowArrives(x) ==
  /\ x \in lateRow
  /\ row' = [row EXCEPT ![x.job] = x.update]
  /\ lateRow' = lateRow \ {x}
  /\ UNCHANGED <<graphVars, entry, latest, began, stored, told, late>>

----------------------------------------------------------------------------
(* The tool *)

\* project_review is called.
Call(c) ==
  /\ pc[c] = "new"
  /\ began' = [began EXCEPT ![c] = latest]
  /\ Goto(c, IF JobOf[c] = NoJob THEN "lookup" ELSE "starting")
  /\ UNCHANGED <<seen, tries, scored, failed, entry, latest, stored, told, row, late, lateRow>>

\* The job's row is written running, whatever it says.
ReportRunning(c) ==
  /\ pc[c] = "starting"
  /\ Reports(c)
  /\ Goto(c, "collect")
  /\ UNCHANGED <<seen, tries, scored, failed, entry, latest, began, stored, told, late>>

\* _cached_tool_invoke: an entry is the answer ...
Hit(c) ==
  /\ pc[c] = "lookup"
  /\ entry[Persists[c]] # 0
  /\ Answer(c, Kind(c), entry[Persists[c]], TRUE)
  /\ UNCHANGED <<entry, latest, began, stored, row, late, lateRow>>

\* ... and none, or a GET that fails, lets the graph run.
Miss(c) ==
  /\ pc[c] = "lookup"
  /\ Goto(c, "collect")
  /\ UNCHANGED <<seen, tries, scored, failed, entry, worldVars, late, lateRow>>

\* The entry is written, unless the SET fails.
Cached(c, d) == entry' \in {entry, [entry EXCEPT ![Persists[c]] = d]}

\* The graph raised, or ended with an error and no result.
Fails(c) == Goto(c, "failing")

\* The end of _run: what there is, is the result; a job reports it.
Finish(c) ==
  /\ pc[c] = "finish"
  /\ \/ /\ failed[c] \/ JobOf[c] # NoJob
        /\ Goto(c, IF failed[c] THEN "failing" ELSE "succeeding")
        /\ UNCHANGED <<seen, tries, scored, failed, entry, told>>
     \/ /\ ~failed[c] /\ JobOf[c] = NoJob
        /\ Cached(c, seen[c])
        /\ Answer(c, Kind(c), seen[c], FALSE)
  /\ UNCHANGED <<latest, began, stored, row, late, lateRow>>

\* The last report, of a job, and the answer or the error after it.
End(c) ==
  /\ IF JobOf[c] = NoJob THEN UNCHANGED <<row, lateRow>> ELSE Reports(c)
  /\ \/ pc[c] = "succeeding" /\ Answer(c, Kind(c), seen[c], FALSE)
     \/ pc[c] = "failing" /\ Answer(c, "error", 0, FALSE)
  /\ UNCHANGED <<entry, latest, began, stored, late>>

----------------------------------------------------------------------------
(* The graph *)

\* Mutant: the delivery after the last is taken.
ReadBeyond(c) == seen' = [seen EXCEPT ![c] = latest + 1]

\* ProjectReviewRepository.collect_context: the deliveries as they are now,
\* the last of them, if any, the one to grade.
ReadDeliveries(c) == seen' = [seen EXCEPT ![c] = latest]

Collect(c) ==
  /\ pc[c] = "collect"
  /\ \/ ReadDeliveries(c) /\ Goto(c, "grade")
     \/ Fails(c) /\ UNCHANGED seen
  /\ UNCHANGED <<tries, scored, failed, entry, worldVars, late, lateRow>>

\* The range of a score, and validate_review_comment.
ScoreOk(r) == r # "out of range"
CommentOk(r) == r # "bad comment"

\* _parse_grade_json: ProjectReviewGrade applies both rules already.
Parsed(r) == r # "malformed" /\ ScoreOk(r) /\ CommentOk(r)

\* grade_delivery returns the grade of a reply it can parse, its own if there
\* is nothing to grade, or the error it met.
Grade(c) ==
  /\ pc[c] = "grade"
  /\ \/ \E r \in Replies : Parsed(r) /\ scored' = [scored EXCEPT ![c] = r] /\ UNCHANGED failed
     \/ seen[c] # 0 /\ failed' = [failed EXCEPT ![c] = TRUE] /\ UNCHANGED scored
  /\ Goto(c, "validate")
  /\ UNCHANGED <<seen, tries, entry, worldVars, late, lateRow>>

\* It times out, or finds no model: the node is tried again while its
\* RetryPolicy allows.
GradeRaises(c) ==
  /\ pc[c] = "grade"
  /\ IF tries[c] < NodeRetries
       THEN tries' = [tries EXCEPT ![c] = @ + 1] /\ UNCHANGED pc
       ELSE Fails(c) /\ UNCHANGED tries
  /\ UNCHANGED <<seen, scored, failed, entry, worldVars, late, lateRow>>

\* _route_after_validate, with the count that validate_grade has advanced.
Again(c, n) == scored[c] # "none" /\ n < 1

Validate(c) ==
  /\ pc[c] = "validate"
  /\ Goto(c, IF ~ScoreOk(scored[c]) \/ ~CommentOk(scored[c])
               THEN IF Again(c, 1) THEN "grade" ELSE "persist"
               ELSE "persist")
  /\ UNCHANGED <<seen, tries, scored, failed, entry, worldVars, late, lateRow>>

\* Mutant: a POST that failed is tried once more, by grading again.
RetriedPost(c) ==
  LET g == [by |-> c, delivery |-> seen[c]] IN
  \/ stored' = stored \cup {g} /\ Goto(c, "finish") /\ UNCHANGED late
  \/ stored' = stored \cup {g} /\ Goto(c, "collect") /\ UNCHANGED late
  \/ Fails(c) /\ UNCHANGED <<stored, late>>

\* The POST of EF7: stored and answered, or the answer is lost and the grade
\* is stored, is not, or will be.
Post(c) ==
  LET g == [by |-> c, delivery |-> seen[c]] IN
  \/ stored' = stored \cup {g} /\ Goto(c, "finish") /\ UNCHANGED late
  \/ stored' = stored \cup {g} /\ Fails(c) /\ UNCHANGED late
  \/ Fails(c) /\ UNCHANGED <<stored, late>>
  \/ /\ MoreOnTheWay
     /\ late' = late \cup {g}
     /\ Fails(c)
     /\ UNCHANGED stored

Persist(c) ==
  /\ pc[c] = "persist"
  /\ IF failed[c] \/ scored[c] = "none" \/ seen[c] = 0
       THEN failed' = [failed EXCEPT ![c] = TRUE] /\ Goto(c, "finish") /\ UNCHANGED <<stored, late>>
     ELSE IF ~Persists[c]
       THEN Goto(c, "finish") /\ UNCHANGED <<failed, stored, late>>
     ELSE Post(c) /\ UNCHANGED failed
  /\ UNCHANGED <<seen, tries, scored, entry, latest, began, told, row, lateRow>>

\* The timeout of the workflow or of a node without retries: it strikes at an
\* await, so not within persist_grade, which blocks, but right after it.
TimesOut(c) ==
  /\ pc[c] \in {"collect", "grade", "validate", "finish"}
  /\ Fails(c)
  /\ UNCHANGED <<seen, tries, scored, failed, entry, worldVars, late, lateRow>>

\* The client cancels: CancelledError passes except Exception, and a report
\* in flight may still be executed.
Cancel(c) ==
  /\ pc[c] \in Active \ {"persist"}
  /\ Answer(c, "cancelled", 0, FALSE)
  /\ UNCHANGED <<row, lateRow>> \/ (JobOf[c] # NoJob /\ Reports(c))
  /\ UNCHANGED <<entry, latest, began, stored, late>>

----------------------------------------------------------------------------
(* The world *)

Submit ==
  /\ latest < MaxDeliveries
  /\ latest' = latest + 1
  /\ UNCHANGED <<graphVars, entry, began, stored, told, row, late, lateRow>>

GradeArrives(g) ==
  /\ g \in late
  /\ stored' = stored \cup {g}
  /\ late' = late \ {g}
  /\ UNCHANGED <<graphVars, entry, latest, began, told, row, lateRow>>

\* The entry's time to live is over.
Expire(p) ==
  /\ entry[p] # 0
  /\ entry' = [entry EXCEPT ![p] = 0]
  /\ UNCHANGED <<graphVars, worldVars, late, lateRow>>

Run(c) ==
  \/ Call(c) \/ ReportRunning(c) \/ Hit(c) \/ Miss(c)
  \/ Collect(c) \/ Grade(c) \/ GradeRaises(c) \/ Validate(c) \/ Persist(c)
  \/ Finish(c) \/ End(c) \/ TimesOut(c)

World ==
  \/ Submit
  \/ \E g \in late : GradeArrives(g)
  \/ \E x \in lateRow : RowArrives(x)
  \/ \E p \in BOOLEAN : Expire(p)

Next == World \/ \E c \in Calls : Run(c) \/ Cancel(c)

\* The client's calls have timeouts of their own, and so has the graph: what
\* was begun goes on.
Fairness == \A c \in Calls : WF_vars(Run(c) /\ pc[c] # "new")

Spec == Init /\ [][Next]_vars /\ Fairness

----------------------------------------------------------------------------
(* Properties *)

\* The tool keeps ReviewPromise: one grade a call, of no superseded delivery;
\* "persisted" is told of stored grades only; no success is made up.
Promise == INSTANCE ReviewPromise
ImplementsReviewPromise == Promise!Spec

\* Every call that was begun ends, although its model raises and its posts
\* are lost (custom_tools_project_review.py project_review).
EveryReviewEnds == \A c \in Calls : pc[c] # "new" ~> pc[c] = "done"
===============================================================================
