--------------------------- MODULE AuthorPipeline ---------------------------
(***************************************************************************)
(* application/author_lesson_pipeline.py: run_author_lesson_pipeline, with *)
(* the progress row of application/author_job_progress.py and              *)
(* infrastructure/ai_generation_job_progress.py.                           *)
(*                                                                         *)
(* A run is one call of the tool with a job_id; a job may be run again     *)
(* after a failure, a lost answer or a cancellation, and several runs of   *)
(* one job or one lesson may overlap.  The row is one job's record: what   *)
(* it tells, and whether the lesson it names was saved, are the subject.   *)
(*                                                                         *)
(* On a Serial lesson the callers wait for a run to end before the next;   *)
(* on a Reliable one no request outlives its caller's patience, no GET of  *)
(* the row fails, one of the attempts of an update succeeds, and no run is *)
(* cancelled.  RPCs may fail on every lesson.                              *)
(***************************************************************************)
EXTENDS LessonSave

CONSTANTS Jobs,      \* rows of ai_generation_jobs
          JobOf,     \* the job_id of each run
          Serial,    \* the lessons whose runs do not overlap
          Attempts   \* _UPDATE_ATTEMPTS

ASSUME JobAssumption ==
  /\ JobOf \in [Runs -> Jobs]
  /\ \A r, q \in Runs : JobOf[r] = JobOf[q] => LessonOf[r] = LessonOf[q]
  /\ Serial \subseteq Lessons
ASSUME AttemptsAssumption == Attempts \in Nat \ {0}

VARIABLES pc,       \* where each run is suspended
          tries,    \* failed attempts of the update in hand
          row,      \* the row of each job
          lateRow,  \* updates whose sender gave up, still on their way
          given     \* the run whose lesson ids each run returned

jobVars == <<pc, tries, row, lateRow, given>>
vars == <<jobVars, saveVars>>

Reporting == {"claim", "phase", "presave", "invalid", "fail", "succeed"}

\* Mutants: success is reported before the save; a rejected lesson is left
\* "running"; an exception after the success report reaches the handler; a
\* failed run starts over instead of raising.
ReportedBeforeSave(p) ==
  IF p \in {"presave", "succeed"} THEN "succeeded"
  ELSE IF p \in {"invalid", "fail"} THEN "failed" ELSE "running"
ReportedNoRejection(p) ==
  IF p = "succeed" THEN "succeeded" ELSE IF p = "fail" THEN "failed" ELSE "running"
AfterSuccessRaises(p) ==
  CASE p = "claim"   -> "resolve"
    [] p = "phase"   -> "generate"
    [] p = "presave" -> "saving"
    [] p = "invalid" -> "rejected"
    [] p = "fail"    -> "failed"
    [] p = "succeed" -> "fail"
AfterFailureRestarts(p) ==
  CASE p = "claim"   -> "resolve"
    [] p = "phase"   -> "generate"
    [] p = "presave" -> "saving"
    [] p = "invalid" -> "rejected"
    [] p = "fail"    -> "claim"
    [] p = "succeed" -> "done"

\* The status each update writes, by the place it is sent from ...
Reported(p) ==
  IF p = "succeed" THEN "succeeded"
  ELSE IF p \in {"invalid", "fail"} THEN "failed" ELSE "running"

\* ... and where the run goes once the update is through or given up.
After(p) ==
  CASE p = "claim"   -> "resolve"
    [] p = "phase"   -> "generate"
    [] p = "presave" -> "saving"
    [] p = "invalid" -> "rejected"
    [] p = "fail"    -> "failed"
    [] p = "succeed" -> "done"

Ended == {"done", "replayed", "rejected", "failed", "cancelled"}
Active == {"resolve", "generate", "saving"} \cup Reporting
Statuses == {"queued", "running", "failed", "succeeded"}

TypeOK ==
  /\ SaveTypeOK
  /\ pc \in [Runs -> {"new"} \cup Active \cup Ended]
  /\ tries \in [Runs -> 0..(Attempts - 1)]
  /\ row \in [Jobs -> [status : Statuses, ref : Runs \cup {Nobody}]]
  /\ lateRow \in SUBSET (Runs \X Statuses)
  /\ given \in [Runs -> Runs \cup {Nobody}]

Init ==
  /\ SaveInit
  /\ pc = [r \in Runs |-> "new"]
  /\ tries = [r \in Runs |-> 0]
  /\ row = [j \in Jobs |-> [status |-> "queued", ref |-> Nobody]]
  /\ lateRow = {}
  /\ given = [r \in Runs |-> Nobody]

Orderly == Serial \cap Reliable
OrderlyRun(r) == LessonOf[r] \in Orderly

Goto(r, p) == pc' = [pc EXCEPT ![r] = p]

----------------------------------------------------------------------------
(* The progress row *)

\* update_ai_generation_job: a partial update, which only names the lesson
\* when it says "succeeded" and leaves the rest of the row as it is.
Write(r, s) ==
  row' = [row EXCEPT ![JobOf[r]] =
            [status |-> s, ref |-> IF s = "succeeded" THEN r ELSE @.ref]]

\* Mutant: one attempt too many.
GivesUpLate(r) == tries[r] = Attempts

\* The attempt was the last: the warning is logged and the run goes on.
GivesUp(r) == tries[r] + 1 = Attempts

Delivered(r) ==
  /\ pc[r] \in Reporting
  /\ Write(r, Reported(pc[r]))
  /\ Goto(r, After(pc[r]))
  /\ tries' = [tries EXCEPT ![r] = 0]
  /\ given' = IF pc[r] = "succeed" THEN [given EXCEPT ![r] = r] ELSE given
  /\ UNCHANGED <<lateRow, saveVars>>

\* An attempt fails: refused, executed without an answer, or timed out and
\* executed some time later.
AttemptFails(r) ==
  /\ pc[r] \in Reporting
  /\ \/ UNCHANGED <<row, lateRow>>
     \/ Write(r, Reported(pc[r])) /\ UNCHANGED lateRow
     \/ /\ LessonOf[r] \notin Reliable
        /\ lateRow' = lateRow \cup {<<r, Reported(pc[r])>>}
        /\ UNCHANGED row
  /\ IF GivesUp(r)
     THEN /\ LessonOf[r] \notin Reliable
          /\ Goto(r, After(pc[r]))
          /\ tries' = [tries EXCEPT ![r] = 0]
          /\ given' = IF pc[r] = "succeed" THEN [given EXCEPT ![r] = r] ELSE given
     ELSE /\ tries' = [tries EXCEPT ![r] = @ + 1]
          /\ UNCHANGED <<pc, given>>
  /\ UNCHANGED saveVars

\* An update whose sender gave up reaches the row.
RowArrives(r, s) ==
  /\ <<r, s>> \in lateRow
  /\ Write(r, s)
  /\ lateRow' = lateRow \ {<<r, s>>}
  /\ UNCHANGED <<pc, tries, given, saveVars>>

----------------------------------------------------------------------------
(* run_author_lesson_pipeline *)

MayStart(r) ==
  /\ pc[r] = "new"
  /\ LessonOf[r] \in Serial =>
       \A q \in Runs : LessonOf[q] = LessonOf[r] => pc[q] \notin Active

\* Mutant: the row is not looked at.
StartUnchecked(r) ==
  /\ MayStart(r)
  /\ Goto(r, "claim")
  /\ UNCHANGED <<tries, row, lateRow, given, saveVars>>

\* A job that already succeeded, or whose row cannot be read, runs.
Start(r) ==
  /\ MayStart(r)
  /\ row[JobOf[r]].status # "succeeded" \/ LessonOf[r] \notin Reliable
  /\ Goto(r, "claim")
  /\ UNCHANGED <<tries, row, lateRow, given, saveVars>>

\* A job that succeeded is not run again: its lesson ids are returned.
Replay(r) ==
  /\ MayStart(r)
  /\ row[JobOf[r]].status = "succeeded"
  /\ row[JobOf[r]].ref # Nobody
  /\ given' = [given EXCEPT ![r] = row[JobOf[r]].ref]
  /\ Goto(r, "replayed")
  /\ UNCHANGED <<tries, row, lateRow, saveVars>>

\* resolve_graph_node returns, in its thread, and generation begins.
Resolved(r) ==
  /\ pc[r] = "resolve"
  /\ Goto(r, "generate")
  /\ UNCHANGED <<tries, row, lateRow, given, saveVars>>

\* The graph enters or leaves a node that has a phase.
PhaseChanges(r) ==
  /\ pc[r] = "generate"
  /\ Goto(r, "phase")
  /\ UNCHANGED <<tries, row, lateRow, given, saveVars>>

\* The stream completes and the drafts are validated: a lesson with errors
\* ends the run, a quiz or project with errors is left out of the bundle.
Generated(r) ==
  /\ pc[r] = "generate"
  /\ \/ /\ Goto(r, "invalid")
        /\ UNCHANGED bundle
     \/ /\ \E b \in Bundles :
             /\ "badBoilerplate" \notin b
             /\ bundle' = [bundle EXCEPT ![r] = b]
        /\ Goto(r, "presave")
  /\ UNCHANGED <<tries, row, lateRow, given, step, lesson, part, late>>

\* The search, the stream or its deadline raises, or there is no lesson.
GenerationRaises(r) ==
  /\ pc[r] \in {"resolve", "generate"}
  /\ Goto(r, "fail")
  /\ UNCHANGED <<tries, row, lateRow, given, saveVars>>

\* for_jwt and save_lesson_bundle, to the return or the exception.
SaveStep(r) ==
  /\ pc[r] = "saving"
  /\ Begin(r, bundle[r]) \/ Refuse(r) \/ Answered(r) \/ Broken(r)
  /\ Goto(r, CASE step'[r] = "saved"  -> "succeed"
               [] step'[r] = "broken" -> "fail"
               [] OTHER               -> "saving")
  /\ UNCHANGED <<tries, row, lateRow, given>>

\* The call is cancelled: CancelledError passes every handler, and nothing
\* is reported.  A request it was awaiting may have been executed, or will.
Cancel(r) ==
  /\ pc[r] \in Active
  /\ LessonOf[r] \notin Reliable
  /\ Goto(r, "cancelled")
  /\ \/ /\ Broken(r)
        /\ UNCHANGED <<row, lateRow>>
     \/ /\ step[r] \notin Rpcs
        /\ \/ UNCHANGED <<row, lateRow>>
           \/ pc[r] \in Reporting /\ Write(r, Reported(pc[r])) /\ UNCHANGED lateRow
           \/ /\ pc[r] \in Reporting
              /\ lateRow' = lateRow \cup {<<r, Reported(pc[r])>>}
              /\ UNCHANGED row
        /\ UNCHANGED saveVars
  /\ UNCHANGED <<tries, given>>

GenerationEnds(r) == Generated(r) \/ GenerationRaises(r)

\* What the event loop and the servers do for a run that was started.
Run(r) ==
  \/ Delivered(r) \/ AttemptFails(r)
  \/ Resolved(r) \/ PhaseChanges(r) \/ GenerationEnds(r)
  \/ SaveStep(r)

Rest == /\ \A r \in Runs : pc[r] \in {"new"} \cup Ended
        /\ UNCHANGED vars

Next ==
  \/ \E r \in Runs : Start(r) \/ Replay(r) \/ Run(r) \/ Cancel(r)
  \/ \E r \in Runs, s \in Rpcs : Arrives(r, s) /\ UNCHANGED jobVars
  \/ \E r \in Runs, s \in Statuses : RowArrives(r, s)
  \/ Rest

\* Every request is answered or times out, and a generation, which reports
\* a phase now and then, is ended by its own deadline (ContentGeneration's
\* GenerationEnds).
Fairness == \A r \in Runs : WF_vars(Run(r)) /\ SF_vars(GenerationEnds(r))

Spec == Init /\ [][Next]_vars /\ Fairness

----------------------------------------------------------------------------
(* Properties *)

\* A row that says "succeeded" names a run of its job that saved its whole
\* bundle, however many runs overlap and however late the updates arrive.
SucceededIsSaved ==
  \A j \in Jobs :
    row[j].status = "succeeded" =>
      \E r \in Runs : row[j].ref = r /\ JobOf[r] = j /\ step[r] = "saved"

\* When no run of an orderly job is at work, its row tells what came of it:
\* "succeeded" if a run saved the lesson, "failed" if those that ran did not.
RowTellsOutcome ==
  \A j \in Jobs :
    LET of == {r \in Runs : JobOf[r] = j /\ pc[r] # "new"}
    IN  /\ of # {}
        /\ \A r \in of : OrderlyRun(r) /\ pc[r] \in Ended
        => row[j].status = IF \E r \in of : step[r] = "saved"
                           THEN "succeeded" ELSE "failed"

\* What is published on an orderly lesson is whole: it has every part of the
\* bundle its document came with, of a run that publishes, and no run has
\* begun to write parts over them.  A quiz or a project that this bundle did
\* not carry stays as an earlier save left it: see NothingLeftOver.
PublishedIsWhole ==
  \A l \in Orderly :
    lesson[l] = "published" =>
      LET r == part[l]["document"]
      IN  /\ r \in Publishing
          /\ \A p \in Carried(bundle[r]) : part[l][p] = r
          /\ \A q \in Runs : LessonOf[q] = l => step[q] \notin Rpcs \ {"lesson"}

\* Every part beside the published document came with it.  This does not hold:
\* save_lesson_bundle skips a quiz and a project that are absent and removes
\* none that an earlier save, broken or whole, left on the lesson.
NothingLeftOver ==
  \A l \in Orderly :
    lesson[l] = "published" =>
      \A p \in Parts : part[l][p] \in {Nobody, part[l]["document"]}

\* The row of an orderly job that succeeded never says anything else again.
SuccessIsFinal ==
  [][\A r \in Runs :
       OrderlyRun(r) /\ row[JobOf[r]].status = "succeeded"
         => row'[JobOf[r]] = row[JobOf[r]]]_vars

\* Every run that was started ends, whatever fails: reports give up, RPCs
\* and the generation have deadlines.
EveryRunEnds == \A r \in Runs : pc[r] \in Active ~> pc[r] \in Ended

\* A caller is only told of a lesson that was saved for its job, and the
\* runs of an orderly job save it once.
SavedRuns == {r \in Runs : step[r] = "saved"}
OrderlyJobs == {j \in Jobs : \E r \in Runs : JobOf[r] = j /\ OrderlyRun(r)}

Once == INSTANCE AuthorOnce WITH saved <- SavedRuns

ImplementsAuthorOnce == Once!Spec

\* test_author_lesson_pipeline_idempotent.py:1, "skip generate/save when the
\* author job already succeeded": no run of a job begins to work once a run
\* of that job has reported success.
SucceededJobIsSkipped ==
  [][\A r, q \in Runs :
       pc[r] = "new" /\ pc'[r] = "claim" /\ JobOf[q] = JobOf[r]
         => pc[q] # "done"]_vars
=============================================================================
