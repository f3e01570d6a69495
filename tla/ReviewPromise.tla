---------------------------- MODULE ReviewPromise ----------------------------
(***************************************************************************)
(* What project_review promises its callers and the learner whose          *)
(* deliveries it grades.  A call stores at most one grade, of a delivery   *)
(* that was handed in, and never of one that was superseded before the     *)
(* call began.  Whoever is told that a grade is persisted finds it stored, *)
(* by this call or, when the tool cache answers, by another; and a row     *)
(* that says succeeded names a delivery this job's calls have graded.      *)
(* No graph, no retries, no cache, no lost answers.                        *)
(***************************************************************************)
EXTENDS Integers

CONSTANTS Calls, Jobs, NoJob, JobOf, Persists

VARIABLES latest,  \* the number of deliveries the learner has handed in
          began,   \* what it was when each call began, -1 before
          stored,  \* the grades stored: by which call, of which delivery
          told,    \* what each call was answered
          row      \* the row of each job

promiseVars == <<latest, began, stored, told, row>>

Untold == [kind |-> "nothing", delivery |-> 0, cached |-> FALSE]

Init ==
  /\ latest \in Nat
  /\ began = [c \in Calls |-> -1]
  /\ stored = {}
  /\ told = [c \in Calls |-> Untold]
  /\ row = [j \in Jobs |-> [status |-> "queued", delivery |-> 0]]

Submit ==
  /\ latest' = latest + 1
  /\ UNCHANGED <<began, stored, told, row>>

Begin(c) ==
  /\ began[c] = -1
  /\ began' = [began EXCEPT ![c] = latest]
  /\ UNCHANGED <<latest, stored, told, row>>

\* The deliveries call c may grade.
Current(c) == {d \in 1..latest : began[c] # -1 /\ d >= began[c]}

\* The grade of a call is stored once, possibly after the call has ended.
Store(c) ==
  /\ Persists[c]
  /\ \A g \in stored : g.by # c
  /\ \E d \in Current(c) : stored' = stored \cup {[by |-> c, delivery |-> d]}
  /\ UNCHANGED <<latest, began, told, row>>

\* A grade of delivery d that call b made: stored, unless b does not persist.
Made(b, d) == IF Persists[b] THEN [by |-> b, delivery |-> d] \in stored
                             ELSE d \in Current(b)

Kind(c) == IF Persists[c] THEN "persisted" ELSE "unsaved"

\* A report may be lost, or overwrite a later one, but it never makes up a
\* success.
Reported(j) ==
  \E s \in {"running", "succeeded", "failed"}, d \in 0..latest :
    /\ s = "succeeded" => \E c \in Calls : JobOf[c] = j /\ Made(c, d)
    /\ row' = [row EXCEPT ![j] = [status |-> s, delivery |-> d]]

Report(j) ==
  /\ Reported(j)
  /\ UNCHANGED <<latest, began, stored, told>>

\* The last report of a job's call goes with its answer.
Tell(c) ==
  /\ told[c] = Untold /\ began[c] # -1
  /\ \E a \in [kind : {"error", "cancelled", Kind(c)},
               delivery : 0..latest, cached : BOOLEAN] :
       /\ a.kind = Kind(c) =>
            IF a.cached
              THEN JobOf[c] = NoJob /\ \E b \in Calls : Persists[b] = Persists[c] /\ Made(b, a.delivery)
              ELSE Made(c, a.delivery)
       /\ told' = [told EXCEPT ![c] = a]
  /\ UNCHANGED row \/ (JobOf[c] # NoJob /\ Reported(JobOf[c]))
  /\ UNCHANGED <<latest, began, stored>>

Next ==
  \/ Submit
  \/ \E c \in Calls : Begin(c) \/ Store(c) \/ Tell(c)
  \/ \E j \in Jobs : Report(j)

Spec == Init /\ [][Next]_promiseVars
===============================================================================
