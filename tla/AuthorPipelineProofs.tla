------------------------ MODULE AuthorPipelineProofs ------------------------
(***************************************************************************)
(* Proofs about AuthorPipeline, for any number of runs, jobs and lessons.  *)
(*                                                                         *)
(* AuthorInv holds of every lesson: where a run is in its save follows     *)
(* from where it is in the pipeline, and an update that says "succeeded"   *)
(* is only ever sent by a run whose save is complete.                      *)
(* OrderlyInv is about the orderly lessons: their runs do not overlap, so  *)
(* once a run has saved the lesson no other run of the job is at work, and *)
(* the row holds its success or is about to.                               *)
(***************************************************************************)
EXTENDS AuthorPipeline, TLAPS

Before == {"new", "claim", "resolve", "generate", "phase", "presave",
           "invalid", "rejected", "replayed"}

\* Where a run is in its save, from where it is in the pipeline.
Placed ==
  \A r \in Runs :
    /\ pc[r] \in Before => step[r] = "idle"
    /\ pc[r] = "saving" => step[r] \in {"idle"} \cup Rpcs
    /\ pc[r] \in {"succeed", "done"} => step[r] = "saved"
    /\ pc[r] \in {"fail", "failed"} => step[r] \in {"idle", "broken"}
    /\ pc[r] = "cancelled" => step[r] \notin Rpcs
    /\ given[r] # Nobody => pc[r] \in {"done", "replayed"}

\* Updates on their way come from runs that are not reliable, and only a
\* run that saved its bundle has sent a "succeeded".
LateUpdates ==
  \A r \in Runs, s \in Statuses :
    <<r, s>> \in lateRow =>
      LessonOf[r] \notin Reliable /\ (s = "succeeded" => step[r] = "saved")

AuthorInv == TypeOK /\ Placed /\ LateUpdates /\ SucceededIsSaved

LEMMA AuthorInit == Init => AuthorInv
  BY LessonAssumption, JobAssumption, AttemptsAssumption
  DEF Init, SaveInit, AuthorInv, TypeOK, SaveTypeOK, Placed, LateUpdates,
      SucceededIsSaved, Before, BundleFacts, Statuses

\* What a report does: the run stays or goes on, and the row is written with
\* the run's status or not at all.
LEMMA ReportEffect ==
  ASSUME TypeOK, NEW r \in Runs, Delivered(r) \/ AttemptFails(r)
  PROVE  /\ pc[r] \in Reporting
         /\ \/ /\ pc' = pc /\ given' = given
               /\ tries' = [tries EXCEPT ![r] = tries[r] + 1]
               /\ tries[r] + 1 # Attempts
            \/ /\ pc' = [pc EXCEPT ![r] = After(pc[r])]
               /\ tries' = [tries EXCEPT ![r] = 0]
               /\ given' = IF pc[r] = "succeed" THEN [given EXCEPT ![r] = r] ELSE given
               /\ LessonOf[r] \in Reliable => Write(r, Reported(pc[r]))
         /\ \/ row' = row /\ lateRow' = lateRow
            \/ Write(r, Reported(pc[r])) /\ lateRow' = lateRow
            \/ /\ row' = row
               /\ lateRow' = lateRow \cup {<<r, Reported(pc[r])>>}
               /\ LessonOf[r] \notin Reliable
         /\ UNCHANGED saveVars
  <1>1. CASE Delivered(r)
    BY <1>1 DEF Delivered, Goto
  <1>2. CASE AttemptFails(r)
    <2>1. CASE GivesUp(r)
      BY <1>2, <2>1 DEF AttemptFails, Goto
    <2>2. CASE ~GivesUp(r)
      BY <1>2, <2>2 DEF AttemptFails, GivesUp
    <2> QED BY <2>1, <2>2
  <1> QED BY <1>1, <1>2

\* Every status is a status, and every report leads somewhere.
LEMMA ReportTypes ==
  ASSUME NEW p \in Reporting
  PROVE  /\ Reported(p) \in Statuses
         /\ Reported(p) = "succeeded" <=> p = "succeed"
         /\ After(p) \in {"resolve", "generate", "saving", "rejected", "failed", "done"}
         /\ After(p) \in Before => p \in Before
         /\ After(p) = "saving" => p \in Before
         /\ After(p) = "done" <=> p = "succeed"
         /\ After(p) = "failed" => p = "fail"
         /\ After(p) = "rejected" => p = "invalid"
         /\ After(p) \in {"rejected", "failed"} => Reported(p) = "failed"
  BY DEF Reporting, Reported, After, Statuses, Before

\* Writing the row of one job keeps its type and leaves the others.
LEMMA WriteFacts ==
  ASSUME TypeOK, NEW r \in Runs, NEW s \in Statuses, Write(r, s)
  PROVE  /\ row' \in [Jobs -> [status : Statuses, ref : Runs \cup {Nobody}]]
         /\ row'[JobOf[r]].status = s
         /\ row'[JobOf[r]].ref = IF s = "succeeded" THEN r ELSE row[JobOf[r]].ref
         /\ \A j \in Jobs : j # JobOf[r] => row'[j] = row[j]
  BY JobAssumption DEF Write, TypeOK

\* The row keeps telling the truth when a run that has saved says so, or
\* when a run says anything else.
LEMMA WriteKeepsTruth ==
  ASSUME TypeOK, SucceededIsSaved, NEW r \in Runs, NEW s \in Statuses,
         Write(r, s), step' = step, s = "succeeded" => step[r] = "saved"
  PROVE  SucceededIsSaved'
  <1> SUFFICES ASSUME NEW j \in Jobs, row'[j].status = "succeeded"
               PROVE  \E q \in Runs :
                        row'[j].ref = q /\ JobOf[q] = j /\ step'[q] = "saved"
    BY DEF SucceededIsSaved
  <1>1. CASE j = JobOf[r]
    BY <1>1, WriteFacts
  <1>2. CASE j # JobOf[r]
    BY <1>2, WriteFacts DEF SucceededIsSaved
  <1> QED BY <1>1, <1>2

LEMMA ApplyTypes ==
  ASSUME SaveTypeOK, NEW r \in Runs, NEW s \in Rpcs, Apply(r, s)
  PROVE  /\ lesson' \in [Lessons -> {"none", "draft", "published"}]
         /\ part' \in [Lessons -> [Parts -> Runs \cup {Nobody}]]
  BY LessonAssumption DEF SaveTypeOK, Apply

LEMMA FollowingTypes ==
  ASSUME NEW r \in Runs, NEW s \in Rpcs
  PROVE  Following(r, s) \in {"saved", "broken"} \cup Rpcs
  BY DEF Following, Rpcs, Parts

\* A step of the save: the RPC's rows, and the pipeline goes where it must.
LEMMA SaveEffect ==
  ASSUME TypeOK, NEW r \in Runs, SaveStep(r)
  PROVE  /\ pc[r] = "saving" /\ step[r] \in {"idle"} \cup Rpcs
         /\ \E s \in {"saved", "broken"} \cup Rpcs :
              /\ step' = [step EXCEPT ![r] = s]
              /\ pc' = [pc EXCEPT ![r] = IF s = "saved" THEN "succeed"
                                         ELSE IF s = "broken" THEN "fail" ELSE "saving"]
         /\ bundle' = bundle
         /\ UNCHANGED <<tries, row, lateRow, given>>
         /\ SaveTypeOK'
  <1>1. SaveTypeOK
    BY DEF TypeOK
  <1>2. /\ pc[r] = "saving" /\ UNCHANGED <<tries, row, lateRow, given>>
        /\ pc' = [pc EXCEPT ![r] = IF step'[r] = "saved" THEN "succeed"
                                   ELSE IF step'[r] = "broken" THEN "fail" ELSE "saving"]
    BY DEF SaveStep, Goto
  <1>3. /\ step[r] \in {"idle"} \cup Rpcs
        /\ \E s \in {"saved", "broken"} \cup Rpcs : step' = [step EXCEPT ![r] = s]
        /\ bundle' = bundle
        /\ SaveTypeOK'
    <2>1. CASE Begin(r, bundle[r]) \/ Refuse(r)
      <3>1. /\ step[r] = "idle" /\ bundle' = bundle /\ UNCHANGED <<lesson, part, late>>
            /\ step' = [step EXCEPT ![r] = "lesson"] \/ step' = [step EXCEPT ![r] = "broken"]
        BY <1>1, <2>1 DEF Begin, Refuse, SaveTypeOK
      <3> QED BY <1>1, <3>1 DEF SaveTypeOK, Rpcs
    <2>2. CASE Answered(r)
      <3>1. /\ step[r] \in Rpcs /\ Apply(r, step[r]) /\ UNCHANGED <<bundle, late>>
            /\ step' = [step EXCEPT ![r] = Following(r, step[r])]
        BY <2>2 DEF Answered
      <3>2. Following(r, step[r]) \in {"saved", "broken"} \cup Rpcs
        BY <3>1, FollowingTypes
      <3> QED BY <1>1, <3>1, <3>2, ApplyTypes DEF SaveTypeOK
    <2>3. CASE Broken(r)
      <3>1. /\ step[r] \in Rpcs /\ bundle' = bundle
            /\ step' = [step EXCEPT ![r] = "broken"]
            /\ \/ UNCHANGED <<lesson, part, late>>
               \/ Apply(r, step[r]) /\ UNCHANGED late
               \/ late' = late \cup {<<r, step[r]>>} /\ UNCHANGED <<lesson, part>>
        BY <2>3 DEF Broken
      <3>2. late' \in SUBSET (Runs \X Rpcs)
        BY <1>1, <3>1 DEF SaveTypeOK
      <3> QED BY <1>1, <3>1, <3>2, ApplyTypes DEF SaveTypeOK
    <2> QED BY <2>1, <2>2, <2>3 DEF SaveStep
  <1>4. \E s \in {"saved", "broken"} \cup Rpcs : step' = [step EXCEPT ![r] = s] /\ step'[r] = s
    BY <1>1, <1>3 DEF SaveTypeOK
  <1> QED BY <1>2, <1>3, <1>4

\* What a cancellation does: it ends the run, and its save if there is one.
LEMMA CancelEffect ==
  ASSUME TypeOK, NEW r \in Runs, Cancel(r)
  PROVE  /\ pc[r] \in Active /\ LessonOf[r] \notin Reliable
         /\ pc' = [pc EXCEPT ![r] = "cancelled"]
         /\ UNCHANGED <<tries, given, bundle>>
         /\ \/ step[r] \notin Rpcs /\ UNCHANGED saveVars
            \/ step[r] \in Rpcs /\ step' = [step EXCEPT ![r] = "broken"]
         /\ \/ row' = row /\ lateRow' = lateRow
            \/ /\ pc[r] \in Reporting /\ step' = step
               /\ Write(r, Reported(pc[r])) /\ lateRow' = lateRow
            \/ /\ pc[r] \in Reporting /\ step' = step
               /\ row' = row /\ lateRow' = lateRow \cup {<<r, Reported(pc[r])>>}
         /\ SaveTypeOK'
  <1>1. SaveTypeOK
    BY DEF TypeOK
  <1>2. CASE Broken(r) /\ UNCHANGED <<row, lateRow>>
    <2>1. /\ step[r] \in Rpcs /\ bundle' = bundle
          /\ step' = [step EXCEPT ![r] = "broken"]
          /\ \/ UNCHANGED <<lesson, part, late>>
             \/ Apply(r, step[r]) /\ UNCHANGED late
             \/ late' = late \cup {<<r, step[r]>>} /\ UNCHANGED <<lesson, part>>
      BY <1>2 DEF Broken
    <2>2. late' \in SUBSET (Runs \X Rpcs)
      BY <1>1, <2>1 DEF SaveTypeOK
    <2>3. SaveTypeOK'
      BY <1>1, <2>1, <2>2, ApplyTypes DEF SaveTypeOK
    <2> QED BY <1>2, <2>1, <2>3 DEF Cancel, Goto
  <1>3. CASE ~(Broken(r) /\ UNCHANGED <<row, lateRow>>)
    <2>1. UNCHANGED saveVars
      BY <1>3 DEF Cancel
    <2>2. SaveTypeOK'
      BY <1>1, <2>1 DEF SaveTypeOK, saveVars
    <2> QED BY <1>3, <2>1, <2>2 DEF Cancel, Goto, saveVars
  <1> QED BY <1>2, <1>3

\* Steps of the pipeline that touch neither the row nor the backend.
QuietStep(r) ==
  Start(r) \/ Resolved(r) \/ PhaseChanges(r) \/ Generated(r) \/ GenerationRaises(r)

LEMMA QuietEffect ==
  ASSUME TypeOK, NEW r \in Runs, QuietStep(r)
  PROVE  /\ UNCHANGED <<tries, row, lateRow, given, step, lesson, part, late>>
         /\ pc[r] \in {"new", "resolve", "generate"}
         /\ \E p \in {"claim", "generate", "phase", "invalid", "presave", "fail"} :
              pc' = [pc EXCEPT ![r] = p]
         /\ \/ bundle' = bundle
            \/ \E b \in SUBSET BundleFacts : bundle' = [bundle EXCEPT ![r] = b]
  BY LessonAssumption
  DEF QuietStep, Start, MayStart, Resolved, PhaseChanges, Generated, GenerationRaises,
      Goto, saveVars

LEMMA AuthorStep == AuthorInv /\ [Next]_vars => AuthorInv'
  <1> SUFFICES ASSUME AuthorInv, [Next]_vars PROVE AuthorInv'
    OBVIOUS
  <1>0. TypeOK /\ SaveTypeOK /\ Placed /\ LateUpdates /\ SucceededIsSaved
    BY DEF AuthorInv, TypeOK
  <1>1. ASSUME NEW r \in Runs, QuietStep(r)
        PROVE  AuthorInv'
    <2>1. TypeOK'
      BY <1>0, <1>1, QuietEffect DEF TypeOK, SaveTypeOK, Active, Reporting
    <2>2. Placed'
      BY <1>0, <1>1, QuietEffect DEF Placed, TypeOK, Before
    <2>3. LateUpdates' /\ SucceededIsSaved'
      BY <1>0, <1>1, QuietEffect DEF LateUpdates, SucceededIsSaved
    <2> QED BY <2>1, <2>2, <2>3 DEF AuthorInv
  <1>2. ASSUME NEW r \in Runs, Replay(r)
        PROVE  AuthorInv'
    <2>1. /\ pc[r] = "new" /\ pc' = [pc EXCEPT ![r] = "replayed"]
          /\ given' = [given EXCEPT ![r] = row[JobOf[r]].ref]
          /\ row[JobOf[r]].ref \in Runs \cup {Nobody}
          /\ UNCHANGED <<tries, row, lateRow, step, bundle, lesson, part, late>>
      BY <1>0, <1>2, JobAssumption DEF Replay, MayStart, Goto, saveVars, TypeOK
    <2>2. TypeOK'
      BY <1>0, <2>1 DEF TypeOK, SaveTypeOK, Ended
    <2>3. Placed'
      BY <1>0, <2>1 DEF Placed, TypeOK, Before
    <2>4. LateUpdates' /\ SucceededIsSaved'
      BY <1>0, <2>1 DEF LateUpdates, SucceededIsSaved
    <2> QED BY <2>2, <2>3, <2>4 DEF AuthorInv
  <1>3. ASSUME NEW r \in Runs, Delivered(r) \/ AttemptFails(r)
        PROVE  AuthorInv'
    <2> DEFINE p == pc[r]
               q == After(p)
               s == Reported(p)
    <2>1. /\ p \in Reporting
          /\ \/ /\ pc' = pc /\ given' = given
                /\ tries' = [tries EXCEPT ![r] = tries[r] + 1]
                /\ tries[r] + 1 # Attempts
             \/ /\ pc' = [pc EXCEPT ![r] = q]
                /\ tries' = [tries EXCEPT ![r] = 0]
                /\ given' = IF p = "succeed" THEN [given EXCEPT ![r] = r] ELSE given
          /\ \/ row' = row /\ lateRow' = lateRow
             \/ Write(r, s) /\ lateRow' = lateRow
             \/ /\ row' = row
                /\ lateRow' = lateRow \cup {<<r, s>>}
                /\ LessonOf[r] \notin Reliable
          /\ UNCHANGED <<step, bundle, lesson, part, late>>
      BY <1>0, <1>3, ReportEffect DEF saveVars
    <2>2. /\ s \in Statuses /\ (s = "succeeded" <=> p = "succeed")
          /\ q \in {"resolve", "generate", "saving", "rejected", "failed", "done"}
          /\ q \in Before => p \in Before
          /\ q = "saving" => p \in Before
          /\ q = "done" <=> p = "succeed"
          /\ q = "failed" => p = "fail"
      BY <2>1, ReportTypes
    <2>3. s = "succeeded" => step[r] = "saved"
      BY <1>0, <2>2 DEF Placed
    <2> HIDE DEF q, s
    <2>4. TypeOK'
      <3>1. row' \in [Jobs -> [status : Statuses, ref : Runs \cup {Nobody}]]
        BY <1>0, <2>1, <2>2, WriteFacts DEF TypeOK
      <3>2. tries' \in [Runs -> 0..(Attempts - 1)]
        BY <1>0, <2>1, AttemptsAssumption DEF TypeOK
      <3>3. lateRow' \in SUBSET (Runs \X Statuses)
        BY <1>0, <2>1, <2>2 DEF TypeOK
      <3>4. /\ pc' \in [Runs -> {"new"} \cup Active \cup Ended]
            /\ given' \in [Runs -> Runs \cup {Nobody}]
        BY <1>0, <2>1, <2>2 DEF TypeOK, Active, Ended
      <3> QED BY <1>0, <2>1, <3>1, <3>2, <3>3, <3>4 DEF TypeOK, SaveTypeOK
    <2>5. Placed'
      <3>1. p \notin {"new", "done", "replayed"}
        BY <2>1 DEF Reporting
      <3>2. CASE pc' = pc /\ given' = given
        BY <1>0, <2>1, <3>2 DEF Placed
      <3>3. CASE /\ pc' = [pc EXCEPT ![r] = q]
                 /\ given' = IF p = "succeed" THEN [given EXCEPT ![r] = r] ELSE given
        <4>1. /\ pc'[r] = q
              /\ \A x \in Runs \ {r} : pc'[x] = pc[x] /\ given'[x] = given[x]
              /\ given'[r] # Nobody => q = "done"
          BY <1>0, <2>2, <3>1, <3>3 DEF Placed, TypeOK
        <4> QED BY <1>0, <2>1, <2>2, <4>1 DEF Placed, Before
      <3> QED BY <2>1, <3>2, <3>3
    <2>6. LateUpdates'
      BY <1>0, <2>1, <2>3 DEF LateUpdates
    <2>7. SucceededIsSaved'
      <3>1. CASE row' = row
        BY <1>0, <2>1, <3>1 DEF SucceededIsSaved
      <3>2. CASE Write(r, s)
        BY <1>0, <2>1, <2>2, <2>3, <3>2, WriteKeepsTruth
      <3> QED BY <2>1, <3>1, <3>2
    <2> QED BY <2>4, <2>5, <2>6, <2>7 DEF AuthorInv
  <1>4. ASSUME NEW r \in Runs, SaveStep(r)
        PROVE  AuthorInv'
    <2>1. PICK s \in {"saved", "broken"} \cup Rpcs :
            /\ step' = [step EXCEPT ![r] = s]
            /\ pc' = [pc EXCEPT ![r] = IF s = "saved" THEN "succeed"
                                       ELSE IF s = "broken" THEN "fail" ELSE "saving"]
      BY <1>0, <1>4, SaveEffect
    <2>2. /\ pc[r] = "saving" /\ step[r] \in {"idle"} \cup Rpcs
          /\ UNCHANGED <<tries, row, lateRow, given>>
          /\ SaveTypeOK'
      BY <1>0, <1>4, SaveEffect
    <2>3. TypeOK'
      BY <1>0, <2>1, <2>2 DEF TypeOK, Active, Reporting
    <2>4. Placed'
      BY <1>0, <2>1, <2>2 DEF Placed, TypeOK, SaveTypeOK, Before, Rpcs, Parts
    <2>5. step[r] # "saved"
      BY <2>2 DEF Rpcs, Parts
    <2>6. \A q \in Runs : step[q] = "saved" => step'[q] = "saved"
      BY <1>0, <2>1, <2>5 DEF SaveTypeOK
    <2>7. LateUpdates' /\ SucceededIsSaved'
      BY <1>0, <2>2, <2>6 DEF LateUpdates, SucceededIsSaved
    <2> QED BY <2>3, <2>4, <2>7 DEF AuthorInv
  <1>5. ASSUME NEW r \in Runs, Cancel(r)
        PROVE  AuthorInv'
    <2> DEFINE s == Reported(pc[r])
    <2>1. /\ pc[r] \in Active /\ LessonOf[r] \notin Reliable
          /\ pc' = [pc EXCEPT ![r] = "cancelled"]
          /\ UNCHANGED <<tries, given, bundle>>
          /\ \/ step[r] \notin Rpcs /\ step' = step
             \/ step[r] \in Rpcs /\ step' = [step EXCEPT ![r] = "broken"]
          /\ \/ row' = row /\ lateRow' = lateRow
             \/ /\ pc[r] \in Reporting /\ step' = step
                /\ Write(r, s) /\ lateRow' = lateRow
             \/ /\ pc[r] \in Reporting /\ step' = step
                /\ row' = row /\ lateRow' = lateRow \cup {<<r, s>>}
          /\ SaveTypeOK'
      BY <1>0, <1>5, CancelEffect DEF saveVars
    <2>2. pc[r] \in Reporting => s \in Statuses /\ (s = "succeeded" => step[r] = "saved")
      BY <1>0, ReportTypes DEF Placed
    <2> HIDE DEF s
    <2>3. \A q \in Runs : step[q] = "saved" => step'[q] = "saved"
      BY <1>0, <2>1 DEF SaveTypeOK, Rpcs, Parts
    <2>4. TypeOK'
      <3>1. row' \in [Jobs -> [status : Statuses, ref : Runs \cup {Nobody}]]
        BY <1>0, <2>1, <2>2, WriteFacts DEF TypeOK
      <3>2. lateRow' \in SUBSET (Runs \X Statuses)
        BY <1>0, <2>1, <2>2 DEF TypeOK
      <3> QED BY <1>0, <2>1, <3>1, <3>2 DEF TypeOK, Ended
    <2>5. Placed'
      <3>1. pc[r] \notin {"done", "replayed"}
        BY <2>1 DEF Active, Reporting
      <3> QED BY <1>0, <2>1, <3>1 DEF Placed, TypeOK, SaveTypeOK, Before, Rpcs, Parts
    <2>6. LateUpdates'
      BY <1>0, <2>1, <2>2, <2>3 DEF LateUpdates
    <2>7. SucceededIsSaved'
      <3>1. CASE row' = row
        BY <1>0, <2>3, <3>1 DEF SucceededIsSaved
      <3>2. CASE pc[r] \in Reporting /\ step' = step /\ Write(r, s)
        BY <1>0, <2>2, <3>2, WriteKeepsTruth
      <3> QED BY <2>1, <3>1, <3>2
    <2> QED BY <2>4, <2>5, <2>6, <2>7 DEF AuthorInv
  <1>6. ASSUME NEW r \in Runs, NEW s \in Rpcs, Arrives(r, s), UNCHANGED jobVars
        PROVE  AuthorInv'
    <2>1. /\ Apply(r, s) /\ late' = late \ {<<r, s>>} /\ UNCHANGED <<step, bundle>>
          /\ UNCHANGED <<pc, tries, row, lateRow, given>>
      BY <1>6 DEF Arrives, jobVars
    <2>2. TypeOK'
      BY <1>0, <2>1, ApplyTypes DEF TypeOK, SaveTypeOK
    <2> QED BY <1>0, <2>1, <2>2 DEF AuthorInv, Placed, LateUpdates, SucceededIsSaved
  <1>7. ASSUME NEW r \in Runs, NEW s \in Statuses, RowArrives(r, s)
        PROVE  AuthorInv'
    <2>1. /\ <<r, s>> \in lateRow /\ Write(r, s) /\ lateRow' = lateRow \ {<<r, s>>}
          /\ UNCHANGED <<pc, tries, given, step, bundle, lesson, part, late>>
      BY <1>7 DEF RowArrives, saveVars
    <2>2. row' \in [Jobs -> [status : Statuses, ref : Runs \cup {Nobody}]]
      BY <1>0, <2>1, WriteFacts
    <2>3. TypeOK'
      BY <1>0, <2>1, <2>2 DEF TypeOK, SaveTypeOK
    <2>4. s = "succeeded" => step[r] = "saved"
      BY <1>0, <2>1 DEF LateUpdates
    <2>5. SucceededIsSaved'
      BY <1>0, <2>1, <2>4, WriteKeepsTruth
    <2> QED BY <1>0, <2>1, <2>3, <2>5 DEF AuthorInv, Placed, LateUpdates
  <1>8. CASE UNCHANGED vars
    BY <1>0, <1>8 DEF AuthorInv, TypeOK, SaveTypeOK, Placed, LateUpdates, SucceededIsSaved,
       vars, jobVars, saveVars
  <1> QED
    BY <1>1, <1>2, <1>3, <1>4, <1>5, <1>6, <1>7, <1>8
    DEF Next, Run, GenerationEnds, QuietStep, Rest

\* A row that says "succeeded" names a run of its job that saved its whole
\* bundle (author_lesson_pipeline.py:200-230), however runs overlap, updates
\* are retried or arrive late, and runs are cancelled.
THEOREM SuccessMeansSaved == Spec => [](TypeOK /\ SucceededIsSaved)
  <1>1. AuthorInv => TypeOK /\ SucceededIsSaved
    BY DEF AuthorInv
  <1> QED
    BY <1>1, AuthorInit, AuthorStep, PTL DEF Spec

----------------------------------------------------------------------------
(* Orderly lessons *)

\* No run of a reliable lesson was cancelled, and none of its RPCs is late.
Patient ==
  \A r \in Runs :
    LessonOf[r] \in Reliable => /\ pc[r] # "cancelled"
                                /\ \A s \in Rpcs : <<r, s>> \notin late

OneAtATime ==
  \A r, q \in Runs :
    /\ LessonOf[r] = LessonOf[q] /\ LessonOf[r] \in Serial
    /\ pc[r] \in Active /\ pc[q] \in Active
    => r = q

\* While a run of an orderly job is at work no run of the job has saved; the
\* one that has is about to report it or has reported it.
SavedOnce ==
  \A r, q \in Runs :
    OrderlyRun(r) /\ JobOf[q] = JobOf[r] =>
      /\ pc[r] \in Active \ {"succeed"} => step[q] # "saved"
      /\ step[r] = "saved" => pc[r] = "succeed" \/ row[JobOf[r]].status = "succeeded"
      /\ step[r] = "saved" /\ step[q] = "saved" => r = q

\* A run that ended without a save, its own or another's, has reported it.
FailureTold ==
  \A r \in Runs :
    /\ OrderlyRun(r) /\ pc[r] \in Ended
    /\ \A q \in Runs : JobOf[q] = JobOf[r] => pc[q] \notin Active /\ step[q] # "saved"
    => row[JobOf[r]].status = "failed"

OrderlyInv == Patient /\ OneAtATime /\ SavedOnce /\ FailureTold

LEMMA OrderlyInit == Init => OrderlyInv
  BY DEF Init, SaveInit, OrderlyInv, Patient, OneAtATime, SavedOnce, FailureTold,
         Active, Reporting, Ended

\* A job's runs save the same lesson, so they are orderly together.
LEMMA SameJobSameLesson ==
  ASSUME NEW r \in Runs, NEW q \in Runs, JobOf[r] = JobOf[q], OrderlyRun(r)
  PROVE  /\ LessonOf[q] = LessonOf[r] /\ OrderlyRun(q)
         /\ LessonOf[r] \in Serial /\ LessonOf[r] \in Reliable
  BY JobAssumption DEF OrderlyRun, Orderly

LEMMA OrderlyStep == AuthorInv /\ OrderlyInv /\ [Next]_vars => OrderlyInv'
  <1> SUFFICES ASSUME AuthorInv, OrderlyInv, [Next]_vars PROVE OrderlyInv'
    OBVIOUS
  <1>0. /\ TypeOK /\ SaveTypeOK /\ Placed /\ LateUpdates /\ SucceededIsSaved
        /\ Patient /\ OneAtATime /\ SavedOnce /\ FailureTold
    BY DEF AuthorInv, TypeOK, OrderlyInv
  <1>1. ASSUME NEW r \in Runs, Start(r)
        PROVE  OrderlyInv'
    <2>1. /\ pc[r] = "new" /\ pc' = [pc EXCEPT ![r] = "claim"]
          /\ UNCHANGED <<row, step, late>>
          /\ row[JobOf[r]].status # "succeeded" \/ LessonOf[r] \notin Reliable
          /\ LessonOf[r] \in Serial =>
               \A q \in Runs : LessonOf[q] = LessonOf[r] => pc[q] \notin Active
      BY <1>1 DEF Start, MayStart, Goto, saveVars
    <2>2. Patient' /\ OneAtATime'
      BY <1>0, <2>1 DEF Patient, OneAtATime, TypeOK
    <2>3. ASSUME OrderlyRun(r), NEW q \in Runs, JobOf[q] = JobOf[r]
          PROVE  step[q] # "saved"
      <3>1. /\ OrderlyRun(q) /\ LessonOf[q] = LessonOf[r]
            /\ LessonOf[r] \in Serial /\ LessonOf[r] \in Reliable
        BY <2>3, SameJobSameLesson
      <3>2. pc[q] # "succeed"
        BY <2>1, <3>1 DEF Active, Reporting
      <3> QED BY <1>0, <2>1, <2>3, <3>1, <3>2 DEF SavedOnce
    <2>4. SavedOnce'
      BY <1>0, <2>1, <2>3 DEF SavedOnce, TypeOK, Placed, Before, OrderlyRun
    <2>5. FailureTold'
      <3>1. pc'[r] \in Active /\ \A q \in Runs : q # r => pc'[q] = pc[q]
        BY <1>0, <2>1 DEF TypeOK, Active, Reporting
      <3> QED BY <1>0, <2>1, <3>1 DEF FailureTold, OrderlyRun, Active, Ended, Reporting
    <2> QED BY <2>2, <2>4, <2>5 DEF OrderlyInv
  <1>2. ASSUME NEW r \in Runs,
               Resolved(r) \/ PhaseChanges(r) \/ Generated(r) \/ GenerationRaises(r)
        PROVE  OrderlyInv'
    <2>1. /\ pc[r] \in Active \ {"succeed"} /\ UNCHANGED <<row, step, late>>
          /\ \E p \in Active \ {"succeed"} : pc' = [pc EXCEPT ![r] = p]
      BY <1>2 DEF Resolved, PhaseChanges, Generated, GenerationRaises, Goto, saveVars,
         Active, Reporting
    <2>2. /\ pc'[r] \in Active \ {"succeed"}
          /\ \A q \in Runs : q # r => pc'[q] = pc[q]
      BY <1>0, <2>1 DEF TypeOK
    <2>3. Patient' /\ OneAtATime'
      BY <1>0, <2>1, <2>2 DEF Patient, OneAtATime, Active, Reporting
    <2>4. SavedOnce'
      BY <1>0, <2>1, <2>2 DEF SavedOnce, OrderlyRun
    <2>5. FailureTold'
      BY <1>0, <2>1, <2>2 DEF FailureTold, OrderlyRun, Active, Ended, Reporting
    <2> QED BY <2>3, <2>4, <2>5 DEF OrderlyInv
  <1>3. ASSUME NEW r \in Runs, Replay(r)
        PROVE  OrderlyInv'
    <2>1. /\ pc[r] = "new" /\ pc' = [pc EXCEPT ![r] = "replayed"]
          /\ row[JobOf[r]].status = "succeeded"
          /\ UNCHANGED <<row, step, late>>
      BY <1>3 DEF Replay, MayStart, Goto, saveVars
    <2>2. Patient' /\ OneAtATime'
      BY <1>0, <2>1 DEF Patient, OneAtATime, TypeOK, Active, Reporting
    <2>3. SavedOnce'
      BY <1>0, <2>1 DEF SavedOnce, TypeOK, OrderlyRun, Active, Reporting
    <2>4. FailureTold'
      <3>1. \E q \in Runs : JobOf[q] = JobOf[r] /\ step[q] = "saved"
        BY <1>0, <2>1, JobAssumption DEF SucceededIsSaved
      <3>2. \A q \in Runs : q # r => pc'[q] = pc[q]
        BY <1>0, <2>1 DEF TypeOK
      <3>3. pc[r] \notin Active
        BY <2>1 DEF Active, Reporting
      <3> QED BY <1>0, <2>1, <3>1, <3>2, <3>3 DEF FailureTold, OrderlyRun
    <2> QED BY <2>2, <2>3, <2>4 DEF OrderlyInv
  <1>4. ASSUME NEW r \in Runs, Delivered(r) \/ AttemptFails(r)
        PROVE  OrderlyInv'
    <2> DEFINE p == pc[r]
               q == After(p)
               s == Reported(p)
    <2>1. /\ p \in Reporting
          /\ \/ pc' = pc
             \/ /\ pc' = [pc EXCEPT ![r] = q]
                /\ LessonOf[r] \in Reliable => Write(r, s)
          /\ row' = row \/ Write(r, s)
          /\ UNCHANGED <<step, late>>
      BY <1>0, <1>4, ReportEffect DEF saveVars
    <2>2. /\ s \in Statuses /\ (s = "succeeded" <=> p = "succeed")
          /\ q \in {"resolve", "generate", "saving", "rejected", "failed", "done"}
          /\ q = "done" <=> p = "succeed"
          /\ q \in {"rejected", "failed"} => s = "failed"
      BY <2>1, ReportTypes
    <2>3. /\ \A x \in Runs : x # r => pc'[x] = pc[x]
          /\ pc'[r] = p \/ (pc'[r] = q /\ (LessonOf[r] \in Reliable => Write(r, s)))
      BY <1>0, <2>1 DEF TypeOK
    <2>4. /\ \A j \in Jobs : j # JobOf[r] => row'[j] = row[j]
          /\ row' = row \/ row'[JobOf[r]].status = s
          /\ LessonOf[r] \in Reliable /\ pc'[r] # p => row'[JobOf[r]].status = s
      <3>1. Write(r, s) => /\ \A j \in Jobs : j # JobOf[r] => row'[j] = row[j]
                           /\ row'[JobOf[r]].status = s
        BY <1>0, <2>2, WriteFacts
      <3> QED BY <2>1, <2>3, <3>1
    <2>5. p \in Active /\ (q \in Active <=> q \in {"resolve", "generate", "saving"})
      BY <2>1, <2>2 DEF Active, Reporting
    <2> HIDE DEF p, q, s
    <2>6. Patient'
      BY <1>0, <2>1, <2>2, <2>3 DEF Patient, p
    <2>7. OneAtATime'
      BY <1>0, <2>3, <2>5 DEF OneAtATime, p
    <2>8. SavedOnce'
      <3> SUFFICES ASSUME NEW x \in Runs, NEW y \in Runs, OrderlyRun(x), JobOf[y] = JobOf[x]
                   PROVE  /\ pc'[x] \in Active \ {"succeed"} => step[y] # "saved"
                          /\ step[x] = "saved" =>
                               pc'[x] = "succeed" \/ row'[JobOf[x]].status = "succeeded"
                          /\ step[x] = "saved" /\ step[y] = "saved" => x = y
        BY <2>1 DEF SavedOnce, OrderlyRun
      <3>1. CASE JobOf[x] # JobOf[r]
        BY <1>0, <2>3, <2>4, <3>1, JobAssumption DEF SavedOnce
      <3>2. CASE JobOf[x] = JobOf[r]
        <4>1. OrderlyRun(r) /\ LessonOf[r] = LessonOf[x] /\ LessonOf[r] \in Serial
              /\ LessonOf[r] \in Reliable
          BY <3>2, SameJobSameLesson
        <4>2. x # r => pc[x] \notin Active
          BY <1>0, <2>5, <4>1 DEF OneAtATime, p
        <4>3. CASE p = "succeed"
          <5>1. \/ pc'[r] = "succeed"
                \/ pc'[r] = "done" /\ row'[JobOf[r]].status = "succeeded"
            <6>1. pc'[r] = p \/ pc'[r] = q
              BY <2>3
            <6>2. q = "done" /\ s = "succeeded"
              BY <2>2, <4>3
            <6>3. pc'[r] # p => row'[JobOf[r]].status = s
              BY <2>4, <4>1
            <6> QED BY <4>3, <6>1, <6>2, <6>3
          <5>2. row[JobOf[r]].status = "succeeded" => row'[JobOf[r]].status = "succeeded"
            BY <2>2, <2>4, <4>3
          <5>3. x # r => pc'[x] # "succeed" /\ pc[x] # "succeed" /\ pc'[x] \notin Active
            BY <2>3, <4>2 DEF Active, Reporting
          <5>4. x = r => pc'[x] \notin Active \ {"succeed"}
            BY <5>1 DEF Active, Reporting
          <5> QED BY <1>0, <3>2, <5>1, <5>2, <5>3, <5>4 DEF SavedOnce
        <4>4. CASE p # "succeed"
          <5>1. step[x] # "saved" /\ step[y] # "saved"
            BY <1>0, <2>5, <3>2, <4>1, <4>4 DEF SavedOnce, p
          <5> QED BY <5>1
        <4> QED BY <4>3, <4>4
      <3> QED BY <3>1, <3>2
    <2>9. FailureTold'
      <3> SUFFICES ASSUME NEW x \in Runs, OrderlyRun(x), pc'[x] \in Ended,
                          \A y \in Runs : JobOf[y] = JobOf[x] =>
                             pc'[y] \notin Active /\ step[y] # "saved"
                   PROVE  row'[JobOf[x]].status = "failed"
        BY <2>1 DEF FailureTold, OrderlyRun
      <3>1. CASE JobOf[x] # JobOf[r]
        BY <1>0, <2>3, <2>4, <3>1, JobAssumption DEF FailureTold
      <3>2. CASE JobOf[x] = JobOf[r]
        <4>1. LessonOf[r] \in Reliable /\ pc'[r] \notin Active /\ step[r] # "saved"
          BY <3>2, SameJobSameLesson
        <4>2. p # "succeed"
          BY <1>0, <4>1 DEF Placed, p
        <4>3. pc'[r] = q /\ pc'[r] # p /\ q \in {"rejected", "failed"}
          BY <2>2, <2>3, <2>5, <4>1, <4>2
        <4> QED BY <2>2, <2>4, <3>2, <4>1, <4>3
      <3> QED BY <3>1, <3>2
    <2> QED BY <2>6, <2>7, <2>8, <2>9 DEF OrderlyInv
  <1>5. ASSUME NEW r \in Runs, SaveStep(r)
        PROVE  OrderlyInv'
    <2>1. PICK s \in {"saved", "broken"} \cup Rpcs :
            /\ step' = [step EXCEPT ![r] = s]
            /\ pc' = [pc EXCEPT ![r] = IF s = "saved" THEN "succeed"
                                       ELSE IF s = "broken" THEN "fail" ELSE "saving"]
      BY <1>0, <1>5, SaveEffect
    <2>2. pc[r] = "saving" /\ step[r] \in {"idle"} \cup Rpcs /\ row' = row
      BY <1>0, <1>5, SaveEffect
    <2>3. /\ step'[r] = s
          /\ \A q \in Runs : q # r => pc'[q] = pc[q] /\ step'[q] = step[q]
          /\ pc'[r] \in {"succeed", "fail", "saving"}
          /\ s = "saved" <=> pc'[r] = "succeed"
      BY <1>0, <2>1 DEF TypeOK, SaveTypeOK
    <2>4. pc[r] \in Active \ {"succeed"} /\ pc'[r] \in Active
      BY <2>2, <2>3 DEF Active, Reporting
    <2>5. Patient'
      <3>1. \A q \in Runs, t \in Rpcs :
              LessonOf[q] \in Reliable /\ <<q, t>> \in late' => <<q, t>> \in late
        BY <1>5 DEF SaveStep, Begin, Refuse, Answered, Broken
      <3> QED BY <1>0, <2>3, <3>1 DEF Patient
    <2>6. OneAtATime'
      BY <1>0, <2>3, <2>4 DEF OneAtATime
    <2>7. SavedOnce'
      <3> SUFFICES ASSUME NEW x \in Runs, NEW y \in Runs, OrderlyRun(x), JobOf[y] = JobOf[x]
                   PROVE  /\ pc'[x] \in Active \ {"succeed"} => step'[y] # "saved"
                          /\ step'[x] = "saved" =>
                               pc'[x] = "succeed" \/ row[JobOf[x]].status = "succeeded"
                          /\ step'[x] = "saved" /\ step'[y] = "saved" => x = y
        BY <2>2 DEF SavedOnce, OrderlyRun
      <3>1. CASE JobOf[x] # JobOf[r]
        BY <1>0, <2>3, <3>1 DEF SavedOnce
      <3>2. CASE JobOf[x] = JobOf[r]
        <4>1. OrderlyRun(r) /\ LessonOf[r] = LessonOf[x] /\ LessonOf[r] \in Serial
          BY <3>2, SameJobSameLesson
        <4>2. x # r => pc[x] \notin Active
          BY <1>0, <2>4, <4>1 DEF OneAtATime
        <4>3. step[x] # "saved" /\ step[y] # "saved"
          BY <1>0, <2>4, <3>2, <4>1 DEF SavedOnce
        <4>4. step'[x] = "saved" => x = r /\ pc'[x] = "succeed"
          BY <2>3, <4>3
        <4>5. step'[y] = "saved" => y = r /\ pc'[r] = "succeed"
          BY <2>3, <4>3
        <4>6. pc'[x] \in Active \ {"succeed"} => x = r
          BY <2>3, <4>2
        <4> QED BY <4>4, <4>5, <4>6
      <3> QED BY <3>1, <3>2
    <2>8. FailureTold'
      <3>1. pc[r] \notin Ended /\ pc'[r] \notin Ended
        BY <2>2, <2>3 DEF Ended
      <3> QED BY <1>0, <2>2, <2>3, <2>4, <3>1 DEF FailureTold, OrderlyRun
    <2> QED BY <2>5, <2>6, <2>7, <2>8 DEF OrderlyInv
  <1>6. ASSUME NEW r \in Runs, Cancel(r)
        PROVE  OrderlyInv'
    <2>1. /\ pc[r] \in Active /\ LessonOf[r] \notin Reliable
          /\ pc' = [pc EXCEPT ![r] = "cancelled"]
          /\ step' = step \/ step' = [step EXCEPT ![r] = "broken"]
          /\ row' = row \/ (pc[r] \in Reporting /\ Write(r, Reported(pc[r])))
      BY <1>0, <1>6, CancelEffect DEF saveVars
    <2>2. /\ \A q \in Runs : q # r => pc'[q] = pc[q] /\ step'[q] = step[q]
          /\ pc'[r] = "cancelled"
      BY <1>0, <2>1 DEF TypeOK, SaveTypeOK
    <2>3. \A j \in Jobs : j # JobOf[r] => row'[j] = row[j]
      BY <1>0, <2>1, WriteFacts, ReportTypes
    <2>4. \A q \in Runs : OrderlyRun(q) => JobOf[q] # JobOf[r] /\ q # r
      BY <2>1, SameJobSameLesson DEF OrderlyRun, Orderly
    <2>5. "cancelled" \notin Active
      BY DEF Active, Reporting
    <2>6. Patient'
      <3>1. \A q \in Runs, t \in Rpcs :
              LessonOf[q] \in Reliable /\ <<q, t>> \in late' => <<q, t>> \in late
        BY <1>6 DEF Cancel, Broken, saveVars
      <3> QED BY <1>0, <2>1, <2>2, <3>1 DEF Patient
    <2>7. OneAtATime'
      BY <1>0, <2>2, <2>5 DEF OneAtATime
    <2>8. SavedOnce'
      BY <1>0, <2>2, <2>3, <2>4, JobAssumption DEF SavedOnce, OrderlyRun
    <2>9. FailureTold'
      BY <1>0, <2>2, <2>3, <2>4, JobAssumption DEF FailureTold, OrderlyRun
    <2> QED BY <2>6, <2>7, <2>8, <2>9 DEF OrderlyInv
  <1>7. ASSUME NEW r \in Runs, NEW s \in Rpcs, Arrives(r, s), UNCHANGED jobVars
        PROVE  OrderlyInv'
    <2>1. late' \subseteq late /\ UNCHANGED <<pc, row, step>>
      BY <1>7 DEF Arrives, jobVars
    <2> QED BY <1>0, <2>1 DEF OrderlyInv, Patient, OneAtATime, SavedOnce, FailureTold,
            OrderlyRun
  <1>8. ASSUME NEW r \in Runs, NEW s \in Statuses, RowArrives(r, s)
        PROVE  OrderlyInv'
    <2>1. /\ LessonOf[r] \notin Reliable /\ Write(r, s)
          /\ UNCHANGED <<pc, step, late>>
      BY <1>0, <1>8 DEF RowArrives, LateUpdates, saveVars
    <2>2. \A j \in Jobs : j # JobOf[r] => row'[j] = row[j]
      BY <1>0, <2>1, WriteFacts
    <2>3. \A q \in Runs : OrderlyRun(q) => JobOf[q] # JobOf[r]
      BY <2>1, SameJobSameLesson DEF OrderlyRun, Orderly
    <2> QED BY <1>0, <2>1, <2>2, <2>3, JobAssumption
            DEF OrderlyInv, Patient, OneAtATime, SavedOnce, FailureTold, OrderlyRun
  <1>9. CASE UNCHANGED vars
    BY <1>0, <1>9 DEF OrderlyInv, Patient, OneAtATime, SavedOnce, FailureTold, OrderlyRun,
       vars, jobVars, saveVars
  <1> QED
    BY <1>1, <1>2, <1>3, <1>4, <1>5, <1>6, <1>7, <1>8, <1>9
    DEF Next, Run, GenerationEnds, Rest

\* When no run of an orderly job is at work, the row tells its outcome
\* (author_lesson_pipeline.py:174-246), and a success told is final.
THEOREM OrderlyRowTellsOutcome == Spec => []RowTellsOutcome
  <1>1. AuthorInv /\ OrderlyInv => RowTellsOutcome
    <2> SUFFICES ASSUME AuthorInv, OrderlyInv, NEW j \in Jobs,
                        NEW r \in Runs, JobOf[r] = j, pc[r] # "new",
                        \A q \in Runs : JobOf[q] = j /\ pc[q] # "new"
                                          => OrderlyRun(q) /\ pc[q] \in Ended
                 PROVE  row[j].status =
                          IF \E q \in Runs : JobOf[q] = j /\ pc[q] # "new" /\ step[q] = "saved"
                          THEN "succeeded" ELSE "failed"
      BY DEF RowTellsOutcome
    <2>1. Placed /\ SavedOnce /\ FailureTold
      BY DEF AuthorInv, OrderlyInv
    <2>2. CASE \E q \in Runs : JobOf[q] = j /\ pc[q] # "new" /\ step[q] = "saved"
      <3>1. PICK q \in Runs : JobOf[q] = j /\ pc[q] # "new" /\ step[q] = "saved"
        BY <2>2
      <3>2. OrderlyRun(q) /\ pc[q] # "succeed"
        BY <3>1 DEF Ended
      <3> QED BY <2>1, <2>2, <3>1, <3>2 DEF SavedOnce
    <2>3. CASE ~\E q \in Runs : JobOf[q] = j /\ pc[q] # "new" /\ step[q] = "saved"
      <3>1. \A q \in Runs : JobOf[q] = j => pc[q] \notin Active /\ step[q] # "saved"
        BY <2>1, <2>3 DEF Ended, Active, Reporting, Placed, Before
      <3> QED BY <2>1, <2>3, <3>1 DEF FailureTold
    <2> QED BY <2>2, <2>3
  <1> QED
    BY <1>1, AuthorInit, AuthorStep, OrderlyInit, OrderlyStep, PTL DEF Spec

\* Who may write the row of an orderly job: a run of that job.
LEMMA RowWriters ==
  ASSUME AuthorInv, OrderlyInv, [Next]_vars, NEW r \in Runs, OrderlyRun(r)
  PROVE  \/ row'[JobOf[r]] = row[JobOf[r]]
         \/ \E q \in Runs : /\ JobOf[q] = JobOf[r] /\ pc[q] \in Reporting
                            /\ Write(q, Reported(pc[q]))
  <1>0. TypeOK /\ LateUpdates
    BY DEF AuthorInv
  <1>1. ASSUME NEW q \in Runs, Start(q) \/ Resolved(q) \/ PhaseChanges(q) \/ GenerationEnds(q)
                                 \/ Replay(q)
        PROVE  row' = row
    BY <1>1 DEF Start, Resolved, PhaseChanges, GenerationEnds, Generated, GenerationRaises,
         Replay
  <1>2. ASSUME NEW q \in Runs, SaveStep(q)
        PROVE  row' = row
    BY <1>2 DEF SaveStep
  <1>3. ASSUME NEW q \in Runs, NEW s \in Statuses, Write(q, s), JobOf[q] # JobOf[r]
        PROVE  row'[JobOf[r]] = row[JobOf[r]]
    BY <1>0, <1>3, WriteFacts, JobAssumption
  <1>4. ASSUME NEW q \in Runs, Delivered(q) \/ AttemptFails(q)
        PROVE  \/ row'[JobOf[r]] = row[JobOf[r]]
               \/ JobOf[q] = JobOf[r] /\ pc[q] \in Reporting /\ Write(q, Reported(pc[q]))
    <2>1. pc[q] \in Reporting /\ (row' = row \/ Write(q, Reported(pc[q])))
      BY <1>0, <1>4, ReportEffect
    <2>2. Reported(pc[q]) \in Statuses
      BY <2>1, ReportTypes
    <2> QED BY <1>3, <2>1, <2>2
  <1>5. ASSUME NEW q \in Runs, Cancel(q)
        PROVE  row'[JobOf[r]] = row[JobOf[r]]
    <2>1. LessonOf[q] \notin Reliable
          /\ (row' = row \/ (pc[q] \in Reporting /\ Write(q, Reported(pc[q]))))
      BY <1>0, <1>5, CancelEffect
    <2>2. JobOf[q] # JobOf[r]
      BY <2>1, SameJobSameLesson DEF OrderlyRun, Orderly
    <2> QED BY <1>3, <2>1, <2>2, ReportTypes
  <1>6. ASSUME NEW q \in Runs, NEW s \in Rpcs, Arrives(q, s), UNCHANGED jobVars
        PROVE  row' = row
    BY <1>6 DEF jobVars
  <1>7. ASSUME NEW q \in Runs, NEW s \in Statuses, RowArrives(q, s)
        PROVE  row'[JobOf[r]] = row[JobOf[r]]
    <2>1. LessonOf[q] \notin Reliable /\ Write(q, s)
      BY <1>0, <1>7 DEF RowArrives, LateUpdates
    <2>2. JobOf[q] # JobOf[r]
      BY <2>1, SameJobSameLesson DEF OrderlyRun, Orderly
    <2> QED BY <1>3, <2>1, <2>2
  <1>8. CASE UNCHANGED vars
    BY <1>8 DEF vars, jobVars
  <1> QED
    BY <1>1, <1>2, <1>4, <1>5, <1>6, <1>7, <1>8 DEF Next, Run, Rest

\* Once the row of an orderly job says "succeeded" no step changes it: the
\* only run left to write is the one that saved, and it says the same.
THEOREM OrderlySuccessIsFinal == Spec => SuccessIsFinal
  <1>1. ASSUME AuthorInv, OrderlyInv, [Next]_vars,
               NEW r \in Runs, OrderlyRun(r), row[JobOf[r]].status = "succeeded"
        PROVE  row'[JobOf[r]] = row[JobOf[r]]
    <2>0. TypeOK /\ Placed /\ SucceededIsSaved /\ SavedOnce
      BY <1>1 DEF AuthorInv, OrderlyInv
    <2>1. PICK p \in Runs : row[JobOf[r]].ref = p /\ JobOf[p] = JobOf[r] /\ step[p] = "saved"
      BY <1>1, <2>0, JobAssumption DEF SucceededIsSaved
    <2>2. ASSUME NEW q \in Runs, JobOf[q] = JobOf[r], pc[q] \in Reporting,
                 Write(q, Reported(pc[q]))
          PROVE  row'[JobOf[r]] = row[JobOf[r]]
      <3>1. OrderlyRun(q)
        BY <1>1, <2>2, SameJobSameLesson
      <3>2. pc[q] = "succeed"
        BY <2>0, <2>1, <2>2, <3>1 DEF SavedOnce, Active
      <3>3. q = p
        BY <2>0, <2>1, <2>2, <3>1, <3>2 DEF SavedOnce, Placed
      <3>4. Reported(pc[q]) = "succeeded"
        BY <3>2 DEF Reported
      <3>5. row'[JobOf[r]] = [status |-> "succeeded", ref |-> p]
        BY <2>0, <2>2, <3>3, <3>4, JobAssumption DEF Write, TypeOK
      <3>6. row[JobOf[r]] = [status |-> "succeeded", ref |-> p]
        BY <1>1, <2>0, <2>1, JobAssumption DEF TypeOK
      <3> QED BY <3>5, <3>6
    <2> QED BY <1>1, <2>2, RowWriters
  <1>2. AuthorInv /\ OrderlyInv /\ [Next]_vars =>
          [\A r \in Runs : OrderlyRun(r) /\ row[JobOf[r]].status = "succeeded"
                             => row'[JobOf[r]] = row[JobOf[r]]]_vars
    BY <1>1
  <1> QED
    BY <1>2, AuthorInit, AuthorStep, OrderlyInit, OrderlyStep, PTL DEF Spec, SuccessIsFinal

----------------------------------------------------------------------------
(* The pipeline implements AuthorOnce *)

LEMMA StepImplementsOnce ==
  AuthorInv /\ OrderlyInv /\ [Next]_vars => [Once!Next]_(Once!onceVars)
  <1> SUFFICES ASSUME AuthorInv, OrderlyInv, [Next]_vars
               PROVE  Once!Next \/ UNCHANGED Once!onceVars
    OBVIOUS
  <1>0. TypeOK /\ SaveTypeOK /\ Placed /\ SucceededIsSaved /\ SavedOnce
    BY DEF AuthorInv, TypeOK, OrderlyInv
  <1>1. ASSUME NEW r \in Runs, QuietStep(r)
        PROVE  UNCHANGED Once!onceVars
    BY <1>0, <1>1, QuietEffect DEF Once!onceVars, SavedRuns
  <1>2. ASSUME NEW r \in Runs, Replay(r)
        PROVE  Once!Give(r)
    <2>1. /\ pc[r] = "new" /\ row[JobOf[r]].status = "succeeded"
          /\ given' = [given EXCEPT ![r] = row[JobOf[r]].ref] /\ step' = step
      BY <1>2 DEF Replay, MayStart, saveVars
    <2>2. PICK q \in Runs : row[JobOf[r]].ref = q /\ JobOf[q] = JobOf[r] /\ step[q] = "saved"
      BY <1>0, <2>1, JobAssumption DEF SucceededIsSaved
    <2>3. q \in Once!SavedFor(JobOf[r]) /\ r \notin SavedRuns /\ SavedRuns' = SavedRuns
      BY <1>0, <2>1, <2>2 DEF Once!SavedFor, SavedRuns, Placed, Before
    <2>4. given[r] = Nobody
      BY <1>0, <2>1 DEF Placed
    <2> QED BY <2>1, <2>2, <2>3, <2>4 DEF Once!Give
  <1>3. ASSUME NEW r \in Runs, Delivered(r) \/ AttemptFails(r)
        PROVE  Once!Give(r) \/ UNCHANGED Once!onceVars
    <2>1. /\ pc[r] \in Reporting /\ step' = step
          /\ \/ given' = given
             \/ pc[r] = "succeed" /\ given' = [given EXCEPT ![r] = r]
      BY <1>0, <1>3, ReportEffect DEF saveVars
    <2>2. SavedRuns' = SavedRuns
      BY <2>1 DEF SavedRuns
    <2>3. CASE given' = given
      BY <2>2, <2>3 DEF Once!onceVars
    <2>4. CASE pc[r] = "succeed" /\ given' = [given EXCEPT ![r] = r]
      <3>1. r \in Once!SavedFor(JobOf[r]) /\ given[r] = Nobody
        BY <1>0, <2>4 DEF Once!SavedFor, SavedRuns, Placed
      <3> QED BY <2>2, <2>4, <3>1 DEF Once!Give
    <2> QED BY <2>1, <2>3, <2>4
  <1>4. ASSUME NEW r \in Runs, SaveStep(r)
        PROVE  Once!Save(r) \/ UNCHANGED Once!onceVars
    <2>1. PICK s \in {"saved", "broken"} \cup Rpcs : step' = [step EXCEPT ![r] = s]
      BY <1>0, <1>4, SaveEffect
    <2>2. pc[r] = "saving" /\ step[r] \in {"idle"} \cup Rpcs /\ given' = given
      BY <1>0, <1>4, SaveEffect
    <2>3. r \notin SavedRuns
      BY <2>2 DEF SavedRuns, Rpcs, Parts
    <2>4. CASE s = "saved"
      <3>1. SavedRuns' = SavedRuns \cup {r}
        BY <1>0, <2>1, <2>4 DEF SavedRuns, SaveTypeOK
      <3>2. given[r] = Nobody
        BY <1>0, <2>2 DEF Placed
      <3>3. JobOf[r] \in OrderlyJobs => Once!SavedFor(JobOf[r]) = {}
        <4> SUFFICES ASSUME JobOf[r] \in OrderlyJobs, NEW q \in Runs, JobOf[q] = JobOf[r]
                     PROVE  step[q] # "saved"
          BY DEF Once!SavedFor, SavedRuns
        <4>1. OrderlyRun(r)
          BY SameJobSameLesson DEF OrderlyJobs
        <4>2. pc[r] \in Active \ {"succeed"}
          BY <2>2 DEF Active
        <4> QED BY <1>0, <4>1, <4>2 DEF SavedOnce
      <3> QED BY <2>2, <2>3, <3>1, <3>2, <3>3 DEF Once!Save
    <2>5. CASE s # "saved"
      <3>1. SavedRuns' = SavedRuns
        BY <1>0, <2>1, <2>3, <2>5 DEF SavedRuns, SaveTypeOK
      <3> QED BY <2>2, <3>1 DEF Once!onceVars
    <2> QED BY <2>4, <2>5
  <1>5. ASSUME NEW r \in Runs, Cancel(r)
        PROVE  UNCHANGED Once!onceVars
    <2>1. /\ given' = given
          /\ step' = step \/ (step[r] \in Rpcs /\ step' = [step EXCEPT ![r] = "broken"])
      BY <1>0, <1>5, CancelEffect DEF saveVars
    <2> QED BY <1>0, <2>1 DEF Once!onceVars, SavedRuns, SaveTypeOK, Rpcs, Parts
  <1>6. ASSUME NEW r \in Runs, NEW s \in Rpcs, Arrives(r, s), UNCHANGED jobVars
        PROVE  UNCHANGED Once!onceVars
    BY <1>6 DEF Arrives, jobVars, Once!onceVars, SavedRuns
  <1>7. ASSUME NEW r \in Runs, NEW s \in Statuses, RowArrives(r, s)
        PROVE  UNCHANGED Once!onceVars
    BY <1>7 DEF RowArrives, saveVars, Once!onceVars, SavedRuns
  <1>8. CASE UNCHANGED vars
    BY <1>8 DEF vars, jobVars, saveVars, Once!onceVars, SavedRuns
  <1> QED
    BY <1>1, <1>2, <1>3, <1>4, <1>5, <1>6, <1>7, <1>8
    DEF Next, Run, GenerationEnds, QuietStep, Rest, Once!Next

\* To its callers the pipeline is AuthorOnce: what a run returns was saved
\* for its job, and an orderly job is saved once however often it is run.
THEOREM PipelineAuthorsOnce == Spec => ImplementsAuthorOnce
  <1>1. Init => Once!Init
    BY DEF Init, SaveInit, Once!Init, SavedRuns
  <1> QED
    BY <1>1, AuthorInit, AuthorStep, OrderlyInit, OrderlyStep, StepImplementsOnce, PTL
    DEF Spec, ImplementsAuthorOnce, Once!Spec

----------------------------------------------------------------------------
(* What is published is whole *)

\* The parts a save of bundle b has written when it awaits RPC s.
Written(b, s) ==
  CASE s = "lesson"   -> {}
    [] s = "document" -> {}
    [] s = "quiz"     -> {"document"}
    [] s = "project"  -> {"document"} \cup (b \cap {"quiz"})
    [] s = "runtime"  -> {"document", "project"} \cup (b \cap {"quiz"})
    [] s = "publish"  -> Carried(b)

\* While an orderly run writes its parts the lesson is a draft, and what it
\* has written so far is there.
DraftBeingWritten ==
  \A r \in Runs :
    OrderlyRun(r) /\ step[r] \in Rpcs =>
      /\ \A p \in Written(bundle[r], step[r]) : part[LessonOf[r]][p] = r
      /\ step[r] # "lesson" => lesson[LessonOf[r]] = "draft"
      /\ step[r] \in {"project", "runtime"} => "project" \in bundle[r]
      /\ step[r] = "publish" => r \in Publishing

\* PublishedIsWhole, with a publisher whose save is over: no later step
\* of its own touches the parts, and another run first makes a draft again.
PublishedWhole ==
  \A l \in Orderly :
    lesson[l] = "published" =>
      \E r \in Publishing :
        /\ LessonOf[r] = l
        /\ step[r] \in {"saved", "broken"}
        /\ \A p \in Carried(bundle[r]) : part[l][p] = r

PublishInv == DraftBeingWritten /\ PublishedWhole

\* The next RPC of a save: all it relies on has been written.
LEMMA FollowingWrites ==
  ASSUME NEW r \in Runs, NEW s \in Rpcs,
         s \in {"project", "runtime"} => "project" \in bundle[r]
  PROVE  Following(r, s) \in Rpcs =>
           /\ Following(r, s) # "lesson" /\ s # "publish"
           /\ Written(bundle[r], Following(r, s))
                \subseteq Written(bundle[r], s) \cup ({s} \cap Parts)
           /\ Following(r, s) \in {"project", "runtime"} => "project" \in bundle[r]
           /\ Following(r, s) = "publish" => r \in Publishing
  <1>1. CASE s = "lesson"
    BY <1>1 DEF Following, Written, Rpcs, Parts
  <1>2. CASE s = "document"
    BY <1>2 DEF Following, Written, Rpcs, Parts, Carried
  <1>3. CASE s = "quiz"
    BY <1>3 DEF Following, Written, Rpcs, Parts, Carried
  <1>4. CASE s = "project"
    BY <1>4 DEF Following, Written, Rpcs, Parts
  <1>5. CASE s = "runtime"
    BY <1>5 DEF Following, Written, Rpcs, Parts, Carried
  <1>6. CASE s = "publish"
    BY <1>6 DEF Following, Rpcs, Parts
  <1> QED BY <1>1, <1>2, <1>3, <1>4, <1>5, <1>6 DEF Rpcs, Parts

\* A step on a lesson that is not orderly, or one that begins or ends a save
\* and writes nothing.
LEMMA PublishElsewhere ==
  ASSUME PublishInv, NEW r \in Runs,
         \/ ~OrderlyRun(r)
         \/ step[r] \in {"idle"} \cup Rpcs /\ step'[r] \notin Rpcs \ {"lesson"},
         \A q \in Runs : q # r => step'[q] = step[q] /\ bundle'[q] = bundle[q],
         \A l \in Orderly :
           lesson'[l] = lesson[l] /\ part'[l] = part[l]
  PROVE  PublishInv'
  <1>1. DraftBeingWritten'
    <2> SUFFICES ASSUME NEW q \in Runs, OrderlyRun(q), step'[q] \in Rpcs
                 PROVE  /\ \A p \in Written(bundle'[q], step'[q]) : part'[LessonOf[q]][p] = q
                        /\ step'[q] # "lesson" => lesson'[LessonOf[q]] = "draft"
                        /\ step'[q] \in {"project", "runtime"} => "project" \in bundle'[q]
                        /\ step'[q] = "publish" => q \in Publishing
      BY DEF DraftBeingWritten, OrderlyRun, Written, Carried
    <2>1. CASE q = r
      <3>1. step'[q] = "lesson"
        BY <2>1
      <3> QED BY <3>1 DEF Written
    <2>2. CASE q # r
      <3>1. step'[q] = step[q] /\ bundle'[q] = bundle[q] /\ LessonOf[q] \in Orderly
        BY <2>2 DEF OrderlyRun
      <3> QED BY <3>1 DEF PublishInv, DraftBeingWritten
    <2> QED BY <2>1, <2>2
  <1>2. PublishedWhole'
    <2> SUFFICES ASSUME NEW l \in Orderly, lesson'[l] = "published"
                 PROVE  \E q \in Publishing :
                          /\ LessonOf[q] = l
                          /\ step'[q] \in {"saved", "broken"}
                          /\ \A p \in Carried(bundle'[q]) : part'[l][p] = q
      BY DEF PublishedWhole, Orderly, Carried
    <2>1. PICK q \in Publishing : /\ LessonOf[q] = l
                                  /\ step[q] \in {"saved", "broken"}
                                  /\ \A p \in Carried(bundle[q]) : part[l][p] = q
      BY DEF PublishInv, PublishedWhole
    <2>2. q \in Runs /\ q # r
      BY <2>1, LessonAssumption DEF OrderlyRun, Rpcs, Parts
    <2> QED BY <2>1, <2>2
  <1> QED BY <1>1, <1>2 DEF PublishInv

\* What an RPC of a run does to another run's lesson: nothing.
LEMMA ApplyElsewhere ==
  ASSUME SaveTypeOK, NEW r \in Runs, NEW s \in Rpcs, Apply(r, s)
  PROVE  \A l \in Lessons : l # LessonOf[r] => lesson'[l] = lesson[l] /\ part'[l] = part[l]
  BY LessonAssumption DEF SaveTypeOK, Apply

\* ... and to its own.
LEMMA ApplyHere ==
  ASSUME SaveTypeOK, NEW r \in Runs, NEW s \in Rpcs, Apply(r, s)
  PROVE  /\ lesson'[LessonOf[r]] = IF s = "lesson" THEN "draft"
                                   ELSE IF s = "publish" THEN "published"
                                   ELSE lesson[LessonOf[r]]
         /\ \A p \in Parts : part'[LessonOf[r]][p] =
              IF p = s THEN r ELSE part[LessonOf[r]][p]
  BY LessonAssumption DEF SaveTypeOK, Apply, Parts

\* An RPC of an orderly run takes effect and the run awaits RPC or end s.
LEMMA PublishHere ==
  ASSUME TypeOK, Placed, OneAtATime, PublishInv,
         NEW r \in Runs, OrderlyRun(r), pc[r] = "saving", step[r] \in Rpcs,
         Apply(r, step[r]), bundle' = bundle,
         NEW s, step' = [step EXCEPT ![r] = s],
         s = "broken" \/ s = Following(r, step[r])
  PROVE  PublishInv'
  <1>0. /\ SaveTypeOK /\ LessonOf[r] \in Orderly
        /\ LessonOf[r] \in Lessons /\ LessonOf[r] \in Serial /\ Orderly \subseteq Lessons
    BY JobAssumption DEF TypeOK, OrderlyRun, Orderly
  <1>1. /\ \A p \in Written(bundle[r], step[r]) : part[LessonOf[r]][p] = r
        /\ step[r] # "lesson" => lesson[LessonOf[r]] = "draft"
        /\ step[r] \in {"project", "runtime"} => "project" \in bundle[r]
        /\ step[r] = "publish" => r \in Publishing
    BY DEF PublishInv, DraftBeingWritten
  <1>2. \A q \in Runs : LessonOf[q] = LessonOf[r] /\ step[q] \in Rpcs => q = r
    <2> SUFFICES ASSUME NEW q \in Runs, LessonOf[q] = LessonOf[r], step[q] \in Rpcs
                 PROVE  q = r
      OBVIOUS
    <2>1. pc[q] = "saving"
      BY DEF Placed, TypeOK, Before, Active, Ended, Reporting, Rpcs, Parts
    <2> QED BY <1>0, <2>1 DEF OneAtATime, Active
  <1>3. /\ step'[r] = s
        /\ \A q \in Runs : q # r => step'[q] = step[q]
    BY <1>0 DEF SaveTypeOK
  <1>4. \A l \in Lessons : l # LessonOf[r] => lesson'[l] = lesson[l] /\ part'[l] = part[l]
    BY <1>0, ApplyElsewhere
  <1>5. /\ lesson'[LessonOf[r]] = IF step[r] = "publish" THEN "published" ELSE "draft"
        /\ \A p \in Parts : part'[LessonOf[r]][p] =
              IF p = step[r] THEN r ELSE part[LessonOf[r]][p]
    BY <1>0, <1>1, ApplyHere
  <1>6. Written(bundle[r], step[r]) \subseteq Parts
    BY DEF Written, Carried, Parts, Rpcs
  <1>7. DraftBeingWritten'
    <2> SUFFICES ASSUME NEW q \in Runs, OrderlyRun(q), step'[q] \in Rpcs
                 PROVE  /\ \A p \in Written(bundle[q], step'[q]) : part'[LessonOf[q]][p] = q
                        /\ step'[q] # "lesson" => lesson'[LessonOf[q]] = "draft"
                        /\ step'[q] \in {"project", "runtime"} => "project" \in bundle[q]
                        /\ step'[q] = "publish" => q \in Publishing
      BY DEF DraftBeingWritten, OrderlyRun, Written, Carried
    <2>1. CASE q = r
      <3>1. s = Following(r, step[r]) /\ Following(r, step[r]) \in Rpcs /\ step'[q] = s
        BY <1>3, <2>1 DEF Rpcs, Parts
      <3>2. /\ s # "lesson" /\ step[r] # "publish"
            /\ Written(bundle[r], s) \subseteq Written(bundle[r], step[r]) \cup ({step[r]} \cap Parts)
            /\ s \in {"project", "runtime"} => "project" \in bundle[r]
            /\ s = "publish" => r \in Publishing
        BY <1>1, <3>1, FollowingWrites
      <3>3. \A p \in Written(bundle[r], s) : part'[LessonOf[r]][p] = r
        BY <1>1, <1>5, <1>6, <3>2
      <3> QED BY <1>5, <2>1, <3>1, <3>2, <3>3
    <2>2. CASE q # r
      <3>1. step[q] \in Rpcs /\ step'[q] = step[q]
        BY <1>3, <2>2
      <3>2. LessonOf[q] # LessonOf[r] /\ LessonOf[q] \in Lessons
        BY <1>2, <2>2, <3>1, LessonAssumption
      <3>3. lesson'[LessonOf[q]] = lesson[LessonOf[q]] /\ part'[LessonOf[q]] = part[LessonOf[q]]
        BY <1>4, <3>2
      <3> QED BY <3>1, <3>3 DEF PublishInv, DraftBeingWritten
    <2> QED BY <2>1, <2>2
  <1>8. PublishedWhole'
    <2> SUFFICES ASSUME NEW l \in Orderly, lesson'[l] = "published"
                 PROVE  \E q \in Publishing :
                          /\ LessonOf[q] = l
                          /\ step'[q] \in {"saved", "broken"}
                          /\ \A p \in Carried(bundle[q]) : part'[l][p] = q
      BY DEF PublishedWhole, Orderly, Carried
    <2>1. CASE l = LessonOf[r]
      <3>1. step[r] = "publish" /\ r \in Publishing
        BY <1>1, <1>5, <2>1
      <3>2. s \in {"saved", "broken"}
        BY <3>1 DEF Following
      <3>3. \A p \in Carried(bundle[r]) : part'[l][p] = r
        BY <1>1, <1>5, <1>6, <2>1, <3>1 DEF Written
      <3> QED BY <1>3, <2>1, <3>1, <3>2, <3>3
    <2>2. CASE l # LessonOf[r]
      <3>1. lesson'[l] = lesson[l] /\ part'[l] = part[l]
        BY <1>0, <1>4, <2>2
      <3>2. PICK q \in Publishing : /\ LessonOf[q] = l
                                    /\ step[q] \in {"saved", "broken"}
                                    /\ \A p \in Carried(bundle[q]) : part[l][p] = q
        BY <3>1 DEF PublishInv, PublishedWhole
      <3>3. q \in Runs /\ q # r
        BY <2>2, <3>2, LessonAssumption
      <3> QED BY <1>3, <3>1, <3>2, <3>3
    <2> QED BY <2>1, <2>2
  <1> QED BY <1>7, <1>8 DEF PublishInv

LEMMA PublishInit == Init => PublishInv
  BY JobAssumption
  DEF Init, SaveInit, PublishInv, DraftBeingWritten, PublishedWhole, Rpcs, Parts, Orderly

\* Nothing of the saves changes: what is published stays whole.
LEMMA PublishKept ==
  ASSUME PublishInv, UNCHANGED <<step, bundle, lesson, part>>
  PROVE  PublishInv'
  BY DEF PublishInv, DraftBeingWritten, PublishedWhole, OrderlyRun, Orderly

LEMMA PublishStep == AuthorInv /\ OrderlyInv /\ PublishInv /\ [Next]_vars => PublishInv'
  <1> SUFFICES ASSUME AuthorInv, OrderlyInv, PublishInv, [Next]_vars PROVE PublishInv'
    OBVIOUS
  <1>0. /\ TypeOK /\ SaveTypeOK /\ Placed /\ Patient /\ OneAtATime
        /\ Orderly \subseteq Lessons
    BY JobAssumption DEF AuthorInv, TypeOK, OrderlyInv, Orderly
  <1>1. ASSUME NEW r \in Runs,
               Start(r) \/ Replay(r) \/ Resolved(r) \/ PhaseChanges(r) \/ GenerationRaises(r)
        PROVE  PublishInv'
    <2>1. UNCHANGED <<step, bundle, lesson, part>>
      BY <1>1 DEF Start, Replay, Resolved, PhaseChanges, GenerationRaises, saveVars
    <2> QED BY <2>1, PublishKept
  <1>2. ASSUME NEW r \in Runs, Delivered(r) \/ AttemptFails(r)
        PROVE  PublishInv'
    <2>1. UNCHANGED <<step, bundle, lesson, part>>
      BY <1>0, <1>2, ReportEffect DEF saveVars
    <2> QED BY <2>1, PublishKept
  <1>3. ASSUME NEW r \in Runs, Generated(r)
        PROVE  PublishInv'
    <2>1. /\ pc[r] = "generate" /\ UNCHANGED <<step, lesson, part>>
          /\ \E b : bundle' = [bundle EXCEPT ![r] = b] \/ bundle' = bundle
      BY <1>3 DEF Generated
    <2>2. step[r] = "idle"
      BY <1>0, <2>1 DEF Placed, Before
    <2>3. step'[r] = "idle" /\ \A q \in Runs : q # r => bundle'[q] = bundle[q]
      BY <1>0, <2>1, <2>2 DEF SaveTypeOK
    <2> QED BY <2>1, <2>2, <2>3, PublishElsewhere DEF Rpcs, Parts
  <1>4. ASSUME NEW r \in Runs, SaveStep(r)
        PROVE  PublishInv'
    <2>0. pc[r] = "saving"
      BY <1>4 DEF SaveStep
    <2>1. ASSUME step[r] \in {"idle"} \cup Rpcs, bundle' = bundle, UNCHANGED <<lesson, part>>,
                 step' = [step EXCEPT ![r] = "lesson"] \/ step' = [step EXCEPT ![r] = "broken"]
          PROVE  PublishInv'
      <3>1. /\ step'[r] \notin Rpcs \ {"lesson"}
            /\ \A q \in Runs : q # r => step'[q] = step[q]
        BY <1>0, <2>1 DEF SaveTypeOK, Rpcs, Parts
      <3> QED BY <2>1, <3>1, PublishElsewhere
    <2>2. ASSUME step[r] \in Rpcs, Apply(r, step[r]), bundle' = bundle,
                 NEW s, step' = [step EXCEPT ![r] = s],
                 s = "broken" \/ s = Following(r, step[r])
          PROVE  PublishInv'
      <3>1. CASE OrderlyRun(r)
        BY <1>0, <2>0, <2>2, <3>1, PublishHere
      <3>2. CASE ~OrderlyRun(r)
        <4>1. \A q \in Runs : q # r => step'[q] = step[q]
          BY <1>0, <2>2 DEF SaveTypeOK
        <4>2. \A l \in Orderly : lesson'[l] = lesson[l] /\ part'[l] = part[l]
          BY <1>0, <2>2, <3>2, ApplyElsewhere DEF OrderlyRun
        <4> QED BY <2>2, <3>2, <4>1, <4>2, PublishElsewhere
      <3> QED BY <3>1, <3>2
    <2>3. CASE Begin(r, bundle[r])
      <3>1. bundle' = bundle
        BY <1>0, <2>3 DEF Begin, SaveTypeOK
      <3> QED BY <2>1, <2>3, <3>1 DEF Begin
    <2>4. CASE Refuse(r)
      BY <2>1, <2>4 DEF Refuse
    <2>5. CASE Answered(r)
      BY <2>2, <2>5 DEF Answered
    <2>6. CASE Broken(r)
      <3>1. \/ UNCHANGED <<lesson, part>>
            \/ Apply(r, step[r])
        BY <2>6 DEF Broken
      <3>2. step[r] \in Rpcs /\ bundle' = bundle /\ step' = [step EXCEPT ![r] = "broken"]
        BY <2>6 DEF Broken
      <3> QED BY <2>1, <2>2, <3>1, <3>2
    <2> QED BY <1>4, <2>3, <2>4, <2>5, <2>6 DEF SaveStep
  <1>5. ASSUME NEW r \in Runs, Cancel(r)
        PROVE  PublishInv'
    <2>1. LessonOf[r] \notin Reliable /\ bundle' = bundle
      BY <1>0, <1>5, CancelEffect
    <2>2. ~OrderlyRun(r)
      BY <2>1 DEF OrderlyRun, Orderly
    <2>3. \A q \in Runs : q # r => step'[q] = step[q]
      BY <1>0, <1>5, CancelEffect DEF SaveTypeOK, saveVars
    <2>4. \/ UNCHANGED <<lesson, part>>
          \/ step[r] \in Rpcs /\ Apply(r, step[r])
      BY <1>5 DEF Cancel, Broken, saveVars
    <2>5. \A l \in Orderly : lesson'[l] = lesson[l] /\ part'[l] = part[l]
      BY <1>0, <2>2, <2>4, ApplyElsewhere DEF OrderlyRun
    <2> QED BY <2>1, <2>2, <2>3, <2>5, PublishElsewhere
  <1>6. ASSUME NEW r \in Runs, NEW s \in Rpcs, Arrives(r, s)
        PROVE  PublishInv'
    <2>1. <<r, s>> \in late /\ Apply(r, s) /\ UNCHANGED <<step, bundle>>
      BY <1>6 DEF Arrives
    <2>2. ~OrderlyRun(r)
      BY <1>0, <2>1 DEF Patient, OrderlyRun, Orderly
    <2>3. \A l \in Orderly : lesson'[l] = lesson[l] /\ part'[l] = part[l]
      BY <1>0, <2>1, <2>2, ApplyElsewhere DEF OrderlyRun
    <2> QED BY <2>1, <2>2, <2>3, PublishElsewhere
  <1>7. ASSUME NEW r \in Runs, NEW s \in Statuses, RowArrives(r, s)
        PROVE  PublishInv'
    BY <1>7, PublishKept DEF RowArrives, saveVars
  <1>8. CASE UNCHANGED vars
    BY <1>8, PublishKept DEF vars, saveVars
  <1> QED
    BY <1>1, <1>2, <1>3, <1>4, <1>5, <1>6, <1>7, <1>8
    DEF Next, Run, GenerationEnds, Rest

\* A published lesson has every part of the bundle its document came with,
\* and no run is writing over them (authoring_service.py:319-389), whatever
\* saves failed before.  Parts that bundle did not carry are not spoken of.
THEOREM PublishedBundleIsWhole == Spec => []PublishedIsWhole
  <1>1. ASSUME PublishInv, NEW l \in Orderly, lesson[l] = "published"
        PROVE  LET r == part[l]["document"]
               IN  /\ r \in Publishing
                   /\ \A p \in Carried(bundle[r]) : part[l][p] = r
                   /\ \A q \in Runs : LessonOf[q] = l => step[q] \notin Rpcs \ {"lesson"}
    <2>1. PICK r \in Publishing : \A p \in Carried(bundle[r]) : part[l][p] = r
      BY <1>1 DEF PublishInv, PublishedWhole
    <2>2. part[l]["document"] = r
      BY <2>1 DEF Carried
    <2>3. \A q \in Runs : LessonOf[q] = l => step[q] \notin Rpcs \ {"lesson"}
      BY <1>1 DEF PublishInv, DraftBeingWritten, OrderlyRun
    <2> QED BY <2>1, <2>2, <2>3
  <1>2. PublishInv => PublishedIsWhole
    BY <1>1 DEF PublishedIsWhole
  <1> QED
    BY <1>2, AuthorInit, AuthorStep, OrderlyInit, OrderlyStep, PublishInit, PublishStep, PTL
    DEF Spec
=============================================================================
