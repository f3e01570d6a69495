------------------------ MODULE ProjectReviewProofs ------------------------
(***************************************************************************)
(* Proofs about ProjectReview, for any calls, jobs, retries and            *)
(* deliveries: its type invariant and that it keeps ReviewPromise.         *)
(***************************************************************************)
EXTENDS ProjectReview, TLAPS

----------------------------------------------------------------------------
(* The inductive invariant *)

\* Until its POST, a call has no grade anywhere.
Ungraded == {"new", "starting", "lookup", "collect", "grade", "validate", "persist"}

\* What call c knows is so: what it saw was current when it began, and what
\* it is about to answer is made.
Knows(c) ==
  /\ pc[c] = "new" <=> began[c] = -1
  /\ began[c] <= latest
  /\ pc[c] # "done" => told[c] = Untold
  /\ seen[c] # 0 => seen[c] \in Promise!Current(c)
  /\ pc[c] \in Ungraded => \A g \in stored \cup late : g.by # c
  /\ pc[c] \in {"starting", "succeeding"} => JobOf[c] # NoJob
  /\ pc[c] = "lookup" => JobOf[c] = NoJob
  /\ pc[c] = "succeeding" \/ (pc[c] = "finish" /\ ~failed[c]) =>
       seen[c] # 0 /\ Promise!Made(c, seen[c])

\* A grade on its way is the only one of its call.
LateInv ==
  \A g \in late :
    /\ Persists[g.by] /\ g.delivery \in Promise!Current(g.by)
    /\ \A h \in stored : h.by # g.by
    /\ \A h \in late : h.by = g.by => h = g

\* What the tool cache would answer was made.
EntryInv ==
  \A p \in BOOLEAN : entry[p] # 0 =>
    /\ entry[p] <= latest
    /\ \E b \in Calls : Persists[b] = p /\ Promise!Made(b, entry[p])

\* And so was what an update on its way says.
Truthful(j, s, d) ==
  /\ s \in {"running", "succeeded", "failed"} /\ d \in 0..latest
  /\ s = "succeeded" => \E c \in Calls : JobOf[c] = j /\ Promise!Made(c, d)
RowInv == \A x \in lateRow : Truthful(x.job, x.update.status, x.update.delivery)

KnowsInv == \A c \in Calls : Knows(c)
WorldInv == LateInv /\ EntryInv /\ RowInv

IInv == TypeOK /\ KnowsInv /\ WorldInv

----------------------------------------------------------------------------
(* Type correctness *)

LEMMA Bounds ==
  /\ 0 \in 0..MaxDeliveries /\ 0 \in 0..NodeRetries /\ -1 \in -1..MaxDeliveries
  /\ MaxDeliveries \in Nat /\ NodeRetries \in Nat
BY BoundAssumption

LEMMA GotoType ==
  ASSUME TypeOK, NEW c \in Calls, NEW p \in {"new", "done"} \cup Active, Goto(c, p)
  PROVE  pc' \in [Calls -> {"new", "done"} \cup Active]
BY DEF TypeOK, Goto

LEMMA AnswerType ==
  ASSUME TypeOK, NEW c \in Calls, NEW d \in 0..MaxDeliveries, NEW hit \in BOOLEAN,
         NEW k \in {"error", "cancelled", "persisted", "unsaved"}, Answer(c, k, d, hit)
  PROVE  /\ pc' \in [Calls -> {"new", "done"} \cup Active]
         /\ seen' \in [Calls -> 0..MaxDeliveries]
         /\ tries' \in [Calls -> 0..NodeRetries]
         /\ scored' \in [Calls -> Replies \cup {"none"}]
         /\ failed' \in [Calls -> BOOLEAN]
         /\ told' \in [Calls -> Answers]
<1>1. [kind |-> k, delivery |-> d, cached |-> hit] \in Answers
  BY DEF Answers
<1>2. pc' \in [Calls -> {"new", "done"} \cup Active]
  BY DEF TypeOK, Answer, Goto
<1>3. /\ seen' \in [Calls -> 0..MaxDeliveries] /\ tries' \in [Calls -> 0..NodeRetries]
  BY Bounds DEF TypeOK, Answer
<1> QED
  BY <1>1, <1>2, <1>3 DEF TypeOK, Answer

LEMMA ReportsType ==
  ASSUME TypeOK, NEW c \in Calls, JobOf[c] # NoJob, Reports(c)
  PROVE  /\ row' \in [Jobs -> Statuses]
         /\ lateRow' \subseteq [job : Jobs, update : Statuses]
<1>1. JobOf[c] \in Jobs
  BY CallAssumption
<1>2. PICK s \in {"running", "succeeded", "failed"}, d \in 0..MaxDeliveries :
        Reported(JobOf[c], s, d)
  BY Bounds DEF Reports, TypeOK
<1>3. [status |-> s, delivery |-> d] \in Statuses
  BY DEF Statuses
<1> QED
  BY <1>1, <1>2, <1>3 DEF Reported, TypeOK

LEMMA PostType ==
  ASSUME TypeOK, NEW c \in Calls, seen[c] # 0, Post(c)
  PROVE  /\ pc' \in [Calls -> {"new", "done"} \cup Active]
         /\ stored' \subseteq Grades /\ late' \subseteq Grades
<1>1. [by |-> c, delivery |-> seen[c]] \in Grades
  BY Bounds DEF TypeOK, Grades
<1>2. {"finish", "failing"} \subseteq {"new", "done"} \cup Active
  BY DEF Active, Reporting
<1>3. pc' \in [Calls -> {"new", "done"} \cup Active]
  BY <1>2, GotoType DEF Post, Fails
<1>4. stored' \subseteq Grades /\ late' \subseteq Grades
  BY <1>1 DEF Post, TypeOK
<1> QED
  BY <1>3, <1>4

LEMMA TypeInit == Init => TypeOK
<1> SUFFICES ASSUME Init PROVE TypeOK
  OBVIOUS
<1>1. /\ pc \in [Calls -> {"new", "done"} \cup Active]
      /\ seen \in [Calls -> 0..MaxDeliveries] /\ tries \in [Calls -> 0..NodeRetries]
      /\ scored \in [Calls -> Replies \cup {"none"}] /\ failed \in [Calls -> BOOLEAN]
  BY Bounds DEF Init, InitGraph
<1>2. /\ entry \in [BOOLEAN -> 0..MaxDeliveries] /\ latest \in 0..MaxDeliveries
      /\ began \in [Calls -> -1..MaxDeliveries]
      /\ stored \subseteq Grades /\ late \subseteq Grades
      /\ lateRow \subseteq [job : Jobs, update : Statuses]
  BY Bounds DEF Init, InitWorld
<1>3. told \in [Calls -> Answers] /\ row \in [Jobs -> Statuses]
  BY Bounds DEF Init, InitWorld, Answers, Statuses, Untold
<1> QED
  BY <1>1, <1>2, <1>3 DEF TypeOK

LEMMA RunType ==
  ASSUME TypeOK, NEW c \in Calls, Run(c) \/ Cancel(c),
         pc[c] \in {"starting", "succeeding"} => JobOf[c] # NoJob
  PROVE  TypeOK'
<1> DEFINE Places == {"new", "done"} \cup Active
<1>0. /\ {"lookup", "starting", "collect", "failing", "succeeding", "grade",
          "validate", "persist", "finish"} \subseteq Places
      /\ Kind(c) \in {"persisted", "unsaved"}
      /\ seen[c] \in 0..MaxDeliveries
      /\ \A p \in BOOLEAN : entry[p] \in 0..MaxDeliveries
      /\ Persists[c] \in BOOLEAN
  BY CallAssumption DEF Active, Reporting, Nodes, Kind, TypeOK
<1>1. CASE Call(c)
  <2>1. pc' \in [Calls -> Places]
    BY <1>0, <1>1, GotoType DEF Call
  <2>2. began' \in [Calls -> -1..MaxDeliveries]
    BY <1>1, Bounds DEF Call, TypeOK
  <2> QED
    BY <1>1, <2>1, <2>2 DEF Call, TypeOK
<1>2. CASE ReportRunning(c)
  <2>1. pc' \in [Calls -> Places]
    BY <1>0, <1>2, GotoType DEF ReportRunning
  <2> QED
    BY <1>2, <2>1, ReportsType DEF ReportRunning, TypeOK
<1>3. CASE Hit(c)
  BY <1>0, <1>3, AnswerType DEF Hit, TypeOK
<1>4. CASE Miss(c)
  <2>1. pc' \in [Calls -> Places]
    BY <1>0, <1>4, GotoType DEF Miss
  <2> QED
    BY <1>4, <2>1 DEF Miss, TypeOK, worldVars
<1>5. CASE Collect(c)
  <2>1. pc' \in [Calls -> Places]
    BY <1>0, <1>5, GotoType DEF Collect, Fails
  <2>2. seen' \in [Calls -> 0..MaxDeliveries]
    BY <1>5 DEF Collect, ReadDeliveries, TypeOK
  <2> QED
    BY <1>5, <2>1, <2>2 DEF Collect, TypeOK, worldVars
<1>6. CASE Grade(c)
  <2>1. pc' \in [Calls -> Places]
    BY <1>0, <1>6, GotoType DEF Grade
  <2>2. /\ scored' \in [Calls -> Replies \cup {"none"}]
        /\ failed' \in [Calls -> BOOLEAN]
    BY <1>6 DEF Grade, TypeOK
  <2> QED
    BY <1>6, <2>1, <2>2 DEF Grade, TypeOK, worldVars
<1>7. CASE GradeRaises(c)
  <2>1. pc' \in [Calls -> Places]
    BY <1>0, <1>7, GotoType DEF GradeRaises, Fails, TypeOK
  <2>2. tries' \in [Calls -> 0..NodeRetries]
    BY <1>7, Bounds DEF GradeRaises, TypeOK
  <2> QED
    BY <1>7, <2>1, <2>2 DEF GradeRaises, TypeOK, worldVars
<1>8. CASE Validate(c)
  <2>1. pc' \in [Calls -> Places]
    BY <1>0, <1>8, GotoType DEF Validate
  <2> QED
    BY <1>8, <2>1 DEF Validate, TypeOK, worldVars
<1>9. CASE Persist(c)
  <2>1. pc' \in [Calls -> Places] /\ stored' \subseteq Grades /\ late' \subseteq Grades
    <3>1. CASE Post(c) /\ seen[c] # 0
      BY <3>1, PostType
    <3>2. CASE Goto(c, "finish") /\ UNCHANGED <<stored, late>>
      BY <1>0, <3>2, GotoType DEF TypeOK
    <3> QED
      BY <1>9, <3>1, <3>2 DEF Persist
  <2>2. failed' \in [Calls -> BOOLEAN]
    BY <1>9 DEF Persist, TypeOK
  <2> QED
    BY <1>9, <2>1, <2>2 DEF Persist, TypeOK
<1>10. CASE Finish(c)
  <2>1. CASE Answer(c, Kind(c), seen[c], FALSE) /\ Cached(c, seen[c])
    <3>1. entry' \in [BOOLEAN -> 0..MaxDeliveries]
      BY <1>0, <2>1 DEF Cached, TypeOK
    <3> QED
      BY <1>0, <1>10, <2>1, <3>1, AnswerType DEF Finish, TypeOK
  <2>2. CASE \/ Goto(c, "failing") /\ UNCHANGED <<seen, tries, scored, failed, entry, told>>
             \/ Goto(c, "succeeding") /\ UNCHANGED <<seen, tries, scored, failed, entry, told>>
    <3>1. pc' \in [Calls -> Places]
      BY <1>0, <2>2, GotoType
    <3> QED
      BY <1>10, <2>2, <3>1 DEF Finish, TypeOK
  <2> QED
    BY <1>10, <2>1, <2>2 DEF Finish
<1>11. CASE End(c)
  <2>1. /\ row' \in [Jobs -> Statuses]
        /\ lateRow' \subseteq [job : Jobs, update : Statuses]
    BY <1>11, ReportsType DEF End, TypeOK
  <2> QED
    BY <1>0, <1>11, <2>1, Bounds, AnswerType DEF End, TypeOK
<1>12. CASE TimesOut(c)
  <2>1. pc' \in [Calls -> Places]
    BY <1>0, <1>12, GotoType DEF TimesOut, Fails
  <2> QED
    BY <1>12, <2>1 DEF TimesOut, TypeOK, worldVars
<1>13. CASE Cancel(c)
  <2>1. /\ row' \in [Jobs -> Statuses]
        /\ lateRow' \subseteq [job : Jobs, update : Statuses]
    BY <1>13, ReportsType DEF Cancel, TypeOK
  <2> QED
    BY <1>13, <2>1, Bounds, AnswerType DEF Cancel, TypeOK
<1> QED
  BY <1>1, <1>2, <1>3, <1>4, <1>5, <1>6, <1>7, <1>8, <1>9, <1>10, <1>11, <1>12, <1>13
     DEF Run

LEMMA WorldType == TypeOK /\ (World \/ UNCHANGED vars) => TypeOK'
<1> SUFFICES ASSUME TypeOK, World \/ UNCHANGED vars PROVE TypeOK'
  OBVIOUS
<1>1. CASE Submit
  BY <1>1, Bounds DEF Submit, TypeOK, graphVars
<1>2. CASE \E g \in late : GradeArrives(g)
  BY <1>2 DEF GradeArrives, TypeOK, graphVars
<1>3. ASSUME NEW x \in lateRow, RowArrives(x) PROVE TypeOK'
  <2>1. x.update \in Statuses /\ lateRow' \subseteq [job : Jobs, update : Statuses]
    BY <1>3 DEF RowArrives, TypeOK
  <2>2. row' \in [Jobs -> Statuses]
    BY <1>3, <2>1 DEF RowArrives, TypeOK
  <2> QED
    BY <1>3, <2>1, <2>2 DEF RowArrives, TypeOK, graphVars
<1>4. CASE \E p \in BOOLEAN : Expire(p)
  BY <1>4, Bounds DEF Expire, TypeOK, graphVars, worldVars
<1>5. CASE UNCHANGED vars
  BY <1>5 DEF vars, graphVars, worldVars, TypeOK
<1> QED
  BY <1>1, <1>2, <1>3, <1>4, <1>5 DEF World

----------------------------------------------------------------------------
(* What was made stays made *)

\* The world goes on: nothing is taken back.
Onwards ==
  /\ latest <= latest' /\ stored \subseteq stored'
  /\ \A b \in Calls : began[b] # -1 => began'[b] = began[b]

LEMMA MadeStays ==
  ASSUME TypeOK, TypeOK', Onwards, NEW b \in Calls, NEW d
  PROVE  /\ d \in Promise!Current(b) => d \in Promise!Current(b)'
         /\ Promise!Made(b, d) => Promise!Made(b, d)'
<1>1. d \in Promise!Current(b) => d \in Promise!Current(b)'
  BY DEF Promise!Current, Onwards, TypeOK
<1> QED
  BY <1>1 DEF Promise!Made, Onwards

LEMMA TruthStays ==
  ASSUME TypeOK, TypeOK', Onwards, NEW j, NEW s, NEW d, Truthful(j, s, d)
  PROVE  Truthful(j, s, d)'
<1>1. d \in 0..latest => d \in 0..latest'
  BY DEF Onwards, TypeOK
<1> QED
  BY <1>1, MadeStays DEF Truthful

\* What call b knows is not changed by what the others do: they store and
\* send grades of their own only.
LEMMA OtherKnows ==
  ASSUME TypeOK, TypeOK', Onwards, NEW b \in Calls, Knows(b),
         pc'[b] = pc[b], began'[b] = began[b], told'[b] = told[b],
         seen'[b] = seen[b], failed'[b] = failed[b],
         \A g \in (stored \cup late)' : g.by = b => g \in stored \cup late
  PROVE  Knows(b)'
<1>1. began'[b] <= latest'
  BY DEF Knows, TypeOK, Onwards
<1>2. seen'[b] # 0 => seen'[b] \in Promise!Current(b)'
  BY MadeStays DEF Knows
<1>3. pc'[b] = "succeeding" \/ (pc'[b] = "finish" /\ ~failed'[b]) =>
        seen'[b] # 0 /\ Promise!Made(b, seen[b])'
  <2>1. PICK d : d = seen[b]
    OBVIOUS
  <2>2. Promise!Made(b, d) => Promise!Made(b, d)'
    BY MadeStays
  <2>3. Promise!Made(b, seen[b])' <=> Promise!Made(b, d)'
    BY <2>1 DEF Promise!Made, Promise!Current
  <2> QED
    BY <2>1, <2>2, <2>3 DEF Knows
<1>4. pc'[b] \in Ungraded => \A g \in (stored \cup late)' : g.by # b
  BY DEF Knows
<1> QED
  BY <1>1, <1>2, <1>3, <1>4 DEF Knows

\* The grades, the cache and the updates that are left alone.
LEMMA WorldStays ==
  ASSUME TypeOK, TypeOK', Onwards, WorldInv, UNCHANGED <<stored, late>>,
         \A p \in BOOLEAN : entry'[p] \in {entry[p], 0},
         \A x \in lateRow' :
           x \in lateRow \/ Truthful(x.job, x.update.status, x.update.delivery)
  PROVE  WorldInv'
<1>1. LateInv'
  <2>1. \A g \in late : g.by \in Calls
    BY DEF TypeOK, Grades
  <2>2. \A g \in late : g.delivery \in Promise!Current(g.by)'
    BY <2>1, MadeStays DEF WorldInv, LateInv
  <2> QED
    BY <2>2 DEF WorldInv, LateInv
<1>2. EntryInv'
  <2> SUFFICES ASSUME NEW p \in BOOLEAN, entry'[p] # 0
               PROVE  /\ entry'[p] <= latest'
                      /\ \E b \in Calls : Persists[b] = p /\ Promise!Made(b, entry[p])'
    BY DEF EntryInv
  <2>1. entry'[p] = entry[p] /\ entry[p] \in 0..MaxDeliveries
    BY DEF TypeOK
  <2>2. entry[p] <= latest
    BY <2>1 DEF WorldInv, EntryInv
  <2>3. entry'[p] <= latest'
    BY <2>1, <2>2, Bounds DEF Onwards, TypeOK
  <2>4. PICK b \in Calls : Persists[b] = p /\ Promise!Made(b, entry[p])
    BY <2>1 DEF WorldInv, EntryInv
  <2>5. PICK d : d = entry[p]
    OBVIOUS
  <2>6. Promise!Made(b, d)'
    BY <2>4, <2>5, MadeStays
  <2>7. Promise!Made(b, entry[p])'
    BY <2>1, <2>5, <2>6 DEF Promise!Made, Promise!Current
  <2> QED
    BY <2>3, <2>4, <2>7
<1>3. RowInv'
  <2> SUFFICES ASSUME NEW x \in lateRow'
               PROVE  Truthful(x.job, x.update.status, x.update.delivery)'
    BY DEF RowInv
  <2>1. Truthful(x.job, x.update.status, x.update.delivery)
    BY DEF WorldInv, RowInv
  <2> QED
    BY <2>1, TruthStays
<1> QED
  BY <1>1, <1>2, <1>3 DEF WorldInv

----------------------------------------------------------------------------
(* What a call tells *)

LEMMA ReportsAreTrue ==
  ASSUME IInv, NEW c \in Calls, JobOf[c] # NoJob, Reports(c)
  PROVE  /\ \A x \in lateRow' :
              x \in lateRow \/ Truthful(x.job, x.update.status, x.update.delivery)
         /\ row' = row \/ Promise!Reported(JobOf[c])
<1>1. PICK s, d : Truthful(JobOf[c], s, d) /\ Reported(JobOf[c], s, d)
  <2>1. CASE pc[c] = "succeeding" /\ Reported(JobOf[c], "succeeded", seen[c])
    <3>1. seen[c] \in 0..latest
      <4>1. seen[c] # 0 /\ seen[c] \in Promise!Current(c)
        BY <2>1 DEF IInv, KnowsInv, Knows
      <4> QED
        BY <4>1 DEF Promise!Current, IInv, TypeOK
    <3>2. Promise!Made(c, seen[c])
      BY <2>1 DEF IInv, KnowsInv, Knows
    <3>3. Truthful(JobOf[c], "succeeded", seen[c])
      BY <3>1, <3>2 DEF Truthful
    <3> QED
      BY <2>1, <3>3
  <2>2. 0 \in 0..latest
    BY Bounds DEF IInv, TypeOK
  <2>3. Truthful(JobOf[c], "running", 0) /\ Truthful(JobOf[c], "failed", 0)
    BY <2>2 DEF Truthful
  <2> QED
    BY <2>1, <2>3 DEF Reports
<1>2. \A x \in lateRow' :
        x \in lateRow \/ Truthful(x.job, x.update.status, x.update.delivery)
  BY <1>1 DEF Reported
<1>3. row' = row \/ Promise!Reported(JobOf[c])
  BY <1>1 DEF Reported, Promise!Reported, Truthful
<1> QED
  BY <1>2, <1>3

\* The answers the promise allows.
Allowed(c, k, d, hit) ==
  /\ d \in 0..latest
  /\ \/ k \in {"error", "cancelled"} /\ ~hit
     \/ k = Kind(c) /\ ~hit /\ Promise!Made(c, d)
     \/ /\ k = Kind(c) /\ hit /\ JobOf[c] = NoJob
        /\ \E b \in Calls : Persists[b] = Persists[c] /\ Promise!Made(b, d)

\* A call that is going on may answer so, its row may be reported with it,
\* and afterwards it knows all it should.
LEMMA AnswerKeeps ==
  ASSUME IInv, TypeOK', NEW c \in Calls, NEW k, NEW d, NEW hit \in BOOLEAN,
         Answer(c, k, d, hit), Allowed(c, k, d, hit), pc[c] \notin {"new", "done"},
         UNCHANGED <<latest, began, stored, late>>,
         row' = row \/ (JobOf[c] # NoJob /\ Promise!Reported(JobOf[c]))
  PROVE  KnowsInv' /\ Promise!Tell(c)
<1>1. /\ pc'[c] = "done" /\ seen'[c] = 0
      /\ \A b \in Calls : b # c => /\ pc'[b] = pc[b] /\ told'[b] = told[b]
                                   /\ seen'[b] = seen[b] /\ failed'[b] = failed[b]
      /\ Onwards
  <2>1. latest <= latest
    BY DEF IInv, TypeOK
  <2> QED
    BY <2>1 DEF Answer, Goto, IInv, TypeOK, Onwards
<1>2. KnowsInv'
  <2> SUFFICES ASSUME NEW b \in Calls PROVE Knows(b)'
    BY DEF KnowsInv
  <2>1. CASE b = c
    BY <1>1, <2>1 DEF IInv, KnowsInv, Knows, Ungraded
  <2>2. CASE b # c
    BY <1>1, <2>2, OtherKnows DEF IInv, KnowsInv
  <2> QED
    BY <2>1, <2>2
<1>3. told[c] = Untold /\ began[c] # -1
  BY DEF IInv, KnowsInv, Knows
<1>4. [kind |-> k, delivery |-> d, cached |-> hit] \in
        [kind : {"error", "cancelled", Promise!Kind(c)}, delivery : 0..latest, cached : BOOLEAN]
  BY DEF Allowed, Kind, Promise!Kind
<1>5. k = Promise!Kind(c) =>
        IF hit
          THEN JobOf[c] = NoJob /\ \E b \in Calls : Persists[b] = Persists[c] /\ Promise!Made(b, d)
          ELSE Promise!Made(c, d)
  <2>1. Promise!Kind(c) \notin {"error", "cancelled"}
    BY DEF Promise!Kind
  <2> QED
    BY <2>1 DEF Allowed
<1>6. Promise!Tell(c)
  <2> DEFINE a == [kind |-> k, delivery |-> d, cached |-> hit]
  <2>1. told' = [told EXCEPT ![c] = a]
    BY DEF Answer
  <2>2. a.kind = k /\ a.delivery = d /\ a.cached = hit
    OBVIOUS
  <2>3. UNCHANGED row \/ (JobOf[c] # NoJob /\ Promise!Reported(JobOf[c]))
    OBVIOUS
  <2>4. told[c] = Promise!Untold
    BY <1>3 DEF Untold, Promise!Untold
  <2> HIDE DEF a
  <2> QED
    BY <1>3, <1>4, <1>5, <2>1, <2>2, <2>3, <2>4 DEF Promise!Tell, a
<1> QED
  BY <1>2, <1>6

----------------------------------------------------------------------------
(* The steps of a call *)

Kept == IInv' /\ [Promise!Next]_(Promise!promiseVars)

\* A step that stores, sends and tells nothing.
LEMMA QuietKeeps ==
  ASSUME IInv, TypeOK', NEW c \in Calls, Knows(c)',
         UNCHANGED <<entry, worldVars, late, lateRow>>,
         \A b \in Calls : b # c =>
           pc'[b] = pc[b] /\ seen'[b] = seen[b] /\ failed'[b] = failed[b]
  PROVE  Kept
<1>1. Onwards
  BY DEF Onwards, IInv, TypeOK, worldVars
<1>2. KnowsInv'
  <2> SUFFICES ASSUME NEW b \in Calls, b # c PROVE Knows(b)'
    BY DEF KnowsInv
  <2> QED
    BY <1>1, OtherKnows DEF IInv, KnowsInv, worldVars
<1>3. WorldInv'
  BY <1>1, WorldStays DEF IInv, worldVars
<1> QED
  BY <1>2, <1>3 DEF IInv, Kept, worldVars, Promise!promiseVars

LEMMA CallKeeps ==
  ASSUME IInv, TypeOK', NEW c \in Calls, Call(c)
  PROVE  Kept
<1>0. /\ pc[c] = "new" /\ began[c] = -1 /\ began'[c] = latest /\ latest \in Nat
      /\ pc'[c] = IF JobOf[c] = NoJob THEN "lookup" ELSE "starting"
      /\ UNCHANGED <<seen, failed, entry, latest, stored, told, row, late, lateRow>>
      /\ \A b \in Calls : b # c => pc'[b] = pc[b] /\ began'[b] = began[b]
  BY DEF Call, Goto, IInv, TypeOK, KnowsInv, Knows
<1>1. Onwards
  BY <1>0 DEF Onwards, IInv, TypeOK
<1>2. seen[c] = 0
  BY <1>0 DEF IInv, KnowsInv, Knows, Promise!Current
<1>3. KnowsInv'
  <2> SUFFICES ASSUME NEW b \in Calls PROVE Knows(b)'
    BY DEF KnowsInv
  <2>1. CASE b = c
    BY <1>0, <1>2, <2>1 DEF IInv, KnowsInv, Knows, Ungraded
  <2>2. CASE b # c
    BY <1>0, <1>1, <2>2, OtherKnows DEF IInv, KnowsInv
  <2> QED
    BY <2>1, <2>2
<1>4. WorldInv'
  BY <1>0, <1>1, WorldStays DEF IInv
<1>5. Promise!Begin(c)
  BY <1>0 DEF Promise!Begin, Call
<1> QED
  BY <1>3, <1>4, <1>5 DEF IInv, Kept, Promise!Next

LEMMA ReportRunningKeeps ==
  ASSUME IInv, TypeOK', NEW c \in Calls, ReportRunning(c)
  PROVE  Kept
<1>0. /\ pc[c] = "starting" /\ pc'[c] = "collect" /\ JobOf[c] # NoJob
      /\ UNCHANGED <<seen, failed, entry, latest, began, stored, told, late>>
      /\ \A b \in Calls : b # c => pc'[b] = pc[b]
  BY DEF ReportRunning, Goto, IInv, TypeOK, KnowsInv, Knows
<1>1. Onwards
  BY <1>0 DEF Onwards, IInv, TypeOK
<1>2. /\ \A x \in lateRow' :
           x \in lateRow \/ Truthful(x.job, x.update.status, x.update.delivery)
      /\ row' = row \/ Promise!Reported(JobOf[c])
  BY <1>0, ReportsAreTrue DEF ReportRunning
<1>3. KnowsInv'
  <2> SUFFICES ASSUME NEW b \in Calls PROVE Knows(b)'
    BY DEF KnowsInv
  <2>1. CASE b = c
    <3>1. Knows(c)
      BY DEF IInv, KnowsInv
    <3> QED
      BY <1>0, <2>1, <3>1 DEF Knows, Ungraded, Promise!Current
  <2>2. CASE b # c
    BY <1>0, <1>1, <2>2, OtherKnows DEF IInv, KnowsInv
  <2> QED
    BY <2>1, <2>2
<1>4. WorldInv'
  BY <1>0, <1>1, <1>2, WorldStays DEF IInv
<1>5. UNCHANGED Promise!promiseVars \/ Promise!Report(JobOf[c])
  BY <1>0, <1>2 DEF Promise!promiseVars, Promise!Report
<1>6. JobOf[c] \in Jobs
  BY <1>0, CallAssumption
<1> QED
  BY <1>3, <1>4, <1>5, <1>6 DEF IInv, Kept, Promise!Next

\* The nodes before the last, and the timeouts.
LEMMA NodesKeep ==
  ASSUME IInv, TypeOK', NEW c \in Calls,
         Miss(c) \/ Collect(c) \/ Grade(c) \/ GradeRaises(c) \/ Validate(c) \/ TimesOut(c)
  PROVE  Kept
<1>0. /\ UNCHANGED <<entry, worldVars, late, lateRow>>
      /\ \A b \in Calls : b # c =>
           pc'[b] = pc[b] /\ seen'[b] = seen[b] /\ failed'[b] = failed[b]
      /\ pc[c] \notin {"new", "done"}
      /\ pc'[c] \in {"collect", "grade", "validate", "persist", "failing"}
      /\ pc'[c] # "failing" => pc[c] \in Ungraded
      /\ seen'[c] \in {seen[c], latest}
  BY DEF Miss, Collect, ReadDeliveries, Grade, GradeRaises, Validate, TimesOut, Fails,
         Goto, Ungraded, worldVars, IInv, TypeOK
<1>1. latest \in Nat /\ began[c] \in Int /\ Knows(c) /\ UNCHANGED <<latest, began, stored, told>>
  BY <1>0 DEF IInv, TypeOK, KnowsInv, worldVars
<1>2. seen'[c] # 0 => seen'[c] \in Promise!Current(c)
  BY <1>0, <1>1 DEF Knows, Promise!Current
<1>3. seen'[c] # 0 => (seen[c] \in Promise!Current(c))'
  BY <1>1, <1>2 DEF Promise!Current
<1>4. Knows(c)'
  BY <1>0, <1>1, <1>3 DEF Knows, Ungraded
<1> QED
  BY <1>0, <1>4, QuietKeeps

\* The grade is posted, or is on its way, and no other of the call is.
LEMMA PostKeeps ==
  ASSUME IInv, TypeOK', NEW c \in Calls, pc[c] = "persist", Persist(c),
         Post(c), Persists[c], seen[c] # 0, failed' = failed
  PROVE  Kept
<1> DEFINE g == [by |-> c, delivery |-> seen[c]]
<1>0. /\ UNCHANGED <<seen, entry, latest, began, told, row, lateRow>>
      /\ stored' \in {stored, stored \cup {g}} /\ late' \in {late, late \cup {g}}
      /\ stored' = stored \/ late' = late
      /\ pc'[c] = "finish" => g \in stored'
      /\ pc'[c] \in {"finish", "failing"}
      /\ \A b \in Calls : b # c => pc'[b] = pc[b]
  BY DEF Persist, Post, Fails, Goto, IInv, TypeOK
<1>1. /\ g.by = c /\ g.delivery = seen[c]
      /\ \A h \in stored \cup late : h.by # c
      /\ seen[c] \in Promise!Current(c)
      /\ Knows(c)
  BY DEF IInv, KnowsInv, Knows, Ungraded
<1>2. Onwards
  BY <1>0 DEF Onwards, IInv, TypeOK
<1>3. seen[c] \in Promise!Current(c)'
  BY <1>0, <1>1 DEF Promise!Current
<1>4. Knows(c)'
  <2>1. pc'[c] = "finish" => Promise!Made(c, seen[c])'
    BY <1>0 DEF Promise!Made
  <2>2. (seen[c] \in Promise!Current(c))'
    BY <1>0, <1>3 DEF Promise!Current
  <2> QED
    BY <1>0, <1>1, <2>1, <2>2 DEF Knows, Ungraded
<1>5. KnowsInv'
  <2> SUFFICES ASSUME NEW b \in Calls, b # c PROVE Knows(b)'
    BY <1>4 DEF KnowsInv
  <2>1. \A h \in (stored \cup late)' : h.by = b => h \in stored \cup late
    BY <1>0, <1>1
  <2> QED
    BY <1>0, <1>2, <2>1, OtherKnows DEF IInv, KnowsInv
<1>6. LateInv'
  <2> SUFFICES ASSUME NEW x \in late'
               PROVE  /\ Persists[x.by] /\ x.delivery \in Promise!Current(x.by)'
                      /\ \A h \in stored' : h.by # x.by
                      /\ \A h \in late' : h.by = x.by => h = x
    BY DEF LateInv
  <2>1. CASE x = g
    <3>1. x \notin late /\ late' = late \cup {g} /\ stored' = stored
      BY <1>0, <1>1, <2>1
    <3>2. /\ \A h \in stored' : h.by # x.by
          /\ \A h \in late' : h.by = x.by => h = x
      BY <1>1, <2>1, <3>1
    <3> QED
      BY <1>1, <1>3, <2>1, <3>2
  <2>2. CASE x # g
    <3>1. /\ x \in late /\ x.by # c /\ Persists[x.by] /\ x.delivery \in Promise!Current(x.by)
          /\ \A h \in stored : h.by # x.by
          /\ \A h \in late : h.by = x.by => h = x
      BY <1>0, <1>1, <2>2 DEF IInv, WorldInv, LateInv
    <3>2. x.delivery \in Promise!Current(x.by)'
      BY <1>0, <3>1 DEF Promise!Current
    <3> QED
      BY <1>0, <1>1, <3>1, <3>2
  <2> HIDE DEF g
  <2> QED
    BY <2>1, <2>2
<1>7. EntryInv'
  <2> SUFFICES ASSUME NEW p \in BOOLEAN, entry[p] # 0
               PROVE  \E b \in Calls : Persists[b] = p /\ Promise!Made(b, entry[p])'
    BY <1>0 DEF IInv, WorldInv, EntryInv
  <2>1. PICK b \in Calls : Persists[b] = p /\ Promise!Made(b, entry[p])
    BY DEF IInv, WorldInv, EntryInv
  <2>2. PICK d : d = entry[p]
    OBVIOUS
  <2>3. Promise!Made(b, d)'
    BY <1>2, <2>1, <2>2, MadeStays DEF IInv
  <2>4. Promise!Made(b, entry[p])'
    BY <1>0, <2>2, <2>3 DEF Promise!Made, Promise!Current
  <2> QED
    BY <2>1, <2>4
<1>8. RowInv'
  <2> SUFFICES ASSUME NEW x \in lateRow
               PROVE  Truthful(x.job, x.update.status, x.update.delivery)'
    BY <1>0 DEF RowInv
  <2>1. Truthful(x.job, x.update.status, x.update.delivery)
    BY DEF IInv, WorldInv, RowInv
  <2> QED
    BY <1>2, <2>1, TruthStays DEF IInv
<1>9. UNCHANGED Promise!promiseVars \/ Promise!Store(c)
  <2>1. CASE stored' = stored
    BY <1>0, <2>1 DEF Promise!promiseVars
  <2>2. CASE stored' = stored \cup {g}
    BY <1>0, <1>1, <2>2 DEF Promise!Store
  <2> QED
    BY <1>0, <2>1, <2>2
<1> QED
  BY <1>5, <1>6, <1>7, <1>8, <1>9 DEF IInv, WorldInv, Kept, Promise!Next

LEMMA PersistKeeps ==
  ASSUME IInv, TypeOK', NEW c \in Calls, Persist(c)
  PROVE  Kept
<1>0. pc[c] = "persist" /\ Knows(c)
  BY DEF Persist, IInv, KnowsInv
<1>1. CASE Post(c) /\ Persists[c] /\ seen[c] # 0 /\ failed' = failed
  BY <1>0, <1>1, PostKeeps
<1>2. CASE /\ Goto(c, "finish") /\ UNCHANGED <<stored, late>>
           /\ \/ failed' = [failed EXCEPT ![c] = TRUE]
              \/ failed' = failed /\ ~Persists[c] /\ seen[c] # 0
  <2>1. /\ UNCHANGED <<seen, entry, worldVars, late, lateRow>>
        /\ pc'[c] = "finish"
        /\ \A b \in Calls : b # c => pc'[b] = pc[b] /\ failed'[b] = failed[b]
        /\ failed'[c] \/ (~Persists[c] /\ seen[c] # 0)
    BY <1>2 DEF Persist, Goto, worldVars, IInv, TypeOK
  <2>2. ~failed'[c] => seen'[c] # 0 /\ Promise!Made(c, seen[c])'
    BY <1>0, <2>1 DEF Knows, Promise!Made, Promise!Current, worldVars
  <2>3. (seen[c] # 0 => seen[c] \in Promise!Current(c))'
    BY <1>0, <2>1 DEF Knows, Promise!Current, worldVars
  <2>4. Knows(c)'
    BY <1>0, <2>1, <2>2, <2>3 DEF Knows, Ungraded, worldVars
  <2> QED
    BY <2>1, <2>4, QuietKeeps
<1> QED
  BY <1>1, <1>2 DEF Persist

----------------------------------------------------------------------------
(* The answers of a call *)

LEMMA SeenIsAllowed ==
  ASSUME IInv, NEW c \in Calls,
         pc[c] = "succeeding" \/ (pc[c] = "finish" /\ ~failed[c])
  PROVE  Allowed(c, Kind(c), seen[c], FALSE)
<1>1. seen[c] # 0 /\ Promise!Made(c, seen[c]) /\ seen[c] \in Promise!Current(c)
  BY DEF IInv, KnowsInv, Knows
<1>2. seen[c] \in 0..latest
  BY <1>1 DEF Promise!Current, IInv, TypeOK
<1> QED
  BY <1>1, <1>2 DEF Allowed

LEMMA HitKeeps ==
  ASSUME IInv, TypeOK', NEW c \in Calls, Hit(c)
  PROVE  Kept
<1>1. Allowed(c, Kind(c), entry[Persists[c]], TRUE)
  <2>1. /\ pc[c] = "lookup" /\ JobOf[c] = NoJob /\ entry[Persists[c]] # 0
        /\ Persists[c] \in BOOLEAN /\ entry[Persists[c]] \in Nat
    BY CallAssumption, Bounds DEF Hit, IInv, KnowsInv, Knows, TypeOK
  <2>2. /\ entry[Persists[c]] <= latest
        /\ \E b \in Calls : Persists[b] = Persists[c] /\ Promise!Made(b, entry[Persists[c]])
    BY <2>1 DEF IInv, WorldInv, EntryInv
  <2>3. entry[Persists[c]] \in 0..latest
    BY <2>1, <2>2 DEF IInv, TypeOK
  <2> QED
    BY <2>1, <2>2, <2>3 DEF Allowed
<1>2. KnowsInv' /\ Promise!Tell(c)
  BY <1>1, AnswerKeeps DEF Hit
<1>3. Onwards
  BY DEF Hit, Onwards, IInv, TypeOK
<1>4. WorldInv'
  BY <1>3, WorldStays DEF Hit, IInv
<1> QED
  BY <1>2, <1>4 DEF IInv, Kept, Promise!Next

LEMMA FinishKeeps ==
  ASSUME IInv, TypeOK', NEW c \in Calls, Finish(c)
  PROVE  Kept
<1>0. pc[c] = "finish" /\ UNCHANGED <<latest, began, stored, row, late, lateRow>> /\ Knows(c)
  BY DEF Finish, IInv, KnowsInv
<1>1. CASE /\ failed[c] \/ JobOf[c] # NoJob
           /\ Goto(c, IF failed[c] THEN "failing" ELSE "succeeding")
           /\ UNCHANGED <<seen, tries, scored, failed, entry, told>>
  <2>1. /\ pc'[c] = IF failed[c] THEN "failing" ELSE "succeeding"
        /\ \A b \in Calls : b # c => pc'[b] = pc[b]
    BY <1>1 DEF Goto, IInv, TypeOK
  <2>2. /\ (seen[c] # 0 => seen[c] \in Promise!Current(c))'
        /\ ~failed[c] => seen[c] # 0 /\ Promise!Made(c, seen[c])'
    BY <1>0, <1>1 DEF Knows, Promise!Current, Promise!Made
  <2>3. Knows(c)'
    BY <1>0, <1>1, <2>1, <2>2 DEF Knows, Ungraded
  <2> QED
    BY <1>0, <1>1, <2>1, <2>3, QuietKeeps DEF worldVars
<1>2. CASE /\ ~failed[c] /\ JobOf[c] = NoJob /\ Cached(c, seen[c])
           /\ Answer(c, Kind(c), seen[c], FALSE)
  <2>1. Allowed(c, Kind(c), seen[c], FALSE)
    BY <1>0, <1>2, SeenIsAllowed
  <2>2. KnowsInv' /\ Promise!Tell(c)
    BY <1>0, <1>2, <2>1, AnswerKeeps
  <2>3. Onwards
    BY <1>0 DEF Onwards, IInv, TypeOK
  <2>4. CASE entry' = entry
    <3>1. WorldInv'
      BY <1>0, <2>3, <2>4, WorldStays DEF IInv
    <3> QED
      BY <2>2, <3>1 DEF IInv, Kept, Promise!Next
  <2>5. CASE entry' = [entry EXCEPT ![Persists[c]] = seen[c]]
    <3>1. LateInv' /\ RowInv'
      <4>1. RowInv'
        BY <1>0 DEF IInv, WorldInv, RowInv, Truthful, Promise!Made, Promise!Current
      <4>2. LateInv'
        BY <1>0 DEF IInv, WorldInv, LateInv, Promise!Current
      <4> QED
        BY <4>1, <4>2
    <3>2. EntryInv'
      <4> SUFFICES ASSUME NEW p \in BOOLEAN, entry'[p] # 0
                   PROVE  /\ entry'[p] <= latest
                          /\ \E b \in Calls : Persists[b] = p /\ Promise!Made(b, entry[p])'
        BY <1>0 DEF EntryInv
      <4>1. CASE p = Persists[c]
        <5>0. Promise!Made(c, seen[c]) /\ seen[c] \in 0..latest
          BY <1>0, <1>2, <2>1 DEF Allowed, Knows
        <5>1. entry'[p] = seen[c] /\ Promise!Made(c, seen[c]) /\ seen[c] \in 0..latest
          BY <2>5, <4>1, <5>0 DEF IInv, TypeOK
        <5>2. Promise!Made(c, entry[p])'
          BY <1>0, <5>1 DEF Promise!Made, Promise!Current
        <5> QED
          BY <4>1, <5>1, <5>2 DEF IInv, TypeOK
      <4>2. CASE p # Persists[c]
        <5>1. entry'[p] = entry[p]
          BY <2>5, <4>2 DEF IInv, TypeOK
        <5>2. PICK b \in Calls : Persists[b] = p /\ Promise!Made(b, entry[p])
          BY <5>1 DEF IInv, WorldInv, EntryInv
        <5>3. Promise!Made(b, entry[p])'
          BY <1>0, <5>1, <5>2 DEF Promise!Made, Promise!Current
        <5> QED
          BY <5>1, <5>2, <5>3 DEF IInv, WorldInv, EntryInv
      <4> QED
        BY <4>1, <4>2
    <3> QED
      BY <2>2, <3>1, <3>2 DEF IInv, WorldInv, Kept, Promise!Next
  <2> QED
    BY <1>2, <2>4, <2>5 DEF Cached
<1> QED
  BY <1>1, <1>2 DEF Finish

LEMMA EndKeeps ==
  ASSUME IInv, TypeOK', NEW c \in Calls, End(c) \/ Cancel(c)
  PROVE  Kept
<1>0. /\ UNCHANGED <<entry, latest, began, stored, late>>
      /\ pc[c] \notin {"new", "done"}
      /\ \/ UNCHANGED <<row, lateRow>>
         \/ JobOf[c] # NoJob /\ Reports(c)
      /\ \/ pc[c] = "succeeding" /\ Answer(c, Kind(c), seen[c], FALSE)
         \/ \E k \in {"error", "cancelled"} : Answer(c, k, 0, FALSE)
  BY DEF End, Cancel, Active, Nodes, Reporting
<1>1. Onwards
  BY <1>0 DEF Onwards, IInv, TypeOK
<1>2. /\ \A x \in lateRow' :
           x \in lateRow \/ Truthful(x.job, x.update.status, x.update.delivery)
      /\ row' = row \/ (JobOf[c] # NoJob /\ Promise!Reported(JobOf[c]))
  BY <1>0, ReportsAreTrue
<1>3. WorldInv'
  BY <1>0, <1>1, <1>2, WorldStays DEF IInv
<1>4. KnowsInv' /\ Promise!Tell(c)
  <2>1. CASE pc[c] = "succeeding" /\ Answer(c, Kind(c), seen[c], FALSE)
    BY <1>0, <1>2, <2>1, SeenIsAllowed, AnswerKeeps
  <2>2. ASSUME NEW k \in {"error", "cancelled"}, Answer(c, k, 0, FALSE)
        PROVE  KnowsInv' /\ Promise!Tell(c)
    <3>1. Allowed(c, k, 0, FALSE)
      BY DEF Allowed, IInv, TypeOK
    <3> QED
      BY <1>0, <1>2, <2>2, <3>1, AnswerKeeps
  <2> QED
    BY <1>0, <2>1, <2>2
<1> QED
  BY <1>3, <1>4 DEF IInv, Kept, Promise!Next

----------------------------------------------------------------------------
(* The steps of the world *)

LEMMA WorldKeeps ==
  ASSUME IInv, TypeOK', World
  PROVE  Kept
<1>1. ASSUME Onwards, UNCHANGED <<pc, began, told, seen, failed, late, stored>>,
             \A p \in BOOLEAN : entry'[p] \in {entry[p], 0}, lateRow' \subseteq lateRow
      PROVE  IInv'
  <2>1. KnowsInv'
    BY <1>1, OtherKnows DEF IInv, KnowsInv
  <2>2. WorldInv'
    BY <1>1, WorldStays DEF IInv
  <2> QED
    BY <2>1, <2>2 DEF IInv
<1>2. CASE Submit
  <2>1. Onwards
    BY <1>2 DEF Submit, Onwards, IInv, TypeOK
  <2>2. IInv'
    BY <1>1, <1>2, <2>1 DEF Submit, graphVars
  <2>3. Promise!Submit
    BY <1>2 DEF Submit, Promise!Submit
  <2> QED
    BY <2>2, <2>3 DEF Kept, Promise!Next
<1>3. ASSUME NEW g \in late, GradeArrives(g) PROVE Kept
  <2>0. /\ stored' = stored \cup {g} /\ late' = late \ {g}
        /\ UNCHANGED <<pc, seen, failed, entry, latest, began, told, row, lateRow>>
        /\ g.by \in Calls /\ g = [by |-> g.by, delivery |-> g.delivery]
    BY <1>3 DEF GradeArrives, graphVars, IInv, TypeOK, Grades
  <2>1. Onwards
    BY <2>0 DEF Onwards, IInv, TypeOK
  <2>2. KnowsInv'
    <3> SUFFICES ASSUME NEW b \in Calls PROVE Knows(b)'
      BY DEF KnowsInv
    <3>1. \A h \in (stored \cup late)' : h \in stored \cup late
      BY <2>0
    <3> QED
      BY <2>0, <2>1, <3>1, OtherKnows DEF IInv, KnowsInv
  <2>3. LateInv'
    BY <2>0 DEF IInv, WorldInv, LateInv, Promise!Current
  <2>4. EntryInv'
    <3> SUFFICES ASSUME NEW p \in BOOLEAN, entry[p] # 0
                 PROVE  \E b \in Calls : Persists[b] = p /\ Promise!Made(b, entry[p])'
      BY <2>0 DEF IInv, WorldInv, EntryInv
    <3>1. PICK b \in Calls : Persists[b] = p /\ Promise!Made(b, entry[p])
      BY DEF IInv, WorldInv, EntryInv
    <3>2. Promise!Made(b, entry[p])'
      BY <2>0, <3>1 DEF Promise!Made, Promise!Current
    <3> QED
      BY <3>1, <3>2
  <2>5. RowInv'
    <3> SUFFICES ASSUME NEW x \in lateRow
                 PROVE  Truthful(x.job, x.update.status, x.update.delivery)'
      BY <2>0 DEF RowInv
    <3> QED
      BY <2>1, TruthStays DEF IInv, WorldInv, RowInv
  <2>6. Promise!Store(g.by)
    <3>1. /\ Persists[g.by] /\ g.delivery \in Promise!Current(g.by)
          /\ \A h \in stored : h.by # g.by
      BY DEF IInv, WorldInv, LateInv
    <3> QED
      BY <2>0, <3>1 DEF Promise!Store
  <2> QED
    BY <2>0, <2>2, <2>3, <2>4, <2>5, <2>6 DEF IInv, WorldInv, Kept, Promise!Next
<1>4. ASSUME NEW x \in lateRow, RowArrives(x) PROVE Kept
  <2>1. Onwards
    BY <1>4 DEF RowArrives, Onwards, IInv, TypeOK
  <2>2. IInv'
    BY <1>1, <1>4, <2>1 DEF RowArrives, graphVars
  <2>3. /\ x.job \in Jobs
        /\ x.update = [status |-> x.update.status, delivery |-> x.update.delivery]
    BY DEF IInv, TypeOK, Statuses
  <2>4. Truthful(x.job, x.update.status, x.update.delivery)
    BY DEF IInv, WorldInv, RowInv
  <2>5. Promise!Report(x.job)
    BY <1>4, <2>3, <2>4 DEF RowArrives, Truthful, Promise!Report, Promise!Reported
  <2> QED
    BY <2>2, <2>3, <2>5 DEF Kept, Promise!Next
<1>5. ASSUME NEW p \in BOOLEAN, Expire(p) PROVE Kept
  <2>1. Onwards
    BY <1>5 DEF Expire, worldVars, Onwards, IInv, TypeOK
  <2>2. \A q \in BOOLEAN : entry'[q] \in {entry[q], 0}
    BY <1>5 DEF Expire, IInv, TypeOK
  <2>3. IInv'
    BY <1>1, <1>5, <2>1, <2>2 DEF Expire, worldVars, graphVars
  <2> QED
    BY <1>5, <2>3 DEF Kept, Expire, worldVars, Promise!promiseVars
<1> QED
  BY <1>2, <1>3, <1>4, <1>5 DEF World

----------------------------------------------------------------------------
(* The theorems *)

LEMMA InitIInv == Init => IInv
<1> SUFFICES ASSUME Init PROVE IInv
  OBVIOUS
<1>1. TypeOK
  BY TypeInit
<1>2. WorldInv
  BY DEF Init, InitWorld, WorldInv, LateInv, EntryInv, RowInv
<1>3. KnowsInv
  <2>1. -1 <= latest
    BY <1>1, Bounds DEF TypeOK
  <2> QED
    BY <2>1 DEF Init, InitWorld, InitGraph, KnowsInv, Knows
<1> QED
  BY <1>1, <1>2, <1>3 DEF IInv

LEMMA NextKeeps == IInv /\ [Next]_vars => Kept
<1> SUFFICES ASSUME IInv, [Next]_vars PROVE Kept
  OBVIOUS
<1>1. ASSUME NEW c \in Calls, Run(c) \/ Cancel(c) PROVE Kept
  <2>1. pc[c] \in {"starting", "succeeding"} => JobOf[c] # NoJob
    BY DEF IInv, KnowsInv, Knows
  <2>2. TypeOK'
    BY <1>1, <2>1, RunType DEF IInv
  <2> QED
    BY <1>1, <2>2, CallKeeps, ReportRunningKeeps, NodesKeep, PersistKeeps, HitKeeps,
       FinishKeeps, EndKeeps DEF Run
<1>2. CASE World
  BY <1>2, WorldType, WorldKeeps DEF IInv
<1>3. CASE UNCHANGED vars
  <2>1. TypeOK'
    BY <1>3, WorldType DEF IInv
  <2>2. Onwards
    BY <1>3 DEF vars, worldVars, Onwards, IInv, TypeOK
  <2>3. KnowsInv'
    BY <1>3, <2>1, <2>2, OtherKnows DEF IInv, KnowsInv, vars, graphVars, worldVars
  <2>4. WorldInv'
    BY <1>3, <2>1, <2>2, WorldStays DEF IInv, vars, worldVars
  <2> QED
    BY <1>3, <2>1, <2>3, <2>4 DEF IInv, Kept, vars, worldVars, Promise!promiseVars
<1> QED
  BY <1>1, <1>2, <1>3 DEF Next

\* Every variable keeps its type.
THEOREM ReviewTypeCorrect == Spec => []TypeOK
<1>1. IInv /\ [Next]_vars => IInv'
  BY NextKeeps DEF Kept
<1>2. IInv => TypeOK
  BY DEF IInv
<1> QED
  BY InitIInv, <1>1, <1>2, PTL DEF Spec

\* Whatever the graph, its retries, the cache and lost answers do, a call of
\* project_review stores one grade at most, of a delivery that was not
\* superseded when it began, and tells of grades that are there.
THEOREM ReviewKeepsPromise == Spec => ImplementsReviewPromise
<1>1. Init => Promise!Init
  <2> SUFFICES ASSUME Init PROVE Promise!Init
    OBVIOUS
  <2>1. latest \in Nat
    BY Bounds DEF Init, InitWorld
  <2> QED
    BY <2>1 DEF Init, InitWorld, Promise!Init, Untold, Promise!Untold
<1>2. IInv /\ [Next]_vars => IInv' /\ [Promise!Next]_(Promise!promiseVars)
  BY NextKeeps DEF Kept
<1> QED
  BY InitIInv, <1>1, <1>2, PTL DEF Spec, ImplementsReviewPromise, Promise!Spec

=============================================================================
