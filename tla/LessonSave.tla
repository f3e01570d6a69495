----------------------------- MODULE LessonSave -----------------------------
(***************************************************************************)
(* application/authoring_service.py: AuthoringService.save_lesson_bundle,  *)
(* over the RPCs of infrastructure/authoring_backend_client.py.  A save is *)
(* a sequence of RPCs with no transaction around them: each writes one     *)
(* part of the lesson, and a save that breaks leaves what it wrote.        *)
(*                                                                         *)
(* A part of a lesson is named by the run that wrote it.  This module has  *)
(* the steps of a save; AuthorPipeline and SaveTool say when they happen.  *)
(***************************************************************************)
EXTENDS Integers, FiniteSets

CONSTANTS Runs,        \* the calls of save_lesson_bundle
          Lessons,     \* (module_id, lesson_slug) pairs
          LessonOf,    \* the lesson each run saves
          Publishing,  \* the runs called with publish=True
          Bundles,     \* what a bundle carries and what is wrong with it
          Reliable,    \* the lessons whose RPCs are never late or lost
          Nobody       \* no run

BundleFacts == {"quiz", "project", "badBoilerplate", "badStack"}

ASSUME LessonAssumption ==
  /\ LessonOf \in [Runs -> Lessons]
  /\ Publishing \subseteq Runs
  /\ Bundles \subseteq SUBSET BundleFacts
  /\ Reliable \subseteq Lessons
  /\ Nobody \notin Runs

VARIABLES step,    \* the RPC each save awaits
          bundle,  \* the bundle each save was given
          lesson,  \* curriculum.lesson_status of each lesson
          part,    \* the run that wrote each part of each lesson
          late     \* RPCs whose caller gave up, still on their way

saveVars == <<step, bundle, lesson, part, late>>

Parts == {"document", "quiz", "project", "runtime"}
Rpcs == {"lesson", "publish"} \cup Parts

SaveTypeOK ==
  /\ step \in [Runs -> {"idle", "saved", "broken"} \cup Rpcs]
  /\ bundle \in [Runs -> SUBSET BundleFacts]
  /\ lesson \in [Lessons -> {"none", "draft", "published"}]
  /\ part \in [Lessons -> [Parts -> Runs \cup {Nobody}]]
  /\ late \in SUBSET (Runs \X Rpcs)

SaveInit ==
  /\ step = [r \in Runs |-> "idle"]
  /\ bundle = [r \in Runs |-> {}]
  /\ lesson = [l \in Lessons |-> "none"]
  /\ part = [l \in Lessons |-> [p \in Parts |-> Nobody]]
  /\ late = {}

\* The parts a save of bundle b writes.
Carried(b) == {"document"} \cup (b \cap {"quiz"})
                \cup (IF "project" \in b THEN {"project", "runtime"} ELSE {})

----------------------------------------------------------------------------
\* What RPC s of run r does to the lesson's rows.  upsert_lesson always asks
\* for p_status "draft", so it takes a published lesson offline.
Apply(r, s) ==
  /\ lesson' = IF s \in {"lesson", "publish"}
               THEN [lesson EXCEPT ![LessonOf[r]] =
                       IF s = "publish" THEN "published" ELSE "draft"]
               ELSE lesson
  /\ part' = IF s \in Parts
             THEN [part EXCEPT ![LessonOf[r]] = [@ EXCEPT ![s] = r]]
             ELSE part

\* Mutant: the lesson is published before its parts are written.
PublishedFirst(r, s) ==
  LET b == bundle[r]
  IN  CASE s = "lesson"   -> IF r \in Publishing THEN "publish" ELSE "document"
        [] s = "publish"  -> "document"
        [] s = "document" -> IF "quiz" \in b THEN "quiz"
                             ELSE IF "project" \in b THEN "project" ELSE "saved"
        [] s = "quiz"     -> IF "project" \in b THEN "project" ELSE "saved"
        [] s = "project"  -> "runtime"
        [] s = "runtime"  -> "saved"

\* What save_lesson_bundle does when RPC s has answered.  The boilerplate is
\* validated once the quiz is written, the stack once the project is.
Following(r, s) ==
  LET b == bundle[r]
      last == IF r \in Publishing THEN "publish" ELSE "saved"
      project == IF "project" \notin b THEN last
                 ELSE IF "badBoilerplate" \in b THEN "broken" ELSE "project"
  IN  CASE s = "lesson"   -> "document"
        [] s = "document" -> IF "quiz" \in b THEN "quiz" ELSE project
        [] s = "quiz"     -> project
        [] s = "project"  -> IF "badStack" \in b THEN "broken" ELSE "runtime"
        [] s = "runtime"  -> last
        [] s = "publish"  -> "saved"

\* The bundle passes validate_lesson_bundle and the first RPC goes out ...
Begin(r, b) ==
  /\ step[r] = "idle"
  /\ bundle' = [bundle EXCEPT ![r] = b]
  /\ step' = [step EXCEPT ![r] = "lesson"]
  /\ UNCHANGED <<lesson, part, late>>

\* ... or it does not, and nothing was written.
Refuse(r) ==
  /\ step[r] = "idle"
  /\ step' = [step EXCEPT ![r] = "broken"]
  /\ UNCHANGED <<bundle, lesson, part, late>>

Answered(r) ==
  /\ step[r] \in Rpcs
  /\ Apply(r, step[r])
  /\ step' = [step EXCEPT ![r] = Following(r, step[r])]
  /\ UNCHANGED <<bundle, late>>

\* The RPC is refused, its answer is lost, or it times out and may still be
\* executed; the exception, or the cancellation, ends the save.
Broken(r) ==
  /\ step[r] \in Rpcs
  /\ \/ UNCHANGED <<lesson, part, late>>
     \/ Apply(r, step[r]) /\ UNCHANGED late
     \/ /\ LessonOf[r] \notin Reliable
        /\ late' = late \cup {<<r, step[r]>>}
        /\ UNCHANGED <<lesson, part>>
  /\ step' = [step EXCEPT ![r] = "broken"]
  /\ UNCHANGED bundle

\* An RPC whose caller gave up is executed after all.
Arrives(r, s) ==
  /\ <<r, s>> \in late
  /\ Apply(r, s)
  /\ late' = late \ {<<r, s>>}
  /\ UNCHANGED <<step, bundle>>
=============================================================================
