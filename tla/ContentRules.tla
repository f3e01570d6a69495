---------------------------- MODULE ContentRules ----------------------------
(***************************************************************************)
(* The rules of domain/content_validators.py and the mappers of            *)
(* application/authoring_service.py, in the order in which a bundle meets  *)
(* them in save_lesson_bundle: starter/tests.json is repaired, the bundle  *)
(* is validated (its README by ContentBlocks), mapped to the bodies of the *)
(* RPCs, and parts of the project are validated on the way.  LessonSave    *)
(* has the RPCs.                                                           *)
(*                                                                         *)
(* A bundle is what the rules tell apart in it.  An id is one of a few     *)
(* that differ in case and in blanks around them; an expectation of a test *)
(* case is absent, falsy (an empty stdout, exit code 0) or truthy.         *)
(***************************************************************************)
EXTENDS ContentBlocks, SequencesExt

CONSTANTS Bundles,   \* the bundles that are saved
          Stacks,    \* LESSON_STACKS
          NoStack,   \* no stack given
          Strip(_),  \* str.strip and str.lower of an id
          Lower(_)

ASSUME StackAssumption == NoStack \notin Stacks

\* An option that is not an object has the id "".
Question == [id : STRING, options : Seq(STRING), correct : STRING]
Expectation == {"none", "falsy", "truthy"}
TestCase == [stdin : {"none", "string", "number", "not a case"},
             camel : Expectation, snake : Expectation]

IsBundle(b) == b.quiz \in Seq(Question) /\ b.cases \in Seq(TestCase)

ASSUME BundlesAssumption == \A b \in Bundles : IsBundle(b)

VARIABLES bundle,  \* the bundle
          phase,   \* how far its save has come
          file,    \* its starter/tests.json, repaired
          quizRpc, \* the body of upsert_quiz_tree
          testsRpc \* the test cases in the body of upsert_project_tree

bundleVars == <<blockVars, bundle, phase, file, quizRpc, testsRpc>>

----------------------------------------------------------------------------
(* The quiz *)

Blank(id) == Strip(id) = ""

Places(s) == 1..Len(s)
Distinct(s) == \A i, j \in Places(s) : s[i] = s[j] => i = j

\* validate_quiz_payload, for one question.
QuestionOk(q) ==
  /\ ~Blank(q.id)
  /\ Len(q.options) = 4 /\ Distinct(q.options)
  /\ \A i \in Places(q.options) : ~Blank(q.options[i])
  /\ q.correct \in ToSet(q.options)

QuizOk(quiz) ==
  /\ quiz # <<>>
  /\ \A i \in Places(quiz) : QuestionOk(quiz[i])
  /\ \A i, j \in Places(quiz) : quiz[i].id = quiz[j].id => i = j

\* The options of q with an id, by their slugs.
Slugs(q) == {[slug |-> Strip(q.options[i]), position |-> i] :
               i \in {i \in Places(q.options) : ~Blank(q.options[i])}}

First(options) == CHOOSE o \in options : \A p \in options : o.position <= p.position

\* Mutant: case is ignored before the exact slug is looked for.
MatchLower(q) ==
  {o \in Slugs(q) : Strip(q.correct) # "" /\ Lower(o.slug) = Lower(Strip(q.correct))}

\* The options that correctOptionId may name: exactly, or else but for case.
Match(q) ==
  LET named == Strip(q.correct)
      exact == {o \in Slugs(q) : o.slug = named}
  IN IF exact # {} THEN exact
     ELSE {o \in Slugs(q) : named # "" /\ Lower(o.slug) = Lower(named)}

\* harness_quiz_to_rpc_payload: a question without two options or without a
\* correct one is left out.
MapQuiz(quiz) ==
  LET kept == {i \in Places(quiz) : Cardinality(Slugs(quiz[i])) >= 2 /\ Match(quiz[i]) # {}}
  IN {[question |-> i, options |-> Slugs(quiz[i]), correct |-> First(Match(quiz[i]))] : i \in kept}

----------------------------------------------------------------------------
(* The project's test cases *)

NoFile == [is |-> "absent", cases |-> <<>>]
JsonOf(cases) == [is |-> "list", cases |-> cases]

Or(x, y) == IF x = "truthy" THEN x ELSE y       \* x or y
IfNone(x, y) == IF x = "none" THEN y ELSE x     \* y if x is None else x

IsDict(case) == case.stdin # "not a case"
Cases(b) == IF b.snake THEN b.cases ELSE <<>>   \* project.get("test_cases")

\* The test cases that are objects, in their order.
Nth(S, k) == CHOOSE i \in S : Cardinality({j \in S : j < i}) = k - 1
Dicts(cases) ==
  LET dicts == {i \in Places(cases) : IsDict(cases[i])}
  IN [k \in 1..Cardinality(dicts) |-> cases[Nth(dicts, k)]]

\* Mutant: the dump takes what the payload takes.
DumpTruthy(cases) ==
  JsonOf([k \in Places(Dicts(cases)) |->
    LET case == Dicts(cases)[k] IN
      [stdin |-> IF case.stdin = "none" THEN "string" ELSE case.stdin,
       camel |-> Or(case.camel, case.snake), snake |-> "none"]])

\* _dump_project_test_cases
Dump(cases) ==
  JsonOf([k \in Places(Dicts(cases)) |->
    LET case == Dicts(cases)[k] IN
      [stdin |-> IF case.stdin = "none" THEN "string" ELSE case.stdin,
       camel |-> IfNone(case.camel, case.snake), snake |-> "none"]])

\* repair_invalid_project_tests_json
Unreadable == {"none", "empty", "invalid"}
Repaired(b) == IF b.file.is \in Unreadable /\ b.cases # <<>> THEN Dump(b.cases) ELSE b.file

\* validate_project_tests_json, of content that is not None
TestsOk(content) ==
  /\ content.is = "list" /\ content.cases # <<>>
  /\ \A i \in Places(content.cases) : content.cases[i].stdin = "string"

\* What save_lesson_bundle gives it: the file, or else the test cases.
TestsToJudge(b, f) ==
  IF f.is \notin {"absent", "none"} THEN f
  ELSE IF Cases(b) # <<>> THEN JsonOf(Cases(b)) ELSE NoFile

\* harness_project_to_rpc_payload: the cases it is given, or else those of
\* the file, each with what is expected of it.
Row(s, i) == [case |-> i, stdin |-> s[i].stdin, expects |-> Or(s[i].camel, s[i].snake)]
Rows(s) == {Row(s, i) : i \in {i \in Places(s) : IsDict(s[i])}}
MapTests(b, f) == IF Rows(b.cases) # {} THEN Rows(b.cases) ELSE Rows(f.cases)

----------------------------------------------------------------------------
(* The other rules *)

Camel == [graph_index |-> "graphIndex", graph_node_id |-> "graphNodeId"]

\* harness_lesson_fields: a graph key in snake case stands for one that is not
\* there in camel case.
Fields(meta) == meta.keys \cup {Camel[k] : k \in meta.keys \cap DOMAIN Camel}

\* validate_lesson_meta
MetaOk(meta) == {"id", "title", "graphIndex", "graphNodeId"} \subseteq Fields(meta)

\* REQUIRED_PBL_SECTIONS, two for all, and _has_section: a heading of the
\* second level has the section's title, whatever follows it on its line.
RequiredSections == {"Constraints", "Deliverables"}
HasSection(readme, title) ==
  \E h \in readme.headings : h.level = 2 /\ h.title = title

NoReadme == [title |-> FALSE, headings |-> {}]

\* validate_project_readme: an error for no text and for no title, and for a
\* required section that is missing if strict.
ReadmeOk(readme, strict) ==
  /\ readme.title
  /\ strict => \A s \in RequiredSections : HasSection(readme, s)

\* validate_lesson_stack, validate_test_boilerplate, validate_run_dependencies
StackOk(stack) == stack \in Stacks \cup {NoStack}
BoilerplateOk(b) == b \in {"none", "ok"}
DependenciesOk(d) == d \in {"none", "ok"}

\* validate_project_files_for_rpc: every kind maps to a kind there is, so only
\* an entry that is no object is an error.
FilesOk(files) == files \subseteq {"object"}

\* validate_lesson_bundle, as save_lesson_bundle calls it.
BundleOk(b, f) ==
  /\ MetaOk(b.meta) /\ BlockErrors = {}
  /\ QuizOk(b.quiz)
  /\ b.readme # NoReadme => ReadmeOk(b.readme, b.strict)
  /\ TestsToJudge(b, f) # NoFile => TestsOk(TestsToJudge(b, f))

\* Mutant: the boilerplate is not validated on its own.
ProjectDictNoBoilerplate(b, f) ==
  /\ ReadmeOk(b.readme, b.strict)
  /\ IF f.is \notin {"absent"} \cup {"none", "empty"} THEN TestsOk(f)
     ELSE Cases(b) # <<>> => TestsOk(JsonOf(Cases(b)))
  /\ StackOk(b.projectStack) /\ FilesOk(b.files) /\ DependenciesOk(b.dependencies)

\* validate_project_dict: an empty file counts as none.
ProjectDictOk(b, f) ==
  /\ ReadmeOk(b.readme, b.strict)
  /\ IF f.is \notin {"absent", "none", "empty"} THEN TestsOk(f)
     ELSE Cases(b) # <<>> => TestsOk(JsonOf(Cases(b)))
  /\ BoilerplateOk(b.boilerplate)
  /\ StackOk(b.projectStack) /\ FilesOk(b.files) /\ DependenciesOk(b.dependencies)

\* The tools validate_lesson, validate_quiz and validate_project, with the
\* project as repair_invalid_project_tests_json leaves it.
Validated(b, f) == MetaOk(b.meta) /\ BlockErrors = {} /\ QuizOk(b.quiz) /\ ProjectDictOk(b, f)

\* The stack that set_lesson_stack_runtime is given.
StackOf(b) == IF b.metaStack # NoStack THEN b.metaStack ELSE b.projectStack

----------------------------------------------------------------------------
(* save_lesson_bundle *)

Given(b) ==
  /\ bundle = b
  /\ BlocksInit
  /\ phase = "given" /\ file = b.file
  /\ quizRpc = {} /\ testsRpc = {}

BundleInit == \E b \in Bundles : Given(b)

Repair ==
  /\ phase = "given"
  /\ file' = Repaired(bundle)
  /\ phase' = "repaired"
  /\ UNCHANGED <<blockVars, bundle, quizRpc, testsRpc>>

\* validate_content_blocks reads the README ...
ReadReadme ==
  /\ phase = "repaired" /\ Len(doc) < Len(bundle.lines)
  /\ ReadLine(bundle.lines[Len(doc) + 1])
  /\ UNCHANGED <<bundle, phase, file, quizRpc, testsRpc>>

\* ... and the bundle is refused or its lesson is written.  A save that skips
\* validation writes any.
Judge ==
  /\ phase = "repaired" /\ Len(doc) = Len(bundle.lines)
  /\ phase' = IF bundle.skip \/ BundleOk(bundle, file) THEN "lesson" ELSE "refused"
  /\ UNCHANGED <<blockVars, bundle, file, quizRpc, testsRpc>>

UpsertQuiz ==
  /\ phase = "lesson"
  /\ quizRpc' = MapQuiz(bundle.quiz)
  /\ phase' = IF BoilerplateOk(bundle.boilerplate) THEN "quiz" ELSE "broken off"
  /\ UNCHANGED <<blockVars, bundle, file, testsRpc>>

UpsertProject ==
  /\ phase = "quiz"
  /\ testsRpc' = MapTests(bundle, file)
  /\ phase' = IF StackOk(StackOf(bundle)) /\ DependenciesOk(bundle.dependencies)
                THEN "saved" ELSE "broken off"
  /\ UNCHANGED <<blockVars, bundle, file, quizRpc>>

BundleNext == Repair \/ ReadReadme \/ Judge \/ UpsertQuiz \/ UpsertProject

BundleSpec == BundleInit /\ [][BundleNext]_bundleVars

----------------------------------------------------------------------------
(* Properties *)

\* A quiz the rules accept is written whole, and the option that was marked
\* correct is, unless blanks are all that tells its id from another's; and no
\* question is ever written without two options, its answer among them
\* (validate_quiz_payload, harness_quiz_to_rpc_payload).
AnswersSurvive ==
  phase \in {"quiz", "saved"} =>
    /\ \A q \in quizRpc : q.correct \in q.options /\ Cardinality(q.options) >= 2
    /\ QuizOk(bundle.quiz) => \A i \in Places(bundle.quiz) :
         LET options == bundle.quiz[i].options IN
           \E q \in quizRpc :
             /\ q.question = i /\ Cardinality(q.options) = 4
             /\ Distinct([j \in Places(options) |-> Strip(options[j])]) =>
                  options[q.correct.position] = bundle.quiz[i].correct

\* A repaired starter/tests.json passes the rules if its cases have usable
\* stdins, and a case is scored in it if and only if it was among the test
\* cases (repair_invalid_project_tests_json, validate_project_tests_json).
RepairedTestsAreValid ==
  (phase # "given" /\ file # bundle.file) =>
    LET given == Dicts(bundle.cases) IN
      /\ (given # <<>> /\ \A i \in Places(given) : given[i].stdin # "number") => TestsOk(file)
      /\ Len(file.cases) = Len(given)
      /\ \A i \in Places(given) :
           file.cases[i].camel = "none" <=> given[i].camel = "none" /\ given[i].snake = "none"

\* A bundle that validate_lesson, validate_quiz and validate_project accept is
\* not broken off halfway by a rule that only the save applies, as long as the
\* stack of its meta, which no tool validates, is one there is.
NoHalfSave ==
  (phase = "broken off" /\ StackOk(bundle.metaStack)) => ~Validated(bundle, file)

\* What the warning of validate_project_tests_json says: a case with an
\* expected stdout or exit code is scored.
ScoredCasesStayScored ==
  phase = "saved" =>
    \A row \in testsRpc :
      (Rows(bundle.cases) # {} /\ bundle.cases[row.case].camel # "none") => row.expects # "none"
===============================================================================
