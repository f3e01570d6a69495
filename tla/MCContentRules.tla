--------------------------- MODULE MCContentRules ---------------------------
(* Bundles that differ from a plain one in one part: the lines of a README, *)
(* a quiz of one or two questions, the test cases and their file, or what   *)
(* is validated late; and mock tests of up to three sections.               *)
EXTENDS ContentRules, MockTest

CONSTANTS javascript, rust

\* Of the ids in Ids, below.
MCStrip(id) == CASE id = " " -> "" [] id = "a " -> "a" [] OTHER -> id
MCLower(id) == IF id = "A" THEN "a" ELSE id

Asked(id, options, correct) == [id |-> id, options |-> options, correct |-> correct]
PlainQuestion == Asked("q", <<"a", "b", "c", "d">>, "b")
Case(stdin, camel, snake) == [stdin |-> stdin, camel |-> camel, snake |-> snake]
PlainCase == Case("string", "truthy", "none")

Meta(keys) == [keys |-> {"id", "title"} \cup keys]
Readme(title, levels) ==
  [title |-> title, headings |-> {[level |-> l, title |-> s] : l \in levels, s \in RequiredSections}]
FullReadme == Readme(TRUE, {2})

PlainBundle ==
  [lines |-> <<"prose">>, quiz |-> <<PlainQuestion>>, cases |-> <<PlainCase>>,
   snake |-> TRUE, file |-> NoFile, meta |-> Meta({"graphIndex", "graphNodeId"}),
   readme |-> FullReadme, files |-> {"object"}, strict |-> TRUE, skip |-> FALSE, boilerplate |-> "none",
   metaStack |-> NoStack, projectStack |-> javascript, dependencies |-> "none"]

Readmes == {[PlainBundle EXCEPT !.lines = l] : l \in UNION {[1..n -> Lines] : n \in 0..4}}

Ids == {"a", "A", "a ", "b", ""}
OptionLists == UNION {[1..n -> Ids] : n \in {1, 3}} \cup {o \in [1..4 -> Ids \cup {"c"}] : o[4] = "c"}
Quizzes ==
  {<<Asked("q", o, id)>> : o \in OptionLists, id \in Ids}
    \cup {<<PlainQuestion, Asked(id, <<"A", "a", "b", "c">>, correct)>> :
             id \in {"q", "r", " "}, correct \in Ids}
    \cup {<<>>}
QuizBundles == {[PlainBundle EXCEPT !.quiz = q, !.skip = s] : q \in Quizzes, s \in BOOLEAN}

CaseSet == [stdin : {"none", "string", "number"}, camel : Expectation, snake : Expectation]
             \cup {Case("not a case", "none", "none")}
CaseLists == UNION {[1..n -> CaseSet] : n \in 0..2}
Files == {NoFile, JsonOf(<<PlainCase>>), JsonOf(<<Case("number", "none", "none")>>)}
           \cup {[is |-> k, cases |-> <<>>] : k \in {"none", "empty", "invalid", "other"}}
TestBundles == {[PlainBundle EXCEPT !.cases = c, !.file = f, !.snake = s] :
                  c \in CaseLists, f \in Files, s \in BOOLEAN}

LateBundles ==
  {[PlainBundle EXCEPT !.meta = m, !.readme = r, !.strict = s, !.files = f,
                       !.boilerplate = b, !.metaStack = x, !.projectStack = y,
                       !.dependencies = d] :
     m \in {Meta({"graphIndex", "graph_node_id"}), Meta({"graphIndex"}),
            [keys |-> {"id", "graph_index", "graph_node_id"}]},
     r \in {FullReadme, Readme(TRUE, {3}), Readme(FALSE, {2}), NoReadme}, s \in BOOLEAN,
     f \in {{"object"}, {"object", "string"}},
     b \in {"none", "ok", "bad"}, x \in {NoStack, javascript, rust},
     y \in {NoStack, javascript, rust}, d \in {"none", "ok", "bad"}}

\* Init takes the bundles from their sets, which TLC would be slow to unite.
MCBundles == {PlainBundle}

ASSUME MCAssumption ==
  /\ \A b \in QuizBundles : IsBundle(b)
  /\ \A b \in TestBundles : IsBundle(b)

\* Either a bundle is saved or a mock test is read.
MCInit ==
  /\ MockInit
  /\ \/ \E b \in Readmes : Given(b)
     \/ \E b \in QuizBundles : Given(b)
     \/ \E b \in TestBundles : Given(b)
     \/ \E b \in LateBundles : Given(b)

MockTool ==
  /\ bundle = PlainBundle /\ phase = "given" /\ Len(sections) < 3
  /\ \E s \in Sections : ReadSection(s)
  /\ UNCHANGED bundleVars

MCNext == (BundleNext /\ sections = <<>> /\ UNCHANGED mockVars) \/ MockTool

MCSpec == MCInit /\ [][MCNext]_<<bundleVars, mockVars>>
===============================================================================
