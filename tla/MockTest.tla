------------------------------ MODULE MockTest ------------------------------
(***************************************************************************)
(* validate_mock_test_bundle of domain/content_validators.py, which reads  *)
(* the sections of a mock test one by one, and the builder of              *)
(* application/mock_test_authoring.py whose structures it validates.  The  *)
(* other fields of the mock test are in order.                             *)
(***************************************************************************)
EXTENDS Naturals, Sequences, SequencesExt

CONSTANTS LessonSlugs  \* lesson_slugs, "" among them

VARIABLES sections,   \* the sections read so far
          positions,  \* the positions, ...
          slugs,      \* ... the slugs ...
          typed,      \* ... and the typed sections seen
          errors      \* whether the report has an error

mockVars == <<sections, positions, slugs, typed, errors>>

SectionTypes == <<"instructions", "quiz", "coding">>
Sections == [slug : LessonSlugs, position : 0..3, type : ToSet(SectionTypes) \cup {"other"}]

MockInit ==
  /\ sections = <<>> /\ positions = {} /\ slugs = {} /\ typed = {}
  /\ errors = FALSE

\* A position that is valid and was not seen.
FreshPosition(s) == s.position \in 1..3 \ positions

\* Mutant: a slug that was seen before is not an error.
FreshSlugOnly(s) == s.slug # ""

FreshSlug(s) == s.slug # "" /\ s.slug \notin slugs
KnownType(s) == s.type \in ToSet(SectionTypes)

\* One turn of the loop.
ReadSection(s) ==
  /\ sections' = Append(sections, s)
  /\ slugs' = slugs \cup ({s.slug} \ {""})
  /\ positions' = IF FreshPosition(s) THEN positions \cup {s.position} ELSE positions
  /\ typed' = IF FreshPosition(s) /\ KnownType(s)
                THEN typed \cup {[position |-> s.position, type |-> s.type]} ELSE typed
  /\ errors' = (errors \/ ~FreshSlug(s) \/ ~FreshPosition(s) \/ ~KnownType(s))

\* The k-th of the typed sections, by their positions.
TypedNth(k) == CHOOSE s \in typed : Cardinality({t \in typed : t.position < s.position}) = k - 1
TypesSeen == [k \in 1..Cardinality(typed) |-> TypedNth(k).type]

Valid == Len(sections) = 3 /\ ~errors /\ TypesSeen = SectionTypes

MockNext == \E s \in Sections : ReadSection(s)
MockSpec == MockInit /\ [][MockNext]_mockVars

\* build_mock_test_structure, with the slugs given for its sections.
Built(given) == [i \in 1..3 |-> [slug |-> given[i], position |-> i, type |-> SectionTypes[i]]]

----------------------------------------------------------------------------
(* Properties *)

\* A mock test is valid if and only if it has the sections the builder makes
\* from three different slugs, in any order (validate_mock_test_bundle).
ValidIsBuilt ==
  Valid <=> \E given \in [1..3 -> LessonSlugs \ {""}] :
              /\ IsInjective(given) /\ Len(sections) = 3
              /\ ToSet(sections) = ToSet(Built(given))
===============================================================================
