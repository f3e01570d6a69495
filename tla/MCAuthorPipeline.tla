-------------------------- MODULE MCAuthorPipeline --------------------------
(* Two runs of one job and a third of another job, all saving one lesson,  *)
(* or, on a lesson without order, two runs of one job.                     *)
EXTENDS AuthorPipeline

CONSTANTS r1, r2, r3, j1, j2, l1

MCRuns == {r1, r2, r3}
MCJobOf == [r \in MCRuns |-> IF r = r3 THEN j2 ELSE j1]
MCOneJobOf == [r \in MCRuns |-> j1]
MCLessonOf == [r \in MCRuns |-> l1]
MCPair == {r1, r2}
MCPairJobOf == [r \in MCPair |-> j1]
MCPairLessonOf == [r \in MCPair |-> l1]

MCBundles == {{}, {"quiz"}, {"quiz", "project"}, {"project", "badStack"}}
MCQuizBundle == {{"quiz"}}
MCLessonBundle == {{}}
=============================================================================
