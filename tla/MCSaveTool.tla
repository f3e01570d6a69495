----------------------------- MODULE MCSaveTool -----------------------------
(* Two calls for one lesson: the second brings the edited bundle.           *)
EXTENDS SaveTool

CONSTANTS r1, r2, l1

MCRequests == {r1, r2}
MCLessonOf == [r \in MCRequests |-> l1]
MCKeyOf == [r \in MCRequests |-> CallKey(r)]
MCKeys == {<<l1, FALSE>>}
MCBundles == {{}, {"quiz"}}
=============================================================================
