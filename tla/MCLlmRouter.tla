---------------------------- MODULE MCLlmRouter ----------------------------
(* Three completions, two of one tier and one a stream, and a search; one   *)
(* model the backend always lists, and one it drops and lists again.        *)
EXTENDS LlmRouter

CONSTANTS c1, c2, c3, s1, low, medium, mKept, mFlaky

MCCalls == {c1, c2, c3, s1}
MCTierOf == [c \in MCCalls |-> low]
MCModelOrder == <<mFlaky, mKept>>
MCOffered == [m \in {mFlaky, mKept} |-> IF m = mFlaky THEN {low, medium} ELSE {medium}]
=============================================================================
