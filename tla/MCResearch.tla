----------------------------- MODULE MCResearch -----------------------------
(* Two calls that write one article, one after the other, or one that       *)
(* writes it beside a search for the same or for another query.             *)
EXTENDS Research

CONSTANTS a, b, v, w, u

MCCalls == {a, b, v, w, u}
MCKindOf == [c \in MCCalls |-> CASE c \in {a, b} -> "article"
                                 [] c \in {v, u} -> "videos"
                                 [] c = w -> "web"]
MCQueryOf == [c \in MCCalls |-> IF c = v THEN "other" ELSE "same"]

\* Only the calls in focus are made.
VARIABLE focus
MCInit == ResearchInit /\ focus \in {{a, b}, {a, v}, {a, w}, {u, v}}
MCSpec ==
  /\ MCInit
  /\ [][/\ ResearchNext
        /\ UNCHANGED focus
        /\ \A c \in ToolCalls \ focus : UNCHANGED stage[c]
        /\ stage[b] # stage'[b] => stage[a] = "done"]_<<researchVars, focus>>
  /\ ResearchFairness
=============================================================================
