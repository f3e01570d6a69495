---------------------------- MODULE LlmRouting ----------------------------
(***************************************************************************)
(* What the gate and the registry share: the complexity tiers of           *)
(* domain/llm_routing.py, and the time.  time.monotonic() and              *)
(* datetime.now() are one clock, in abstract units.                        *)
(***************************************************************************)
EXTENDS Integers

CONSTANTS Tiers,  \* LLMComplexity
          Medium  \* LLMComplexity.MEDIUM

ASSUME MediumAssumption == Medium \in Tiers

VARIABLE now
=============================================================================
