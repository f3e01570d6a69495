------------------------------ MODULE TutorTurn ------------------------------
(***************************************************************************)
(* application/agents/socratic: the graph of one turn of the tutor         *)
(* (graph.py, nodes.py), called with a session by socratic_tutor of        *)
(* interface/custom_tools_socratic.py.  While the model's answer streams   *)
(* in, generate_reply writes it to the session's draft, throttled by       *)
(* application/tutor_session_draft.py; then the answer is validated.       *)
(*                                                                         *)
(* A text is named by the turn and the try of generate_reply that wrote    *)
(* it, and its length.  The draft of length 0 is the empty one (null).     *)
(***************************************************************************)
EXTENDS Integers, FiniteSets

CONSTANTS Turns,        \* the calls of socratic_tutor with a session_id
          Sessions,     \* the rows of learner.tutor_sessions
          SessionOf,    \* the session of each turn
          Serial,       \* the sessions whose turns follow each other
          Reliable,     \* the sessions whose patches neither fail nor come late
          EveryN,       \* DRAFT_PATCH_EVERY_N_CHARS
          MaxChunk,     \* the longest chunk a model streams
          MaxLength,    \* the longest answer it streams
          NodeRetries,  \* node_retries
          MaxLate,      \* bound of the model: patches on their way at a time
          Nobody        \* no turn

ASSUME SessionAssumption ==
  /\ SessionOf \in [Turns -> Sessions]
  /\ Serial \subseteq Sessions /\ Reliable \subseteq Sessions
  /\ Nobody \notin Turns
ASSUME LengthAssumption ==
  /\ EveryN \in Nat \ {0} /\ MaxChunk \in Nat \ {0}
  /\ MaxLength \in Nat /\ NodeRetries \in Nat /\ MaxLate \in Nat

VARIABLES pc,        \* where each turn is
          attempts,  \* the tries of generate_reply that timed out
          written,   \* the length of accumulated
          flushed,   \* the throttle's _last_len
          rejected,  \* reply_retry_count
          draft,     \* draft_reply of each session
          late,      \* patches whose sender gave up, still on their way
          told       \* what each turn was answered

turnVars == <<pc, attempts, written, flushed, rejected>>
vars == <<turnVars, draft, late, told>>

Patching == {"clearing", "patching", "flushing"}
Generating == Patching \cup {"streaming"}
Active == Generating \cup {"validate"}

Texts == [turn : Turns \cup {Nobody}, try : 0..NodeRetries, len : 0..MaxLength]
NoText == [turn |-> Nobody, try |-> 0, len |-> 0]
Silent == [kind |-> "nothing", text |-> NoText]

TypeOK ==
  /\ pc \in [Turns -> {"new", "done"} \cup Active]
  /\ attempts \in [Turns -> 0..NodeRetries]
  /\ written \in [Turns -> 0..MaxLength]
  /\ flushed \in [Turns -> 0..MaxLength]
  /\ rejected \in [Turns -> 0..1]
  /\ draft \in [Sessions -> Texts]
  /\ late \subseteq {x \in Texts : x.turn # Nobody}
  /\ told \in [Turns -> [kind : {"nothing", "reply", "rejected", "failure", "exception"},
                         text : Texts]]

Init ==
  /\ pc = [t \in Turns |-> "new"]
  /\ attempts = [t \in Turns |-> 0]
  /\ written = [t \in Turns |-> 0]
  /\ flushed = [t \in Turns |-> 0]
  /\ rejected = [t \in Turns |-> 0]
  /\ draft = [s \in Sessions |-> NoText]
  /\ late = {}
  /\ told = [t \in Turns |-> Silent]

Orderly == Serial \cap Reliable

Goto(t, p) == pc' = [pc EXCEPT ![t] = p]

\* What the graph has of the model's answer.
Text(t) == [turn |-> t, try |-> attempts[t], len |-> written[t]]

\* generate_reply begins its next try; its variables are those of the try.
Afresh(t) ==
  /\ written' = [written EXCEPT ![t] = 0]
  /\ flushed' = [flushed EXCEPT ![t] = 0]

\* The call ends, and its variables with it.
Tell(t, k, x) ==
  /\ told' = [told EXCEPT ![t] = [kind |-> k, text |-> x]]
  /\ attempts' = [attempts EXCEPT ![t] = 0]
  /\ rejected' = [rejected EXCEPT ![t] = 0]
  /\ Afresh(t)
  /\ Goto(t, "done")

----------------------------------------------------------------------------
(* Patches of the draft *)

Apply(x) == draft' = [draft EXCEPT ![SessionOf[x.turn]] = x]

\* The patch of an unreliable session times out and is executed later.
Delayed(t) ==
  /\ SessionOf[t] \notin Reliable
  /\ Cardinality(late) < MaxLate
  /\ late' = late \cup {Text(t)}
  /\ UNCHANGED draft

\* patch_tutor_session_draft_fail_open returns, whatever came of the patch:
\* it was executed, it was not, or it will be.
Patched(t) ==
  \/ Apply(Text(t)) /\ UNCHANGED late
  \/ SessionOf[t] \notin Reliable /\ UNCHANGED <<draft, late>>
  \/ Delayed(t)

\* The turn is cancelled or timed out while it awaits a patch, or not.
Abandoned(t) ==
  \/ UNCHANGED <<draft, late>>
  \/ pc[t] \in Patching /\ Apply(Text(t)) /\ UNCHANGED late
  \/ pc[t] \in Patching /\ Delayed(t)

\* A patch whose sender gave up is executed after all.
PatchArrives(x) ==
  /\ x \in late
  /\ Apply(x)
  /\ late' = late \ {x}
  /\ UNCHANGED <<turnVars, told>>

\* Mutant: the comparison of should_flush is strict.
DueLater(t, n) == flushed[t] = 0 \/ n - flushed[t] > EveryN

\* should_flush, whatever the time: nothing has been flushed yet, and the
\* clock of the last flush starts at 0, or the text has grown enough.
Due(t, n) == flushed[t] = 0 \/ n - flushed[t] >= EveryN

----------------------------------------------------------------------------
(* The nodes *)

MayStart(t) ==
  /\ pc[t] = "new"
  /\ SessionOf[t] \in Serial =>
       \A q \in Turns : SessionOf[q] = SessionOf[t] => pc[q] \notin Active

\* ground_context returns, and generate_reply clears the draft.
Start(t) ==
  /\ MayStart(t)
  /\ Goto(t, "clearing")
  /\ UNCHANGED <<attempts, written, flushed, rejected, draft, late, told>>

\* ground_context raises or times out, or the call is cancelled by then.
StartFails(t) ==
  /\ MayStart(t)
  /\ Tell(t, "exception", NoText)
  /\ UNCHANGED <<draft, late>>

\* A patch is over, and the throttle marks it as flushed although it may
\* have failed.
PatchEnds(t) ==
  /\ pc[t] \in Patching
  /\ Patched(t)
  /\ flushed' = [flushed EXCEPT ![t] = written[t]]
  /\ Goto(t, IF pc[t] = "flushing" THEN "validate" ELSE "streaming")
  /\ UNCHANGED <<attempts, written, rejected, told>>

\* A chunk of n characters: it is flushed if it must be, or if enough time
\* has passed.
Chunk(t, n) ==
  /\ pc[t] = "streaming"
  /\ written[t] + n <= MaxLength
  /\ written' = [written EXCEPT ![t] = @ + n]
  /\ \/ Goto(t, "patching")
     \/ ~Due(t, written[t] + n) /\ UNCHANGED pc
  /\ UNCHANGED <<attempts, flushed, rejected, draft, late, told>>

\* Mutant: what the throttle held back at the end is not flushed.
StreamEndsUnflushed(t) ==
  /\ pc[t] = "streaming"
  /\ written[t] > 0
  /\ Goto(t, "validate")
  /\ UNCHANGED <<attempts, written, flushed, rejected, draft, late, told>>

\* The stream has ended: the whole text is flushed, throttle or not.
StreamEnds(t) ==
  /\ pc[t] = "streaming"
  /\ written[t] > 0
  /\ Goto(t, "flushing")
  /\ UNCHANGED <<attempts, written, flushed, rejected, draft, late, told>>

\* The stream raises, or ends without a text: the reply is missing, and the
\* error, or a sentence in its place, is the answer.
StreamFails(t) ==
  /\ pc[t] = "streaming"
  /\ Tell(t, "failure", NoText)
  /\ UNCHANGED <<draft, late>>

\* _route_after_validate, with the count of the failures that validate_reply
\* has just written.
Again(n) == n < 1

\* validate_reply and what follows: a reply of blanks is missing, and
\* result_from_state answers with the reply also when it was rejected.
Validate(t) ==
  /\ pc[t] = "validate"
  /\ \/ Tell(t, "reply", Text(t))
     \/ Tell(t, "failure", NoText)
     \/ IF Again(rejected[t] + 1)
        THEN /\ rejected' = [rejected EXCEPT ![t] = @ + 1]
             /\ Afresh(t)
             /\ Goto(t, "clearing")
             /\ UNCHANGED <<attempts, told>>
        ELSE Tell(t, "rejected", Text(t))
  /\ UNCHANGED <<draft, late>>

\* Mutant: one attempt too many.
MayAttemptMore(t) == attempts[t] <= NodeRetries

\* RetryPolicy(max_attempts=node_retries + 1).
MayAttempt(t) == attempts[t] < NodeRetries

\* Mutant: the node has no timeout.
TimesOutNever(t) == FALSE /\ UNCHANGED vars

\* generate_reply times out (its own exceptions it catches): it is attempted
\* again, if the policy retries timeouts, or the graph raises.
TimesOut(t) ==
  /\ pc[t] \in Generating
  /\ Abandoned(t)
  /\ \/ /\ MayAttempt(t)
        /\ attempts' = [attempts EXCEPT ![t] = @ + 1]
        /\ Afresh(t)
        /\ Goto(t, "clearing")
        /\ UNCHANGED <<rejected, told>>
     \/ Tell(t, "exception", NoText)

\* The workflow times out or the call is cancelled.
Cancel(t) ==
  /\ pc[t] \in Active
  /\ Abandoned(t)
  /\ Tell(t, "exception", NoText)

\* What does not depend on the model.
Run(t) == PatchEnds(t) \/ Validate(t) \/ TimesOut(t)

Rest == /\ \A t \in Turns : pc[t] \in {"new", "done"}
        /\ UNCHANGED vars

Next ==
  \/ \E t \in Turns :
       \/ Start(t) \/ StartFails(t) \/ Run(t) \/ Cancel(t)
       \/ \E n \in 1..MaxChunk : Chunk(t, n)
       \/ StreamEnds(t) \/ StreamFails(t)
  \/ \E x \in late : PatchArrives(x)
  \/ Rest

\* Patches are answered or time out, and so does the node.
Fairness == \A t \in Turns : WF_vars(Run(t))

Spec == Init /\ [][Next]_vars /\ Fairness

----------------------------------------------------------------------------
(* Properties *)

\* While an orderly turn waits for more of its answer, the learner sees all
\* of this try's text but less than EveryN characters.
DraftKeepsUp ==
  \A t \in Turns :
    /\ SessionOf[t] \in Orderly
    /\ pc[t] = "streaming"
    => /\ draft[SessionOf[t]].turn = t
       /\ draft[SessionOf[t]].try = attempts[t]
       /\ written[t] - draft[SessionOf[t]].len < EveryN

\* A turn that was begun is answered, however slow the model, in any session.
TurnEnds == \A t \in Turns : pc[t] \in Active ~> pc[t] = "done"

\* The draft of an orderly session belongs to one try of one turn at a time,
\* only grows, and is the text that the turn is answered with.
Draft == INSTANCE DraftPromise WITH
  Watched <- Orderly,
  Tries <- 0..NodeRetries,
  Lengths <- 0..MaxLength,
  draft <- [s \in Orderly |-> draft[s]],
  told <- [t \in Turns |-> IF SessionOf[t] \in Orderly THEN told[t] ELSE Silent]

ImplementsDraftPromise == Draft!Spec

\* domain/socratic.py:117, "Enforce tutor policies: no grading, short turns,
\* questions-first bias": a text that validate_socratic_reply rejects is no
\* turn's answer.
PoliciesEnforced == \A t \in Turns : told[t].kind # "rejected"
===============================================================================
