----------------------------- MODULE DraftPromise -----------------------------
(***************************************************************************)
(* What a learner who watches the draft of an orderly session may rely on. *)
(* The draft belongs to one turn and one try of it at a time; it is        *)
(* emptied, and then it only grows; it is not taken from a turn that has   *)
(* not been answered; and a text that is answered is the text that stands  *)
(* there, to the last word.  No chunks, no throttle, no timeouts.          *)
(***************************************************************************)
EXTENDS Integers

CONSTANTS Turns, SessionOf, Nobody,
          Watched,  \* the orderly sessions
          Tries,    \* the numbers of a turn's tries
          Lengths   \* of a text

VARIABLES draft,  \* the draft of each session
          told    \* what each turn was answered

promiseVars == <<draft, told>>

NoText == [turn |-> Nobody, try |-> 0, len |-> 0]
Silent == [kind |-> "nothing", text |-> NoText]

Shown(t) == draft[SessionOf[t]]

Init ==
  /\ draft = [s \in Watched |-> NoText]
  /\ told = [t \in Turns |-> Silent]

\* The draft is emptied for a turn, or for another try of the same turn.
Clear(t) ==
  /\ told[t] = Silent
  /\ \E k \in Tries :
       /\ \/ Shown(t).turn = Nobody
          \/ Shown(t).turn \in Turns \ {t} /\ told[Shown(t).turn] # Silent
          \/ Shown(t).turn = t /\ Shown(t).try < k
       /\ draft' = [draft EXCEPT ![SessionOf[t]] = [turn |-> t, try |-> k, len |-> 0]]

\* The text of the try in hand grows.
Grow(t) ==
  /\ told[t] = Silent
  /\ Shown(t).turn = t
  /\ \E n \in Lengths :
       /\ n > Shown(t).len
       /\ draft' = [draft EXCEPT ![SessionOf[t]].len = n]

\* A turn is answered with the text that stands there ...
Answer(t) ==
  /\ told[t] = Silent
  /\ Shown(t).turn = t
  /\ \E k \in {"reply", "rejected"} :
       told' = [told EXCEPT ![t] = [kind |-> k, text |-> Shown(t)]]
  /\ UNCHANGED draft

\* ... or without one, and the last change of the draft may still be made.
Fail(t) ==
  /\ told[t] = Silent
  /\ \E k \in {"failure", "exception"} :
       told' = [told EXCEPT ![t] = [kind |-> k, text |-> NoText]]
  /\ Clear(t) \/ Grow(t) \/ UNCHANGED draft

Next ==
  \E t \in Turns :
    /\ SessionOf[t] \in Watched
    /\ \/ (Clear(t) \/ Grow(t)) /\ UNCHANGED told
       \/ Answer(t)
       \/ Fail(t)

Spec == Init /\ [][Next]_promiseVars
===============================================================================
