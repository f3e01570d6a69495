-------------------------- MODULE ResearchPromise --------------------------
(***************************************************************************)
(* What a search or an article promises its caller: it is made from what   *)
(* every provider it needs has reported, each for itself, whether or not   *)
(* the others failed; and it is told to a call that asked the same.        *)
(***************************************************************************)
CONSTANTS Calls,
          RequestOf,   \* what each call asks
          Needs        \* the providers an answer to each call is made from

VARIABLES reported,    \* what each provider has reported to each call
          made,        \* the answers that are kept, with their requests
          told         \* what each call was told

promiseVars == <<reported, made, told>>

Silent == "silent"
Untold == [is |-> "untold"]

Init ==
  /\ reported = [c \in Calls |-> [p \in Needs[c] |-> Silent]]
  /\ made = {}
  /\ told = [c \in Calls |-> Untold]

Report(c) ==
  /\ told[c] = Untold
  /\ \E p \in Needs[c], r \in {"ok", "failed"} :
       /\ reported[c][p] = Silent
       /\ reported' = [reported EXCEPT ![c][p] = r]
  /\ UNCHANGED <<made, told>>

Answers(c, records) == told' = [told EXCEPT ![c] = [is |-> "answer", records |-> records]]

\* An answer tells which provider failed.  Its caller may have left.
Make(c) ==
  /\ told[c] = Untold
  /\ \A p \in Needs[c] : reported[c][p] # Silent
  /\ made' \in {made, made \cup {[of |-> RequestOf[c], records |-> reported[c]]}}
  /\ Answers(c, reported[c]) \/ told' = [told EXCEPT ![c] = [is |-> "error"]]
  /\ UNCHANGED reported

Repeat(c) ==
  /\ told[c] = Untold
  /\ \E a \in made : a.of = RequestOf[c] /\ Answers(c, a.records)
  /\ UNCHANGED <<reported, made>>

Forget ==
  /\ made' \in SUBSET made
  /\ UNCHANGED <<reported, told>>

Fail(c) ==
  /\ told[c] = Untold
  /\ told' = [told EXCEPT ![c] = [is |-> "error"]]
  /\ UNCHANGED <<reported, made>>

Next == \/ \E c \in Calls : Report(c) \/ Make(c) \/ Repeat(c) \/ Fail(c)
        \/ Forget

Spec == Init /\ [][Next]_promiseVars
=============================================================================
