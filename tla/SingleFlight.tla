---------------------------- MODULE SingleFlight ----------------------------
(***************************************************************************)
(* What run_cache_aside promises its callers, with no lock, no map and no  *)
(* queue in sight.  On a steady key there is one call of the inner port    *)
(* and every caller gets its value; on any other key a caller gets a value *)
(* that was cached or one it loaded itself, or fails.                      *)
(***************************************************************************)
CONSTANTS Requests, Keys, KeyOf, Steady, Nobody

VARIABLES status,  \* what each caller knows of its request
          result,  \* the request that loaded the value it was given
          value    \* the cached value of each key

sfVars == <<status, result, value>>

Init ==
  /\ status = [r \in Requests |-> "waiting"]
  /\ result = [r \in Requests |-> Nobody]
  /\ value = [k \in Keys |-> Nobody]

Loading(k) == {r \in Requests : KeyOf[r] = k /\ status[r] = "loading"}

\* The inner port is called: on a steady key, only the first time.
Invoke(r) ==
  /\ status[r] = "waiting"
  /\ KeyOf[r] \in Steady => value[KeyOf[r]] = Nobody /\ Loading(KeyOf[r]) = {}
  /\ status' = [status EXCEPT ![r] = "loading"]
  /\ UNCHANGED <<result, value>>

\* A caller is given the cached value.
Answer(r) ==
  /\ status[r] = "waiting"
  /\ value[KeyOf[r]] # Nobody
  /\ status' = [status EXCEPT ![r] = "done"]
  /\ result' = [result EXCEPT ![r] = value[KeyOf[r]]]
  /\ UNCHANGED value

\* Only what was loaded is stored, and on a steady key it always is.
Store(r) ==
  \/ value' = [value EXCEPT ![KeyOf[r]] = r]
  \/ KeyOf[r] \notin Steady /\ UNCHANGED value

Finish(r) ==
  /\ status[r] = "loading"
  /\ status' = [status EXCEPT ![r] = "done"]
  /\ result' = [result EXCEPT ![r] = r]
  /\ Store(r)

\* A caller that is cancelled, or whose loader raises, fails.
Fail(r) ==
  /\ \/ status[r] = "waiting" /\ UNCHANGED value
     \/ status[r] = "loading" /\ KeyOf[r] \notin Steady /\ Store(r)
  /\ status' = [status EXCEPT ![r] = "failed"]
  /\ UNCHANGED result

Expire(k) ==
  /\ k \notin Steady
  /\ value' = [value EXCEPT ![k] = Nobody]
  /\ UNCHANGED <<status, result>>

Next ==
  \/ \E r \in Requests : Invoke(r) \/ Answer(r) \/ Finish(r) \/ Fail(r)
  \/ \E k \in Keys : Expire(k)

Spec == Init /\ [][Next]_sfVars
=============================================================================
