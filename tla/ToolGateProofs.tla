---------------------------- MODULE ToolGateProofs ----------------------------
(***************************************************************************)
(* Proofs about ToolGate, for any calls, requests, users and limits: its   *)
(* type invariant, that the store's flag and client go together, that the  *)
(* quota is exact and that answers fit.                                    *)
(***************************************************************************)
EXTENDS ToolGate, TLAPS

----------------------------------------------------------------------------
(* Type correctness *)

\* A call that arrived has a request; one that is verified, a JWT.
ArrivedInv ==
  \A c \in Calls :
    /\ pc[c] # "new" => req[c] \in Inputs
    /\ pc[c] = "verify" => req[c].jwt # Nothing

TypeInv == TypeOK /\ ArrivedInv

\* What a call does in the store changes the store's part only.
LEMMA StoreType ==
  ASSUME TypeOK, NEW c \in Calls,
         Inside(c) \/ Lost(c) \/ Answered(c) \/ Breaks(c)
  PROVE  /\ available' \in {"unknown", "up", "down"}
         /\ connected' \in BOOLEAN
         /\ op' \in [Calls -> Ops]
<1>1. {"idle", "ping", "command", "close"} \subseteq Ops
  BY DEF Ops
<1>2. CASE Inside(c)
  BY <1>1, <1>2 DEF TypeOK, Inside, Send, Pinged, Breaks
<1>3. CASE Lost(c)
  BY <1>1, <1>3 DEF TypeOK, Lost, Down, PingFails, BreaksClosed, Closed, Ends
<1>4. CASE Answered(c) \/ Breaks(c)
  BY <1>1, <1>4 DEF TypeOK, Answered, Breaks, Ends
<1> QED
  BY <1>2, <1>3, <1>4

\* A step of a call that has arrived, and its end.
LEMMA StepShape ==
  ASSUME TypeInv, NEW c \in Calls, Step(c) \/ Cancel(c)
  PROVE  /\ UNCHANGED <<req, at, window, time, members, seen>>
         /\ pc[c] # "new"
         /\ \/ UNCHANGED pc
            \/ \E p \in (Live \cup Ended) \ {"verify"} : pc' = [pc EXCEPT ![c] = p]
<1> DEFINE Places == (Live \cup Ended) \ {"verify"}
<1>0. /\ {"denied", "failed", "member", "answered", "relook", "run", "look", "save"} \subseteq Places
      /\ \A r : Admitted(r) \in Places
      /\ \A p : Onward(p) \in Places
      /\ pc \in [Calls -> {"new"} \cup Live \cup Ended]
  BY DEF Live, Ended, Asking, Admitted, Onward, TypeInv, TypeOK
<1>1. CASE Verified(c)
  BY <1>0, <1>1 DEF Verified, Goto
<1>2. CASE Unverified(c) \/ Member(c) \/ NotMember(c)
  BY <1>0, <1>2 DEF Unverified, Member, NotMember, Goto
<1>3. CASE Stores(c)
  BY <1>0, <1>3 DEF Stores, Goto, Asking
<1>4. CASE Read(c)
  BY <1>0, <1>4 DEF Read, Goto
<1>5. CASE Returns(c) \/ Raises(c)
  BY <1>0, <1>5 DEF Returns, Raises, Goto
<1>6. CASE Written(c)
  BY <1>0, <1>6 DEF Written, Goto
<1>7. CASE Cancel(c)
  BY <1>0, <1>7 DEF Cancel, Goto, Live, Asking
<1> QED
  BY <1>1, <1>2, <1>3, <1>4, <1>5, <1>6, <1>7 DEF Step

LEMMA TypeInit == Init => TypeInv
<1> SUFFICES ASSUME Init PROVE TypeInv
  OBVIOUS
<1>1. /\ pc \in [Calls -> {"new"} \cup Live \cup Ended]
      /\ req \in [Calls -> Inputs \cup {Nothing}]
      /\ caller \in [Calls -> Users \cup {Nothing}]
      /\ answer \in [Calls -> Calls \cup {Nothing}]
      /\ at \in [Calls -> Nat \cup {Nothing}]
  BY DEF Init
<1>2. /\ window \in [QuotaKeys -> SUBSET Calls]
      /\ time \in Nat /\ members \in SUBSET Pairs
      /\ seen \in [Calls -> SUBSET Pairs]
  BY DEF Init
<1>3. /\ available \in {"unknown", "up", "down"} /\ connected \in BOOLEAN
      /\ op \in [Calls -> Ops]
      /\ kept \in [CacheKeys -> Calls \cup {Nothing}]
  BY DEF Init, StoreInit, Ops
<1>4. ArrivedInv
  BY DEF Init, ArrivedInv
<1> QED
  BY <1>1, <1>2, <1>3, <1>4 DEF TypeInv, TypeOK

LEMMA StepType ==
  ASSUME TypeInv, NEW c \in Calls, Step(c) \/ Cancel(c)
  PROVE  TypeInv'
<1>1. ArrivedInv'
  BY StepShape DEF TypeInv, TypeOK, ArrivedInv
<1>2. /\ pc' \in [Calls -> {"new"} \cup Live \cup Ended]
      /\ UNCHANGED <<req, at, window, time, members, seen>>
  BY StepShape DEF TypeInv, TypeOK
<1>3. caller' \in [Calls -> Users \cup {Nothing}]
  <2>1. CASE Verified(c)
    <3>1. req[c].jwt \in Jwts /\ Owner[req[c].jwt] # Nothing
      BY <2>1, GateAssumption DEF TypeInv, ArrivedInv, Verified
    <3>2. Owner[req[c].jwt] \in Users
      BY <3>1 DEF Users
    <3> QED
      BY <2>1, <3>2 DEF TypeInv, TypeOK, Verified
  <2>2. CASE ~Verified(c)
    BY <2>2 DEF TypeInv, TypeOK, Step, Unverified, Member, NotMember, Stores,
                Read, Returns, Raises, Written, Cancel
  <2> QED
    BY <2>1, <2>2
<1>4. CacheKey(req[c]) \in CacheKeys
  BY StepShape DEF TypeInv, ArrivedInv, CacheKeys
<1>5. kept' \in [CacheKeys -> Calls \cup {Nothing}]
  <2>1. CASE Written(c)
    BY <1>4, <2>1 DEF TypeInv, TypeOK, Written
  <2>2. CASE ~Written(c)
    BY <2>2 DEF TypeInv, TypeOK, Step, Verified, Unverified, Member, NotMember,
                Stores, Read, Returns, Raises, Cancel, storeVars
  <2> QED
    BY <2>1, <2>2
<1>6. answer' \in [Calls -> Calls \cup {Nothing}]
  <2>1. CASE Read(c) \/ Returns(c)
    BY <1>4, <2>1 DEF TypeInv, TypeOK, Read, Returns
  <2>2. CASE ~(Read(c) \/ Returns(c))
    BY <2>2 DEF TypeInv, TypeOK, Step, Verified, Unverified, Member, NotMember,
                Stores, Raises, Written, Cancel
  <2> QED
    BY <2>1, <2>2
<1>7. /\ available' \in {"unknown", "up", "down"}
      /\ connected' \in BOOLEAN
      /\ op' \in [Calls -> Ops]
  <2>1. CASE Stores(c) \/ Read(c) \/ Written(c)
    BY <2>1, StoreType DEF TypeInv, Stores, Read, Written
  <2>2. CASE Cancel(c)
    BY <2>2 DEF TypeInv, TypeOK, Cancel, Ends, Ops
  <2>3. CASE Verified(c) \/ Unverified(c) \/ Member(c) \/ NotMember(c) \/ Returns(c) \/ Raises(c)
    BY <2>3 DEF TypeInv, TypeOK, Verified, Unverified, Member, NotMember,
                Returns, Raises, storeVars
  <2> QED
    BY <2>1, <2>2, <2>3 DEF Step
<1>8. TypeOK'
  BY <1>2, <1>3, <1>5, <1>6, <1>7 DEF TypeInv, TypeOK
<1> QED
  BY <1>1, <1>8 DEF TypeInv

LEMMA ArriveType ==
  ASSUME TypeInv, NEW c \in Calls, NEW r \in Inputs, Arrive(c, r)
  PROVE  TypeInv'
<1>1. Checked(r) \in Live \cup Ended /\ (Checked(r) = "verify" => r.jwt # Nothing)
  BY DEF Checked, Admitted, Live, Ended, Asking
<1>2. PICK p \in Live \cup Ended :
        /\ pc' = [pc EXCEPT ![c] = p]
        /\ p = "verify" => r.jwt # Nothing
  BY <1>1 DEF Arrive, Goto, Ended
<1>3. ArrivedInv'
  BY <1>2 DEF TypeInv, TypeOK, ArrivedInv, Arrive
<1>4. window' \in [QuotaKeys -> SUBSET Calls]
  BY DEF TypeInv, TypeOK, Arrive, Pruned, QuotaKeys
<1>5. at' \in [Calls -> Nat \cup {Nothing}]
  BY DEF TypeInv, TypeOK, Arrive
<1>6. /\ pc' \in [Calls -> {"new"} \cup Live \cup Ended]
      /\ req' \in [Calls -> Inputs \cup {Nothing}]
      /\ seen' \in [Calls -> SUBSET Pairs]
      /\ UNCHANGED <<caller, answer, time, members, available, connected, op, kept>>
  BY <1>2 DEF TypeInv, TypeOK, Arrive, storeVars
<1>7. TypeOK'
  BY <1>4, <1>5, <1>6 DEF TypeInv, TypeOK
<1> QED
  BY <1>3, <1>7 DEF TypeInv

LEMMA WorldType ==
  ASSUME TypeInv,
         \/ \E p \in Moving : Leaves(p) \/ Joins(p)
         \/ \E k \in CacheKeys : Expire(k) /\ UNCHANGED gateVars
         \/ Tick
         \/ UNCHANGED vars
  PROVE  TypeInv'
<1>1. CASE \E p \in Moving : Leaves(p) \/ Joins(p)
  BY <1>1, GateAssumption DEF TypeInv, TypeOK, ArrivedInv, Leaves, Joins, storeVars
<1>2. CASE \E k \in CacheKeys : Expire(k) /\ UNCHANGED gateVars
  BY <1>2 DEF TypeInv, TypeOK, ArrivedInv, Expire, gateVars
<1>3. CASE Tick
  BY <1>3 DEF TypeInv, TypeOK, ArrivedInv, Tick, storeVars
<1>4. CASE UNCHANGED vars
  BY <1>4 DEF TypeInv, TypeOK, ArrivedInv, vars, gateVars, storeVars
<1> QED
  BY <1>1, <1>2, <1>3, <1>4

LEMMA TypeNext == TypeInv /\ [Next]_vars => TypeInv'
BY StepType, ArriveType, WorldType DEF Next

\* Every variable keeps its type.
THEOREM GateTypeCorrect == Spec => []TypeOK
<1>1. Init => TypeInv
  BY TypeInit
<1>2. TypeInv /\ [Next]_vars => TypeInv'
  BY TypeNext
<1>3. TypeInv => TypeOK
  BY DEF TypeInv
<1> QED
  BY <1>1, <1>2, <1>3, PTL DEF Spec

----------------------------------------------------------------------------
(* The store *)

\* Whatever the tasks do to the one client of the store, a store that is
\* down has none and one that is up has one (RedisCacheStore).
THEOREM StoreIsCoherent == Spec => []Coherent
<1>1. Init => Coherent
  BY DEF Init, StoreInit, Coherent
<1>2. Coherent /\ [Next]_vars => Coherent'
  <2> SUFFICES ASSUME Coherent, [Next]_vars PROVE Coherent'
    OBVIOUS
  <2>1. ASSUME NEW c \in Calls, Inside(c) \/ Lost(c) \/ Answered(c) \/ Breaks(c)
        PROVE  Coherent'
    BY <2>1 DEF Coherent, Inside, Lost, Send, Pinged, Breaks, Down, PingFails,
                BreaksClosed, Closed, Answered
  <2>2. ASSUME NEW c \in Calls, Step(c) PROVE Coherent'
    <3>1. CASE Stores(c) \/ Read(c) \/ Written(c)
      BY <2>1, <3>1 DEF Stores, Read, Written
    <3>2. CASE ~(Stores(c) \/ Read(c) \/ Written(c))
      BY <2>2, <3>2 DEF Step, Verified, Unverified, Member, NotMember, Returns,
                        Raises, storeVars, Coherent
    <3> QED
      BY <3>1, <3>2
  <2>3. ASSUME ~\E c \in Calls : Step(c) PROVE UNCHANGED <<available, connected>>
    BY <2>3 DEF Next, Cancel, Arrive, Leaves, Joins, Expire, Tick, vars, storeVars
  <2> QED
    BY <2>2, <2>3 DEF Coherent
<1> QED
  BY <1>1, <1>2, PTL DEF Spec

----------------------------------------------------------------------------
(* The quota *)

\* A window holds calls of its key, at the time they were admitted; a call
\* that is not in its key's window any more was admitted a window ago.
WindowInv ==
  /\ \A c \in Calls : pc[c] = "new" => at[c] = Nothing
  /\ \A k \in QuotaKeys : \A d \in window[k] :
       at[d] # Nothing /\ QuotaKey(req[d]) = k
  /\ \A d \in Calls : at[d] # Nothing =>
       d \in window[QuotaKey(req[d])] \/ at[d] <= time - Window

QuotaInv == TypeInv /\ WindowInv

LEMMA WindowIsRecent ==
  ASSUME QuotaInv, NEW k \in QuotaKeys
  PROVE  Pruned(k) = Recent(k)
<1>1. window[k] \subseteq Calls /\ time \in Int /\ Window \in Int
  BY GateAssumption DEF QuotaInv, TypeInv, TypeOK
<1>2. \A d \in Calls : at[d] # Nothing => at[d] \in Nat
  BY DEF QuotaInv, TypeInv, TypeOK
<1>3. ASSUME NEW d \in Recent(k) PROVE d \in Pruned(k)
  <2>1. d \in Calls /\ at[d] # Nothing /\ QuotaKey(req[d]) = k /\ at[d] > time - Window
    BY <1>3 DEF Recent
  <2>2. ~(at[d] <= time - Window)
    BY <1>1, <1>2, <2>1
  <2> QED
    BY <2>1, <2>2 DEF QuotaInv, WindowInv, Pruned
<1>4. ASSUME NEW d \in Pruned(k) PROVE d \in Recent(k)
  BY <1>1, <1>4 DEF QuotaInv, WindowInv, Pruned, Recent
<1> QED
  BY <1>3, <1>4

LEMMA ArriveWindow ==
  ASSUME QuotaInv, NEW c \in Calls, NEW r \in Inputs, Arrive(c, r)
  PROVE  WindowInv'
<1> DEFINE k == QuotaKey(r)
<1>0. /\ k \in QuotaKeys /\ time \in Nat /\ Nothing \notin Nat /\ Window \in Int
      /\ \A q \in QuotaKeys : window[q] \subseteq Calls
      /\ \A d \in Calls : at[d] # Nothing => at[d] \in Nat
      /\ at[c] = Nothing /\ pc[c] = "new"
  BY GateAssumption DEF QuotaKeys, QuotaInv, TypeInv, TypeOK, WindowInv, Arrive
<1>1. \A d \in Calls : pc'[d] = "new" => pc[d] = "new" /\ d # c
  BY <1>0 DEF QuotaInv, TypeInv, TypeOK, Arrive, Goto, Checked, Admitted
<1>2. req' = [req EXCEPT ![c] = r] /\ UNCHANGED time
  BY DEF Arrive
<1>2a. \A d \in Calls : req'[d] = IF d = c THEN r ELSE req[d]
  BY <1>2 DEF QuotaInv, TypeInv, TypeOK
<1>3. \A q \in QuotaKeys : c \notin window[q]
  BY <1>0 DEF QuotaInv, WindowInv
<1>4. CASE Cardinality(Pruned(k)) >= Limit
  <2>1. at' = at /\ \A q \in QuotaKeys : window'[q] = IF q = k THEN Pruned(k) ELSE window[q]
    BY <1>4, <1>0 DEF Arrive, QuotaInv, TypeInv, TypeOK
  <2>2. \A q \in QuotaKeys : \A d \in window'[q] : d \in window[q] /\ d # c
    BY <1>3, <2>1 DEF Pruned
  <2>3. \A d \in Calls : at[d] # Nothing => d # c /\ QuotaKey(req[d]) \in QuotaKeys
    BY <1>0 DEF QuotaInv, TypeInv, ArrivedInv, WindowInv, QuotaKeys
  <2>4. \A d \in Calls : at[d] # Nothing =>
          d \in window'[QuotaKey(req[d])] \/ at[d] <= time - Window
    <3> SUFFICES ASSUME NEW d \in Calls, at[d] # Nothing, ~(at[d] <= time - Window)
                 PROVE  d \in window'[QuotaKey(req[d])]
      OBVIOUS
    <3>1. at[d] > time - Window
      BY <1>0
    <3>2. d \in window[QuotaKey(req[d])]
      BY DEF QuotaInv, WindowInv
    <3>3. CASE QuotaKey(req[d]) = k
      BY <1>0, <2>1, <3>1, <3>2, <3>3 DEF Pruned
    <3>4. CASE QuotaKey(req[d]) # k
      BY <2>1, <2>3, <3>2, <3>4
    <3> QED
      BY <3>3, <3>4
  <2> QED
    BY <1>0, <1>1, <1>2, <1>2a, <2>1, <2>2, <2>3, <2>4 DEF QuotaInv, WindowInv
<1>5. CASE ~(Cardinality(Pruned(k)) >= Limit)
  <2>1. /\ \A d \in Calls : at'[d] = IF d = c THEN time ELSE at[d]
        /\ \A q \in QuotaKeys : window'[q] = IF q = k THEN Pruned(k) \cup {c} ELSE window[q]
    BY <1>5, <1>0 DEF Arrive, QuotaInv, TypeInv, TypeOK
  <2>2. \A q \in QuotaKeys : \A d \in window'[q] : (d \in window[q] /\ d # c) \/ (d = c /\ q = k)
    BY <1>3, <2>1 DEF Pruned
  <2>3. \A d \in Calls : at[d] # Nothing => d # c /\ QuotaKey(req[d]) \in QuotaKeys
    BY <1>0 DEF QuotaInv, TypeInv, ArrivedInv, WindowInv, QuotaKeys
  <2>4. \A d \in Calls : at[d] # Nothing =>
          d \in window'[QuotaKey(req[d])] \/ at[d] <= time - Window
    <3> SUFFICES ASSUME NEW d \in Calls, at[d] # Nothing, ~(at[d] <= time - Window)
                 PROVE  d \in window'[QuotaKey(req[d])]
      OBVIOUS
    <3>1. at[d] > time - Window
      BY <1>0
    <3>2. d \in window[QuotaKey(req[d])]
      BY DEF QuotaInv, WindowInv
    <3>3. CASE QuotaKey(req[d]) = k
      BY <1>0, <2>1, <3>1, <3>2, <3>3 DEF Pruned
    <3>4. CASE QuotaKey(req[d]) # k
      BY <2>1, <2>3, <3>2, <3>4
    <3> QED
      BY <3>3, <3>4
  <2>5. time # Nothing /\ c \in window'[k]
    BY <1>0, <2>1
  <2>6. \A d \in Calls : pc'[d] = "new" => at'[d] = Nothing
    BY <1>1, <2>1 DEF QuotaInv, WindowInv
  <2>7. \A q \in QuotaKeys : \A d \in window'[q] : at'[d] # Nothing /\ QuotaKey(req'[d]) = q
    BY <1>0, <1>2a, <2>1, <2>2, <2>5 DEF QuotaInv, WindowInv
  <2>8. \A d \in Calls : at'[d] # Nothing =>
          d \in window'[QuotaKey(req'[d])] \/ at'[d] <= time - Window
    BY <1>2a, <2>1, <2>4, <2>5
  <2> QED
    BY <1>2, <2>6, <2>7, <2>8 DEF WindowInv
<1> QED
  BY <1>4, <1>5

LEMMA QuotaNext == QuotaInv /\ [Next]_vars => QuotaInv'
<1> SUFFICES ASSUME QuotaInv, [Next]_vars PROVE QuotaInv'
  OBVIOUS
<1>0. TypeInv' /\ TypeInv
  BY TypeNext DEF QuotaInv
<1>1. ASSUME NEW c \in Calls, Step(c) \/ Cancel(c) PROVE WindowInv'
  <2>1. /\ UNCHANGED <<req, at, window, time>>
        /\ \A d \in Calls : pc'[d] = "new" => pc[d] = "new"
    <3>1. "new" \notin Live \cup Ended
      BY DEF Live, Ended, Asking
    <3> QED
      BY <1>0, <1>1, <3>1, StepShape DEF TypeInv, TypeOK
  <2> QED
    BY <2>1 DEF QuotaInv, WindowInv
<1>2. CASE Tick
  <2>1. \A n \in Nat : n <= time - Window => n <= time' - Window
    BY <1>0, <1>2, GateAssumption DEF Tick, TypeInv, TypeOK
  <2>2. UNCHANGED <<pc, req, at, window>>
    BY <1>2 DEF Tick
  <2>3. \A d \in Calls : at[d] # Nothing => at[d] \in Nat
    BY <1>0 DEF TypeInv, TypeOK
  <2> QED
    BY <1>0, <2>1, <2>2, <2>3 DEF QuotaInv, WindowInv
<1>3. CASE \/ \E p \in Moving : Leaves(p) \/ Joins(p)
           \/ \E k \in CacheKeys : Expire(k) /\ UNCHANGED gateVars
           \/ UNCHANGED vars
  <2>1. UNCHANGED <<pc, req, at, window, time>>
    BY <1>3 DEF Leaves, Joins, vars, gateVars
  <2> QED
    BY <1>0, <2>1 DEF QuotaInv, WindowInv
<1> QED
  BY <1>0, <1>1, <1>2, <1>3, ArriveWindow DEF Next, QuotaInv

\* The limiter refuses a call exactly when the quota of its key is used up,
\* for any limit, window and calls (acquire of InboundRateLimiter).
THEOREM QuotaExact == Spec => QuotaIsExact
<1> DEFINE Exact ==
      \A c \in Calls : pc[c] = "new" /\ pc'[c] # "new" =>
        (pc'[c] = "refused"
           <=> Cardinality(Recent(QuotaKey(req'[c]))) >= Limit)
<1>1. Init => QuotaInv
  BY TypeInit DEF QuotaInv, WindowInv, Init, QuotaKeys
<1>2. QuotaInv /\ [Next]_vars => QuotaInv'
  BY QuotaNext
<1>3. QuotaInv /\ [Next]_vars => [Exact]_vars
  <2> SUFFICES ASSUME QuotaInv, [Next]_vars,
                      NEW c \in Calls, pc[c] = "new", pc'[c] # "new"
               PROVE  pc'[c] = "refused"
                        <=> Cardinality(Recent(QuotaKey(req'[c]))) >= Limit
    OBVIOUS
  <2>1. \E r \in Inputs : Arrive(c, r)
    <3>1. ASSUME NEW d \in Calls, Step(d) \/ Cancel(d) PROVE FALSE
      BY <3>1, StepShape DEF QuotaInv, TypeInv, TypeOK
    <3>2. ASSUME NEW d \in Calls, NEW r \in Inputs, Arrive(d, r) PROVE d = c
      BY <3>2 DEF Arrive, Goto, QuotaInv, TypeInv, TypeOK
    <3>3. ~ \/ \E p \in Moving : Leaves(p) \/ Joins(p)
            \/ \E k \in CacheKeys : Expire(k) /\ UNCHANGED gateVars
            \/ Tick
            \/ UNCHANGED vars
      BY DEF Leaves, Joins, Tick, vars, gateVars
    <3> QED
      BY <3>1, <3>2, <3>3 DEF Next
  <2>2. PICK r \in Inputs : Arrive(c, r)
    BY <2>1
  <2>3. req'[c] = r /\ QuotaKey(r) \in QuotaKeys
    BY <2>2 DEF Arrive, QuotaInv, TypeInv, TypeOK, QuotaKeys
  <2>4. Pruned(QuotaKey(r)) = Recent(QuotaKey(r))
    BY <2>3, WindowIsRecent
  <2>5. pc'[c] = IF Cardinality(Pruned(QuotaKey(r))) >= Limit THEN "refused" ELSE Checked(r)
    BY <2>2 DEF Arrive, Goto, QuotaInv, TypeInv, TypeOK
  <2>6. Checked(r) # "refused"
    BY DEF Checked, Admitted
  <2> QED
    BY <2>3, <2>4, <2>5, <2>6
<1> QED
  BY <1>1, <1>2, <1>3, PTL DEF Spec, QuotaIsExact

----------------------------------------------------------------------------
(* The answers *)

\* Where a call has passed every check it needs.
Past == {"run", "answered"} \cup Asking

\* What a call saw of the memberships is never less than there is.
SeenInv == \A c \in Calls : pc[c] # "new" => members \subseteq seen[c]

\* Who is past the checks is entitled to an answer; who is only asked for
\* the membership is verified.
EntitledInv ==
  \A c \in Calls :
    /\ pc[c] \in Past => Entitled(c)
    /\ pc[c] = "member" => caller[c] # Nothing /\ Own(req[c], caller[c])

\* Call d is past the checks it needed, and the backend accepted it.
Checks == {"new", "verify", "member"}
Made(d) == d \in Calls /\ pc[d] \notin Checks /\ Entitled(d) /\ Accepted(d)

\* An answer to a request with key k: by such a call that asked the same.
Fits(d, k) == Made(d) /\ CacheKey(req[d]) = k

KeptInv == \A k \in CacheKeys : kept[k] # Nothing => Fits(kept[k], k)

AnswerInv ==
  \A c \in Calls :
    pc[c] \in {"save", "answered"} => Fits(answer[c], CacheKey(req[c]))

\* What a call keeps is its own work, and one whose tool is not cached never
\* looks for another's.
WorkInv ==
  \A c \in Calls :
    /\ pc[c] = "save" => Accepted(c)
    /\ pc[c] \in Asking => req[c].tool \notin Uncached
    /\ pc[c] = "answered" /\ req[c].tool \in Uncached => answer[c] = c

InsideInv == TypeInv /\ SeenInv /\ EntitledInv /\ KeptInv /\ AnswerInv /\ WorkInv

\* Being entitled depends on the call's own part of the state.
LEMMA StaysEntitled ==
  ASSUME TypeInv, TypeInv', NEW c \in Calls,
         UNCHANGED <<req, caller>>, seen[c] \subseteq seen'[c]
  PROVE  /\ Entitled(c) => Entitled(c)'
         /\ Own(req[c], caller[c])' <=> Own(req[c], caller[c])
BY DEF Entitled, Own

LEMMA StepEntitled ==
  ASSUME InsideInv, TypeInv', NEW c \in Calls, Step(c) \/ Cancel(c)
  PROVE  EntitledInv'
<1>0. /\ UNCHANGED <<req, members, seen>>
      /\ pc[c] # "new"
      /\ \A d \in Calls : d # c => pc'[d] = pc[d] /\ caller'[d] = caller[d]
  <2>1. \A d \in Calls : d # c => caller'[d] = caller[d]
    BY DEF InsideInv, TypeInv, TypeOK, Step, Verified, Unverified, Member, NotMember,
           Stores, Read, Returns, Raises, Written, Cancel
  <2> QED
    BY <2>1, StepShape DEF InsideInv, TypeInv, TypeOK
<1>1. ASSUME NEW d \in Calls, d # c
      PROVE  /\ pc'[d] \in Past => Entitled(d)'
             /\ pc'[d] = "member" => caller'[d] # Nothing /\ Own(req[d], caller[d])'
  BY <1>0, <1>1 DEF InsideInv, EntitledInv, Entitled, Own
<1> DEFINE Ok == /\ pc'[c] \in Past => Entitled(c)'
                 /\ pc'[c] = "member" => caller'[c] # Nothing /\ Own(req[c], caller[c])'
<1> SUFFICES Ok
  BY <1>1 DEF EntitledInv
<1>2. CASE Verified(c)
  <2> DEFINE r == req[c]
             u == Owner[r.jwt]
  <2>1. u # Nothing /\ caller'[c] = u
    BY <1>2 DEF Verified, InsideInv, TypeInv, TypeOK
  <2>2. pc'[c] = IF ~Own(r, u) THEN "denied"
                 ELSE IF r.tenant # Nothing THEN "member" ELSE Admitted(r)
    BY <1>2 DEF Verified, Goto, InsideInv, TypeInv, TypeOK
  <2>3. CASE ~Own(r, u)
    BY <2>2, <2>3 DEF Past, Asking
  <2>4. CASE Own(r, u) /\ r.tenant # Nothing
    <3>1. Own(req[c], caller[c])'
      BY <1>0, <2>1, <2>4 DEF Own
    <3> QED
      BY <2>1, <2>2, <2>4, <3>1 DEF Past, Asking
  <2>5. CASE Own(r, u) /\ r.tenant = Nothing
    <3>1. Entitled(c)'
      BY <1>0, <2>1, <2>5 DEF Entitled, Own
    <3>2. pc'[c] # "member"
      BY <2>2, <2>5 DEF Admitted
    <3> QED
      BY <3>1, <3>2
  <2> QED
    BY <2>3, <2>4, <2>5
<1>3. CASE Member(c)
  <2>1. pc[c] = "member" /\ <<caller[c], req[c].tenant>> \in members /\ UNCHANGED caller
    BY <1>3 DEF Member
  <2>2. Entitled(c)'
    BY <1>0, <2>1 DEF InsideInv, EntitledInv, SeenInv, Entitled, Own
  <2>3. pc'[c] # "member"
    BY <1>3 DEF Member, Goto, Admitted, InsideInv, TypeInv, TypeOK
  <2> QED
    BY <2>2, <2>3
<1>4. CASE Unverified(c) \/ NotMember(c) \/ Raises(c) \/ Cancel(c)
  BY <1>4 DEF Unverified, NotMember, Raises, Cancel, Goto, Past, Asking, InsideInv, TypeInv, TypeOK
<1>5. CASE Stores(c) \/ Read(c) \/ Returns(c) \/ Written(c)
  <2>1. pc[c] \in Past /\ UNCHANGED caller
    BY <1>5 DEF Stores, Read, Returns, Written, Past, Asking
  <2>2. Entitled(c)'
    BY <1>0, <2>1 DEF InsideInv, EntitledInv, Entitled, Own
  <2>3. pc'[c] # "member"
    <3>1. "member" \notin Asking /\ \A p : Onward(p) # "member"
      BY DEF Asking, Onward
    <3> QED
      BY <1>5, <3>1 DEF Stores, Read, Returns, Written, Goto, InsideInv, TypeInv, TypeOK
  <2> QED
    BY <2>2, <2>3
<1> QED
  BY <1>2, <1>3, <1>4, <1>5 DEF Step

\* A call past its checks stays there, whoever moves.
LEMMA StaysMade ==
  ASSUME InsideInv, TypeInv', NEW c \in Calls, Step(c) \/ Cancel(c), NEW d, Made(d)
  PROVE  Made(d)' /\ req'[d] = req[d]
<1>0. /\ UNCHANGED <<req, seen>> /\ d \in Calls
      /\ d # c => pc'[d] = pc[d] /\ caller'[d] = caller[d]
  <2>1. d # c => caller'[d] = caller[d]
    BY DEF InsideInv, TypeInv, TypeOK, Made, Step, Verified, Unverified, Member, NotMember,
           Stores, Read, Returns, Raises, Written, Cancel
  <2> QED
    BY <2>1, StepShape DEF InsideInv, TypeInv, TypeOK, Made
<1>1. CASE d # c
  BY <1>0, <1>1 DEF Made, Entitled, Own, Accepted
<1>2. CASE d = c
  <2>1. pc[c] \notin Checks
    BY <1>2 DEF Made
  <2>2. Stores(c) \/ Read(c) \/ Returns(c) \/ Raises(c) \/ Written(c) \/ Cancel(c)
    BY <2>1 DEF Step, Verified, Unverified, Member, NotMember, Checks
  <2>3. UNCHANGED caller
    BY <2>2 DEF Stores, Read, Returns, Raises, Written, Cancel
  <2>4. pc'[c] \notin Checks
    <3>1. /\ {"answered", "relook", "run", "save", "failed"} \cap Checks = {}
          /\ \A p : Onward(p) \notin Checks
      BY DEF Checks, Onward
    <3> QED
      BY <2>1, <2>2, <3>1 DEF Stores, Read, Returns, Raises, Written, Cancel, Goto,
                              InsideInv, TypeInv, TypeOK
  <2> QED
    BY <1>0, <1>2, <2>3, <2>4 DEF Made, Entitled, Own, Accepted
<1> QED
  BY <1>1, <1>2

LEMMA StepAnswers ==
  ASSUME InsideInv, TypeInv', NEW c \in Calls, Step(c) \/ Cancel(c)
  PROVE  KeptInv' /\ AnswerInv'
<1>0. /\ UNCHANGED req
      /\ pc[c] # "new"
      /\ \A d \in Calls : (pc[d] # "new" => pc'[d] # "new") /\ (d # c => pc'[d] = pc[d])
  <2>1. "new" \notin Live \cup Ended
    BY DEF Live, Ended, Asking
  <2> QED
    BY <2>1, StepShape DEF InsideInv, TypeInv, TypeOK
<1>1. ASSUME NEW d, NEW k, Fits(d, k) PROVE Fits(d, k)'
  BY <1>1, StaysMade DEF Fits, CacheKey
<1>2. /\ CacheKey(req[c]) \in CacheKeys /\ c # Nothing
      /\ pc[c] \in {"run", "save"} /\ Accepted(c) => Fits(c, CacheKey(req[c]))
  BY <1>0, GateAssumption
  DEF InsideInv, TypeInv, ArrivedInv, CacheKeys, Fits, Made, Checks, EntitledInv, Past, Asking
<1>3. \A d \in Calls : d # c => answer'[d] = answer[d]
  BY DEF InsideInv, TypeInv, TypeOK, Step, Verified, Unverified, Member, NotMember,
         Stores, Read, Returns, Raises, Written, Cancel
<1>4. pc[c] \in {"save", "answered"} => Fits(answer[c], CacheKey(req[c]))
  BY DEF InsideInv, AnswerInv
<1>5. KeptInv'
  <2>1. CASE Written(c)
    <3>1. \A k \in CacheKeys : kept'[k] = IF k = CacheKey(req[c]) THEN c ELSE kept[k]
      BY <1>2, <2>1 DEF Written, InsideInv, TypeInv, TypeOK
    <3>2. Fits(c, CacheKey(req[c]))
      BY <1>2, <2>1 DEF Written, InsideInv, WorkInv
    <3>3. ASSUME NEW k \in CacheKeys, kept'[k] # Nothing PROVE Fits(kept'[k], k)
      BY <3>1, <3>2, <3>3 DEF InsideInv, KeptInv
    <3>4. ASSUME NEW k \in CacheKeys, kept'[k] # Nothing PROVE Fits(kept[k], k)'
      <4>1. Fits(kept'[k], k)
        BY <3>3, <3>4
      <4> QED
        BY <4>1, StaysMade DEF Fits, Made, CacheKey, Entitled, Own, Accepted
    <3> QED
      BY <3>4 DEF KeptInv
  <2>2. CASE ~Written(c)
    <3>1. UNCHANGED kept
      BY <2>2 DEF Step, Verified, Unverified, Member, NotMember, Stores, Read,
                  Returns, Raises, Cancel, storeVars
    <3>2. ASSUME NEW k \in CacheKeys, kept'[k] # Nothing PROVE Fits(kept[k], k)'
      <4>1. Fits(kept[k], k)
        BY <3>1, <3>2 DEF InsideInv, KeptInv
      <4> QED
        BY <3>1, <4>1, StaysMade DEF Fits, Made, CacheKey, Entitled, Own, Accepted
    <3> QED
      BY <3>2 DEF KeptInv
  <2> QED
    BY <2>1, <2>2
<1>6. pc'[c] \in {"save", "answered"} => Fits(answer'[c], CacheKey(req[c]))
  <2>1. CASE Read(c)
    <3>1. /\ pc[c] \in {"look", "relook"}
          /\ answer'[c] = kept[CacheKey(req[c])]
          /\ pc'[c] = IF kept[CacheKey(req[c])] # Nothing THEN "answered" ELSE Onward(pc[c])
      BY <2>1 DEF Read, Goto, InsideInv, TypeInv, TypeOK
    <3>2. kept[CacheKey(req[c])] # Nothing => Fits(kept[CacheKey(req[c])], CacheKey(req[c]))
      BY <1>2 DEF InsideInv, KeptInv
    <3> QED
      BY <3>1, <3>2 DEF Onward
  <2>2. CASE Returns(c)
    BY <1>2, <2>2 DEF Returns, InsideInv, TypeInv, TypeOK
  <2>3. CASE Stores(c)
    <3>1. answer' = answer /\ pc[c] \in Asking /\ (pc' = pc \/ pc'[c] = Onward(pc[c]))
      BY <2>3 DEF Stores, Goto, InsideInv, TypeInv, TypeOK
    <3> QED
      BY <1>4, <3>1 DEF Onward, Asking
  <2>4. CASE Written(c)
    BY <1>4, <2>4 DEF Written
  <2>5. CASE Verified(c) \/ Unverified(c) \/ Member(c) \/ NotMember(c) \/ Raises(c) \/ Cancel(c)
    <3>1. \A r : Admitted(r) \notin {"save", "answered"}
      BY DEF Admitted
    <3> QED
      BY <2>5, <3>1 DEF Verified, Unverified, Member, NotMember, Raises, Cancel, Goto,
                        InsideInv, TypeInv, TypeOK
  <2> QED
    BY <2>1, <2>2, <2>3, <2>4, <2>5 DEF Step
<1>7. AnswerInv'
  <2> SUFFICES ASSUME NEW d \in Calls, pc'[d] \in {"save", "answered"}
               PROVE  Fits(answer[d], CacheKey(req[d]))'
    BY DEF AnswerInv
  <2>1. Fits(answer'[d], CacheKey(req[d]))
    BY <1>0, <1>3, <1>6 DEF InsideInv, AnswerInv
  <2> QED
    BY <1>0, <2>1, StaysMade DEF Fits, Made, CacheKey, Entitled, Own, Accepted
<1> QED
  BY <1>5, <1>7

LEMMA StepWork ==
  ASSUME InsideInv, TypeInv', NEW c \in Calls, Step(c) \/ Cancel(c)
  PROVE  WorkInv'
<1>0. /\ UNCHANGED req
      /\ \A d \in Calls : d # c => pc'[d] = pc[d] /\ answer'[d] = answer[d]
  <2>1. \A d \in Calls : d # c => answer'[d] = answer[d]
    BY DEF InsideInv, TypeInv, TypeOK, Step, Verified, Unverified, Member, NotMember,
           Stores, Read, Returns, Raises, Written, Cancel
  <2> QED
    BY <2>1, StepShape DEF InsideInv, TypeInv, TypeOK
<1> DEFINE Fine == /\ pc'[c] = "save" => Accepted(c)
                   /\ pc'[c] \in Asking => req[c].tool \notin Uncached
                   /\ pc'[c] = "answered" /\ req[c].tool \in Uncached => answer'[c] = c
<1>1. SUFFICES Fine
  BY <1>0 DEF InsideInv, WorkInv, Accepted
<1>2. CASE Verified(c) \/ Member(c)
  <2>1. pc'[c] \in {"denied", "member", Admitted(req[c])}
    BY <1>2 DEF Verified, Member, Goto, InsideInv, TypeInv, TypeOK
  <2>2. CASE pc'[c] \in {"denied", "member"}
    BY <2>2 DEF Asking
  <2>3. CASE pc'[c] = Admitted(req[c])
    BY <2>3 DEF Admitted, Straight, Asking
  <2> QED
    BY <2>1, <2>2, <2>3
<1>3. CASE Unverified(c) \/ NotMember(c) \/ Raises(c) \/ Cancel(c)
  BY <1>3 DEF Unverified, NotMember, Raises, Cancel, Goto, Asking, InsideInv, TypeInv, TypeOK
<1>4. CASE Stores(c) \/ Read(c) \/ Written(c)
  <2>1. pc[c] \in Asking
    BY <1>4 DEF Stores, Read, Written, Asking
  <2>2. pc'[c] = "save" => pc[c] = "save"
    BY <1>4 DEF Stores, Read, Written, Goto, Onward, InsideInv, TypeInv, TypeOK
  <2> QED
    BY <2>1, <2>2 DEF InsideInv, WorkInv
<1>5. CASE Returns(c)
  <2>1. /\ Accepted(c) /\ answer'[c] = c
        /\ pc'[c] = IF Straight(req[c]) THEN "answered" ELSE "save"
    BY <1>5 DEF Returns, Goto, InsideInv, TypeInv, TypeOK
  <2> QED
    BY <2>1 DEF Straight, Asking
<1> QED
  BY <1>2, <1>3, <1>4, <1>5 DEF Step

LEMMA ArriveInside ==
  ASSUME InsideInv, TypeInv', NEW c \in Calls, NEW r \in Inputs, Arrive(c, r)
  PROVE  InsideInv'
<1>0. /\ pc[c] = "new"
      /\ \A d \in Calls : d # c => pc'[d] = pc[d] /\ req'[d] = req[d] /\ seen'[d] = seen[d]
      /\ req'[c] = r /\ seen'[c] = members
      /\ UNCHANGED <<caller, answer, members, kept>>
      /\ pc'[c] \in {"refused", Checked(r)}
  BY DEF Arrive, Goto, storeVars, InsideInv, TypeInv, TypeOK
<1>1. \A d, k : Fits(d, k) =>
        d # c /\ Fits(d, k) /\ pc'[d] = pc[d] /\ req'[d] = req[d] /\ seen'[d] = seen[d]
  BY <1>0 DEF Fits, Made, Checks
<1>2. SeenInv'
  BY <1>0 DEF InsideInv, SeenInv
<1>3. EntitledInv'
  <2> SUFFICES ASSUME NEW d \in Calls
               PROVE  /\ pc'[d] \in Past => Entitled(d)'
                      /\ pc'[d] = "member" => caller'[d] # Nothing /\ Own(req[d], caller[d])'
    BY DEF EntitledInv
  <2>1. CASE d = c
    <3>1. pc'[c] # "member"
      BY <1>0 DEF Checked, Admitted
    <3>2. pc'[c] \in Past => r.tool \notin Privileged
      BY <1>0 DEF Checked, Past, Asking
    <3> QED
      BY <1>0, <2>1, <3>1, <3>2 DEF Entitled
  <2>2. CASE d # c
    BY <1>0, <2>2 DEF InsideInv, EntitledInv, Entitled, Own
  <2> QED
    BY <2>1, <2>2
<1>4. KeptInv'
  <2> SUFFICES ASSUME NEW k \in CacheKeys, kept[k] # Nothing
               PROVE  Fits(kept[k], k)'
    BY <1>0 DEF KeptInv
  <2> QED
    BY <1>0, <1>1 DEF InsideInv, KeptInv, Fits, Made, CacheKey, Entitled, Own, Accepted
<1>5. AnswerInv'
  <2> SUFFICES ASSUME NEW d \in Calls, pc'[d] \in {"save", "answered"}
               PROVE  Fits(answer[d], CacheKey(req[d]))'
    BY DEF AnswerInv
  <2>1. d # c
    BY <1>0 DEF Checked, Admitted
  <2>2. Fits(answer[d], CacheKey(req[d]))
    BY <1>0, <2>1 DEF InsideInv, AnswerInv
  <2> QED
    BY <1>0, <1>1, <2>1, <2>2 DEF Fits, Made, CacheKey, Entitled, Own, Accepted
<1>6. WorkInv'
  <2>1. /\ pc'[c] \notin {"save", "answered"}
        /\ pc'[c] \in Asking => r.tool \notin Uncached
    BY <1>0 DEF Checked, Admitted, Straight, Asking
  <2> QED
    BY <1>0, <2>1 DEF InsideInv, WorkInv, Accepted
<1> QED
  BY <1>2, <1>3, <1>4, <1>5, <1>6 DEF InsideInv

LEMMA WorldInside ==
  ASSUME InsideInv, TypeInv',
         \/ \E p \in Moving : Leaves(p) \/ Joins(p)
         \/ \E k \in CacheKeys : Expire(k) /\ UNCHANGED gateVars
         \/ Tick
         \/ UNCHANGED vars
  PROVE  InsideInv'
<1>0. /\ UNCHANGED <<pc, req, caller, answer>>
      /\ \A c \in Calls : seen[c] \subseteq seen'[c]
      /\ \A k \in CacheKeys : kept'[k] \in {kept[k], Nothing}
  <2>1. CASE \E p \in Moving : Leaves(p) \/ Joins(p)
    BY <2>1 DEF Leaves, Joins, storeVars, InsideInv, TypeInv, TypeOK
  <2>2. CASE \E k \in CacheKeys : Expire(k) /\ UNCHANGED gateVars
    BY <2>2 DEF Expire, gateVars, InsideInv, TypeInv, TypeOK
  <2>3. CASE Tick \/ UNCHANGED vars
    BY <2>3 DEF Tick, vars, gateVars, storeVars
  <2> QED
    BY <2>1, <2>2, <2>3
<1>1. SeenInv'
  <2>1. CASE \E p \in Moving : Leaves(p) \/ Joins(p)
    BY <2>1 DEF Leaves, Joins, InsideInv, SeenInv, TypeInv, TypeOK
  <2>2. CASE UNCHANGED <<pc, members, seen>>
    BY <2>2 DEF InsideInv, SeenInv
  <2> QED
    BY <2>1, <2>2 DEF Tick, vars, gateVars
<1>2. EntitledInv'
  BY <1>0, StaysEntitled DEF InsideInv, EntitledInv
<1>4. KeptInv'
  <2> SUFFICES ASSUME NEW k \in CacheKeys, kept'[k] # Nothing
               PROVE  Fits(kept[k], k)'
    BY DEF KeptInv
  <2>1. kept'[k] = kept[k] /\ Fits(kept[k], k)
    BY <1>0 DEF InsideInv, KeptInv
  <2> QED
    BY <1>0, <2>1 DEF Fits, Made, CacheKey, Entitled, Own, Accepted
<1>5. AnswerInv'
  <2> SUFFICES ASSUME NEW c \in Calls, pc[c] \in {"save", "answered"}
               PROVE  Fits(answer[c], CacheKey(req[c]))'
    BY <1>0 DEF AnswerInv
  <2>1. Fits(answer[c], CacheKey(req[c]))
    BY DEF InsideInv, AnswerInv
  <2> QED
    BY <1>0, <2>1 DEF Fits, Made, CacheKey, Entitled, Own, Accepted
<1>6. WorkInv'
  BY <1>0 DEF InsideInv, WorkInv, Accepted
<1> QED
  BY <1>1, <1>2, <1>4, <1>5, <1>6 DEF InsideInv

LEMMA InsideNext == InsideInv /\ [Next]_vars => InsideInv'
<1> SUFFICES ASSUME InsideInv, [Next]_vars PROVE InsideInv'
  OBVIOUS
<1>0. TypeInv'
  BY TypeNext DEF InsideInv
<1>1. ASSUME NEW c \in Calls, Step(c) \/ Cancel(c) PROVE InsideInv'
  <2>1. SeenInv'
    <3>1. UNCHANGED <<members, seen>> /\ \A d \in Calls : pc'[d] # "new" => pc[d] # "new"
      BY <1>1, StepShape DEF InsideInv, TypeInv, TypeOK
    <3> QED
      BY <3>1 DEF InsideInv, SeenInv
  <2> QED
    BY <1>0, <1>1, <2>1, StepEntitled, StepAnswers, StepWork DEF InsideInv
<1> QED
  BY <1>0, <1>1, ArriveInside, WorldInside DEF Next

\* Every answer was made for the same question, by a call that passed the
\* gate's checks and the backend's, and its caller passed those of the gate,
\* whatever the cache holds and whoever joins or leaves meanwhile
\* (privileged_tool_auth.py, run_cache_aside).
THEOREM EveryAnswerFits == Spec => []AnswersFit
<1>1. Init => InsideInv
  BY TypeInit
     DEF Init, StoreInit, InsideInv, SeenInv, EntitledInv, KeptInv, AnswerInv, WorkInv, Past, Asking
<1>2. InsideInv /\ [Next]_vars => InsideInv'
  BY InsideNext
<1>3. InsideInv => AnswersFit
  <2> SUFFICES ASSUME InsideInv, NEW c \in Calls, pc[c] = "answered"
               PROVE  /\ Entitled(c) /\ answer[c] # Nothing
                      /\ <<req[answer[c]].tool, req[answer[c]].user, req[answer[c]].tenant>>
                           = <<req[c].tool, req[c].user, req[c].tenant>>
                      /\ Entitled(answer[c]) /\ Accepted(answer[c])
                      /\ req[c].tool \in Uncached => answer[c] = c
    BY DEF AnswersFit
  <2>1. Fits(answer[c], CacheKey(req[c]))
    BY DEF InsideInv, AnswerInv
  <2>2. Entitled(c) /\ (req[c].tool \in Uncached => answer[c] = c)
    BY DEF InsideInv, EntitledInv, WorkInv, Past
  <2> QED
    BY <2>1, <2>2, GateAssumption DEF Fits, Made, CacheKey
<1> QED
  BY <1>1, <1>2, <1>3, PTL DEF Spec
===============================================================================
