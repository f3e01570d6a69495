-------------------------- MODULE CacheAsideProofs --------------------------
(***************************************************************************)
(* The safety of the coordinator, for any number of requests, keys and     *)
(* locks.  CoordInv is the inductive invariant of the lock queues and of   *)
(* the map; SteadyInv adds what the store says of the steady keys.         *)
(***************************************************************************)
EXTENDS CacheAside, SequenceTheorems, TLAPS

\* A request that has not entered singleflight has not created its lock.
Unborn(r) ==
  /\ lockOf[r] = Nobody
  /\ ~locked[r]
  /\ waiters[r] = <<>>
  /\ \A q \in Requests : lockOf[q] # r
  /\ \A k \in Keys : map[k] # r

FreshLocks == \A r \in Requests : pc[r] \in {"read", "missed"} => Unborn(r)

\* A lock is queued for by waiting requests, each of them once.
Queues ==
  \A l \in Requests : \A i \in 1..Len(waiters[l]) :
    /\ pc[waiters[l][i]] = "waiting"
    /\ lockOf[waiters[l][i]] = l
    /\ \A j \in 1..Len(waiters[l]) : waiters[l][i] = waiters[l][j] => i = j

\* Only the first waiter of a lock that is not locked is ever woken.
Wakeups ==
  \A r \in woken :
    /\ pc[r] = "waiting"
    /\ lockOf[r] \in Requests
    /\ ~locked[lockOf[r]]
    /\ waiters[lockOf[r]] # <<>>
    /\ waiters[lockOf[r]][1] = r

HoldersLock == \A r \in Requests :
  pc[r] \in Holding \cup {"waiting"} =>
    /\ lockOf[r] \in Requests
    /\ pc[r] \in Holding => locked[lockOf[r]]

\* A lock serves one key.
LocksOfKeys ==
  /\ \A r, q \in Requests :
       lockOf[r] # Nobody /\ lockOf[r] = lockOf[q] => KeyOf[r] = KeyOf[q]
  /\ \A r \in Requests, k \in Keys :
       lockOf[r] # Nobody /\ map[k] = lockOf[r] => KeyOf[r] = k
  /\ \A k, j \in Keys : map[k] # Nobody /\ map[k] = map[j] => k = j

CoordInv ==
  /\ TypeOK
  /\ FreshLocks
  /\ Queues
  /\ Wakeups
  /\ HoldersLock
  /\ LocksOfKeys
  /\ LockMutex
  /\ NoLostWakeup
  /\ MappedLockIsHeld

\* Until a steady key is cached, all its requests share the lock of the map,
\* and a loader runs only while the key is not cached.
SteadyInv ==
  \A r \in Requests :
    KeyOf[r] \in Steady =>
      /\ store[KeyOf[r]] = Nobody /\ lockOf[r] # Nobody => map[KeyOf[r]] = lockOf[r]
      /\ pc[r] \in {"load", "save"} => store[KeyOf[r]] = Nobody
      /\ result[r] = r => store[KeyOf[r]] = r

----------------------------------------------------------------------------

\* What removing the element at position i does to a sequence.
LEMMA RemoveAtFacts ==
  ASSUME NEW S, NEW s \in Seq(S), NEW i \in 1..Len(s)
  PROVE  /\ RemoveAt(s, i) \in Seq(S)
         /\ Len(RemoveAt(s, i)) = Len(s) - 1
         /\ \A j \in 1..(Len(s) - 1) :
              RemoveAt(s, i)[j] = IF j < i THEN s[j] ELSE s[j + 1]
  <1>1. SubSeq(s, 1, i - 1) \in Seq(S) /\ Len(SubSeq(s, 1, i - 1)) = i - 1
        /\ \A j \in 1..(i - 1) : SubSeq(s, 1, i - 1)[j] = s[j]
    BY SubSeqProperties
  <1>2. SubSeq(s, i + 1, Len(s)) \in Seq(S)
        /\ Len(SubSeq(s, i + 1, Len(s))) = Len(s) - i
        /\ \A j \in 1..(Len(s) - i) : SubSeq(s, i + 1, Len(s))[j] = s[i + j]
    BY SubSeqProperties
  <1> DEFINE a == SubSeq(s, 1, i - 1)
             b == SubSeq(s, i + 1, Len(s))
  <1>3. RemoveAt(s, i) = a \o b
    BY DEF RemoveAt
  <1> HIDE DEF a, b
  <1>4. /\ a \in Seq(S) /\ Len(a) = i - 1 /\ \A j \in 1..(i - 1) : a[j] = s[j]
        /\ b \in Seq(S) /\ Len(b) = Len(s) - i
        /\ \A j \in 1..(Len(s) - i) : b[j] = s[i + j]
    BY <1>1, <1>2 DEF a, b
  <1>5. /\ a \o b \in Seq(S)
        /\ Len(a \o b) = Len(a) + Len(b)
        /\ \A j \in 1..(Len(a) + Len(b)) :
             (a \o b)[j] = IF j <= Len(a) THEN a[j] ELSE b[j - Len(a)]
    BY <1>4, ConcatProperties
  <1>6. Len(s) \in Nat
    BY LenProperties
  <1>7. ASSUME NEW j \in 1..(Len(s) - 1)
        PROVE  (a \o b)[j] = IF j < i THEN s[j] ELSE s[j + 1]
    <2>1. CASE j < i
      BY <1>4, <1>5, <1>6, <2>1
    <2>2. CASE ~(j < i)
      <3>1. j - (i - 1) \in 1..(Len(s) - i) /\ i + (j - (i - 1)) = j + 1
        BY <1>6, <2>2
      <3>2. (a \o b)[j] = b[j - (i - 1)]
        BY <1>4, <1>5, <1>6, <2>2
      <3>3. b[j - (i - 1)] = s[i + (j - (i - 1))]
        BY <1>4, <3>1
      <3> QED BY <2>2, <3>1, <3>2, <3>3
    <2> QED BY <2>1, <2>2
  <1> QED
    BY <1>3, <1>4, <1>5, <1>6, <1>7

\* No entry of the map is ever idle, so entering the section evicts nothing.
LEMMA NothingEvicted ==
  ASSUME MappedLockIsHeld
  PROVE  Evicted = {}
  BY DEF MappedLockIsHeld, Evicted, Idle, Mapped

\* The invariant holds of the initial state.
LEMMA CoordInit == Init => CoordInv
  <1> SUFFICES ASSUME Init PROVE CoordInv
    OBVIOUS
  <1>1. TypeOK
    BY EmptySeq DEF Init, TypeOK, Places, ReqOrNobody
  <1>2. \A l \in Requests : waiters[l] = <<>> /\ Len(waiters[l]) = 0
    BY EmptySeq DEF Init
  <1>3. FreshLocks
    BY NobodyAssumption, <1>2 DEF Init, FreshLocks, Unborn
  <1> QED
    BY <1>1, <1>2, <1>3, NobodyAssumption, KeyAssumption
    DEF Init, CoordInv, Queues, Wakeups, HoldersLock, LocksOfKeys, LockMutex,
        NoLostWakeup, MappedLockIsHeld, Holding

\* Steps that move a request along without touching the coordinator.
LEMMA MovePreserves ==
  ASSUME CoordInv, TypeOK', NEW r \in Requests, NEW p \in Places,
         \/ pc[r] = "read" /\ p \in {"missed", "done"}
         \/ pc[r] \in Holding /\ p \in Holding,
         pc' = [pc EXCEPT ![r] = p], UNCHANGED coordVars
  PROVE  CoordInv'
  <1> USE DEF CoordInv, TypeOK, coordVars, Holding
  <1>1. FreshLocks'
    BY DEF FreshLocks, Unborn
  <1>2. Queues'
    <2> SUFFICES ASSUME NEW l \in Requests, NEW i \in 1..Len(waiters[l])
                 PROVE  /\ pc'[waiters[l][i]] = "waiting"
                        /\ lockOf[waiters[l][i]] = l
                        /\ \A j \in 1..Len(waiters[l]) :
                             waiters[l][i] = waiters[l][j] => i = j
      BY DEF Queues
    <2> waiters[l][i] \in Requests
      BY ElementOfSeq
    <2> QED BY DEF Queues
  <1>3. Wakeups'
    BY DEF Wakeups
  <1>4. HoldersLock' /\ LocksOfKeys' /\ LockMutex'
    BY DEF HoldersLock, LocksOfKeys, LockMutex
  <1>5. NoLostWakeup' /\ MappedLockIsHeld'
    BY DEF NoLostWakeup, MappedLockIsHeld
  <1> QED BY <1>1, <1>2, <1>3, <1>4, <1>5

\* A holder releases its lock, wakes the next request and pops the key.
LEMMA LeavePreserves ==
  ASSUME CoordInv, TypeOK', NEW r \in Requests, NEW p \in Ended,
         pc[r] \in Holding, pc' = [pc EXCEPT ![r] = p], Leave(r)
  PROVE  CoordInv'
  <1> DEFINE l == lockOf[r]
  <1> USE DEF CoordInv, TypeOK, Holding, Ended
  <1>1. /\ l \in Requests /\ locked[l]
        /\ map' = [map EXCEPT ![KeyOf[r]] = Nobody]
        /\ locked' = [locked EXCEPT ![l] = FALSE]
        /\ lockOf' = [lockOf EXCEPT ![r] = Nobody]
        /\ woken' = woken \cup FirstWoken(waiters[l])
        /\ UNCHANGED <<waiters, cancelled>>
    BY DEF HoldersLock, Leave
  <1>2. \A q \in woken : q \in Requests /\ lockOf[q] # l /\ q # r
    BY <1>1 DEF Wakeups
  <1>3. \A q \in Requests : pc[q] \in Holding /\ q # r => lockOf[q] # l
    BY <1>1 DEF LockMutex
  <1>4. FirstWoken(waiters[l]) \subseteq {waiters[l][1]}
        /\ (waiters[l] = <<>> => FirstWoken(waiters[l]) = {})
    BY <1>1 DEF FirstWoken
  <1>5. waiters[l] # <<>> =>
          /\ waiters[l][1] \in Requests
          /\ pc[waiters[l][1]] = "waiting"
          /\ lockOf[waiters[l][1]] = l
    <2> HAVE waiters[l] # <<>>
    <2> 1 \in 1..Len(waiters[l])
      BY <1>1, EmptySeq, LenProperties
    <2> QED BY <1>1, ElementOfSeq DEF Queues
  <1>6. FreshLocks'
    BY <1>1, NobodyAssumption DEF FreshLocks, Unborn
  <1>7. Queues'
    <2> SUFFICES ASSUME NEW m \in Requests, NEW i \in 1..Len(waiters[m])
                 PROVE  /\ pc'[waiters[m][i]] = "waiting"
                        /\ lockOf'[waiters[m][i]] = m
                        /\ \A j \in 1..Len(waiters[m]) :
                             waiters[m][i] = waiters[m][j] => i = j
      BY <1>1 DEF Queues
    <2> waiters[m][i] \in Requests
      BY ElementOfSeq
    <2> QED BY <1>1 DEF Queues
  <1>8. Wakeups'
    BY <1>1, <1>2, <1>4, <1>5 DEF Wakeups
  <1>9. HoldersLock'
    BY <1>1, <1>3 DEF HoldersLock
  <1>10. LocksOfKeys'
    BY <1>1 DEF LocksOfKeys
  <1>11. LockMutex'
    BY <1>1 DEF LockMutex
  <1>12. NoLostWakeup'
    BY <1>1 DEF NoLostWakeup, FirstWoken
  <1>13. MappedLockIsHeld'
    BY <1>1, KeyAssumption, NobodyAssumption DEF MappedLockIsHeld, LocksOfKeys, ReqOrNobody
  <1> QED
    BY <1>6, <1>7, <1>8, <1>9, <1>10, <1>11, <1>12, <1>13

\* Queueing request r on lock l: what the longer queue holds.
LEMMA EnqueueFacts ==
  ASSUME CoordInv, NEW r \in Requests, pc[r] # "waiting", NEW l \in Requests
  PROVE  LET w == Append(waiters[l], r)
         IN  \A j \in 1..Len(w) :
               /\ \/ w[j] = r
                  \/ w[j] \in Requests /\ pc[w[j]] = "waiting" /\ lockOf[w[j]] = l
               /\ \A m \in 1..Len(w) : w[j] = w[m] => j = m
  <1> DEFINE s == waiters[l]
             n == Len(s)
             w == Append(s, r)
  <1>1. s \in Seq(Requests) /\ n \in Nat
    BY LenProperties DEF CoordInv, TypeOK
  <1>2. Len(w) = n + 1 /\ w[n + 1] = r /\ \A j \in 1..n : w[j] = s[j]
    BY <1>1, AppendProperties
  <1>3. \A j \in 1..n : /\ s[j] \in Requests /\ s[j] # r
                       /\ pc[s[j]] = "waiting" /\ lockOf[s[j]] = l
                       /\ \A m \in 1..n : s[j] = s[m] => j = m
    BY <1>1, ElementOfSeq DEF CoordInv, Queues
  <1> SUFFICES \A j \in 1..Len(w) :
                 /\ \/ w[j] = r
                    \/ w[j] \in Requests /\ pc[w[j]] = "waiting" /\ lockOf[w[j]] = l
                 /\ \A m \in 1..Len(w) : w[j] = w[m] => j = m
    OBVIOUS
  <1> HIDE DEF s, n, w
  <1>4. \A j \in 1..(n + 1) : j = n + 1 \/ j \in 1..n
    BY <1>1
  <1> QED
    BY <1>2, <1>3, <1>4

\* Entering singleflight: the lock is new and free, or the one in the map,
\* which is held, so that the request queues.
LEMMA EnterPreserves ==
  ASSUME CoordInv, TypeOK', NEW r \in Requests, Enter(r)
  PROVE  CoordInv'
  <1> DEFINE k == KeyOf[r]
  <1> USE DEF CoordInv, TypeOK, Holding
  <1>1. k \in Keys /\ pc[r] = "missed" /\ Unborn(r)
        /\ UNCHANGED <<result, store, woken, cancelled>>
    BY KeyAssumption DEF Enter, FreshLocks
  <1>2. [j \in Keys |-> IF j \in Evicted THEN Nobody ELSE map[j]] = map
    BY NothingEvicted
  <1>3. CASE map[k] = Nobody
    <2>1. /\ map' = [map EXCEPT ![k] = r]
          /\ lockOf' = [lockOf EXCEPT ![r] = r]
          /\ locked' = [locked EXCEPT ![r] = TRUE]
          /\ pc' = [pc EXCEPT ![r] = "reread"]
          /\ UNCHANGED waiters
      <3> Free(r)
        BY <1>1, EmptySeq, LenProperties DEF Free, Unborn
      <3> QED BY <1>1, <1>2, <1>3 DEF Enter
    <2>2. \A q \in woken : q \in Requests /\ q # r /\ lockOf[q] # r
      BY <1>1 DEF Wakeups, Unborn
    <2>3. FreshLocks'
      BY <1>1, <2>1 DEF FreshLocks, Unborn
    <2>4. Queues'
      <3> SUFFICES ASSUME NEW m \in Requests, NEW i \in 1..Len(waiters[m])
                   PROVE  /\ pc'[waiters[m][i]] = "waiting"
                          /\ lockOf'[waiters[m][i]] = m
                          /\ \A j \in 1..Len(waiters[m]) :
                               waiters[m][i] = waiters[m][j] => i = j
        BY <2>1 DEF Queues
      <3> waiters[m][i] \in Requests
        BY ElementOfSeq
      <3> QED BY <1>1, <2>1 DEF Queues
    <2>5. Wakeups'
      BY <1>1, <2>1, <2>2 DEF Wakeups
    <2>6. HoldersLock' /\ LockMutex'
      BY <1>1, <2>1 DEF HoldersLock, LockMutex, Unborn
    <2>7. LocksOfKeys'
      BY <1>1, <2>1, KeyAssumption DEF LocksOfKeys, Unborn
    <2>8. NoLostWakeup' /\ MappedLockIsHeld'
      BY <1>1, <2>1 DEF NoLostWakeup, MappedLockIsHeld, Unborn
    <2> QED BY <2>3, <2>4, <2>5, <2>6, <2>7, <2>8
  <1>4. CASE map[k] # Nobody
    <2> DEFINE l == map[k]
    <2>1. /\ l \in Requests /\ locked[l] /\ l # r
          /\ map' = map
          /\ lockOf' = [lockOf EXCEPT ![r] = l]
          /\ waiters' = [waiters EXCEPT ![l] = Append(waiters[l], r)]
          /\ pc' = [pc EXCEPT ![r] = "waiting"]
          /\ UNCHANGED locked
      <3>1. l \in Requests /\ locked[l] /\ l # r
        BY <1>1, <1>4 DEF MappedLockIsHeld, Unborn, ReqOrNobody
      <3>2. ~Free(l)
        BY <3>1 DEF Free
      <3>3. map' = [map EXCEPT ![k] = map[k]]
        BY <1>2, <1>4 DEF Enter
      <3> QED BY <1>1, <1>2, <1>4, <3>1, <3>2, <3>3 DEF Enter
    <2>2. \A j \in 1..Len(waiters'[l]) :
            /\ \/ waiters'[l][j] = r
               \/ /\ waiters'[l][j] \in Requests
                  /\ pc[waiters'[l][j]] = "waiting"
                  /\ lockOf[waiters'[l][j]] = l
            /\ \A m \in 1..Len(waiters'[l]) : waiters'[l][j] = waiters'[l][m] => j = m
      <3>1. waiters'[l] = Append(waiters[l], r) /\ pc[r] # "waiting"
        BY <1>1, <2>1
      <3>2. CoordInv
        OBVIOUS
      <3> DEFINE w == Append(waiters[l], r)
      <3>3. \A j \in 1..Len(w) :
              /\ \/ w[j] = r
                 \/ w[j] \in Requests /\ pc[w[j]] = "waiting" /\ lockOf[w[j]] = l
              /\ \A m \in 1..Len(w) : w[j] = w[m] => j = m
        <4>1. w = Append(waiters[l], r) /\ l \in Requests /\ pc[r] # "waiting"
          BY <2>1, <3>1
        <4> HIDE DEF CoordInv, TypeOK, l
        <4> QED BY <3>2, <4>1, EnqueueFacts
      <3> HIDE DEF w
      <3>4. waiters'[l] = w
        BY <3>1 DEF w
      <3> QED BY <3>3, <3>4
    <2>3. \A m \in Requests : \A i \in 1..Len(waiters[m]) :
            waiters[m][i] \in Requests /\ waiters[m][i] # r
      BY <1>1, ElementOfSeq DEF Queues
    <2>4. \A q \in woken : q \in Requests /\ q # r /\ lockOf[q] # l
      BY <1>1, <2>1 DEF Wakeups
    <2>5. FreshLocks'
      BY <1>1, <2>1 DEF FreshLocks, Unborn
    <2>6. Queues'
      <3> SUFFICES ASSUME NEW m \in Requests, NEW i \in 1..Len(waiters'[m])
                   PROVE  /\ pc'[waiters'[m][i]] = "waiting"
                          /\ lockOf'[waiters'[m][i]] = m
                          /\ \A j \in 1..Len(waiters'[m]) :
                               waiters'[m][i] = waiters'[m][j] => i = j
        BY DEF Queues
      <3>1. CASE m # l
        BY <1>1, <2>1, <2>3, <3>1 DEF Queues
      <3>2. CASE m = l
        <4>1. CASE waiters'[l][i] = r
          <5>1. pc'[r] = "waiting" /\ lockOf'[r] = l
            BY <2>1
          <5> QED BY <2>2, <3>2, <4>1, <5>1
        <4>2. CASE waiters'[l][i] # r
          <5>1. /\ waiters'[l][i] \in Requests
                /\ pc[waiters'[l][i]] = "waiting"
                /\ lockOf[waiters'[l][i]] = l
            BY <2>2, <3>2, <4>2
          <5>2. /\ pc'[waiters'[l][i]] = "waiting"
                /\ lockOf'[waiters'[l][i]] = l
            BY <2>1, <4>2, <5>1
          <5> QED BY <2>2, <3>2, <5>2
        <4> QED BY <4>1, <4>2
      <3> QED BY <3>1, <3>2
    <2>7. Wakeups'
      BY <1>1, <2>1, <2>4 DEF Wakeups
    <2>8. HoldersLock' /\ LockMutex'
      BY <1>1, <2>1 DEF HoldersLock, LockMutex
    <2>9. LocksOfKeys'
      BY <1>1, <2>1, KeyAssumption, NobodyAssumption DEF LocksOfKeys, Unborn
    <2>10. NoLostWakeup' /\ MappedLockIsHeld'
      BY <1>1, <2>1 DEF NoLostWakeup, MappedLockIsHeld
    <2> QED BY <2>5, <2>6, <2>7, <2>8, <2>9, <2>10
  <1> QED BY <1>3, <1>4

\* Dequeuing request r from its lock: what is left of the queue.
LEMMA DequeueFacts ==
  ASSUME CoordInv, NEW r \in Requests, pc[r] = "waiting",
         NEW i \in DOMAIN waiters[lockOf[r]], waiters[lockOf[r]][i] = r,
         NEW w, w = RemoveAt(waiters[lockOf[r]], i)
  PROVE  /\ lockOf[r] \in Requests
         /\ w \in Seq(Requests)
         /\ Len(w) = Len(waiters[lockOf[r]]) - 1
         /\ \A j \in 1..Len(w) :
              /\ w[j] \in Requests
              /\ w[j] # r
              /\ pc[w[j]] = "waiting"
              /\ lockOf[w[j]] = lockOf[r]
              /\ \A m \in 1..Len(w) : w[j] = w[m] => j = m
         /\ i # 1 => w # <<>> /\ w[1] = waiters[lockOf[r]][1]
  <1> DEFINE s == waiters[lockOf[r]]
  <1>1. lockOf[r] \in Requests /\ s \in Seq(Requests) /\ i \in 1..Len(s)
        /\ Len(s) \in Nat
    BY LenProperties DEF CoordInv, TypeOK, HoldersLock
  <1>2. /\ w \in Seq(Requests)
        /\ Len(w) = Len(s) - 1
        /\ \A j \in 1..(Len(s) - 1) : w[j] = IF j < i THEN s[j] ELSE s[j + 1]
    BY <1>1, RemoveAtFacts
  <1>3. \A j \in 1..Len(s) :
          /\ s[j] \in Requests
          /\ pc[s[j]] = "waiting"
          /\ lockOf[s[j]] = lockOf[r]
          /\ \A m \in 1..Len(s) : s[j] = s[m] => j = m
    BY <1>1, ElementOfSeq DEF CoordInv, Queues
  <1> DEFINE at(j) == IF j < i THEN j ELSE j + 1
  <1>4. ASSUME NEW j \in 1..Len(w)
        PROVE  at(j) \in 1..Len(s) /\ at(j) # i /\ w[j] = s[at(j)]
    <2>1. j \in 1..(Len(s) - 1) /\ j \in Int /\ i \in Int /\ Len(s) \in Nat
      BY <1>1, <1>2
    <2>2. at(j) \in 1..Len(s) /\ at(j) # i
      BY <1>1, <2>1
    <2> QED BY <1>2, <2>1, <2>2
  <1>5. ASSUME NEW j \in 1..Len(w), NEW m \in 1..Len(w), at(j) = at(m)
        PROVE  j = m
    <2> j \in Int /\ m \in Int /\ i \in Int
      BY <1>1, <1>2
    <2> QED BY <1>5
  <1>6. i # 1 => w # <<>> /\ w[1] = s[1]
    <2> HAVE i # 1
    <2>1. Len(w) # 0 /\ 1 \in 1..(Len(s) - 1) /\ 1 < i
      BY <1>1, <1>2
    <2>2. w # <<>>
      BY <2>1, EmptySeq
    <2> QED BY <1>2, <2>1, <2>2
  <1> HIDE DEF at
  <1>7. s[i] = r
    OBVIOUS
  <1> HIDE DEF s
  <1>8. ASSUME NEW j \in 1..Len(w)
        PROVE  /\ w[j] \in Requests
               /\ w[j] # r
               /\ pc[w[j]] = "waiting"
               /\ lockOf[w[j]] = lockOf[r]
    BY <1>1, <1>3, <1>4, <1>7
  <1>9. ASSUME NEW j \in 1..Len(w), NEW m \in 1..Len(w), w[j] = w[m]
        PROVE  j = m
    BY <1>3, <1>4, <1>5, <1>9
  <1> QED
    BY <1>1, <1>2, <1>6, <1>8, <1>9 DEF s

\* A woken waiter takes its lock.
LEMMA ResumePreserves ==
  ASSUME CoordInv, TypeOK', NEW r \in Requests, Resume(r)
  PROVE  CoordInv'
  <1> DEFINE l == lockOf[r]
  <1> USE DEF CoordInv, TypeOK, Holding
  <1>1. PICK i \in DOMAIN waiters[l] :
          /\ waiters[l][i] = r
          /\ waiters' = [waiters EXCEPT ![l] = RemoveAt(waiters[l], i)]
    BY DEF Resume
  <1> DEFINE w == RemoveAt(waiters[l], i)
  <1>2. /\ pc[r] = "waiting" /\ r \in woken
        /\ l \in Requests /\ ~locked[l] /\ waiters[l][1] = r
        /\ locked' = [locked EXCEPT ![l] = TRUE]
        /\ woken' = woken \ {r}
        /\ pc' = [pc EXCEPT ![r] = "reread"]
        /\ UNCHANGED <<result, store, map, older, lockOf, cancelled>>
    BY DEF Resume, Wakeups
  <1>3. /\ waiters' = [waiters EXCEPT ![l] = w]
        /\ \A j \in 1..Len(w) :
              /\ w[j] \in Requests
              /\ w[j] # r
              /\ pc[w[j]] = "waiting"
              /\ lockOf[w[j]] = l
              /\ \A m \in 1..Len(w) : w[j] = w[m] => j = m
    <2>1. CoordInv
      OBVIOUS
    <2>2. w = RemoveAt(waiters[l], i)
      OBVIOUS
    <2> HIDE DEF w, CoordInv, TypeOK
    <2> QED BY <1>1, <1>2, <2>1, <2>2, DequeueFacts
  <1> HIDE DEF w
  <1>4. \A q \in woken : q # r => q \in Requests /\ lockOf[q] # l
    BY <1>2 DEF Wakeups
  <1>5. FreshLocks'
    BY <1>2, <1>3 DEF FreshLocks, Unborn
  <1>6. Queues'
    <2> SUFFICES ASSUME NEW m \in Requests, NEW j \in 1..Len(waiters'[m])
                 PROVE  /\ pc'[waiters'[m][j]] = "waiting"
                        /\ lockOf'[waiters'[m][j]] = m
                        /\ \A h \in 1..Len(waiters'[m]) :
                             waiters'[m][j] = waiters'[m][h] => j = h
      BY DEF Queues
    <2>1. CASE m = l
      BY <1>2, <1>3, <2>1
    <2>2. CASE m # l
      <3>1. waiters'[m] = waiters[m] /\ waiters[m][j] \in Requests
        BY <1>3, <2>2, ElementOfSeq
      <3>2. /\ pc[waiters[m][j]] = "waiting"
            /\ lockOf[waiters[m][j]] = m
            /\ \A h \in 1..Len(waiters[m]) : waiters[m][j] = waiters[m][h] => j = h
        BY <3>1 DEF Queues
      <3>3. waiters[m][j] # r
        BY <2>2, <3>2
      <3> QED BY <1>2, <3>1, <3>2, <3>3
    <2> QED BY <2>1, <2>2
  <1>7. Wakeups'
    BY <1>2, <1>3, <1>4 DEF Wakeups
  <1>8. HoldersLock' /\ LocksOfKeys'
    BY <1>2 DEF HoldersLock, LocksOfKeys
  <1>9. LockMutex'
    BY <1>2 DEF LockMutex, HoldersLock
  <1>10. NoLostWakeup'
    <2> SUFFICES ASSUME NEW m \in Requests, ~locked'[m], waiters'[m] # <<>>
                 PROVE  Head(waiters'[m]) \in woken' \cup cancelled'
      BY DEF NoLostWakeup
    <2>1. m # l /\ waiters'[m] = waiters[m] /\ ~locked[m]
      BY <1>2, <1>3
    <2>2. 1 \in 1..Len(waiters[m]) /\ Head(waiters[m]) = waiters[m][1]
      BY <2>1, EmptySeq, LenProperties
    <2>3. lockOf[waiters[m][1]] = m
      BY <2>2 DEF Queues
    <2> QED BY <1>2, <2>1, <2>2, <2>3 DEF NoLostWakeup
  <1>11. MappedLockIsHeld'
    BY <1>2 DEF MappedLockIsHeld
  <1> QED
    BY <1>5, <1>6, <1>7, <1>8, <1>9, <1>10, <1>11

\* A cancelled waiter leaves its queue and passes a wake-up on.
LEMMA LeaveQueuePreserves ==
  ASSUME CoordInv, TypeOK', NEW r \in Requests, LeaveQueue(r)
  PROVE  CoordInv'
  <1> DEFINE l == lockOf[r]
             K == IF locked[l] THEN {} ELSE {KeyOf[r]}
  <1> USE DEF CoordInv, TypeOK, Holding
  <1>1. PICK i \in DOMAIN waiters[l] :
          /\ waiters[l][i] = r
          /\ waiters' = [waiters EXCEPT ![l] = RemoveAt(waiters[l], i)]
    BY DEF LeaveQueue
  <1> DEFINE w == RemoveAt(waiters[l], i)
  <1>2. /\ pc[r] = "waiting" /\ l \in Requests
        /\ woken' = (woken \ {r})
                       \cup (IF locked[l] THEN {} ELSE FirstWoken(waiters'[l]))
        /\ cancelled' = cancelled \ {r}
        /\ map' = [j \in Keys |-> IF j \in K THEN Nobody ELSE map[j]]
        /\ lockOf' = [lockOf EXCEPT ![r] = Nobody]
        /\ pc' = [pc EXCEPT ![r] = "failed"]
        /\ UNCHANGED <<result, store, locked>>
    BY DEF LeaveQueue, HoldersLock
  <1>3. /\ waiters' = [waiters EXCEPT ![l] = w]
        /\ w \in Seq(Requests)
        /\ Len(w) = Len(waiters[l]) - 1
        /\ \A j \in 1..Len(w) :
              /\ w[j] \in Requests
              /\ w[j] # r
              /\ pc[w[j]] = "waiting"
              /\ lockOf[w[j]] = l
              /\ \A m \in 1..Len(w) : w[j] = w[m] => j = m
        /\ i # 1 => w # <<>> /\ w[1] = waiters[l][1]
    BY <1>1, <1>2, DequeueFacts
  <1>4. waiters'[l] = w /\ \A m \in Requests : m # l => waiters'[m] = waiters[m]
    BY <1>2, <1>3
  <1> HIDE DEF w
  <1>5. w # <<>> => w[1] \in Requests /\ w[1] # r /\ pc[w[1]] = "waiting" /\ lockOf[w[1]] = l
    <2> HAVE w # <<>>
    <2> 1 \in 1..Len(w)
      BY <1>3, EmptySeq, LenProperties
    <2> QED BY <1>3
  <1>6. FirstWoken(w) \subseteq {w[1]} /\ (w = <<>> => FirstWoken(w) = {})
    BY <1>3 DEF FirstWoken
  <1>7. \A q \in woken : q # r /\ lockOf[q] = l => w # <<>> /\ w[1] = q
    BY <1>1, <1>2, <1>3 DEF Wakeups
  <1>8. FreshLocks'
    BY <1>2, <1>4, NobodyAssumption DEF FreshLocks, Unborn
  <1>9. Queues'
    <2> SUFFICES ASSUME NEW m \in Requests, NEW j \in 1..Len(waiters'[m])
                 PROVE  /\ pc'[waiters'[m][j]] = "waiting"
                        /\ lockOf'[waiters'[m][j]] = m
                        /\ \A h \in 1..Len(waiters'[m]) :
                             waiters'[m][j] = waiters'[m][h] => j = h
      BY DEF Queues
    <2>1. CASE m = l
      BY <1>2, <1>3, <1>4, <2>1
    <2>2. CASE m # l
      <3>1. waiters'[m] = waiters[m] /\ waiters[m][j] \in Requests
        BY <1>4, <2>2, ElementOfSeq
      <3> QED BY <1>2, <2>2, <3>1 DEF Queues
    <2> QED BY <2>1, <2>2
  <1>10. Wakeups'
    <2> SUFFICES ASSUME NEW q \in woken'
                 PROVE  /\ pc'[q] = "waiting"
                        /\ lockOf'[q] \in Requests
                        /\ ~locked'[lockOf'[q]]
                        /\ waiters'[lockOf'[q]] # <<>>
                        /\ waiters'[lockOf'[q]][1] = q
      BY DEF Wakeups
    <2>1. CASE q \in woken \ {r} /\ lockOf[q] # l
      BY <1>2, <1>4, <2>1 DEF Wakeups
    <2>2. CASE q \in woken \ {r} /\ lockOf[q] = l
      BY <1>2, <1>4, <1>7, <2>2 DEF Wakeups
    <2>3. CASE ~locked[l] /\ w # <<>> /\ q = w[1]
      BY <1>2, <1>4, <1>5, <2>3
    <2> QED BY <1>2, <1>4, <1>6, <2>1, <2>2, <2>3
  <1>11. HoldersLock' /\ LockMutex'
    BY <1>2 DEF HoldersLock, LockMutex
  <1>12. LocksOfKeys'
    BY <1>2, NobodyAssumption DEF LocksOfKeys
  <1>13. NoLostWakeup'
    <2> SUFFICES ASSUME NEW m \in Requests, ~locked'[m], waiters'[m] # <<>>
                 PROVE  Head(waiters'[m]) \in woken' \cup cancelled'
      BY DEF NoLostWakeup
    <2>1. CASE m = l
      <3>1. Head(w) = w[1] /\ Head(w) # r
        BY <1>4, <1>5, <2>1
      <3> QED BY <1>2, <1>4, <2>1, <3>1 DEF FirstWoken
    <2>2. CASE m # l
      <3>1. Head(waiters[m]) # r
        <4>1. 1 \in 1..Len(waiters[m]) /\ Head(waiters[m]) = waiters[m][1]
          BY <1>4, <2>2, EmptySeq, LenProperties
        <4>2. lockOf[waiters[m][1]] = m
          BY <4>1 DEF Queues
        <4> QED BY <2>2, <4>1, <4>2
      <3> QED BY <1>2, <1>4, <2>2, <3>1 DEF NoLostWakeup
    <2> QED BY <2>1, <2>2
  <1>14. MappedLockIsHeld'
    BY <1>2, NobodyAssumption DEF MappedLockIsHeld
  <1> QED
    BY <1>8, <1>9, <1>10, <1>11, <1>12, <1>13, <1>14

\* Only the caller of a waiting task is concerned by its cancellation.
LEMMA CancelPreserves ==
  ASSUME CoordInv, TypeOK', NEW r \in Requests, CancelWaiter(r)
  PROVE  CoordInv'
  <1>1. /\ pc[r] = "waiting"
        /\ cancelled' = cancelled \cup {r}
        /\ UNCHANGED <<pc, map, lockOf, locked, waiters, woken>>
    BY DEF CancelWaiter
  <1>2. FreshLocks' /\ Queues' /\ Wakeups' /\ HoldersLock' /\ LocksOfKeys'
    BY <1>1 DEF CoordInv, FreshLocks, Unborn, Queues, Wakeups, HoldersLock, LocksOfKeys
  <1>3. LockMutex' /\ NoLostWakeup' /\ MappedLockIsHeld'
    BY <1>1 DEF CoordInv, LockMutex, NoLostWakeup, MappedLockIsHeld
  <1> QED
    BY <1>2, <1>3 DEF CoordInv

\* Every variable keeps its type; entering creates a lock or finds one.
LEMMA TypeStep == TypeOK /\ HoldersLock /\ [Next]_vars => TypeOK'
  <1> SUFFICES ASSUME TypeOK, HoldersLock, [Next]_vars PROVE TypeOK'
    OBVIOUS
  <1> USE KeyAssumption DEF TypeOK, Places, Holding, Ended, ReqOrNobody
  <1>1. ASSUME NEW r \in Requests, Enter(r)
        PROVE  TypeOK'
    <2> DEFINE k == KeyOf[r]
               kept == [j \in Keys |-> IF j \in Evicted THEN Nobody ELSE map[j]]
               l == IF kept[k] = Nobody THEN r ELSE kept[k]
    <2>1. k \in Keys /\ kept \in [Keys -> ReqOrNobody] /\ l \in Requests
      OBVIOUS
    <2>2. map' = [kept EXCEPT ![k] = l] /\ lockOf' = [lockOf EXCEPT ![r] = l]
          /\ UNCHANGED <<result, store, woken, cancelled>>
      BY <1>1 DEF Enter
    <2>3. map' \in [Keys -> ReqOrNobody] /\ lockOf' \in [Requests -> ReqOrNobody]
      BY <2>1, <2>2
    <2>4. older' \in SUBSET (Keys \X Keys)
      <3>1. older' = Without(Evicted \cup {k})
                       \cup {<<j, k>> : j \in (Mapped \ Evicted) \ {k}}
        BY <1>1 DEF Enter
      <3>2. Without(Evicted \cup {k}) \subseteq Keys \X Keys /\ Mapped \subseteq Keys
        BY DEF Without, Mapped
      <3>3. \A j \in Mapped : <<j, k>> \in Keys \X Keys
        BY <2>1, <3>2
      <3> HIDE DEF k, TypeOK
      <3>4. {<<j, k>> : j \in (Mapped \ Evicted) \ {k}} \subseteq Keys \X Keys
        BY <3>3
      <3> QED BY <3>1, <3>2, <3>4
    <2>5. /\ locked' \in [Requests -> BOOLEAN]
          /\ waiters' \in [Requests -> Seq(Requests)]
          /\ pc' \in [Requests -> Places]
      <3> HIDE DEF kept
      <3>1. Append(waiters[l], r) \in Seq(Requests)
        BY <2>1, AppendProperties
      <3> HIDE DEF l
      <3>2. \/ /\ locked' = [locked EXCEPT ![l] = TRUE]
               /\ pc' = [pc EXCEPT ![r] = "reread"]
               /\ waiters' = waiters
            \/ /\ waiters' = [waiters EXCEPT ![l] = Append(waiters[l], r)]
               /\ pc' = [pc EXCEPT ![r] = "waiting"]
               /\ locked' = locked
        BY <1>1 DEF Enter, kept, l
      <3>3. locked' \in [Requests -> BOOLEAN]
        BY <2>1, <3>2
      <3>4. waiters' \in [Requests -> Seq(Requests)]
        BY <2>1, <3>1, <3>2
      <3>5. pc' \in [Requests -> Places]
        BY <3>2
      <3> QED BY <3>3, <3>4, <3>5
    <2> QED BY <2>2, <2>3, <2>4, <2>5
  <1>2. ASSUME NEW r \in Requests, pc[r] \in Holding, Leave(r)
        PROVE  /\ map' \in [Keys -> ReqOrNobody]
               /\ older' \in SUBSET (Keys \X Keys)
               /\ lockOf' \in [Requests -> ReqOrNobody]
               /\ locked' \in [Requests -> BOOLEAN]
               /\ waiters' \in [Requests -> Seq(Requests)]
               /\ woken' \in SUBSET Requests
               /\ cancelled' \in SUBSET Requests
    <2>1. lockOf[r] \in Requests /\ waiters[lockOf[r]] \in Seq(Requests)
      BY <1>2 DEF HoldersLock
    <2>2. FirstWoken(waiters[lockOf[r]]) \in SUBSET Requests
      BY <2>1 DEF FirstWoken
    <2> QED BY <1>2, <2>1, <2>2 DEF Leave, Without
  <1>10. ASSUME NEW l \in ReqOrNobody, NEW i \in DOMAIN waiters[l],
                waiters' = [waiters EXCEPT ![l] = RemoveAt(waiters[l], i)]
         PROVE  waiters' \in [Requests -> Seq(Requests)]
    <2>1. CASE l \in Requests
      <3> i \in 1..Len(waiters[l])
        BY <2>1
      <3> QED BY <1>10, <2>1, RemoveAtFacts
    <2>2. CASE l \notin Requests
      BY <1>10, <2>2
    <2> QED BY <2>1, <2>2
  <1>11. ASSUME NEW r \in Requests
         PROVE  lockOf[r] \in ReqOrNobody
    OBVIOUS
  <1>3. ASSUME NEW r \in Requests, Resume(r)
        PROVE  TypeOK'
    BY <1>3, <1>10 DEF Resume
  <1>4. ASSUME NEW r \in Requests, LeaveQueue(r)
        PROVE  TypeOK'
    <2>1. waiters' \in [Requests -> Seq(Requests)]
      BY <1>4, <1>10 DEF LeaveQueue
    <2>2. woken' \in SUBSET Requests /\ older' \in SUBSET (Keys \X Keys)
      <3>1. waiters'[lockOf[r]] # <<>> => Head(waiters'[lockOf[r]]) \in Requests
        BY <2>1, <1>4, <1>11 DEF LeaveQueue
      <3> QED BY <1>4, <3>1 DEF LeaveQueue, Without, FirstWoken
    <2> QED BY <1>4, <2>1, <2>2 DEF LeaveQueue
  <1>5. ASSUME NEW r \in Requests, FastHit(r) \/ FastMiss(r) \/ LockedMiss(r) \/ Loaded(r)
        PROVE  TypeOK'
    BY <1>5 DEF FastHit, FastMiss, LockedMiss, Loaded, Return, coordVars
  <1>6. ASSUME NEW r \in Requests,
               LockedHit(r) \/ LoadedTooLarge(r) \/ LoadFailed(r) \/ Saved(r) \/ Abort(r)
        PROVE  TypeOK'
    <2>1. pc[r] \in Holding /\ Leave(r) /\ KeyOf[r] \in Keys
      BY <1>6 DEF LockedHit, LoadedTooLarge, LoadFailed, Saved, Abort
    <2>2. \E p \in Ended : pc' = [pc EXCEPT ![r] = p]
      BY <1>6 DEF LockedHit, LoadedTooLarge, LoadFailed, Saved, Abort, Return
    <2>3. \E v \in ReqOrNobody : result' = [result EXCEPT ![r] = v]
      BY <1>6, <2>1 DEF LockedHit, LoadedTooLarge, LoadFailed, Saved, Abort, Return
    <2>4. \E v \in ReqOrNobody : store' = [store EXCEPT ![KeyOf[r]] = v]
      BY <1>6, <2>1 DEF LockedHit, LoadedTooLarge, LoadFailed, Saved, Abort
    <2> QED BY <1>2, <2>1, <2>2, <2>3, <2>4
  <1>7. ASSUME NEW r \in Requests, CancelWaiter(r)
        PROVE  TypeOK'
    BY <1>7 DEF CancelWaiter
  <1>8. ASSUME NEW k \in Keys, Expire(k)
        PROVE  TypeOK'
    BY <1>8 DEF Expire, coordVars
  <1>9. CASE UNCHANGED vars
    BY <1>9 DEF vars, coordVars
  <1> QED
    BY <1>1, <1>3, <1>4, <1>5, <1>6, <1>7, <1>8, <1>9 DEF Next, Run, AllEnded

\* The invariant of the coordinator is inductive.
LEMMA CoordStep == CoordInv /\ [Next]_vars => CoordInv'
  <1> SUFFICES ASSUME CoordInv, [Next]_vars PROVE CoordInv'
    OBVIOUS
  <1>0. TypeOK /\ TypeOK'
    BY TypeStep DEF CoordInv
  <1>1. ASSUME NEW r \in Requests, FastHit(r) \/ FastMiss(r) \/ LockedMiss(r) \/ Loaded(r)
        PROVE  CoordInv'
    <2>1. CASE FastHit(r)
      BY <1>0, <2>1, MovePreserves DEF FastHit, Return, Places, Ended
    <2>2. CASE FastMiss(r)
      BY <1>0, <2>2, MovePreserves DEF FastMiss, Places
    <2>3. CASE LockedMiss(r) \/ Loaded(r)
      BY <1>0, <2>3, MovePreserves DEF LockedMiss, Loaded, Places, Holding
    <2> QED BY <1>1, <2>1, <2>2, <2>3
  <1>2. ASSUME NEW r \in Requests,
               LockedHit(r) \/ LoadedTooLarge(r) \/ LoadFailed(r) \/ Saved(r) \/ Abort(r)
        PROVE  CoordInv'
    <2>1. PICK p \in Ended : pc' = [pc EXCEPT ![r] = p]
      BY <1>2 DEF LockedHit, LoadedTooLarge, LoadFailed, Saved, Abort, Return, Ended
    <2>2. pc[r] \in Holding /\ Leave(r)
      BY <1>2 DEF LockedHit, LoadedTooLarge, LoadFailed, Saved, Abort, Holding
    <2> QED BY <1>0, <2>1, <2>2, LeavePreserves
  <1>3. ASSUME NEW k \in Keys, Expire(k)
        PROVE  CoordInv'
    BY <1>0, <1>3 DEF Expire, coordVars, CoordInv, FreshLocks, Unborn, Queues, Wakeups,
         HoldersLock, LocksOfKeys, LockMutex, NoLostWakeup, MappedLockIsHeld
  <1>4. CASE UNCHANGED vars
    BY <1>0, <1>4 DEF vars, coordVars, CoordInv, FreshLocks, Unborn, Queues, Wakeups,
         HoldersLock, LocksOfKeys, LockMutex, NoLostWakeup, MappedLockIsHeld
  <1> QED
    BY <1>0, <1>1, <1>2, <1>3, <1>4, EnterPreserves, ResumePreserves,
       LeaveQueuePreserves, CancelPreserves
    DEF Next, Run, AllEnded

----------------------------------------------------------------------------

\* Every reachable state is well typed, no two requests are inside one lock,
\* every released lock has its next request on the way, and every lock in
\* the map is held: _evict_idle (cache_aside.py:30-37) never evicts.
THEOREM CoordinatorSafe ==
  Spec => [](TypeOK /\ LockMutex /\ NoLostWakeup /\ MappedLockIsHeld)
  <1>1. CoordInv => TypeOK /\ LockMutex /\ NoLostWakeup /\ MappedLockIsHeld
    BY DEF CoordInv
  <1> QED
    BY <1>1, CoordInit, CoordStep, PTL DEF Spec

\* Every lock in the map is held, whatever the bound of the map: _evict_idle
\* (cache_aside.py:30-37), which pops only locks that are free, pops none.
THEOREM OnlyHeldLocksAreMapped == Spec => []MappedLockIsHeld
  BY CoordinatorSafe, PTL

LEMMA SteadyInit == Init => SteadyInv
  BY NobodyAssumption DEF Init, SteadyInv

\* What the store says of the steady keys is kept by every step.
LEMMA SteadyStep == CoordInv /\ SteadyInv /\ [Next]_vars => SteadyInv'
  <1> SUFFICES ASSUME CoordInv, SteadyInv, [Next]_vars PROVE SteadyInv'
    OBVIOUS
  <1>0. TypeOK /\ MappedLockIsHeld /\ LockMutex /\ HoldersLock
    BY DEF CoordInv
  <1> USE KeyAssumption, NobodyAssumption
  <1>1. ASSUME NEW r \in Requests, FastHit(r) \/ FastMiss(r) \/ LockedMiss(r) \/ Loaded(r)
        PROVE  SteadyInv'
    BY <1>0, <1>1 DEF FastHit, FastMiss, LockedMiss, Loaded, Return, coordVars, Flaky,
         SteadyInv, TypeOK
  <1>2. ASSUME NEW r \in Requests, Enter(r)
        PROVE  SteadyInv'
    <2> DEFINE k == KeyOf[r]
               l == IF map[k] = Nobody THEN r ELSE map[k]
    <2>1. [j \in Keys |-> IF j \in Evicted THEN Nobody ELSE map[j]] = map
      BY <1>0, NothingEvicted DEF TypeOK
    <2>2. /\ pc[r] = "missed"
          /\ map' = [map EXCEPT ![k] = l]
          /\ lockOf' = [lockOf EXCEPT ![r] = l]
          /\ \/ pc' = [pc EXCEPT ![r] = "reread"]
             \/ pc' = [pc EXCEPT ![r] = "waiting"]
          /\ UNCHANGED <<result, store>>
      BY <1>2, <2>1 DEF Enter
    <2> QED BY <1>0, <2>2 DEF SteadyInv, TypeOK
  <1>3. ASSUME NEW r \in Requests, Resume(r) \/ CancelWaiter(r)
        PROVE  SteadyInv'
    <2>1. /\ UNCHANGED <<result, store, map, lockOf>>
          /\ pc' = [pc EXCEPT ![r] = "reread"] \/ pc' = pc
      BY <1>3 DEF Resume, CancelWaiter
    <2> QED BY <1>0, <2>1 DEF SteadyInv, TypeOK
  <1>4. ASSUME NEW r \in Requests, LeaveQueue(r)
        PROVE  SteadyInv'
    <2>1. /\ \A k \in Keys : map'[k] = map[k] \/ (k = KeyOf[r] /\ ~locked[lockOf[r]])
          /\ lockOf' = [lockOf EXCEPT ![r] = Nobody]
          /\ pc' = [pc EXCEPT ![r] = "failed"]
          /\ lockOf[r] \in Requests
          /\ UNCHANGED <<result, store>>
      BY <1>0, <1>4 DEF LeaveQueue, HoldersLock
    <2>2. KeyOf[r] \in Steady /\ store[KeyOf[r]] = Nobody => locked[lockOf[r]]
      BY <1>0, <2>1 DEF SteadyInv, MappedLockIsHeld
    <2> QED BY <1>0, <2>1, <2>2 DEF SteadyInv, TypeOK
  <1>5. ASSUME NEW r \in Requests, LoadedTooLarge(r) \/ LoadFailed(r) \/ Abort(r)
        PROVE  SteadyInv'
    <2>1. /\ KeyOf[r] \notin Steady
          /\ map' = [map EXCEPT ![KeyOf[r]] = Nobody]
          /\ lockOf' = [lockOf EXCEPT ![r] = Nobody]
          /\ \E p \in Ended : pc' = [pc EXCEPT ![r] = p]
          /\ \E v \in ReqOrNobody : result' = [result EXCEPT ![r] = v]
          /\ \E v \in ReqOrNobody : store' = [store EXCEPT ![KeyOf[r]] = v]
      BY <1>0, <1>5 DEF LoadedTooLarge, LoadFailed, Abort, Return, Leave, Flaky, Ended,
           TypeOK, ReqOrNobody
    <2> QED BY <1>0, <2>1 DEF SteadyInv, TypeOK, Ended
  <1>6. ASSUME NEW r \in Requests, LockedHit(r)
        PROVE  SteadyInv'
    BY <1>0, <1>6 DEF LockedHit, Return, Leave, SteadyInv, TypeOK
  <1>7. ASSUME NEW r \in Requests, Saved(r)
        PROVE  SteadyInv'
    <2>1. /\ pc[r] = "save"
          /\ map' = [map EXCEPT ![KeyOf[r]] = Nobody]
          /\ lockOf' = [lockOf EXCEPT ![r] = Nobody]
          /\ pc' = [pc EXCEPT ![r] = "done"]
          /\ result' = [result EXCEPT ![r] = r]
          /\ \/ store' = [store EXCEPT ![KeyOf[r]] = r]
             \/ KeyOf[r] \notin Steady /\ store' = store
      BY <1>7 DEF Saved, Return, Leave, Flaky
    <2>2. ASSUME NEW q \in Requests, KeyOf[q] \in Steady, KeyOf[q] = KeyOf[r], q # r
          PROVE  pc[q] \notin {"load", "save"} /\ result[q] # q
      BY <1>0, <2>1, <2>2 DEF SteadyInv, LockMutex, HoldersLock, Holding
    <2> QED BY <1>0, <2>1, <2>2 DEF SteadyInv, TypeOK
  <1>8. ASSUME NEW k \in Keys, Expire(k)
        PROVE  SteadyInv'
    BY <1>0, <1>8 DEF Expire, coordVars, SteadyInv, TypeOK
  <1>9. CASE UNCHANGED vars
    BY <1>9 DEF vars, coordVars, SteadyInv
  <1> QED
    BY <1>1, <1>2, <1>3, <1>4, <1>5, <1>6, <1>7, <1>8, <1>9 DEF Next, Run, AllEnded

\* The loader of a steady key is called by one request at most, whatever the
\* interleaving and whatever happens to the other keys (cache_aside.py:80-93).
THEOREM SteadyKeysLoadOnce == Spec => []SteadyOnce
  <1>1. CoordInv /\ SteadyInv => SteadyOnce
    <2> SUFFICES ASSUME CoordInv, SteadyInv,
                        NEW r \in Requests, NEW q \in Requests,
                        KeyOf[r] = KeyOf[q], KeyOf[r] \in Steady,
                        Invoked(r), Invoked(q)
                 PROVE  r = q
      BY DEF SteadyOnce
    <2> QED BY NobodyAssumption
            DEF Invoked, SteadyInv, CoordInv, LockMutex, HoldersLock, Holding
  <1> QED
    BY <1>1, CoordInit, CoordStep, SteadyInit, SteadyStep, PTL DEF Spec

----------------------------------------------------------------------------

\* A step of the coordinator is a step of single-flight or changes nothing
\* a caller can see.
LEMMA StepImplements ==
  CoordInv /\ SteadyInv /\ [Next]_vars => [SF!Next]_(SF!sfVars)
  <1> SUFFICES ASSUME CoordInv, SteadyInv, [Next]_vars
               PROVE  SF!Next \/ UNCHANGED SF!sfVars
    OBVIOUS
  <1>0. TypeOK /\ LockMutex /\ HoldersLock
    BY DEF CoordInv
  <1>1. pc \in [Requests -> Places]
    BY <1>0 DEF TypeOK
  <1> USE DEF Places, Holding, Ended
  <1>5. ASSUME NEW r \in Requests, FastHit(r) \/ LockedHit(r)
        PROVE  SF!Answer(r)
    <2>1. /\ pc[r] \in {"read", "reread"} /\ pc' = [pc EXCEPT ![r] = "done"]
          /\ store[KeyOf[r]] # Nobody
          /\ result' = [result EXCEPT ![r] = store[KeyOf[r]]]
          /\ UNCHANGED store
      BY <1>5 DEF FastHit, LockedHit, Return
    <2>2. Status[r] = "waiting" /\ Status' = [Status EXCEPT ![r] = "done"]
      BY <1>1, <2>1 DEF Status, StatusOf
    <2> QED BY <2>1, <2>2 DEF SF!Answer
  <1>6. ASSUME NEW r \in Requests, FastMiss(r) \/ Enter(r) \/ Resume(r) \/ Loaded(r)
        PROVE  UNCHANGED SF!sfVars
    <2>1. /\ UNCHANGED <<result, store>>
          /\ \/ pc[r] = "read" /\ pc' = [pc EXCEPT ![r] = "missed"]
             \/ pc[r] = "missed" /\ pc' = [pc EXCEPT ![r] = "reread"]
             \/ pc[r] = "missed" /\ pc' = [pc EXCEPT ![r] = "waiting"]
             \/ pc[r] = "waiting" /\ pc' = [pc EXCEPT ![r] = "reread"]
             \/ pc[r] = "load" /\ pc' = [pc EXCEPT ![r] = "save"]
      BY <1>6 DEF FastMiss, Enter, Resume, Loaded
    <2>2. Status' = Status
      BY <1>1, <2>1 DEF Status, StatusOf
    <2> QED BY <2>1, <2>2 DEF SF!sfVars
  <1>7. ASSUME NEW r \in Requests, LockedMiss(r)
        PROVE  SF!Invoke(r)
    <2>1. /\ pc[r] = "reread" /\ pc' = [pc EXCEPT ![r] = "load"]
          /\ UNCHANGED <<result, store>>
          /\ KeyOf[r] \in Steady => store[KeyOf[r]] = Nobody
      BY <1>7 DEF LockedMiss, Flaky
    <2>2. Status[r] = "waiting" /\ Status' = [Status EXCEPT ![r] = "loading"]
      BY <1>1, <2>1 DEF Status, StatusOf
    <2>3. ASSUME KeyOf[r] \in Steady, NEW q \in Requests, KeyOf[q] = KeyOf[r]
          PROVE  Status[q] # "loading"
      <3>1. pc[q] \notin {"load", "save"}
        BY <1>0, <2>1, <2>3, NobodyAssumption DEF SteadyInv, LockMutex, HoldersLock
      <3> QED BY <3>1 DEF StatusOf, Status
    <2>4. KeyOf[r] \in Steady => SF!Loading(KeyOf[r]) = {}
      BY <2>3 DEF SF!Loading
    <2> QED BY <2>1, <2>2, <2>4 DEF SF!Invoke
  <1>8. ASSUME NEW r \in Requests, LoadedTooLarge(r) \/ Saved(r)
        PROVE  SF!Finish(r)
    <2>1. /\ pc[r] \in {"load", "save"} /\ pc' = [pc EXCEPT ![r] = "done"]
          /\ result' = [result EXCEPT ![r] = r]
          /\ \/ store' = [store EXCEPT ![KeyOf[r]] = r]
             \/ KeyOf[r] \notin Steady /\ store' = store
      BY <1>8 DEF LoadedTooLarge, Saved, Return, Flaky
    <2>2. Status[r] = "loading" /\ Status' = [Status EXCEPT ![r] = "done"]
      BY <1>1, <2>1 DEF Status, StatusOf
    <2> QED BY <2>1, <2>2 DEF SF!Finish, SF!Store
  <1>9. ASSUME NEW r \in Requests, LoadFailed(r) \/ LeaveQueue(r) \/ Abort(r)
        PROVE  SF!Fail(r)
    <2>1. /\ pc' = [pc EXCEPT ![r] = "failed"] /\ result' = result
          /\ \/ pc[r] \in {"waiting", "reread"} /\ store' = store
             \/ /\ pc[r] \in {"load", "save"} /\ KeyOf[r] \notin Steady
                /\ store' = [store EXCEPT ![KeyOf[r]] = r] \/ store' = store
      BY <1>9 DEF LoadFailed, LeaveQueue, Abort, Flaky
    <2>2. Status' = [Status EXCEPT ![r] = "failed"]
      BY <1>1, <2>1 DEF Status, StatusOf
    <2>3. /\ pc[r] \in {"waiting", "reread"} => Status[r] = "waiting"
          /\ pc[r] \in {"load", "save"} => Status[r] = "loading"
      BY <1>1, <2>1 DEF Status, StatusOf
    <2> QED BY <2>1, <2>2, <2>3 DEF SF!Fail, SF!Store
  <1>10. ASSUME NEW r \in Requests, CancelWaiter(r)
         PROVE  UNCHANGED SF!sfVars
    BY <1>10 DEF CancelWaiter, SF!sfVars, Status
  <1>11. ASSUME NEW k \in Keys, Expire(k)
         PROVE  SF!Expire(k)
    BY <1>11 DEF Expire, SF!Expire, Status
  <1>12. CASE UNCHANGED vars
    BY <1>12 DEF vars, SF!sfVars, Status
  <1> QED
    BY <1>5, <1>6, <1>7, <1>8, <1>9, <1>10, <1>11, <1>12
    DEF Next, Run, AllEnded, SF!Next

\* run_cache_aside over the coordinator implements single-flight: to its
\* callers, the locks, the map and the queues cannot be seen.
THEOREM CacheAsideIsSingleFlight == Spec => ImplementsSingleFlight
  <1>1. Init => SF!Init
    BY DEF Init, SF!Init, StatusOf, Status, Ended
  <1> QED
    BY <1>1, CoordInit, CoordStep, SteadyInit, SteadyStep, StepImplements, PTL
    DEF Spec, ImplementsSingleFlight, SF!Spec

=============================================================================
