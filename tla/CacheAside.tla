----------------------------- MODULE CacheAside -----------------------------
(***************************************************************************)
(* infrastructure/cache_aside.py: run_cache_aside over a                   *)
(* CacheAsideCoordinator.  Each request is one asyncio task inside         *)
(* run_cache_aside; an action is the code a task runs between two awaits,  *)
(* or one outcome of the await it is suspended in.                         *)
(*                                                                         *)
(* A request creates at most one asyncio.Lock, so a lock object is named   *)
(* by the request that created it.  A cached value, and the value a        *)
(* request returns, is named by the request whose loader produced it.      *)
(*                                                                         *)
(* The store may fail a GET, drop a SET and expire an entry, a loader may  *)
(* raise or return a payload over the size limit, and the caller may       *)
(* cancel a task, but only on keys outside Steady: what holds of the       *)
(* steady keys holds whatever happens on the others.                       *)
(***************************************************************************)
EXTENDS Integers, Sequences, FiniteSets, SequencesExt

CONSTANTS Requests,  \* the asyncio tasks
          Keys,      \* cache keys
          KeyOf,     \* the key each request asks for
          MaxLocks,  \* CacheAsideCoordinator(max_locks=...)
          Steady,    \* the keys whose loads succeed and are stored
          Nobody     \* no request: no lock, no value

ASSUME KeyAssumption == KeyOf \in [Requests -> Keys] /\ Steady \subseteq Keys
ASSUME NobodyAssumption == Nobody \notin Requests
ASSUME MaxLocksAssumption == MaxLocks \in Nat \ {0}

VARIABLES pc,         \* where each request is suspended
          result,     \* the value each request returned
          store,      \* the external cache
          map,        \* coordinator._locks: key -> lock
          older,      \* its insertion order: <<j, k>> when j comes before k
          lockOf,     \* the lock each request queues for or holds
          locked,     \* asyncio.Lock._locked
          waiters,    \* asyncio.Lock._waiters
          woken,      \* waiting requests whose future has its result
          cancelled   \* waiting requests whose task was cancelled

coordVars == <<map, older, lockOf, locked, waiters, woken, cancelled>>
vars == <<pc, result, store, coordVars>>

ReqOrNobody == Requests \cup {Nobody}
Holding == {"reread", "load", "save"}
Ended == {"done", "failed"}
Places == {"read", "missed", "waiting"} \cup Holding \cup Ended

TypeOK ==
  /\ pc \in [Requests -> Places]
  /\ result \in [Requests -> ReqOrNobody]
  /\ store \in [Keys -> ReqOrNobody]
  /\ map \in [Keys -> ReqOrNobody]
  /\ older \in SUBSET (Keys \X Keys)
  /\ lockOf \in [Requests -> ReqOrNobody]
  /\ locked \in [Requests -> BOOLEAN]
  /\ waiters \in [Requests -> Seq(Requests)]
  /\ woken \in SUBSET Requests
  /\ cancelled \in SUBSET Requests

Init ==
  /\ pc = [r \in Requests |-> "read"]
  /\ result = [r \in Requests |-> Nobody]
  /\ store = [k \in Keys |-> Nobody]
  /\ map = [k \in Keys |-> Nobody]
  /\ older = {}
  /\ lockOf = [r \in Requests |-> Nobody]
  /\ locked = [l \in Requests |-> FALSE]
  /\ waiters = [l \in Requests |-> <<>>]
  /\ woken = {}
  /\ cancelled = {}

----------------------------------------------------------------------------
(* asyncio.Lock *)

\* Mutant: acquire() looks at neither the lock nor its queue.
FreeAlways(l) == TRUE

\* acquire() returns at once: not locked, and every queued future cancelled.
Free(l) == /\ ~locked[l]
           /\ \A i \in DOMAIN waiters[l] : waiters[l][i] \in cancelled \ woken

\* _wake_up_first() on queue q: the first future, unless it is already done.
FirstWoken(q) == IF q # <<>> THEN {Head(q)} \ cancelled ELSE {}

----------------------------------------------------------------------------
(* CacheAsideCoordinator *)

Mapped == {k \in Keys : map[k] # Nobody}
Idle == {k \in Mapped : ~locked[map[k]]}

\* _evict_idle: oldest first, idle keys go until the map is below MaxLocks.
Evicted ==
  {k \in Idle : Cardinality({j \in Idle : <<j, k>> \in older})
                  < Cardinality(Mapped) - MaxLocks + 1}

\* The order of the map once the keys of K are popped.
Without(K) == {p \in older : p[1] \notin K /\ p[2] \notin K}

\* Entering singleflight(key): evict, get or create the key's lock and move
\* it to the end, then acquire the lock or queue for it.
Enter(r) ==
  LET k == KeyOf[r]
      kept == [j \in Keys |-> IF j \in Evicted THEN Nobody ELSE map[j]]
      l == IF kept[k] = Nobody THEN r ELSE kept[k]
  IN  /\ pc[r] = "missed"
      /\ map' = [kept EXCEPT ![k] = l]
      /\ older' = Without(Evicted \cup {k})
                    \cup {<<j, k>> : j \in (Mapped \ Evicted) \ {k}}
      /\ lockOf' = [lockOf EXCEPT ![r] = l]
      /\ \/ /\ Free(l)
            /\ locked' = [locked EXCEPT ![l] = TRUE]
            /\ pc' = [pc EXCEPT ![r] = "reread"]
            /\ UNCHANGED waiters
         \/ /\ ~Free(l)
            /\ waiters' = [waiters EXCEPT ![l] = Append(@, r)]
            /\ pc' = [pc EXCEPT ![r] = "waiting"]
            /\ UNCHANGED locked
      /\ UNCHANGED <<result, store, woken, cancelled>>

\* A woken waiter runs again: it dequeues itself and takes the lock.
Resume(r) ==
  LET l == lockOf[r]
  IN  /\ pc[r] = "waiting"
      /\ r \in woken \ cancelled
      /\ \E i \in DOMAIN waiters[l] :
           /\ waiters[l][i] = r
           /\ waiters' = [waiters EXCEPT ![l] = RemoveAt(@, i)]
      /\ locked' = [locked EXCEPT ![l] = TRUE]
      /\ woken' = woken \ {r}
      /\ pc' = [pc EXCEPT ![r] = "reread"]
      /\ UNCHANGED <<result, store, map, older, lockOf, cancelled>>

\* A caller cancels a task queued for a lock; the task runs later.
CancelWaiter(r) ==
  /\ pc[r] = "waiting"
  /\ r \notin cancelled
  /\ cancelled' = cancelled \cup {r}
  /\ UNCHANGED <<pc, result, store, map, older, lockOf, locked, waiters, woken>>

\* The cancelled task runs: acquire() dequeues it and passes a wake-up on,
\* and singleflight's finally pops the key if its lock is not locked.
LeaveQueue(r) ==
  LET l == lockOf[r]
      K == IF locked[l] THEN {} ELSE {KeyOf[r]}
  IN  /\ pc[r] = "waiting"
      /\ r \in cancelled
      /\ \E i \in DOMAIN waiters[l] :
           /\ waiters[l][i] = r
           /\ waiters' = [waiters EXCEPT ![l] = RemoveAt(@, i)]
      /\ woken' = (woken \ {r})
                    \cup (IF locked[l] THEN {} ELSE FirstWoken(waiters'[l]))
      /\ cancelled' = cancelled \ {r}
      /\ map' = [j \in Keys |-> IF j \in K THEN Nobody ELSE map[j]]
      /\ older' = Without(K)
      /\ lockOf' = [lockOf EXCEPT ![r] = Nobody]
      /\ pc' = [pc EXCEPT ![r] = "failed"]
      /\ UNCHANGED <<result, store, locked>>

\* Mutant: singleflight's finally does not pop the key.
LeaveKeepingEntry(r) ==
  /\ locked' = [locked EXCEPT ![lockOf[r]] = FALSE]
  /\ woken' = woken \cup FirstWoken(waiters[lockOf[r]])
  /\ lockOf' = [lockOf EXCEPT ![r] = Nobody]
  /\ UNCHANGED <<map, older, waiters, cancelled>>

\* Mutant: the lock is dropped from the map without waking its queue.
LeaveWithoutWaking(r) ==
  /\ locked' = [locked EXCEPT ![lockOf[r]] = FALSE]
  /\ map' = [map EXCEPT ![KeyOf[r]] = Nobody]
  /\ older' = Without({KeyOf[r]})
  /\ lockOf' = [lockOf EXCEPT ![r] = Nobody]
  /\ UNCHANGED <<waiters, woken, cancelled>>

\* A holder leaves singleflight: release() wakes the first waiter, and the
\* lock, now not locked, is popped from the map even if requests wait on it.
Leave(r) ==
  /\ locked' = [locked EXCEPT ![lockOf[r]] = FALSE]
  /\ woken' = woken \cup FirstWoken(waiters[lockOf[r]])
  /\ map' = [map EXCEPT ![KeyOf[r]] = Nobody]
  /\ older' = Without({KeyOf[r]})
  /\ lockOf' = [lockOf EXCEPT ![r] = Nobody]
  /\ UNCHANGED <<waiters, cancelled>>

----------------------------------------------------------------------------
(* run_cache_aside *)

Flaky(r) == KeyOf[r] \notin Steady

\* Mutant: the key is returned instead of the value.
ReturnKey(r, v) ==
  /\ pc' = [pc EXCEPT ![r] = "done"]
  /\ result' = [result EXCEPT ![r] = KeyOf[r]]

Return(r, v) ==
  /\ pc' = [pc EXCEPT ![r] = "done"]
  /\ result' = [result EXCEPT ![r] = v]

FastHit(r) ==
  /\ pc[r] = "read"
  /\ store[KeyOf[r]] # Nobody
  /\ Return(r, store[KeyOf[r]])
  /\ UNCHANGED <<store, coordVars>>

\* The GET answers None, or fails and counts as a miss; the task enters
\* singleflight later, when the entry may have been stored by another.
FastMiss(r) ==
  /\ pc[r] = "read"
  /\ store[KeyOf[r]] = Nobody \/ Flaky(r)
  /\ pc' = [pc EXCEPT ![r] = "missed"]
  /\ UNCHANGED <<result, store, coordVars>>

LockedHit(r) ==
  /\ pc[r] = "reread"
  /\ store[KeyOf[r]] # Nobody
  /\ Return(r, store[KeyOf[r]])
  /\ Leave(r)
  /\ UNCHANGED store

\* Mutant: the cache is not read again once the lock is held.
LockedMissUnchecked(r) ==
  /\ pc[r] = "reread"
  /\ pc' = [pc EXCEPT ![r] = "load"]
  /\ UNCHANGED <<result, store, coordVars>>

LockedMiss(r) ==
  /\ pc[r] = "reread"
  /\ store[KeyOf[r]] = Nobody \/ Flaky(r)
  /\ pc' = [pc EXCEPT ![r] = "load"]
  /\ UNCHANGED <<result, store, coordVars>>

\* The loader answers with a payload the cache takes ...
Loaded(r) ==
  /\ pc[r] = "load"
  /\ pc' = [pc EXCEPT ![r] = "save"]
  /\ UNCHANGED <<result, store, coordVars>>

\* ... or with one that is too large: returned without being cached ...
LoadedTooLarge(r) ==
  /\ pc[r] = "load"
  /\ Flaky(r)
  /\ Return(r, r)
  /\ Leave(r)
  /\ UNCHANGED store

\* ... or raises.
LoadFailed(r) ==
  /\ pc[r] = "load"
  /\ Flaky(r)
  /\ pc' = [pc EXCEPT ![r] = "failed"]
  /\ Leave(r)
  /\ UNCHANGED <<result, store>>

\* Mutant: the loaded value is returned and never stored.
SavedNever(r) ==
  /\ pc[r] = "save"
  /\ UNCHANGED store
  /\ Return(r, r)
  /\ Leave(r)

\* cache.set returns: it stored the value or, failing, stored nothing.
Saved(r) ==
  /\ pc[r] = "save"
  /\ \/ store' = [store EXCEPT ![KeyOf[r]] = r]
     \/ Flaky(r) /\ UNCHANGED store
  /\ Return(r, r)
  /\ Leave(r)

\* A cancelled holder unwinds; its SET may have reached the store.
Abort(r) ==
  /\ pc[r] \in Holding
  /\ Flaky(r)
  /\ \/ pc[r] = "save" /\ store' = [store EXCEPT ![KeyOf[r]] = r]
     \/ UNCHANGED store
  /\ pc' = [pc EXCEPT ![r] = "failed"]
  /\ Leave(r)
  /\ UNCHANGED result

\* The entry's time to live runs out.
Expire(k) ==
  /\ k \notin Steady
  /\ store[k] # Nobody
  /\ store' = [store EXCEPT ![k] = Nobody]
  /\ UNCHANGED <<pc, result, coordVars>>

\* What the event loop runs of a request, as opposed to what befalls it.
Run(r) ==
  \/ FastHit(r) \/ FastMiss(r)
  \/ Enter(r) \/ Resume(r) \/ LeaveQueue(r)
  \/ LockedHit(r) \/ LockedMiss(r)
  \/ Loaded(r) \/ LoadedTooLarge(r) \/ LoadFailed(r)
  \/ Saved(r)

AllEnded == /\ \A r \in Requests : pc[r] \in Ended
            /\ UNCHANGED vars

Next ==
  \/ \E r \in Requests : Run(r) \/ CancelWaiter(r) \/ Abort(r)
  \/ \E k \in Keys : Expire(k)
  \/ AllEnded

\* The event loop resumes every task whose await is over, and every await
\* on the store or on a loader ends (a command is answered or its connection breaks).
Fairness == \A r \in Requests : WF_vars(Run(r))

Spec == Init /\ [][Next]_vars /\ Fairness

----------------------------------------------------------------------------
(* Properties *)

\* No two requests are inside the same lock, although a woken waiter takes
\* the lock without looking whether it is free.
LockMutex ==
  \A r, q \in Requests :
    /\ pc[r] \in Holding
    /\ pc[q] \in Holding
    /\ lockOf[r] = lockOf[q]
    => r = q

\* A lock nobody holds is about to be taken: its first waiter has been
\* woken, or was cancelled and passes the wake-up on when it runs.
NoLostWakeup ==
  \A l \in Requests :
    ~locked[l] /\ waiters[l] # <<>> => Head(waiters[l]) \in woken \cup cancelled

\* Every lock in the coordinator's map is locked, so _evict_idle never finds
\* an entry to evict and max_locks bounds nothing.
MappedLockIsHeld == \A k \in Keys : map[k] # Nobody => locked[map[k]]

\* The loader of r has been called.
Invoked(r) == pc[r] \in {"load", "save"} \/ result[r] = r

\* On a key whose loads succeed and are stored, the inner port is invoked at
\* most once, whatever the interleaving and whatever the other keys meet.
SteadyOnce ==
  \A r, q \in Requests :
    /\ KeyOf[r] = KeyOf[q]
    /\ KeyOf[r] \in Steady
    /\ Invoked(r) /\ Invoked(q)
    => r = q

\* Every request returns or fails: no request waits forever on a lock that
\* was released, popped from the map or left by a cancelled task.
EveryRequestEnds == <>(\A r \in Requests : pc[r] \in Ended)

\* A caller of run_cache_aside cannot tell the coordinator from single-flight.
StatusOf(p) == IF p \in {"load", "save"} THEN "loading"
               ELSE IF p \in Ended THEN p ELSE "waiting"

Status == [r \in Requests |-> StatusOf(pc[r])]

SF == INSTANCE SingleFlight WITH status <- Status, value <- store

ImplementsSingleFlight == SF!Spec

\* The module's claim: "concurrent requests for the same key invoke the inner
\* port at most once" (cache_aside.py:4), read as never two loaders of one
\* key at work at the same time.
OneLoaderPerKey ==
  \A r, q \in Requests :
    KeyOf[r] = KeyOf[q] /\ pc[r] = "load" /\ pc[q] = "load" => r = q
=============================================================================
