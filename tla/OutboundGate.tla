---------------------------- MODULE OutboundGate ----------------------------
(***************************************************************************)
(* What a call passes before it leaves for a provider: the sliding window  *)
(* of infrastructure/external_rate_limiter.py, shared by every provider,   *)
(* and the interval per complexity tier of infrastructure/llm_debounce.py. *)
(*                                                                         *)
(* A stamp in the limiter's deque is named by the call that left it.  The  *)
(* lock of a tier is a line: its head is the call that sleeps out the      *)
(* interval, or is about to look at the time.                              *)
(***************************************************************************)
EXTENDS LlmRouting, Sequences, FiniteSets, SequencesExt

CONSTANTS Calls,     \* the calls of the server's tasks
          TierOf,    \* the complexity of each call
          Limit,     \* EXTERNAL_REQUEST_LIMIT_PER_MINUTE
          Window,    \* window_seconds
          Interval   \* LLM_ROUTER_DEBOUNCE_SECONDS

ASSUME TierAssumption == TierOf \in [Calls -> Tiers]
ASSUME LimitAssumption == Limit \in Nat \ {0}
ASSUME WindowAssumption == Window \in Nat \ {0}
ASSUME IntervalAssumption == Interval \in Nat

VARIABLES quota,       \* the limiter's _timestamps
          admittedAt,  \* when each call was let through the limiter
          lastCall,    \* the gate's _last_call_monotonic
          line,        \* who holds and who waits for each tier's lock
          releasedAt   \* when each call was let through the gate

gateVars == <<quota, admittedAt, lastCall, line, releasedAt>>

\* A time so long ago that no window and no interval reaches back to it.
Never == 0 - Window - Interval

GateTypeOK ==
  /\ now \in Nat
  /\ quota \in SUBSET Calls
  /\ admittedAt \in [Calls -> Nat \cup {Never}]
  /\ lastCall \in [Tiers -> Nat \cup {Never}]
  /\ line \in [Tiers -> Seq(Calls)]
  /\ releasedAt \in [Calls -> Nat \cup {Never}]

GateInit ==
  /\ now = 0
  /\ quota = {}
  /\ admittedAt = [c \in Calls |-> Never]
  /\ lastCall = [t \in Tiers |-> Never]
  /\ line = [t \in Tiers |-> <<>>]
  /\ releasedAt = [c \in Calls |-> Never]

----------------------------------------------------------------------------
(* SlidingWindowExternalRequestRateLimiter *)

\* Mutant: a stamp is dropped one unit too early.
RecentShort == {c \in quota : admittedAt[c] > now - Window + 1}

\* The stamps that are left once the old ones are popped.
Recent == {c \in quota : admittedAt[c] > now - Window}

Admit(c) ==
  /\ Cardinality(Recent) < Limit
  /\ quota' = Recent \cup {c}
  /\ admittedAt' = [admittedAt EXCEPT ![c] = now]

Refuse ==
  /\ Cardinality(Recent) >= Limit
  /\ quota' = Recent
  /\ UNCHANGED admittedAt

----------------------------------------------------------------------------
(* IntervalLLMDebounceGate *)

Due(t) == now - lastCall[t] >= Interval

\* Nobody is in the gate and the interval is over: acquire() does not wait.
Open(t) == line[t] = <<>> /\ Due(t)

\* Mutant: the time recorded is that of the end of the interval before.
ReleaseBackdated(c) ==
  /\ lastCall' = [lastCall EXCEPT ![TierOf[c]] = now - Interval]
  /\ releasedAt' = [releasedAt EXCEPT ![c] = now]

Release(c) ==
  /\ lastCall' = [lastCall EXCEPT ![TierOf[c]] = now]
  /\ releasedAt' = [releasedAt EXCEPT ![c] = now]

\* Nobody is in the way: the call goes through at once.
Straight(c) ==
  /\ Open(TierOf[c])
  /\ Release(c)
  /\ UNCHANGED line

\* Mutant: the sleeper does not wait for the interval.
TurnComesEarly(c) ==
  /\ line[TierOf[c]] # <<>>
  /\ Head(line[TierOf[c]]) = c
  /\ Release(c)
  /\ line' = [line EXCEPT ![TierOf[c]] = Tail(@)]

Queue(c) ==
  /\ ~Open(TierOf[c])
  /\ line' = [line EXCEPT ![TierOf[c]] = Append(@, c)]
  /\ UNCHANGED <<lastCall, releasedAt>>

\* The head of the line has slept out the interval; the next one is woken.
TurnComes(c) ==
  /\ line[TierOf[c]] # <<>>
  /\ Head(line[TierOf[c]]) = c
  /\ Due(TierOf[c])
  /\ Release(c)
  /\ line' = [line EXCEPT ![TierOf[c]] = Tail(@)]

\* Mutant: a cancelled caller keeps the lock.
StayInLine(c) == UNCHANGED gateVars

\* A cancelled caller leaves the lock or its queue.
LeaveLine(c) ==
  /\ line' = [line EXCEPT ![TierOf[c]] = RemoveFirst(@, c)]
  /\ UNCHANGED <<quota, admittedAt, lastCall, releasedAt>>

----------------------------------------------------------------------------
(* Properties *)

\* The limiter admits at most Limit calls in any window, wherever it begins.
QuotaHeld ==
  \A t \in 0..now :
    Cardinality({c \in Calls : t - Window < admittedAt[c] /\ admittedAt[c] <= t})
      <= Limit

\* Two calls of one tier are let through the gate an interval apart, however
\* many wait, in whatever order they came, and whoever is cancelled asleep.
Spaced ==
  \A c, d \in Calls :
    /\ c # d
    /\ TierOf[c] = TierOf[d]
    /\ releasedAt[c] # Never /\ releasedAt[d] # Never
    /\ releasedAt[c] <= releasedAt[d]
    => releasedAt[c] + Interval <= releasedAt[d]
=============================================================================
