----------------------------- MODULE LlmRouter -----------------------------
(***************************************************************************)
(* application/llm_router.py: LLMRouter.agenerate and astream, called by   *)
(* concurrent tasks through RoutingChatModel, behind the limiter and the   *)
(* gate of OutboundGate and over the registry of ModelRegistry; and the    *)
(* searches of infrastructure/rate_limited_adapters.py, which spend the    *)
(* same quota.                                                             *)
(*                                                                         *)
(* An action is what a task runs between two awaits.  The refresh of the   *)
(* registry is a blocking call, so routing is one step with the end of the *)
(* wait before it.  Messages and answers are left out: what matters of a   *)
(* completion is the model that wrote it.                                  *)
(***************************************************************************)
EXTENDS OutboundGate, ModelRegistry

CONSTANTS Searches,      \* the calls that are searches
          Streaming,     \* the calls of astream
          Preferred,     \* preferred_model_id, or NoModel
          MaxFallbacks,  \* LLM_ROUTER_MAX_FALLBACKS
          NoModel,
          MaxTime        \* bound: when the clock stops, see Tick

ASSUME CallAssumption == Searches \subseteq Calls /\ Streaming \subseteq Calls
ASSUME ModelAssumption == NoModel \notin Models /\ Preferred \in Models \cup {NoModel}
ASSUME FallbackAssumption == MaxFallbacks \in Nat

VARIABLES pc,        \* where each call is suspended
          todo,      \* the models left to try; the first is being called
          lastUsed   \* the router's _last_used_model_id

callVars == <<pc, todo, lastUsed>>
vars == <<now, gateVars, registryVars, callVars>>

AtWork == {"waiting", "calling", "streaming", "answered", "searching"}
Ended == {"done", "failed", "refused", "noModels", "cancelled"}

TypeOK ==
  /\ GateTypeOK
  /\ RegistryTypeOK
  /\ pc \in [Calls -> {"new"} \cup AtWork \cup Ended]
  /\ todo \in [Calls -> SUBSET Models]
  /\ lastUsed \in Models \cup {NoModel}

Init ==
  /\ GateInit
  /\ RegistryInit
  /\ pc = [c \in Calls |-> "new"]
  /\ todo = [c \in Calls |-> {}]
  /\ lastUsed = NoModel

Goes(c, place) == pc' = [pc EXCEPT ![c] = place]

\* The call is over, and its list of models with it.
Leaves(c, place) ==
  /\ Goes(c, place)
  /\ todo' = [todo EXCEPT ![c] = {}]

----------------------------------------------------------------------------
(* Routing *)

\* The models are tried by their ids, the preferred one first.
Position(m) == CHOOSE i \in 1..Len(ModelOrder) : ModelOrder[i] = m
Before(k, m) ==
  /\ m # Preferred
  /\ k = Preferred \/ Position(k) < Position(m)

\* The model that the call has reached.
Current(c) == CHOOSE m \in todo[c] : \A k \in todo[c] : ~Before(k, m)

\* _routed_model_ids: the first MaxFallbacks + 1 candidates are tried.
Try(c, pool) ==
  /\ todo' = [todo EXCEPT ![c] =
                 {m \in pool : Cardinality({k \in pool : Before(k, m)}) <= MaxFallbacks}]
  /\ Goes(c, "calling")

\* No candidate even after a refresh.
TryPreferred(c) ==
  \/ Preferred # NoModel /\ Try(c, {Preferred})
  \/ Preferred = NoModel /\ Leaves(c, "noModels")

\* candidate_model_ids: the pool or, if there is none, that of a refreshed
\* registry; a list that cannot be fetched fails the call.
Route(c) ==
  LET t == TierOf[c]
  IN  \/ /\ Pool(registry, t) # {}
         /\ Try(c, Pool(registry, t))
         /\ UNCHANGED <<listed, cachedAt, registry>>
      \/ /\ Pool(registry, t) = {}
         /\ \E list \in {listed, catalog} :
              /\ Fetched(list)
              /\ registry' = Refreshed(list)
              /\ IF Pool(Refreshed(list), t) # {} THEN Try(c, Pool(Refreshed(list), t))
                 ELSE TryPreferred(c)
      \/ /\ Pool(registry, t) = {}
         /\ ~Fresh
         /\ Leaves(c, "failed")
         /\ UNCHANGED <<listed, cachedAt, registry>>

----------------------------------------------------------------------------
(* The steps of a call *)

\* The limiter has no room: ExternalRateLimitError.
Refused(c) ==
  /\ pc[c] = "new"
  /\ Refuse
  /\ Goes(c, "refused")
  /\ UNCHANGED <<now, lastCall, line, releasedAt, registryVars, todo, lastUsed>>

Search(c) ==
  /\ pc[c] = "new"
  /\ c \in Searches
  /\ Admit(c)
  /\ Goes(c, "searching")
  /\ UNCHANGED <<now, lastCall, line, releasedAt, registryVars, todo, lastUsed>>

SearchEnds(c) ==
  /\ pc[c] = "searching"
  /\ \E place \in {"done", "failed"} : Goes(c, place)
  /\ UNCHANGED <<now, gateVars, registryVars, todo, lastUsed>>

\* A completion is admitted and goes straight through the gate to its model ...
Begin(c) ==
  /\ pc[c] = "new"
  /\ c \notin Searches
  /\ Admit(c)
  /\ Straight(c)
  /\ Route(c)
  /\ UNCHANGED <<now, catalog, resting, lastUsed>>

\* ... or waits in the gate ...
Wait(c) ==
  /\ pc[c] = "new"
  /\ c \notin Searches
  /\ Admit(c)
  /\ Queue(c)
  /\ Goes(c, "waiting")
  /\ UNCHANGED <<now, registryVars, todo, lastUsed>>

\* ... until its turn.
Proceed(c) ==
  /\ pc[c] = "waiting"
  /\ TurnComes(c)
  /\ Route(c)
  /\ UNCHANGED <<now, quota, admittedAt, catalog, resting, lastUsed>>

\* The provider answers a completion: the field is set before the await of
\* the caller ends.
Answer(c) ==
  /\ pc[c] = "calling"
  /\ c \notin Streaming
  /\ lastUsed' = Current(c)
  /\ Goes(c, "answered")
  /\ UNCHANGED <<now, gateVars, registryVars, todo>>

\* A chunk of a stream, and the stream's end.
Chunk(c) ==
  /\ pc[c] \in {"calling", "streaming"}
  /\ c \in Streaming
  /\ lastUsed' = Current(c)
  /\ Goes(c, "streaming")
  /\ UNCHANGED <<now, gateVars, registryVars, todo>>

StreamEnds(c) ==
  /\ pc[c] = "streaming"
  /\ Goes(c, "answered")
  /\ UNCHANGED <<now, gateVars, registryVars, todo, lastUsed>>

\* Once a chunk was passed on, an error is the caller's; and so is the end of
\* a stream that had none.
StreamBreaks(c) ==
  /\ pc[c] \in {"calling", "streaming"}
  /\ c \in Streaming
  /\ Leaves(c, "failed")
  /\ UNCHANGED <<now, gateVars, registryVars, lastUsed>>

\* The next candidate is called at once, past the limiter and the gate.
NextModel(c) ==
  /\ todo' = [todo EXCEPT ![c] = @ \ {Current(c)}]
  /\ Goes(c, IF todo[c] = {Current(c)} THEN "failed" ELSE "calling")

\* The provider refuses the call; after a token-limit error the model rests.
ProviderFails(c) ==
  /\ pc[c] = "calling"
  /\ \/ Deactivate(Current(c))
     \/ UNCHANGED registryVars
  /\ NextModel(c)
  /\ UNCHANGED <<now, gateVars, lastUsed>>

\* The caller's task runs again: resolve_invoked_model_name reads lastUsed.
Trace(c) ==
  /\ pc[c] = "answered"
  /\ Leaves(c, "done")
  /\ UNCHANGED <<now, gateVars, registryVars, lastUsed>>

\* A deadline or the caller cancels the task; the quota stays spent.
Cancel(c) ==
  /\ pc[c] \in AtWork
  /\ LeaveLine(c)
  /\ Leaves(c, "cancelled")
  /\ UNCHANGED <<now, registryVars, lastUsed>>

\* Time passes up to MaxTime, and then only while the head of a line sleeps.
Tick ==
  /\ now < MaxTime \/ \E t \in Tiers : line[t] # <<>> /\ ~Due(t)
  /\ now' = now + 1
  /\ UNCHANGED <<gateVars, registryVars, callVars>>

Ends(c) == StreamEnds(c) \/ StreamBreaks(c)

Run(c) ==
  \/ SearchEnds(c) \/ Proceed(c) \/ Answer(c) \/ ProviderFails(c) \/ Trace(c)
  \/ Ends(c)

AllEnded == (\A c \in Calls : pc[c] \in Ended) /\ UNCHANGED vars

Next ==
  \/ \E c \in Calls :
       Refused(c) \/ Search(c) \/ Begin(c) \/ Wait(c) \/ Run(c) \/ Chunk(c) \/ Cancel(c)
  \/ \E m \in Models : CatalogChanges(m) /\ UNCHANGED <<now, gateVars, callVars>>
  \/ Tick
  \/ AllEnded

\* Timers fire, providers answer or time out, and a completion has finitely
\* many chunks.
Fairness == WF_vars(Tick) /\ \A c \in Calls : WF_vars(Run(c))

Spec == Init /\ [][Next]_vars /\ Fairness

----------------------------------------------------------------------------
(* Properties *)

Routed(c) == pc[c] \in {"new", "waiting"} /\ pc'[c] = "calling"

\* Who holds a tier's lock or waits for it is a call of the tier that was
\* admitted and has not left, each once and no other: through sleeps and
\* cancellations in any order, the head of a line is a call that will move it.
LinesAreTheWaiting ==
  \A t \in Tiers :
    /\ IsInjective(line[t])
    /\ ToSet(line[t]) = {c \in Calls : pc[c] = "waiting" /\ TierOf[c] = t}

\* A model that asked for rest is no call's candidate before its time, for
\* any call routed since, through fallbacks, refreshes and other calls' errors,
\* as long as the backend keeps listing it.
RestingModelsRest ==
  [][\A c \in Calls, m \in Kept \ {Preferred} :
       Routed(c) /\ m \in todo'[c] => resting[m] <= now]_vars

\* A call is turned away for want of a model only if every model the backend
\* keeps listing for its tier, or for MEDIUM, rests.
TurnedAwayForGood ==
  [][\A c \in Calls, m \in Kept :
       /\ pc'[c] = "noModels" /\ pc[c] # "noModels"
       /\ Offered[m] \cap {TierOf[c], Medium} # {}
       => now < resting[m]]_vars

\* In time every call that has begun ends: nobody waits in the gate behind a
\* call that was cancelled, and a call runs out of models to try.
EveryCallEnds == <>[](\A c \in Calls : pc[c] \notin AtWork)

\* OBSERVABILITY.md:46, "The model name reflects the actual provider model
\* after LLMRouter fallback": when a completion is recorded, the field names
\* the model that wrote it.
TracedModelAnswered ==
  [][\A c \in Calls :
       pc[c] = "answered" /\ pc'[c] = "done" => lastUsed = Current(c)]_vars
=============================================================================
