--------------------------- MODULE ModelRegistry ---------------------------
(***************************************************************************)
(* infrastructure/groq_model_registry.py over the cached list client of    *)
(* infrastructure/groq_active_model_list_client.py: the models the router  *)
(* may choose from, and those that rest after a token-limit error.         *)
(*                                                                         *)
(* A record with no tiers is one the registry does not have.  A record is  *)
(* active once its time has come, which is what _expire_deactivations      *)
(* makes of it before each use.                                            *)
(***************************************************************************)
EXTENDS LlmRouting, Sequences, SequencesExt

CONSTANTS ModelOrder,  \* every model id, sorted
          Offered,     \* the tiers the backend gives each model when it lists it
          Kept,        \* the models the backend never stops listing
          Ttl,         \* GROQ_ACTIVE_MODEL_LIST_CACHE_SECONDS
          Rest         \* TOKEN_LIMIT_DEACTIVATION_HOURS

Models == ToSet(ModelOrder)

ASSUME OrderAssumption == ModelOrder \in Seq(Models)
ASSUME OfferedAssumption == Offered \in [Models -> (SUBSET Tiers) \ {{}}]
ASSUME KeptAssumption == Kept \subseteq Models
ASSUME RestAssumption == Ttl \in Nat /\ Rest \in Nat

VARIABLES catalog,   \* the models the backend lists
          listed,    \* the list client's cached answer
          cachedAt,  \* when it was fetched
          registry,  \* the records
          resting    \* until when each model was last asked to rest

registryVars == <<catalog, listed, cachedAt, registry, resting>>

RegistryTypeOK ==
  /\ catalog \in SUBSET Models
  /\ listed \in SUBSET Models
  /\ cachedAt \in Nat
  /\ registry \in [Models -> [tiers : SUBSET Tiers, until : Nat]]
  /\ resting \in [Models -> Nat]

\* build_llm_router refreshes the registry before any call.
RegistryInit ==
  /\ catalog \in SUBSET Models /\ Kept \subseteq catalog
  /\ listed = catalog
  /\ cachedAt = 0
  /\ registry = [m \in Models |->
                   [tiers |-> IF m \in catalog THEN Offered[m] ELSE {}, until |-> 0]]
  /\ resting = [m \in Models |-> 0]

\* The backend lists a model or stops listing it.
CatalogChanges(m) ==
  /\ m \notin Kept
  /\ catalog' = IF m \in catalog THEN catalog \ {m} ELSE catalog \cup {m}
  /\ UNCHANGED <<listed, cachedAt, registry, resting>>

\* fetch_active_models: the cached list while it is fresh, else the backend's.
Fresh == now - cachedAt < Ttl

Fetched(list) ==
  \/ Fresh /\ list = listed /\ UNCHANGED <<listed, cachedAt>>
  \/ ~Fresh /\ list = catalog /\ listed' = catalog /\ cachedAt' = now

\* Mutant: a refreshed record starts anew.
RefreshedAnew(list) ==
  [m \in Models |-> IF m \in list THEN [tiers |-> Offered[m], until |-> 0]
                    ELSE [tiers |-> {}, until |-> 0]]

\* refresh_active_models: what is listed keeps its rest, what is not is forgotten.
Refreshed(list) ==
  [m \in Models |-> IF m \in list THEN [tiers |-> Offered[m], until |-> registry[m].until]
                    ELSE [tiers |-> {}, until |-> 0]]

\* get_active_model_ids_for_complexity, but for its order.
ActiveIn(recs, t) == {m \in Models : t \in recs[m].tiers /\ recs[m].until <= now}

\* Mutant: the pool of the call's own tier only.
PoolOfTier(recs, t) == ActiveIn(recs, t)

\* The tier's active models or, if there are none, those of MEDIUM.
Pool(recs, t) == IF ActiveIn(recs, t) # {} THEN ActiveIn(recs, t) ELSE ActiveIn(recs, Medium)

\* deactivate_until: a model the registry does not have is not deactivated.
Deactivate(m) ==
  /\ resting' = [resting EXCEPT ![m] = now + Rest]
  /\ registry' = IF registry[m].tiers = {} THEN registry
                 ELSE [registry EXCEPT ![m].until = now + Rest]
  /\ UNCHANGED <<catalog, listed, cachedAt>>
=============================================================================
