------------------------------ MODULE ToolGate ------------------------------
(***************************************************************************)
(* A tools/call of the HTTP server from the two middlewares to its answer: *)
(* interface/inbound_tool_rate_limit.py with its limiter, then             *)
(* interface/privileged_tool_auth.py with Supabase, then the tool behind   *)
(* the tool cache, over RedisStore.  On stdio both middlewares pass every  *)
(* call on; the model is of the HTTP transports, with the caller's JWT     *)
(* required.                                                               *)
(*                                                                         *)
(* A request is its headers (bearer, jwt) and its arguments (tool, user,   *)
(* manager, tenant), absent ones Nothing.  An answer is named by the call  *)
(* whose tool made it.  The lock that run_cache_aside holds around the     *)
(* second read, the tool and the write is CacheAside's: without it here,   *)
(* calls of one key may do more, never less.                               *)
(***************************************************************************)
EXTENDS Integers, FiniteSets, RedisStore

CONSTANTS Inputs,      \* the requests that can arrive
          Privileged,  \* PRIVILEGED_TOOLS
          Uncached,    \* the tools that call _run themselves
          Judged,      \* the tools whose RPCs run under manager_jwt
          Owner,       \* the user each JWT belongs to, Nothing for no user's
          Managers,    \* the users whom the backend takes for managers
          Tenants,     \* tenants
          Moving,      \* bound: the memberships that come and go
          Limit,       \* limit_per_minute
          Window,      \* window_seconds
          MaxTime      \* bound of the clock

Jwts == DOMAIN Owner
Users == {Owner[j] : j \in Jwts} \ {Nothing}
Pairs == Users \X Tenants

ASSUME GateAssumption ==
  /\ Limit \in Nat \ {0}
  /\ Window \in Nat \ {0}
  /\ Moving \subseteq Pairs
  /\ Judged \subseteq Privileged
  /\ Nothing \notin Calls \cup Jwts \cup Tenants \cup Nat
  /\ \A r \in Inputs : r.jwt \in Jwts \cup {Nothing}

VARIABLES pc,       \* where each call is suspended
          req,      \* its request
          caller,   \* the user its JWT was verified as
          answer,   \* the call whose tool made its answer
          at,       \* when it was admitted
          window,   \* the limiter's _windows: the admitted calls of each key
          time,     \* time.monotonic()
          members,  \* Supabase: tenant_memberships
          seen      \* history: the memberships there were since each arrival

gateVars == <<pc, req, caller, answer, at, window, time, members, seen>>
vars == <<gateVars, storeVars>>

Asking == {"look", "relook", "save"}
Ended == {"answered", "refused", "denied", "failed"}
Live == {"verify", "member", "run"} \cup Asking

----------------------------------------------------------------------------

\* Mutant: the key of a cached answer leaves the user out.
CacheKeyNoUser(r) == <<r.tool, Nothing, r.tenant>>

\* build_cache_key of the tool's name and arguments.
CacheKey(r) == <<r.tool, r.user, r.tenant>>

\* _quota_key_from_headers.
QuotaKey(r) == IF r.bearer # Nothing THEN r.bearer
               ELSE IF r.jwt # Nothing THEN r.jwt ELSE "anonymous"

CacheKeys == {CacheKey(r) : r \in Inputs}
QuotaKeys == {QuotaKey(r) : r \in Inputs}

Init ==
  /\ pc = [c \in Calls |-> "new"]
  /\ req = [c \in Calls |-> Nothing]
  /\ caller = [c \in Calls |-> Nothing]
  /\ answer = [c \in Calls |-> Nothing]
  /\ at = [c \in Calls |-> Nothing]
  /\ window = [k \in QuotaKeys |-> {}]
  /\ time = 0
  /\ members = Pairs
  /\ seen = [c \in Calls |-> {}]
  /\ StoreInit(CacheKeys)

Goto(c, p) == pc' = [pc EXCEPT ![c] = p]

\* The tool starts: at once, or behind the cache.  A client for the backend
\* is made first, and only needs some manager_jwt.
Straight(r) == r.tool \in Uncached
Admitted(r) ==
  IF r.tool \in Judged /\ r.manager = Nothing THEN "failed"
  ELSE IF Straight(r) THEN "run" ELSE "look"

\* on_call_tool of the gate, and _enforce_caller up to its first await.
Checked(r) ==
  IF r.tool \notin Privileged THEN Admitted(r)
  ELSE IF r.jwt = Nothing THEN "denied" ELSE "verify"

\* Mutant: a stamp exactly one window old still counts.
PrunedLate(k) == {d \in window[k] : at[d] >= time - Window}

\* acquire: stamps up to the cutoff are popped from the left; they are in
\* the order of a monotonic clock, so every old one goes.
Pruned(k) == {d \in window[k] : at[d] > time - Window}

\* A call arrives and passes the limiter (nothing is awaited under its
\* lock) and the first checks of the gate.
Arrive(c, r) ==
  LET k == QuotaKey(r)
      old == Pruned(k)
  IN  /\ pc[c] = "new"
      /\ req' = [req EXCEPT ![c] = r]
      /\ seen' = [seen EXCEPT ![c] = members]
      /\ IF Cardinality(old) >= Limit
         THEN /\ Goto(c, "refused")
              /\ window' = [window EXCEPT ![k] = old]
              /\ UNCHANGED at
         ELSE /\ Goto(c, Checked(r))
              /\ window' = [window EXCEPT ![k] = old \cup {c}]
              /\ at' = [at EXCEPT ![c] = time]
      /\ UNCHANGED <<caller, answer, time, members, storeVars>>

\* The arguments name nobody but the user of the JWT.
Own(r, u) == r.user \in {Nothing, u} /\ r.manager \in {Nothing, r.jwt}

\* user_id_from_jwt returns from its thread, and the arguments are compared.
Verified(c) ==
  LET r == req[c]
      u == Owner[r.jwt]
  IN  /\ pc[c] = "verify"
      /\ u # Nothing
      /\ caller' = [caller EXCEPT ![c] = u]
      /\ Goto(c, IF ~Own(r, u) THEN "denied"
                 ELSE IF r.tenant # Nothing THEN "member" ELSE Admitted(r))
      /\ UNCHANGED <<req, answer, at, window, time, members, seen, storeVars>>

\* Supabase refuses the JWT (it ran out, or is nobody's) or does not answer.
Unverified(c) ==
  /\ pc[c] = "verify"
  /\ Goto(c, "denied")
  /\ UNCHANGED <<req, caller, answer, at, window, time, members, seen, storeVars>>

\* is_tenant_member returns from its thread ...
Member(c) ==
  /\ pc[c] = "member"
  /\ <<caller[c], req[c].tenant>> \in members
  /\ Goto(c, Admitted(req[c]))
  /\ UNCHANGED <<req, caller, answer, at, window, time, members, seen, storeVars>>

\* ... or finds no row, or raises.
NotMember(c) ==
  /\ pc[c] = "member"
  /\ Goto(c, "denied")
  /\ UNCHANGED <<req, caller, answer, at, window, time, members, seen, storeVars>>

\* What follows a read that missed, or a write.
Onward(p) == IF p = "look" THEN "relook" ELSE IF p = "relook" THEN "run"
             ELSE "answered"

\* The store keeps the call, or sends it on without a value.
Stores(c) ==
  /\ pc[c] \in Asking
  /\ \/ Inside(c) /\ UNCHANGED pc
     \/ Lost(c) /\ Goto(c, Onward(pc[c]))
  /\ UNCHANGED <<kept, req, caller, answer, at, window, time, members, seen>>

\* GET is answered.
Read(c) ==
  LET v == kept[CacheKey(req[c])]
  IN  /\ pc[c] \in {"look", "relook"}
      /\ Answered(c)
      /\ answer' = [answer EXCEPT ![c] = v]
      /\ Goto(c, IF v # Nothing THEN "answered" ELSE Onward(pc[c]))
      /\ UNCHANGED <<kept, req, caller, at, window, time, members, seen>>

\* The backend executes the RPCs of a call for a manager only.
Accepted(c) == req[c].tool \in Judged => Owner[req[c].manager] \in Managers

\* The tool returns ...
Returns(c) ==
  /\ pc[c] = "run"
  /\ Accepted(c)
  /\ answer' = [answer EXCEPT ![c] = c]
  /\ Goto(c, IF Straight(req[c]) THEN "answered" ELSE "save")
  /\ UNCHANGED <<req, caller, at, window, time, members, seen, storeVars>>

\* ... or raises.
Raises(c) ==
  /\ pc[c] = "run"
  /\ Goto(c, "failed")
  /\ UNCHANGED <<req, caller, answer, at, window, time, members, seen, storeVars>>

\* Redis executes the SET of c; its answer is still to come, or is lost.
Written(c) ==
  /\ pc[c] = "save"
  /\ op[c] = "command"
  /\ kept' = [kept EXCEPT ![CacheKey(req[c])] = c]
  /\ \/ Answered(c) /\ Goto(c, "answered")
     \/ Breaks(c) /\ UNCHANGED pc
  /\ UNCHANGED <<req, caller, answer, at, window, time, members, seen>>

\* The client goes away: the call ends where it is suspended.
Cancel(c) ==
  /\ pc[c] \in Live
  /\ Goto(c, "failed")
  /\ Ends(c)
  /\ UNCHANGED <<available, connected, kept, req, caller, answer, at, window,
                 time, members, seen>>

----------------------------------------------------------------------------
(* Supabase, Redis and the clock *)

\* A user leaves a tenant or joins it.
Leaves(p) ==
  /\ p \in members
  /\ members' = members \ {p}
  /\ UNCHANGED <<pc, req, caller, answer, at, window, time, seen, storeVars>>

Joins(p) ==
  /\ p \notin members
  /\ members' = members \cup {p}
  /\ seen' = [c \in Calls |-> seen[c] \cup {p}]
  /\ UNCHANGED <<pc, req, caller, answer, at, window, time, storeVars>>

\* Time matters to calls that are to come.
Tick ==
  /\ time < MaxTime
  /\ \E c \in Calls : pc[c] = "new"
  /\ time' = time + 1
  /\ UNCHANGED <<pc, req, caller, answer, at, window, members, seen, storeVars>>

Step(c) ==
  \/ Verified(c) \/ Unverified(c) \/ Member(c) \/ NotMember(c)
  \/ Stores(c) \/ Read(c) \/ Returns(c) \/ Raises(c) \/ Written(c)

Next ==
  \/ \E c \in Calls : Step(c) \/ Cancel(c) \/ \E r \in Inputs : Arrive(c, r)
  \/ \E p \in Moving : Leaves(p) \/ Joins(p)
  \/ \E k \in CacheKeys : Expire(k) /\ UNCHANGED gateVars
  \/ Tick

\* Supabase's client and the tools have timeouts, and a Redis command is
\* answered or its connection breaks: every await of a call ends.
Fairness == \A c \in Calls : WF_vars(Step(c))

Spec == Init /\ [][Next]_vars /\ Fairness

----------------------------------------------------------------------------
(* Properties *)

TypeOK ==
  /\ pc \in [Calls -> {"new"} \cup Live \cup Ended]
  /\ req \in [Calls -> Inputs \cup {Nothing}]
  /\ caller \in [Calls -> Users \cup {Nothing}]
  /\ answer \in [Calls -> Calls \cup {Nothing}]
  /\ at \in [Calls -> Nat \cup {Nothing}]
  /\ window \in [QuotaKeys -> SUBSET Calls]
  /\ time \in Nat
  /\ members \in SUBSET Pairs
  /\ seen \in [Calls -> SUBSET Pairs]
  /\ available \in {"unknown", "up", "down"}
  /\ connected \in BOOLEAN
  /\ op \in [Calls -> Ops]
  /\ kept \in [CacheKeys -> Calls \cup {Nothing}]

\* The caller of c may have what its arguments ask for: it was verified, it
\* is the user and the manager they name, and it belonged to their tenant at
\* some moment of the call.
Entitled(c) ==
  LET r == req[c]
  IN  r.tool \in Privileged =>
        /\ caller[c] # Nothing
        /\ Own(r, caller[c])
        /\ r.tenant # Nothing => <<caller[c], r.tenant>> \in seen[c]

\* The caller of an answer passed the gate's own checks, and the answer, also
\* one out of the cache, was made for the same tool, user and tenant, by a
\* call that passed them itself and whose RPCs the backend did not refuse; a
\* tool that is not cached answers with its own work.  Whether the backend
\* would have accepted the caller of a cached answer is SaverIsManager.
AnswersFit ==
  \A c \in Calls : pc[c] = "answered" =>
    LET d == answer[c]
    IN  /\ Entitled(c)
        /\ d # Nothing
        /\ <<req[d].tool, req[d].user, req[d].tenant>>
             = <<req[c].tool, req[c].user, req[c].tenant>>
        /\ Entitled(d) /\ Accepted(d)
        /\ req[c].tool \in Uncached => d = c

\* docs/MCP_TOOL_CATALOG.md:21, "be a **manager+ user** access token": who is
\* answered by a tool that wants a manager's JWT is a manager.  This does not
\* hold: the key of save_to_backend's answer has no caller, so the answer to
\* a manager's save is replayed to who repeats it, without an RPC.
SaverIsManager == \A c \in Calls : pc[c] = "answered" => Accepted(c)

\* The calls of key k that were admitted less than a window ago.
Recent(k) == {d \in Calls : at[d] # Nothing /\ QuotaKey(req[d]) = k
                              /\ at[d] > time - Window}

\* The limiter turns a call away exactly when Limit calls of its key were
\* admitted in the window that ends with it: never for the calls of others,
\* and never one too many or too few at the window's edge.
QuotaIsExact ==
  [][\A c \in Calls : pc[c] = "new" /\ pc'[c] # "new" =>
       (pc'[c] = "refused"
          <=> Cardinality(Recent(QuotaKey(req'[c]))) >= Limit)]_vars

\* Every call that arrived ends, whatever becomes of Redis and Supabase.
EveryCallEnds == \A c \in Calls : pc[c] \in Live ~> pc[c] \in Ended
=============================================================================
