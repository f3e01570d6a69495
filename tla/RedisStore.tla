----------------------------- MODULE RedisStore -----------------------------
(***************************************************************************)
(* infrastructure/redis_cache_store.py: RedisCacheStore as the tasks that  *)
(* read and write it share it.  A task is in at most one get or set; an    *)
(* action is the code it runs between two awaits.  A module that extends   *)
(* this one says what a task goes on with.                                 *)
(*                                                                         *)
(* Which client object self._client is does not matter: any command, also  *)
(* one on a client another task closes, may fail at any moment.            *)
(***************************************************************************)
CONSTANTS Calls,    \* the tasks
          Nothing   \* no value

VARIABLES available,  \* self._available: "unknown" (None), "up", "down"
          connected,  \* self._client is not None
          op,         \* the await of the store each task is in
          kept        \* Redis: what each key holds, Nothing when absent

storeVars == <<available, connected, op, kept>>

Ops == {"idle", "ping", "command", "close"}

StoreInit(Keys) ==
  /\ available = "unknown"
  /\ connected = FALSE
  /\ op = [c \in Calls |-> "idle"]
  /\ kept = [k \in Keys |-> Nothing]

\* The get or set of c is over, whatever came of it.
Ends(c) == op' = [op EXCEPT ![c] = "idle"]

\* _get_client of a store that was found unreachable: there is none.
Down(c) == /\ op[c] = "idle"
           /\ available = "down"
           /\ UNCHANGED <<available, connected, op>>

\* _get_client: the command is sent on the client there is, or a new one
\* is pinged first.
Send(c) ==
  /\ op[c] = "idle"
  /\ available # "down"
  /\ op' = [op EXCEPT ![c] = IF connected THEN "command" ELSE "ping"]
  /\ UNCHANGED <<available, connected>>

\* The ping is answered: the client becomes the store's, over another's.
Pinged(c) ==
  /\ op[c] = "ping"
  /\ connected' = TRUE
  /\ available' = "up"
  /\ op' = [op EXCEPT ![c] = "command"]

\* The ping fails: the store is down, also for a client made meanwhile.
PingFails(c) ==
  /\ op[c] = "ping"
  /\ connected' = FALSE
  /\ available' = "down"
  /\ Ends(c)

\* Mutant: the failed command is sent again instead of given up.
BreaksAgain(c) ==
  /\ op[c] = "command"
  /\ connected
  /\ op' = [op EXCEPT ![c] = "idle"]
  /\ UNCHANGED <<available, connected>>

\* A command raises RedisError and there is a client to close.
Breaks(c) ==
  /\ op[c] = "command"
  /\ connected
  /\ op' = [op EXCEPT ![c] = "close"]
  /\ UNCHANGED <<available, connected>>

\* A command raises and another task has closed the client already.
BreaksClosed(c) ==
  /\ op[c] = "command"
  /\ ~connected
  /\ available' = "unknown"
  /\ Ends(c)
  /\ UNCHANGED connected

\* aclose() returns: the client of the store goes, whoever made it.
Closed(c) ==
  /\ op[c] = "close"
  /\ connected' = FALSE
  /\ available' = "unknown"
  /\ Ends(c)

\* A get or a set ends without a value.
Lost(c) == Down(c) \/ PingFails(c) \/ BreaksClosed(c) \/ Closed(c)

\* The task is inside the store and stays there.
Inside(c) == Send(c) \/ Pinged(c) \/ Breaks(c)

\* The command is answered.
Answered(c) ==
  /\ op[c] = "command"
  /\ Ends(c)
  /\ UNCHANGED <<available, connected>>

\* The entry's time to live runs out.
Expire(k) ==
  /\ kept[k] # Nothing
  /\ kept' = [kept EXCEPT ![k] = Nothing]
  /\ UNCHANGED <<available, connected, op>>

----------------------------------------------------------------------------

\* The flag and the client go together, although every task changes them
\* after an await of its own: a store that is down keeps no client and one
\* that is up has one.
Coherent == connected <=> available = "up"
=============================================================================
