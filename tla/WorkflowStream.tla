---------------------------- MODULE WorkflowStream ----------------------------
(***************************************************************************)
(* application/workflow_trace.py: stream_graph_with_trace over              *)
(* _stream_with_timeout.  A producer task drives a graph and puts what it  *)
(* yields in an unbounded queue; the caller takes it out, item by item,    *)
(* under a deadline that also counts the time the caller spends on an      *)
(* item.  When the caller leaves the stream, the producer is cancelled.    *)
(*                                                                         *)
(* This module has the queue, the deadline and the caller; the module of a *)
(* graph extends it and says what the producer puts.                       *)
(***************************************************************************)
EXTENDS Integers, Sequences

CONSTANT Payloads  \* what a finished graph can have made

VARIABLES producer,  \* whether the producer task still drives the graph
          queue,     \* what was put and not taken yet
          expired,   \* whether the deadline has passed
          caller,    \* where the caller is
          result     \* the state of the GraphStreamComplete it was given

streamVars == <<producer, queue, expired, caller, result>>

Nothing == [none |-> TRUE, made |-> {}]
Given(m) == [none |-> FALSE, made |-> m]

\* WorkflowTraceStart and WorkflowTraceStep, GraphStreamComplete, an
\* exception of the graph, and the None that ends the stream.  A completion
\* remembers whether it was put before the deadline.
Event(k, m, t) == [kind |-> k, made |-> m, inTime |-> t]
Item == Event("item", {}, FALSE)
Raised == Event("raised", {}, FALSE)
End == Event("end", {}, FALSE)
Complete(m) == Event("complete", m, ~expired)

Events == [kind : {"item", "raised", "end", "complete"},
           made : Payloads \cup {{}}, inTime : BOOLEAN]

Left == {"answered", "raised", "cancelled"}

StreamTypeOK ==
  /\ producer \in {"running", "stopped"}
  /\ queue \in Seq(Events)
  /\ expired \in BOOLEAN
  /\ caller \in {"waiting", "handling", "timingOut", "cancelling"} \cup Left
  /\ result \in {Nothing} \cup {Given(m) : m \in Payloads}

\* The graph enters its first node.
StreamInit ==
  /\ producer = "running"
  /\ queue = <<Item>>
  /\ expired = FALSE
  /\ caller = "waiting"
  /\ result = Nothing

----------------------------------------------------------------------------
(* The producer *)

Driving == producer = "running" /\ caller \notin {"timingOut", "cancelling"}

\* The graph goes on, and what it yields is put in the queue ...
Put(es) ==
  /\ queue' = queue \o es
  /\ UNCHANGED <<producer, expired, caller, result>>

\* ... or it has ended: None follows, without a suspension in between.
PutLast(es) ==
  /\ queue' = (queue \o es) \o <<End>>
  /\ producer' = "stopped"
  /\ UNCHANGED <<expired, caller, result>>

----------------------------------------------------------------------------
(* The caller: the loop of _stream_with_timeout and the async for over it *)

\* What the caller does with the next event, if the deadline allows it.  An
\* item is handled outside the generator, which stays suspended meanwhile.
Take ==
  /\ caller = "waiting"
  /\ ~expired
  /\ queue # <<>>
  /\ queue' = Tail(queue)
  /\ LET e == Head(queue)
     IN  /\ result' = IF e.kind = "complete" THEN Given(e.made) ELSE result
         /\ caller' = CASE e.kind = "item"     -> "handling"
                        [] e.kind = "complete" -> "waiting"
                        [] e.kind = "raised"   -> "raised"
                        [] e.kind = "end"      -> IF result.none THEN "raised"
                                                  ELSE "answered"
  /\ UNCHANGED <<producer, expired>>

\* The caller is done with an item: its report went through or was given up.
Handled ==
  /\ caller = "handling"
  /\ caller' = "waiting"
  /\ UNCHANGED <<producer, queue, expired, result>>

Expire ==
  /\ ~expired
  /\ expired' = TRUE
  /\ UNCHANGED <<producer, queue, caller, result>>

\* Mutants: the wait for the queue has no deadline; a caller that times out
\* does not cancel the producer.
TimedOutNever == FALSE /\ UNCHANGED streamVars
TimedOutLeaving ==
  /\ caller = "waiting"
  /\ expired
  /\ caller' = "raised"
  /\ UNCHANGED <<producer, queue, expired, result>>

\* The deadline passes while the caller waits, or has passed while it
\* handled an item: the producer is cancelled, whatever is in the queue ...
TimedOut ==
  /\ caller = "waiting"
  /\ expired
  /\ caller' = "timingOut"
  /\ UNCHANGED <<producer, queue, expired, result>>

\* ... and awaited, before the exception goes on.  The producer swallows the
\* CancelledError, and so a cancellation of the caller that meets it here.
Drained ==
  /\ caller \in {"timingOut", "cancelling"}
  /\ producer' = "stopped"
  /\ caller' = IF caller = "timingOut" THEN "raised" ELSE "cancelled"
  /\ UNCHANGED <<queue, expired, result>>

\* The caller is cancelled: inside the generator, which cancels the producer,
\* or while it handles an item, where the generator is merely dropped ...
CancelCaller ==
  /\ \/ caller = "waiting" /\ caller' = "cancelling"
     \/ caller = "handling" /\ caller' = "cancelled"
  /\ UNCHANGED <<producer, queue, expired, result>>

\* ... and closed by the event loop's hook for generators, some time later.
Finalized ==
  /\ caller = "cancelled"
  /\ producer = "running"
  /\ producer' = "stopped"
  /\ UNCHANGED <<queue, expired, caller, result>>

StreamStep == Take \/ Handled \/ Expire \/ TimedOut \/ Drained \/ Finalized
=============================================================================
