----------------------- MODULE ContentGenerationProofs -----------------------
(***************************************************************************)
(* Proofs about ContentGeneration, for every number of retries: its type   *)
(* invariant, the bound on the calls of the model, and that it implements  *)
(* GenerationPromise.                                                      *)
(***************************************************************************)
EXTENDS ContentGeneration, SequenceTheorems, TLAPS

----------------------------------------------------------------------------
(* The inductive invariants *)

\* The artifacts made before artifact a.
Before(a) == CASE a = "lesson" -> {}
               [] a = "quiz"   -> {"lesson"}
               [] a = "pbl"    -> {"lesson", "quiz"}

\* The state of the graph follows from the node it is in, and the producer
\* has stopped when the graph has ended.
NodeInv ==
  /\ asking => node = "generate"
  /\ node \in {"end", "broken"} => producer = "stopped"
  /\ node = "generate" => have = Before(of)
  /\ node = "validate" => have = Before(of) \/ have = Before(of) \cup {of}

\* What is true of an event as long as it is in the queue: a completion is
\* of the finished graph, and a producer that put its last event has stopped.
Sound(e, n, h, p) ==
  /\ e.kind = "complete" => n = "end" /\ e.made = h
  /\ e.kind # "item" => p = "stopped"

QueueInv == \A i \in 1..Len(queue) : Sound(queue[i], node, have, producer)

\* What the caller holds, and how it left, is true of the graph.
CallerInv ==
  /\ ~result.none => node = "end" /\ result.made = have
  /\ caller = "answered" => ~result.none
  /\ caller = "raised" => producer = "stopped"

GenInv == TypeOK /\ NodeInv /\ QueueInv /\ CallerInv

\* The calls of the model for an artifact, by the failures counted so far:
\* the attempts of the try in hand, or all those a try may take.  An artifact
\* the graph has not come to has cost nothing.
PerTry == NodeRetries + 1
Spent(a, n) == calls[a] <= retries[a] * PerTry + n
Untouched(a) == calls[a] = 0 /\ retries[a] = 0

CallsInv ==
  /\ \A a \in Artifacts :
       \/ retries[a] <= ValidationRetries /\ Spent(a, PerTry)
       \/ Spent(a, 0)
  /\ node = "generate" =>
       /\ retries[of] <= ValidationRetries
       /\ Spent(of, attempts + (IF asking THEN 1 ELSE 0))
  /\ node = "validate" => retries[of] <= ValidationRetries /\ Spent(of, PerTry)
  /\ node \in {"generate", "validate"} =>
       /\ of = "lesson" => Untouched("quiz") /\ Untouched("pbl")
       /\ of = "quiz" => Untouched("pbl")

\* Every counted failure was asked for, and so was the answer in hand; the
\* graph comes to its end with all artifacts, or without one that has no
\* retry left.
AskedInv ==
  /\ \A a \in Artifacts : retries[a] <= calls[a]
  /\ asking \/ node = "validate" => retries[of] < calls[of]
  /\ node \in {"merge", "end"} =>
       \/ have = Artifacts
       \/ of \notin have /\ retries[of] > ValidationRetries

----------------------------------------------------------------------------
(* Lemmas *)

\* What is put in the queue is behind what is there, and nothing else is.
LEMMA Appended ==
  ASSUME NEW S, NEW q \in Seq(S), NEW r \in Seq(S)
  PROVE  /\ q \o r \in Seq(S)
         /\ \A i \in 1..Len(q \o r) :
              \/ \E j \in 1..Len(q) : (q \o r)[i] = q[j]
              \/ \E j \in 1..Len(r) : (q \o r)[i] = r[j]
<1>1. /\ q \o r \in Seq(S)
      /\ Len(q \o r) = Len(q) + Len(r)
      /\ \A i \in 1..Len(q) + Len(r) :
           (q \o r)[i] = IF i <= Len(q) THEN q[i] ELSE r[i - Len(q)]
  BY ConcatProperties
<1>2. Len(q) \in Nat /\ Len(r) \in Nat
  OBVIOUS
<1>3. ASSUME NEW i \in 1..Len(q \o r)
      PROVE  \/ \E j \in 1..Len(q) : (q \o r)[i] = q[j]
             \/ \E j \in 1..Len(r) : (q \o r)[i] = r[j]
  <2>1. CASE i <= Len(q)
    <3>1. i \in 1..Len(q) /\ (q \o r)[i] = q[i]
      BY <1>1, <1>2, <1>3, <2>1
    <3> QED
      BY <3>1
  <2>2. CASE ~(i <= Len(q))
    <3>1. i - Len(q) \in 1..Len(r) /\ (q \o r)[i] = r[i - Len(q)]
      BY <1>1, <1>2, <1>3, <2>2
    <3> QED
      BY <3>1
  <2> QED
    BY <2>1, <2>2
<1> QED
  BY <1>1, <1>3

\* The events the producer puts are events.
LEMMA EventTypes ==
  ASSUME TypeOK
  PROVE  /\ Item \in Events /\ Raised \in Events /\ End \in Events
         /\ \A m \in Payloads : Complete(m) \in Events
         /\ Item.kind = "item" /\ Raised.kind = "raised" /\ End.kind = "end"
         /\ \A m : Complete(m).kind = "complete" /\ Complete(m).made = m
BY DEF TypeOK, StreamTypeOK, Item, Raised, End, Complete, Event, Events

----------------------------------------------------------------------------
(* Types, the queue and the caller *)

LEMMA GenInit == ASSUME Init PROVE GenInv
<1> USE RetriesAssumption DEF Init, StreamInit
<1>1. <<Item>> \in Seq(Events) /\ Len(<<Item>>) = 1 /\ <<Item>>[1] = Item
  <2>1. Item \in Events
    BY DEF Item, Event, Events
  <2> QED
    BY <2>1
<1>2. TypeOK
  <2>1. StreamTypeOK
    BY <1>1 DEF StreamTypeOK
  <2>2. retries \in [Artifacts -> 0..(ValidationRetries + 1)]
        /\ calls \in [Artifacts -> Nat]
    BY DEF Artifacts
  <2>3. of \in Artifacts /\ have \in Payloads /\ attempts \in 0..NodeRetries
    BY DEF Artifacts
  <2> QED
    BY <2>1, <2>2, <2>3 DEF TypeOK
<1>3. QueueInv
  <2>1. ASSUME NEW i \in 1..Len(queue) PROVE queue[i].kind = "item"
    <3>1. i = 1
      BY <1>1
    <3> QED
      BY <1>1, <3>1 DEF Item, Event
  <2> QED
    BY <2>1 DEF QueueInv, Sound
<1>4. NodeInv /\ CallerInv
  BY DEF NodeInv, CallerInv, Before, Nothing
<1> QED
  BY <1>2, <1>3, <1>4 DEF GenInv

\* A step that puts sound events and keeps those before them sound.
LEMMA PutKeepsQueue ==
  ASSUME GenInv, NEW es \in Seq(Events), queue' = queue \o es,
         \A e \in Events : Sound(e, node, have, producer)
                             => Sound(e, node', have', producer'),
         \A i \in 1..Len(es) : Sound(es[i], node', have', producer')
  PROVE  queue' \in Seq(Events) /\ QueueInv'
<1>1. queue \in Seq(Events) /\ \A i \in 1..Len(queue) : queue[i] \in Events
  BY DEF GenInv, TypeOK, StreamTypeOK
<1>2. \A i \in 1..Len(queue) : Sound(queue[i], node', have', producer')
  BY <1>1 DEF GenInv, QueueInv
<1>3. \A i \in 1..Len(queue') : Sound(queue'[i], node', have', producer')
  BY <1>1, <1>2, Appended
<1>4. queue' \in Seq(Events)
  BY <1>1, Appended
<1> QED
  BY <1>3, <1>4 DEF QueueInv

\* A step that takes nothing and puts nothing.
LEMMA KeptQueue ==
  ASSUME GenInv, queue' = queue,
         \A e \in Events : Sound(e, node, have, producer)
                             => Sound(e, node', have', producer')
  PROVE  queue' \in Seq(Events) /\ QueueInv'
<1>1. queue \in Seq(Events) /\ \A i \in 1..Len(queue) : queue[i] \in Events
  BY DEF GenInv, TypeOK, StreamTypeOK
<1> QED
  BY <1>1 DEF GenInv, QueueInv

\* One event is a sequence of events.
LEMMA Single ==
  ASSUME NEW a \in Events
  PROVE  <<a>> \in Seq(Events) /\ \A i \in 1..Len(<<a>>) : <<a>>[i] = a
<1>1. <<a>> \in Seq(Events) /\ Len(<<a>>) = 1 /\ <<a>>[1] = a
  OBVIOUS
<1>2. \A i \in 1..1 : i = 1
  OBVIOUS
<1> QED
  BY <1>1, <1>2

\* Two events are a sequence of events.
LEMMA Pair ==
  ASSUME NEW a \in Events, NEW b \in Events
  PROVE  /\ <<a, b>> \in Seq(Events) /\ Len(<<a, b>>) = 2
         /\ \A i \in 1..2 : <<a, b>>[i] = a \/ <<a, b>>[i] = b
<1>1. <<a, b>> \in Seq(Events) /\ Len(<<a, b>>) = 2
  OBVIOUS
<1>2. <<a, b>>[1] = a /\ <<a, b>>[2] = b
  OBVIOUS
<1>3. \A i \in 1..2 : i = 1 \/ i = 2
  OBVIOUS
<1> QED
  BY <1>1, <1>2, <1>3

----------------------------------------------------------------------------
(* The steps of the graph *)

LEMMA AskKeeps == ASSUME GenInv, Ask PROVE GenInv'
<1> USE DEF Ask, streamVars
<1>1. queue' \in Seq(Events) /\ QueueInv'
  <2>1. \A e \in Events : Sound(e, node, have, producer)
                            => Sound(e, node', have', producer')
    BY DEF Sound
  <2> QED
    BY <2>1, KeptQueue
<1>2. TypeOK'
  BY <1>1 DEF GenInv, TypeOK, StreamTypeOK
<1>3. NodeInv' /\ CallerInv'
  BY DEF GenInv, NodeInv, CallerInv
<1> QED
  BY <1>1, <1>2, <1>3 DEF GenInv

\* Two items are put by a graph that has not ended.
LEMMA ItemsKeepQueue ==
  ASSUME GenInv, queue' = queue \o <<Item, Item>>,
         node \notin {"end", "broken"}, producer' = producer
  PROVE  queue' \in Seq(Events) /\ QueueInv'
<1>1. Item \in Events /\ Item.kind = "item"
  BY EventTypes DEF GenInv
<1>2. /\ <<Item, Item>> \in Seq(Events) /\ Len(<<Item, Item>>) = 2
      /\ \A i \in 1..2 : <<Item, Item>>[i] = Item
  BY <1>1, Pair
<1>3. \A e \in Events : Sound(e, node, have, producer)
                          => Sound(e, node', have', producer')
  BY DEF Sound
<1>4. \A i \in 1..Len(<<Item, Item>>) : Sound(<<Item, Item>>[i], node', have', producer')
  BY <1>1, <1>2 DEF Sound
<1> QED
  BY <1>2, <1>3, <1>4, PutKeepsQueue

LEMMA DraftedKeeps == ASSUME GenInv, Drafted PROVE GenInv'
<1> USE DEF Drafted, Put
<1>1. queue' \in Seq(Events) /\ QueueInv'
  <2>1. node \notin {"end", "broken"}
    BY DEF GenInv, NodeInv
  <2> QED
    BY <2>1, ItemsKeepQueue
<1>2. have' \in Payloads
  BY RetriesAssumption DEF GenInv, TypeOK, Artifacts
<1>3. TypeOK'
  <2>1. StreamTypeOK'
    BY <1>1 DEF GenInv, TypeOK, StreamTypeOK
  <2>2. 0 \in 0..NodeRetries
    BY RetriesAssumption
  <2> QED
    BY <1>2, <2>1, <2>2 DEF GenInv, TypeOK
<1>4. NodeInv'
  BY DEF GenInv, TypeOK, NodeInv, Before
<1>5. CallerInv'
  BY DEF GenInv, NodeInv, CallerInv
<1> QED
  BY <1>1, <1>3, <1>4, <1>5 DEF GenInv

LEMMA ValidateKeeps == ASSUME GenInv, CallsInv, Validate PROVE GenInv'
<1> USE DEF Validate, Put
<1>1. queue' \in Seq(Events) /\ QueueInv'
  BY ItemsKeepQueue
<1>2. retries' \in [Artifacts -> 0..(ValidationRetries + 1)]
  <2>1. retries[of] + 1 \in 0..(ValidationRetries + 1)
    BY RetriesAssumption DEF GenInv, TypeOK, CallsInv
  <2> QED
    BY <2>1 DEF GenInv, TypeOK
<1>3. TypeOK'
  BY <1>1, <1>2 DEF GenInv, TypeOK, StreamTypeOK, Artifacts
<1>4. NodeInv'
  <2>1. ~asking
    BY DEF GenInv, NodeInv
  <2>2. CASE of \in have
    <3>1. have = Before(of) \cup {of}
      BY <2>2 DEF GenInv, NodeInv, TypeOK, Artifacts, Before
    <3> QED
      BY <2>1, <2>2, <3>1 DEF Route, NodeInv, Before, GenInv, TypeOK, Artifacts
  <2>3. CASE of \notin have
    <3>1. have = Before(of)
      BY <2>3 DEF GenInv, NodeInv
    <3> QED
      BY <2>1, <2>3, <3>1 DEF Route, NodeInv, GenInv
  <2> QED
    BY <2>2, <2>3
<1>5. CallerInv'
  BY DEF GenInv, NodeInv, CallerInv
<1> QED
  BY <1>1, <1>3, <1>4, <1>5 DEF GenInv

\* A graph ends: its last events and the end are put.
LEMMA LastEvents ==
  ASSUME GenInv, NEW es \in Seq(Events), PutLast(es),
         node \notin {"end", "broken"},
         \A i \in 1..Len(es) : Sound(es[i], node', have', producer')
  PROVE  queue' \in Seq(Events) /\ QueueInv'
<1> DEFINE all == es \o <<End>>
<1>1. End \in Events /\ End.kind = "end" /\ producer' = "stopped"
  BY EventTypes DEF GenInv, PutLast
<1>2. <<End>> \in Seq(Events) /\ Len(<<End>>) = 1 /\ <<End>>[1] = End
  BY <1>1
<1>3. queue \in Seq(Events)
  BY DEF GenInv, TypeOK, StreamTypeOK
<1>4. all \in Seq(Events)
  BY <1>2, Appended
<1>5. queue' = queue \o all
  BY <1>2, <1>3, ConcatAssociative DEF PutLast
<1>6. \A e \in Events : Sound(e, node, have, producer)
                          => Sound(e, node', have', producer')
  BY <1>1 DEF Sound
<1>7. \A i \in 1..Len(<<End>>) : Sound(<<End>>[i], node', have', producer')
  BY <1>1, <1>2 DEF Sound
<1>8. \A i \in 1..Len(all) : Sound(all[i], node', have', producer')
  BY <1>2, <1>7, Appended
<1> HIDE DEF all
<1> QED
  BY <1>4, <1>5, <1>6, <1>8, PutKeepsQueue

LEMMA NodeRaisesKeeps == ASSUME GenInv, NodeRaises PROVE GenInv'
<1> USE DEF NodeRaises
<1>1. node = "generate"
  BY DEF GenInv, NodeInv
<1>2. CASE /\ MayAttempt
           /\ attempts' = attempts + 1
           /\ UNCHANGED <<node, streamVars>>
  <2>1. queue' \in Seq(Events) /\ QueueInv'
    <3>1. \A e \in Events : Sound(e, node, have, producer)
                              => Sound(e, node', have', producer')
      BY <1>2 DEF Sound, streamVars
    <3> QED
      BY <1>2, <3>1, KeptQueue DEF streamVars
  <2>2. attempts' \in 0..NodeRetries
    BY <1>2, RetriesAssumption DEF GenInv, TypeOK, MayAttempt
  <2>3. TypeOK'
    BY <1>2, <2>1, <2>2 DEF GenInv, TypeOK, StreamTypeOK, streamVars
  <2>4. NodeInv' /\ CallerInv'
    BY <1>2 DEF GenInv, NodeInv, CallerInv, streamVars
  <2> QED
    BY <2>1, <2>3, <2>4 DEF GenInv
<1>3. CASE /\ node' = "broken"
           /\ PutLast(<<Raised>>)
           /\ UNCHANGED attempts
  <2>1. queue' \in Seq(Events) /\ QueueInv'
    <3>1. Raised \in Events /\ Raised.kind = "raised"
      BY EventTypes DEF GenInv
    <3>2. /\ <<Raised>> \in Seq(Events)
          /\ \A i \in 1..Len(<<Raised>>) : <<Raised>>[i] = Raised
      BY <3>1, Single
    <3>3. Sound(Raised, node', have', producer')
      <4>1. producer' = "stopped"
        BY <1>3 DEF PutLast
      <4> QED
        BY <3>1, <4>1 DEF Sound
    <3>4. \A i \in 1..Len(<<Raised>>) : Sound(<<Raised>>[i], node', have', producer')
      BY <3>2, <3>3
    <3> QED
      BY <1>1, <1>3, <3>2, <3>4, LastEvents
  <2>2. TypeOK'
    BY <1>3, <2>1 DEF GenInv, TypeOK, StreamTypeOK, PutLast
  <2>3. NodeInv' /\ CallerInv'
    BY <1>1, <1>3 DEF GenInv, NodeInv, CallerInv, PutLast
  <2> QED
    BY <2>1, <2>2, <2>3 DEF GenInv
<1> QED
  BY <1>2, <1>3

LEMMA MergedKeeps == ASSUME GenInv, Merged PROVE GenInv'
<1> USE DEF Merged
<1>1. queue' \in Seq(Events) /\ QueueInv'
  <2> DEFINE done == Complete(have)
  <2>1. Item \in Events /\ Item.kind = "item" /\ have \in Payloads
    BY EventTypes DEF GenInv, TypeOK
  <2>2. done \in Events /\ done.kind = "complete" /\ done.made = have
    BY <2>1, EventTypes DEF GenInv
  <2> HIDE DEF done
  <2>3. /\ <<Item, done>> \in Seq(Events) /\ Len(<<Item, done>>) = 2
        /\ \A i \in 1..2 : <<Item, done>>[i] = Item \/ <<Item, done>>[i] = done
    BY <2>1, <2>2, Pair
  <2>4. PutLast(<<Item, done>>)
    BY DEF done
  <2>5. \A i \in 1..Len(<<Item, done>>) : Sound(<<Item, done>>[i], node', have', producer')
    BY <2>1, <2>2, <2>3, <2>4 DEF Sound, PutLast
  <2> QED
    BY <2>3, <2>4, <2>5, LastEvents
<1>2. TypeOK'
  BY <1>1 DEF GenInv, TypeOK, StreamTypeOK, PutLast
<1>3. NodeInv' /\ CallerInv'
  BY DEF GenInv, NodeInv, CallerInv, PutLast
<1> QED
  BY <1>1, <1>2, <1>3 DEF GenInv

----------------------------------------------------------------------------
(* The steps of the caller *)

LEMMA TakeKeeps == ASSUME GenInv, Take, UNCHANGED graphVars PROVE GenInv'
<1> DEFINE e == Head(queue)
<1>1. queue \in Seq(Events) /\ queue # <<>>
  BY DEF GenInv, TypeOK, StreamTypeOK, Take
<1>2. /\ e \in Events /\ Tail(queue) \in Seq(Events)
      /\ Len(Tail(queue)) = Len(queue) - 1
      /\ \A i \in 1..Len(Tail(queue)) : Tail(queue)[i] = queue[i + 1]
  BY <1>1, HeadTailProperties
<1>3. 1 \in 1..Len(queue) /\ e = queue[1]
  BY <1>1
<1>4. Sound(e, node, have, producer)
  BY <1>3 DEF GenInv, QueueInv
<1>5. queue' \in Seq(Events) /\ QueueInv'
  <2>1. \A i \in 1..Len(Tail(queue)) : i + 1 \in 1..Len(queue)
    BY <1>1, <1>2
  <2>2. queue' = Tail(queue)
    BY DEF Take
  <2> QED
    BY <1>2, <2>1, <2>2 DEF GenInv, QueueInv, Take, graphVars
<1>6. e.kind \in {"item", "raised", "end", "complete"} /\ e.made \in Payloads
  BY <1>2, RetriesAssumption DEF Events
<1> HIDE DEF e
<1>7. /\ result' = IF e.kind = "complete" THEN Given(e.made) ELSE result
      /\ caller' = CASE e.kind = "item"     -> "handling"
                     [] e.kind = "complete" -> "waiting"
                     [] e.kind = "raised"   -> "raised"
                     [] e.kind = "end"      -> IF result.none THEN "raised"
                                               ELSE "answered"
      /\ UNCHANGED <<producer, expired>>
  BY DEF Take, e
<1>8. StreamTypeOK'
  BY <1>5, <1>6, <1>7 DEF GenInv, TypeOK, StreamTypeOK, Left
<1>9. TypeOK'
  BY <1>8 DEF GenInv, TypeOK, graphVars
<1>10. NodeInv'
  BY <1>7 DEF GenInv, NodeInv, graphVars, Before
<1>11. CallerInv'
  BY <1>4, <1>6, <1>7 DEF GenInv, CallerInv, Sound, Given, graphVars
<1> QED
  BY <1>5, <1>9, <1>10, <1>11 DEF GenInv

LEMMA CallerKeeps ==
  ASSUME GenInv, UNCHANGED graphVars,
         Handled \/ Expire \/ TimedOut \/ Drained \/ Finalized \/ CancelCaller
  PROVE  GenInv'
<1> USE DEF Handled, Expire, TimedOut, Drained, Finalized, CancelCaller, graphVars
<1>1. queue' = queue /\ result' = result /\ producer' \in {producer, "stopped"}
  OBVIOUS
<1>2. queue' \in Seq(Events) /\ QueueInv'
  <2>1. \A e \in Events : Sound(e, node, have, producer)
                            => Sound(e, node', have', producer')
    BY <1>1 DEF Sound
  <2> QED
    BY <1>1, <2>1, KeptQueue
<1>3. TypeOK'
  BY <1>2 DEF GenInv, TypeOK, StreamTypeOK, Left
<1>4. NodeInv'
  BY <1>1 DEF GenInv, NodeInv, Before
<1>5. CallerInv'
  BY <1>1 DEF GenInv, CallerInv
<1> QED
  BY <1>2, <1>3, <1>4, <1>5 DEF GenInv

----------------------------------------------------------------------------
(* The calls of the model *)

\* What the failures counted so far allow, with one more of them.
LEMMA OneMoreTry ==
  ASSUME NEW n \in Nat, NEW k \in Nat
  PROVE  n * k \in Nat /\ (n + 1) * k = n * k + k
OBVIOUS

\* Fewer failures allow no more.
LEMMA FewerTries ==
  ASSUME NEW n \in Nat, NEW m \in Nat, NEW k \in Nat, n <= m
  PROVE  n * k <= m * k
<1>1. PICK d \in Nat : m = n + d
  <2>1. m - n \in Nat /\ m = n + (m - n)
    OBVIOUS
  <2> QED
    BY <2>1
<1>2. m * k = n * k + d * k /\ n * k \in Nat /\ d * k \in Nat
  BY <1>1
<1> QED
  BY <1>2

LEMMA CallsTypes ==
  ASSUME GenInv, NEW a \in Artifacts
  PROVE  /\ calls[a] \in Nat /\ retries[a] \in Nat /\ PerTry \in Nat
         /\ retries[a] * PerTry \in Nat /\ retries[a] <= ValidationRetries + 1
         /\ attempts \in Nat /\ attempts <= NodeRetries /\ of \in Artifacts
<1>1. /\ calls[a] \in Nat /\ retries[a] \in Nat /\ retries[a] <= ValidationRetries + 1
      /\ PerTry \in Nat /\ attempts \in Nat /\ attempts <= NodeRetries /\ of \in Artifacts
  BY RetriesAssumption DEF GenInv, TypeOK, PerTry
<1> QED
  BY <1>1, OneMoreTry

LEMMA CallsInit == ASSUME Init PROVE CallsInv
<1>1. PerTry \in Nat
  BY RetriesAssumption DEF PerTry
<1>2. 0 * PerTry = 0
  BY <1>1
<1>3. \A a \in Artifacts : calls[a] = 0 /\ retries[a] = 0
  BY DEF Init
<1>4. node = "generate" /\ of = "lesson" /\ attempts = 0 /\ asking = FALSE
  BY DEF Init
<1> QED
  BY <1>1, <1>2, <1>3, <1>4, RetriesAssumption DEF CallsInv, Spent, Untouched, Artifacts

LEMMA AskCalls == ASSUME GenInv, CallsInv, Ask PROVE CallsInv'
<1>1. /\ node = "generate" /\ ~asking /\ asking' = TRUE
      /\ calls' = [calls EXCEPT ![of] = @ + 1]
      /\ UNCHANGED <<node, of, attempts, retries>>
  BY DEF Ask
<1>2. calls'[of] = calls[of] + 1 /\ \A a \in Artifacts \ {of} : calls'[a] = calls[a]
  BY <1>1 DEF GenInv, TypeOK
<1>3. retries[of] <= ValidationRetries /\ calls[of] <= retries[of] * PerTry + attempts
  <2>1. of \in Artifacts
    BY DEF GenInv, TypeOK
  <2> QED
    BY <1>1, <2>1, CallsTypes DEF CallsInv, Spent
<1>4. of \in Artifacts
  BY DEF GenInv, TypeOK
<1>5. calls'[of] <= retries[of] * PerTry + (attempts + 1) /\ attempts + 1 <= PerTry
  BY <1>2, <1>3, <1>4, CallsTypes, RetriesAssumption DEF PerTry
<1>6. calls'[of] <= retries[of] * PerTry + PerTry
  <2>1. calls'[of] \in Nat
    BY <1>2, <1>4, CallsTypes
  <2> QED
    BY <1>4, <1>5, <2>1, CallsTypes
<1>7. ASSUME NEW a \in Artifacts
      PROVE  \/ retries'[a] <= ValidationRetries /\ Spent(a, PerTry)'
             \/ Spent(a, 0)'
  <2>1. CASE a = of
    BY <1>1, <1>3, <1>6, <2>1 DEF Spent, PerTry
  <2>2. CASE a # of
    BY <1>1, <1>2, <2>2 DEF CallsInv, Spent, PerTry
  <2> QED
    BY <2>1, <2>2
<1>8. node' = "generate" =>
        /\ retries'[of'] <= ValidationRetries
        /\ Spent(of, attempts + (IF asking THEN 1 ELSE 0))'
  BY <1>1, <1>3, <1>5 DEF Spent, PerTry
<1>9. /\ of' = "lesson" => Untouched("quiz")' /\ Untouched("pbl")'
      /\ of' = "quiz" => Untouched("pbl")'
  BY <1>1, <1>2 DEF CallsInv, Untouched, Artifacts
<1> QED
  BY <1>1, <1>7, <1>8, <1>9 DEF CallsInv

LEMMA DraftedCalls == ASSUME GenInv, CallsInv, Drafted PROVE CallsInv'
<1>1. /\ asking /\ asking' = FALSE /\ node' = "validate" /\ attempts' = 0
      /\ UNCHANGED <<of, retries, calls>>
  BY DEF Drafted
<1>2. node = "generate" /\ of \in Artifacts
  BY <1>1 DEF GenInv, NodeInv, TypeOK
<1>3. retries[of] <= ValidationRetries /\ calls[of] <= retries[of] * PerTry + (attempts + 1)
  BY <1>1, <1>2 DEF CallsInv, Spent
<1>4. calls[of] <= retries[of] * PerTry + PerTry
  BY <1>2, <1>3, CallsTypes, RetriesAssumption DEF PerTry
<1>5. /\ of = "lesson" => Untouched("quiz") /\ Untouched("pbl")
      /\ of = "quiz" => Untouched("pbl")
  BY <1>2 DEF CallsInv
<1> QED
  BY <1>1, <1>2, <1>3, <1>4, <1>5 DEF CallsInv, Spent, Untouched, PerTry

LEMMA NodeRaisesCalls == ASSUME GenInv, CallsInv, NodeRaises PROVE CallsInv'
<1>1. /\ asking /\ asking' = FALSE
      /\ UNCHANGED <<of, retries, calls>>
      /\ \/ attempts' = attempts + 1 /\ node' = node
         \/ node' = "broken"
  BY DEF NodeRaises
<1>2. node = "generate" /\ of \in Artifacts
  BY <1>1 DEF GenInv, NodeInv, TypeOK
<1>3. retries[of] <= ValidationRetries /\ calls[of] <= retries[of] * PerTry + (attempts + 1)
  BY <1>1, <1>2 DEF CallsInv, Spent
<1>4. attempts + 1 = (attempts + 1) + 0
  BY <1>2, CallsTypes
<1>5. CASE attempts' = attempts + 1 /\ node' = node
  BY <1>1, <1>2, <1>3, <1>4, <1>5 DEF CallsInv, Spent, Untouched, PerTry
<1>6. CASE node' = "broken"
  BY <1>1, <1>6 DEF CallsInv, Spent, PerTry
<1> QED
  BY <1>1, <1>5, <1>6

LEMMA ValidateCalls == ASSUME GenInv, CallsInv, Validate PROVE CallsInv'
<1>1. /\ node = "validate" /\ UNCHANGED <<asking, attempts, calls>>
      /\ of \in Artifacts /\ ~asking /\ node' \in {"generate", "merge"}
      /\ retries[of] <= ValidationRetries /\ calls[of] <= retries[of] * PerTry + PerTry
      /\ of = "lesson" => Untouched("quiz") /\ Untouched("pbl")
      /\ of = "quiz" => Untouched("pbl")
  BY DEF GenInv, NodeInv, TypeOK, CallsInv, Validate, Spent
<1>2. CASE of \in have
  <2>1. /\ retries' = retries
        /\ \/ node' = "generate" /\ of = "lesson" /\ of' = "quiz"
           \/ node' = "generate" /\ of = "quiz" /\ of' = "pbl"
           \/ node' = "merge"
    BY <1>1, <1>2 DEF Validate, Route, Artifacts
  <2>2. \A a \in Artifacts : Untouched(a) => Spent(a, attempts)
    BY CallsTypes DEF Untouched, Spent
  <2>3. \A a \in Artifacts : Untouched(a) => retries[a] <= ValidationRetries
    BY RetriesAssumption DEF Untouched
  <2>4. \A a \in Artifacts :
          \/ retries[a] <= ValidationRetries /\ Spent(a, PerTry)
          \/ Spent(a, 0)
    BY DEF CallsInv
  <2>5. node' = "generate" => of' \in Artifacts /\ Untouched(of')
    <3>1. /\ of = "lesson" => Untouched("quiz")
          /\ of = "quiz" => Untouched("pbl")
          /\ of = "lesson" \/ of = "quiz" \/ of = "pbl"
      BY <1>1 DEF Artifacts
    <3>2. "quiz" \in Artifacts /\ "pbl" \in Artifacts
      BY DEF Artifacts
    <3>3. node' = "generate" => (of = "lesson" /\ of' = "quiz") \/ (of = "quiz" /\ of' = "pbl")
      BY <2>1, <3>1
    <3>4. ASSUME of = "lesson", of' = "quiz" PROVE of' \in Artifacts /\ Untouched(of')
      BY <3>1, <3>2, <3>4 DEF Untouched
    <3>5. ASSUME of = "quiz", of' = "pbl" PROVE of' \in Artifacts /\ Untouched(of')
      BY <3>1, <3>2, <3>5 DEF Untouched
    <3> QED
      BY <3>3, <3>4, <3>5
  <2>6. attempts + 0 = attempts
    BY <1>1, CallsTypes
  <2>7. node' = "generate" => retries'[of'] <= ValidationRetries
                              /\ Spent(of, attempts + (IF asking THEN 1 ELSE 0))'
    <3>1. SUFFICES ASSUME node' = "generate"
                   PROVE  /\ retries'[of'] <= ValidationRetries
                          /\ Spent(of, attempts + (IF asking THEN 1 ELSE 0))'
      OBVIOUS
    <3>2. retries[of'] <= ValidationRetries /\ calls[of'] <= retries[of'] * PerTry + attempts
      BY <2>2, <2>3, <2>5, <3>1 DEF Spent
    <3>3. ~asking' /\ attempts' = attempts /\ calls' = calls /\ retries' = retries
      BY <1>1, <2>1
    <3> QED
      BY <2>6, <3>2, <3>3 DEF Spent, PerTry
  <2>8. node' = "generate" => /\ of' = "lesson" => Untouched("quiz")' /\ Untouched("pbl")'
                              /\ of' = "quiz" => Untouched("pbl")'
    <3>1. /\ of = "lesson" => Untouched("pbl")
          /\ of = "lesson" \/ of = "quiz" \/ of = "pbl"
          /\ calls' = calls
      BY <1>1 DEF Artifacts
    <3>2. node' = "generate" => (of = "lesson" /\ of' = "quiz") \/ (of = "quiz" /\ of' = "pbl")
      BY <2>1, <3>1
    <3>3. of = "lesson" => Untouched("pbl")'
      BY <2>1, <3>1 DEF Untouched
    <3> QED
      BY <3>2, <3>3
  <2>9. \A a \in Artifacts :
          \/ retries'[a] <= ValidationRetries /\ Spent(a, PerTry)'
          \/ Spent(a, 0)'
    BY <1>1, <2>1, <2>4 DEF Spent, PerTry
  <2> QED
    BY <1>1, <2>7, <2>8, <2>9 DEF CallsInv
<1>3. CASE of \notin have
  <2>1. /\ retries' = [retries EXCEPT ![of] = @ + 1]
        /\ of' = of
        /\ node' = "generate" => retries'[of] <= ValidationRetries
    BY <1>3, RetriesAssumption DEF Validate, Route
  <2>2. /\ retries'[of] = retries[of] + 1
        /\ \A a \in Artifacts \ {of} : retries'[a] = retries[a]
    BY <1>1, <2>1 DEF GenInv, TypeOK
  <2>3. retries'[of] * PerTry = retries[of] * PerTry + PerTry
    BY <1>1, <2>2, CallsTypes, OneMoreTry
  <2>4. calls[of] <= retries'[of] * PerTry
    BY <1>1, <2>3
  <2>5. calls[of] <= retries'[of] * PerTry + 0
        /\ calls[of] <= retries'[of] * PerTry + (attempts + 0)
    BY <1>1, <2>3, <2>4, CallsTypes
  <2>6. ASSUME NEW a \in Artifacts
        PROVE  \/ retries'[a] <= ValidationRetries /\ Spent(a, PerTry)'
               \/ Spent(a, 0)'
    <3>1. CASE a = of
      BY <1>1, <2>5, <3>1 DEF Spent, PerTry
    <3>2. CASE a # of
      BY <1>1, <2>2, <3>2 DEF CallsInv, Spent, PerTry
    <3> QED
      BY <3>1, <3>2
  <2>7. node' = "generate" => retries'[of'] <= ValidationRetries
                              /\ Spent(of, attempts + (IF asking THEN 1 ELSE 0))'
    BY <1>1, <2>1, <2>5 DEF Spent, PerTry
  <2>8. /\ of' = "lesson" => Untouched("quiz")' /\ Untouched("pbl")'
        /\ of' = "quiz" => Untouched("pbl")'
    BY <1>1, <2>1, <2>2 DEF Untouched, Artifacts
  <2> QED
    BY <1>1, <2>6, <2>7, <2>8 DEF CallsInv
<1> QED
  BY <1>2, <1>3

LEMMA OthersCalls ==
  ASSUME GenInv, CallsInv, Merged \/ UNCHANGED graphVars
  PROVE  CallsInv'
<1>1. CASE Merged
  BY <1>1 DEF Merged, CallsInv, Spent, PerTry
<1>2. CASE UNCHANGED graphVars
  BY <1>2 DEF graphVars, CallsInv, Spent, PerTry, Untouched
<1> QED
  BY <1>1, <1>2

----------------------------------------------------------------------------
(* The theorems *)

IInv == GenInv /\ CallsInv

LEMMA IInvStep == ASSUME IInv, [Next]_vars PROVE IInv'
<1> USE DEF IInv
<1>1. CASE Ask
  BY <1>1, AskKeeps, AskCalls
<1>2. CASE Drafted
  BY <1>2, DraftedKeeps, DraftedCalls
<1>3. CASE NodeRaises
  BY <1>3, NodeRaisesKeeps, NodeRaisesCalls
<1>4. CASE Validate
  BY <1>4, ValidateKeeps, ValidateCalls
<1>5. CASE Merged
  BY <1>5, MergedKeeps, OthersCalls
<1>6. CASE Take /\ UNCHANGED graphVars
  BY <1>6, TakeKeeps, OthersCalls
<1>7. CASE (Handled \/ Expire \/ TimedOut \/ Drained \/ Finalized \/ CancelCaller)
           /\ UNCHANGED graphVars
  BY <1>7, CallerKeeps, OthersCalls
<1>8. CASE UNCHANGED vars
  <2>1. CallsInv'
    BY <1>8, OthersCalls DEF vars
  <2>2. queue' \in Seq(Events) /\ QueueInv'
    <3>1. \A e \in Events : Sound(e, node, have, producer)
                              => Sound(e, node', have', producer')
      BY <1>8 DEF vars, graphVars, streamVars
    <3> QED
      BY <1>8, <3>1, KeptQueue DEF vars, streamVars
  <2>3. TypeOK' /\ NodeInv' /\ CallerInv'
    BY <1>8 DEF vars, graphVars, streamVars, GenInv, TypeOK, StreamTypeOK, NodeInv,
                CallerInv
  <2> QED
    BY <2>1, <2>2, <2>3 DEF GenInv
<1> QED
  BY <1>1, <1>2, <1>3, <1>4, <1>5, <1>6, <1>7, <1>8
     DEF Next, GraphStep, StreamStep, Rest

LEMMA IInvAlways == Spec => []IInv
<1>1. Init => IInv
  BY GenInit, CallsInit DEF IInv
<1>2. IInv /\ [Next]_vars => IInv'
  BY IInvStep
<1> QED
  BY <1>1, <1>2, PTL DEF Spec

\* The state is well typed: no attempt and no retry is counted past its limit.
THEOREM GenerationTyped == Spec => []TypeOK
<1>1. IInv => TypeOK
  BY DEF IInv, GenInv
<1> QED
  BY <1>1, IInvAlways, PTL

\* An artifact costs at most (ValidationRetries + 1) * (NodeRetries + 1) calls
\* of the model, whatever fails and whenever the caller leaves.
THEOREM GenerationCallsBounded == Spec => []CallsBounded
<1>1. ASSUME IInv PROVE CallsBounded
  <2>1. ASSUME NEW a \in Artifacts
        PROVE  calls[a] <= (ValidationRetries + 1) * PerTry
    <3>1. /\ calls[a] \in Nat /\ retries[a] \in Nat /\ PerTry \in Nat
          /\ retries[a] * PerTry \in Nat /\ retries[a] <= ValidationRetries + 1
      BY <1>1, CallsTypes DEF IInv
    <3>2. /\ ValidationRetries \in Nat /\ ValidationRetries + 1 \in Nat
          /\ ValidationRetries * PerTry \in Nat
          /\ (ValidationRetries + 1) * PerTry = ValidationRetries * PerTry + PerTry
      BY <3>1, RetriesAssumption, OneMoreTry
    <3>3. CASE retries[a] <= ValidationRetries /\ Spent(a, PerTry)
      <4>1. retries[a] * PerTry <= ValidationRetries * PerTry
        BY <3>1, <3>2, <3>3, FewerTries
      <4>2. calls[a] <= retries[a] * PerTry + PerTry
        BY <3>3 DEF Spent
      <4> QED
        BY <3>1, <3>2, <4>1, <4>2
    <3>4. CASE Spent(a, 0)
      <4>1. retries[a] * PerTry <= (ValidationRetries + 1) * PerTry
        BY <3>1, <3>2, FewerTries
      <4>2. calls[a] <= retries[a] * PerTry
        BY <3>1, <3>4 DEF Spent
      <4> QED
        BY <3>1, <3>2, <4>1, <4>2
    <3> QED
      BY <1>1, <3>3, <3>4 DEF IInv, CallsInv
  <2> QED
    BY <2>1 DEF CallsBounded, PerTry
<1> QED
  BY <1>1, IInvAlways, PTL

\* Nothing is missing from an answer unless the model was asked for it, or
\* for one it is made from, more often than there are retries, whatever raises.
THEOREM GenerationGivesUpLast == Spec => []GivenUpAfterRetries
<1>1. ASSUME Init PROVE AskedInv
  <2>1. \A a \in Artifacts : retries[a] = 0 /\ calls[a] = 0
    BY <1>1 DEF Init
  <2> QED
    BY <1>1, <2>1 DEF Init, AskedInv
<1>2. ASSUME IInv, AskedInv, [Next]_vars PROVE AskedInv'
  <2>1. /\ of \in Artifacts /\ asking \in BOOLEAN /\ ValidationRetries \in Nat
        /\ \A a \in Artifacts : retries[a] \in Nat /\ calls[a] \in Nat
        /\ asking => node = "generate"
    BY <1>2, CallsTypes, RetriesAssumption DEF IInv, GenInv, NodeInv, TypeOK
  <2>2. DOMAIN retries = Artifacts /\ DOMAIN calls = Artifacts
    BY <1>2 DEF IInv, GenInv, TypeOK
  <2>3. CASE Ask
    <3>1. /\ node = "generate" /\ UNCHANGED <<node, of, retries, have>>
          /\ calls' = [calls EXCEPT ![of] = @ + 1]
      BY <2>3 DEF Ask
    <3>2. calls'[of] = calls[of] + 1 /\ \A a \in Artifacts \ {of} : calls'[a] = calls[a]
      BY <2>1, <2>2, <3>1
    <3>3. \A a \in Artifacts : retries[a] <= calls[a]
      BY <1>2 DEF AskedInv
    <3> QED
      BY <2>1, <3>1, <3>2, <3>3 DEF AskedInv
  <2>4. CASE Drafted
    BY <1>2, <2>4 DEF Drafted, AskedInv
  <2>5. CASE NodeRaises
    BY <1>2, <2>1, <2>5 DEF NodeRaises, AskedInv
  <2>6. CASE Validate
    <3>1. /\ node = "validate" /\ UNCHANGED <<asking, have, calls>> /\ ~asking
          /\ retries[of] < calls[of]
          /\ \A a \in Artifacts : retries[a] <= calls[a]
          /\ node' \in {"generate", "merge"}
      BY <1>2, <2>1, <2>6 DEF Validate, AskedInv
    <3>2. CASE of \in have
      <4>1. retries' = retries /\ (node' = "merge" => of = "pbl")
        BY <3>2, <2>6 DEF Validate, Route
      <4>2. of = "pbl" => have = Artifacts
        BY <1>2, <3>1, <3>2 DEF IInv, GenInv, NodeInv, Before, Artifacts
      <4> QED
        BY <3>1, <4>1, <4>2 DEF AskedInv
    <3>3. CASE of \notin have
      <4>1. /\ retries' = [retries EXCEPT ![of] = @ + 1] /\ of' = of
            /\ node' = "merge" => ~(retries'[of] <= ValidationRetries)
        BY <2>6, <3>3 DEF Validate, Route
      <4>2. /\ retries'[of] = retries[of] + 1
            /\ \A a \in Artifacts \ {of} : retries'[a] = retries[a]
        BY <2>1, <2>2, <4>1
      <4> QED
        BY <2>1, <3>1, <3>3, <4>1, <4>2 DEF AskedInv
    <3> QED
      BY <3>2, <3>3
  <2>7. CASE Merged
    BY <1>2, <2>1, <2>7 DEF Merged, AskedInv
  <2>8. CASE UNCHANGED graphVars
    BY <1>2, <2>8 DEF graphVars, AskedInv
  <2> QED
    BY <1>2, <2>3, <2>4, <2>5, <2>6, <2>7, <2>8 DEF Next, GraphStep, Rest, vars
<1>3. ASSUME IInv, AskedInv PROVE GivenUpAfterRetries
  <2>1. SUFFICES ASSUME caller = "answered", NEW a \in Artifacts \ result.made
                 PROVE  \E b \in Artifacts \ result.made : calls[b] > ValidationRetries
    BY DEF GivenUpAfterRetries
  <2>2. node = "end" /\ result.made = have
    BY <1>3, <2>1 DEF IInv, GenInv, CallerInv
  <2>3. of \notin have /\ retries[of] > ValidationRetries
    BY <1>3, <2>1, <2>2 DEF AskedInv
  <2>4. of \in Artifacts /\ calls[of] > ValidationRetries
    <3>1. of \in Artifacts
      BY <1>3 DEF IInv, GenInv, TypeOK
    <3>2. calls[of] \in Nat /\ retries[of] \in Nat /\ retries[of] <= calls[of]
      BY <1>3, <3>1, CallsTypes DEF IInv, AskedInv
    <3> QED
      BY <2>3, <3>1, <3>2, RetriesAssumption
  <2> QED
    BY <2>2, <2>3, <2>4
<1> QED
  BY <1>1, <1>2, <1>3, IInvAlways, PTL DEF Spec

----------------------------------------------------------------------------
(* GenerationPromise *)

\* A graph at work has not answered, and its caller has no exception.
LEMMA WorkingWaited ==
  ASSUME GenInv, producer = "running", node \notin {"end", "broken"}
  PROVE  caller \notin {"answered", "raised"}
BY DEF GenInv, CallerInv

LEMMA GraphPromise ==
  ASSUME GenInv, Ask \/ Drafted \/ NodeRaises \/ Validate \/ Merged
  PROVE  [Promise!Next]_(Promise!promiseVars)
<1> USE DEF Promise!promiseVars, Promise!Next
<1>1. producer = "running"
  BY DEF Ask, Drafted, NodeRaises, Validate, Merged, Driving
<1>2. node \notin {"end", "broken"} /\ caller \notin {"answered", "raised"}
  BY <1>1, WorkingWaited DEF GenInv, NodeInv
<1>3. CASE Ask
  BY <1>3 DEF Ask, streamVars
<1>4. CASE Drafted
  <2>1. /\ node = "generate" /\ node' = "validate" /\ have = Before(of)
        /\ of \in {"lesson", "quiz", "pbl"} /\ have' \in {have, have \cup {of}}
        /\ UNCHANGED <<producer, caller, result>>
    BY <1>4 DEF Drafted, Put, GenInv, NodeInv, TypeOK, Artifacts
  <2>2. CASE have' = have
    BY <2>1, <2>2
  <2>3. CASE have' = have \cup {of}
    <3>1. of \in Promise!Following(have)
      BY <2>1 DEF Before, Promise!Following
    <3>2. Promise!Make
      BY <1>1, <1>2, <2>1, <2>3, <3>1 DEF Promise!Make, Promise!Waited
    <3> QED
      BY <3>2
  <2> QED
    BY <2>1, <2>2, <2>3
<1>5. CASE NodeRaises
  <2>1. /\ node = "generate" /\ UNCHANGED <<have, caller, result>>
        /\ \/ node' = node /\ producer' = producer
           \/ node' = "broken"
    BY <1>5 DEF NodeRaises, PutLast, streamVars, GenInv, NodeInv
  <2>2. CASE node' = node /\ producer' = producer
    BY <2>1, <2>2
  <2>3. CASE node' = "broken"
    <3>1. Promise!EndGraph
      BY <1>1, <1>2, <2>1, <2>3 DEF Promise!EndGraph, Promise!Waited
    <3> QED
      BY <3>1
  <2> QED
    BY <2>1, <2>2, <2>3
<1>6. CASE Validate
  <2>1. node = "validate" /\ node' \in {"generate", "merge"}
        /\ UNCHANGED <<have, producer, caller, result>>
    BY <1>6 DEF Validate, Put
  <2> QED
    BY <2>1
<1>7. CASE Merged
  <2>1. node = "merge" /\ node' = "end" /\ UNCHANGED <<have, caller, result>>
    BY <1>7 DEF Merged, PutLast
  <2>2. Promise!EndGraph
    BY <1>1, <1>2, <2>1 DEF Promise!EndGraph, Promise!Waited
  <2> QED
    BY <2>2
<1> QED
  BY <1>3, <1>4, <1>5, <1>6, <1>7

LEMMA TakePromise ==
  ASSUME GenInv, Take, UNCHANGED graphVars
  PROVE  [Promise!Next]_(Promise!promiseVars)
<1> USE DEF Promise!promiseVars, Promise!Next
<1> DEFINE e == Head(queue)
<1>1. queue \in Seq(Events) /\ queue # <<>>
  BY DEF GenInv, TypeOK, StreamTypeOK, Take
<1>2. e \in Events /\ 1 \in 1..Len(queue) /\ e = queue[1]
  BY <1>1, HeadTailProperties
<1>3. Sound(e, node, have, producer)
  BY <1>2 DEF GenInv, QueueInv
<1>4. e.kind \in {"item", "raised", "end", "complete"}
  BY <1>2 DEF Events
<1> HIDE DEF e
<1>5. /\ caller = "waiting"
      /\ result' = IF e.kind = "complete" THEN Given(e.made) ELSE result
      /\ caller' = CASE e.kind = "item"     -> "handling"
                     [] e.kind = "complete" -> "waiting"
                     [] e.kind = "raised"   -> "raised"
                     [] e.kind = "end"      -> IF result.none THEN "raised"
                                               ELSE "answered"
      /\ UNCHANGED producer
  BY DEF Take, e
<1>6. node' = node /\ have' = have
  BY DEF graphVars
<1>7. CASE e.kind \in {"item", "complete"}
  <2>1. caller' \in {"handling", "waiting"}
    BY <1>5, <1>7
  <2> QED
    BY <1>5, <1>6, <2>1
<1>8. CASE e.kind \in {"raised", "end"} /\ caller' = "raised"
  <2>1. producer = "stopped"
    BY <1>3, <1>8 DEF Sound
  <2>2. Promise!Raise
    BY <1>5, <1>6, <1>8, <2>1 DEF Promise!Raise
  <2> QED
    BY <2>2
<1>9. CASE e.kind \in {"raised", "end"} /\ caller' # "raised"
  <2>1. caller' = "answered" /\ ~result.none /\ result' = result
    BY <1>5, <1>9
  <2>2. node = "end" /\ result.made = have
    BY <2>1 DEF GenInv, CallerInv
  <2>3. Promise!Answer
    BY <1>5, <1>6, <2>1, <2>2 DEF Promise!Answer
  <2> QED
    BY <2>3
<1> QED
  BY <1>4, <1>7, <1>8, <1>9

LEMMA CallerPromise ==
  ASSUME GenInv, UNCHANGED graphVars,
         Handled \/ Expire \/ TimedOut \/ Drained \/ Finalized \/ CancelCaller
  PROVE  [Promise!Next]_(Promise!promiseVars)
<1> USE DEF Promise!promiseVars, Promise!Next
<1>1. node' = node /\ have' = have
  BY DEF graphVars
<1>2. CASE Handled \/ Expire \/ TimedOut
  BY <1>1, <1>2 DEF Handled, Expire, TimedOut
<1>3. node \in {"end", "broken"} => producer = "stopped"
  BY DEF GenInv, NodeInv
<1>4. producer \in {"running", "stopped"}
  BY DEF GenInv, TypeOK, StreamTypeOK
<1>5. CASE Drained
  <2>1. CASE caller = "timingOut"
    <3>1. Promise!Raise
      BY <1>1, <1>3, <1>4, <1>5, <2>1 DEF Drained, Promise!Raise
    <3> QED
      BY <3>1
  <2>2. CASE caller = "cancelling"
    <3>1. Promise!Cancelled
      BY <1>1, <1>3, <1>4, <1>5, <2>2 DEF Drained, Promise!Cancelled
    <3> QED
      BY <3>1
  <2> QED
    BY <1>5, <2>1, <2>2 DEF Drained
<1>6. CASE Finalized
  <2>1. Promise!Stop
    BY <1>1, <1>3, <1>6 DEF Finalized, Promise!Stop
  <2> QED
    BY <2>1
<1>7. CASE CancelCaller
  <2>1. CASE caller = "waiting"
    BY <1>1, <1>7, <2>1 DEF CancelCaller
  <2>2. CASE caller = "handling"
    <3>1. Promise!Cancelled
      BY <1>1, <1>7, <2>2 DEF CancelCaller, Promise!Cancelled
    <3> QED
      BY <3>1
  <2> QED
    BY <1>7, <2>1, <2>2 DEF CancelCaller
<1> QED
  BY <1>2, <1>5, <1>6, <1>7

\* Every generation is one of GenerationPromise: the artifacts come in order,
\* the answer is what the finished graph had made, and a caller that has left
\* by an answer or an exception has no graph at work.
THEOREM GenerationKeepsPromise == Spec => ImplementsPromise
<1>1. Init => Promise!Init
  BY DEF Init, StreamInit, Promise!Init
<1>2. ASSUME IInv, [Next]_vars PROVE [Promise!Next]_(Promise!promiseVars)
  <2> USE DEF IInv
  <2>1. CASE GraphStep
    BY <1>2, <2>1, GraphPromise DEF GraphStep
  <2>2. CASE Take /\ UNCHANGED graphVars
    BY <1>2, <2>2, TakePromise
  <2>3. CASE (Handled \/ Expire \/ TimedOut \/ Drained \/ Finalized \/ CancelCaller)
             /\ UNCHANGED graphVars
    BY <1>2, <2>3, CallerPromise
  <2>4. CASE UNCHANGED vars
    BY <2>4 DEF vars, graphVars, streamVars, Promise!promiseVars
  <2> QED
    BY <1>2, <2>1, <2>2, <2>3, <2>4 DEF Next, StreamStep, Rest
<1> QED
  BY <1>1, <1>2, IInvAlways, PTL DEF Spec, ImplementsPromise, Promise!Spec
=============================================================================
