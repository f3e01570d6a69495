--------------------------- MODULE TutorTurnProofs ---------------------------
(***************************************************************************)
(* Proofs about TutorTurn, for any turns, sessions and lengths: its type   *)
(* invariant, that the draft of an orderly session keeps up with the text, *)
(* and that it keeps DraftPromise.                                         *)
(***************************************************************************)
EXTENDS TutorTurn, TLAPS

----------------------------------------------------------------------------
(* The inductive invariants *)

\* The turns of a serial session follow each other, and the patches on their
\* way are of unreliable sessions.
Followed ==
  \A t, q \in Turns :
    /\ SessionOf[t] = SessionOf[q] /\ SessionOf[t] \in Serial
    /\ pc[t] \in Active /\ pc[q] \in Active
    => t = q

LateInv == \A x \in late : SessionOf[x.turn] \notin Reliable

\* A turn that runs was not answered.
ToldInv == \A t \in Turns : pc[t] # "done" => told[t] = Silent

\* The draft of an orderly session names a turn that wrote it, which was
\* answered unless it runs.
OwnerInv ==
  \A s \in Orderly :
    \/ draft[s] = NoText
    \/ /\ draft[s].turn \in Turns /\ SessionOf[draft[s].turn] = s
       /\ pc[draft[s].turn] \in Active \/ told[draft[s].turn] # Silent

\* What turn t, which is at p in its try k, and has written n and flushed m
\* characters, knows of the draft d of its session.
Knows(t, p, k, n, m, d) ==
  /\ p \in {"new", "clearing"} => n = 0
  /\ p = "clearing" /\ d.turn = t => d.try < k
  /\ p \in Active \ {"clearing"} => d.turn = t /\ d.try = k /\ d.len = m
  /\ p = "streaming" => m <= n /\ n - m < EveryN
  /\ p = "patching" => m < n
  /\ p = "flushing" => m <= n
  /\ p = "validate" => m = n

DraftInv ==
  \A t \in Turns :
    SessionOf[t] \in Orderly =>
      Knows(t, pc[t], attempts[t], written[t], flushed[t], draft[SessionOf[t]])

IInv == TypeOK /\ Followed /\ LateInv /\ ToldInv /\ OwnerInv /\ DraftInv

----------------------------------------------------------------------------
(* Type correctness *)

LEMMA TextType ==
  ASSUME TypeOK, NEW t \in Turns
  PROVE  Text(t) \in Texts /\ NoText \in Texts
BY LengthAssumption DEF TypeOK, Text, Texts, NoText

LEMMA ApplyType ==
  ASSUME TypeOK, NEW x \in Texts, x.turn \in Turns, Apply(x)
  PROVE  draft' \in [Sessions -> Texts]
<1>1. SessionOf[x.turn] \in Sessions
  BY SessionAssumption
<1> QED
  BY <1>1 DEF TypeOK, Apply

LEMMA PatchType ==
  ASSUME TypeOK, NEW t \in Turns, Patched(t) \/ Abandoned(t)
  PROVE  draft' \in [Sessions -> Texts] /\ late' \subseteq {x \in Texts : x.turn # Nobody}
<1>1. Text(t) \in Texts /\ Text(t).turn = t /\ t # Nobody
  BY TextType, SessionAssumption DEF Text
<1>2. CASE UNCHANGED draft
  BY <1>1, <1>2 DEF TypeOK, Patched, Abandoned, Delayed, Apply
<1>3. CASE Apply(Text(t)) /\ UNCHANGED late
  BY <1>1, <1>3, ApplyType DEF TypeOK
<1> QED
  BY <1>2, <1>3 DEF Patched, Abandoned, Delayed

LEMMA TellType ==
  ASSUME TypeOK, NEW t \in Turns, NEW x \in Texts,
         NEW k \in {"reply", "rejected", "failure", "exception"}, Tell(t, k, x)
  PROVE  /\ pc' \in [Turns -> {"new", "done"} \cup Active]
         /\ attempts' \in [Turns -> 0..NodeRetries]
         /\ written' \in [Turns -> 0..MaxLength]
         /\ flushed' \in [Turns -> 0..MaxLength]
         /\ rejected' \in [Turns -> 0..1]
         /\ told' \in [Turns -> [kind : {"nothing", "reply", "rejected", "failure", "exception"},
                                 text : Texts]]
<1>1. 0 \in 0..NodeRetries /\ 0 \in 0..MaxLength
  BY LengthAssumption
<1>2. [kind |-> k, text |-> x] \in
        [kind : {"nothing", "reply", "rejected", "failure", "exception"}, text : Texts]
  OBVIOUS
<1> QED
  BY <1>1, <1>2 DEF TypeOK, Tell, Afresh, Goto

LEMMA TypeInit == Init => TypeOK
BY SessionAssumption, LengthAssumption
   DEF Init, TypeOK, Texts, NoText, Silent, Active, Generating, Patching

LEMMA TypeNext == TypeOK /\ [Next]_vars => TypeOK'
<1> SUFFICES ASSUME TypeOK, [Next]_vars PROVE TypeOK'
  OBVIOUS
<1>0. /\ 0 \in 0..NodeRetries /\ 0 \in 0..MaxLength
      /\ EveryN \in Nat /\ MaxLength \in Nat /\ NodeRetries \in Nat
  BY LengthAssumption
<1> DEFINE PlacesOK == pc' \in [Turns -> {"new", "done"} \cup Active]
<1>1. CASE UNCHANGED vars
  BY <1>1 DEF TypeOK, vars, turnVars
<1>2. ASSUME NEW t \in Turns, Start(t) PROVE TypeOK'
  BY <1>2 DEF TypeOK, Start, MayStart, Goto, Active, Generating, Patching
<1>3. ASSUME NEW t \in Turns, StartFails(t) PROVE TypeOK'
  BY <1>3, TellType, TextType DEF StartFails, TypeOK
<1>4. ASSUME NEW t \in Turns, PatchEnds(t) PROVE TypeOK'
  <2>1. draft' \in [Sessions -> Texts] /\ late' \subseteq {x \in Texts : x.turn # Nobody}
    BY <1>4, PatchType DEF PatchEnds
  <2>2. PlacesOK
    BY <1>4 DEF PatchEnds, TypeOK, Goto, Active, Generating, Patching
  <2> QED
    BY <1>4, <2>1, <2>2 DEF PatchEnds, TypeOK
<1>5. ASSUME NEW t \in Turns, NEW n \in 1..MaxChunk, Chunk(t, n) PROVE TypeOK'
  <2>1. written[t] + n \in 0..MaxLength
    BY <1>5, <1>0, LengthAssumption DEF Chunk, TypeOK
  <2>2. PlacesOK
    BY <1>5 DEF Chunk, TypeOK, Goto, Active, Generating, Patching
  <2>3. written' \in [Turns -> 0..MaxLength]
    BY <1>5, <2>1 DEF Chunk, TypeOK
  <2> QED
    BY <1>5, <2>2, <2>3 DEF Chunk, TypeOK
<1>6. ASSUME NEW t \in Turns, StreamEnds(t) PROVE TypeOK'
  BY <1>6 DEF TypeOK, StreamEnds, Goto, Active, Generating, Patching
<1>7. ASSUME NEW t \in Turns, StreamFails(t) PROVE TypeOK'
  BY <1>7, TellType, TextType DEF StreamFails, TypeOK
<1>8. ASSUME NEW t \in Turns, Validate(t) PROVE TypeOK'
  <2>1. ~Again(rejected[t] + 1)
    BY DEF Again, TypeOK
  <2>2. PICK k \in {"reply", "rejected", "failure"}, x \in Texts : Tell(t, k, x)
    BY <1>8, <2>1, TextType DEF Validate
  <2> QED
    BY <1>8, <2>2, TellType DEF Validate, TypeOK
<1>9. ASSUME NEW t \in Turns, TimesOut(t) PROVE TypeOK'
  <2>1. draft' \in [Sessions -> Texts] /\ late' \subseteq {x \in Texts : x.turn # Nobody}
    BY <1>9, PatchType DEF TimesOut
  <2>2. CASE Tell(t, "exception", NoText)
    BY <2>1, <2>2, TellType, TextType DEF TypeOK
  <2>3. CASE ~Tell(t, "exception", NoText)
    <3>1. /\ MayAttempt(t)
          /\ attempts' = [attempts EXCEPT ![t] = @ + 1]
          /\ Afresh(t)
          /\ Goto(t, "clearing")
          /\ UNCHANGED <<rejected, told>>
      BY <1>9, <2>3 DEF TimesOut
    <3>2. attempts[t] + 1 \in 0..NodeRetries
      BY <1>0, <3>1 DEF MayAttempt, TypeOK
    <3>3. PlacesOK
      BY <3>1 DEF TypeOK, Goto, Active, Generating, Patching
    <3> QED
      BY <1>0, <2>1, <3>1, <3>2, <3>3 DEF TypeOK, Afresh
  <2> QED
    BY <2>2, <2>3
<1>10. ASSUME NEW t \in Turns, Cancel(t) PROVE TypeOK'
  BY <1>10, PatchType, TellType, TextType DEF Cancel, TypeOK
<1>11. ASSUME NEW x \in late, PatchArrives(x) PROVE TypeOK'
  <2>1. x \in Texts /\ x.turn \in Turns
    BY DEF TypeOK, Texts
  <2> QED
    BY <1>11, <2>1, ApplyType DEF PatchArrives, TypeOK, turnVars
<1> QED
  BY <1>1, <1>2, <1>3, <1>4, <1>5, <1>6, <1>7, <1>8, <1>9, <1>10, <1>11
     DEF Next, Run, Rest

----------------------------------------------------------------------------
(* What the patches do *)

\* A patch of a turn, abandoned or not, leaves the other sessions alone.
LEMMA PatchElsewhere ==
  ASSUME TypeOK, NEW t \in Turns, Patched(t) \/ Abandoned(t)
  PROVE  /\ \A s \in Sessions \ {SessionOf[t]} : draft'[s] = draft[s]
         /\ \A x \in late' : x \in late \/ (x.turn = t /\ SessionOf[t] \notin Reliable)
<1>1. Text(t).turn = t
  BY DEF Text
<1>2. CASE UNCHANGED draft
  BY <1>1, <1>2 DEF Patched, Abandoned, Delayed
<1>3. CASE Apply(Text(t)) /\ UNCHANGED late
  BY <1>1, <1>3 DEF TypeOK, Apply
<1> QED
  BY <1>2, <1>3 DEF Patched, Abandoned, Delayed

\* A patch of an orderly session is executed.
LEMMA PatchOrderly ==
  ASSUME TypeOK, NEW t \in Turns, SessionOf[t] \in Orderly, Patched(t)
  PROVE  Apply(Text(t)) /\ draft'[SessionOf[t]] = Text(t)
<1>1. Apply(Text(t))
  BY DEF Patched, Delayed, Orderly
<1>2. Text(t).turn = t /\ SessionOf[t] \in Sessions
  BY SessionAssumption DEF Text
<1> QED
  BY <1>1, <1>2 DEF Apply, TypeOK

\* One that is abandoned was executed or was not.
LEMMA AbandonOrderly ==
  ASSUME TypeOK, NEW t \in Turns, SessionOf[t] \in Orderly, Abandoned(t)
  PROVE  \/ UNCHANGED draft
         \/ pc[t] \in Patching /\ Apply(Text(t)) /\ draft'[SessionOf[t]] = Text(t)
<1>1. Text(t).turn = t /\ SessionOf[t] \in Sessions
  BY SessionAssumption DEF Text
<1> QED
  BY <1>1 DEF Abandoned, Delayed, Orderly, Apply, TypeOK

----------------------------------------------------------------------------
(* The invariant *)

\* A step of turn t, as far as the invariant goes: the other turns and their
\* sessions stay as they are, and the draft becomes t's or stays.
StepOf(t) ==
  /\ \A q \in Turns \ {t} :
       /\ pc'[q] = pc[q] /\ told'[q] = told[q] /\ attempts'[q] = attempts[q]
       /\ written'[q] = written[q] /\ flushed'[q] = flushed[q]
  /\ \A s \in Sessions \ {SessionOf[t]} : draft'[s] = draft[s]
  /\ pc[t] \in Active \/ (MayStart(t) /\ UNCHANGED draft)
  /\ SessionOf[t] \in Orderly =>
       draft'[SessionOf[t]] = draft[SessionOf[t]] \/ draft'[SessionOf[t]].turn = t
  /\ \/ pc'[t] \in Active /\ told'[t] = Silent
     \/ pc'[t] = "done" /\ told'[t] # Silent
  /\ \A x \in late' : x \in late \/ (x.turn = t /\ SessionOf[t] \notin Reliable)

\* Turn t knows its draft after the step.
StillKnows(t) ==
  SessionOf[t] \in Orderly =>
    Knows(t, pc'[t], attempts'[t], written'[t], flushed'[t], draft'[SessionOf[t]])

LEMMA StepFollowed ==
  ASSUME IInv, TypeOK', NEW t \in Turns, StepOf(t)
  PROVE  Followed' /\ LateInv' /\ ToldInv'
<1>1. Followed'
  <2> SUFFICES ASSUME NEW a \in Turns, NEW b \in Turns,
                      SessionOf[a] = SessionOf[b], SessionOf[a] \in Serial,
                      pc'[a] \in Active, pc'[b] \in Active
               PROVE  a = b
    BY DEF Followed
  <2>1. CASE pc[t] \in Active
    BY <2>1 DEF IInv, Followed, StepOf
  <2>2. CASE MayStart(t)
    BY <2>2 DEF StepOf, MayStart, IInv, Followed
  <2> QED
    BY <2>1, <2>2 DEF StepOf
<1>2. LateInv'
  BY DEF IInv, LateInv, StepOf
<1>3. ToldInv'
  BY DEF IInv, ToldInv, StepOf
<1> QED
  BY <1>1, <1>2, <1>3

LEMMA StepOwner ==
  ASSUME IInv, TypeOK', NEW t \in Turns, StepOf(t)
  PROVE  OwnerInv'
<1> SUFFICES ASSUME NEW s \in Orderly
             PROVE  \/ draft'[s] = NoText
                    \/ /\ draft'[s].turn \in Turns /\ SessionOf[draft'[s].turn] = s
                       /\ pc'[draft'[s].turn] \in Active \/ told'[draft'[s].turn] # Silent
  BY DEF OwnerInv, Orderly
<1>1. s \in Sessions
  BY SessionAssumption DEF Orderly
<1>2. CASE draft'[s] = draft[s]
  <2>1. CASE draft[s] = NoText
    BY <1>2, <2>1
  <2>2. CASE draft[s] # NoText
    <3> DEFINE q == draft[s].turn
    <3>1. q \in Turns /\ SessionOf[q] = s /\ (pc[q] \in Active \/ told[q] # Silent)
      BY <2>2 DEF IInv, OwnerInv
    <3>2. CASE q = t
      BY <1>2, <3>1, <3>2 DEF StepOf
    <3>3. CASE q # t
      BY <1>2, <3>1, <3>3 DEF StepOf
    <3> QED
      BY <3>2, <3>3
  <2> QED
    BY <2>1, <2>2
<1>3. CASE draft'[s] # draft[s]
  BY <1>1, <1>3 DEF StepOf, Active
<1> QED
  BY <1>2, <1>3

LEMMA StepInv ==
  ASSUME IInv, TypeOK', NEW t \in Turns, StepOf(t), StillKnows(t)
  PROVE  IInv'
<1>1. ASSUME NEW q \in Turns, SessionOf[q] \in Orderly
      PROVE  Knows(q, pc'[q], attempts'[q], written'[q], flushed'[q], draft'[SessionOf[q]])
  <2>1. CASE q = t
    BY <1>1, <2>1 DEF StillKnows
  <2>2. CASE q # t
    <3>1. Knows(q, pc[q], attempts[q], written[q], flushed[q], draft[SessionOf[q]])
      BY <1>1 DEF IInv, DraftInv
    <3>2. /\ pc'[q] = pc[q] /\ attempts'[q] = attempts[q]
          /\ written'[q] = written[q] /\ flushed'[q] = flushed[q]
      BY <2>2 DEF StepOf
    <3>3. CASE draft'[SessionOf[q]] = draft[SessionOf[q]]
      BY <3>1, <3>2, <3>3
    <3>4. CASE draft'[SessionOf[q]] # draft[SessionOf[q]]
      <4>1. SessionOf[q] = SessionOf[t] /\ pc[t] \in Active
        BY <3>4, SessionAssumption DEF StepOf
      <4>2. pc[q] \notin Active
        BY <1>1, <2>2, <4>1 DEF IInv, Followed, Orderly
      <4> QED
        BY <3>1, <3>2, <4>2 DEF Knows, Active, Generating, Patching
    <3> QED
      BY <3>3, <3>4
  <2> QED
    BY <2>1, <2>2
<1>2. DraftInv'
  BY <1>1 DEF DraftInv, Orderly
<1> QED
  BY <1>2, StepFollowed, StepOwner DEF IInv

----------------------------------------------------------------------------
(* Every action is such a step *)

LEMMA TellStep ==
  ASSUME IInv, TypeOK', NEW t \in Turns, NEW x,
         NEW k \in {"reply", "rejected", "failure", "exception"}, Tell(t, k, x),
         \/ pc[t] \in Active /\ (UNCHANGED <<draft, late>> \/ Abandoned(t))
         \/ MayStart(t) /\ UNCHANGED <<draft, late>>
  PROVE  IInv'
<1>1. pc'[t] = "done" /\ told'[t] = [kind |-> k, text |-> x] /\ told'[t] # Silent
  BY DEF Tell, Goto, IInv, TypeOK, Silent
<1>2. \A q \in Turns \ {t} :
        /\ pc'[q] = pc[q] /\ told'[q] = told[q] /\ attempts'[q] = attempts[q]
        /\ written'[q] = written[q] /\ flushed'[q] = flushed[q]
  BY DEF Tell, Goto, Afresh, IInv, TypeOK
<1>3. /\ \A s \in Sessions \ {SessionOf[t]} : draft'[s] = draft[s]
      /\ \A y \in late' : y \in late \/ (y.turn = t /\ SessionOf[t] \notin Reliable)
  BY PatchElsewhere DEF IInv
<1>4. ASSUME SessionOf[t] \in Orderly
      PROVE  draft'[SessionOf[t]] = draft[SessionOf[t]] \/ draft'[SessionOf[t]].turn = t
  <2>1. Text(t).turn = t /\ TypeOK
    BY DEF Text, IInv
  <2>2. CASE UNCHANGED <<draft, late>>
    BY <2>2
  <2>3. CASE Abandoned(t)
    BY <1>4, <2>1, <2>3, AbandonOrderly
  <2> QED
    BY <2>2, <2>3
<1>5. StepOf(t)
  BY <1>1, <1>2, <1>3, <1>4 DEF StepOf
<1>6. StillKnows(t)
  BY <1>1 DEF StillKnows, Knows, Active, Generating, Patching
<1> QED
  BY <1>5, <1>6, StepInv

\* A step of a turn that goes on with its call.
LEMMA GoesOnStep ==
  ASSUME IInv, TypeOK', NEW t \in Turns, pc[t] \in Active, UNCHANGED told,
         pc'[t] \in Active,
         \A q \in Turns \ {t} :
           /\ pc'[q] = pc[q] /\ attempts'[q] = attempts[q]
           /\ written'[q] = written[q] /\ flushed'[q] = flushed[q],
         UNCHANGED <<draft, late>> \/ Patched(t) \/ Abandoned(t)
  PROVE  StepOf(t)
<1>1. told'[t] = Silent
  BY DEF IInv, ToldInv, Active, Generating, Patching
<1>2. /\ \A s \in Sessions \ {SessionOf[t]} : draft'[s] = draft[s]
      /\ \A y \in late' : y \in late \/ (y.turn = t /\ SessionOf[t] \notin Reliable)
  BY PatchElsewhere DEF IInv
<1>3. ASSUME SessionOf[t] \in Orderly
      PROVE  draft'[SessionOf[t]] = draft[SessionOf[t]] \/ draft'[SessionOf[t]].turn = t
  <2>1. Text(t).turn = t /\ TypeOK
    BY DEF Text, IInv
  <2>2. CASE UNCHANGED <<draft, late>>
    BY <2>2
  <2>3. CASE Patched(t)
    BY <1>3, <2>1, <2>3, PatchOrderly
  <2>4. CASE Abandoned(t)
    BY <1>3, <2>1, <2>4, AbandonOrderly
  <2> QED
    BY <2>2, <2>3, <2>4
<1>4. \A q \in Turns \ {t} :
        /\ pc'[q] = pc[q] /\ told'[q] = told[q] /\ attempts'[q] = attempts[q]
        /\ written'[q] = written[q] /\ flushed'[q] = flushed[q]
  OBVIOUS
<1> QED
  BY <1>1, <1>2, <1>3, <1>4 DEF StepOf

LEMMA StartInv == ASSUME IInv, TypeOK', NEW t \in Turns, Start(t) PROVE IInv'
<1>1. pc[t] = "new" /\ pc'[t] = "clearing" /\ told[t] = Silent
  BY DEF Start, MayStart, Goto, IInv, TypeOK, ToldInv
<1>2. StepOf(t)
  <2>1. \A q \in Turns \ {t} : pc'[q] = pc[q]
    BY DEF Start, Goto, IInv, TypeOK
  <2>2. UNCHANGED <<attempts, written, flushed, told, draft, late>> /\ MayStart(t)
    BY DEF Start
  <2> QED
    BY <1>1, <2>1, <2>2 DEF StepOf, Active, Generating, Patching
<1>3. SessionOf[t] \in Orderly => draft[SessionOf[t]].turn # t
  BY <1>1, SessionAssumption
     DEF IInv, OwnerInv, NoText, Active, Generating, Patching
<1>4. StillKnows(t)
  BY <1>1, <1>3 DEF StillKnows, Start, IInv, DraftInv, Knows
<1> QED
  BY <1>2, <1>4, StepInv

LEMMA PatchEndsInv == ASSUME IInv, TypeOK', NEW t \in Turns, PatchEnds(t) PROVE IInv'
<1>1. /\ pc[t] \in Patching
      /\ pc'[t] = IF pc[t] = "flushing" THEN "validate" ELSE "streaming"
      /\ flushed'[t] = written[t] /\ attempts'[t] = attempts[t] /\ written'[t] = written[t]
  BY DEF PatchEnds, Goto, IInv, TypeOK
<1>2. StepOf(t)
  BY <1>1, GoesOnStep DEF PatchEnds, Goto, IInv, TypeOK, Active, Generating
<1>3. ASSUME SessionOf[t] \in Orderly
      PROVE  Knows(t, pc'[t], attempts'[t], written'[t], flushed'[t], draft'[SessionOf[t]])
  <2>1. draft'[SessionOf[t]] = Text(t)
    BY <1>3, PatchOrderly DEF PatchEnds, IInv
  <2>2. written[t] \in Nat /\ EveryN \in Nat \ {0}
    BY LengthAssumption DEF IInv, TypeOK
  <2> QED
    BY <1>1, <2>1, <2>2 DEF Knows, Text
<1> QED
  BY <1>2, <1>3, StepInv DEF StillKnows

LEMMA ChunkInv ==
  ASSUME IInv, TypeOK', NEW t \in Turns, NEW n \in 1..MaxChunk, Chunk(t, n) PROVE IInv'
<1>0. /\ written[t] \in Nat /\ flushed[t] \in Nat /\ n \in Nat \ {0}
      /\ EveryN \in Nat \ {0}
  BY LengthAssumption DEF IInv, TypeOK
<1>1. /\ pc[t] = "streaming"
      /\ written'[t] = written[t] + n
      /\ flushed'[t] = flushed[t] /\ attempts'[t] = attempts[t]
      /\ draft' = draft
      /\ \/ pc'[t] = "patching"
         \/ pc'[t] = "streaming" /\ ~Due(t, written[t] + n)
  BY DEF Chunk, Goto, IInv, TypeOK
<1>2. StepOf(t)
  BY <1>1, GoesOnStep DEF Chunk, Goto, IInv, TypeOK, Active, Generating, Patching
<1>3. ASSUME SessionOf[t] \in Orderly
      PROVE  Knows(t, pc'[t], attempts'[t], written'[t], flushed'[t], draft'[SessionOf[t]])
  <2>1. Knows(t, pc[t], attempts[t], written[t], flushed[t], draft[SessionOf[t]])
    BY <1>3 DEF IInv, DraftInv
  <2>2. CASE pc'[t] = "patching"
    BY <1>0, <1>1, <2>1, <2>2 DEF Knows, Active, Generating, Patching
  <2>3. CASE pc'[t] = "streaming" /\ ~Due(t, written[t] + n)
    BY <1>0, <1>1, <2>1, <2>3 DEF Knows, Due, Active, Generating, Patching
  <2> QED
    BY <1>1, <2>2, <2>3
<1> QED
  BY <1>2, <1>3, StepInv DEF StillKnows

LEMMA StreamEndsInv == ASSUME IInv, TypeOK', NEW t \in Turns, StreamEnds(t) PROVE IInv'
<1>1. pc[t] = "streaming" /\ pc'[t] = "flushing"
  BY DEF StreamEnds, Goto, IInv, TypeOK
<1>2. StepOf(t)
  BY <1>1, GoesOnStep DEF StreamEnds, Goto, IInv, TypeOK, Active, Generating, Patching
<1>3. StillKnows(t)
  BY <1>1 DEF StillKnows, StreamEnds, IInv, DraftInv, Knows, Active, Generating, Patching
<1> QED
  BY <1>2, <1>3, StepInv

LEMMA TimesOutInv == ASSUME IInv, TypeOK', NEW t \in Turns, TimesOut(t) PROVE IInv'
<1>1. CASE Tell(t, "exception", NoText)
  <2>1. pc[t] \in Active /\ Abandoned(t)
    BY DEF TimesOut, Active
  <2>2. "exception" \in {"reply", "rejected", "failure", "exception"}
    OBVIOUS
  <2> QED
    BY <1>1, <2>1, <2>2, TellStep
<1>2. CASE ~Tell(t, "exception", NoText)
  <2>1. /\ pc[t] \in Generating /\ Abandoned(t)
        /\ attempts' = [attempts EXCEPT ![t] = @ + 1]
        /\ Afresh(t) /\ Goto(t, "clearing") /\ UNCHANGED told
    BY <1>2 DEF TimesOut
  <2>2. /\ pc'[t] = "clearing" /\ attempts'[t] = attempts[t] + 1
        /\ written'[t] = 0 /\ attempts[t] \in Nat
    BY <2>1, LengthAssumption DEF Afresh, Goto, IInv, TypeOK
  <2>3. StepOf(t)
    <3>1. \A q \in Turns \ {t} :
            /\ pc'[q] = pc[q] /\ attempts'[q] = attempts[q]
            /\ written'[q] = written[q] /\ flushed'[q] = flushed[q]
      BY <2>1 DEF Afresh, Goto, IInv, TypeOK
    <3> QED
      BY <2>1, <2>2, <3>1, GoesOnStep DEF Active, Generating, Patching
  <2>4. ASSUME SessionOf[t] \in Orderly, draft'[SessionOf[t]].turn = t
        PROVE  draft'[SessionOf[t]].try < attempts'[t]
    <3>1. Knows(t, pc[t], attempts[t], written[t], flushed[t], draft[SessionOf[t]])
      BY <2>4 DEF IInv, DraftInv
    <3>2. draft[SessionOf[t]].try \in Nat
      BY SessionAssumption, LengthAssumption DEF IInv, TypeOK, Texts
    <3>3. CASE draft'[SessionOf[t]] = Text(t)
      BY <2>2, <3>3 DEF Text
    <3>4. CASE draft' = draft
      BY <2>1, <2>2, <2>4, <3>1, <3>2, <3>4 DEF Knows, Active
    <3> QED
      BY <2>1, <2>4, <3>3, <3>4, AbandonOrderly DEF IInv
  <2>5. StillKnows(t)
    BY <2>2, <2>4 DEF StillKnows, Knows
  <2> QED
    BY <2>3, <2>5, StepInv
<1> QED
  BY <1>1, <1>2

LEMMA PatchArrivesInv ==
  ASSUME IInv, TypeOK', NEW x \in late, PatchArrives(x) PROVE IInv'
<1>1. x \in Texts /\ x.turn \in Turns /\ SessionOf[x.turn] \notin Orderly
  BY DEF IInv, TypeOK, Texts, LateInv, Orderly
<1>2. \A s \in Orderly : draft'[s] = draft[s]
  BY <1>1, SessionAssumption DEF PatchArrives, Apply, Orderly, IInv, TypeOK
<1>3. UNCHANGED <<pc, attempts, written, flushed, told>> /\ late' \subseteq late
  BY DEF PatchArrives, turnVars
<1>4. Followed' /\ LateInv' /\ ToldInv'
  BY <1>3 DEF IInv, Followed, LateInv, ToldInv
<1>5. OwnerInv'
  BY <1>2, <1>3 DEF IInv, OwnerInv, Orderly
<1>6. DraftInv'
  <2> SUFFICES ASSUME NEW q \in Turns, SessionOf[q] \in Orderly
               PROVE  Knows(q, pc'[q], attempts'[q], written'[q], flushed'[q],
                            draft'[SessionOf[q]])
    BY DEF DraftInv, Orderly
  <2> QED
    BY <1>2, <1>3 DEF IInv, DraftInv
<1> QED
  BY <1>4, <1>5, <1>6 DEF IInv

LEMMA IInvInit == Init => IInv
<1> SUFFICES ASSUME Init PROVE IInv
  OBVIOUS
<1>1. TypeOK
  BY TypeInit
<1>2. Followed /\ LateInv /\ ToldInv
  BY DEF Init, Followed, LateInv, ToldInv, Active, Generating, Patching
<1>3. OwnerInv
  BY SessionAssumption DEF Init, OwnerInv, Orderly
<1>4. DraftInv
  BY DEF Init, DraftInv, Knows, Active, Generating, Patching
<1> QED
  BY <1>1, <1>2, <1>3, <1>4 DEF IInv

LEMMA IInvNext == IInv /\ [Next]_vars => IInv'
<1> SUFFICES ASSUME IInv, [Next]_vars PROVE IInv'
  OBVIOUS
<1>0. TypeOK'
  BY TypeNext DEF IInv
<1>1. CASE UNCHANGED vars
  <2>1. UNCHANGED <<pc, attempts, written, flushed, draft, late, told>>
    BY <1>1 DEF vars, turnVars
  <2>2. Followed' /\ LateInv' /\ ToldInv'
    BY <2>1 DEF IInv, Followed, LateInv, ToldInv
  <2>3. OwnerInv' /\ DraftInv'
    BY <2>1 DEF IInv, OwnerInv, DraftInv, Knows, Orderly
  <2> QED
    BY <1>0, <2>2, <2>3 DEF IInv
<1>2. ASSUME NEW t \in Turns, Start(t) PROVE IInv'
  BY <1>0, <1>2, StartInv
<1>3. ASSUME NEW t \in Turns, StartFails(t) PROVE IInv'
  BY <1>0, <1>3, TellStep DEF StartFails
<1>4. ASSUME NEW t \in Turns, PatchEnds(t) PROVE IInv'
  BY <1>0, <1>4, PatchEndsInv
<1>5. ASSUME NEW t \in Turns, NEW n \in 1..MaxChunk, Chunk(t, n) PROVE IInv'
  BY <1>0, <1>5, ChunkInv
<1>6. ASSUME NEW t \in Turns, StreamEnds(t) PROVE IInv'
  BY <1>0, <1>6, StreamEndsInv
<1>7. ASSUME NEW t \in Turns, StreamFails(t) PROVE IInv'
  BY <1>0, <1>7, TellStep DEF StreamFails, Active, Generating
<1>8. ASSUME NEW t \in Turns, Validate(t) PROVE IInv'
  <2>1. ~Again(rejected[t] + 1)
    BY DEF Again, IInv, TypeOK
  <2>2. PICK k \in {"reply", "rejected", "failure"}, x \in {Text(t), NoText} : Tell(t, k, x)
    BY <1>8, <2>1 DEF Validate
  <2> QED
    BY <1>0, <1>8, <2>2, TellStep DEF Validate, Active
<1>9. ASSUME NEW t \in Turns, TimesOut(t) PROVE IInv'
  BY <1>0, <1>9, TimesOutInv
<1>10. ASSUME NEW t \in Turns, Cancel(t) PROVE IInv'
  <2>1. pc[t] \in Active /\ Abandoned(t) /\ Tell(t, "exception", NoText)
    BY <1>10 DEF Cancel
  <2>2. "exception" \in {"reply", "rejected", "failure", "exception"}
    OBVIOUS
  <2> QED
    BY <1>0, <2>1, <2>2, TellStep
<1>11. ASSUME NEW x \in late, PatchArrives(x) PROVE IInv'
  BY <1>0, <1>11, PatchArrivesInv
<1> QED
  BY <1>1, <1>2, <1>3, <1>4, <1>5, <1>6, <1>7, <1>8, <1>9, <1>10, <1>11
     DEF Next, Run, Rest

LEMMA IInvAlways == Spec => []IInv
BY IInvInit, IInvNext, PTL DEF Spec

\* The state is well typed: what a draft shows is a text of some try of a turn,
\* and no try is counted past the last.
THEOREM TutorTyped == Spec => []TypeOK
<1>1. IInv => TypeOK
  BY DEF IInv
<1> QED
  BY <1>1, IInvAlways, PTL

\* The draft of an orderly session lags less than EveryN characters behind
\* the text of the try that is streamed into it, whatever the model sends.
THEOREM DraftsKeepUp == Spec => []DraftKeepsUp
<1>1. IInv => DraftKeepsUp
  BY DEF IInv, DraftInv, Knows, DraftKeepsUp, Active, Generating
<1> QED
  BY <1>1, IInvAlways, PTL

----------------------------------------------------------------------------
(* The refinement *)

Shown == [s \in Orderly |-> draft[s]]
Answered == [t \in Turns |-> IF SessionOf[t] \in Orderly THEN told[t] ELSE Silent]

\* The draft of t's session becomes Text(t): it is emptied, it grows, or it
\* was that text already.
LEMMA PatchIsPromised ==
  ASSUME IInv, NEW t \in Turns, SessionOf[t] \in Orderly, pc[t] \in Patching,
         Apply(Text(t))
  PROVE  Draft!Clear(t) \/ Draft!Grow(t) \/ Shown' = Shown
<1> DEFINE s == SessionOf[t]
           d == draft[s]
<1>1. Knows(t, pc[t], attempts[t], written[t], flushed[t], d)
  BY DEF IInv, DraftInv
<1>2. /\ Text(t) = [turn |-> t, try |-> attempts[t], len |-> written[t]]
      /\ attempts[t] \in 0..NodeRetries /\ written[t] \in 0..MaxLength
      /\ d \in Texts /\ s \in Sessions
  BY SessionAssumption DEF Text, IInv, TypeOK
<1>3. draft' = [draft EXCEPT ![s] = Text(t)]
  BY <1>2 DEF Apply
<1>4. Shown' = [Shown EXCEPT ![s] = Text(t)] /\ Shown[s] = d
  BY <1>2, <1>3, SessionAssumption DEF Shown, Orderly, IInv, TypeOK
<1>5. Answered[t] = Silent
  BY DEF Answered, IInv, ToldInv, Patching
<1>6. CASE pc[t] = "clearing"
  <2>1. written[t] = 0 /\ (d.turn = t => d.try < attempts[t])
    BY <1>1, <1>6 DEF Knows
  <2>2. \/ d.turn = Nobody
        \/ d.turn \in Turns \ {t} /\ Answered[d.turn] # Silent
        \/ d.turn = t /\ d.try < attempts[t]
    <3>1. CASE d = NoText
      BY <3>1 DEF NoText
    <3>2. CASE d # NoText
      <4>1. /\ d.turn \in Turns /\ SessionOf[d.turn] = s
            /\ pc[d.turn] \in Active \/ told[d.turn] # Silent
        BY <3>2 DEF IInv, OwnerInv
      <4>2. CASE d.turn = t
        BY <2>1, <4>2
      <4>3. CASE d.turn # t
        <5>1. pc[d.turn] \notin Active
          BY <1>6, <4>1, <4>3
             DEF IInv, Followed, Orderly, Active, Generating, Patching
        <5> QED
          BY <4>1, <4>3, <5>1 DEF Answered
      <4> QED
        BY <4>2, <4>3
    <3> QED
      BY <3>1, <3>2
  <2>3. Draft!Clear(t)
    BY <1>2, <1>4, <1>5, <2>1, <2>2
       DEF Draft!Clear, Draft!Shown, Draft!Silent, Draft!NoText, Silent, NoText,
           Shown, Answered
  <2> QED
    BY <2>3
<1>7. CASE pc[t] \in {"patching", "flushing"}
  <2>1. d.turn = t /\ d.try = attempts[t] /\ d.len = flushed[t] /\ flushed[t] <= written[t]
    BY <1>1, <1>7 DEF Knows, Active, Generating, Patching, IInv, TypeOK
  <2>2. d = [turn |-> t, try |-> attempts[t], len |-> flushed[t]]
    BY <1>2, <2>1 DEF Texts
  <2>3. CASE flushed[t] = written[t]
    BY <1>2, <1>4, <2>2, <2>3 DEF Shown
  <2>4. CASE flushed[t] # written[t]
    <3>0. flushed[t] \in Nat /\ written[t] \in Nat
      BY LengthAssumption DEF IInv, TypeOK
    <3>1. written[t] > d.len
      BY <2>1, <2>4, <3>0
    <3>2. [d EXCEPT !.len = written[t]] = Text(t)
      BY <1>2, <2>2
    <3>3. Draft!Grow(t)
      BY <1>2, <1>4, <1>5, <2>1, <3>1, <3>2
         DEF Draft!Grow, Draft!Shown, Draft!Silent, Draft!NoText, Silent, NoText,
             Shown, Answered
    <3> QED
      BY <3>3
  <2> QED
    BY <2>3, <2>4
<1> QED
  BY <1>6, <1>7 DEF Patching

\* A turn's patch that is abandoned changes the draft as a patch does.
LEMMA AbandonIsPromised ==
  ASSUME IInv, NEW t \in Turns, SessionOf[t] \in Orderly, Abandoned(t)
  PROVE  Draft!Clear(t) \/ Draft!Grow(t) \/ Shown' = Shown
<1>1. CASE UNCHANGED draft
  BY <1>1 DEF Shown
<1>2. CASE pc[t] \in Patching /\ Apply(Text(t))
  BY <1>2, PatchIsPromised
<1> QED
  BY <1>1, <1>2, AbandonOrderly DEF IInv

\* A step of a turn whose session is not orderly does not show.
LEMMA OtherwiseUnseen ==
  ASSUME IInv, NEW t \in Turns, SessionOf[t] \notin Orderly,
         \A q \in Turns \ {t} : told'[q] = told[q],
         \A s \in Sessions \ {SessionOf[t]} : draft'[s] = draft[s]
  PROVE  Shown' = Shown /\ Answered' = Answered
<1>1. \A s \in Orderly : draft'[s] = draft[s]
  BY SessionAssumption DEF Orderly
<1>2. Shown' = Shown
  BY <1>1 DEF Shown, Orderly
<1>3. \A q \in Turns : SessionOf[q] \in Orderly => told'[q] = told[q]
  OBVIOUS
<1>4. Answered' = Answered
  BY <1>3 DEF Answered, Orderly
<1> QED
  BY <1>2, <1>4

LEMMA TellIsPromised ==
  ASSUME IInv, NEW t \in Turns, NEW x,
         NEW k \in {"reply", "rejected", "failure", "exception"}, Tell(t, k, x),
         pc[t] # "done",
         \/ /\ k \in {"failure", "exception"} /\ x = NoText
            /\ UNCHANGED <<draft, late>> \/ Abandoned(t)
         \/ /\ k \in {"reply", "rejected"} /\ x = Text(t)
            /\ pc[t] = "validate" /\ UNCHANGED <<draft, late>>
  PROVE  [Draft!Next]_(Draft!promiseVars)
<1>1. told' = [told EXCEPT ![t] = [kind |-> k, text |-> x]]
  BY DEF Tell
<1>2. CASE SessionOf[t] \notin Orderly
  <2>1. \A q \in Turns \ {t} : told'[q] = told[q]
    BY <1>1 DEF IInv, TypeOK
  <2>2. \A s \in Sessions \ {SessionOf[t]} : draft'[s] = draft[s]
    BY PatchElsewhere DEF IInv
  <2> QED
    BY <1>2, <2>1, <2>2, OtherwiseUnseen DEF Draft!promiseVars, Shown, Answered
<1>3. CASE SessionOf[t] \in Orderly
  <2>1. Answered' = [Answered EXCEPT ![t] = [kind |-> k, text |-> x]] /\ Answered[t] = Silent
    BY <1>1, <1>3 DEF Answered, Orderly, IInv, TypeOK, ToldInv
  <2>2. CASE k \in {"failure", "exception"} /\ x = NoText
    <3>1. Draft!Clear(t) \/ Draft!Grow(t) \/ Shown' = Shown
      <4>1. CASE UNCHANGED draft
        BY <4>1 DEF Shown
      <4> QED
        BY <1>3, <2>2, <4>1, AbandonIsPromised
    <3>2. Draft!Fail(t)
      BY <2>1, <2>2, <3>1
         DEF Draft!Fail, Draft!Silent, Draft!NoText, Silent, NoText, Shown, Answered
    <3> QED
      BY <1>3, <3>2 DEF Draft!Next
  <2>3. CASE k \in {"reply", "rejected"} /\ x = Text(t)
    <3>1. pc[t] = "validate" /\ UNCHANGED draft
      BY <2>3
    <3>2. draft[SessionOf[t]] = Text(t)
      <4>1. Knows(t, pc[t], attempts[t], written[t], flushed[t], draft[SessionOf[t]])
        BY <1>3 DEF IInv, DraftInv
      <4>2. draft[SessionOf[t]] \in Texts
        BY SessionAssumption DEF IInv, TypeOK
      <4> QED
        BY <3>1, <4>1, <4>2 DEF Knows, Text, Texts, Active, Generating, Patching
    <3>3. Shown' = Shown /\ Shown[SessionOf[t]] = x
      BY <1>3, <2>3, <3>1, <3>2 DEF Shown, Orderly
    <3>4. x.turn = t
      BY <2>3 DEF Text
    <3>5. Draft!Answer(t)
      BY <2>1, <2>3, <3>3, <3>4
         DEF Draft!Answer, Draft!Shown, Draft!Silent, Draft!NoText, Silent, NoText,
             Shown, Answered
    <3> QED
      BY <1>3, <3>5 DEF Draft!Next
  <2> QED
    BY <2>2, <2>3
<1> QED
  BY <1>2, <1>3

LEMMA PatchEndsIsPromised ==
  ASSUME IInv, NEW t \in Turns, pc[t] \in Patching, Patched(t) \/ Abandoned(t),
         UNCHANGED told
  PROVE  [Draft!Next]_(Draft!promiseVars)
<1>1. CASE SessionOf[t] \notin Orderly
  <2>1. \A s \in Sessions \ {SessionOf[t]} : draft'[s] = draft[s]
    BY PatchElsewhere DEF IInv
  <2> QED
    BY <1>1, <2>1, OtherwiseUnseen DEF Draft!promiseVars, Shown, Answered
<1>2. CASE SessionOf[t] \in Orderly
  <2>1. Draft!Clear(t) \/ Draft!Grow(t) \/ Shown' = Shown
    <3>1. CASE Patched(t)
      BY <1>2, <3>1, PatchOrderly, PatchIsPromised DEF IInv
    <3>2. CASE Abandoned(t)
      BY <1>2, <3>2, AbandonIsPromised
    <3> QED
      BY <3>1, <3>2
  <2>2. Answered' = Answered
    BY DEF Answered, Orderly
  <2> QED
    BY <1>2, <2>1, <2>2 DEF Draft!Next, Draft!promiseVars, Shown, Answered
<1> QED
  BY <1>1, <1>2

LEMMA QuietIsPromised ==
  ASSUME UNCHANGED told, \A s \in Orderly : draft'[s] = draft[s]
  PROVE  [Draft!Next]_(Draft!promiseVars)
<1>1. [s \in Orderly |-> draft'[s]] = [s \in Orderly |-> draft[s]]
  OBVIOUS
<1> QED
  BY <1>1 DEF Draft!promiseVars, Orderly

\* What a learner sees of an orderly session is a behaviour of DraftPromise:
\* one try of one turn at a time, only growing, and never an answer that the
\* draft does not show in full.
THEOREM TutorKeepsDraftPromise == Spec => ImplementsDraftPromise
<1>1. Init => Draft!Init
  BY SessionAssumption
     DEF Init, Draft!Init, Draft!NoText, Draft!Silent, NoText, Silent, Orderly
<1>2. ASSUME IInv, [Next]_vars PROVE [Draft!Next]_(Draft!promiseVars)
  <2>1. CASE UNCHANGED vars
    BY <2>1, QuietIsPromised DEF vars
  <2>2. ASSUME NEW t \in Turns, Start(t) PROVE [Draft!Next]_(Draft!promiseVars)
    BY <2>2, QuietIsPromised DEF Start
  <2>3. ASSUME NEW t \in Turns, StartFails(t) PROVE [Draft!Next]_(Draft!promiseVars)
    BY <1>2, <2>3, TellIsPromised DEF StartFails, MayStart
  <2>4. ASSUME NEW t \in Turns, PatchEnds(t) PROVE [Draft!Next]_(Draft!promiseVars)
    BY <1>2, <2>4, PatchEndsIsPromised DEF PatchEnds
  <2>5. ASSUME NEW t \in Turns, NEW n \in 1..MaxChunk, Chunk(t, n)
        PROVE  [Draft!Next]_(Draft!promiseVars)
    BY <2>5, QuietIsPromised DEF Chunk
  <2>6. ASSUME NEW t \in Turns, StreamEnds(t) PROVE [Draft!Next]_(Draft!promiseVars)
    BY <2>6, QuietIsPromised DEF StreamEnds
  <2>7. ASSUME NEW t \in Turns, StreamFails(t) PROVE [Draft!Next]_(Draft!promiseVars)
    BY <1>2, <2>7, TellIsPromised DEF StreamFails
  <2>8. ASSUME NEW t \in Turns, Validate(t) PROVE [Draft!Next]_(Draft!promiseVars)
    <3>1. ~Again(rejected[t] + 1)
      BY <1>2 DEF Again, IInv, TypeOK
    <3>2. \/ Tell(t, "failure", NoText)
          \/ Tell(t, "reply", Text(t)) \/ Tell(t, "rejected", Text(t))
      BY <2>8, <3>1 DEF Validate
    <3>3. pc[t] = "validate" /\ UNCHANGED <<draft, late>>
      BY <2>8 DEF Validate
    <3> QED
      BY <1>2, <3>2, <3>3, TellIsPromised
  <2>9. ASSUME NEW t \in Turns, TimesOut(t) PROVE [Draft!Next]_(Draft!promiseVars)
    <3>1. pc[t] \in Generating /\ Abandoned(t)
      BY <2>9 DEF TimesOut
    <3>2. CASE Tell(t, "exception", NoText)
      BY <1>2, <3>1, <3>2, TellIsPromised DEF Generating, Patching
    <3>3. CASE UNCHANGED told /\ pc[t] \in Patching
      BY <1>2, <3>1, <3>3, PatchEndsIsPromised
    <3>4. CASE UNCHANGED told /\ pc[t] \notin Patching
      BY <3>1, <3>4, QuietIsPromised DEF Abandoned
    <3> QED
      BY <2>9, <3>2, <3>3, <3>4 DEF TimesOut
  <2>10. ASSUME NEW t \in Turns, Cancel(t) PROVE [Draft!Next]_(Draft!promiseVars)
    <3>1. /\ pc[t] # "done" /\ Abandoned(t) /\ Tell(t, "exception", NoText)
      BY <2>10 DEF Cancel, Active, Generating, Patching
    <3> QED
      BY <1>2, <3>1, TellIsPromised
  <2>11. ASSUME NEW x \in late, PatchArrives(x) PROVE [Draft!Next]_(Draft!promiseVars)
    <3>1. x.turn \in Turns /\ SessionOf[x.turn] \notin Orderly
      BY <1>2 DEF IInv, TypeOK, Texts, LateInv, Orderly
    <3>2. \A s \in Orderly : draft'[s] = draft[s]
      BY <1>2, <2>11, <3>1, SessionAssumption DEF PatchArrives, Apply, Orderly, IInv, TypeOK
    <3> QED
      BY <2>11, <3>2, QuietIsPromised DEF PatchArrives
  <2> QED
    BY <1>2, <2>1, <2>2, <2>3, <2>4, <2>5, <2>6, <2>7, <2>8, <2>9, <2>10, <2>11
       DEF Next, Run, Rest
<1> QED
  BY <1>1, <1>2, IInvAlways, PTL DEF Spec, ImplementsDraftPromise, Draft!Spec
=============================================================================
