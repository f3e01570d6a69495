------------------------- MODULE AuthoringProofs -------------------------
(***************************************************************************)
(* The rules of authored content, for every document, bundle and mock      *)
(* test; and the graph that proposes a course, for every number of calls,  *)
(* jobs and retries.                                                       *)
(***************************************************************************)
EXTENDS ContentRules, MockTest, CourseScaffold, SequenceTheorems,
        FiniteSetTheorems, WellFoundedInduction, TLAPS

----------------------------------------------------------------------------
(* validate_content_blocks: the inductive invariant *)

BlocksType ==
  /\ doc \in Seq(Lines)
  /\ open \in 0..Len(doc)
  /\ body \in Seq(Lines)

\* The open block is an edtech one, and the body is all there is since.
OpenInv ==
  open # 0 =>
    /\ doc[open] \in Opening
    /\ body = SubSeq(doc, open + 1, Len(doc))
    /\ NoFenceIn(doc, open + 1, Len(doc))

\* There is a fence after line i of d.
Followed(d, i) == \E j \in i + 1..Len(d) : d[j] \in Fences

\* The other blocks are over ...
OverInv ==
  \A i \in 1..Len(doc) : doc[i] \in Opening /\ i # open => Followed(doc, i)

\* ... and were judged.
Wrong(d, o) ==
  {i \in 1..Len(d) : i # o /\ d[i] \in Opening /\ ~GoodBlock(d, i)}
FoundInv == findings = Wrong(doc, open)

BlocksIInv == BlocksType /\ OpenInv /\ OverInv /\ FoundInv

----------------------------------------------------------------------------
(* One more line *)

LEMMA AppendKeeps ==
  ASSUME NEW d \in Seq(Lines), NEW l \in Lines
  PROVE  /\ Append(d, l) \in Seq(Lines)
         /\ Len(d) \in Nat
         /\ Len(Append(d, l)) = Len(d) + 1
         /\ Append(d, l)[Len(d) + 1] = l
         /\ \A i \in 1..Len(d) : Append(d, l)[i] = d[i]
OBVIOUS

\* The lines before the last one are read as before.
LEMMA PartKept ==
  ASSUME NEW d \in Seq(Lines), NEW l \in Lines,
         NEW m \in Nat \ {0}, NEW n \in Nat, n <= Len(d)
  PROVE  SubSeq(Append(d, l), m, n) = SubSeq(d, m, n)
<1> DEFINE e == Append(d, l)
<1>1. \A i \in m..n : d[i] \in Lines /\ e[i] = d[i]
  BY AppendKeeps, ElementOfSeq
<1>2. /\ SubSeq(d, m, n) \in Seq(Lines)
      /\ Len(SubSeq(d, m, n)) = IF m <= n THEN n - m + 1 ELSE 0
      /\ \A i \in 1..n - m + 1 : SubSeq(d, m, n)[i] = d[m + i - 1]
  BY <1>1, SubSeqProperties
<1>3. /\ SubSeq(e, m, n) \in Seq(Lines)
      /\ Len(SubSeq(e, m, n)) = IF m <= n THEN n - m + 1 ELSE 0
      /\ \A i \in 1..n - m + 1 : SubSeq(e, m, n)[i] = e[m + i - 1]
  BY <1>1, SubSeqProperties
<1>4. \A i \in 1..Len(SubSeq(d, m, n)) : SubSeq(e, m, n)[i] = SubSeq(d, m, n)[i]
  <2> SUFFICES ASSUME NEW i \in 1..Len(SubSeq(d, m, n))
               PROVE  SubSeq(e, m, n)[i] = SubSeq(d, m, n)[i]
    OBVIOUS
  <2>1. i \in 1..n - m + 1 /\ m + i - 1 \in m..n
    BY <1>2
  <2> QED
    BY <1>1, <1>2, <1>3, <2>1
<1> QED
  BY <1>2, <1>3, <1>4, SeqEqual

LEMMA NoFenceKept ==
  ASSUME NEW d \in Seq(Lines), NEW l \in Lines,
         NEW i \in Nat \ {0}, NEW j \in Nat, j <= Len(d)
  PROVE  NoFenceIn(Append(d, l), i, j) <=> NoFenceIn(d, i, j)
<1>1. \A k \in i..j : Append(d, l)[k] = d[k]
  BY AppendKeeps
<1> QED
  BY <1>1 DEF NoFenceIn

\* The body grows by the line.
LEMMA PartGrows ==
  ASSUME NEW d \in Seq(Lines), NEW l \in Lines, NEW m \in 1..Len(d) + 1
  PROVE  SubSeq(Append(d, l), m, Len(d) + 1) = Append(SubSeq(d, m, Len(d)), l)
<1> DEFINE e == Append(d, l)
           n == Len(d)
<1>0. n \in Nat /\ m \in Nat \ {0} /\ e \in Seq(Lines) /\ Len(e) = n + 1
  BY AppendKeeps
<1>1. /\ SubSeq(d, m, n) \in Seq(Lines)
      /\ Len(SubSeq(d, m, n)) = n - m + 1
      /\ \A i \in 1..n - m + 1 : SubSeq(d, m, n)[i] = d[m + i - 1]
  <2>1. \A i \in m..n : d[i] \in Lines
    BY <1>0, ElementOfSeq
  <2> QED
    BY <1>0, <2>1, SubSeqProperties
<1>2. /\ SubSeq(e, m, n + 1) \in Seq(Lines)
      /\ Len(SubSeq(e, m, n + 1)) = n - m + 2
      /\ \A i \in 1..n - m + 2 : SubSeq(e, m, n + 1)[i] = e[m + i - 1]
  <2>1. \A i \in m..n + 1 : e[i] \in Lines
    BY <1>0, ElementOfSeq
  <2>2. n + 1 - m + 1 = n - m + 2 /\ m <= n + 1
    BY <1>0
  <2>3. /\ SubSeq(e, m, n + 1) \in Seq(Lines)
        /\ Len(SubSeq(e, m, n + 1)) = IF m <= n + 1 THEN n + 1 - m + 1 ELSE 0
        /\ \A i \in 1..n + 1 - m + 1 : SubSeq(e, m, n + 1)[i] = e[m + i - 1]
    BY <1>0, <2>1, SubSeqProperties
  <2> QED
    BY <2>2, <2>3
<1>3. /\ Append(SubSeq(d, m, n), l) \in Seq(Lines)
      /\ Len(Append(SubSeq(d, m, n), l)) = n - m + 2
      /\ Append(SubSeq(d, m, n), l)[n - m + 2] = l
      /\ \A i \in 1..n - m + 1 : Append(SubSeq(d, m, n), l)[i] = d[m + i - 1]
  BY <1>0, <1>1, AppendKeeps
<1>4. \A i \in 1..n - m + 2 : e[m + i - 1] = Append(SubSeq(d, m, n), l)[i]
  <2> SUFFICES ASSUME NEW i \in 1..n - m + 2
               PROVE  e[m + i - 1] = Append(SubSeq(d, m, n), l)[i]
    OBVIOUS
  <2>1. CASE i = n - m + 2
    <3>1. m + i - 1 = n + 1
      BY <1>0, <2>1
    <3> QED
      BY <1>3, <2>1, <3>1, AppendKeeps
  <2>2. CASE i # n - m + 2
    <3>1. i \in 1..n - m + 1 /\ m + i - 1 \in 1..n
      BY <1>0, <2>2
    <3> QED
      BY <1>3, <3>1, AppendKeeps
  <2> QED
    BY <2>1, <2>2
<1> QED
  BY <1>2, <1>3, <1>4, SeqEqual

\* What is over stays as it was found.
LEMMA VerdictKept ==
  ASSUME NEW d \in Seq(Lines), NEW l \in Lines, NEW i \in 1..Len(d),
         Followed(d, i)
  PROVE  GoodBlock(Append(d, l), i) <=> GoodBlock(d, i)
<1> DEFINE e == Append(d, l)
<1>0. /\ Len(d) \in Nat /\ Len(e) = Len(d) + 1 /\ e[i] = d[i]
      /\ \A k \in 1..Len(d) : e[k] = d[k]
  BY AppendKeeps
<1>1. \A j \in i + 1..Len(d) :
        /\ e[j] \in Fences <=> d[j] \in Fences
        /\ NoFenceIn(e, i + 1, j - 1) <=> NoFenceIn(d, i + 1, j - 1)
        /\ SubSeq(e, i + 1, j - 1) = SubSeq(d, i + 1, j - 1)
  <2> SUFFICES ASSUME NEW j \in i + 1..Len(d)
               PROVE  /\ e[j] \in Fences <=> d[j] \in Fences
                      /\ NoFenceIn(e, i + 1, j - 1) <=> NoFenceIn(d, i + 1, j - 1)
                      /\ SubSeq(e, i + 1, j - 1) = SubSeq(d, i + 1, j - 1)
    OBVIOUS
  <2>1. /\ i + 1 \in Nat \ {0} /\ j - 1 \in Nat /\ j - 1 <= Len(d)
        /\ j \in 1..Len(d)
    BY <1>0
  <2>2. NoFenceIn(e, i + 1, j - 1) <=> NoFenceIn(d, i + 1, j - 1)
    BY <2>1, NoFenceKept
  <2>3. SubSeq(e, i + 1, j - 1) = SubSeq(d, i + 1, j - 1)
    BY <2>1, PartKept
  <2> QED
    BY <1>0, <2>1, <2>2, <2>3
<1>2. ~NoFenceIn(e, i + 1, Len(d))
  BY <1>0, <1>1 DEF Followed, NoFenceIn
<1>3. GoodBlock(e, i) => GoodBlock(d, i)
  <2> SUFFICES ASSUME NEW j \in i + 1..Len(d) + 1,
                      e[j] \in Fences, NoFenceIn(e, i + 1, j - 1),
                      BlockOk(e[i], SubSeq(e, i + 1, j - 1))
               PROVE  GoodBlock(d, i)
    BY <1>0 DEF GoodBlock
  <2>1. j # Len(d) + 1
    <3> SUFFICES ASSUME j = Len(d) + 1 PROVE FALSE
      OBVIOUS
    <3>1. j - 1 = Len(d)
      BY <1>0
    <3> QED
      BY <1>2, <3>1
  <2>2. j \in i + 1..Len(d)
    BY <1>0, <2>1
  <2> QED
    BY <1>0, <1>1, <2>2 DEF GoodBlock
<1>4. GoodBlock(d, i) => GoodBlock(e, i)
  <2> SUFFICES ASSUME NEW j \in i + 1..Len(d),
                      d[j] \in Fences, NoFenceIn(d, i + 1, j - 1),
                      BlockOk(d[i], SubSeq(d, i + 1, j - 1))
               PROVE  GoodBlock(e, i)
    BY DEF GoodBlock
  <2>1. j \in i + 1..Len(e)
    BY <1>0
  <2> QED
    BY <1>0, <1>1, <2>1 DEF GoodBlock
<1> QED
  BY <1>3, <1>4

\* A fence is the end of the block that is open.
LEMMA VerdictGiven ==
  ASSUME NEW d \in Seq(Lines), NEW l \in Fences, NEW i \in 1..Len(d),
         NoFenceIn(d, i + 1, Len(d))
  PROVE  GoodBlock(Append(d, l), i) <=> BlockOk(d[i], SubSeq(d, i + 1, Len(d)))
<1> DEFINE e == Append(d, l)
           n == Len(d) + 1
<1>0. /\ Len(d) \in Nat /\ Len(e) = n /\ e[i] = d[i] /\ e[n] = l /\ l \in Lines
      /\ \A k \in 1..Len(d) : e[k] = d[k]
      /\ n - 1 = Len(d) /\ n \in i + 1..Len(e) /\ i + 1 \in Nat \ {0}
  BY AppendKeeps DEF Lines
<1>1. NoFenceIn(e, i + 1, n - 1)
  BY <1>0, NoFenceKept
<1>2. SubSeq(e, i + 1, n - 1) = SubSeq(d, i + 1, Len(d))
  BY <1>0, PartKept
<1>3. \A j \in i + 1..Len(e) : e[j] \in Fences => j = n
  BY <1>0, <1>1 DEF NoFenceIn
<1> QED
  BY <1>0, <1>1, <1>2, <1>3 DEF GoodBlock

----------------------------------------------------------------------------
(* The loop keeps the invariant *)

LEMMA InitInv == BlocksInit => BlocksIInv
BY DEF BlocksInit, BlocksIInv, BlocksType, OpenInv, OverInv, FoundInv, Wrong

\* A line that is no fence.
LEMMA PlainInv ==
  ASSUME BlocksIInv, NEW l \in Plain, doc' = Append(doc, l), ReadPlain(l)
  PROVE  BlocksIInv'
<1>0. /\ l \in Lines /\ l \notin Fences /\ l \notin Opening
  BY DEF Lines, Plain, Fences, Opening
<1>1. /\ doc' \in Seq(Lines) /\ Len(doc) \in Nat /\ Len(doc') = Len(doc) + 1
      /\ doc'[Len(doc) + 1] = l /\ \A i \in 1..Len(doc) : doc'[i] = doc[i]
  BY <1>0, AppendKeeps DEF BlocksIInv, BlocksType
<1>2. BlocksType'
  <2>1. open' \in 0..Len(doc')
    BY <1>1 DEF BlocksIInv, BlocksType, ReadPlain
  <2>2. body' \in Seq(Lines)
    BY <1>0 DEF BlocksIInv, BlocksType, ReadPlain
  <2> QED
    BY <1>1, <2>1, <2>2 DEF BlocksType
<1>3. OpenInv'
  <2> SUFFICES ASSUME open # 0
               PROVE  /\ doc'[open] \in Opening
                      /\ body' = SubSeq(doc', open + 1, Len(doc'))
                      /\ NoFenceIn(doc', open + 1, Len(doc'))
    BY DEF OpenInv, ReadPlain
  <2>1. open \in 1..Len(doc) /\ open + 1 \in 1..Len(doc) + 1 /\ open + 1 \in Nat \ {0}
    BY <1>1 DEF BlocksIInv, BlocksType
  <2>2. body' = SubSeq(doc', open + 1, Len(doc'))
    BY <1>0, <1>1, <2>1, PartGrows DEF BlocksIInv, BlocksType, OpenInv, ReadPlain
  <2>3. NoFenceIn(doc', open + 1, Len(doc))
    BY <1>0, <1>1, <2>1, NoFenceKept DEF BlocksIInv, BlocksType, OpenInv
  <2>4. NoFenceIn(doc', open + 1, Len(doc'))
    BY <1>0, <1>1, <2>1, <2>3 DEF NoFenceIn
  <2> QED
    BY <1>1, <2>1, <2>2, <2>4 DEF BlocksIInv, OpenInv
<1>4. OverInv'
  <2> SUFFICES ASSUME NEW i \in 1..Len(doc'), doc'[i] \in Opening, i # open
               PROVE  Followed(doc', i)
    BY DEF OverInv, ReadPlain
  <2>1. i \in 1..Len(doc) /\ doc[i] \in Opening
    BY <1>0, <1>1
  <2> QED
    BY <1>1, <2>1 DEF BlocksIInv, OverInv, Followed
<1>5. FoundInv'
  <2>1. \A i \in 1..Len(doc) : doc[i] \in Opening /\ i # open =>
          (GoodBlock(doc', i) <=> GoodBlock(doc, i))
    BY <1>0, VerdictKept DEF BlocksIInv, BlocksType, OverInv
  <2>2. \A i : i \in Wrong(doc', open) <=> i \in Wrong(doc, open)
    BY <1>0, <1>1, <2>1 DEF Wrong
  <2> QED
    BY <2>2 DEF BlocksIInv, FoundInv, ReadPlain
<1> QED
  BY <1>2, <1>3, <1>4, <1>5 DEF BlocksIInv

\* A fence: the block that is open is judged, and another may open.
LEMMA FenceInv ==
  ASSUME BlocksIInv, NEW l \in Fences, doc' = Append(doc, l), ReadFence(l)
  PROVE  BlocksIInv'
<1> DEFINE n == Len(doc) + 1
<1>0. l \in Lines /\ Opening \subseteq Fences
  BY DEF Lines, Fences
<1>1. /\ doc' \in Seq(Lines) /\ Len(doc) \in Nat /\ Len(doc') = n
      /\ doc'[n] = l /\ \A i \in 1..Len(doc) : doc'[i] = doc[i]
  BY <1>0, AppendKeeps DEF BlocksIInv, BlocksType
<1>2. /\ body' = <<>>
      /\ open' = IF l \in Opening THEN n ELSE 0
      /\ findings' = IF open = 0 THEN findings ELSE Judged
  BY DEF ReadFence
<1>3. BlocksType'
  BY <1>1, <1>2 DEF BlocksType
<1>4. OpenInv'
  <2> SUFFICES ASSUME l \in Opening, open' = n
               PROVE  /\ doc'[n] \in Opening
                      /\ <<>> = SubSeq(doc', n + 1, n)
                      /\ NoFenceIn(doc', n + 1, n)
    BY <1>1, <1>2 DEF OpenInv
  <2>1. SubSeq(doc', n + 1, n) = <<>>
    BY <1>1, SubSeqEmpty
  <2>2. NoFenceIn(doc', n + 1, n)
    BY <1>1 DEF NoFenceIn
  <2> QED
    BY <1>1, <2>1, <2>2
<1>5. \A i \in 1..Len(doc) : Followed(doc', i)
  BY <1>1 DEF Followed
<1>6. OverInv'
  <2> SUFFICES ASSUME NEW i \in 1..n, doc'[i] \in Opening, i # open'
               PROVE  Followed(doc', i)
    BY <1>1 DEF OverInv
  <2>1. i # n
    BY <1>1, <1>2
  <2> QED
    BY <1>1, <1>5, <2>1
<1>7. FoundInv'
  <2>1. \A i \in 1..Len(doc) : doc[i] \in Opening /\ i # open =>
          (GoodBlock(doc', i) <=> GoodBlock(doc, i))
    BY <1>0, VerdictKept DEF BlocksIInv, BlocksType, OverInv
  <2>2. open # 0 => (GoodBlock(doc', open) <=> BlockOk(doc[open], body))
    <3> SUFFICES ASSUME open # 0
                 PROVE  GoodBlock(doc', open) <=> BlockOk(doc[open], body)
      OBVIOUS
    <3>1. open \in 1..Len(doc)
      BY <1>1 DEF BlocksIInv, BlocksType
    <3>2. doc \in Seq(Lines) /\ NoFenceIn(doc, open + 1, Len(doc))
          /\ body = SubSeq(doc, open + 1, Len(doc))
      BY DEF BlocksIInv, BlocksType, OpenInv
    <3> QED
      BY <3>1, <3>2, VerdictGiven
  <2>3. n \notin Wrong(doc', open')
    BY <1>1, <1>2 DEF Wrong
  <2>4. \A i \in 1..Len(doc) : i \in Wrong(doc', open') <=> doc[i] \in Opening /\ ~GoodBlock(doc', i)
    BY <1>1, <1>2 DEF Wrong
  <2>5. \A i \in 1..Len(doc) : i \in Wrong(doc', open') <=> i \in findings'
    <3> SUFFICES ASSUME NEW i \in 1..Len(doc)
                 PROVE  i \in Wrong(doc', open') <=> i \in findings'
      OBVIOUS
    <3>1. i \in findings <=> i # open /\ doc[i] \in Opening /\ ~GoodBlock(doc, i)
      BY DEF BlocksIInv, FoundInv, Wrong
    <3>2. CASE i # open
      <4>1. i \in findings' <=> i \in findings
        BY <1>2, <3>2 DEF Judged
      <4> QED
        BY <2>1, <2>4, <3>1, <3>2, <4>1
    <3>3. CASE i = open
      <4>1. open # 0 /\ doc[i] \in Opening
        BY <1>1, <3>3 DEF BlocksIInv, OpenInv
      <4>2. i \in findings' <=> ~BlockOk(doc[open], body)
        BY <1>2, <3>1, <3>3, <4>1 DEF Judged
      <4> QED
        BY <2>2, <2>4, <3>3, <4>1, <4>2
    <3> QED
      BY <3>2, <3>3
  <2>6. findings' \subseteq 1..Len(doc) /\ Wrong(doc', open') \subseteq 1..n
    BY <1>1, <1>2 DEF BlocksIInv, BlocksType, FoundInv, Wrong, Judged
  <2>7. Wrong(doc', open') \subseteq 1..Len(doc)
    BY <1>1, <2>3, <2>6
  <2> QED
    BY <2>5, <2>6, <2>7 DEF FoundInv
<1> QED
  BY <1>3, <1>4, <1>6, <1>7 DEF BlocksIInv

LEMMA NextInv == BlocksIInv /\ [BlocksNext]_blockVars => BlocksIInv'
<1> SUFFICES ASSUME BlocksIInv, [BlocksNext]_blockVars PROVE BlocksIInv'
  OBVIOUS
<1>1. ASSUME NEW l \in Lines, ReadLine(l) PROVE BlocksIInv'
  <2>1. CASE ReadPlain(l)
    BY <1>1, <2>1, PlainInv DEF ReadLine, ReadPlain
  <2>2. CASE ReadFence(l)
    BY <1>1, <2>2, FenceInv DEF ReadLine, ReadFence
  <2> QED
    BY <1>1, <2>1, <2>2 DEF ReadLine
<1>2. CASE UNCHANGED blockVars
  BY <1>2 DEF blockVars, BlocksIInv, BlocksType, OpenInv, OverInv, FoundInv
<1> QED
  BY <1>1, <1>2 DEF BlocksNext

\* The block that is open is not closed, so it is reported; the others are
\* reported as they were judged.
LEMMA InvJudges == BlocksIInv => BlocksAreJudged
<1> SUFFICES ASSUME BlocksIInv PROVE BlocksAreJudged
  OBVIOUS
<1>1. open # 0 => open \in 1..Len(doc) /\ doc[open] \in Opening /\ ~GoodBlock(doc, open)
  <2> SUFFICES ASSUME open # 0, GoodBlock(doc, open)
               PROVE  FALSE
    BY DEF BlocksIInv, BlocksType, OpenInv
  <2> QED
    BY DEF BlocksIInv, OpenInv, GoodBlock, NoFenceIn
<1>2. \A i \in 1..Len(doc) : i = open => open # 0
  OBVIOUS
<1> QED
  BY <1>1, <1>2 DEF BlocksIInv, FoundInv, Wrong, BlockErrors, BlocksAreJudged

\* For every document and after every line of it, the report is exactly the
\* blocks that are wrong (validate_content_blocks).
THEOREM EveryBlockIsJudged == BlocksSpec => []BlocksAreJudged
<1>1. BlocksInit => BlocksIInv
  BY InitInv
<1>2. BlocksIInv /\ [BlocksNext]_blockVars => BlocksIInv'
  BY NextInv
<1>3. BlocksIInv => BlocksAreJudged
  BY InvJudges
<1> QED
  BY <1>1, <1>2, <1>3, PTL DEF BlocksSpec

----------------------------------------------------------------------------
(* Sets of numbers *)

\* A set of numbers that is not empty has a least one.
LEMMA LeastOne ==
  ASSUME NEW S, S \subseteq Nat, NEW x \in S
  PROVE  \E n \in S : \A m \in S : n <= m
<1> DEFINE R == {ss \in Nat \X Nat : ss[1] < ss[2]}
<1>1. IsWellFoundedOn(R, Nat)
  BY NatLessThanWellFounded, Zenon DEF OpToRel
<1>2. \A a, b \in Nat : <<a, b>> \in R <=> a < b
  OBVIOUS
<1> HIDE DEF R
<1>3. \E n \in S : \A m \in S : ~(<<m, n>> \in R)
  BY <1>1, WFMin
<1>4. PICK n \in S : \A m \in S : ~(<<m, n>> \in R)
  BY <1>3
<1>5. \A m \in S : ~(m < n)
  BY <1>2, <1>4
<1>6. \A m \in S : n <= m
  BY <1>5
<1> QED
  BY <1>6

\* There is a k-th one of k numbers or more.
LEMMA KthIs ==
  ASSUME NEW n \in Nat, NEW S \in SUBSET (1..n), NEW k \in 1..Cardinality(S)
  PROVE  /\ Kth(S, k) \in S
         /\ Cardinality({j \in S : j < Kth(S, k)}) = k - 1
<1> DEFINE upTo(i) == {j \in S : j <= i}
           before(i) == {j \in S : j < i}
           T == {i \in 1..n : Cardinality(upTo(i)) >= k}
<1>0. \A j \in S : j \in 1..n /\ j \in Nat
  OBVIOUS
<1>1. /\ IsFiniteSet(S) /\ Cardinality(S) \in Nat
      /\ \A U \in SUBSET S : IsFiniteSet(U) /\ Cardinality(U) \in Nat
  <2>1. IsFiniteSet(1..n)
    BY FS_Interval
  <2>2. IsFiniteSet(S)
    BY <2>1, FS_Subset
  <2> QED
    BY <2>2, FS_Subset, FS_CardinalityType
<1>2. n \in T
  <2>1. upTo(n) = S
    <3>1. \A j \in S : j <= n
      BY <1>0
    <3> QED
      BY <3>1
  <2>2. n >= 1
    <3> SUFFICES ASSUME n = 0 PROVE FALSE
      OBVIOUS
    <3>1. S = {}
      OBVIOUS
    <3> QED
      BY <3>1, FS_EmptySet
  <2> QED
    BY <1>1, <2>1, <2>2
<1>3. PICK i \in T : \A j \in T : i <= j
  <2>1. T \subseteq Nat
    OBVIOUS
  <2> HIDE DEF T
  <2> QED
    BY <1>2, <2>1, LeastOne
<1>4. i \in 1..n /\ Cardinality(upTo(i)) >= k
  OBVIOUS
<1>5. Cardinality(before(i)) < k
  <2>1. CASE i = 1
    <3>1. before(i) = {}
      <4>1. \A j \in S : ~(j < i)
        BY <1>0, <2>1
      <4> QED
        BY <4>1
    <3> QED
      BY <3>1, FS_EmptySet
  <2>2. CASE i # 1
    <3>1. i - 1 \in 1..n /\ ~(i <= i - 1)
      BY <1>4, <2>2
    <3>2. i - 1 \notin T
      BY <1>3, <3>1
    <3>3. before(i) = upTo(i - 1)
      <4>1. \A j \in S : j < i <=> j <= i - 1
        BY <1>0, <1>4
      <4> QED
        BY <4>1
    <3>4. Cardinality(upTo(i - 1)) \in Nat
      BY <1>1
    <3> QED
      BY <3>1, <3>2, <3>3, <3>4
  <2> QED
    BY <2>1, <2>2
<1>6. i \in S
  <2> SUFFICES ASSUME i \notin S PROVE FALSE
    OBVIOUS
  <2>1. upTo(i) = before(i)
    <3>1. \A j \in S : j < i <=> j <= i
      BY <1>0, <1>4
    <3> QED
      BY <3>1
  <2>2. Cardinality(before(i)) \in Nat
    BY <1>1
  <2> QED
    BY <1>4, <1>5, <2>1, <2>2
<1>7. Cardinality(before(i)) = k - 1
  <2>1. upTo(i) = before(i) \cup {i}
    <3>1. \A j \in S : j <= i <=> j < i \/ j = i
      BY <1>0, <1>4
    <3> QED
      BY <1>6, <3>1
  <2>2. IsFiniteSet(before(i)) /\ Cardinality(before(i)) \in Nat /\ i \notin before(i)
    BY <1>1
  <2>3. Cardinality(upTo(i)) = Cardinality(before(i)) + 1
    BY <2>1, <2>2, FS_AddElement
  <2> HIDE DEF upTo, before
  <2> QED
    BY <1>4, <1>5, <2>2, <2>3
<1> QED
  BY <1>6, <1>7 DEF Kth

LEMMA NthIs ==
  ASSUME NEW n \in Nat, NEW S \in SUBSET (1..n), NEW k \in 1..Cardinality(S)
  PROVE  Nth(S, k) \in S
BY KthIs DEF Nth, Kth


\* The k-th ones are the members of a set, each once.
LEMMA KthCounts ==
  ASSUME NEW n \in Nat, NEW S \in SUBSET (1..n)
  PROVE  /\ Cardinality(S) \in Nat
         /\ \A k \in 1..Cardinality(S) : Kth(S, k) \in S
         /\ \A k, l \in 1..Cardinality(S) : Kth(S, k) = Kth(S, l) => k = l
         /\ \A i \in S : \E k \in 1..Cardinality(S) : Kth(S, k) = i
<1>1. IsFiniteSet(S)
  <2>1. IsFiniteSet(1..n)
    BY FS_Interval
  <2> QED
    BY <2>1, FS_Subset
<1>2. Cardinality(S) \in Nat
  BY <1>1, FS_CardinalityType
<1>3. \A k \in 1..Cardinality(S) : Kth(S, k) \in S
  BY KthIs
<1>4. ASSUME NEW k \in 1..Cardinality(S), NEW l \in 1..Cardinality(S), Kth(S, k) = Kth(S, l)
      PROVE  k = l
  <2> DEFINE before(x) == Cardinality({j \in S : j < x})
  <2>1. before(Kth(S, k)) = k - 1 /\ before(Kth(S, l)) = l - 1
    BY KthIs
  <2> HIDE DEF before
  <2>2. k - 1 = l - 1
    BY <1>4, <2>1
  <2> QED
    BY <2>2
<1>5. ASSUME NEW i \in S
      PROVE  \E k \in 1..Cardinality(S) : Kth(S, k) = i
  <2> DEFINE f == [k \in 1..Cardinality(S) |-> Kth(S, k)]
  <2>1. f \in Injection(1..Cardinality(S), S)
    BY <1>3, <1>4 DEF Injection, IsInjective
  <2>2. IsFiniteSet(1..Cardinality(S)) /\ Cardinality(1..Cardinality(S)) = Cardinality(S)
    BY <1>2, FS_Interval
  <2>3. f \in Surjection(1..Cardinality(S), S)
    <3> HIDE DEF f
    <3> QED
      BY <1>1, <2>1, <2>2, FS_Injection
  <2>4. \E k \in 1..Cardinality(S) : f[k] = i
    BY <2>3 DEF Surjection
  <2> QED
    BY <2>4
<1> QED
  BY <1>2, <1>3, <1>4, <1>5

----------------------------------------------------------------------------
(* The quiz *)

\* The options of a question, by their positions.
LEMMA SlugsAre ==
  ASSUME NEW q \in Question
  PROVE  /\ Len(q.options) \in Nat
         /\ \A o \in Slugs(q) : o.position \in Places(q.options)
                                  /\ o.slug = Strip(q.options[o.position])
<1>1. q.options \in Seq(STRING)
  BY DEF Question
<1>2. \A o \in Slugs(q) : \E i \in Places(q.options) :
        o = [slug |-> Strip(q.options[i]), position |-> i]
  BY DEF Slugs
<1> QED
  BY <1>1, <1>2

LEMMA FirstIsOne ==
  ASSUME NEW q \in Question, NEW S \in SUBSET Slugs(q), S # {}
  PROVE  First(S) \in S
<1> DEFINE P == {o.position : o \in S}
<1>1. P \subseteq Nat
  BY SlugsAre DEF Places
<1>2. \E p \in P : TRUE
  OBVIOUS
<1>3. \E n \in P : \A m \in P : n <= m
  <2> HIDE DEF P
  <2> QED
    BY <1>1, <1>2, LeastOne
<1>4. \E o \in S : \A p \in S : o.position <= p.position
  BY <1>3
<1> QED
  BY <1>4 DEF First

LEMMA MatchIsIn == ASSUME NEW q PROVE Match(q) \subseteq Slugs(q)
BY DEF Match

\* A question that is in order keeps its four options and the correct one.
LEMMA QuestionSurvives ==
  ASSUME NEW q \in Question, QuestionOk(q)
  PROVE  /\ Cardinality(Slugs(q)) = 4
         /\ Match(q) # {}
         /\ Distinct([j \in Places(q.options) |-> Strip(q.options[j])]) =>
              q.options[First(Match(q)).position] = q.correct
<1> DEFINE slug(i) == [slug |-> Strip(q.options[i]), position |-> i]
<1>1. /\ Places(q.options) = 1..4
      /\ \A i \in 1..4 : q.options[i] \in STRING /\ ~Blank(q.options[i])
  BY DEF QuestionOk, Places, Question
<1>2. \A i \in 1..4 : Strip(q.options[i]) # ""
  BY <1>1 DEF Blank
<1>3. Slugs(q) = {slug(i) : i \in 1..4}
  BY <1>1, <1>2 DEF Slugs
<1>4. Cardinality(Slugs(q)) = 4
  <2> DEFINE f == [i \in 1..4 |-> slug(i)]
  <2>1. f \in Bijection(1..4, Slugs(q))
    BY <1>3 DEF Bijection, Injection, Surjection, IsInjective
  <2>2. ExistsBijection(1..4, Slugs(q))
    BY <2>1 DEF ExistsBijection
  <2> QED
    BY <2>2, FS_CountingElements
<1>5. PICK j \in 1..4 : q.options[j] = q.correct
  BY <1>1 DEF QuestionOk, ToSet, Places
<1> DEFINE named == Strip(q.correct)
           exact == {o \in Slugs(q) : o.slug = named}
<1>6. slug(j) \in exact
  BY <1>3, <1>5
<1>7. Match(q) = exact
  BY <1>6 DEF Match
<1>8. ASSUME Distinct([k \in Places(q.options) |-> Strip(q.options[k])])
      PROVE  q.options[First(Match(q)).position] = q.correct
  <2>1. First(Match(q)) \in exact
    BY <1>6, <1>7, FirstIsOne
  <2>2. PICK i \in 1..4 : First(Match(q)) = slug(i)
    BY <1>3, <2>1
  <2>3. Strip(q.options[i]) = Strip(q.options[j])
    BY <1>5, <2>1, <2>2
  <2>4. i = j
    <3> DEFINE s == [k \in Places(q.options) |-> Strip(q.options[k])]
    <3>1. s = [k \in 1..4 |-> Strip(q.options[k])] /\ Len(s) = 4
      <4>1. s = [k \in 1..4 |-> Strip(q.options[k])]
        BY <1>1
      <4> QED
        BY <4>1
    <3>2. Distinct(s)
      BY <1>8
    <3>3. \A k, l \in 1..4 : s[k] = s[l] => k = l
      <4> HIDE DEF s
      <4> QED
        BY <3>1, <3>2 DEF Distinct, Places
    <3> QED
      BY <2>3, <3>1, <3>3
  <2> QED
    BY <1>5, <2>2, <2>4
<1> QED
  BY <1>4, <1>6, <1>7, <1>8

----------------------------------------------------------------------------
(* The invariant of a save *)

BundleInv ==
  /\ IsBundle(bundle)
  /\ file = IF phase = "given" THEN bundle.file ELSE Repaired(bundle)
  /\ phase \in {"quiz", "saved"} => quizRpc = MapQuiz(bundle.quiz)
  /\ phase = "broken off" =>
       ~(BoilerplateOk(bundle.boilerplate) /\ StackOk(StackOf(bundle))
           /\ DependenciesOk(bundle.dependencies))

LEMMA BundleInvInit == BundleInit => BundleInv
BY BundlesAssumption DEF BundleInit, Given, BundleInv

LEMMA BundleInvNext == BundleInv /\ [BundleNext]_bundleVars => BundleInv'
<1> SUFFICES ASSUME BundleInv, [BundleNext]_bundleVars PROVE BundleInv'
  OBVIOUS
<1>1. CASE Repair
  BY <1>1 DEF BundleInv, Repair
<1>2. CASE ReadReadme
  BY <1>2 DEF BundleInv, ReadReadme
<1>3. CASE Judge
  BY <1>3 DEF BundleInv, Judge
<1>4. CASE UpsertQuiz
  BY <1>4 DEF BundleInv, UpsertQuiz
<1>5. CASE UpsertProject
  BY <1>5 DEF BundleInv, UpsertProject
<1>6. CASE UNCHANGED bundleVars
  BY <1>6 DEF BundleInv, bundleVars
<1> QED
  BY <1>1, <1>2, <1>3, <1>4, <1>5, <1>6 DEF BundleNext

LEMMA BundleInvAlways == BundleSpec => []BundleInv
BY BundleInvInit, BundleInvNext, PTL DEF BundleSpec

\* The quiz that is written.
LEMMA InvAnswers == BundleInv => AnswersSurvive
<1> SUFFICES ASSUME BundleInv, phase \in {"quiz", "saved"} PROVE AnswersSurvive
  BY DEF AnswersSurvive
<1>1. quizRpc = MapQuiz(bundle.quiz) /\ bundle.quiz \in Seq(Question)
  BY DEF BundleInv, IsBundle
<1> DEFINE quiz == bundle.quiz
<1>2. \A i \in Places(quiz) : quiz[i] \in Question
  BY <1>1 DEF Places
<1>3. ASSUME NEW q \in quizRpc
      PROVE  q.correct \in q.options /\ Cardinality(q.options) >= 2
  <2>1. PICK i \in Places(quiz) :
          /\ Cardinality(Slugs(quiz[i])) >= 2 /\ Match(quiz[i]) # {}
          /\ q = [question |-> i, options |-> Slugs(quiz[i]), correct |-> First(Match(quiz[i]))]
    BY <1>1 DEF MapQuiz
  <2>2. First(Match(quiz[i])) \in Match(quiz[i])
    BY <1>2, <2>1, FirstIsOne, MatchIsIn
  <2> QED
    BY <2>1, <2>2, MatchIsIn
<1>4. ASSUME QuizOk(quiz), NEW i \in Places(quiz)
      PROVE  LET options == quiz[i].options IN
               \E q \in quizRpc :
                 /\ q.question = i /\ Cardinality(q.options) = 4
                 /\ Distinct([j \in Places(options) |-> Strip(options[j])]) =>
                      options[q.correct.position] = quiz[i].correct
  <2> DEFINE q == [question |-> i, options |-> Slugs(quiz[i]), correct |-> First(Match(quiz[i]))]
  <2>1. quiz[i] \in Question /\ QuestionOk(quiz[i])
    BY <1>2, <1>4 DEF QuizOk
  <2>2. /\ Cardinality(Slugs(quiz[i])) = 4
        /\ Match(quiz[i]) # {}
        /\ Distinct([j \in Places(quiz[i].options) |-> Strip(quiz[i].options[j])]) =>
             quiz[i].options[First(Match(quiz[i])).position] = quiz[i].correct
    BY <2>1, QuestionSurvives
  <2>3. q \in quizRpc
    <3>1. Cardinality(Slugs(quiz[i])) >= 2
      BY <2>2
    <3> QED
      BY <1>1, <1>4, <2>2, <3>1 DEF MapQuiz
  <2> QED
    BY <2>2, <2>3
<1> QED
  BY <1>3, <1>4 DEF AnswersSurvive

LEMMA InvNoHalfSave == BundleInv => NoHalfSave
BY DEF BundleInv, NoHalfSave, Validated, ProjectDictOk, StackOf

----------------------------------------------------------------------------
(* The test cases *)

LEMMA DictsAre ==
  ASSUME NEW cases \in Seq(TestCase)
  PROVE  /\ Len(Dicts(cases)) \in Nat /\ Places(Dicts(cases)) = DOMAIN Dicts(cases)
         /\ \A k \in Places(Dicts(cases)) :
              Dicts(cases)[k] \in TestCase /\ IsDict(Dicts(cases)[k])
<1> DEFINE dicts == {i \in Places(cases) : IsDict(cases[i])}
           n == Cardinality(dicts)
<1>1. Len(cases) \in Nat /\ dicts \subseteq 1..Len(cases)
  BY DEF Places
<1>2. n \in Nat
  <2> HIDE DEF dicts
  <2>1. IsFiniteSet(1..Len(cases))
    BY <1>1, FS_Interval
  <2>2. IsFiniteSet(dicts)
    BY <1>1, <2>1, FS_Subset
  <2> QED
    BY <2>2, FS_CardinalityType
<1>3. \A k \in 1..n : Nth(dicts, k) \in dicts
  <2> HIDE DEF dicts
  <2> QED
    BY <1>1, NthIs
<1>4. Dicts(cases) = [k \in 1..n |-> cases[Nth(dicts, k)]]
  BY DEF Dicts
<1>5. \A k \in 1..n : cases[Nth(dicts, k)] \in TestCase /\ IsDict(cases[Nth(dicts, k)])
  BY <1>3 DEF Places
<1>6. Dicts(cases) \in Seq(TestCase) /\ Len(Dicts(cases)) = n
  <2> HIDE DEF n
  <2> QED
    BY <1>2, <1>4, <1>5
<1> QED
  BY <1>2, <1>4, <1>5, <1>6 DEF Places

\* A case as the dump has it.
Dumped(case) ==
  [stdin |-> IF case.stdin = "none" THEN "string" ELSE case.stdin,
   camel |-> IfNone(case.camel, case.snake), snake |-> "none"]

LEMMA DumpIs ==
  ASSUME NEW cases \in Seq(TestCase)
  PROVE  /\ Dump(cases).is = "list"
         /\ Dump(cases).cases = [k \in Places(Dicts(cases)) |-> Dumped(Dicts(cases)[k])]
         /\ Len(Dump(cases).cases) = Len(Dicts(cases))
<1> DEFINE given == Dicts(cases)
           dumped == [k \in Places(given) |-> Dumped(given[k])]
<1>1. Dump(cases) = [is |-> "list", cases |-> dumped]
  BY DEF Dump, Dumped, JsonOf
<1>2. Len(dumped) = Len(given)
  <2>1. Len(given) \in Nat /\ Places(given) = 1..Len(given)
    BY DictsAre DEF Places
  <2>2. DOMAIN dumped = 1..Len(given)
    BY <2>1
  <2> HIDE DEF dumped, given
  <2> QED
    BY <2>1, <2>2
<1>3. Dump(cases).is = "list" /\ Dump(cases).cases = dumped
  <2> HIDE DEF dumped
  <2> QED
    BY <1>1
<1> QED
  BY <1>2, <1>3

LEMMA InvTests == BundleInv => RepairedTestsAreValid
<1> SUFFICES ASSUME BundleInv, phase # "given", file # bundle.file
             PROVE  RepairedTestsAreValid
  BY DEF RepairedTestsAreValid
<1> DEFINE given == Dicts(bundle.cases)
<1>1. bundle.cases \in Seq(TestCase) /\ file = Dump(bundle.cases)
  BY DEF BundleInv, IsBundle, Repaired
<1>2. /\ file.is = "list" /\ Len(file.cases) = Len(given)
      /\ \A k \in Places(given) : file.cases[k] = Dumped(given[k])
  BY <1>1, DumpIs
<1>3. /\ Len(given) \in Nat
      /\ \A k \in Places(given) : given[k] \in TestCase /\ IsDict(given[k])
  BY <1>1, DictsAre
<1>4. \A i \in Places(given) :
        file.cases[i].camel = "none" <=> given[i].camel = "none" /\ given[i].snake = "none"
  <2>1. \A x, y : IfNone(x, y) = "none" <=> x = "none" /\ y = "none"
    BY DEF IfNone
  <2>2. \A i \in Places(given) : file.cases[i].camel = IfNone(given[i].camel, given[i].snake)
    <3>1. \A case : Dumped(case).camel = IfNone(case.camel, case.snake)
      BY DEF Dumped
    <3> QED
      BY <1>2, <3>1
  <2>3. \A i \in Places(given) :
          IfNone(given[i].camel, given[i].snake) = "none"
            <=> given[i].camel = "none" /\ given[i].snake = "none"
    BY <2>1
  <2> QED
    BY <2>2, <2>3
<1>5. ASSUME given # <<>>, \A i \in Places(given) : given[i].stdin # "number"
      PROVE  TestsOk(file)
  <2>1. \A i \in Places(given) : file.cases[i].stdin = "string"
    <3> SUFFICES ASSUME NEW i \in Places(given)
                 PROVE  Dumped(given[i]).stdin = "string"
      BY <1>2
    <3>1. given[i].stdin \in {"none", "string"}
      BY <1>3, <1>5 DEF TestCase, IsDict
    <3> QED
      BY <3>1 DEF Dumped
  <2>2. file.cases # <<>>
    BY <1>2, <1>3, <1>5
  <2> QED
    BY <1>2, <2>1, <2>2 DEF TestsOk, Places
<1> QED
  BY <1>2, <1>4, <1>5 DEF RepairedTestsAreValid

\* For every bundle: the payload of a quiz has no question without two options
\* and its answer, and a quiz the rules accept keeps every question and the
\* option marked correct (validate_quiz_payload, harness_quiz_to_rpc_payload).
THEOREM QuizAnswersSurvive == BundleSpec => []AnswersSurvive
BY BundleInvAlways, InvAnswers, PTL

\* For every bundle: a repaired starter/tests.json passes the rules if its
\* cases have usable stdins, and scores the cases that were scored before
\* (repair_invalid_project_tests_json, validate_project_tests_json).
THEOREM RepairsAreValid == BundleSpec => []RepairedTestsAreValid
BY BundleInvAlways, InvTests, PTL

\* For every bundle: one that the three tools accept is not broken off by a
\* rule only the save applies (save_lesson_bundle).
THEOREM NothingIsHalfSaved == BundleSpec => []NoHalfSave
BY BundleInvAlways, InvNoHalfSave, PTL

----------------------------------------------------------------------------
(* The loop over the sections *)

TypedOf(s) == [position |-> s.position, type |-> s.type]

\* The section is one the rules accept on its own.
Fine(s) == s.slug # "" /\ s.position \in 1..3 /\ KnownType(s)

\* No two sections share a slug or a position.
NoneTwice(ss) ==
  \A i, j \in 1..Len(ss) :
    ss[i].slug = ss[j].slug \/ ss[i].position = ss[j].position => i = j
Orderly(ss) == (\A i \in 1..Len(ss) : Fine(ss[i])) /\ NoneTwice(ss)

MockIInv ==
  /\ sections \in Seq(Sections)
  /\ slugs = {sections[i].slug : i \in 1..Len(sections)} \ {""}
  /\ positions = {sections[i].position : i \in 1..Len(sections)} \cap (1..3)
  /\ ~errors <=> Orderly(sections)
  /\ ~errors => typed = {TypedOf(sections[i]) : i \in 1..Len(sections)}

LEMMA MockInvInit == MockInit => MockIInv
BY DEF MockInit, MockIInv, Orderly, NoneTwice

LEMMA ReadSectionInv ==
  ASSUME MockIInv, NEW s \in Sections, ReadSection(s)
  PROVE  MockIInv'
<1> DEFINE n == Len(sections)
<1>1. /\ n \in Nat /\ sections' \in Seq(Sections) /\ Len(sections') = n + 1
      /\ sections'[n + 1] = s /\ \A i \in 1..n : sections'[i] = sections[i]
      /\ 1..(n + 1) = (1..n) \cup {n + 1}
  <2>1. sections \in Seq(Sections) /\ sections' = Append(sections, s)
    BY DEF MockIInv, ReadSection
  <2>2. n \in Nat
    BY <2>1
  <2>3. 1..(n + 1) = (1..n) \cup {n + 1}
    BY <2>2
  <2> QED
    BY <2>1, <2>2, <2>3
<1> HIDE DEF n
<1>2. slugs' = {sections'[i].slug : i \in 1..(n + 1)} \ {""}
  <2>1. {sections'[i].slug : i \in 1..(n + 1)} = {sections[i].slug : i \in 1..n} \cup {s.slug}
    BY <1>1
  <2> QED
    BY <2>1 DEF MockIInv, ReadSection, n
<1>3. positions' = {sections'[i].position : i \in 1..(n + 1)} \cap (1..3)
  <2>1. {sections'[i].position : i \in 1..(n + 1)}
          = {sections[i].position : i \in 1..n} \cup {s.position}
    BY <1>1
  <2>2. positions' = positions \cup ({s.position} \cap (1..3))
    BY DEF ReadSection, FreshPosition
  <2> QED
    BY <2>1, <2>2 DEF MockIInv, n
<1>4. Orderly(sections') <=>
        Orderly(sections) /\ FreshSlug(s) /\ FreshPosition(s) /\ KnownType(s)
  <2>1. FreshSlug(s) <=> s.slug # "" /\ \A i \in 1..n : sections[i].slug # s.slug
    BY DEF FreshSlug, MockIInv, n
  <2>2. FreshPosition(s) <=>
          s.position \in 1..3 /\ \A i \in 1..n : sections[i].position # s.position
    BY DEF FreshPosition, MockIInv, n
  <2>3. (\A i \in 1..(n + 1) : Fine(sections'[i])) <=>
          (\A i \in 1..n : Fine(sections[i])) /\ Fine(s)
    BY <1>1
  <2>4. NoneTwice(sections') <=>
          /\ NoneTwice(sections)
          /\ \A i \in 1..n : sections[i].slug # s.slug /\ sections[i].position # s.position
    <3>1. ASSUME NoneTwice(sections')
          PROVE  /\ NoneTwice(sections)
                 /\ \A i \in 1..n : sections[i].slug # s.slug /\ sections[i].position # s.position
      <4>1. \A i, j \in 1..(n + 1) :
              sections'[i].slug = sections'[j].slug
                \/ sections'[i].position = sections'[j].position => i = j
        BY <1>1, <3>1 DEF NoneTwice
      <4>2. \A i \in 1..n : i # n + 1
        BY <1>1
      <4> QED
        BY <1>1, <4>1, <4>2 DEF NoneTwice, n
    <3>2. ASSUME NoneTwice(sections),
                 \A i \in 1..n : sections[i].slug # s.slug /\ sections[i].position # s.position
          PROVE  NoneTwice(sections')
      <4> SUFFICES ASSUME NEW i \in 1..(n + 1), NEW j \in 1..(n + 1),
                          \/ sections'[i].slug = sections'[j].slug
                          \/ sections'[i].position = sections'[j].position
                   PROVE  i = j
        BY <1>1 DEF NoneTwice
      <4>1. CASE i \in 1..n /\ j \in 1..n
        BY <1>1, <3>2, <4>1 DEF NoneTwice, n
      <4>2. CASE i = n + 1 /\ j \in 1..n
        BY <1>1, <3>2, <4>2
      <4>3. CASE i \in 1..n /\ j = n + 1
        BY <1>1, <3>2, <4>3
      <4> QED
        BY <1>1, <4>1, <4>2, <4>3
    <3> QED
      BY <3>1, <3>2
  <2> QED
    BY <1>1, <2>1, <2>2, <2>3, <2>4 DEF Orderly, Fine, n
<1>5. ~errors' <=> ~errors /\ FreshSlug(s) /\ FreshPosition(s) /\ KnownType(s)
  BY Zenon DEF ReadSection
<1>6. ~errors' <=> Orderly(sections')
  BY <1>4, <1>5 DEF MockIInv
<1>7. ASSUME ~errors' PROVE typed' = {TypedOf(sections'[i]) : i \in 1..(n + 1)}
  <2>1. typed' = typed \cup {TypedOf(s)}
    BY <1>5, <1>7 DEF ReadSection, TypedOf
  <2>2. {TypedOf(sections'[i]) : i \in 1..(n + 1)}
          = {TypedOf(sections[i]) : i \in 1..n} \cup {TypedOf(s)}
    BY <1>1
  <2> QED
    BY <1>5, <1>7, <2>1, <2>2 DEF MockIInv, n
<1> QED
  BY <1>1, <1>2, <1>3, <1>6, <1>7 DEF MockIInv

LEMMA MockInvNext == MockIInv /\ [MockNext]_mockVars => MockIInv'
<1> SUFFICES ASSUME MockIInv, [MockNext]_mockVars PROVE MockIInv'
  OBVIOUS
<1>1. CASE MockNext
  BY <1>1, ReadSectionInv DEF MockNext
<1>2. CASE UNCHANGED mockVars
  BY <1>2 DEF mockVars, MockIInv
<1> QED
  BY <1>1, <1>2

----------------------------------------------------------------------------
(* Three sections in order *)

\* The sections at the positions 1 to 3, of the types t.
LEMMA ThreeTyped ==
  ASSUME NEW t, typed = {[position |-> k, type |-> t[k]] : k \in 1..3}
  PROVE  TypesSeen = [k \in 1..3 |-> t[k]]
<1> DEFINE e(k) == [position |-> k, type |-> t[k]]
<1>1. typed = {e(1), e(2), e(3)}
  OBVIOUS
<1>2. e(1) # e(2) /\ e(1) # e(3) /\ e(2) # e(3)
      /\ e(1).position = 1 /\ e(2).position = 2 /\ e(3).position = 3
      /\ e(1).type = t[1] /\ e(2).type = t[2] /\ e(3).type = t[3]
  OBVIOUS
<1> HIDE DEF e
<1>3. /\ IsFiniteSet({}) /\ Cardinality({}) = 0
      /\ IsFiniteSet({e(1)}) /\ Cardinality({e(1)}) = 1
      /\ IsFiniteSet({e(1), e(2)}) /\ Cardinality({e(1), e(2)}) = 2
      /\ Cardinality({e(1), e(2), e(3)}) = 3
  <2>1. IsFiniteSet({e(1)}) /\ Cardinality({e(1)}) = 1
    BY FS_Singleton
  <2>2. {e(1), e(2)} = {e(1)} \cup {e(2)} /\ e(2) \notin {e(1)}
    BY <1>2
  <2>3. IsFiniteSet({e(1), e(2)}) /\ Cardinality({e(1), e(2)}) = 1 + 1
    BY <2>1, <2>2, FS_AddElement
  <2>4. {e(1), e(2), e(3)} = {e(1), e(2)} \cup {e(3)} /\ e(3) \notin {e(1), e(2)}
    BY <1>2
  <2>5. Cardinality({e(1), e(2), e(3)}) = 2 + 1
    BY <2>3, <2>4, FS_AddElement
  <2> QED
    BY <2>1, <2>3, <2>5, FS_EmptySet
<1> DEFINE before(s) == {u \in typed : u.position < s.position}
<1>4. before(e(1)) = {} /\ before(e(2)) = {e(1)} /\ before(e(3)) = {e(1), e(2)}
  BY <1>1, <1>2
<1>5. /\ Cardinality(before(e(1))) = 0 /\ Cardinality(before(e(2))) = 1
      /\ Cardinality(before(e(3))) = 2
  BY <1>3, <1>4
<1>6. \A k \in 1..3 : TypedNth(k) = e(k)
  <2> HIDE DEF before
  <2>1. \A k \in 1..3 : e(k) \in typed /\ Cardinality(before(e(k))) = k - 1
    BY <1>1, <1>5
  <2>2. \A k \in 1..3, s \in typed : Cardinality(before(s)) = k - 1 => s = e(k)
    BY <1>1, <1>5
  <2>3. \A k \in 1..3 : (CHOOSE s \in typed : Cardinality(before(s)) = k - 1) = e(k)
    BY <2>1, <2>2
  <2> QED
    BY <2>3 DEF TypedNth, before
<1>7. TypesSeen = [k \in 1..3 |-> TypedNth(k).type]
  BY <1>1, <1>3 DEF TypesSeen
<1> QED
  BY <1>6, <1>7 DEF e

LEMMA SectionTypesAre ==
  /\ SectionTypes = [k \in 1..3 |-> SectionTypes[k]]
  /\ SectionTypes[1] # SectionTypes[2] /\ SectionTypes[1] # SectionTypes[3]
  /\ SectionTypes[2] # SectionTypes[3]
  /\ ToSet(SectionTypes) = {SectionTypes[k] : k \in 1..3}
BY DEF SectionTypes, ToSet

LEMMA BuiltIs ==
  ASSUME NEW given
  PROVE  ToSet(Built(given)) =
           {[slug |-> given[k], position |-> k, type |-> SectionTypes[k]] : k \in 1..3}
<1> DEFINE b == [k \in 1..3 |-> [slug |-> given[k], position |-> k, type |-> SectionTypes[k]]]
<1>1. Built(given) = b /\ DOMAIN b = 1..3
  BY DEF Built
<1>2. ToSet(b) = {b[k] : k \in 1..3}
  BY <1>1 DEF ToSet
<1> QED
  BY <1>1, <1>2

\* A function from three places onto three is one to one.
LEMMA OntoThree ==
  ASSUME NEW f, \A k \in 1..3 : \E i \in 1..3 : f[i] = k
  PROVE  \A i, j \in 1..3 : f[i] = f[j] => i = j
<1>0. /\ \A i \in 1..3 : i = 1 \/ i = 2 \/ i = 3
      /\ 1 \in 1..3 /\ 2 \in 1..3 /\ 3 \in 1..3
  OBVIOUS
<1>1. \A k \in 1..3 : f[1] = k \/ f[2] = k \/ f[3] = k
  BY <1>0
<1>2. /\ f[1] = 1 \/ f[2] = 1 \/ f[3] = 1
      /\ f[1] = 2 \/ f[2] = 2 \/ f[3] = 2
      /\ f[1] = 3 \/ f[2] = 3 \/ f[3] = 3
  BY <1>0, <1>1
<1>3. f[1] # f[2] /\ f[1] # f[3] /\ f[2] # f[3]
  BY <1>2
<1> QED
  BY <1>0, <1>3

LEMMA SectionsSet ==
  ASSUME MockIInv, Len(sections) = 3
  PROVE  ToSet(sections) = {sections[i] : i \in 1..3}
<1>1. sections \in Seq(Sections)
  BY DEF MockIInv
<1>2. DOMAIN sections = 1..3
  BY <1>1
<1> QED
  BY <1>2 DEF ToSet

\* Three sections in three positions are one in each.
LEMMA EachPosition ==
  ASSUME MockIInv, ~errors, Len(sections) = 3, NEW k \in 1..3
  PROVE  \E i \in 1..3 : sections[i].position = k
<1>0. Orderly(sections)
  BY DEF MockIInv
<1>1. /\ sections[1].position \in 1..3 /\ sections[2].position \in 1..3
      /\ sections[3].position \in 1..3
  <2>1. \A i \in 1..3 : sections[i].position \in 1..3
    BY <1>0 DEF Orderly, Fine
  <2> QED
    BY <2>1
<1>2. /\ sections[1].position # sections[2].position
      /\ sections[1].position # sections[3].position
      /\ sections[2].position # sections[3].position
  BY <1>0 DEF Orderly, NoneTwice
<1> QED
  BY <1>1, <1>2

LEMMA ValidMeansBuilt ==
  ASSUME MockIInv, Valid
  PROVE  \E given \in [1..3 -> LessonSlugs \ {""}] :
           /\ IsInjective(given) /\ Len(sections) = 3
           /\ ToSet(sections) = ToSet(Built(given))
<1>1. Len(sections) = 3 /\ ~errors /\ TypesSeen = SectionTypes
  BY DEF Valid
<1>2. /\ \A i \in 1..3 : sections[i] \in Sections /\ Fine(sections[i])
      /\ \A i, j \in 1..3 :
           sections[i].slug = sections[j].slug \/ sections[i].position = sections[j].position
             => i = j
      /\ typed = {TypedOf(sections[i]) : i \in 1..3}
  <2>1. /\ sections \in Seq(Sections) /\ Orderly(sections)
        /\ typed = {TypedOf(sections[i]) : i \in 1..3}
    BY <1>1 DEF MockIInv
  <2>2. \A i \in 1..3 : sections[i] \in Sections
    BY <1>1, <2>1
  <2> QED
    BY <1>1, <2>1, <2>2 DEF Orderly, NoneTwice
<1> DEFINE at == [k \in 1..3 |-> CHOOSE i \in 1..3 : sections[i].position = k]
           given == [k \in 1..3 |-> sections[at[k]].slug]
<1>3. \A k \in 1..3 : at[k] \in 1..3 /\ sections[at[k]].position = k
  BY <1>1, EachPosition
<1>4. \A i \in 1..3 : sections[i].position \in 1..3 /\ at[sections[i].position] = i
  BY <1>2, <1>3 DEF Fine
<1> HIDE DEF at
<1>5. given \in [1..3 -> LessonSlugs \ {""}]
  BY <1>2, <1>3 DEF Fine, Sections
<1>6. IsInjective(given)
  BY <1>2, <1>3 DEF IsInjective
<1>7. typed = {[position |-> k, type |-> sections[at[k]].type] : k \in 1..3}
  BY <1>2, <1>3, <1>4 DEF TypedOf
<1>8. \A k \in 1..3 : sections[at[k]].type = SectionTypes[k]
  <2> DEFINE t == [k \in 1..3 |-> sections[at[k]].type]
  <2>1. typed = {[position |-> k, type |-> t[k]] : k \in 1..3}
    BY <1>7
  <2>2. TypesSeen = [k \in 1..3 |-> t[k]]
    <3> HIDE DEF t
    <3> QED
      BY <2>1, ThreeTyped
  <2> QED
    BY <1>1, <2>2
<1>9. \A k \in 1..3 :
        sections[at[k]] = [slug |-> given[k], position |-> k, type |-> SectionTypes[k]]
  BY <1>2, <1>3, <1>8 DEF Sections
<1>10. ToSet(sections) = {sections[i] : i \in 1..3}
  BY <1>1, SectionsSet
<1>11. ToSet(sections) = {sections[at[k]] : k \in 1..3}
  BY <1>3, <1>4, <1>10
<1>12. ToSet(sections) = ToSet(Built(given))
  <2> HIDE DEF given
  <2> QED
    BY <1>9, <1>11, BuiltIs
<1> QED
  BY <1>1, <1>5, <1>6, <1>12

LEMMA BuiltMeansValid ==
  ASSUME MockIInv, NEW given \in [1..3 -> LessonSlugs \ {""}],
         IsInjective(given), Len(sections) = 3, ToSet(sections) = ToSet(Built(given))
  PROVE  Valid
<1> DEFINE b(k) == [slug |-> given[k], position |-> k, type |-> SectionTypes[k]]
<1>0. \A k \in 1..3 : b(k).slug = given[k] /\ b(k).position = k /\ b(k).type = SectionTypes[k]
  OBVIOUS
<1>1. {sections[i] : i \in 1..3} = {b(k) : k \in 1..3}
  <2>1. ToSet(sections) = {sections[i] : i \in 1..3}
    BY SectionsSet
  <2> QED
    BY <2>1, BuiltIs
<1>2. \A k \in 1..3 : \E i \in 1..3 : sections[i] = b(k)
  BY <1>1
<1>3. \A i \in 1..3 : \E k \in 1..3 : sections[i] = b(k)
  BY <1>1
<1> DEFINE pos(i) == sections[i].position
<1> HIDE DEF b
<1>4. \A i \in 1..3 : pos(i) \in 1..3 /\ sections[i] = b(pos(i))
  <2> SUFFICES ASSUME NEW i \in 1..3 PROVE pos(i) \in 1..3 /\ sections[i] = b(pos(i))
    OBVIOUS
  <2>1. PICK k \in 1..3 : sections[i] = b(k)
    BY <1>3
  <2>2. sections[i].position = k
    BY <1>0, <2>1
  <2> QED
    BY <2>1, <2>2
<1>5. \A k \in 1..3 : \E i \in 1..3 : pos(i) = k
  <2> SUFFICES ASSUME NEW k \in 1..3 PROVE \E i \in 1..3 : pos(i) = k
    OBVIOUS
  <2>1. PICK i \in 1..3 : sections[i] = b(k)
    BY <1>2
  <2>2. pos(i) = k
    BY <1>0, <2>1
  <2> QED
    BY <2>2
<1>6. \A i, j \in 1..3 : pos(i) = pos(j) => i = j
  <2> DEFINE f == [i \in 1..3 |-> pos(i)]
  <2>1. \A k \in 1..3 : \E i \in 1..3 : f[i] = k
    BY <1>5
  <2>2. \A i, j \in 1..3 : f[i] = f[j] => i = j
    <3> HIDE DEF f
    <3> QED
      BY <2>1, OntoThree
  <2> QED
    BY <2>2
<1>7. \A k, l \in 1..3 : given[k] = given[l] => k = l
  BY DEF IsInjective
<1>8. \A i \in 1..3 : sections[i].slug = given[pos(i)] /\ sections[i].type = SectionTypes[pos(i)]
  BY <1>0, <1>4
<1>9. Orderly(sections)
  <2>1. \A i \in 1..3 : Fine(sections[i])
    <3> SUFFICES ASSUME NEW i \in 1..3 PROVE Fine(sections[i])
      OBVIOUS
    <3>1. sections[i].slug # ""
      BY <1>4, <1>8
    <3>2. KnownType(sections[i])
      BY <1>4, <1>8, SectionTypesAre DEF KnownType
    <3> QED
      BY <1>4, <3>1, <3>2 DEF Fine
  <2>2. \A i, j \in 1..3 :
          sections[i].slug = sections[j].slug \/ sections[i].position = sections[j].position
            => i = j
    <3> SUFFICES ASSUME NEW i \in 1..3, NEW j \in 1..3,
                        sections[i].slug = sections[j].slug \/ pos(i) = pos(j)
                 PROVE  i = j
      OBVIOUS
    <3> HIDE DEF pos
    <3>1. CASE pos(i) = pos(j)
      BY <1>6, <3>1
    <3>2. CASE sections[i].slug = sections[j].slug
      <4>0. pos(i) \in 1..3 /\ pos(j) \in 1..3
        BY <1>4
      <4>1. pos(i) = pos(j)
        <5>1. given[pos(i)] = given[pos(j)]
          BY <1>8, <3>2
        <5> QED
          BY <1>7, <4>0, <5>1
      <4> QED
        BY <1>6, <4>1
    <3> QED
      BY <3>1, <3>2
  <2> QED
    BY <2>1, <2>2 DEF Orderly, NoneTwice
<1>10. ~errors /\ typed = {TypedOf(sections[i]) : i \in 1..3}
  BY <1>9 DEF MockIInv
<1>11. typed = {[position |-> k, type |-> SectionTypes[k]] : k \in 1..3}
  <2>1. \A i \in 1..3 : TypedOf(sections[i]) = [position |-> pos(i), type |-> SectionTypes[pos(i)]]
    BY <1>8 DEF TypedOf
  <2> HIDE DEF pos
  <2> DEFINE T == {TypedOf(sections[i]) : i \in 1..3}
             K == {[position |-> k, type |-> SectionTypes[k]] : k \in 1..3}
  <2>2. T \subseteq K
    <3> SUFFICES ASSUME NEW i \in 1..3 PROVE TypedOf(sections[i]) \in K
      OBVIOUS
    <3>1. pos(i) \in 1..3
      BY <1>4
    <3> QED
      BY <2>1, <3>1
  <2>3. K \subseteq T
    <3> SUFFICES ASSUME NEW k \in 1..3 PROVE [position |-> k, type |-> SectionTypes[k]] \in T
      OBVIOUS
    <3>1. PICK i \in 1..3 : pos(i) = k
      BY <1>5
    <3>2. TypedOf(sections[i]) = [position |-> k, type |-> SectionTypes[k]]
      BY <2>1, <3>1
    <3> QED
      BY <3>2
  <2> QED
    BY <1>10, <2>2, <2>3
<1>12. TypesSeen = [k \in 1..3 |-> SectionTypes[k]]
  BY <1>11, ThreeTyped
<1> QED
  BY <1>10, <1>12, SectionTypesAre DEF Valid

\* A mock test is valid exactly when it is one that the builder makes, in
\* any order of its sections (validate_mock_test_bundle).
THEOREM MockTestsAreBuilt == MockSpec => []ValidIsBuilt
<1>1. MockIInv => ValidIsBuilt
  BY ValidMeansBuilt, BuiltMeansValid DEF ValidIsBuilt
<1> QED
  BY <1>1, MockInvInit, MockInvNext, PTL DEF MockSpec

----------------------------------------------------------------------------
(* The edges of a proposal *)

Edges(p) == DOMAIN p.edges
Parent(p, i) == p.edges[i][1]
Child(p, i) == p.edges[i][2]

LEMMA ProposalIs ==
  ASSUME NEW p, IsProposal(p)
  PROVE  /\ Len(p.nodes) \in Nat /\ DOMAIN p.nodes = 1..Len(p.nodes)
         /\ Len(p.edges) \in Nat /\ Edges(p) = 1..Len(p.edges)
         /\ IsFiniteSet(Ids(p)) /\ Cardinality(Ids(p)) \in Nat
<1>1. /\ Len(p.nodes) \in Nat /\ DOMAIN p.nodes = 1..Len(p.nodes)
      /\ Len(p.edges) \in Nat /\ DOMAIN p.edges = 1..Len(p.edges)
  BY DEF IsProposal
<1>2. IsFiniteSet(Ids(p))
  <2> DEFINE f == [i \in 1..Len(p.nodes) |-> p.nodes[i].id]
  <2>1. f \in Surjection(1..Len(p.nodes), Ids(p))
    BY <1>1 DEF Ids, Surjection
  <2>2. IsFiniteSet(1..Len(p.nodes))
    BY <1>1, FS_Interval
  <2> HIDE DEF f
  <2> QED
    BY <2>1, <2>2, FS_Surjection
<1> QED
  BY <1>1, <1>2, FS_CardinalityType DEF Edges

\* The children of a node are those of the accepted edges from it, and no
\* child is there twice.
LEMMA BelowIs ==
  ASSUME NEW p, IsProposal(p), NEW n
  PROVE  /\ Below(p, n) \in Seq(Ids(p))
         /\ \A k \in 1..Len(Below(p, n)) : \E i \in Edges(p) :
              Accepted(p, i) /\ Parent(p, i) = n /\ Child(p, i) = Below(p, n)[k]
         /\ \A i \in Edges(p) : Accepted(p, i) /\ Parent(p, i) = n =>
              \E k \in 1..Len(Below(p, n)) : Below(p, n)[k] = Child(p, i)
         /\ \A k, l \in 1..Len(Below(p, n)) : Below(p, n)[k] = Below(p, n)[l] => k = l
<1> DEFINE out == {i \in Edges(p) : Accepted(p, i) /\ Parent(p, i) = n}
           m == Cardinality(out)
<1>1. out \in SUBSET (1..Len(p.edges)) /\ Len(p.edges) \in Nat
  BY ProposalIs
<1>2. Below(p, n) = [k \in 1..m |-> Child(p, Kth(out, k))]
  BY DEF Below, Edges, Parent, Child
<1>3. \A i \in out : i \in Edges(p) /\ Accepted(p, i) /\ Parent(p, i) = n /\ Child(p, i) \in Ids(p)
  BY DEF Accepted, Sound, Child
<1>4. \A i, j \in out : Child(p, i) = Child(p, j) => i = j
  <2> SUFFICES ASSUME NEW i \in out, NEW j \in out, Child(p, i) = Child(p, j), i # j PROVE FALSE
    OBVIOUS
  <2>1. i \in Nat /\ j \in Nat /\ i >= 1 /\ j >= 1
    BY <1>1
  <2>2. CASE i < j
    BY <1>3, <2>1, <2>2 DEF Accepted, Child
  <2>3. CASE j < i
    BY <1>3, <2>1, <2>3 DEF Accepted, Child
  <2> QED
    BY <2>1, <2>2, <2>3
<1> HIDE DEF out
<1>5. /\ m \in Nat
      /\ \A k \in 1..m : Kth(out, k) \in out
      /\ \A k, l \in 1..m : Kth(out, k) = Kth(out, l) => k = l
      /\ \A i \in out : \E k \in 1..m : Kth(out, k) = i
  BY <1>1, KthCounts
<1> HIDE DEF m
<1>6. Len(Below(p, n)) = m /\ Below(p, n) \in Seq(Ids(p))
      /\ \A k \in 1..m : Below(p, n)[k] = Child(p, Kth(out, k))
  BY <1>2, <1>3, <1>5
<1>7. \A k \in 1..m : \E i \in Edges(p) :
        Accepted(p, i) /\ Parent(p, i) = n /\ Child(p, i) = Below(p, n)[k]
  BY <1>3, <1>5, <1>6
<1>8. \A i \in Edges(p) : Accepted(p, i) /\ Parent(p, i) = n => i \in out
  BY DEF out
<1>9. \A k, l \in 1..m : Below(p, n)[k] = Below(p, n)[l] => k = l
  BY <1>4, <1>5, <1>6
<1> QED
  BY <1>5, <1>6, <1>7, <1>8, <1>9

----------------------------------------------------------------------------
(* The turns of the walk *)

\* The turns of a walk, up to the n-th.
IsWalk(p, w, n) ==
  /\ w[0] = WalkStart(RootId(p))
  /\ \A k \in 1..n : w[k] = Visit(p, w[k - 1])

\* One walk, and the next turn of it.
LEMMA WalksAgree ==
  ASSUME NEW p, NEW n \in Nat, NEW m \in Nat, NEW v, NEW w, IsWalk(p, v, n), IsWalk(p, w, m)
  PROVE  \A k \in Nat : k <= n /\ k <= m => v[k] = w[k]
<1> DEFINE T == {k \in Nat : k <= n /\ k <= m /\ v[k] # w[k]}
<1> SUFFICES ASSUME NEW x \in T PROVE FALSE
  OBVIOUS
<1>1. PICK k \in T : \A j \in T : k <= j
  <2>1. T \subseteq Nat
    OBVIOUS
  <2> HIDE DEF T
  <2> QED
    BY <2>1, LeastOne
<1>2. CASE k = 0
  BY <1>2 DEF IsWalk
<1>3. CASE k # 0
  <2>1. k \in 1..n /\ k \in 1..m /\ k - 1 \in Nat /\ k - 1 \notin T
    BY <1>1, <1>3
  <2>2. v[k - 1] = w[k - 1]
    BY <2>1
  <2> QED
    BY <2>1, <2>2 DEF IsWalk
<1> QED
  BY <1>2, <1>3

LEMMA WalkGoesOn ==
  ASSUME NEW p, NEW n \in Nat
  PROVE  \E w : IsWalk(p, w, n)
<1> DEFINE T == {k \in Nat : ~\E w : IsWalk(p, w, k)}
<1> SUFFICES ASSUME n \in T PROVE FALSE
  OBVIOUS
<1>1. PICK k \in T : \A j \in T : k <= j
  <2>1. T \subseteq Nat
    OBVIOUS
  <2> HIDE DEF T
  <2> QED
    BY <2>1, LeastOne
<1>2. k # 0
  <2> DEFINE w == [i \in 0..0 |-> WalkStart(RootId(p))]
  <2>1. w[0] = WalkStart(RootId(p))
    OBVIOUS
  <2>2. IsWalk(p, w, 0)
    BY <2>1 DEF IsWalk
  <2> QED
    BY <1>1, <2>2
<1>3. k \in Nat /\ k - 1 \in Nat /\ k - 1 \notin T
  BY <1>1, <1>2
<1>4. PICK v : IsWalk(p, v, k - 1)
  BY <1>3
<1> DEFINE w == [i \in 0..k |-> IF i = k THEN Visit(p, v[k - 1]) ELSE v[i]]
<1>5. \A i \in 0..(k - 1) : w[i] = v[i]
  BY <1>3
<1>6. w[k] = Visit(p, v[k - 1])
  BY <1>3
<1>7. IsWalk(p, w, k)
  <2> HIDE DEF w
  <2>1. w[0] = WalkStart(RootId(p))
    BY <1>3, <1>4, <1>5 DEF IsWalk
  <2>2. ASSUME NEW i \in 1..k PROVE w[i] = Visit(p, w[i - 1])
    <3>1. CASE i = k
      BY <1>3, <1>5, <1>6, <3>1
    <3>2. CASE i # k
      <4>1. i \in 1..(k - 1) /\ i \in 0..(k - 1) /\ i - 1 \in 0..(k - 1)
        BY <1>3, <3>2
      <4> QED
        BY <1>4, <1>5, <4>1 DEF IsWalk
    <3> QED
      BY <3>1, <3>2
  <2> QED
    BY <2>1, <2>2 DEF IsWalk
<1> QED
  BY <1>1, <1>7

\* Walk is the last turn of the walk.
LEMMA WalkIs ==
  ASSUME NEW p, IsProposal(p)
  PROVE  \E w : IsWalk(p, w, Cardinality(Ids(p)) + 1) /\ Walk(p) = w[Cardinality(Ids(p)) + 1]
<1> DEFINE last(n) == (CHOOSE w : IsWalk(p, w, n))[n]
           g == [n \in Nat |-> last(n)]
           N == Cardinality(Ids(p)) + 1
<1>1. \A n \in Nat : IsWalk(p, CHOOSE w : IsWalk(p, w, n), n)
  BY WalkGoesOn
<1>2. g[0] = WalkStart(RootId(p))
  BY <1>1 DEF IsWalk
<1>3. ASSUME NEW n \in Nat, n # 0 PROVE g[n] = Visit(p, g[n - 1])
  <2> DEFINE v == CHOOSE w : IsWalk(p, w, n)
             u == CHOOSE w : IsWalk(p, w, n - 1)
  <2>1. IsWalk(p, v, n) /\ IsWalk(p, u, n - 1) /\ n - 1 \in Nat
    BY <1>1, <1>3
  <2>2. g[n] = v[n] /\ g[n - 1] = u[n - 1]
    BY <2>1
  <2> HIDE DEF v, u, g
  <2>3. v[n - 1] = u[n - 1]
    BY <2>1, WalksAgree
  <2>4. v[n] = Visit(p, v[n - 1])
    BY <1>3, <2>1 DEF IsWalk
  <2> QED
    BY <2>2, <2>3, <2>4
<1> HIDE DEF g
<1>4. N \in Nat /\ IsWalk(p, g, N)
  BY <1>2, <1>3, ProposalIs DEF IsWalk
<1>5. g = [k \in Nat |-> IF k = 0 THEN WalkStart(RootId(p)) ELSE Visit(p, g[k - 1])]
  <2>1. g = [n \in Nat |-> g[n]]
    BY DEF g
  <2> QED
    BY <1>2, <1>3, <2>1
<1> DEFINE h == CHOOSE w : w = [k \in Nat |-> IF k = 0 THEN WalkStart(RootId(p)) ELSE Visit(p, w[k - 1])]
<1>6. h = [k \in Nat |-> IF k = 0 THEN WalkStart(RootId(p)) ELSE Visit(p, h[k - 1])]
  BY <1>5
<1>7. Walk(p) = h[N]
  BY DEF Walk
<1> HIDE DEF h
<1>8. h[0] = WalkStart(RootId(p)) /\ \A k \in Nat : k # 0 => h[k] = Visit(p, h[k - 1])
  BY <1>6
<1>9. IsWalk(p, h, N)
  BY <1>4, <1>8 DEF IsWalk
<1> QED
  BY <1>7, <1>9

\* What holds at first, and at each number if it does at the one before.
LEMMA UpTo ==
  ASSUME NEW n \in Nat, NEW G, 0 \in G, \A k \in 1..n : k - 1 \in G => k \in G
  PROVE  \A k \in 0..n : k \in G
<1> DEFINE T == {k \in 0..n : k \notin G}
<1> SUFFICES ASSUME NEW x \in T PROVE FALSE
  OBVIOUS
<1>1. PICK k \in T : \A j \in T : k <= j
  <2>1. T \subseteq Nat
    OBVIOUS
  <2> HIDE DEF T
  <2> QED
    BY <2>1, LeastOne
<1>2. k \in 1..n /\ k - 1 \in 0..n
  BY <1>1
<1>3. k - 1 \notin T
  BY <1>1, <1>2
<1> QED
  BY <1>1, <1>2, <1>3

----------------------------------------------------------------------------
(* The stack *)

On(s) == {s[j] : j \in 1..Len(s)}
Once(s) == \A j, k \in 1..Len(s) : s[j] = s[k] => j = k

LEMMA FrontLast ==
  ASSUME NEW V, NEW s \in Seq(V), s # <<>>
  PROVE  /\ Front(s) \in Seq(V) /\ Last(s) \in V
         /\ On(s) = On(Front(s)) \cup {Last(s)}
         /\ Once(s) => Once(Front(s)) /\ Last(s) \notin On(Front(s))
<1>1. Len(s) \in Nat /\ Len(s) >= 1 /\ Len(s) - 1 \in Nat
  BY EmptySeq
<1>2. Front(s) = [j \in 1..(Len(s) - 1) |-> s[j]]
  BY <1>1 DEF Front
<1>3. Front(s) \in Seq(V) /\ Len(Front(s)) = Len(s) - 1
  BY <1>1, <1>2
<1>4. \A j \in 1..(Len(s) - 1) : Front(s)[j] = s[j]
  BY <1>2
<1>5. 1..Len(s) = (1..(Len(s) - 1)) \cup {Len(s)}
  BY <1>1
<1>6. On(s) = On(Front(s)) \cup {Last(s)}
  BY <1>3, <1>4, <1>5 DEF On, Last
<1>7. ASSUME Once(s) PROVE Once(Front(s)) /\ Last(s) \notin On(Front(s))
  <2>1. \A j \in 1..(Len(s) - 1) : j \in 1..Len(s) /\ Len(s) \in 1..Len(s) /\ j # Len(s)
    BY <1>1
  <2>2. Last(s) \notin On(Front(s))
    BY <1>3, <1>4, <1>7, <2>1 DEF On, Once, Last
  <2> QED
    BY <1>3, <1>4, <1>7, <2>1, <2>2 DEF Once
<1> QED
  BY <1>1, <1>3, <1>6, <1>7 DEF Last

LEMMA OnBoth ==
  ASSUME NEW V, NEW s \in Seq(V), NEW t \in Seq(V)
  PROVE  /\ s \o t \in Seq(V)
         /\ On(s \o t) = On(s) \cup On(t)
         /\ Once(s) /\ Once(t) /\ On(s) \cap On(t) = {} => Once(s \o t)
<1>1. /\ Len(s) \in Nat /\ Len(t) \in Nat
      /\ Len(s \o t) = Len(s) + Len(t) /\ s \o t \in Seq(V)
      /\ \A j \in 1..(Len(s) + Len(t)) :
           (s \o t)[j] = IF j <= Len(s) THEN s[j] ELSE t[j - Len(s)]
  OBVIOUS
<1>2. ASSUME NEW j \in 1..(Len(s) + Len(t))
      PROVE  \/ j \in 1..Len(s) /\ (s \o t)[j] = s[j]
             \/ /\ j > Len(s) /\ j - Len(s) \in 1..Len(t)
                /\ (s \o t)[j] = t[j - Len(s)]
  BY <1>1
<1>3. \A j \in 1..Len(s) : j \in 1..(Len(s) + Len(t)) /\ (s \o t)[j] = s[j]
  BY <1>1
<1>4. \A j \in 1..Len(t) : j + Len(s) \in 1..(Len(s) + Len(t)) /\ (s \o t)[j + Len(s)] = t[j]
  BY <1>1
<1>5. On(s \o t) = On(s) \cup On(t)
  <2>1. On(s \o t) \subseteq On(s) \cup On(t)
    BY <1>1, <1>2 DEF On
  <2>2. On(s) \subseteq On(s \o t)
    BY <1>1, <1>3 DEF On
  <2>3. On(t) \subseteq On(s \o t)
    BY <1>1, <1>4 DEF On
  <2> QED
    BY <2>1, <2>2, <2>3
<1>6. ASSUME Once(s), Once(t), On(s) \cap On(t) = {} PROVE Once(s \o t)
  <2>1. SUFFICES ASSUME NEW j \in 1..(Len(s) + Len(t)), NEW k \in 1..(Len(s) + Len(t)),
                        (s \o t)[j] = (s \o t)[k]
                 PROVE  j = k
    BY <1>1 DEF Once
  <2>2. \A a \in 1..Len(s), b \in 1..Len(t) : s[a] # t[b]
    BY <1>6 DEF On
  <2>3. CASE j <= Len(s) /\ k <= Len(s)
    BY <1>1, <1>2, <1>6, <2>1, <2>3 DEF Once
  <2>4. CASE j > Len(s) /\ k > Len(s)
    <3>1. j - Len(s) \in 1..Len(t) /\ k - Len(s) \in 1..Len(t) /\ t[j - Len(s)] = t[k - Len(s)]
      BY <1>1, <2>1, <2>4
    <3>2. j - Len(s) = k - Len(s)
      BY <1>6, <3>1 DEF Once
    <3> QED
      BY <1>1, <3>2
  <2>5. CASE j <= Len(s) /\ k > Len(s)
    <3>1. j \in 1..Len(s) /\ k - Len(s) \in 1..Len(t) /\ s[j] = t[k - Len(s)]
      BY <1>1, <2>1, <2>5
    <3> QED
      BY <2>2, <3>1
  <2>6. CASE j > Len(s) /\ k <= Len(s)
    <3>1. k \in 1..Len(s) /\ j - Len(s) \in 1..Len(t) /\ s[k] = t[j - Len(s)]
      BY <1>1, <2>1, <2>6
    <3> QED
      BY <2>2, <3>1
  <2> QED
    BY <1>1, <2>3, <2>4, <2>5, <2>6
<1> QED
  BY <1>1, <1>5, <1>6
----------------------------------------------------------------------------
(* The root, and the edges of a tree *)

\* No set of nodes without one of them has the root and is closed under the
\* edges.
Closed(p, S) == \A i \in Edges(p) : Parent(p, i) \in S => Child(p, i) \in S
Connected(p) ==
  \A S \in SUBSET Ids(p) : RootId(p) \in S /\ Closed(p, S) => S = Ids(p)
Within(p) == \A i \in Edges(p) : Parent(p, i) \in Ids(p) /\ Child(p, i) \in Ids(p)

LEMMA UpToCount ==
  ASSUME NEW n \in Nat
  PROVE  IsFiniteSet(1..n) /\ Cardinality(1..n) = n
BY FS_Interval

LEMMA RootIs ==
  ASSUME NEW p, IsProposal(p), Roots(p) # {}
  PROVE  /\ Kth(Roots(p), 1) \in Roots(p)
         /\ RootId(p) \in Ids(p)
<1>1. Len(p.nodes) \in Nat /\ Roots(p) \in SUBSET (1..Len(p.nodes))
  BY ProposalIs DEF Roots
<1>2. IsFiniteSet(Roots(p)) /\ Cardinality(Roots(p)) \in Nat
  <2>1. IsFiniteSet(1..Len(p.nodes))
    BY <1>1, FS_Interval
  <2> QED
    BY <1>1, <2>1, FS_Subset, FS_CardinalityType
<1>3. Cardinality(Roots(p)) # 0
  BY <1>2, FS_EmptySet
<1>4. 1 \in 1..Cardinality(Roots(p))
  BY <1>2, <1>3
<1>5. Kth(Roots(p), 1) \in Roots(p)
  BY <1>1, <1>4, KthIs
<1> QED
  BY <1>5 DEF RootId, Ids, Roots

\* There is an edge to each node but the root, from another.
LEMMA EachHasParent ==
  ASSUME NEW p, RootId(p) \in Ids(p), Connected(p), NEW v \in Ids(p) \ {RootId(p)}, Within(p)
  PROVE  \E i \in Edges(p) : Child(p, i) = v /\ Parent(p, i) # v
<1> SUFFICES ASSUME \A i \in Edges(p) : Child(p, i) = v => Parent(p, i) = v
             PROVE  FALSE
  OBVIOUS
<1>1. Closed(p, Ids(p) \ {v})
  BY DEF Closed, Within
<1>2. Ids(p) \ {v} = Ids(p)
  BY <1>1 DEF Connected
<1> QED
  BY <1>2

\* As many edges as nodes, less one, that leave no node but the root without
\* an edge to it: none is a finding, and none leads to the root.
LEMMA EnoughEdges ==
  ASSUME NEW p, IsProposal(p), RootId(p) \in Ids(p), Connected(p), Within(p),
         Len(p.edges) = Cardinality(Ids(p)) - 1
  PROVE  /\ \A i \in Edges(p) : Accepted(p, i) /\ Child(p, i) # RootId(p)
         /\ \A i, j \in Edges(p) : Child(p, i) = Child(p, j) => i = j
<1> DEFINE V == Ids(p) \ {RootId(p)}
           e == [v \in V |-> CHOOSE i \in Edges(p) : Child(p, i) = v /\ Parent(p, i) # v]
<1>1. /\ Edges(p) = 1..Len(p.edges) /\ Len(p.edges) \in Nat
      /\ IsFiniteSet(Ids(p)) /\ Cardinality(Ids(p)) \in Nat
  BY ProposalIs
<1>2. \A v \in V : e[v] \in Edges(p) /\ Child(p, e[v]) = v /\ Parent(p, e[v]) # v
  BY EachHasParent
<1>3. IsFiniteSet(V) /\ Cardinality(V) = Cardinality(Ids(p)) - 1
  BY <1>1, FS_RemoveElement
<1>4. IsFiniteSet(Edges(p)) /\ Cardinality(Edges(p)) = Len(p.edges)
  <2>1. IsFiniteSet(1..Len(p.edges)) /\ Cardinality(1..Len(p.edges)) = Len(p.edges)
    BY <1>1, UpToCount
  <2> QED
    BY <1>1, <2>1
<1>5. e \in [V -> Edges(p)]
  BY <1>2
<1> HIDE DEF e, V
<1>6. e \in Injection(V, Edges(p))
  <2>1. \A v, u \in V : e[v] = e[u] => v = u
    BY <1>2
  <2> QED
    BY <1>5, <2>1 DEF Injection, IsInjective
<1>7. e \in Surjection(V, Edges(p))
  BY <1>3, <1>4, <1>6, FS_Injection
<1>8. \A i \in Edges(p) : \E v \in V : e[v] = i
  BY <1>7 DEF Surjection
<1>9. \A i \in Edges(p) : Child(p, i) \in V /\ Parent(p, i) # Child(p, i) /\ e[Child(p, i)] = i
  BY <1>2, <1>8
<1>10. \A i, j \in Edges(p) : Child(p, i) = Child(p, j) => i = j
  BY <1>9
<1>11. ASSUME NEW i \in Edges(p) PROVE Accepted(p, i)
  <2>1. Sound(p, i)
    BY <1>9 DEF Sound, Within, Parent, Child
  <2>2. \A j \in 1..(i - 1) : j \in Edges(p) /\ j # i
    BY <1>1
  <2>3. \A j \in 1..(i - 1) : p.edges[j][2] # p.edges[i][2]
    BY <1>10, <2>2 DEF Child
  <2> QED
    BY <2>1, <2>3 DEF Accepted
<1> QED
  BY <1>9, <1>10, <1>11 DEF V

\* Edges that are no findings, of which none leads to the root and some to
\* each other node, are one fewer than the nodes.
LEMMA NoMoreEdges ==
  ASSUME NEW p, IsProposal(p), RootId(p) \in Ids(p), Connected(p),
         \A i \in Edges(p) : Accepted(p, i) /\ Child(p, i) # RootId(p)
  PROVE  Len(p.edges) = Cardinality(Ids(p)) - 1
<1> DEFINE V == Ids(p) \ {RootId(p)}
           f == [i \in Edges(p) |-> Child(p, i)]
<1>1. /\ Edges(p) = 1..Len(p.edges) /\ Len(p.edges) \in Nat
      /\ IsFiniteSet(Ids(p)) /\ Cardinality(Ids(p)) \in Nat
  BY ProposalIs
<1>2. Within(p)
  BY DEF Within, Accepted, Sound, Parent, Child
<1>3. IsFiniteSet(V) /\ Cardinality(V) = Cardinality(Ids(p)) - 1
  BY <1>1, FS_RemoveElement
<1>4. IsFiniteSet(Edges(p)) /\ Cardinality(Edges(p)) = Len(p.edges)
  <2>1. IsFiniteSet(1..Len(p.edges)) /\ Cardinality(1..Len(p.edges)) = Len(p.edges)
    BY <1>1, UpToCount
  <2> QED
    BY <1>1, <2>1
<1>5. \A i, j \in Edges(p) : Child(p, i) = Child(p, j) => i = j
  <2> SUFFICES ASSUME NEW i \in Edges(p), NEW j \in Edges(p), Child(p, i) = Child(p, j), i # j PROVE FALSE
    OBVIOUS
  <2>1. i \in Nat /\ j \in Nat /\ i >= 1 /\ j >= 1
    BY <1>1
  <2>2. CASE i < j
    BY <2>1, <2>2 DEF Accepted, Child
  <2>3. CASE j < i
    BY <2>1, <2>3 DEF Accepted, Child
  <2> QED
    BY <2>1, <2>2, <2>3
<1>6. f \in Bijection(Edges(p), V)
  <2>1. f \in [Edges(p) -> V]
    BY <1>2 DEF Within
  <2>2. \A i, j \in Edges(p) : f[i] = f[j] => i = j
    BY <1>5
  <2>3. \A v \in V : \E i \in Edges(p) : f[i] = v
    BY <1>2, EachHasParent
  <2> HIDE DEF f, V
  <2> QED
    BY <2>1, <2>2, <2>3 DEF Bijection, Injection, IsInjective, Surjection
<1> HIDE DEF f, V
<1> QED
  BY <1>3, <1>4, <1>6, FS_Bijection DEF ExistsBijection

----------------------------------------------------------------------------
(* What the walk has seen *)

WalkType(p, w) ==
  w \in [cyclic : BOOLEAN, seen : SUBSET Ids(p), stack : Seq(Ids(p))]

\* What holds after k turns of it: what was seen or is to be seen is what any
\* closed set with the root has, and what a seen node leads to is either.
Walked(p, w, k) ==
  /\ WalkType(p, w)
  /\ RootId(p) \in w.seen \/ (w.seen = {} /\ w.stack = <<RootId(p)>>)
  /\ \A S \in SUBSET Ids(p) : RootId(p) \in S /\ Closed(p, S) => w.seen \cup On(w.stack) \subseteq S
  /\ ~w.cyclic =>
       /\ w.stack = <<>> \/ Cardinality(w.seen) = k
       /\ \A i \in Edges(p) : Accepted(p, i) /\ Parent(p, i) \in w.seen =>
            Child(p, i) \in On(w.stack) \cup (w.seen \ {RootId(p)})

\* And in a tree, where what is to be seen was not seen.
OneParent(p) ==
  /\ \A i \in Edges(p) : Accepted(p, i) /\ Child(p, i) # RootId(p)
  /\ \A i, j \in Edges(p) : Child(p, i) = Child(p, j) => i = j
WalkedTree(p, w) ==
  /\ WalkType(p, w)
  /\ ~w.cyclic /\ Once(w.stack) /\ On(w.stack) \cap w.seen = {}
  /\ \A i \in Edges(p) : Child(p, i) \in w.seen \cup On(w.stack) => Parent(p, i) \in w.seen

LEMMA OneOn ==
  ASSUME NEW V, NEW v \in V
  PROVE  <<v>> \in Seq(V) /\ On(<<v>>) = {v} /\ Once(<<v>>) /\ On(<<>>) = {}
<1>1. <<v>> \in Seq(V) /\ Len(<<v>>) = 1 /\ <<v>>[1] = v /\ Len(<<>>) = 0
  OBVIOUS
<1>2. 1..1 = {1} /\ 1..0 = {}
  OBVIOUS
<1> QED
  BY <1>1, <1>2 DEF On, Once

LEMMA WalkStartIs ==
  ASSUME NEW p, IsProposal(p), RootId(p) \in Ids(p)
  PROVE  /\ WalkType(p, WalkStart(RootId(p)))
         /\ WalkStart(RootId(p)).cyclic = FALSE
         /\ WalkStart(RootId(p)).seen = {}
         /\ WalkStart(RootId(p)).stack = <<RootId(p)>>
BY OneOn DEF WalkStart, WalkType

\* A turn of the walk, in its parts.
LEMMA VisitIs ==
  ASSUME NEW p, IsProposal(p), NEW w, WalkType(p, w)
  PROVE  \/ w.stack = <<>> /\ Visit(p, w) = w
         \/ /\ w.stack # <<>> /\ Last(w.stack) \in w.seen
            /\ Visit(p, w) = [w EXCEPT !.cyclic = TRUE]
            /\ WalkType(p, Visit(p, w))
            /\ Visit(p, w).cyclic /\ Visit(p, w).seen = w.seen /\ Visit(p, w).stack = w.stack
         \/ /\ w.stack # <<>> /\ Last(w.stack) \notin w.seen
            /\ WalkType(p, Visit(p, w))
            /\ Visit(p, w).cyclic = w.cyclic
            /\ Visit(p, w).seen = w.seen \cup {Last(w.stack)}
            /\ Visit(p, w).stack = Front(w.stack) \o Below(p, Last(w.stack))
<1> DEFINE n == Last(w.stack)
<1>1. CASE w.stack = <<>>
  BY <1>1 DEF Visit
<1>2. CASE w.stack # <<>> /\ n \in w.seen
  <2>1. Visit(p, w) = [w EXCEPT !.cyclic = TRUE]
    BY <1>2 DEF Visit
  <2> QED
    BY <1>2, <2>1 DEF WalkType
<1>3. CASE w.stack # <<>> /\ n \notin w.seen
  <2> DEFINE s == Front(w.stack) \o Below(p, n)
             seen == w.seen \cup {n}
  <2>1. Visit(p, w) = [[w EXCEPT !.seen = seen] EXCEPT !.stack = s]
    BY <1>3 DEF Visit, WalkType
  <2>2. Front(w.stack) \in Seq(Ids(p)) /\ n \in Ids(p)
    BY <1>3, FrontLast DEF WalkType
  <2>3. Below(p, n) \in Seq(Ids(p))
    BY BelowIs
  <2>4. s \in Seq(Ids(p)) /\ seen \in SUBSET Ids(p)
    BY <2>2, <2>3, OnBoth DEF WalkType
  <2> HIDE DEF s, seen
  <2>5. /\ WalkType(p, Visit(p, w))
        /\ Visit(p, w).cyclic = w.cyclic /\ Visit(p, w).seen = seen /\ Visit(p, w).stack = s
    BY <2>1, <2>4 DEF WalkType
  <2> QED
    BY <1>3, <2>5 DEF s, seen
<1> QED
  BY <1>1, <1>2, <1>3

\* What is below a node is what the edges from it lead to.
LEMMA OnBelow ==
  ASSUME NEW p, IsProposal(p), NEW n
  PROVE  /\ Below(p, n) \in Seq(Ids(p)) /\ Once(Below(p, n))
         /\ \A v \in On(Below(p, n)) : \E i \in Edges(p) :
              Accepted(p, i) /\ Parent(p, i) = n /\ Child(p, i) = v
         /\ \A i \in Edges(p) : Accepted(p, i) /\ Parent(p, i) = n => Child(p, i) \in On(Below(p, n))
<1> DEFINE b == Below(p, n)
<1>1. b \in Seq(Ids(p)) /\ \A k, l \in 1..Len(b) : b[k] = b[l] => k = l
  BY BelowIs
<1>2. \A k \in 1..Len(b) : \E i \in Edges(p) :
        Accepted(p, i) /\ Parent(p, i) = n /\ Child(p, i) = b[k]
  BY BelowIs
<1>3. \A i \in Edges(p) : Accepted(p, i) /\ Parent(p, i) = n =>
        \E k \in 1..Len(b) : b[k] = Child(p, i)
  BY BelowIs
<1> HIDE DEF b
<1>4. Once(b)
  BY <1>1 DEF Once
<1>5. \A v \in On(b) : \E i \in Edges(p) : Accepted(p, i) /\ Parent(p, i) = n /\ Child(p, i) = v
  BY <1>2 DEF On
<1>6. \A i \in Edges(p) : Accepted(p, i) /\ Parent(p, i) = n => Child(p, i) \in On(b)
  BY <1>3 DEF On
<1> QED
  BY <1>1, <1>4, <1>5, <1>6 DEF b

LEMMA WalkedGoesOn ==
  ASSUME NEW p, IsProposal(p), RootId(p) \in Ids(p), NEW w, NEW k \in Nat, Walked(p, w, k)
  PROVE  Walked(p, Visit(p, w), k + 1)
<1> DEFINE u == Visit(p, w)
           n == Last(w.stack)
           r == RootId(p)
<1>1. WalkType(p, w)
  BY DEF Walked
<1>2. CASE w.stack = <<>>
  BY <1>1, <1>2, VisitIs DEF Walked
<1>3. CASE w.stack # <<>> /\ n \in w.seen
  <2>1. WalkType(p, u) /\ u.cyclic /\ u.seen = w.seen /\ u.stack = w.stack
    BY <1>1, <1>3, VisitIs
  <2> HIDE DEF u
  <2>2. Walked(p, u, k + 1)
    BY <2>1 DEF Walked
  <2> QED
    BY <2>2 DEF u
<1>4. CASE w.stack # <<>> /\ n \notin w.seen
  <2>1. /\ WalkType(p, u) /\ u.cyclic = w.cyclic
        /\ u.seen = w.seen \cup {n} /\ u.stack = Front(w.stack) \o Below(p, n)
    BY <1>1, <1>4, VisitIs
  <2>2. /\ w.seen \in SUBSET Ids(p) /\ n \in Ids(p) /\ Front(w.stack) \in Seq(Ids(p))
        /\ On(w.stack) = On(Front(w.stack)) \cup {n}
    BY <1>1, <1>4, FrontLast DEF WalkType
  <2>3. On(u.stack) = On(Front(w.stack)) \cup On(Below(p, n))
    BY <2>1, <2>2, OnBoth, OnBelow
  <2>4. /\ \A v \in On(Below(p, n)) : \E i \in Edges(p) :
             Accepted(p, i) /\ Parent(p, i) = n /\ Child(p, i) = v
        /\ \A i \in Edges(p) : Accepted(p, i) /\ Parent(p, i) = n => Child(p, i) \in On(Below(p, n))
    BY OnBelow
  <2>5. r \in w.seen \/ (w.seen = {} /\ n = r)
    <3>1. Last(<<r>>) = r
      BY DEF Last
    <3> QED
      BY <3>1 DEF Walked
  <2> HIDE DEF u, n, r
  <2>6. r \in u.seen
    BY <2>1, <2>5
  <2>7. ASSUME NEW S \in SUBSET Ids(p), r \in S, Closed(p, S)
        PROVE  u.seen \cup On(u.stack) \subseteq S
    <3>1. w.seen \cup On(w.stack) \subseteq S
      BY <2>7 DEF Walked, r
    <3>2. n \in S
      BY <2>2, <3>1
    <3>3. On(Below(p, n)) \subseteq S
      BY <2>4, <2>7, <3>2 DEF Closed
    <3> QED
      BY <2>1, <2>2, <2>3, <3>1, <3>3
  <2>8. ASSUME ~u.cyclic
        PROVE  /\ Cardinality(u.seen) = k + 1
               /\ \A i \in Edges(p) : Accepted(p, i) /\ Parent(p, i) \in u.seen =>
                    Child(p, i) \in On(u.stack) \cup (u.seen \ {r})
    <3>1. Cardinality(w.seen) = k
      BY <1>4, <2>1, <2>8 DEF Walked
    <3>2. IsFiniteSet(w.seen)
      BY <2>2, ProposalIs, FS_Subset
    <3>3. Cardinality(u.seen) = k + 1
      BY <1>4, <2>1, <3>1, <3>2, FS_AddElement DEF n
    <3>4. ASSUME NEW i \in Edges(p), Accepted(p, i), Parent(p, i) \in u.seen
          PROVE  Child(p, i) \in On(u.stack) \cup (u.seen \ {r})
      <4>1. CASE Parent(p, i) = n
        BY <2>3, <2>4, <3>4, <4>1
      <4>2. CASE Parent(p, i) # n
        <5>1. Parent(p, i) \in w.seen
          BY <2>1, <3>4, <4>2
        <5>2. Child(p, i) \in On(w.stack) \cup (w.seen \ {r})
          BY <2>1, <2>8, <3>4, <5>1 DEF Walked, r
        <5>3. r \in w.seen /\ n # r
          BY <1>4, <2>5, <5>1 DEF n
        <5> QED
          BY <2>1, <2>2, <2>3, <5>2, <5>3
      <4> QED
        BY <4>1, <4>2
    <3> QED
      BY <3>3, <3>4
  <2> QED
    BY <2>1, <2>6, <2>7, <2>8 DEF Walked, r, u
<1> QED
  BY <1>2, <1>3, <1>4

LEMMA TreeGoesOn ==
  ASSUME NEW p, IsProposal(p), RootId(p) \in Ids(p), OneParent(p), NEW w, WalkedTree(p, w)
  PROVE  WalkedTree(p, Visit(p, w))
<1> DEFINE u == Visit(p, w)
           n == Last(w.stack)
<1>1. WalkType(p, w)
  BY DEF WalkedTree
<1>2. CASE w.stack = <<>>
  BY <1>1, <1>2, VisitIs
<1>3. CASE w.stack # <<>>
  <2>1. /\ w.seen \in SUBSET Ids(p) /\ n \in Ids(p) /\ Front(w.stack) \in Seq(Ids(p))
        /\ On(w.stack) = On(Front(w.stack)) \cup {n}
        /\ Once(Front(w.stack)) /\ n \notin On(Front(w.stack))
    BY <1>1, <1>3, FrontLast DEF WalkType, WalkedTree
  <2>2. n \notin w.seen
    BY <2>1 DEF WalkedTree
  <2>3. /\ WalkType(p, u) /\ u.cyclic = w.cyclic
        /\ u.seen = w.seen \cup {n} /\ u.stack = Front(w.stack) \o Below(p, n)
    BY <1>1, <1>3, <2>2, VisitIs
  <2>4. /\ Below(p, n) \in Seq(Ids(p)) /\ Once(Below(p, n))
        /\ \A v \in On(Below(p, n)) : \E i \in Edges(p) : Parent(p, i) = n /\ Child(p, i) = v
    BY OnBelow
  <2> HIDE DEF u, n
  <2>5. On(Below(p, n)) \cap (w.seen \cup On(w.stack)) = {}
    <3> SUFFICES ASSUME NEW v \in On(Below(p, n)), v \in w.seen \cup On(w.stack) PROVE FALSE
      OBVIOUS
    <3>1. PICK i \in Edges(p) : Parent(p, i) = n /\ Child(p, i) = v
      BY <2>4
    <3>2. Parent(p, i) \in w.seen
      BY <3>1 DEF WalkedTree
    <3> QED
      BY <2>2, <3>1, <3>2
  <2>6. /\ On(u.stack) = On(Front(w.stack)) \cup On(Below(p, n))
        /\ Once(u.stack)
    <3>1. On(Front(w.stack)) \cap On(Below(p, n)) = {}
      BY <2>1, <2>5
    <3> QED
      BY <2>1, <2>3, <2>4, <3>1, OnBoth
  <2>7. On(u.stack) \cap u.seen = {}
    BY <2>1, <2>3, <2>5, <2>6 DEF WalkedTree
  <2>8. ASSUME NEW i \in Edges(p), Child(p, i) \in u.seen \cup On(u.stack)
        PROVE  Parent(p, i) \in u.seen
    <3>1. CASE Child(p, i) \in On(Below(p, n))
      <4>1. PICK j \in Edges(p) : Parent(p, j) = n /\ Child(p, j) = Child(p, i)
        BY <2>4, <3>1
      <4>2. i = j
        BY <4>1 DEF OneParent
      <4> QED
        BY <2>3, <4>1, <4>2
    <3>2. CASE Child(p, i) \notin On(Below(p, n))
      <4>1. Child(p, i) \in w.seen \cup On(w.stack)
        BY <2>1, <2>3, <2>6, <2>8, <3>2
      <4> QED
        BY <2>3, <4>1 DEF WalkedTree
    <3> QED
      BY <3>1, <3>2
  <2>9. ~u.cyclic
    BY <2>3 DEF WalkedTree
  <2> QED
    BY <2>3, <2>6, <2>7, <2>8, <2>9 DEF WalkedTree, u
<1> QED
  BY <1>2, <1>3

\* The walk ends with nothing left to see, unless it met a node twice.
LEMMA WalkEnds ==
  ASSUME NEW p, IsProposal(p), RootId(p) \in Ids(p)
  PROVE  /\ Walked(p, Walk(p), Cardinality(Ids(p)) + 1)
         /\ ~Walk(p).cyclic => Walk(p).stack = <<>> /\ On(Walk(p).stack) = {}
         /\ OneParent(p) => ~Walk(p).cyclic
<1> DEFINE N == Cardinality(Ids(p)) + 1
<1>1. N \in Nat /\ Cardinality(Ids(p)) \in Nat /\ IsFiniteSet(Ids(p))
  BY ProposalIs
<1>2. PICK w : IsWalk(p, w, N) /\ Walk(p) = w[N]
  BY WalkIs
<1> HIDE DEF N
<1>3. w[0] = WalkStart(RootId(p)) /\ \A k \in 1..N : w[k] = Visit(p, w[k - 1])
  BY <1>2 DEF IsWalk
<1>4. WalkType(p, w[0]) /\ ~w[0].cyclic /\ w[0].seen = {} /\ w[0].stack = <<RootId(p)>>
  BY <1>3, WalkStartIs
<1>5. On(<<RootId(p)>>) = {RootId(p)} /\ Once(<<RootId(p)>>) /\ On(<<>>) = {}
  BY OneOn
<1>6. Walked(p, w[N], N)
  <2> DEFINE G == {k \in Nat : Walked(p, w[k], k)}
  <2>1. 0 \in G
    BY <1>4, <1>5, FS_EmptySet DEF Walked
  <2>2. ASSUME NEW k \in 1..N, k - 1 \in G PROVE k \in G
    <3>1. k - 1 \in Nat /\ k \in Nat /\ (k - 1) + 1 = k
      BY <1>1
    <3>2. Walked(p, Visit(p, w[k - 1]), (k - 1) + 1)
      BY <2>2, <3>1, WalkedGoesOn
    <3> QED
      BY <1>3, <3>1, <3>2
  <2> HIDE DEF G
  <2>3. \A k \in 0..N : k \in G
    BY <1>1, <2>1, <2>2, UpTo
  <2>4. N \in G
    BY <1>1, <2>3
  <2> QED
    BY <2>4 DEF G
<1>7. ASSUME OneParent(p) PROVE ~w[N].cyclic
  <2> DEFINE G == {k \in Nat : WalkedTree(p, w[k])}
  <2>1. 0 \in G
    <3>1. \A i \in Edges(p) : Child(p, i) # RootId(p)
      BY <1>7 DEF OneParent
    <3> QED
      BY <1>4, <1>5, <3>1 DEF WalkedTree
  <2>2. ASSUME NEW k \in 1..N, k - 1 \in G PROVE k \in G
    <3>1. WalkedTree(p, w[k - 1])
      BY <2>2
    <3>2. WalkedTree(p, Visit(p, w[k - 1]))
      BY <1>7, <3>1, TreeGoesOn
    <3> QED
      BY <1>1, <1>3, <3>2
  <2> HIDE DEF G
  <2>3. \A k \in 0..N : k \in G
    BY <1>1, <2>1, <2>2, UpTo
  <2>4. N \in G
    BY <1>1, <2>3
  <2>5. WalkedTree(p, w[N])
    BY <2>4 DEF G
  <2> QED
    BY <2>5 DEF WalkedTree
<1>8. ASSUME ~w[N].cyclic PROVE w[N].stack = <<>>
  <2>1. w[N].seen \in SUBSET Ids(p)
    BY <1>6 DEF Walked, WalkType
  <2>2. Cardinality(w[N].seen) <= Cardinality(Ids(p))
    BY <1>1, <2>1, FS_Subset
  <2>3. Cardinality(w[N].seen) # N
    <3>1. Cardinality(w[N].seen) \in Nat
      BY <1>1, <2>1, FS_Subset, FS_CardinalityType
    <3> QED
      BY <1>1, <2>2, <3>1 DEF N
  <2> QED
    BY <1>6, <1>8, <2>3 DEF Walked
<1> QED
  BY <1>2, <1>5, <1>6, <1>7, <1>8 DEF N

----------------------------------------------------------------------------
(* The findings *)

\* Nothing is found if no part of the search finds anything.
LEMMA EmptyCount == Cardinality({}) = 0
BY FS_EmptySet

LEMMA NoneOfBoth ==
  ASSUME NEW V, NEW s \in Seq(V), NEW t \in Seq(V)
  PROVE  s \o t \in Seq(V) /\ (s \o t = <<>> <=> s = <<>> /\ t = <<>>)
<1>1. Len(s) \in Nat /\ Len(t) \in Nat /\ s \o t \in Seq(V) /\ Len(s \o t) = Len(s) + Len(t)
  OBVIOUS
<1>2. \A u \in Seq(V) : u = <<>> <=> Len(u) = 0
  BY EmptySeq
<1> QED
  BY <1>1, <1>2

Found == {"idTwice", "indexTwice", "notOneRoot", "edgeOfNoNode", "selfLoop", "twoParents",
          "cyclic", "notConnected", "rootKind"}

LEMMA FoundIs ==
  /\ <<>> \in Seq(Found)
  /\ \A f \in Found : <<f>> \in Seq(Found) /\ <<f>> # <<>>
<1>1. ASSUME NEW f \in Found PROVE <<f>> \in Seq(Found) /\ <<f>> # <<>>
  <2>1. <<f>> \in Seq(Found) /\ Len(<<f>>) = 1
    OBVIOUS
  <2> QED
    BY <2>1, EmptySeq
<1> QED
  BY <1>1

LEMMA EdgeFindingsIs ==
  ASSUME NEW p, IsProposal(p)
  PROVE  /\ EdgeFindings(p) \in Seq(Found)
         /\ EdgeFindings(p) = <<>> <=> \A i \in Edges(p) : Accepted(p, i)
<1> DEFINE bad == {i \in Edges(p) : ~Accepted(p, i)}
           m == Cardinality(bad)
<1>1. EdgeFindings(p) = [k \in 1..m |-> EdgeFinding(p, Kth(bad, k))]
  BY DEF EdgeFindings, Edges
<1>2. \A i : EdgeFinding(p, i) \in Found
  BY DEF EdgeFinding, Found
<1>3. bad \in SUBSET (1..Len(p.edges)) /\ Len(p.edges) \in Nat
  BY ProposalIs
<1>4. IsFiniteSet(bad) /\ m \in Nat
  <2> HIDE DEF bad
  <2>1. IsFiniteSet(1..Len(p.edges))
    BY <1>3, FS_Interval
  <2> QED
    BY <1>3, <2>1, FS_Subset, FS_CardinalityType
<1>5. m = 0 <=> bad = {}
  <2> HIDE DEF bad
  <2> QED
    BY <1>4, FS_EmptySet
<1>6. bad = {} <=> \A i \in Edges(p) : Accepted(p, i)
  OBVIOUS
<1> HIDE DEF bad, m
<1>7. EdgeFindings(p) \in Seq(Found) /\ Len(EdgeFindings(p)) = m
  BY <1>1, <1>2, <1>4
<1>8. EdgeFindings(p) = <<>> <=> m = 0
  BY <1>7, EmptySeq
<1> QED
  BY <1>5, <1>6, <1>7, <1>8

\* One root that no other node shares its id with is of the kind "root".
LEMMA KindOfRootIs ==
  ASSUME NEW p, IsProposal(p), Roots(p) # {}, Cardinality(Ids(p)) = Len(p.nodes)
  PROVE  KindOfRoot(p) = "root"
<1> DEFINE r == Kth(Roots(p), 1)
           f == [i \in 1..Len(p.nodes) |-> p.nodes[i].id]
<1>1. /\ Len(p.nodes) \in Nat /\ DOMAIN p.nodes = 1..Len(p.nodes) /\ IsFiniteSet(Ids(p))
  BY ProposalIs
<1>2. r \in Roots(p)
  BY RootIs
<1>3. r \in DOMAIN p.nodes /\ p.nodes[r].kind = "root" /\ p.nodes[r].id = RootId(p)
  BY <1>2 DEF Roots, RootId
<1>4. f \in Surjection(1..Len(p.nodes), Ids(p))
  BY <1>1 DEF Ids, Surjection
<1>5. IsFiniteSet(1..Len(p.nodes)) /\ Cardinality(1..Len(p.nodes)) = Len(p.nodes)
  BY <1>1, UpToCount
<1>6. \A i, j \in 1..Len(p.nodes) : p.nodes[i].id = p.nodes[j].id => i = j
  <2>1. f \in Injection(1..Len(p.nodes), Ids(p))
    <3> HIDE DEF f
    <3> QED
      BY <1>4, <1>5, FS_Surjection
  <2>2. \A i, j \in 1..Len(p.nodes) : f[i] = f[j] => i = j
    BY <2>1 DEF Injection, IsInjective
  <2> QED
    BY <2>2
<1> HIDE DEF r
<1>7. \A i \in DOMAIN p.nodes : p.nodes[i].id = RootId(p) <=> i = r
  BY <1>1, <1>3, <1>6
<1> DEFINE last == CHOOSE i \in DOMAIN p.nodes :
                     /\ p.nodes[i].id = RootId(p)
                     /\ \A k \in DOMAIN p.nodes : k > i => p.nodes[k].id # RootId(p)
<1>8. last = r
  <2>1. \A k \in DOMAIN p.nodes : k > r => k # r
    BY <1>1, <1>3
  <2> QED
    BY <1>3, <1>7, <2>1
<1> QED
  BY <1>3, <1>8 DEF KindOfRoot

\* What the walk from the root finds.
LEMMA WalkFindingsIs ==
  ASSUME NEW p, IsProposal(p)
  PROVE  /\ WalkFindings(p) \in Seq(Found)
         /\ WalkFindings(p) = <<>> <=>
              ~Walk(p).cyclic /\ Walk(p).seen = Ids(p) /\ KindOfRoot(p) = "root"
<1> DEFINE a == When(Walk(p).seen # Ids(p), "notConnected")
           b == When(KindOfRoot(p) # "root", "rootKind")
<1>1. /\ a \in Seq(Found) /\ (a = <<>> <=> ~(Walk(p).seen # Ids(p)))
      /\ b \in Seq(Found) /\ (b = <<>> <=> ~(KindOfRoot(p) # "root"))
  <2>1. "notConnected" \in Found /\ "rootKind" \in Found
    BY DEF Found
  <2> QED
    BY <2>1, FoundIs DEF When
<1> HIDE DEF a, b
<1>2. a \o b \in Seq(Found) /\ (a \o b = <<>> <=> a = <<>> /\ b = <<>>)
  BY <1>1, NoneOfBoth
<1>3. <<"cyclic">> \in Seq(Found) /\ <<"cyclic">> # <<>>
  <2>1. "cyclic" \in Found
    BY DEF Found
  <2> QED
    BY <2>1, FoundIs
<1>4. WalkFindings(p) = IF Walk(p).cyclic THEN <<"cyclic">> ELSE a \o b
  BY DEF WalkFindings, a, b
<1> QED
  BY <1>1, <1>2, <1>3, <1>4

LEMMA FindingsIs ==
  ASSUME NEW p, IsProposal(p)
  PROVE  Findings(p) = <<>> <=>
           /\ Cardinality(Ids(p)) = Len(p.nodes)
           /\ IsInjective(Indexes(p))
           /\ Cardinality(Roots(p)) = 1
           /\ \A i \in Edges(p) : Accepted(p, i)
           /\ Roots(p) # {} =>
                ~Walk(p).cyclic /\ Walk(p).seen = Ids(p) /\ KindOfRoot(p) = "root"
<1> DEFINE a == When(Cardinality(Ids(p)) # Len(p.nodes), "idTwice")
           b == When(~IsInjective(Indexes(p)), "indexTwice")
           c == When(Cardinality(Roots(p)) # 1, "notOneRoot")
           d == EdgeFindings(p)
           e == IF Roots(p) = {} THEN <<>> ELSE WalkFindings(p)
<1>1. /\ a \in Seq(Found) /\ (a = <<>> <=> ~(Cardinality(Ids(p)) # Len(p.nodes)))
      /\ b \in Seq(Found) /\ (b = <<>> <=> IsInjective(Indexes(p)))
      /\ c \in Seq(Found) /\ (c = <<>> <=> ~(Cardinality(Roots(p)) # 1))
  <2>1. "idTwice" \in Found /\ "indexTwice" \in Found /\ "notOneRoot" \in Found
    BY DEF Found
  <2> QED
    BY <2>1, FoundIs DEF When
<1>2. d \in Seq(Found) /\ (d = <<>> <=> \A i \in Edges(p) : Accepted(p, i))
  BY EdgeFindingsIs
<1>3. /\ e \in Seq(Found)
      /\ e = <<>> <=> (Roots(p) # {} =>
           ~Walk(p).cyclic /\ Walk(p).seen = Ids(p) /\ KindOfRoot(p) = "root")
  BY WalkFindingsIs, FoundIs
<1>4. Findings(p) = a \o b \o c \o d \o e
  BY DEF Findings
<1> HIDE DEF a, b, c, d, e
<1>5. a \o b \in Seq(Found) /\ (a \o b = <<>> <=> a = <<>> /\ b = <<>>)
  BY <1>1, NoneOfBoth
<1>6. a \o b \o c \in Seq(Found) /\ (a \o b \o c = <<>> <=> a \o b = <<>> /\ c = <<>>)
  BY <1>1, <1>5, NoneOfBoth
<1>7. a \o b \o c \o d \in Seq(Found) /\ (a \o b \o c \o d = <<>> <=> a \o b \o c = <<>> /\ d = <<>>)
  BY <1>2, <1>6, NoneOfBoth
<1>8. a \o b \o c \o d \o e = <<>> <=> a \o b \o c \o d = <<>> /\ e = <<>>
  BY <1>3, <1>7, NoneOfBoth
<1> QED
  BY <1>1, <1>2, <1>3, <1>4, <1>5, <1>6, <1>7, <1>8

\* The rules find nothing exactly in course trees.
LEMMA FoundNothing ==
  ASSUME NEW p, IsProposal(p)
  PROVE  Findings(p) = <<>> <=> IsCourseTree(p)
<1>1. IsCourseTree(p) <=>
        /\ Cardinality(Ids(p)) = Len(p.nodes)
        /\ \A i, k \in DOMAIN p.nodes : p.nodes[i].index = p.nodes[k].index => i = k
        /\ Cardinality(Roots(p)) = 1
        /\ Within(p)
        /\ Len(p.edges) = Len(p.nodes) - 1
        /\ Connected(p)
  BY DEF IsCourseTree, Within, Connected, Closed, Edges, Parent, Child
<1>2. IsInjective(Indexes(p)) <=>
        \A i, k \in DOMAIN p.nodes : p.nodes[i].index = p.nodes[k].index => i = k
  BY DEF IsInjective, Indexes
<1>3. ASSUME Cardinality(Roots(p)) = 1, Cardinality(Ids(p)) = Len(p.nodes)
      PROVE  (/\ \A i \in Edges(p) : Accepted(p, i)
              /\ ~Walk(p).cyclic /\ Walk(p).seen = Ids(p))
             <=> Within(p) /\ Len(p.edges) = Len(p.nodes) - 1 /\ Connected(p)
  <2>1. Roots(p) # {}
    BY <1>3, EmptyCount
  <2>2. RootId(p) \in Ids(p)
    BY <2>1, RootIs
  <2>3. /\ Walked(p, Walk(p), Cardinality(Ids(p)) + 1)
        /\ ~Walk(p).cyclic => Walk(p).stack = <<>> /\ On(Walk(p).stack) = {}
        /\ OneParent(p) => ~Walk(p).cyclic
    BY <2>2, WalkEnds
  <2>4. WalkType(p, Walk(p)) /\ Walk(p).seen \in SUBSET Ids(p)
    BY <2>3 DEF Walked, WalkType
  <2>5. ASSUME ~Walk(p).cyclic, \A i \in Edges(p) : Accepted(p, i)
        PROVE  /\ Walk(p).seen = Ids(p) <=> Connected(p)
               /\ \A i \in Edges(p) : Parent(p, i) \in Walk(p).seen => Child(p, i) # RootId(p)
    <3>1. RootId(p) \in Walk(p).seen
      <4>1. <<RootId(p)>> # <<>>
        OBVIOUS
      <4> QED
        BY <2>3, <2>5, <4>1 DEF Walked
    <3>2. \A i \in Edges(p) : Parent(p, i) \in Walk(p).seen =>
            Child(p, i) \in Walk(p).seen \ {RootId(p)}
      BY <2>3, <2>5 DEF Walked
    <3>3. Closed(p, Walk(p).seen)
      BY <3>2 DEF Closed
    <3>4. \A S \in SUBSET Ids(p) : RootId(p) \in S /\ Closed(p, S) => Walk(p).seen \subseteq S
      BY <2>3 DEF Walked
    <3>5. Connected(p) => Walk(p).seen = Ids(p)
      BY <2>4, <3>1, <3>3 DEF Connected
    <3>6. Walk(p).seen = Ids(p) => Connected(p)
      BY <3>4 DEF Connected
    <3> QED
      BY <3>2, <3>5, <3>6
  <2>6. ASSUME \A i \in Edges(p) : Accepted(p, i), ~Walk(p).cyclic, Walk(p).seen = Ids(p)
        PROVE  Within(p) /\ Len(p.edges) = Len(p.nodes) - 1 /\ Connected(p)
    <3>1. Within(p)
      BY <2>6 DEF Within, Accepted, Sound, Parent, Child
    <3>2. Connected(p) /\ \A i \in Edges(p) : Child(p, i) # RootId(p)
      BY <2>5, <2>6, <3>1 DEF Within
    <3>3. Len(p.edges) = Cardinality(Ids(p)) - 1
      BY <2>2, <2>6, <3>2, NoMoreEdges
    <3> QED
      BY <1>3, <3>1, <3>2, <3>3
  <2>7. ASSUME Within(p), Len(p.edges) = Len(p.nodes) - 1, Connected(p)
        PROVE  /\ \A i \in Edges(p) : Accepted(p, i)
               /\ ~Walk(p).cyclic /\ Walk(p).seen = Ids(p)
    <3>1. OneParent(p)
      BY <1>3, <2>2, <2>7, EnoughEdges DEF OneParent
    <3>2. ~Walk(p).cyclic /\ \A i \in Edges(p) : Accepted(p, i)
      BY <2>3, <3>1 DEF OneParent
    <3> QED
      BY <2>5, <2>7, <3>2
  <2> QED
    BY <2>6, <2>7
<1>4. ASSUME Cardinality(Roots(p)) = 1, Cardinality(Ids(p)) = Len(p.nodes)
      PROVE  Roots(p) # {} /\ KindOfRoot(p) = "root"
  <2>1. Roots(p) # {}
    BY <1>4, EmptyCount
  <2> QED
    BY <1>4, <2>1, KindOfRootIs
<1> QED
  BY <1>1, <1>2, <1>3, <1>4, FindingsIs

----------------------------------------------------------------------------
(* The course scaffold: the inductive invariant *)

\* What the variables hold beyond the type invariant.
ScaffoldShape ==
  /\ TypeOK
  /\ asked \in [Calls -> Nat]
  /\ reply = [c \in Calls |-> reply[c]]
  /\ told = [c \in Calls |-> told[c]]
  /\ row = [j \in Jobs |-> row[j]]
  /\ \A j \in Jobs : row[j] = [status |-> row[j].status, ref |-> row[j].ref]
  /\ \A e \in cache : e.reply \in Replies[e.key[1]]

\* The completions of n rounds of the graph.
Rounds(n) == n * (NodeRetries + 1)

\* What a call has asked of the model, by where it is.
Budget(c) ==
  /\ pc[c] \in {"new", "claim"} => asked[c] = 0 /\ count[c] = 0 /\ attempts[c] = 0
  /\ pc[c] = "generate" => count[c] <= Retries /\ asked[c] <= Rounds(count[c]) + attempts[c]
  /\ pc[c] = "asking" => count[c] <= Retries /\ asked[c] <= Rounds(count[c]) + attempts[c] + 1
  /\ pc[c] = "validate" =>
       count[c] <= Retries /\ attempts[c] = 0 /\ asked[c] <= Rounds(count[c] + 1)
  /\ pc[c] = "settle" => Usable(reply[c]) \/ count[c] = Retries + 1
  /\ asked[c] <= Rounds(Retries + 1)
  /\ cause[c] # "none" => pc[c] \in {"failing", "raising"} \cup Ended
  /\ cause[c] = "reply" => count[c] = Retries + 1 /\ ~Usable(reply[c])

\* Who is told a proposal has ended, and nothing was found against it.
ToldWell(c) ==
  told[c].is = "proposal" => pc[c] = "done" /\ Findings(told[c].proposal) = <<>>

\* Somebody answers for a row that says "running".
Attended(j) ==
  row[j].status = "running" =>
    \E c \in Calls : JobOf[c] = j /\ (pc[c] \in Active \/ told[c].is = "proposal")

ScaffoldIInv ==
  /\ ScaffoldShape
  /\ \A c \in Calls : Budget(c) /\ ToldWell(c)
  /\ \A j \in Reliable : Attended(j)

----------------------------------------------------------------------------
LEMMA RoundsGrow ==
  /\ \A n \in Nat : Rounds(n) \in Nat /\ Rounds(n + 1) = Rounds(n) + NodeRetries + 1
  /\ \A n \in Nat : n <= Retries => Rounds(n + 1) <= Rounds(Retries + 1)
  /\ Rounds(0) = 0
<1>1. \A n, k \in Nat : n * k \in Nat /\ (n + 1) * k = n * k + k
  OBVIOUS
<1>2. \A n \in Nat : Rounds(n) \in Nat /\ Rounds(n + 1) = Rounds(n) + NodeRetries + 1
  BY <1>1, ScaffoldAssumption DEF Rounds
<1>3. ASSUME NEW n \in Nat, n <= Retries PROVE Rounds(n + 1) <= Rounds(Retries + 1)
  <2> DEFINE d == Retries - n
             k == NodeRetries + 1
  <2>1. d \in Nat /\ k \in Nat /\ Retries + 1 = (n + 1) + d
    BY <1>3, ScaffoldAssumption
  <2>2. (n + 1 + d) * k = (n + 1) * k + d * k /\ d * k \in Nat /\ (n + 1) * k \in Nat
    BY <2>1
  <2>3. Rounds(Retries + 1) = (n + 1 + d) * k /\ Rounds(n + 1) = (n + 1) * k
    BY <2>1 DEF Rounds
  <2> HIDE DEF d, k
  <2> QED
    BY <2>2, <2>3
<1>4. Rounds(0) = 0
  BY ScaffoldAssumption DEF Rounds
<1> QED
  BY <1>2, <1>3, <1>4

\* A usable reply is a proposal without findings.
LEMMA UsableIs ==
  ASSUME NEW r, Usable(r)
  PROVE  r.is = "proposal" /\ Findings(r.proposal) = <<>>
<1>1. r.is = "proposal" /\ Errors(r) = <<>>
  BY DEF Usable
<1>2. ~HasBodies(r)
  BY <1>1 DEF Errors
<1> QED
  BY <1>1, <1>2 DEF Errors

LEMMA ProposedIs ==
  ASSUME NEW p
  PROVE  Proposed(p).is = "proposal" /\ Proposed(p).proposal = p
BY DEF Proposed

LEMMA ScaffoldTypes ==
  ASSUME ScaffoldShape, NEW c \in Calls
  PROVE  /\ attempts[c] \in Nat /\ count[c] \in Nat /\ asked[c] \in Nat
         /\ attempts[c] <= NodeRetries /\ Retries \in Nat /\ NodeRetries \in Nat
BY ScaffoldAssumption DEF ScaffoldShape, TypeOK

\* What a step of c leaves alone: the other calls.
OthersStay(c) ==
  /\ \E p \in {"new"} \cup Active \cup Ended : pc' = [pc EXCEPT ![c] = p]
  /\ attempts' = attempts \/ \E n \in 0..NodeRetries : attempts' = [attempts EXCEPT ![c] = n]
  /\ count' = count \/ \E n \in 0..(Retries + 1) : count' = [count EXCEPT ![c] = n]
  /\ \/ reply' = reply
     \/ \E r \in Replies[RequestOf[c]] : reply' = [reply EXCEPT ![c] = r]
  /\ \/ cause' = cause
     \/ \E w \in {"reply", "exception"} : cause' = [cause EXCEPT ![c] = w]
  /\ told' = told \/ told' = [told EXCEPT ![c] = Raised]
       \/ \E p : told' = [told EXCEPT ![c] = Proposed(p)]
  /\ asked' = asked \/ asked' = [asked EXCEPT ![c] = @ + 1]

\* What a step of c may do to a row, and to the completions that are kept.
RowSays(c) ==
  \/ row' = row
  \/ /\ JobOf[c] \in Jobs
     /\ \E s \in Statuses : row' = [row EXCEPT ![JobOf[c]].status = s]
  \/ /\ JobOf[c] \in Jobs
     /\ \E v : row' = [row EXCEPT ![JobOf[c]] = [status |-> "succeeded", ref |-> v]]

CacheSound == \A e \in cache : e.reply \in Replies[e.key[1]]

Attends(c) == pc[c] \in Active \/ told[c].is = "proposal"

\* A call does not leave its job's row saying "running" with nobody at work.
RowAttended(c) ==
  JobOf[c] \in Reliable =>
    \/ Attends(c)'
    \/ row'[JobOf[c]].status # "running"
    \/ row' = row /\ ~Attends(c)

Moves(c) ==
  /\ OthersStay(c) /\ RowSays(c) /\ CacheSound'
  /\ Budget(c)' /\ ToldWell(c)' /\ RowAttended(c)

LEMMA ShapeMoves ==
  ASSUME NEW c \in Calls, ScaffoldShape, OthersStay(c), RowSays(c), CacheSound'
  PROVE  ScaffoldShape'
<1>1. /\ pc' \in [Calls -> {"new"} \cup Active \cup Ended]
      /\ attempts' \in [Calls -> 0..NodeRetries]
      /\ count' \in [Calls -> 0..(Retries + 1)]
      /\ cause' \in [Calls -> {"none", "reply", "exception"}]
      /\ asked' \in [Calls -> Nat]
  <2>1. pc' \in [Calls -> {"new"} \cup Active \cup Ended]
    BY DEF OthersStay, ScaffoldShape, TypeOK
  <2>2. attempts' \in [Calls -> 0..NodeRetries]
    BY DEF OthersStay, ScaffoldShape, TypeOK
  <2>3. count' \in [Calls -> 0..(Retries + 1)]
    BY DEF OthersStay, ScaffoldShape, TypeOK
  <2>4. cause' \in [Calls -> {"none", "reply", "exception"}]
    BY DEF OthersStay, ScaffoldShape, TypeOK
  <2>5. asked' \in [Calls -> Nat]
    BY DEF OthersStay, ScaffoldShape, TypeOK
  <2> QED
    BY <2>1, <2>2, <2>3, <2>4, <2>5
<1>2. /\ reply' = [d \in Calls |-> reply'[d]]
      /\ \A d \in Calls : reply'[d] \in Replies[RequestOf[d]] \cup {NoReply}
  BY DEF OthersStay, ScaffoldShape, TypeOK
<1>3. /\ told' = [d \in Calls |-> told'[d]]
      /\ \A d \in Calls : told'[d].is \in {"untold", "error", "proposal"}
  <2>1. Raised.is = "error" /\ \A p : Proposed(p).is = "proposal"
    BY DEF Raised, Proposed
  <2> QED
    BY <2>1 DEF OthersStay, ScaffoldShape, TypeOK
<1>4. /\ row' = [j \in Jobs |-> row'[j]]
      /\ \A j \in Jobs : /\ row'[j] = [status |-> row'[j].status, ref |-> row'[j].ref]
                         /\ row'[j].status \in Statuses
  <2>1. /\ row = [j \in Jobs |-> row[j]]
        /\ \A j \in Jobs : /\ row[j] = [status |-> row[j].status, ref |-> row[j].ref]
                           /\ row[j].status \in Statuses
    BY DEF ScaffoldShape, TypeOK
  <2>2. ASSUME JobOf[c] \in Jobs, NEW s \in Statuses, NEW v,
               row' = [row EXCEPT ![JobOf[c]] = [status |-> s, ref |-> v]]
        PROVE  /\ row' = [j \in Jobs |-> row'[j]]
               /\ \A j \in Jobs : /\ row'[j] = [status |-> row'[j].status, ref |-> row'[j].ref]
                                  /\ row'[j].status \in Statuses
    BY <2>1, <2>2
  <2>3. ASSUME JobOf[c] \in Jobs, NEW s \in Statuses,
               row' = [row EXCEPT ![JobOf[c]].status = s]
        PROVE  row' = [row EXCEPT ![JobOf[c]] = [status |-> s, ref |-> row[JobOf[c]].ref]]
    <3> DEFINE r == row[JobOf[c]]
    <3>1. r = [status |-> r.status, ref |-> r.ref]
      BY <2>1, <2>3
    <3> HIDE DEF r
    <3>2. [r EXCEPT !.status = s] = [status |-> s, ref |-> r.ref]
      BY <3>1
    <3> QED
      BY <2>3, <3>2 DEF r
  <2>4. "succeeded" \in Statuses
    BY DEF Statuses
  <2>5. CASE row' = row
    BY <2>1, <2>5
  <2>6. CASE JobOf[c] \in Jobs /\ \E s \in Statuses : row' = [row EXCEPT ![JobOf[c]].status = s]
    <3>1. PICK s \in Statuses : row' = [row EXCEPT ![JobOf[c]].status = s]
      BY <2>6
    <3>2. row' = [row EXCEPT ![JobOf[c]] = [status |-> s, ref |-> row[JobOf[c]].ref]]
      BY <2>3, <2>6, <3>1
    <3> QED
      BY <2>2, <2>6, <3>2
  <2>7. CASE /\ JobOf[c] \in Jobs
             /\ \E v : row' = [row EXCEPT ![JobOf[c]] = [status |-> "succeeded", ref |-> v]]
    BY <2>2, <2>4, <2>7
  <2> QED
    BY <2>5, <2>6, <2>7 DEF RowSays
<1> QED
  BY <1>1, <1>2, <1>3, <1>4 DEF ScaffoldShape, TypeOK, CacheSound

LEMMA MovesKeep ==
  ASSUME NEW c \in Calls, ScaffoldIInv, Moves(c)
  PROVE  ScaffoldIInv'
<1>1. ScaffoldShape'
  BY ShapeMoves DEF Moves, ScaffoldIInv
<1>2. ASSUME NEW d \in Calls, d # c
      PROVE  /\ pc'[d] = pc[d] /\ attempts'[d] = attempts[d] /\ count'[d] = count[d]
             /\ reply'[d] = reply[d] /\ cause'[d] = cause[d] /\ told'[d] = told[d]
             /\ asked'[d] = asked[d]
  <2>1. pc'[d] = pc[d] /\ attempts'[d] = attempts[d] /\ count'[d] = count[d]
    BY <1>2 DEF Moves, OthersStay, ScaffoldIInv, ScaffoldShape, TypeOK
  <2>2. reply'[d] = reply[d] /\ cause'[d] = cause[d]
    BY <1>2 DEF Moves, OthersStay, ScaffoldIInv, ScaffoldShape, TypeOK
  <2>3. told'[d] = told[d] /\ asked'[d] = asked[d]
    BY <1>2 DEF Moves, OthersStay, ScaffoldIInv, ScaffoldShape, TypeOK
  <2> QED
    BY <2>1, <2>2, <2>3
<1>3. ASSUME NEW d \in Calls PROVE Budget(d)' /\ ToldWell(d)'
  <2>1. CASE d = c
    BY <2>1 DEF Moves
  <2>2. CASE d # c
    BY <1>2, <1>3, <2>2 DEF ScaffoldIInv, Budget, ToldWell
  <2> QED
    BY <2>1, <2>2
<1>4. ASSUME NEW j \in Reliable, row'[j].status = "running"
      PROVE  \E d \in Calls : JobOf[d] = j /\ Attends(d)'
  <2>1. j \in Jobs
    BY ScaffoldAssumption
  <2>2. CASE JobOf[c] = j
    <3>1. CASE Attends(c)'
      BY <2>2, <3>1
    <3>2. CASE row' = row /\ ~Attends(c)
      <4>1. PICK d \in Calls : JobOf[d] = j /\ Attends(d)
        BY <1>4, <3>2 DEF ScaffoldIInv, Attended, Attends
      <4>2. d # c
        BY <3>2, <4>1
      <4>3. Attends(d)'
        BY <1>2, <4>1, <4>2 DEF Attends
      <4> QED
        BY <4>1, <4>3
    <3> QED
      BY <1>4, <2>2, <3>1, <3>2 DEF Moves, RowAttended
  <2>3. CASE JobOf[c] # j
    <3>1. row'[j] = row[j]
      BY <2>1, <2>3 DEF Moves, RowSays, ScaffoldIInv, ScaffoldShape
    <3>2. PICK d \in Calls : JobOf[d] = j /\ Attends(d)
      BY <1>4, <3>1 DEF ScaffoldIInv, Attended, Attends
    <3>3. Attends(d)'
      BY <1>2, <2>3, <3>2 DEF Attends
    <3> QED
      BY <3>2, <3>3
  <2> QED
    BY <2>2, <2>3
<1> QED
  BY <1>1, <1>3, <1>4 DEF ScaffoldIInv, Attended, Attends

----------------------------------------------------------------------------
(* Each step is such a move *)

LEMMA ReportSays ==
  ASSUME NEW c \in Calls, ScaffoldShape, NEW s \in Statuses, Report(c, s)
  PROVE  /\ RowSays(c)
         /\ JobOf[c] \in Reliable => row'[JobOf[c]].status = s
<1>1. JobOf[c] \in Jobs \cup {NoJob} /\ NoJob \notin Jobs /\ Reliable \subseteq Jobs
  BY ScaffoldAssumption
<1>2. /\ row = [j \in Jobs |-> row[j]]
      /\ \A j \in Jobs : row[j] = [status |-> row[j].status, ref |-> row[j].ref]
  BY DEF ScaffoldShape
<1>3. JobOf[c] \in Jobs => [row EXCEPT ![JobOf[c]].status = s][JobOf[c]].status = s
  BY <1>2
<1> QED
  BY <1>1, <1>3 DEF Report, RowSays

LEMMA ReplayMoves ==
  ASSUME NEW c \in Calls, ScaffoldIInv, Replay(c)
  PROVE  Moves(c)
<1> DEFINE p == row[JobOf[c]].ref.proposal
<1>1. /\ pc[c] = "new" /\ pc' = [pc EXCEPT ![c] = "done"]
      /\ told' = [told EXCEPT ![c] = Proposed(p)] /\ Findings(p) = <<>>
      /\ UNCHANGED <<attempts, count, reply, cause, asked, row, cache>>
  BY UsableIs DEF Replay, Goto
<1> HIDE DEF p
<1>2. told'[c].is = "proposal" /\ told'[c].proposal = p /\ pc'[c] = "done"
  BY <1>1, ProposedIs DEF ScaffoldIInv, ScaffoldShape, TypeOK
<1>3. OthersStay(c) /\ RowSays(c) /\ CacheSound'
  BY <1>1 DEF OthersStay, RowSays, CacheSound, ScaffoldIInv, ScaffoldShape, Ended
<1>4. Budget(c)' /\ ToldWell(c)' /\ RowAttended(c)
  BY <1>1, <1>2 DEF Budget, ToldWell, RowAttended, Attends, ScaffoldIInv, Ended
<1> QED
  BY <1>3, <1>4 DEF Moves

LEMMA StartMoves ==
  ASSUME NEW c \in Calls, ScaffoldIInv, Start(c)
  PROVE  Moves(c)
<1>1. /\ pc[c] = "new" /\ pc' = [pc EXCEPT ![c] = "claim"]
      /\ UNCHANGED <<attempts, count, reply, cause, told, asked, row, cache>>
  BY DEF Start, Goto
<1>2. pc'[c] = "claim"
  BY <1>1 DEF ScaffoldIInv, ScaffoldShape, TypeOK
<1>3. OthersStay(c) /\ RowSays(c) /\ CacheSound'
  BY <1>1 DEF OthersStay, RowSays, CacheSound, ScaffoldIInv, ScaffoldShape, Active
<1>4. Budget(c)' /\ ToldWell(c)' /\ RowAttended(c)
  BY <1>1, <1>2 DEF Budget, ToldWell, RowAttended, Attends, ScaffoldIInv, Active, Ended
<1> QED
  BY <1>3, <1>4 DEF Moves

LEMMA ClaimMoves ==
  ASSUME NEW c \in Calls, ScaffoldIInv, Claim(c) \/ Progress(c)
  PROVE  Moves(c)
<1>1. /\ pc[c] \in Active
      /\ pc' = pc \/ (pc[c] = "claim" /\ pc' = [pc EXCEPT ![c] = "generate"])
      /\ Report(c, "running")
      /\ UNCHANGED <<attempts, count, reply, cause, told, asked, cache>>
  BY DEF Claim, Progress, Goto, Active
<1>2. pc' = pc \/ (pc[c] = "claim" /\ pc'[c] = "generate")
  BY <1>1 DEF ScaffoldIInv, ScaffoldShape, TypeOK
<1>3. pc'[c] \in Active
  BY <1>1, <1>2 DEF Active, InGraph, Asking
<1>4. pc' = [pc EXCEPT ![c] = pc'[c]]
  BY <1>1 DEF ScaffoldIInv, ScaffoldShape, TypeOK
<1>5. RowSays(c)
  BY <1>1, ReportSays DEF ScaffoldIInv, Statuses
<1>6. OthersStay(c) /\ CacheSound'
  BY <1>1, <1>3, <1>4 DEF OthersStay, CacheSound, ScaffoldIInv, ScaffoldShape
<1>7. Budget(c)'
  <2>1. CASE pc' = pc
    BY <1>1, <2>1 DEF Budget, ScaffoldIInv
  <2>2. CASE pc[c] = "claim" /\ pc'[c] = "generate"
    <3>1. asked[c] = 0 /\ count[c] = 0 /\ attempts[c] = 0
      BY <2>2 DEF Budget, ScaffoldIInv
    <3>2. cause[c] = "none"
      BY <2>2 DEF Budget, ScaffoldIInv, Ended
    <3> QED
      BY <1>1, <2>2, <3>1, <3>2, RoundsGrow, ScaffoldAssumption DEF Budget, ScaffoldIInv
  <2> QED
    BY <1>2, <2>1, <2>2
<1>8. ToldWell(c)' /\ RowAttended(c)
  BY <1>1, <1>3 DEF ToldWell, RowAttended, Attends, ScaffoldIInv, Active, InGraph, Asking
<1> QED
  BY <1>5, <1>6, <1>7, <1>8 DEF Moves

LEMMA ReadMoves ==
  ASSUME NEW c \in Calls, ScaffoldIInv, Hit(c) \/ Answered(c)
  PROVE  Moves(c)
<1>1. PICK r \in Replies[RequestOf[c]] : Read(c, r) /\ CacheSound'
  <2>1. CASE Hit(c)
    <3>1. PICK e \in cache : e.key = Key(c) /\ Read(c, e.reply)
      BY <2>1 DEF Hit
    <3>2. Key(c)[1] = RequestOf[c]
      BY DEF Key
    <3>3. e.reply \in Replies[RequestOf[c]]
      BY <3>1, <3>2 DEF ScaffoldIInv, ScaffoldShape
    <3> QED
      BY <2>1, <3>1, <3>3 DEF Hit, CacheSound, ScaffoldIInv, ScaffoldShape
  <2>2. CASE Answered(c)
    <3>1. PICK r \in Replies[RequestOf[c]] :
            /\ Read(c, r)
            /\ cache' = IF RequestOf[c] \notin Cached THEN cache
                        ELSE {e \in cache : e.key # Key(c)} \cup {[key |-> Key(c), reply |-> r]}
      BY <2>2 DEF Answered
    <3>2. Key(c)[1] = RequestOf[c]
      BY DEF Key
    <3>3. CacheSound'
      BY <3>1, <3>2 DEF CacheSound, ScaffoldIInv, ScaffoldShape
    <3> QED
      BY <3>1, <3>3
  <2> QED
    BY <2>1, <2>2
<1>2. /\ pc[c] \in {"generate", "asking"} /\ pc' = [pc EXCEPT ![c] = "validate"]
      /\ attempts' = [attempts EXCEPT ![c] = 0] /\ reply' = [reply EXCEPT ![c] = r]
      /\ UNCHANGED <<count, cause, told, asked, row>>
  BY <1>1 DEF Hit, Answered, Read, Goto
<1>3. pc'[c] = "validate" /\ attempts'[c] = 0
  BY <1>2 DEF ScaffoldIInv, ScaffoldShape, TypeOK
<1>4. OthersStay(c) /\ RowSays(c)
  <2>1. 0 \in 0..NodeRetries /\ "validate" \in Active
    BY ScaffoldAssumption DEF Active, InGraph
  <2> QED
    BY <1>2, <2>1 DEF OthersStay, RowSays
<1>5. Budget(c)'
  <2>1. count[c] <= Retries /\ asked[c] <= Rounds(count[c]) + attempts[c] + 1
    BY <1>2, ScaffoldTypes, RoundsGrow DEF ScaffoldIInv, Budget
  <2>2. asked[c] <= Rounds(count[c] + 1)
    BY <2>1, ScaffoldTypes, RoundsGrow DEF ScaffoldIInv
  <2>3. cause[c] = "none"
    BY <1>2 DEF ScaffoldIInv, ScaffoldShape, TypeOK, Budget, Ended
  <2> QED
    BY <1>2, <1>3, <2>1, <2>2, <2>3 DEF ScaffoldIInv, Budget
<1>6. ToldWell(c)' /\ RowAttended(c)
  BY <1>2, <1>3 DEF ToldWell, RowAttended, Attends, ScaffoldIInv, Active, InGraph, Asking
<1> QED
  BY <1>1, <1>4, <1>5, <1>6 DEF Moves

LEMMA AskMoves ==
  ASSUME NEW c \in Calls, ScaffoldIInv, Ask(c)
  PROVE  Moves(c)
<1>1. /\ pc[c] = "generate" /\ pc' = [pc EXCEPT ![c] = "asking"]
      /\ asked' = [asked EXCEPT ![c] = @ + 1]
      /\ UNCHANGED <<attempts, count, reply, cause, told, row, cache>>
  BY DEF Ask, Goto
<1>2. pc'[c] = "asking" /\ asked'[c] = asked[c] + 1
  BY <1>1 DEF ScaffoldIInv, ScaffoldShape, TypeOK
<1>3. OthersStay(c) /\ RowSays(c) /\ CacheSound'
  BY <1>1 DEF OthersStay, RowSays, CacheSound, ScaffoldIInv, ScaffoldShape, Active, InGraph, Asking
<1>4. Budget(c)'
  <2>1. count[c] <= Retries /\ asked[c] <= Rounds(count[c]) + attempts[c]
    BY <1>1 DEF ScaffoldIInv, Budget
  <2>2. asked'[c] <= Rounds(count[c] + 1) /\ Rounds(count[c] + 1) <= Rounds(Retries + 1)
    BY <1>2, <2>1, ScaffoldTypes, RoundsGrow DEF ScaffoldIInv
  <2>3. asked'[c] <= Rounds(Retries + 1)
    BY <1>2, <2>1, <2>2, ScaffoldTypes, RoundsGrow DEF ScaffoldIInv
  <2>4. asked'[c] <= Rounds(count[c]) + attempts[c] + 1
    BY <1>2, <2>1, ScaffoldTypes, RoundsGrow DEF ScaffoldIInv
  <2>5. cause[c] = "none"
    BY <1>1 DEF ScaffoldIInv, ScaffoldShape, TypeOK, Budget, Ended
  <2> QED
    BY <1>1, <1>2, <2>1, <2>3, <2>4, <2>5 DEF ScaffoldIInv, Budget
<1>5. ToldWell(c)' /\ RowAttended(c)
  BY <1>1, <1>2 DEF ToldWell, RowAttended, Attends, ScaffoldIInv, Active, InGraph, Asking
<1> QED
  BY <1>3, <1>4, <1>5 DEF Moves

\* The run of c raises: its handler will report.
LEMMA FailsMoves ==
  ASSUME NEW c \in Calls, ScaffoldIInv, NEW why \in {"reply", "exception"},
         pc[c] \in InGraph, Fails(c, why),
         why = "reply" => pc[c] = "settle" /\ ~Usable(reply[c]),
         UNCHANGED <<attempts, count, reply, asked, row, cache>>
  PROVE  Moves(c)
<1>1. /\ pc' = [pc EXCEPT ![c] = "failing"] /\ cause' = [cause EXCEPT ![c] = why]
      /\ UNCHANGED told
  BY DEF Fails, Goto
<1>2. pc'[c] = "failing" /\ cause'[c] = why
  BY <1>1 DEF ScaffoldIInv, ScaffoldShape, TypeOK
<1>3. OthersStay(c) /\ RowSays(c) /\ CacheSound'
  BY <1>1 DEF OthersStay, RowSays, CacheSound, ScaffoldIInv, ScaffoldShape, Active
<1>4. Budget(c)'
  <2>1. why = "reply" => count[c] = Retries + 1
    BY DEF ScaffoldIInv, Budget
  <2> QED
    BY <1>1, <1>2, <2>1 DEF ScaffoldIInv, Budget
<1>5. ToldWell(c)' /\ RowAttended(c)
  BY <1>1, <1>2 DEF ToldWell, RowAttended, Attends, ScaffoldIInv, Active, InGraph, Asking
<1> QED
  BY <1>3, <1>4, <1>5 DEF Moves

LEMMA RaisesMoves ==
  ASSUME NEW c \in Calls, ScaffoldIInv, NodeRaises(c)
  PROVE  Moves(c)
<1>1. CASE Fails(c, "exception")
  <2>1. pc[c] \in InGraph /\ UNCHANGED <<count, reply, asked, row, cache>>
    BY DEF NodeRaises, InGraph
  <2>2. attempts' = attempts
    BY <1>1 DEF NodeRaises, Fails, Goto, ScaffoldIInv, ScaffoldShape, TypeOK
  <2> QED
    BY <1>1, <2>1, <2>2, FailsMoves
<1>2. CASE ~Fails(c, "exception")
  <2>1. /\ pc[c] \in Asking /\ attempts[c] < NodeRetries
        /\ attempts' = [attempts EXCEPT ![c] = @ + 1]
        /\ pc' = [pc EXCEPT ![c] = "generate"]
        /\ UNCHANGED <<count, reply, cause, told, asked, row, cache>>
    BY <1>2 DEF NodeRaises, MayAttempt, Goto
  <2>2. pc'[c] = "generate" /\ attempts'[c] = attempts[c] + 1 /\ attempts[c] + 1 \in 0..NodeRetries
    BY <2>1, ScaffoldTypes DEF ScaffoldIInv, ScaffoldShape, TypeOK
  <2>3. OthersStay(c) /\ RowSays(c) /\ CacheSound'
    <3>1. attempts' = [attempts EXCEPT ![c] = attempts[c] + 1]
      BY <2>1
    <3>2. "generate" \in Active
      BY DEF Active, InGraph, Asking
    <3> QED
      BY <2>1, <2>2, <3>1, <3>2 DEF OthersStay, RowSays, CacheSound, ScaffoldIInv, ScaffoldShape
  <2>4. Budget(c)'
    <3>1. count[c] <= Retries /\ asked[c] <= Rounds(count[c]) + attempts[c] + 1
      BY <2>1, ScaffoldTypes, RoundsGrow DEF ScaffoldIInv, Budget, Asking
    <3>2. cause[c] = "none"
      BY <2>1 DEF ScaffoldIInv, ScaffoldShape, TypeOK, Budget, Ended, Asking
    <3>3. asked[c] <= Rounds(count[c]) + attempts'[c]
      BY <2>2, <3>1, ScaffoldTypes, RoundsGrow DEF ScaffoldIInv
    <3> QED
      BY <2>1, <2>2, <3>1, <3>2, <3>3 DEF ScaffoldIInv, Budget
  <2>5. ToldWell(c)' /\ RowAttended(c)
    BY <2>1, <2>2 DEF ToldWell, RowAttended, Attends, ScaffoldIInv, Active, InGraph, Asking
  <2> QED
    BY <2>3, <2>4, <2>5 DEF Moves
<1> QED
  BY <1>1, <1>2

LEMMA ValidateMoves ==
  ASSUME NEW c \in Calls, ScaffoldIInv, Validate(c)
  PROVE  Moves(c)
<1>1. /\ pc[c] = "validate" /\ UNCHANGED <<attempts, reply, cause, told, asked, row, cache>>
      /\ count[c] <= Retries /\ attempts[c] = 0 /\ asked[c] <= Rounds(count[c] + 1)
  BY DEF Validate, ScaffoldIInv, Budget
<1>2. cause[c] = "none"
  BY <1>1 DEF ScaffoldIInv, ScaffoldShape, TypeOK, Budget, Ended
<1>3. CASE Usable(reply[c])
  <2>1. pc' = [pc EXCEPT ![c] = "settle"] /\ count' = count
    BY <1>3 DEF Validate, Goto
  <2>2. pc'[c] = "settle"
    BY <2>1 DEF ScaffoldIInv, ScaffoldShape, TypeOK
  <2>3. OthersStay(c) /\ RowSays(c) /\ CacheSound'
    BY <1>1, <2>1 DEF OthersStay, RowSays, CacheSound, ScaffoldIInv, ScaffoldShape, Active, InGraph
  <2>4. Budget(c)' /\ ToldWell(c)' /\ RowAttended(c)
    BY <1>1, <1>2, <1>3, <2>1, <2>2
       DEF Budget, ToldWell, RowAttended, Attends, ScaffoldIInv, Active, InGraph
  <2> QED
    BY <2>3, <2>4 DEF Moves
<1>4. CASE ~Usable(reply[c])
  <2> DEFINE to == IF Again(count[c] + 1) THEN "generate" ELSE "settle"
  <2>1. pc' = [pc EXCEPT ![c] = to] /\ count' = [count EXCEPT ![c] = count[c] + 1]
    BY <1>4 DEF Validate, Goto
  <2>2. to \in InGraph
    BY DEF InGraph, Asking
  <2>3. to = "generate" => count[c] + 1 <= Retries
    BY DEF Again
  <2>4. to # "generate" => to = "settle" /\ count[c] + 1 = Retries + 1
    <3>1. count[c] \in Nat /\ Retries \in Nat
      BY ScaffoldTypes DEF ScaffoldIInv
    <3> QED
      BY <1>1, <3>1 DEF Again
  <2> HIDE DEF to
  <2>5. pc'[c] = to /\ count'[c] = count[c] + 1 /\ count[c] + 1 \in 0..(Retries + 1)
    BY <1>1, <2>1, ScaffoldTypes DEF ScaffoldIInv, ScaffoldShape, TypeOK
  <2>6. OthersStay(c) /\ RowSays(c) /\ CacheSound'
    <3>1. to \in Active
      BY <2>2 DEF Active
    <3> QED
      BY <1>1, <2>1, <2>5, <3>1 DEF OthersStay, RowSays, CacheSound, ScaffoldIInv, ScaffoldShape
  <2>7. Budget(c)'
    <3>1. asked[c] <= Rounds(count'[c]) + attempts[c]
      BY <1>1, <2>5, ScaffoldTypes, RoundsGrow DEF ScaffoldIInv
    <3>2. to = "generate" \/ (to = "settle" /\ count'[c] = Retries + 1)
      BY <2>4, <2>5
    <3> QED
      BY <1>1, <1>2, <2>3, <2>5, <3>1, <3>2 DEF ScaffoldIInv, Budget
  <2>8. ToldWell(c)' /\ RowAttended(c)
    BY <1>1, <2>2, <2>5 DEF ToldWell, RowAttended, Attends, ScaffoldIInv, Active
  <2> QED
    BY <2>6, <2>7, <2>8 DEF Moves
<1> QED
  BY <1>3, <1>4

LEMMA SettleMoves ==
  ASSUME NEW c \in Calls, ScaffoldIInv, Settle(c)
  PROVE  Moves(c)
<1>1. pc[c] = "settle" /\ UNCHANGED <<attempts, count, reply, asked, row, cache>>
  BY DEF Settle
<1>2. CASE ~Usable(reply[c])
  <2>1. Fails(c, "reply") /\ pc[c] \in InGraph
    BY <1>1, <1>2 DEF Settle, InGraph
  <2> QED
    BY <1>1, <1>2, <2>1, FailsMoves
<1>3. CASE Usable(reply[c])
  <2> DEFINE p == reply[c].proposal
  <2>1. /\ pc' = [pc EXCEPT ![c] = "done"] /\ cause' = cause
        /\ told' = [told EXCEPT ![c] = Proposed(p)] /\ Findings(p) = <<>>
    BY <1>3, UsableIs DEF Settle, Goto
  <2> HIDE DEF p
  <2>2. told'[c].is = "proposal" /\ told'[c].proposal = p /\ pc'[c] = "done"
    BY <2>1, ProposedIs DEF ScaffoldIInv, ScaffoldShape, TypeOK
  <2>3. OthersStay(c) /\ RowSays(c) /\ CacheSound'
    BY <1>1, <2>1 DEF OthersStay, RowSays, CacheSound, ScaffoldIInv, ScaffoldShape, Ended
  <2>4. Budget(c)' /\ ToldWell(c)' /\ RowAttended(c)
    BY <1>1, <2>1, <2>2 DEF Budget, ToldWell, RowAttended, Attends, ScaffoldIInv, Ended
  <2> QED
    BY <2>3, <2>4 DEF Moves
<1> QED
  BY <1>2, <1>3

LEMMA FailingMoves ==
  ASSUME NEW c \in Calls, ScaffoldIInv, Failing(c)
  PROVE  Moves(c)
<1>1. /\ pc[c] \in {"failing", "raising"} /\ Report(c, "failed")
      /\ \/ pc' = [pc EXCEPT ![c] = "raising"] /\ told' = told
         \/ pc' = [pc EXCEPT ![c] = "done"] /\ told' = [told EXCEPT ![c] = Raised]
      /\ UNCHANGED <<attempts, count, reply, cause, asked, cache>>
  BY DEF Failing, Goto
<1>2. /\ pc'[c] \in {"raising"} \cup Ended
      /\ pc' = [pc EXCEPT ![c] = pc'[c]]
  BY <1>1 DEF ScaffoldIInv, ScaffoldShape, TypeOK, Ended
<1>3. told'[c].is # "proposal"
  <2>1. told[c].is # "proposal" /\ Raised.is # "proposal"
    BY <1>1 DEF ScaffoldIInv, ToldWell, Raised
  <2> QED
    BY <1>1, <2>1 DEF ScaffoldIInv, ScaffoldShape
<1>4. RowSays(c) /\ RowAttended(c)
  <2>1. "failed" \in Statuses
    BY DEF Statuses
  <2> QED
    BY <1>1, <2>1, ReportSays DEF ScaffoldIInv, RowAttended
<1>5. OthersStay(c) /\ CacheSound'
  BY <1>1, <1>2 DEF OthersStay, CacheSound, ScaffoldIInv, ScaffoldShape, Active
<1>6. Budget(c)' /\ ToldWell(c)'
  BY <1>1, <1>2, <1>3 DEF Budget, ToldWell, ScaffoldIInv, Ended
<1> QED
  BY <1>4, <1>5, <1>6 DEF Moves

LEMMA CancelMoves ==
  ASSUME NEW c \in Calls, ScaffoldIInv, Cancel(c)
  PROVE  Moves(c)
<1>1. /\ pc[c] \in Active /\ JobOf[c] \notin Reliable
      /\ row' = row \/ Report(c, "running") \/ Report(c, "failed")
      /\ pc' = [pc EXCEPT ![c] = "cancelled"]
      /\ UNCHANGED <<attempts, count, reply, cause, told, asked, cache>>
  BY DEF Cancel, Goto
<1>2. pc'[c] = "cancelled"
  BY <1>1 DEF ScaffoldIInv, ScaffoldShape, TypeOK
<1>3. RowSays(c)
  <2>1. {"running", "failed"} \subseteq Statuses
    BY DEF Statuses
  <2>2. CASE row' = row
    BY <2>2 DEF RowSays
  <2> QED
    BY <1>1, <2>1, <2>2, ReportSays DEF ScaffoldIInv
<1>4. OthersStay(c) /\ CacheSound' /\ RowAttended(c)
  BY <1>1 DEF OthersStay, CacheSound, RowAttended, ScaffoldIInv, ScaffoldShape, Ended
<1>5. Budget(c)' /\ ToldWell(c)'
  <2>1. told[c].is # "proposal"
    BY <1>1 DEF ScaffoldIInv, ToldWell, Active, InGraph, Asking
  <2> QED
    BY <1>1, <1>2, <2>1 DEF Budget, ToldWell, ScaffoldIInv, Ended
<1> QED
  BY <1>3, <1>4, <1>5 DEF Moves

LEMMA StoresMoves ==
  ASSUME NEW c \in Calls, ScaffoldIInv, Stores(c)
  PROVE  Moves(c)
<1>1. /\ pc[c] = "done" /\ JobOf[c] # NoJob /\ told[c].is = "proposal"
      /\ row' = [row EXCEPT ![JobOf[c]] = [status |-> "succeeded", ref |-> told[c]]]
      /\ UNCHANGED <<pc, attempts, count, reply, cause, told, asked, cache>>
  BY DEF Stores
<1>2. JobOf[c] \in Jobs
  BY <1>1, ScaffoldAssumption
<1>3. pc' = [pc EXCEPT ![c] = "done"]
  BY <1>1 DEF ScaffoldIInv, ScaffoldShape, TypeOK
<1>4. OthersStay(c) /\ RowSays(c) /\ CacheSound'
  BY <1>1, <1>2, <1>3 DEF OthersStay, RowSays, CacheSound, ScaffoldIInv, ScaffoldShape, Ended
<1>5. Budget(c)' /\ ToldWell(c)' /\ RowAttended(c)
  BY <1>1 DEF Budget, ToldWell, RowAttended, Attends, ScaffoldIInv
<1> QED
  BY <1>4, <1>5 DEF Moves

LEMMA ScaffoldStarts == Init => ScaffoldIInv
<1> SUFFICES ASSUME Init PROVE ScaffoldIInv
  OBVIOUS
<1>1. ScaffoldShape
  <2>1. /\ row = [j \in Jobs |-> row[j]]
        /\ \A j \in Jobs : row[j] = [status |-> row[j].status, ref |-> row[j].ref]
        /\ \A j \in Jobs : row[j].status \in {"queued", "succeeded"}
    BY DEF Init
  <2> QED
    BY <2>1, ScaffoldAssumption DEF Init, ScaffoldShape, TypeOK, Statuses, Untold
<1>2. ASSUME NEW c \in Calls PROVE Budget(c) /\ ToldWell(c)
  <2>1. Rounds(Retries + 1) \in Nat
    BY RoundsGrow, ScaffoldAssumption
  <2> QED
    BY <2>1 DEF Init, Budget, ToldWell, Untold
<1>3. ASSUME NEW j \in Reliable PROVE Attended(j)
  BY ScaffoldAssumption DEF Init, Attended
<1> QED
  BY <1>1, <1>2, <1>3 DEF ScaffoldIInv

LEMMA ScaffoldSteps ==
  ASSUME ScaffoldIInv, [Next]_vars
  PROVE  ScaffoldIInv'
<1>1. CASE UNCHANGED vars
  BY <1>1 DEF vars, ScaffoldIInv, ScaffoldShape, TypeOK, Budget, ToldWell, Attended
<1>2. CASE Expire
  <2>1. UNCHANGED <<pc, attempts, count, reply, cause, told, asked, row>>
        /\ \A e \in cache' : e \in cache
    BY <1>2 DEF Expire
  <2> QED
    BY <2>1 DEF ScaffoldIInv, ScaffoldShape, TypeOK, Budget, ToldWell, Attended
<1>3. ASSUME NEW c \in Calls,
             \/ Replay(c) \/ Start(c) \/ Claim(c) \/ Progress(c) \/ Hit(c) \/ Answered(c) \/ Ask(c)
             \/ NodeRaises(c) \/ Validate(c) \/ Settle(c) \/ TimesOut(c) \/ Failing(c)
             \/ Cancel(c) \/ Stores(c)
      PROVE  ScaffoldIInv'
  <2>1. CASE TimesOut(c)
    <3>1. pc[c] \in InGraph /\ Fails(c, "exception")
          /\ UNCHANGED <<attempts, count, reply, asked, row, cache>>
      BY <2>1 DEF TimesOut
    <3> QED
      BY <3>1, FailsMoves, MovesKeep
  <2>2. CASE Replay(c) \/ Start(c) \/ Claim(c) \/ Progress(c) \/ Hit(c) \/ Answered(c) \/ Ask(c)
    BY <2>2, ReplayMoves, StartMoves, ClaimMoves, ReadMoves, AskMoves, MovesKeep
  <2>3. CASE \/ NodeRaises(c) \/ Validate(c) \/ Settle(c) \/ Failing(c) \/ Cancel(c) \/ Stores(c)
    BY <2>3, RaisesMoves, ValidateMoves, SettleMoves, FailingMoves, CancelMoves, StoresMoves,
       MovesKeep
  <2> QED
    BY <1>3, <2>1, <2>2, <2>3
<1> QED
  BY <1>1, <1>2, <1>3 DEF Next, Run

LEMMA ScaffoldIInvAlways == Spec => []ScaffoldIInv
BY ScaffoldStarts, ScaffoldSteps, PTL DEF Spec

\* Type correctness of the calls, their replies and the rows.
THEOREM ScaffoldTypesHold == Spec => []TypeOK
<1>1. ScaffoldIInv => TypeOK
  BY DEF ScaffoldIInv, ScaffoldShape
<1> QED
  BY <1>1, ScaffoldIInvAlways, PTL

\* The retries of the node and those of the validation, together, never ask
\* the model more often than their product; and a call fails for its replies
\* only when it has made use of all of them.
THEOREM ScaffoldCallsBounded == Spec => []CallsBounded
<1>1. ScaffoldIInv => CallsBounded
  BY DEF ScaffoldIInv, Budget, Rounds, CallsBounded
<1> QED
  BY <1>1, ScaffoldIInvAlways, PTL

\* Whatever reports, retries and cancelled calls of other jobs do, the row of
\* a reliable job that says "running" has a call at work or a proposal that
\* the backend has yet to store.
THEOREM ScaffoldRowNotLeft == Spec => []RowIsNotLeftRunning
<1>1. ScaffoldIInv => RowIsNotLeftRunning
  BY DEF ScaffoldIInv, Attended, RowIsNotLeftRunning
<1> QED
  BY <1>1, ScaffoldIInvAlways, PTL

\* A call is answered only with a proposal the rules find nothing against,
\* through replays, the completion cache and retries; and it fails for its
\* replies only with one that was not usable.
AnswersAreValidated ==
  \A c \in Calls :
    /\ told[c].is = "proposal" => Findings(told[c].proposal) = <<>>
    /\ cause[c] = "reply" => ~Usable(reply[c])

\* Every proposal a call is told was validated as it stands, however it came.
THEOREM ScaffoldAnswersValidated == Spec => []AnswersAreValidated
<1>1. ScaffoldIInv => AnswersAreValidated
  BY DEF ScaffoldIInv, Budget, ToldWell, AnswersAreValidated
<1> QED
  BY <1>1, ScaffoldIInvAlways, PTL

----------------------------------------------------------------------------
(* The calls are told proposals the rules were made for *)

ToldProposals ==
  /\ \A c \in Calls : told[c].is = "proposal" => IsProposal(told[c].proposal)
  /\ \A j \in Jobs : row[j].ref.is = "proposal" => IsProposal(row[j].ref.proposal)

LEMMA ReplyIs ==
  ASSUME ScaffoldShape, NEW c \in Calls, reply[c].is = "proposal"
  PROVE  IsProposal(reply[c].proposal)
<1>1. reply[c] \in Replies[RequestOf[c]]
  BY DEF ScaffoldShape, TypeOK, NoReply
<1> QED
  BY <1>1, ScaffoldAssumption

\* A report changes nothing of what a row refers to.
LEMMA ReportKeepsRefs ==
  ASSUME ScaffoldShape, NEW c \in Calls, NEW s, Report(c, s), NEW j \in Jobs
  PROVE  row'[j].ref = row[j].ref
<1>1. CASE row' = row
  BY <1>1
<1>2. CASE row' = [row EXCEPT ![JobOf[c]].status = s]
  <2>1. row = [i \in Jobs |-> row[i]] /\ row[j] = [status |-> row[j].status, ref |-> row[j].ref]
    BY DEF ScaffoldShape
  <2>2. CASE JobOf[c] # j
    BY <1>2, <2>1, <2>2
  <2>3. CASE JobOf[c] = j
    <3> DEFINE x == row[j]
    <3>1. row'[j] = [x EXCEPT !.status = s]
      BY <1>2, <2>1, <2>3
    <3>2. x = [status |-> x.status, ref |-> x.ref]
      BY <2>1
    <3> HIDE DEF x
    <3>3. row'[j].ref = x.ref
      BY <3>1, <3>2
    <3> QED
      BY <3>3 DEF x
  <2> QED
    BY <2>2, <2>3
<1> QED
  BY <1>1, <1>2 DEF Report

LEMMA ToldProposalsStart == Init => ToldProposals
<1> SUFFICES ASSUME Init PROVE ToldProposals
  OBVIOUS
<1>1. ASSUME NEW c \in Calls PROVE told[c].is # "proposal"
  BY DEF Init, Untold
<1>2. ASSUME NEW j \in Jobs, row[j].ref.is = "proposal" PROVE IsProposal(row[j].ref.proposal)
  <2>1. row[j] \in {[status |-> "queued", ref |-> NoReply]}
                     \cup {[status |-> "succeeded", ref |-> s] : s \in Stored}
    BY DEF Init
  <2>2. row[j].ref = NoReply \/ row[j].ref \in Stored
    BY <2>1
  <2> QED
    BY <1>2, <2>2, ScaffoldAssumption DEF NoReply
<1> QED
  BY <1>1, <1>2 DEF ToldProposals

LEMMA ToldProposalsStep ==
  ASSUME ScaffoldIInv, ToldProposals, [Next]_vars
  PROVE  ToldProposals'
<1>1. told = [c \in Calls |-> told[c]] /\ row = [j \in Jobs |-> row[j]]
  BY DEF ScaffoldIInv, ScaffoldShape
<1>2. CASE UNCHANGED <<told, row>>
  BY <1>2 DEF ToldProposals
<1>3. ASSUME NEW c \in Calls, NEW s, Report(c, s),
             told' = told \/ told' = [told EXCEPT ![c] = Raised]
      PROVE  ToldProposals'
  <2>1. \A j \in Jobs : row'[j].ref = row[j].ref
    BY <1>3, ReportKeepsRefs DEF ScaffoldIInv
  <2>2. \A d \in Calls : told'[d] = told[d] \/ told'[d] = Raised
    BY <1>1, <1>3
  <2>3. Raised.is # "proposal"
    BY DEF Raised
  <2> QED
    BY <2>1, <2>2, <2>3 DEF ToldProposals
<1>4. ASSUME NEW c \in Calls, NEW p, IsProposal(p), told' = [told EXCEPT ![c] = Proposed(p)], row' = row
      PROVE  ToldProposals'
  <2>1. \A d \in Calls : told'[d] = told[d] \/ told'[d] = Proposed(p)
    BY <1>1, <1>4
  <2> QED
    BY <1>4, <2>1, ProposedIs DEF ToldProposals
<1>5. ASSUME NEW c \in Calls, Replay(c) PROVE ToldProposals'
  <2>1. /\ JobOf[c] \in Jobs /\ Usable(row[JobOf[c]].ref) /\ row' = row
        /\ told' = [told EXCEPT ![c] = Proposed(row[JobOf[c]].ref.proposal)]
    BY <1>5, ScaffoldAssumption DEF Replay
  <2>2. IsProposal(row[JobOf[c]].ref.proposal)
    BY <2>1, UsableIs DEF ToldProposals
  <2> QED
    BY <1>4, <2>1, <2>2
<1>6. ASSUME NEW c \in Calls, Settle(c) PROVE ToldProposals'
  <2>1. CASE Usable(reply[c])
    <3>1. told' = [told EXCEPT ![c] = Proposed(reply[c].proposal)] /\ row' = row
      BY <1>6, <2>1 DEF Settle
    <3>2. IsProposal(reply[c].proposal)
      BY <2>1, UsableIs, ReplyIs DEF ScaffoldIInv
    <3> QED
      BY <1>4, <3>1, <3>2
  <2>2. CASE ~Usable(reply[c])
    BY <1>2, <1>6, <2>2 DEF Settle, Fails
  <2> QED
    BY <2>1, <2>2
<1>7. ASSUME NEW c \in Calls, Stores(c) PROVE ToldProposals'
  <2>1. /\ JobOf[c] \in Jobs /\ told[c].is = "proposal" /\ told' = told
        /\ row' = [row EXCEPT ![JobOf[c]] = [status |-> "succeeded", ref |-> told[c]]]
    BY <1>7, ScaffoldAssumption DEF Stores
  <2>2. \A j \in Jobs : row'[j] = row[j] \/ row'[j].ref = told[c]
    BY <1>1, <2>1
  <2> QED
    BY <2>1, <2>2 DEF ToldProposals
<1>8. ASSUME NEW c \in Calls, Claim(c) \/ Progress(c) \/ Failing(c) \/ Cancel(c)
      PROVE  ToldProposals'
  <2>1. told' = told \/ told' = [told EXCEPT ![c] = Raised]
    BY <1>8 DEF Claim, Progress, Failing, Cancel
  <2>2. Report(c, "running") \/ Report(c, "failed") \/ row' = row
    BY <1>8 DEF Claim, Progress, Failing, Cancel
  <2>3. CASE told' = told /\ row' = row
    BY <1>2, <2>3
  <2>4. Report(c, "running") \/ Report(c, "failed") \/ (told' = told /\ row' = row)
    BY <1>8 DEF Claim, Progress, Failing, Cancel
  <2> QED
    BY <1>3, <2>1, <2>3, <2>4
<1>9. ASSUME NEW c \in Calls,
             Start(c) \/ Hit(c) \/ Ask(c) \/ Answered(c) \/ NodeRaises(c) \/ Validate(c) \/ TimesOut(c)
      PROVE  ToldProposals'
  <2>1. UNCHANGED <<told, row>>
    BY <1>9 DEF Start, Hit, Ask, Answered, NodeRaises, Validate, TimesOut, Fails
  <2> QED
    BY <1>2, <2>1
<1>10. CASE Expire
  BY <1>2, <1>10 DEF Expire
<1>11. CASE UNCHANGED vars
  BY <1>2, <1>11 DEF vars
<1> QED
  BY <1>5, <1>6, <1>7, <1>8, <1>9, <1>10, <1>11 DEF Next, Run

\* What a call is told is a course tree, and a call that fails for a reply
\* that was a proposal was right to turn it down: for every proposal, since
\* the rules find nothing against one exactly when it is a course tree.
THEOREM ScaffoldAnswersAreTrees == Spec => []AnswersAreTrees
<1>1. ScaffoldIInv /\ ToldProposals => AnswersAreTrees
  <2> SUFFICES ASSUME ScaffoldIInv, ToldProposals, NEW c \in Calls
               PROVE  /\ told[c].is = "proposal" => IsCourseTree(told[c].proposal)
                      /\ cause[c] = "reply" /\ reply[c].is = "proposal" /\ ~HasBodies(reply[c]) =>
                           ~IsCourseTree(reply[c].proposal)
    BY DEF AnswersAreTrees
  <2>1. ASSUME told[c].is = "proposal" PROVE IsCourseTree(told[c].proposal)
    BY <2>1, FoundNothing DEF ScaffoldIInv, ToldWell, ToldProposals
  <2>2. ASSUME cause[c] = "reply", reply[c].is = "proposal", ~HasBodies(reply[c])
        PROVE  ~IsCourseTree(reply[c].proposal)
    <3>1. IsProposal(reply[c].proposal)
      BY <2>2, ReplyIs DEF ScaffoldIInv
    <3>2. ~Usable(reply[c])
      BY <2>2 DEF ScaffoldIInv, Budget
    <3>3. Errors(reply[c]) # <<>> /\ Errors(reply[c]) = Findings(reply[c].proposal)
      BY <2>2, <3>2 DEF Usable, Errors
    <3> QED
      BY <3>1, <3>3, FoundNothing
  <2> QED
    BY <2>1, <2>2
<1>2. Init => ToldProposals
  BY ToldProposalsStart
<1>3. ScaffoldIInv /\ ToldProposals /\ [Next]_vars => ToldProposals'
  BY ToldProposalsStep
<1> QED
  BY <1>1, <1>2, <1>3, ScaffoldIInvAlways, PTL DEF Spec
===========================================================================
