---------------------------- MODULE ContentBlocks ----------------------------
(***************************************************************************)
(* domain/content_blocks.py: validate_content_blocks reads a lesson's      *)
(* markdown line by line and judges the edtech blocks in it.  A block goes *)
(* from an edtech fence to the next fence, of any kind.                    *)
(*                                                                         *)
(* A line is what the regular expressions of the module make of it.        *)
(***************************************************************************)
EXTENDS Naturals, Sequences

VARIABLES doc,      \* the lines read so far
          open,     \* the number of the line open_fence is on, 0 for None
          body,     \* the lines since
          findings  \* the opening lines of the blocks found wrong

blockVars == <<doc, open, body, findings>>

Plain == {"blank", "prose", "row"}  \* "row" is term | subtitle
Opening == {"tip", "tip without tone", "vocabulary", "educator notes",
            "visualizer", "unknown visualizer", "unknown block"}
Fences == Opening \cup {"other fence"}
Lines == Plain \cup Fences

BlocksInit == doc = <<>> /\ open = 0 /\ body = <<>> /\ findings = {}

\* _validate_block: an opening line, and the body up to the next fence.
BlockOk(kind, lines) ==
  LET written == {lines[i] : i \in 1..Len(lines)} \ {"blank"} IN
  \/ kind = "visualizer"
  \/ kind \in {"tip", "educator notes"} /\ written # {}
  \/ kind = "vocabulary" /\ written = {"row"}

\* The open block ends.
Judged == IF BlockOk(doc[open], body) THEN findings ELSE findings \cup {open}

\* Mutant: an edtech fence within an open block is taken for its end.
ReadFenceClosing(l) ==
  /\ l \in Fences
  /\ findings' = IF open = 0 THEN findings ELSE Judged
  /\ open' = IF l \in Opening /\ open = 0 THEN Len(doc) + 1 ELSE 0
  /\ body' = <<>>

\* A fence ends the block that is open, and opens one if it is an edtech fence.
ReadFence(l) ==
  /\ l \in Fences
  /\ findings' = IF open = 0 THEN findings ELSE Judged
  /\ open' = IF l \in Opening THEN Len(doc) + 1 ELSE 0
  /\ body' = <<>>

ReadPlain(l) ==
  /\ l \in Plain
  /\ body' = IF open = 0 THEN body ELSE Append(body, l)
  /\ UNCHANGED <<open, findings>>

\* One turn of the loop.
ReadLine(l) ==
  /\ doc' = Append(doc, l)
  /\ ReadPlain(l) \/ ReadFence(l)

\* After the last line, a block that is still open is an error too.
BlockErrors == IF open = 0 THEN findings ELSE findings \cup {open}

BlocksNext == \E l \in Lines : ReadLine(l)
BlocksSpec == BlocksInit /\ [][BlocksNext]_blockVars

----------------------------------------------------------------------------
(* Properties *)

NoFenceIn(d, i, j) == \A k \in i..j : d[k] \notin Fences

\* The block that line i of d opens: closed by the next fence, and in order.
GoodBlock(d, i) ==
  \E j \in i + 1..Len(d) :
    /\ d[j] \in Fences /\ NoFenceIn(d, i + 1, j - 1)
    /\ BlockOk(d[i], SubSeq(d, i + 1, j - 1))

\* Whatever was read, the report names the blocks that are not closed or not
\* in order, all of them and nothing else (validate_content_blocks).
BlocksAreJudged ==
  BlockErrors = {i \in 1..Len(doc) : doc[i] \in Opening /\ ~GoodBlock(doc, i)}
===============================================================================
