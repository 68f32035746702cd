----------------------------- MODULE WriterProps -----------------------------
(***************************************************************************)
(* What YMLWriteBuf promises of the buffer and of its result.              *)
(***************************************************************************)
EXTENDS Writer, Totals

CONSTANT MaxDepth    \* how deep the trees are that are written

(* Trees[h] are the values no more than h levels deep.                     *)
Grown(T) ==
  [type: {"null", "str", "bool", "int", "float"}, text: Seq(STRING), kids: {<<>>}]
  \cup [type: {"arr", "obj"}, text: {<<>>}, kids: Seq([key: Seq(STRING), node: T])]
Trees == LET t[h \in 0..MaxDepth] == IF h = 0 THEN {} ELSE Grown(t[h - 1]) IN t

ASSUME JobsAssumption ==
  /\ MaxDepth \in Nat
  /\ \A S \in Jobs : \A j \in S : /\ j.tree \in Trees[MaxDepth] /\ j.indent \in Int
                                 /\ j.start \in BOOLEAN /\ j.cap \in Nat \cup {Stream}

(* How long the text of a tree is, whatever the order of its pairs.        *)
Length(pieces) == Total([k \in DOMAIN pieces |-> Len(pieces[k])])
LineStart(t, i, d, indent) ==      \* what stands before kid i
  1 + d * indent
    + (IF t.type = "arr" THEN 2
       ELSE Length(_yml_write_string(t.kids[i].key))
              + (IF is_collection(t.kids[i].node) THEN 1 ELSE 2))
Line(t, i, d, indent, size) ==
  LineStart(t, i, d, indent) + size[t.kids[i].node][Deeper(t.kids[i].node, d)]
Size(indent) ==
  LET size[h \in 0..MaxDepth] ==
        IF h = 0 THEN <<>>
        ELSE [t \in Trees[h] |-> [d \in Nat |->
               IF t.kids = <<>> THEN Length(Literal(t))
               ELSE Total([i \in DOMAIN t.kids |-> Line(t, i, d, indent, size[h - 1])])]]
  IN size
Whole == (IF ctx.emit_start THEN 3 ELSE 0) + Size(ctx.indent)[MaxDepth][tree][0] + 1
         + (IF ctx.emit_start /\ tree.kids = <<>> THEN 1 ELSE 0)

(* The buffer holds all of the text and its '\0', or the call says so; it  *)
(* is never overrun on the way (_yml_emit).                                *)
BufferHolds ==
  /\ ctx.cap # Stream /\ ctx.buf # <<>> => Len(ctx.buf) < ctx.cap
  /\ pc \notin {"call", "write"} =>
       IF ctx.cap # Stream /\ Whole >= ctx.cap THEN result = -1 ELSE result = Whole

(* Once a piece did not fit, no later, shorter one is written: what is in  *)
(* the buffer is the beginning of the text.                                *)
NothingAfterOverflow == [][ctx.ok # 0 => ctx'.buf = ctx.buf /\ ctx'.ok # 0]_wvars
=============================================================================
