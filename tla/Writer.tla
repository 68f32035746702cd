------------------------------- MODULE Writer -------------------------------
(***************************************************************************)
(* YMLWriteStream and YMLWriteBuf (YMLWriter.c): a tree becomes text, in a *)
(* stream or in a buffer that may be too small.  The activations of        *)
(* _yml_write_node are a stack; a step is one node's text or one child's   *)
(* prefix, made of the pieces handed to _yml_emit one after the other.     *)
(***************************************************************************)
EXTENDS Chars

CONSTANT Jobs    \* families of calls: [tree, indent, start, cap]

VARIABLES
  tree,     \* the value to write: [type, text, kids], see Leaf
  ctx,      \* the _YMLWriteCtx: [indent, emit_start, cap, buf, ok]
  work,     \* activations: [node, depth, left], left the kids still to write
  result,   \* what _YMLWriteBuf returned
  pc

wvars == <<tree, ctx, work, result, pc>>

(***************************************************************************)
(* Trees.  A scalar's text is what is to be written: for a string its      *)
(* characters, for a number the digits printf makes of it.                 *)
(***************************************************************************)
Leaf(type, text) == [type |-> type, text |-> text, kids |-> <<>>]
Node(type, kids)    == [type |-> type, text |-> <<>>, kids |-> kids]
Pair(key, node)     == [key |-> key, node |-> node]

is_collection(v) == v.type \in {"arr", "obj"}
IsEmpty(v)       == is_collection(v) /\ v.kids = <<>>
Stream           == -1      \* the cap of a FILE: there is always room

(* _yml_emit: all of s and a byte for the '\0' have room, or nothing is    *)
(* written, now or later.                                                  *)
EmitsOn(c, s) ==                                                 \* mutant
  IF c.cap # Stream /\ Len(c.buf) + Len(s) + 1 > c.cap
  THEN [c EXCEPT !.ok = 1] ELSE [c EXCEPT !.buf = @ \o s]
NoRoomForEnd(c, s) ==                                            \* mutant
  CASE c.ok # 0 -> c
    [] c.ok = 0 /\ c.cap # Stream /\ Len(c.buf) + Len(s) > c.cap -> [c EXCEPT !.ok = 1]
    [] OTHER -> [c EXCEPT !.buf = @ \o s]
_yml_emit(c, s) ==
  CASE c.ok # 0 -> c
    [] c.ok = 0 /\ c.cap # Stream /\ Len(c.buf) + Len(s) + 1 > c.cap ->
         [c EXCEPT !.ok = 1]
    [] OTHER -> [c EXCEPT !.buf = @ \o s]

(* One piece after the other. *)
Emitted(c, pieces) ==
  LET e[k \in 0..Len(pieces)] == IF k = 0 THEN c ELSE _yml_emit(e[k - 1], pieces[k])
  IN e[Len(pieces)]
Emit(pieces) == ctx' = Emitted(ctx, pieces)

(* _yml_needs_quotes. *)
Leading == {"-", ":", "?", "#", "&", "*", "!", "|", ">", "'", "\"", "%", "@",
            Chr(96), "[", "{", ","}
Below32 == {Chr(b) : b \in 1..31}
Words   == {<<"n", "u", "l", "l">>, <<"~">>, <<"t", "r", "u", "e">>,
            <<"f", "a", "l", "s", "e">>, <<".", "i", "n", "f">>, <<"-", ".", "i", "n", "f">>,
            <<".", "n", "a", "n">>, <<".", "I", "n", "f">>, <<".", "N", "a", "N">>,
            <<".", "I", "N", "F">>}

_yml_needs_quotes(s) ==
  \/ s = <<>>
  \/ s[1] \in Blank \cup Leading
  \/ \E i \in DOMAIN s : \/ s[i] \in Below32
                         \/ s[i] = ":" /\ CharAt(s, i + 1) \in {" ", Nul}
                         \/ s[i] = " " /\ CharAt(s, i + 1) = "#"
  \/ s \in Words

(* _yml_write_string. *)
Escape == [c \in {"\"", "\\", "\n", "\r", "\t"} |->
             <<"\\", CASE c = "\n" -> "n" [] c = "\r" -> "r" [] c = "\t" -> "t"
                       [] OTHER -> c>>]
QuotesOnly(s) ==                                                 \* mutant
  IF ~_yml_needs_quotes(s) THEN <<s>> ELSE <<<<"\"">>, s, <<"\"">>>>
_yml_write_string(s) ==
  IF ~_yml_needs_quotes(s) THEN <<s>>
  ELSE <<<<"\"">>>>
       \o [i \in DOMAIN s |-> IF s[i] \in DOMAIN Escape THEN Escape[s[i]] ELSE <<s[i]>>]
       \o <<<<"\"">>>>

Literal(v) ==
  CASE v.type = "null"           -> <<<<"n", "u", "l", "l">>>>
    [] v.type = "str"            -> _yml_write_string(v.text)
    [] v.type = "arr"            -> <<<<"[", "]">>>>
    [] v.type = "obj"            -> <<<<"{", "}">>>>
    [] v.type \in {"bool", "int", "float"} -> <<v.text>>

(***************************************************************************)
(* _yml_write_node.                                                        *)
(***************************************************************************)
Newline   == <<<<"\n">>>>
Indent(d) == [i \in 1..d * ctx.indent |-> <<" ">>]

Act(v, depth) == [node |-> v, depth |-> depth, left |-> DOMAIN v.kids]
Doing     == Head(work)
Kid(i)   == Doing.node.kids[i]
Deeper(v, d) == IF is_collection(v) THEN d + 1 ELSE d

(* Kid i of the activation on top: what stands before it, then its own. *)
Enter(i, prefix) ==
  LET v == Kid(i).node
      d == Doing.depth
  IN /\ i \in Doing.left
     /\ Emit(Newline \o Indent(d) \o prefix)
     /\ work' = <<Act(v, Deeper(v, d)), [Doing EXCEPT !.left = @ \ {i}]>> \o Tail(work)
     /\ UNCHANGED <<tree, result, pc>>

Writing(type) == pc = "write" /\ work # <<>> /\ Doing.node.type = type /\ Doing.left # {}

WriteElem == Writing("arr") /\ Enter(Min(Doing.left), <<<<"-", " ">>>>)

(* hm_next decides which pair is next. *)
WritePair ==
  /\ Writing("obj")
  /\ \E i \in Doing.left :
       Enter(i, _yml_write_string(Kid(i).key) \o <<<<":">>>>
                \o (IF is_collection(Kid(i).node) THEN <<>> ELSE <<<<" ">>>>))

WriteScalar ==
  /\ pc = "write" /\ work # <<>>
  /\ Doing.node.kids = <<>>
  /\ Emit(Literal(Doing.node))
  /\ work' = Tail(work)
  /\ UNCHANGED <<tree, result, pc>>

WriteLeave ==
  /\ pc = "write" /\ work # <<>>
  /\ Doing.left = {} /\ Doing.node.kids # <<>>
  /\ work' = Tail(work)
  /\ UNCHANGED <<tree, ctx, result, pc>>

(***************************************************************************)
(* _yml_write, called by both public functions.                            *)
(***************************************************************************)
BytesWritten(c) == IF c.ok # 0 THEN -1 ELSE Len(c.buf)

WInit ==
  /\ \E S \in Jobs : \E j \in S :
       /\ tree = j.tree
       /\ ctx = [indent |-> IF j.indent > 0 THEN j.indent ELSE 2,
                 emit_start |-> j.start, cap |-> j.cap, buf |-> <<>>, ok |-> 0]
  /\ work = <<>>
  /\ result = 0
  /\ pc = "call"

Marker == IF ctx.emit_start THEN <<<<"-", "-", "-">>>> ELSE <<>>
OwnLine == IF ctx.emit_start THEN Newline ELSE <<>>

(* The kids of a collection start their own lines; anything else needs one *)
(* after the marker.                                                       *)
WriteStart ==
  /\ pc = "call" /\ ~IsEmpty(tree)
  /\ Emit(Marker \o (IF is_collection(tree) THEN <<>> ELSE OwnLine))
  /\ work' = <<Act(tree, 0)>>
  /\ pc' = "write"
  /\ UNCHANGED <<tree, result>>

WriteEmpty ==
  /\ pc = "call" /\ IsEmpty(tree)
  /\ Emit(Marker \o OwnLine \o <<Literal(tree)[1] \o <<"\n">>>>)
  /\ result' = BytesWritten(ctx')
  /\ pc' = "written"
  /\ UNCHANGED <<tree, work>>

WriteEnd ==
  /\ pc = "write" /\ work = <<>>
  /\ Emit(Newline)
  /\ result' = BytesWritten(ctx')
  /\ pc' = "written"
  /\ UNCHANGED <<tree, work>>

WNext == \/ WriteStart \/ WriteEmpty \/ WriteElem \/ WritePair \/ WriteScalar
         \/ WriteLeave \/ WriteEnd
=============================================================================
