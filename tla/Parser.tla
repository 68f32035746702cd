------------------------------- MODULE Parser -------------------------------
(***************************************************************************)
(* The recursive-descent parser of YMLParser.c: _YMLParse and              *)
(* _YMLParseStream over an array of tokens, with the C call stack made     *)
(* explicit.  A frame is one activation of parse_node or of one of the     *)
(* four collection functions; a step is the straight-line code between two *)
(* calls or two tests of a loop.  The heap is a ledger: how many blocks    *)
(* each allocator has handed out and not got back.                         *)
(***************************************************************************)
EXTENDS YMLValue, Totals, FiniteSetsExt, SequencesExt

CONSTANTS
  Inputs,      \* the token arrays lex may return
  Modes,       \* subset of {"parse", "stream"}: the function the client calls
  Allocators,  \* subset of {"malloc", "custom"}: what the client passes
  MaxDocs,     \* bound: documents a stream result holds
  MaxFaults    \* bound: allocations that fail during the call

TokenTypes == {"DOC_START", "DOC_END", "SEQ_ENTRY", "MAP_KEY", "MAP_VAL",
               "FLOW_SEQ_START", "FLOW_SEQ_END", "FLOW_MAP_START",
               "FLOW_MAP_END", "FLOW_ENTRY", "SCALAR", "ANCHOR", "ALIAS",
               "TAG", "EOF"}

(* A scalar token's kind is what its text and style make of it: the type   *)
(* infer_scalar finds for a plain one, "str" for a quoted one, and "block" *)
(* for | and >, whose text sits in a buffer the lexer took from malloc.    *)
Kinds == {"null", "bool", "int", "float", "str", "block", "none"}

(* lex ends its array with the only EOF (_lexer.c: the loop's one break).  *)
ASSUME InputsAssumption ==
  \A toks \in Inputs :
    /\ toks \in Seq([type : TokenTypes, line : Nat, col : Nat,
                     kind : Kinds, val : STRING])
    /\ Len(toks) > 0
    /\ \A i \in 1..Len(toks) : toks[i].type = "EOF" <=> i = Len(toks)

ASSUME ParametersAssumption ==
  /\ Modes \subseteq {"parse", "stream"}
  /\ Allocators \subseteq {"malloc", "custom"}
  /\ MaxDocs \in Nat
  /\ MaxFaults \in Nat

VARIABLES
  tokens,   \* p->tokens
  pos,      \* p->pos, 1-based
  stack,    \* the activations of parse_node and the collection functions
  ret,      \* what the last one to finish returned
  ok, err,  \* p->ok and p->error
  anchors,  \* p->anchors: [name, node, at], at being where it was defined
  docs,     \* the documents handed to the client
  pc,       \* where the driver is
  mode, alloc, faults, live

vars == <<tokens, pos, stack, ret, ok, err, anchors, docs, pc, mode, alloc,
          faults, live>>

None    == "none"
NullKey == "NULL"      \* the key pointer a failed token_strdup leaves

Cur      == tokens[pos]
Ahead(n) == tokens[pos + n]

(* advance() from position p: nothing moves the cursor past EOF.  (Where a *)
(* guard excludes EOF, a plain pos + 1 stands for it.)                     *)
AdvanceForgotten(p) == p                                         \* mutant
Advance(p) == IF tokens[p].type = "EOF" THEN p ELSE p + 1

(* A scalar with its ':' on the same line opens, or goes on with, a block  *)
(* mapping.                                                                *)
ImplicitKey == /\ Cur.type = "SCALAR"
               /\ Ahead(1).type = "MAP_VAL"
               /\ Ahead(1).line = Cur.line

(***************************************************************************)
(* Activations: "node" is parse_node; "fseq", "fmap", "bseq" and "bmap"    *)
(* are the collection functions.  col is min_indent or indent, at the      *)
(* position of the call, work what apply_merge has still to walk.          *)
(***************************************************************************)
Flow  == {"fseq", "fmap"}
Block == {"bseq", "bmap"}

Frame(fn, col, at) ==
  [fn |-> fn, lc |-> "enter", col |-> col, at |-> at, v |-> Nil, key |-> "",
   tag |-> None, anchor |-> None, work |-> <<>>]

Top        == stack[Len(stack)]
Goto(l)    == [Top EXCEPT !.lc = l]
SetTop(f)  == stack' = [stack EXCEPT ![Len(stack)] = f]
At(fn, lc) == /\ pc = "parsing"
              /\ stack # <<>>
              /\ Top.fn = fn
              /\ Top.lc = lc

Call(f, fn, col, at) ==
  stack' = Append([stack EXCEPT ![Len(stack)] = f], Frame(fn, col, at))
Return(v) == /\ stack' = SubSeq(stack, 1, Len(stack) - 1)
             /\ ret' = v

(***************************************************************************)
(* Errors, allocation failures and the ledger.                             *)
(***************************************************************************)
ErrorCount(msg)  == ok' = ok + 1 /\ err' = msg                    \* mutant
parse_error(msg) == ok' = 1 /\ err' = msg
NoError          == UNCHANGED <<ok, err>>

(* Which of the n allocations of a step fails, if any does (0: none).      *)
FailAt(n) == IF faults < MaxFaults THEN 0..n ELSE {0}
Fault(f)  == faults' = IF f = 0 THEN faults ELSE faults + 1

(* n blocks taken from (given back to, when negative) the client's         *)
(* allocator, m from or to malloc.                                         *)
Heap(n, m) ==
  live' = [a \in {"malloc", "custom"} |->
             live[a] + (IF a = alloc THEN n ELSE 0)
                     + (IF a = "malloc" THEN m ELSE 0)]

(* What no step inside the descent touches; what a step leaves alone that  *)
(* meets no error and no failure; that also leaves values alone.           *)
Keep  == UNCHANGED <<tokens, docs, pc, mode, alloc>>
Quiet == Keep /\ NoError /\ UNCHANGED faults
Idle  == Quiet /\ UNCHANGED <<ret, anchors, live>>

(***************************************************************************)
(* parse_node.                                                             *)
(***************************************************************************)
(* Entry: nothing is read after an error; else an optional tag, then an    *)
(* optional anchor, in this order only.                                    *)
NodeProps ==
  /\ At("node", "enter")
  /\ LET p1 == IF Cur.type = "TAG" THEN pos + 1 ELSE pos
         p2 == IF tokens[p1].type = "ANCHOR" THEN p1 + 1 ELSE p1
     IN IF ok # 0
        THEN Return(Nil) /\ UNCHANGED pos
        ELSE /\ pos' = p2
             /\ SetTop([Top EXCEPT
                  !.lc     = "dispatch",
                  !.tag    = IF p1 > pos THEN Cur.val ELSE None,
                  !.anchor = IF p2 > p1 THEN tokens[p1].val ELSE None])
             /\ UNCHANGED ret
  /\ Quiet /\ UNCHANGED <<anchors, live>>

(* anchor_find: the first entry of that name, whatever came later. *)
FirstAnchor(name) ==
  LET hits == {i \in DOMAIN anchors : anchors[i].name = name}
  IN IF hits = {} THEN Nil ELSE anchors[Min(hits)].node

(* A node without kids to parse: v, from a step with n allocations; the    *)
(* first is the shell, whose failure leaves no value to return.            *)
Leaf(v, n) ==
  \E f \in FailAt(n) :
    /\ Fault(f)
    /\ ret' = CASE f = 0 -> v
                [] f = 1 -> Nil
                [] OTHER -> NullString
    /\ SetTop(Goto("tail"))

(* An alias becomes a deep copy of the anchored node, with blocks of its   *)
(* own.                                                                    *)
SamePointer == 0                                                 \* mutant
Copied      == Blocks(ret')

NodeAlias ==
  /\ At("node", "dispatch")
  /\ Cur.type = "ALIAS"
  /\ FirstAnchor(Cur.val) # Nil
  /\ Leaf(FirstAnchor(Cur.val), 1)
  /\ Heap(Copied, 0)
  /\ pos' = pos + 1
  /\ Keep /\ NoError /\ UNCHANGED anchors

NodeUnknownAlias ==
  /\ At("node", "dispatch")
  /\ Cur.type = "ALIAS"
  /\ FirstAnchor(Cur.val) = Nil
  /\ parse_error("unknown alias")
  /\ Return(Nil)
  /\ Keep /\ UNCHANGED <<pos, anchors, faults, live>>

(* A flow collection is entered whatever its column; a block collection    *)
(* takes the column of its first token as its indent.                      *)
NodeCollection ==
  /\ At("node", "dispatch")
  /\ \/ Cur.type = "FLOW_SEQ_START" /\ Call(Goto("tail"), "fseq", 0, pos)
     \/ Cur.type = "FLOW_MAP_START" /\ Call(Goto("tail"), "fmap", 0, pos)
     \/ /\ Cur.col >= Top.col
        /\ \/ /\ Cur.type = "SEQ_ENTRY"
              /\ Call(Goto("tail"), "bseq", Cur.col, pos)
           \/ /\ Cur.type = "MAP_KEY" \/ ImplicitKey
              /\ Call(Goto("tail"), "bmap", Cur.col, pos)
  /\ Idle /\ UNCHANGED pos

(* parse_scalar.  The lexer's buffer of a block scalar is given back with  *)
(* the parser's allocator, and without a shell not at all.                 *)
NodeScalar ==
  /\ At("node", "dispatch")
  /\ Cur.type = "SCALAR" /\ ~ImplicitKey
  /\ Cur.col >= Top.col
  /\ LET isstr == Cur.kind \in {"str", "block"}
     IN Leaf(Scalar(IF isstr THEN "str" ELSE Cur.kind, Cur.val),
             IF isstr THEN 2 ELSE 1)
  /\ Heap(Blocks(ret')
            - (IF Cur.kind = "block" /\ ret' # Nil THEN 1 ELSE 0), 0)
  /\ IF ret' = Nil THEN parse_error("OOM") ELSE NoError
  /\ pos' = pos + 1
  /\ Keep /\ UNCHANGED anchors

(* Anything else is an empty node: the end of the input or of the document,*)
(* a shallower block token, and also a token no node can start with.       *)
NodeEmpty ==
  /\ At("node", "dispatch")
  /\ Cur.type \notin {"ALIAS", "FLOW_SEQ_START", "FLOW_MAP_START"}
  /\ Cur.type \in {"SEQ_ENTRY", "MAP_KEY", "SCALAR"} => Cur.col < Top.col
  /\ Leaf(NullValue, 1)
  /\ Heap(Blocks(ret'), 0)
  /\ Keep /\ NoError /\ UNCHANGED <<pos, anchors>>

NodeNoValue ==
  /\ At("node", "tail")
  /\ ret = Nil
  /\ parse_error("OOM")
  /\ Return(Nil)
  /\ Keep /\ UNCHANGED <<pos, anchors, faults, live>>

(* strtoll or strcmp of a NULL string: the process dies. *)
TagReadsNull == IsNullString(ret) /\ Top.tag \in {"int", "bool"}
Crash == /\ pc' = "crashed"
         /\ UNCHANGED <<tokens, pos, stack, ret, ok, err, anchors, docs, mode,
                        alloc, faults, live>>
TagCrash == At("node", "tail") /\ TagReadsNull /\ Crash

(* Exit: the tag converts the value and the anchor keeps a deep copy, even *)
(* of a value that came with an error.  Failures to copy the tag's string  *)
(* (1), the anchor's name (2) or its node (3) go unreported.               *)
NodeTail ==
  /\ At("node", "tail")
  /\ ret # Nil /\ ~TagReadsNull
  /\ \E f \in FailAt(3) :
       LET tagged == Top.tag # None
           named  == Top.anchor # None /\ f # 2
           cost   == IF tagged /\ f # 1 THEN TagCost(ret, Top.tag) ELSE 0
           v      == CASE f = 1 -> NullString
                       [] f # 1 /\ tagged -> ApplyTag(ret, Top.tag)
                       [] OTHER -> ret
           copy   == IF f = 3 THEN Nil ELSE v
           entry  == [name |-> Top.anchor, node |-> copy, at |-> pos]
       IN /\ f = 1 => tagged /\ TagCost(ret, Top.tag) = 1
          /\ f \in {2, 3} => Top.anchor # None
          /\ Fault(f)
          /\ anchors' = IF named THEN Append(anchors, entry) ELSE anchors
          /\ Heap(cost + (IF named THEN 1 + Blocks(copy) ELSE 0), 0)
          /\ Return(v)
  /\ Keep /\ NoError /\ UNCHANGED pos

(***************************************************************************)
(* What the collection functions share.                                    *)
(***************************************************************************)
Empty(fn) == IF fn \in {"fseq", "bseq"} THEN EmptyArray ELSE EmptyMap

(* A flow collection steps over its bracket.  A mapping allocates its hash *)
(* map before the shell and checks both at once: one failing loses the     *)
(* other.                                                                  *)
Enter(fn) ==
  /\ At(fn, "enter")
  /\ pos' = IF fn \in Flow THEN Advance(pos) ELSE pos
  /\ \E f \in FailAt(IF Empty(fn) = EmptyMap THEN 2 ELSE 1) :
       /\ Fault(f)
       /\ IF f = 0
          THEN /\ SetTop([Top EXCEPT !.lc = "loop", !.v = Empty(fn)])
               /\ Heap(Blocks(Empty(fn)), 0)
               /\ NoError /\ UNCHANGED ret
          ELSE /\ parse_error("OOM")
               /\ Return(Nil)
               /\ Heap(CASE Empty(fn) = EmptyArray -> 0
                         [] f = 1 -> 1
                         [] f = 2 -> EmptyMap.own, 0)
  /\ Keep /\ UNCHANGED anchors

(* What ends a loop after parse_node, and how: the pointer to whatever     *)
(* came back with the error is dropped.                                    *)
NoValue  == ret = Nil                                            \* mutant
Failed   == ok # 0 \/ ret = Nil
Continue == SetTop(Goto("loop"))                                 \* mutant
Break    == SetTop(Goto("close"))

(* An element moves into the array. *)
PushElem(fn) ==
  /\ At(fn, "elem")
  /\ IF Failed
     THEN Break /\ UNCHANGED live
     ELSE /\ SetTop([Top EXCEPT !.lc = "loop", !.v = Push(@, ret)])
          /\ Heap(PushCost(Top.v, ret) - 1, 0)
  /\ Quiet /\ UNCHANGED <<pos, ret, anchors>>

(* hm_set, whose copy of a new key may fail (f = 1): the pair is dropped,  *)
(* unnoticed.                                                              *)
SetPair(m, k, e, f)     == IF f = 1 THEN m ELSE HmSet(m, k, e)
SetPairCost(m, k, e, f) == IF f = 1 THEN 0 ELSE SetCost(m, k, e)

(* A pair: hm_set, then the shell and the key go. *)
PutPair(fn) ==
  /\ At(fn, "put")
  /\ IF Failed
     THEN /\ Break
          /\ Heap(IF Top.key = NullKey THEN 0 ELSE -1, 0)
          /\ UNCHANGED faults
     ELSE /\ Top.key # NullKey
          /\ fn = "bmap" => Top.key # "<<"
          /\ \E f \in FailAt(IF Has(Top.v, Top.key) THEN 0 ELSE 1) :
               /\ Fault(f)
               /\ SetTop([Top EXCEPT !.lc = "loop",
                                     !.v = SetPair(@, Top.key, ret, f)])
               /\ Heap(SetPairCost(Top.v, Top.key, ret, f) - 2, 0)
  /\ Keep /\ NoError /\ UNCHANGED <<pos, ret, anchors>>

(***************************************************************************)
(* parse_flow_sequence and parse_flow_mapping.                             *)
(***************************************************************************)
Closer(fn) == IF fn = "fseq" THEN "FLOW_SEQ_END" ELSE "FLOW_MAP_END"
InLoop(fn) == At(fn, "loop") /\ Cur.type \notin {Closer(fn), "EOF"}

(* A comma is skipped wherever it stands. *)
FlowComma ==
  /\ \E fn \in Flow : InLoop(fn)
  /\ Cur.type = "FLOW_ENTRY"
  /\ pos' = pos + 1
  /\ Idle /\ UNCHANGED stack

FseqElem ==
  /\ InLoop("fseq")
  /\ Cur.type # "FLOW_ENTRY"
  /\ Call(Goto("elem"), "node", 0, pos)
  /\ Idle /\ UNCHANGED pos

(* An optional '?', a scalar and its ':' make a key. *)
FlowKeyPos == IF Cur.type = "MAP_KEY" THEN pos + 1 ELSE pos
FlowKey    == tokens[FlowKeyPos]

FmapNoKey ==
  /\ InLoop("fmap")
  /\ Cur.type # "FLOW_ENTRY"
  /\ \/ /\ FlowKey.type # "SCALAR"
        /\ parse_error("expected scalar key in flow mapping")
        /\ pos' = FlowKeyPos
     \/ /\ FlowKey.type = "SCALAR"
        /\ tokens[FlowKeyPos + 1].type # "MAP_VAL"
        /\ parse_error("expected ':' in flow mapping")
        /\ pos' = FlowKeyPos + 1
  /\ Break
  /\ Keep /\ UNCHANGED <<ret, anchors, faults, live>>

(* The key's copy is not checked: NullKey is found out at hm_set.          *)
FmapKey ==
  /\ InLoop("fmap")
  /\ FlowKey.type = "SCALAR"
  /\ tokens[FlowKeyPos + 1].type = "MAP_VAL"
  /\ pos' = FlowKeyPos + 2
  /\ \E f \in FailAt(1) :
       /\ Fault(f)
       /\ Call([Top EXCEPT !.lc = "put",
                           !.key = IF f = 1 THEN NullKey ELSE FlowKey.val],
               "node", 0, pos')
       /\ Heap(1 - f, 0)
  /\ Keep /\ NoError /\ UNCHANGED <<ret, anchors>>

(* hash_str(NULL) is the same. *)
FmapCrash ==
  /\ At("fmap", "put")
  /\ ~Failed
  /\ Top.key = NullKey
  /\ Crash

(* Behind the loop: the closing bracket, or an error in place of the one   *)
(* that may have ended the loop; the collection is returned either way.    *)
FlowClose ==
  /\ \E fn \in Flow :
       \/ At(fn, "close")
       \/ At(fn, "loop") /\ Cur.type \in {Closer(fn), "EOF"}
  /\ IF Cur.type = Closer(Top.fn)
     THEN pos' = pos + 1 /\ NoError
     ELSE UNCHANGED pos /\ parse_error("unclosed bracket")
  /\ Return(Top.v)
  /\ Keep /\ UNCHANGED <<anchors, faults, live>>

(***************************************************************************)
(* parse_block_sequence.                                                   *)
(***************************************************************************)
AnyDash(t) == t.type = "SEQ_ENTRY"                               \* mutant
AtDash(t)  == t.type = "SEQ_ENTRY" /\ t.col = Top.col

OnDash    == pos                                                 \* mutant
AfterDash == pos + 1

(* The min_indent of what a block collection contains. *)
SameIndent == Top.col                                            \* mutant
KidIndent  == Top.col + 1

(* A '-' before the end, or before the next '-', is a null element. *)
NullElem == Ahead(1).type \in {"EOF", "DOC_END"} \/ AtDash(Ahead(1))

BseqElem ==
  /\ At("bseq", "loop")
  /\ AtDash(Cur)
  /\ pos' = AfterDash
  /\ IF NullElem THEN SetTop([Top EXCEPT !.v = Push(@, NullValue)])
                 ELSE Call(Goto("elem"), "node", KidIndent, pos')
  /\ Idle

BseqDone ==
  /\ At("bseq", "close") \/ (At("bseq", "loop") /\ ~AtDash(Cur))
  /\ Return(Top.v)
  /\ Quiet /\ UNCHANGED <<pos, anchors, live>>

(***************************************************************************)
(* parse_block_mapping.                                                    *)
(***************************************************************************)
AtKey  == /\ At("bmap", "loop")
          /\ Cur.col = Top.col
          /\ Cur.type = "MAP_KEY" \/ ImplicitKey
KeyPos == IF Cur.type = "MAP_KEY" THEN pos + 1 ELSE pos
Key    == tokens[KeyPos]
Colon  == tokens[KeyPos + 1].type = "MAP_VAL"

(* A '?' before anything but a scalar, or no memory for the key's copy. *)
BmapNoKey ==
  /\ AtKey
  /\ pos' = KeyPos
  /\ Break
  /\ \/ /\ Key.type # "SCALAR"
        /\ parse_error("expected scalar key")
        /\ UNCHANGED faults
     \/ /\ Key.type = "SCALAR"
        /\ 1 \in FailAt(1) /\ Fault(1)
        /\ parse_error("OOM")
  /\ Keep /\ UNCHANGED <<ret, anchors, live>>

(* An explicit key with no ':' maps to null; a lone "<<" is dropped. *)
BmapBareKey ==
  /\ AtKey
  /\ Key.type = "SCALAR" /\ ~Colon
  /\ pos' = KeyPos + 1
  /\ IF Key.val = "<<"
     THEN UNCHANGED <<stack, faults, live>>
     ELSE \E f \in FailAt(IF Has(Top.v, Key.val) THEN 0 ELSE 1) :
          /\ Fault(f)
          /\ SetTop([Top EXCEPT !.v = SetPair(@, Key.val, NullValue, f)])
          /\ Heap(SetPairCost(Top.v, Key.val, NullValue, f), 0)
  /\ Keep /\ NoError /\ UNCHANGED <<ret, anchors>>

(* A key and its ':'.  Before the end the value is null, and a failure to  *)
(* allocate it is not an error; else parse_node reads it.                  *)
BmapKey ==
  /\ AtKey
  /\ Key.type = "SCALAR" /\ Colon
  /\ pos' = KeyPos + 2
  /\ LET frame == [Top EXCEPT !.lc = "put", !.key = Key.val]
     IN IF tokens[KeyPos + 2].type \in {"EOF", "DOC_END", "DOC_START"}
        THEN \E f \in FailAt(1) :
             /\ Fault(f)
             /\ ret' = IF f = 1 THEN Nil ELSE NullValue
             /\ SetTop(frame)
             /\ Heap(1 + Blocks(ret'), 0)
        ELSE /\ Call(frame, "node", KidIndent, pos')
             /\ Heap(1, 0)
             /\ UNCHANGED <<ret, faults>>
  /\ Keep /\ NoError /\ UNCHANGED anchors

BmapDone ==
  /\ At("bmap", "close") \/ (At("bmap", "loop") /\ ~AtKey)
  /\ Return(Top.v)
  /\ Quiet /\ UNCHANGED <<pos, anchors, live>>

(***************************************************************************)
(* apply_merge: walk the pairs of an object, and the elements of an array  *)
(* in place of the array, one at a time; anything else merges nothing.     *)
(***************************************************************************)
MergeStart ==
  /\ At("bmap", "put")
  /\ ~Failed
  /\ Top.key = "<<"
  /\ SetTop([Top EXCEPT !.lc = "merge", !.work = <<ret>>])
  /\ Idle /\ UNCHANGED pos

Source        == Head(Top.work)
FirstKid      == Head(Source.kids)
Merging(type) == /\ At("bmap", "merge")
                 /\ Top.work # <<>>
                 /\ Source.type = type /\ Source.kids # <<>>
SamePair      == Top.work                                        \* mutant
Rest          == <<[Source EXCEPT !.kids = Tail(@)]>> \o Tail(Top.work)

(* A key that is there already keeps its value; another one gets a copy of *)
(* the source's, unless the copy (1) or its key (2) cannot be had.         *)
MergePair ==
  /\ Merging("obj")
  /\ \E f \in FailAt(IF Has(Top.v, FirstKid.key) THEN 0 ELSE 2) :
       LET k == FirstKid.key
           e == FirstKid.node
           skip == Has(Top.v, k) \/ f = 1
       IN /\ Fault(f)
          /\ SetTop([Top EXCEPT !.work = Rest,
                !.v = IF skip \/ f = 2 THEN @ ELSE HmSet(@, k, e)])
          /\ Heap((IF skip THEN 0 ELSE e.own)
                   + (IF skip \/ f = 2 THEN 0 ELSE SetCost(Top.v, k, e)), 0)
  /\ Keep /\ NoError /\ UNCHANGED <<pos, ret, anchors>>

MergeElement ==
  /\ Merging("arr")
  /\ SetTop([Top EXCEPT !.work = <<FirstKid.node>> \o Rest])
  /\ Idle /\ UNCHANGED pos

MergeNext ==
  /\ At("bmap", "merge")
  /\ Top.work # <<>>
  /\ Source.type \notin {"obj", "arr"} \/ Source.kids = <<>>
  /\ SetTop([Top EXCEPT !.work = Tail(@)])
  /\ Idle /\ UNCHANGED pos

(* The merged value is destroyed, and the key with it. *)
MergeDone ==
  /\ At("bmap", "merge")
  /\ Top.work = <<>>
  /\ SetTop(Goto("loop"))
  /\ Heap(-Blocks(ret) - 1, 0)
  /\ Quiet /\ UNCHANGED <<pos, ret, anchors>>

(***************************************************************************)
(* The drivers, and the client that destroys what it got.                  *)
(***************************************************************************)
Buffers == Cardinality({i \in DOMAIN tokens : tokens[i].kind = "block"})

(* Heap blocks behind a table of anchors, and behind a list of documents.  *)
AnchorBlocks(table) == Total([i \in DOMAIN table |-> 1 + Blocks(table[i].node)])
DocBlocks(list)     == Total([i \in DOMAIN list |-> Blocks(list[i])])

(* anchors_clear: names and nodes go, and n more blocks with them. *)
ClearNoReset(n)  == Heap(-n - AnchorBlocks(anchors), 0) /\ UNCHANGED anchors \* mutant
anchors_clear(n) == Heap(-n - AnchorBlocks(anchors), 0) /\ anchors' = <<>>

Init ==
  /\ tokens \in Inputs
  /\ mode \in Modes
  /\ alloc \in Allocators
  /\ pos = 1
  /\ stack = <<>>
  /\ ret = Nil
  /\ ok = 0
  /\ err = ""
  /\ anchors = <<>>
  /\ docs = <<>>
  /\ pc = "call"
  /\ faults = 0
  /\ live = [a \in {"malloc", "custom"} |-> 0]

(* lex could not allocate its token array: reported as error 1, no result. *)
LexFails ==
  /\ pc = "call"
  /\ 1 \in FailAt(1) /\ Fault(1)
  /\ parse_error("OOM")
  /\ pc' = "refused"
  /\ UNCHANGED <<tokens, pos, stack, ret, anchors, docs, mode, alloc, live>>

AfterMarker == IF Cur.type = "DOC_START" THEN pos + 1 ELSE pos

ParseStart ==
  /\ pc = "call"
  /\ mode = "parse"
  /\ pos' = AfterMarker
  /\ stack' = <<Frame("node", 0, pos')>>
  /\ pc' = "parsing"
  /\ Heap(0, 2 + Buffers)                   \* tokens, anchor table
  /\ NoError /\ UNCHANGED faults
  /\ UNCHANGED <<tokens, ret, anchors, docs, mode, alloc>>

(* The tree of a failed parse is destroyed; the anchors go, name and node. *)
ParseEnd ==
  /\ pc = "parsing"
  /\ mode = "parse"
  /\ stack = <<>>
  /\ docs' = IF ok = 0 THEN <<ret>> ELSE <<>>
  /\ anchors' = <<>>
  /\ ret' = Nil
  /\ pc' = "done"
  /\ Heap(-(IF ok = 0 THEN 0 ELSE Blocks(ret)) - AnchorBlocks(anchors), -2)
  /\ NoError /\ UNCHANGED faults
  /\ UNCHANGED <<tokens, pos, stack, mode, alloc>>

StreamStart ==
  /\ pc = "call"
  /\ mode = "stream"
  /\ pc' = "loop"
  /\ Heap(0, 3 + Buffers)                   \* tokens, anchor table, docs
  /\ NoError /\ UNCHANGED faults
  /\ UNCHANGED <<tokens, pos, stack, ret, anchors, docs, mode, alloc>>

(* One turn of the loop up to the call: "---" empties the anchor table.    *)
StreamDoc ==
  /\ pc = "loop"
  /\ tokens[AfterMarker].type # "EOF"
  /\ pos' = AfterMarker
  /\ stack' = <<Frame("node", 0, pos')>>
  /\ pc' = "parsing"
  /\ IF Cur.type = "DOC_START"
     THEN anchors_clear(0)
     ELSE UNCHANGED <<anchors, live>>
  /\ NoError /\ UNCHANGED faults
  /\ UNCHANGED <<tokens, ret, docs, mode, alloc>>

(* The rest of the turn: store the document; "..." empties the table.      *)
StreamStore ==
  /\ pc = "parsing"
  /\ mode = "stream"
  /\ stack = <<>>
  /\ ok = 0
  /\ docs' = IF Len(docs) < MaxDocs THEN Append(docs, ret) ELSE docs
  /\ ret' = Nil
  /\ pc' = "loop"
  /\ LET lost == IF Len(docs) < MaxDocs THEN 0 ELSE Blocks(ret)
     IN IF Cur.type = "DOC_END"
        THEN anchors_clear(lost) /\ pos' = pos + 1
        ELSE Heap(-lost, 0) /\ UNCHANGED <<anchors, pos>>
  /\ NoError /\ UNCHANGED faults
  /\ UNCHANGED <<tokens, stack, mode, alloc>>

(* At the end, or after an error, the anchors' names go, but not the nodes *)
(* _YMLParse destroys at this point.                                       *)
StreamEnd ==
  /\ \/ /\ pc = "loop"
        /\ tokens[AfterMarker].type = "EOF"
        /\ pos' = AfterMarker
        /\ Heap(-(IF Cur.type = "DOC_START" THEN AnchorBlocks(anchors)
                                            ELSE Len(anchors)), -2)
     \/ /\ pc = "parsing"
        /\ mode = "stream"
        /\ stack = <<>>
        /\ ok # 0
        /\ UNCHANGED pos
        /\ Heap(-Blocks(ret) - Len(anchors), -2)
  /\ ret' = Nil
  /\ anchors' = <<>>
  /\ pc' = "done"
  /\ NoError /\ UNCHANGED faults
  /\ UNCHANGED <<tokens, stack, docs, mode, alloc>>

(* YMLDestroy of the tree, or YMLDestroyStream of the documents. *)
Destroy ==
  /\ pc = "done"
  /\ docs' = <<>>
  /\ pc' = "end"
  /\ Heap(-DocBlocks(docs), IF mode = "stream" THEN -1 ELSE 0)
  /\ NoError /\ UNCHANGED faults
  /\ UNCHANGED <<tokens, pos, stack, ret, anchors, mode, alloc>>

Returned == pc \in {"end", "refused"}
Finished == Returned \/ pc = "crashed"

(* Nothing is left to do: lets TLC tell the end of a run from a deadlock.  *)
Stop == Finished /\ UNCHANGED vars

ParseNode   == \/ NodeProps \/ NodeAlias \/ NodeUnknownAlias
               \/ NodeCollection \/ NodeScalar \/ NodeEmpty
               \/ NodeNoValue \/ NodeTail \/ TagCrash
Collections == \/ \E fn \in Flow \cup Block : Enter(fn)
               \/ \E fn \in {"fseq", "bseq"} : PushElem(fn)
               \/ \E fn \in {"fmap", "bmap"} : PutPair(fn)
FlowStyle   == \/ FlowComma \/ FseqElem \/ FmapNoKey \/ FmapKey
               \/ FmapCrash \/ FlowClose
BlockStyle  == \/ BseqElem \/ BseqDone
               \/ BmapNoKey \/ BmapBareKey \/ BmapKey \/ BmapDone
Merge       == \/ MergeStart \/ MergePair \/ MergeElement \/ MergeNext
               \/ MergeDone
Driver      == \/ LexFails \/ ParseStart \/ ParseEnd \/ StreamStart
               \/ StreamDoc \/ StreamStore \/ StreamEnd \/ Destroy

Next == \/ ParseNode \/ Collections \/ FlowStyle \/ BlockStyle \/ Merge
        \/ Driver \/ Stop

Spec == Init /\ [][Next]_vars

(* The parser is one thread of straight C: it keeps running. *)
FairSpec == Spec /\ WF_vars(Next)
=============================================================================
