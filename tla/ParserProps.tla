---------------------------- MODULE ParserProps -----------------------------
(***************************************************************************)
(* What the parser promises.                                               *)
(***************************************************************************)
EXTENDS Parser

(* The control state: the cursor is on a token, the stack alternates       *)
(* parse_node with a collection function, and outside the descent it is    *)
(* empty.  The values are left out: they are what the runs compare.        *)
Labels(fn) ==
  CASE fn = "node"             -> {"enter", "dispatch", "tail"}
    [] fn \in {"fseq", "bseq"} -> {"enter", "loop", "elem", "close"}
    [] fn = "fmap"             -> {"enter", "loop", "put", "close"}
    [] fn = "bmap"             -> {"enter", "loop", "put", "close", "merge"}

FrameOK(f) ==
  /\ f.fn \in {"node"} \cup Flow \cup Block
  /\ f.lc \in Labels(f.fn)
  /\ f.col \in Nat
  /\ f.at \in 1..Len(tokens)

TypeOK ==
  /\ \A i \in DOMAIN tokens : tokens[i].type = "EOF" <=> i = Len(tokens)
  /\ pos \in 1..Len(tokens)
  /\ pc \in {"call", "loop", "parsing", "done", "end", "refused",
            "crashed"}
  /\ mode \in Modes
  /\ alloc \in Allocators
  /\ ok \in {0, 1}
  /\ \A i \in DOMAIN stack : FrameOK(stack[i])
  /\ \A i \in DOMAIN anchors : anchors[i].at \in 1..Len(tokens)

(* Recursion is paid for in tokens: the C stack holds at most two frames   *)
(* per token read, so its depth is bounded by the input and a collection   *)
(* never re-enters itself on the spot (parse_node and the four collection  *)
(* functions; nothing in the code counts depth).                           *)
CallDepth == Len(stack) <= 2 * pos

(* Indentation nests: a block collection that a block collection contains  *)
(* stands strictly deeper (min_indent of parse_node, indent of             *)
(* parse_block_sequence and parse_block_mapping).                          *)
IndentNests ==
  \A i, j \in DOMAIN stack :
    /\ j = i + 2
    /\ stack[i].fn \in Block
    /\ stack[j].fn \in Block
    => stack[j].col > stack[i].col

(* Anchors do not survive a document boundary: no entry of the table was   *)
(* made before a "---" or "..." the cursor has passed (anchors_clear in    *)
(* _YMLParseStream).                                                       *)
AnchorScope ==
  \A e \in DOMAIN anchors : \A i \in anchors[e].at .. pos - 1 :
    tokens[i].type \notin {"DOC_START", "DOC_END"}

(* After an error the parser only unwinds: it opens no node, reads at most *)
(* one closing bracket per step, keeps no new document and no later        *)
(* success takes the error back (p->ok in every loop of YMLParser.c).      *)
ErrorUnwinds ==
  [][ok # 0 => /\ ok' # 0
               /\ Len(stack') <= Len(stack)
               /\ pos' # pos => Len(stack') < Len(stack)
               /\ Len(docs') <= Len(docs)]_vars

(***************************************************************************)
(* The heap.  What the program still holds, by allocator: the values and   *)
(* keys of the frames, the returned value, the anchors, the documents; and *)
(* from malloc the tokens, the anchor table, a stream's array and the      *)
(* buffers of block scalars.                                               *)
(***************************************************************************)
HoldsKey(f) == f.lc \in {"put", "merge"} /\ f.key # NullKey

FrameBlocks(f) == Blocks(f.v) + (IF HoldsKey(f) THEN 1 ELSE 0)

(* ret is the program's while a caller has still to take it. *)
RetHeld == \/ pc = "parsing" /\ stack = <<>>
           \/ pc = "parsing" /\ stack # <<>>
              /\ Top.lc \in {"tail", "elem", "put", "merge"}

StackBlocks(frames) == Total([i \in DOMAIN frames |-> FrameBlocks(frames[i])])

Held == StackBlocks(stack)
        + (IF RetHeld THEN Blocks(ret) ELSE 0)
        + AnchorBlocks(anchors)
        + DocBlocks(docs)

(* A buffer no parse_scalar reaches is never given back: it counts here    *)
(* as held for good.                                                       *)
UnreadBuffers ==
  IF pc \in {"call", "refused"} THEN 0
  ELSE Cardinality({i \in pos .. Len(tokens) : tokens[i].kind = "block"})

HeldByLibrary ==
  UnreadBuffers
  + (IF pc \in {"parsing", "loop"} THEN 2 ELSE 0)
  + (IF mode = "stream" /\ pc \in {"parsing", "loop", "done"} THEN 1 ELSE 0)

Reachable(x) == (IF x = alloc THEN Held ELSE 0)
                + (IF x = "malloc" THEN HeldByLibrary ELSE 0)

(* The buffer of a block scalar comes from malloc and goes back through    *)
(* the client's allocator: with another one the ledgers part.              *)
SameAllocator == alloc = "malloc" \/ \A i \in DOMAIN tokens : tokens[i].kind # "block"

(* What was taken from an allocator and can be given back no more.  The    *)
(* tokens are freed when the call returns, and the buffers no parse_scalar *)
(* has read by then with them.                                             *)
Lost(x) == live[x] - Reachable(x)
           + (IF x = "malloc" /\ pc \in {"done", "end"} THEN UnreadBuffers ELSE 0)

(* A tag that sets the type of a value without freeing what it owns        *)
(* (apply_tag, YMLParser.c:565-642).                                       *)
LostToTag ==
  IF /\ At("node", "tail")
     /\ \/ Top.tag \in {"null", "float"} /\ ret.type \in {"str", "arr", "obj"}
        \/ Top.tag \in {"str", "bool"} /\ ret.type \in {"arr", "obj"}
  THEN ret.own ELSE 0

(* A key that is there already, also from a merge (hm_set, _hm.c:81).      *)
SetAgain == \/ /\ At("fmap", "put") \/ (At("bmap", "put") /\ Top.key # "<<")
               /\ Has(Top.v, Top.key)
            \/ /\ AtKey /\ Key.type = "SCALAR" /\ ~Colon /\ Key.val # "<<"
               /\ Has(Top.v, Key.val)
LostToKey == IF SetAgain
             THEN Get(Top.v, IF Top.lc = "put" THEN Top.key ELSE Key.val).own
             ELSE 0

(* A block scalar the cursor passes where no value is read, as the key of  *)
(* a pair, or never comes to.                                              *)
LostWithTokens ==
  Cardinality({i \in pos .. (IF pc # "done" /\ pc' = "done" THEN Len(tokens) ELSE pos' - 1) :
                 tokens[i].kind = "block" /\ ~At("node", "dispatch")})

(* The nodes of the anchors a stream leaves behind (YMLParser.c:1101).     *)
LostWithStream ==
  IF mode = "stream" /\ pc # "done" /\ pc' = "done" /\ ~(pc = "loop" /\ Cur.type = "DOC_START")
  THEN AnchorBlocks(anchors) - Len(anchors) ELSE 0

(* The ledger is exact as long as neither an error is met nor an           *)
(* allocation fails: each step of YMLParse and YMLParseStream takes and    *)
(* gives back just what it makes and drops (the copies of anchors, the     *)
(* sources of merges, conversions by a tag, the shells left behind when a  *)
(* value moves, the documents at the end), but for the four places where   *)
(* the code loses blocks: there it loses what is listed and no more, and   *)
(* nothing lost is ever given back.                                        *)
HeapConserved ==
  [][ok' = 0 /\ faults' = 0 /\ SameAllocator =>
       \A x \in DOMAIN live :
         Lost(x)' = Lost(x) + (IF x = alloc
                               THEN LostToTag + LostToKey + LostWithTokens + LostWithStream
                               ELSE 0)]_vars

(* What holds of every call, whatever fails: blocks may be lost, but       *)
(* nothing that can be reached has been given back.                        *)
NothingFreedTwice ==
  pc # "crashed" /\ SameAllocator
    => \A x \in DOMAIN live : live[x] >= Reachable(x)

(* tests/test_allocator.c, "all freed": once a text that was read to its   *)
(* end without an error has been destroyed, nothing is left.               *)
AllFreed ==
  pc = "end" /\ ok = 0 /\ Cur.type = "EOF" => \A x \in DOMAIN live : live[x] = 0

(* Every call comes back (README.md: YMLParse, YMLParseStream).            *)
Terminates == <>Returned

(* A text without flow collections, however malformed it is, is read to    *)
(* its end or to an error: parse_block_sequence, parse_block_mapping and   *)
(* apply_merge always consume something or stop, and so does the loop of   *)
(* YMLParseStream, unless it comes to a token with which no node begins    *)
(* and parse_node consumes nothing.                                        *)
BlockOnly == \A i \in DOMAIN tokens :
               tokens[i].type \notin {"FLOW_SEQ_START", "FLOW_MAP_START"}
Stuck == /\ mode = "stream" /\ pc = "loop"
         /\ Cur.type \in {"MAP_VAL", "FLOW_ENTRY", "FLOW_SEQ_END", "FLOW_MAP_END"}
BlockTextsEnd == BlockOnly ~> (Returned \/ Stuck)

(* A call that meets an error comes back, whatever loops the error is met  *)
(* in.                                                                     *)
ErrorEnds == (ok # 0) ~> Returned

(* A stream has no more documents than its markers delimit: YMLParseStream *)
(* "Parses a YAML stream of multiple documents separated by `---`"         *)
(* (README.md).                                                            *)
MarkersPassed == Cardinality({i \in 1..pos - 1 : tokens[i].type \in {"DOC_START", "DOC_END"}})
DocumentsAreMarked == Len(docs) <= 1 + MarkersPassed

(* A call during which an allocation failed says so: README.md gives a     *)
(* result code for it, next to "0 - success".                              *)
FailuresReported == pc = "done" /\ faults > 0 => ok # 0
=============================================================================
