------------------------------- MODULE TreeApi -------------------------------
(***************************************************************************)
(* The client's side of the value tree: the builders of YMLWriter.c, deep  *)
(* copies (_yml_utils.c), YMLDestroy, and threads that look things up in   *)
(* a finished tree (_YMLMapGet of YMLParser.c).  A builder is one step, a  *)
(* lookup one step for each segment of its path.                           *)
(*                                                                         *)
(* A node is a YMLValue, wherever it is stored: in a block of its own (a   *)
(* root), in an array's storage or in a table's entries.  A block belongs  *)
(* to the node it hangs off and has a kind:                                *)
(*   "shell" a root itself,        "str"   a string,                       *)
(*   "store" an array's storage,   "hm", "ents"  a table and its entries,  *)
(*   "key"   the copy of the key the node is stored under.                 *)
(***************************************************************************)
EXTENDS Integers, Sequences, SequencesExt, FiniteSetsExt, Functions

CONSTANTS
  MaxRoots,   \* bound: trees the client holds at a time
  Keys,
  Threads,    \* those that look things up
  Queries,    \* what they ask: [path, type, split]
  Ids,        \* bound: nodes; naturals above 0
  MapCap,     \* capacity of a new table (8 in the code)
  ArrCap,     \* capacity of a new array (4 in the code)
  ArrayLens,  \* the lengths of the C arrays that are added
  ReadNodes,  \* bound: trees that threads read have so many nodes
  MaxFaults   \* bound: 0 or 1 allocation fails

ASSUME IdsAssumption == Ids \subseteq Nat \ {0}
ASSUME CapsAssumption == MapCap \in Nat \ {0} /\ ArrCap \in Nat \ {0}
ASSUME LensAssumption == ArrayLens \subseteq Nat

(* A path has at least one segment, if only the empty one. *)
ASSUME QueriesAssumption ==
  \A q \in Queries : q.path \in Seq(Keys) \ {<<>>} /\ q.split \in BOOLEAN

VARIABLES
  nodes,   \* id |-> [type, alloc, up, key, kids, cap]
  live,    \* the blocks taken and not given back
  roots,   \* the trees the client holds
  failed,  \* which allocation has failed first: "none", or what it was for;
           \* "moved" when one that grew an array has not
  lookup,  \* each thread's call of _YMLMapGet, the last one once it is done
  g_ok,    \* the error state of each thread
  pc       \* "build", "read" by threads, "end", or "crashed"

tree    == <<nodes, live, roots>>
threads == <<lookup, g_ok>>
vars    == <<nodes, live, roots, failed, lookup, g_ok, pc>>

NULL == 0
NoKey == ""

(***************************************************************************)
(* Trees.  alloc is the allocator field, "malloc" for NULL; cap is the     *)
(* capacity of an array's storage or a table's entries, 0 when the pointer *)
(* to it is NULL; a string that could not be copied has type "nostr".      *)
(***************************************************************************)
Node(type, alloc, cap) ==
  [type |-> type, alloc |-> alloc, up |-> NULL, key |-> NoKey, kids |-> <<>>, cap |-> cap]
Block(n, kind, alloc) == [node |-> n, kind |-> kind, alloc |-> alloc]

(* The nodes of g next to those of f.                                      *)
Beside(g, f) == [x \in DOMAIN f \cup DOMAIN g |-> IF x \in DOMAIN g THEN g[x] ELSE f[x]]

(* What a walk from n comes to: the least set with n and the kids of all   *)
(* that is in it.                                                          *)
KidSet(f, n)  == Range(f[n].kids)
Closed(f, S)  == \A x \in S : KidSet(f, x) \subseteq S
Subtree(f, n) ==
  LET Around == {S \in SUBSET DOMAIN f : n \in S /\ Closed(f, S)}
  IN {x \in DOMAIN f : \A S \in Around : x \in S}
KidAt(f, n, k) == {x \in KidSet(f, n) : f[x].key = k}

(* What hangs off node n of forest f, and what its place costs.            *)
Content(f, n) ==
  {Block(n, kind, f[n].alloc) : kind \in
     CASE f[n].type = "str"                 -> {"str"}
       [] f[n].type = "arr" /\ f[n].cap > 0 -> {"store"}
       [] f[n].type = "obj" /\ f[n].cap > 0 -> {"hm", "ents"}
       [] OTHER                             -> {}}
PlaceOf(f, n) ==
  LET up == f[n].up
  IN CASE up = NULL                           -> {Block(n, "shell", f[n].alloc)}
       [] up # NULL /\ f[up].type = "obj"     -> {Block(n, "key", f[up].alloc)}
       [] OTHER                               -> {}

(* yml_value_free_impl gives back everything below n, but not n's place.   *)
Contents(f, n) == LET T == Subtree(f, n)
                  IN (UNION {Content(f, x) : x \in T}) \cup UNION {PlaceOf(f, x) : x \in T \ {n}}

(* It reads the length of an array; a copy looks into tables, too.         *)
NoStorage(n, types) == \E x \in Subtree(nodes, n) : nodes[x].type \in types /\ nodes[x].cap = 0

(* What is read when n is: its contents, and the storage it lies in.       *)
Sound(n) == /\ Contents(nodes, n) \subseteq live
            /\ nodes[n].up # NULL => Content(nodes, nodes[n].up) \subseteq live

(***************************************************************************)
(* Allocations that fail, and the end of the process: a NULL dereference,  *)
(* a block given back twice or to the wrong allocator.                     *)
(***************************************************************************)
MayFail == failed = "none" /\ MaxFaults > 0
After(failure) == failed' = IF failed = "none" THEN failure ELSE failed
Crash(failure) == pc' = "crashed" /\ After(failure) /\ UNCHANGED <<tree, threads>>

Free == {i \in Ids : i \notin DOMAIN nodes /\ \A b \in live : b.node # i}
Fits(S)  == \E id \in [S -> Free] : IsInjective(id)
Named(S) == CHOOSE id \in [S -> Free] : IsInjective(id)
Fresh    == CHOOSE i \in Free : TRUE

(***************************************************************************)
(* _YMLCreate and _YMLCreateArr: both of their allocations or neither.     *)
(***************************************************************************)
Create(type, alloc) ==
  LET n == Fresh
      f == [i \in {n} |-> Node(type, alloc, IF type = "arr" THEN ArrCap ELSE MapCap)]
  IN \/ /\ nodes' = Beside(f, nodes)
        /\ live' = live \cup Contents(f, n) \cup PlaceOf(f, n)
        /\ roots' = roots \cup {n}
        /\ UNCHANGED <<failed, threads, pc>>
     \/ MayFail /\ failed' = "create" /\ UNCHANGED <<tree, threads, pc>>

(* _YMLDestroy: the tree goes, by the allocator each node names.           *)
Destroy(n) ==
  IF ~Sound(n) \/ NoStorage(n, {"arr"}) THEN Crash("none")
  ELSE /\ nodes' = Restrict(nodes, DOMAIN nodes \ Subtree(nodes, n))
       /\ live' = live \ (Contents(nodes, n) \cup PlaceOf(nodes, n))
       /\ roots' = roots \ {n}
       /\ UNCHANGED <<failed, threads, pc>>

(***************************************************************************)
(* New values, before they are stored: the forest of their nodes, its      *)
(* root, the blocks they take, the allocation that failed, and whether     *)
(* building it brings the process down.                                    *)
(***************************************************************************)
Value(f, root, failure) ==
  [forest |-> f, root |-> root, blocks |-> Contents(f, root), failed |-> failure,
   fatal |-> FALSE]
Single(x, failure) == LET n == Fresh IN Value([i \in {n} |-> x], n, failure)
Crashed(failure) == [Single(Node("null", "malloc", 0), failure) EXCEPT !.fatal = TRUE]

(* A string that cannot be copied is NULL.                                 *)
NewScalars(alloc) ==
  {Single(Node(t, alloc, 0), "none") : t \in {"int", "str"}}
  \cup (IF MayFail THEN {Single(Node("nostr", alloc, 0), "str")} ELSE {})

AtLeastOne(n) == IF n > 0 THEN n ELSE 1

(* _yml_build_int_arr and _yml_build_str_arr; da_new is not checked.       *)
NewArray(alloc, type, len, failure) ==
  LET id   == Named(0..len)
      bare(i) == failure = "str" /\ i = 1
      elem(i) == [Node(IF bare(i) THEN "nostr" ELSE type, alloc, 0) EXCEPT !.up = id[0]]
      arr  == [Node("arr", alloc, IF failure = "store" THEN 0 ELSE AtLeastOne(len))
                 EXCEPT !.kids = [i \in 1..len |-> id[i]]]
  IN Value([n \in Range(id) |-> IF n = id[0] THEN arr ELSE elem(CHOOSE i \in 1..len : id[i] = n)],
           id[0], failure)
NewArrays(alloc) ==
  LET lens == {len \in ArrayLens : Fits(0..len)}
  IN {NewArray(alloc, t, len, "none") : t \in {"int", "str"}, len \in lens}
     \cup {IF len = 0 THEN NewArray(alloc, "int", 0, "store") ELSE Crashed("store")
             : len \in {l \in lens : MayFail}}
     \cup {NewArray(alloc, "str", len, "str") : len \in {l \in lens : MayFail /\ l > 0}}

(***************************************************************************)
(* yml_deep_copy of the tree at s for an allocator.  "malloc" is NULL: the *)
(* copy then takes the allocator of what it copies, up to the first that   *)
(* is not NULL, which everything below it gets.                            *)
(***************************************************************************)
SourceAlloc(s, target, x) ==                                      \* mutant
  IF \E y \in Subtree(nodes, s) : nodes[y].alloc = "custom" /\ x \in Subtree(nodes, y)
  THEN "custom" ELSE "malloc"
CopyAlloc(s, target, x) ==
  IF target = "custom" \/ \E y \in Subtree(nodes, s) :
                            nodes[y].alloc = "custom" /\ x \in Subtree(nodes, y)
  THEN "custom" ELSE "malloc"

(* An element is copied into a shell, which is given back by the allocator *)
(* of the collection, the root's shell by its own.                         *)
FreedBySource(s, target, x) == nodes[x].alloc                     \* mutant
ShellFreedBy(s, target, x) == CopyAlloc(s, target, IF x = s THEN s ELSE nodes[x].up)

Without(ks, y) ==
  IF y \notin Range(ks) THEN ks
  ELSE LET j == CHOOSE j \in DOMAIN ks : ks[j] = y
       IN [i \in 1..Len(ks) - 1 |-> ks[IF i < j THEN i ELSE i + 1]]

(* The allocation for what fails at node bad of s.  A missing shell leaves *)
(* out the element, a missing key loses what was copied for it.            *)
Copy(s, target, what, bad) ==
  LET T     == Subtree(nodes, s)
      gone  == IF what \in {"shell", "key"} THEN Subtree(nodes, bad) ELSE {}
      at    == Named(T)
      kids(x) == IF bad \in gone THEN Without(nodes[x].kids, bad) ELSE nodes[x].kids
      room(x) == IF nodes[x].type = "arr" THEN AtLeastOne(Len(nodes[x].kids)) ELSE nodes[x].cap
      cap(x)  == IF what \in {"store", "table"} /\ bad = x THEN 0 ELSE room(x)
      copy(x, ks) ==
        [type  |-> IF what = "str" /\ bad = x THEN "nostr" ELSE nodes[x].type,
         alloc |-> CopyAlloc(s, target, x),
         up    |-> IF x = s THEN NULL ELSE at[nodes[x].up],
         key   |-> IF x = s THEN NoKey ELSE nodes[x].key,
         kids  |-> [i \in DOMAIN ks |-> at[ks[i]]],
         cap   |-> cap(x)]
      original(n) == CHOOSE x \in T : at[x] = n
      kept  == [n \in {at[x] : x \in T \ gone} |-> copy(original(n), kids(original(n)))]
      whole == [n \in Range(at) |-> copy(original(n), nodes[original(n)].kids)]
      lost  == IF what = "key" THEN Contents(whole, at[bad]) ELSE {}
  IN [Value(kept, at[s], what) EXCEPT !.blocks = @ \cup lost]

(* Where an allocation of the copy may fail, and for what.                 *)
Needs(s, x) ==
  {"shell"} \cup (IF x # s /\ nodes[nodes[x].up].type = "obj" THEN {"key"} ELSE {})
            \cup (CASE nodes[x].type = "str" -> {"str"}   [] nodes[x].type = "arr" -> {"store"}
                    [] nodes[x].type = "obj" -> {"table"} [] OTHER -> {})

NodeNull(failure) == Single(Node("null", "malloc", 0), failure)

(* What _yml_mk_node may return: storage that is missing is written to.    *)
Adopted(s, target) ==                                             \* mutant
  {IF nodes[s].kids = <<>> /\ nodes[s].alloc # target
   THEN [Copy(s, target, "none", s) EXCEPT !.forest = Restrict(nodes, {s}), !.root = s, !.blocks = {}]
   ELSE Copy(s, target, "none", s)}
Copies(s, target) ==
  LET T == Subtree(nodes, s)
  IN IF ~Sound(s) \/ NoStorage(s, {"arr", "obj"})
        \/ \E x \in T : ShellFreedBy(s, target, x) # CopyAlloc(s, target, x)
     THEN {Crashed("none")}
     ELSE {Copy(s, target, "none", s)}
          \cup UNION {{CASE x = s /\ what = "shell" -> NodeNull("shell")
                         [] what \in {"store", "table"} /\ nodes[x].kids # <<>> -> Crashed(what)
                         [] OTHER -> Copy(s, target, what, x)
                       : what \in Needs(s, x)} : x \in {y \in T : MayFail}}

(***************************************************************************)
(* map_insert, with the value w already built.  hm_set grows the table     *)
(* before it looks for the key (Full is HashMap's).                        *)
(***************************************************************************)
Full(o)  == Len(nodes[o].kids) * 10 >= nodes[o].cap * 7
GrownCap(o) == IF Full(o) THEN 2 * nodes[o].cap ELSE nodes[o].cap
Stored(w, o, k) == [w.forest EXCEPT ![w.root].up = o, ![w.root].key = k]

(* The key is copied.                                                      *)
KeyBorrowed(o, w) == {}                                           \* mutant
KeyBlock(o, w)    == {Block(w.root, "key", nodes[o].alloc)}

(* The contents of the value under k, freed before the new one is set.     *)
OldStays(o, k)    == {}                                           \* mutant
OldContents(o, k) == UNION {Contents(nodes, e) : e \in KidAt(nodes, o, k)}

Settle(failure) == After(failure) /\ UNCHANGED <<roots, threads, pc>>

Overwrite(o, k, w, e) ==
  LET rest == Restrict(nodes, DOMAIN nodes \ Subtree(nodes, e))
      kids == [i \in DOMAIN nodes[o].kids |->
                 IF nodes[o].kids[i] = e THEN w.root ELSE nodes[o].kids[i]]
  IN /\ nodes' = Beside(Stored(w, o, k), [rest EXCEPT ![o].kids = kids, ![o].cap = GrownCap(o)])
     /\ live' = ((live \ (OldContents(o, k) \cup PlaceOf(nodes, e))) \cup w.blocks) \cup KeyBlock(o, w)
     /\ Settle(w.failed)

NewPair(o, k, w) ==
  /\ nodes' = Beside(Stored(w, o, k), [nodes EXCEPT ![o].kids = Append(@, w.root), ![o].cap = GrownCap(o)])
  /\ live' = live \cup w.blocks \cup KeyBlock(o, w)
  /\ Settle(w.failed)

(* hm_set fails: nobody looks at what it returns, the new value is lost.   *)
CannotSet(o, k, w) ==
  /\ w.failed = "none" /\ MayFail
  /\ live' = (live \ OldContents(o, k)) \cup w.blocks
  /\ \/ Full(o) /\ UNCHANGED nodes /\ Settle("grow")
     \/ /\ KidAt(nodes, o, k) = {}
        /\ nodes' = [nodes EXCEPT ![o].cap = GrownCap(o)]
        /\ Settle("key")

map_insert(o, k, w) ==
  IF w.fatal \/ nodes[o].cap = 0 \/ ~(Content(nodes, o) \subseteq live)
     \/ \E e \in KidAt(nodes, o, k) : ~Sound(e) \/ NoStorage(e, {"arr"})
  THEN Crash(w.failed)
  ELSE \/ \E e \in KidAt(nodes, o, k) : Overwrite(o, k, w, e)
       \/ KidAt(nodes, o, k) = {} /\ NewPair(o, k, w)
       \/ CannotSet(o, k, w)

(***************************************************************************)
(* da_push of w: the storage doubles when it is full, or the value is lost.*)
(* After realloc the old header is read for its allocator; once realloc    *)
(* has moved the storage out of a mapping of its own that brings the       *)
(* process down.                                                           *)
(***************************************************************************)
FullStore(a) == Len(nodes[a].kids) = nodes[a].cap
GrowsLate(a) == IF Len(nodes[a].kids) > nodes[a].cap THEN 2 * nodes[a].cap ELSE nodes[a].cap \* mutant
StoreCap(a)  == IF FullStore(a) THEN 2 * nodes[a].cap ELSE nodes[a].cap

da_push(a, w) ==
  IF w.fatal \/ nodes[a].cap = 0 \/ ~(Content(nodes, a) \subseteq live)
  THEN Crash(w.failed)
  ELSE \/ /\ live' = live \cup w.blocks
          /\ \/ /\ nodes' = Beside(Stored(w, a, NoKey),
                                 [nodes EXCEPT ![a].kids = Append(@, w.root), ![a].cap = StoreCap(a)])
                /\ Settle(w.failed)
             \/ FullStore(a) /\ w.failed = "none" /\ MayFail /\ UNCHANGED nodes /\ Settle("push")
       \/ FullStore(a) /\ Crash("moved")

(***************************************************************************)
(* The builders: a scalar, a copy of a node or of NULL, a C array.         *)
(***************************************************************************)
CopiesOf(target) ==
  UNION {Copies(s, target) : s \in {x \in DOMAIN nodes : Fits(Subtree(nodes, x))}}

Collections(type) == {x \in DOMAIN nodes : nodes[x].type = type}
MapAdd(o, k)     == \E w \in NewScalars(nodes[o].alloc) : map_insert(o, k, w)
MapAddNode(o, k) == \E w \in CopiesOf(nodes[o].alloc) \cup {NodeNull("none")} : map_insert(o, k, w)
MapAddArr(o, k)  == \E w \in NewArrays(nodes[o].alloc) : map_insert(o, k, w)
ArrPush(a)       == \E w \in NewScalars(nodes[a].alloc) : da_push(a, w)
ArrPushNode(a)   == \E w \in CopiesOf(nodes[a].alloc) \cup {NodeNull("none")} : da_push(a, w)
ArrPushArr(a)    == \E w \in NewArrays(nodes[a].alloc) : da_push(a, w)

Building ==
  /\ pc = "build"
  /\ \/ /\ Free # {}
        /\ \/ /\ Cardinality(roots) < MaxRoots
              /\ \E type \in {"obj", "arr"}, alloc \in {"malloc", "custom"} : Create(type, alloc)
           \/ \E o \in Collections("obj"), k \in Keys :
                MapAdd(o, k) \/ MapAddNode(o, k) \/ MapAddArr(o, k)
           \/ \E a \in Collections("arr") : ArrPush(a) \/ ArrPushNode(a) \/ ArrPushArr(a)
     \/ \E n \in roots : Destroy(n)

(***************************************************************************)
(* Threads that read: the trees no longer change.  A call goes segment by  *)
(* segment, sets the error state of its thread, and reads it again when it *)
(* returns.  A call without a splitter is one of a path of one key.        *)
(***************************************************************************)
Call(lc, q, root, node, left, buf) ==
  [lc |-> lc, query |-> q, root |-> root, node |-> node, left |-> left, buf |-> buf,
   ok |-> 0, found |-> NULL]
NoLookup == Call("idle", [path |-> <<>>], NULL, NULL, <<>>, FALSE)
SetShared(t, code) == g_ok' = [u \in Threads |-> code]            \* mutant
SetOk(t, code) == g_ok' = [g_ok EXCEPT ![t] = code]

Share ==
  /\ pc = "build" /\ failed = "none" /\ Cardinality(DOMAIN nodes) <= ReadNodes
  /\ Cardinality(roots) = 1 /\ \E n \in roots : nodes[n].type = "obj"
  /\ pc' = "read" /\ UNCHANGED <<tree, failed, threads>>

Fail(t, code, buf) ==
  SetOk(t, code) /\ lookup' = [lookup EXCEPT ![t].lc = "return", ![t].buf = buf, ![t].node = NULL]

GetCall(t, q, n) ==
  /\ pc = "read" /\ lookup[t].lc \in {"idle", "done"}
  /\ nodes[n].type = "obj"
  /\ \/ /\ lookup' = [lookup EXCEPT ![t] = Call("walk", q, n, n, q.path, q.split)]
        /\ SetOk(t, 0) /\ UNCHANGED failed
     \/ /\ q.split /\ MayFail /\ failed' = "buf"
        /\ lookup' = [lookup EXCEPT ![t] = Call("return", q, n, NULL, <<>>, FALSE)]
        /\ SetOk(t, 2)
  /\ UNCHANGED <<tree, pc>>

TypeOf(n) == IF nodes[n].type = "nostr" THEN "str" ELSE nodes[n].type

(* The copy of the path is given back before a call ends, but for one way. *)
KeptWhenMissing(c, why) == c.buf /\ why \in {"not an object", "missing"} \* mutant
BufferKept(c, why) == c.buf /\ why = "not an object"

GetSegment(t) ==
  LET c    == lookup[t]
      hit  == KidAt(nodes, c.node, Head(c.left))
      last == Len(c.left) = 1
  IN /\ c.lc = "walk"
     /\ \/ hit = {} /\ Fail(t, 1, BufferKept(c, "missing"))
        \/ \E v \in hit :
             \/ /\ last /\ c.query.type \notin {"any", TypeOf(v)}
                /\ Fail(t, 2, BufferKept(c, "type"))
             \/ /\ last /\ c.query.type \in {"any", TypeOf(v)}
                /\ lookup' = [lookup EXCEPT ![t].lc = "found", ![t].node = v, ![t].buf = BufferKept(c, "found")]
                /\ UNCHANGED g_ok
             \/ /\ ~last /\ TypeOf(v) # "obj" /\ Fail(t, 1, BufferKept(c, "not an object"))
             \/ /\ ~last /\ TypeOf(v) = "obj"
                /\ lookup' = [lookup EXCEPT ![t].node = v, ![t].left = Tail(@)]
                /\ UNCHANGED g_ok
     /\ UNCHANGED <<tree, failed, pc>>

GetReturn(t) ==
  /\ lookup[t].lc \in {"return", "found"}
  /\ lookup' = [lookup EXCEPT ![t].lc = "done", ![t].found = lookup[t].node, ![t].left = <<>>,
                              ![t].ok = IF lookup[t].lc = "found" THEN 0 ELSE g_ok[t]]
  /\ UNCHANGED <<tree, failed, g_ok, pc>>

Join == /\ pc = "read" /\ \A t \in Threads : lookup[t].lc = "done"
        /\ pc' = "end" /\ UNCHANGED <<tree, failed, threads>>

Reading == \/ \E t \in Threads, q \in Queries, n \in roots : GetCall(t, q, n)
           \/ \E t \in Threads : GetSegment(t) \/ GetReturn(t)
           \/ Share \/ Join

Init ==
  /\ nodes = <<>> /\ live = {} /\ roots = {} /\ failed = "none"
  /\ lookup = [t \in Threads |-> NoLookup] /\ g_ok = [t \in Threads |-> 0]
  /\ pc = "build"

Next == Building \/ Reading

Spec == Init /\ [][Next]_vars
=============================================================================
