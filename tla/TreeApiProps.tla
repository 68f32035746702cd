---------------------------- MODULE TreeApiProps ----------------------------
(***************************************************************************)
(* What the builders, the copies and the lookups of TreeApi promise.       *)
(***************************************************************************)
EXTENDS TreeApi

Held == UNION {Subtree(nodes, r) : r \in roots}
Reachable == UNION {Contents(nodes, r) \cup PlaceOf(nodes, r) : r \in roots}

(* The nodes form a forest whose roots the client holds: every node hangs  *)
(* where it says, a table's keys differ, and no collection holds more than *)
(* it has room for (map_insert, _da_push).                                 *)
TypeOK ==
  /\ Held = DOMAIN nodes /\ roots \subseteq DOMAIN nodes /\ DOMAIN nodes \subseteq Ids
  /\ \A n \in DOMAIN nodes :
       /\ nodes[n].up = NULL <=> n \in roots
       /\ IsInjective(nodes[n].kids)
       /\ Len(nodes[n].kids) <= nodes[n].cap
       /\ \A x \in KidSet(nodes, n) : nodes[x].up = n
       /\ nodes[n].type = "obj" => \A x, y \in KidSet(nodes, n) :
                                      x # y => nodes[x].key # nodes[y].key
  /\ \A t \in Threads : /\ lookup[t].node \in Held \cup {NULL}
                        /\ lookup[t].ok \in 0..2 /\ g_ok[t] \in 0..2
  /\ pc \in {"build", "read", "end", "crashed"}

(* As long as no allocation fails, the blocks taken from each allocator    *)
(* are those of the trees the client holds: an overwritten value, the      *)
(* shells of a copy and a destroyed tree are given back, to the allocator  *)
(* they came from (map_insert, _yml_mk_node, yml_value_free_impl).         *)
Ledger == failed = "none" => live = Reachable

(* No tree holds on to memory that was given back.  There is one exception: *)
(* map_insert frees the old value before hm_set, whose growth may fail.     *)
NothingDangles == failed # "grow" => Reachable \subseteq live

(* Everything under a node with a client's allocator comes from that       *)
(* allocator, wherever the value that was added came from.                 *)
OneAllocator ==
  \A n \in Held : nodes[n].alloc = "custom" =>
    \A b \in Contents(nodes, n) : b.alloc = "custom"

(* The builders bring the process down only after an allocation failed,    *)
(* when an array's storage moved as it grew (_da_push reads the old one),  *)
(* or when a node with a client's allocator hangs below one without: a     *)
(* deep copy gives its shell back to the wrong allocator (yml_deep_copy).  *)
CrashHasCause ==
  pc = "crashed" => \/ failed # "none"
                    \/ \E n \in Held : /\ nodes[n].up # NULL /\ nodes[n].alloc = "custom"
                                       /\ nodes[nodes[n].up].alloc = "malloc"

(* A step changes one tree at most: what was added is a copy, and no later *)
(* call on the copy or on its source shows in the other (_yml_mk_node).    *)
Shown(r) == [tree |-> Restrict(nodes, Subtree(nodes, r)), sound |-> Contents(nodes, r) \subseteq live]
CopiesStayApart ==
  [][\A r, s \in roots \cap roots' : Shown(r)' # Shown(r) /\ Shown(s)' # Shown(s) => r = s]_vars

(* A finished call of _YMLMapGet says what a walk from the root would find, *)
(* with the codes YMLParser.h documents, whatever other threads do in      *)
(* between; g_ok says the same to YMLPrintError.  Code 2 is that of a      *)
(* missing buffer, too.                                                    *)
Under(n, k) ==
  IF n # NULL /\ nodes[n].type = "obj" /\ KidAt(nodes, n, k) # {}
  THEN CHOOSE x \in KidAt(nodes, n, k) : TRUE ELSE NULL
Trail(n, path) == LET at[i \in 0..Len(path)] == IF i = 0 THEN n ELSE Under(at[i - 1], path[i])
                  IN at
Walk(n, path)  == Trail(n, path)[Len(path)]
LookupsAnswer ==
  \A t \in Threads : LET c == lookup[t]
                         v == Walk(c.root, c.query.path)
                         fits == v # NULL /\ c.query.type \in {"any", TypeOf(v)}
    IN c.lc = "done" =>
         /\ g_ok[t] = c.ok
         /\ CASE c.ok = 0 -> c.found = v /\ fits
              [] c.ok = 1 -> c.found = NULL /\ v = NULL
              [] c.ok = 2 -> c.found = NULL /\ (failed = "buf" \/ (v # NULL /\ ~fits))

(* A finished call has given its copy of the path back, unless the path    *)
(* led through a value that is no object.                                  *)
ThroughNoObject(c) ==
  \E i \in 1..(Len(c.query.path) - 1) :
     LET v == Trail(c.root, c.query.path)[i] IN v # NULL /\ nodes[v].type # "obj"
BuffersReturned ==
  \A t \in Threads : lookup[t].lc = "done" /\ lookup[t].buf => ThroughNoObject(lookup[t])
=============================================================================
