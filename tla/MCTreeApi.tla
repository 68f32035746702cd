----------------------------- MODULE MCTreeApi -----------------------------
(* Trees of a few nodes, built in every order with both allocators, and    *)
(* two threads that look things up in the smaller ones.                    *)
EXTENDS TreeApiProps

CONSTANTS t1, t2
MCThreads == {t1, t2}
MCKeys    == {"k", "l"}
MCIds     == 1..4
MCLens    == {0, 1}

Ask(path, type, split) == [path |-> path, type |-> type, split |-> split]
MCQueries == {Ask(<<"k">>, "any", FALSE), Ask(<<"l">>, "int", FALSE),
              Ask(<<"k">>, "str", TRUE),  Ask(<<"k", "l">>, "int", TRUE)}
Symmetry  == Permutations(MCThreads)

(* Which ids a tree has makes no difference, and a table has no order: a    *)
(* state is seen as its trees, what is left to them, and the lookups.       *)
Shape ==
  LET shape[n \in DOMAIN nodes] ==
        [type |-> nodes[n].type, alloc |-> nodes[n].alloc, cap |-> nodes[n].cap,
         sound |-> Content(nodes, n) \subseteq live,
         kids |-> IF nodes[n].type = "obj"
                  THEN {<<nodes[x].key, shape[x]>> : x \in KidSet(nodes, n)}
                  ELSE [i \in DOMAIN nodes[n].kids |-> shape[nodes[n].kids[i]]]]
      at(n) == IF n = NULL THEN <<>> ELSE <<shape[n]>>
  IN <<{shape[r] : r \in roots}, Cardinality(roots), Cardinality(Free), Cardinality(live),
       [t \in Threads |-> [lookup[t] EXCEPT !.root = at(@), !.node = at(@), !.found = at(@)]],
       failed, g_ok, pc>>
=============================================================================
