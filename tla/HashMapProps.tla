---------------------------- MODULE HashMapProps -----------------------------
(***************************************************************************)
(* What the hash map of _hm.c keeps true, and the map it implements.       *)
(***************************************************************************)
EXTENDS HashMap

Sets == [fn : {"set"}, key : Keys, val : Values]
Gets == [fn : {"get"}, key : Keys]

(* The table has cap slots, cap is a power of two (so the masks of _hm.c   *)
(* reduce an index to the table), and idx is a slot wherever _hm.c reads   *)
(* entries[idx].                                                           *)
TypeOK ==
  /\ pc \in {"none", "idle", "grow", "move", "probe", "freed"}
  /\ cap \in Nat /\ (cap = 0 \/ (cap >= 4 /\ PowerOfTwo(cap)))
  /\ cap = 0 => pc \in {"none", "freed"}
  /\ entries \in [IF pc = "freed" THEN {} ELSE 0..cap - 1 -> Slots]
  /\ newer \in [IF pc = "move" THEN 0..2 * cap - 1 ELSE {} -> Slots]
  /\ call \in IF pc \in {"none", "idle", "freed"} THEN {NoCall} ELSE Sets \cup Gets
  /\ pc = "probe" => idx \in 0..cap - 1
  /\ pc = "move" => idx \in 0..cap
  /\ answer \in Values \cup {NoValue} \cup BOOLEAN
  /\ len \in Nat /\ live \in Nat
  /\ walk \in [idx : 0..cap, cap : Nat, watch : Keys \cup {NoKey}, visits : Nat]

(* From its home slot on, the slots a probe for k meets up to slot i. *)
Chain(t, k, i) ==
  LET n == Cardinality(DOMAIN t)
  IN {(Home(k, n) + d) % n : d \in 0..((i - Home(k, n)) % n)}

(* Every key is where a probe for it finds it, in the table and in the one *)
(* that grows: once, and with no free slot between its home slot and it,   *)
(* also where the chain runs over the end of the table.  (hm_set, hm_get   *)
(* and hm_grow each compute the chain for themselves.)                     *)
ProbeChain ==
  \A t \in {entries, newer} : \A i \in Used(t) :
    /\ \A j \in Used(t) : t[i].key = t[j].key => i = j
    /\ Chain(t, t[i].key, i) \subseteq Used(t)

(* len counts the used slots, and the table is never full: it grows in     *)
(* time, also at its smallest capacity.  The while loops of hm_set and     *)
(* hm_get have no other bound.                                             *)
RoomLeft == pc \notin {"none", "freed"} =>
  /\ len = Cardinality(Used(entries))
  /\ len < cap

(* A walk with hm_next meets every key that was there at its start exactly *)
(* once, whatever is set between its steps, as long as no set grows the    *)
(* table.                                                                  *)
EachVisitedOnce == walk # NoWalk /\ walk.cap = cap =>
  /\ walk.visits <= 1
  /\ walk.idx = cap => walk.visits = 1

(* hm_free gives back the table, its old versions and every key copied     *)
(* into them.                                                              *)
FreedWhole == pc = "freed" => live = 0

(* Seen from outside the table is a map: a call reads or changes one key's *)
(* value and answers, at its last step, or it fails and changes nothing;   *)
(* growing changes nothing a client can see.                               *)
Pairs(t) == [k \in {t[i].key : i \in Used(t)} |->
               t[CHOOSE i \in Used(t) : t[i].key = k].val]

Map == INSTANCE Dictionary WITH dict <- Pairs(entries)

Refines == Map!Spec

(* Every call returns. *)
CallReturns == call # NoCall ~> call = NoCall
=============================================================================
