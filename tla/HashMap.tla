------------------------------- MODULE HashMap --------------------------------
(***************************************************************************)
(* The hash map of _hm.c: open addressing with linear probing over a table *)
(* of cap slots, a power of two, that doubles when it is 7/10 full.  One   *)
(* table, from hm_new to hm_free, and one call after the other on it; a    *)
(* step is one turn of a loop.  Between the calls a client may also walk   *)
(* the table with hm_next, as YMLMapNext does.                             *)
(***************************************************************************)
EXTENDS Integers, FiniteSets

CONSTANTS
  Keys, Values,   \* strings, and values stored by value
  NoKey, NoValue, \* the NULL key of a free slot, and what it holds
  hash_str(_),    \* djb2: any function will do
  Asked           \* the capacities hm_new is called with

ASSUME HashAssumption  == \A k \in Keys : hash_str(k) \in Nat
ASSUME AskedAssumption == Asked \subseteq Nat
ASSUME KeysAssumption  == NoKey \notin Keys /\ NoValue \notin Values

VARIABLES
  entries,  \* hm->entries, 0 .. cap - 1
  cap, len, \* hm->cap and hm->len
  call,     \* the call under way, its key and value
  idx,      \* its probe: a slot of entries; of the old table in hm_grow
  newer,    \* new_entries, while hm_grow moves the entries over
  answer,   \* what the last call returned
  pc,
  live,     \* heap blocks taken and not given back
  walk      \* the last walk a client began: hm_next's index, and, for the
            \* properties, the cap it began with, a key that was there then
            \* and how often the walk has met it

vars == <<entries, cap, len, call, idx, newer, answer, pc, live, walk>>

NoWalk == [idx |-> 0, cap |-> 0, watch |-> NoKey, visits |-> 0]

FreeSlot     == [key |-> NoKey, val |-> NoValue]
Slots        == [key : Keys, val : Values] \cup {FreeSlot}
NewTable(n)  == [i \in 0..n - 1 |-> FreeSlot]
Used(t)      == {i \in DOMAIN t : t[i].key # NoKey}

NoCall    == [fn |-> "idle"]
Set(k, v) == [fn |-> "set", key |-> k, val |-> v]
Get(k)    == [fn |-> "get", key |-> k]

(* idx = (idx + 1) & (cap - 1), and the slot a key hashes to. *)
Step(i, n)    == i + 1                                           \* mutant
Masked(i, n)  == i % n                                           \* mutant
After(i, n)   == (i + 1) % n
Home(k, n)    == hash_str(k) % n
OldHome(k, n) == hash_str(k) % cap                               \* mutant
NewHome(k, n) == Home(k, n)

(* strcmp(a, b) == 0 *)
SameHash(a, b) == hash_str(a) = hash_str(b)                      \* mutant
SameKey(a, b)  == a = b

(* Where a probe of table t for a key that is not there ends. *)
ProbeEnd(t, k) ==
  LET n == Cardinality(DOMAIN t)
      at(d) == (NewHome(k, n) + d) % n
      d0 == CHOOSE d \in 0..n - 1 : /\ t[at(d)].key = NoKey
                                    /\ \A e \in 0..d - 1 : t[at(e)].key # NoKey
  IN at(d0)

(* The powers of two are the numbers without an odd divisor but 1; the     *)
(* smallest one that is n at least.                                        *)
PowerOfTwo(n) == n > 0 /\ \A d \in 2..n : n % d = 0 => d % 2 = 0
AsAsked(n)   == n                                                \* mutant
next_pow2(n) == CHOOSE p \in n..2 * n : /\ PowerOfTwo(p)
                                       /\ \A q \in n..p - 1 : ~PowerOfTwo(q)

(***************************************************************************)
(* hm_new, whose second allocation may fail after the first, and hm_free.  *)
(***************************************************************************)
Init ==
  /\ entries = NewTable(0) /\ newer = NewTable(0)
  /\ cap = 0 /\ len = 0 /\ idx = 0
  /\ call = NoCall /\ answer = NoValue
  /\ pc = "none"
  /\ live = 0
  /\ walk = NoWalk

HmNew ==
  /\ pc = "none"
  /\ \/ /\ \E n \in Asked : cap' = next_pow2(IF n < 4 THEN 4 ELSE n)
        /\ entries' = NewTable(cap')
        /\ pc' = "idle"
        /\ live' = 2
     \/ pc' = "freed" /\ UNCHANGED <<entries, cap, live>>
  /\ UNCHANGED <<len, call, idx, newer, answer, walk>>

HmFree ==
  /\ pc = "idle"
  /\ entries' = NewTable(0)
  /\ pc' = "freed"
  /\ live' = live - Cardinality(Used(entries)) - 2
  /\ walk' = NoWalk
  /\ UNCHANGED <<cap, len, call, idx, newer, answer>>

(***************************************************************************)
(* hm_set: first the load, whether or not the key is there; then the probe.*)
(***************************************************************************)
Lax  == len >= cap                                               \* mutant
Full == len * 10 >= cap * 7

SetCall(k, v) ==
  /\ pc = "idle"
  /\ call' = Set(k, v) /\ answer' = NoValue
  /\ pc' = IF Full THEN "grow" ELSE "probe"
  /\ idx' = Home(k, cap)
  /\ UNCHANGED <<entries, cap, len, newer, live, walk>>

Answer(a) == answer' = a /\ call' = NoCall /\ pc' = "idle" /\ idx' = 0

(* hm_grow: a new table; without the memory for it, hm_set gives up. *)
GrowStart ==
  /\ pc = "grow"
  /\ \/ /\ newer' = NewTable(2 * cap)
        /\ idx' = 0
        /\ pc' = "move"
        /\ live' = live + 1
        /\ UNCHANGED <<call, answer>>
     \/ Answer(FALSE) /\ UNCHANGED <<newer, live>>
  /\ UNCHANGED <<entries, cap, len, walk>>

(* One turn of the loop over the old table. *)
GrowMove ==
  /\ pc = "move"
  /\ idx < cap
  /\ newer' = IF entries[idx].key = NoKey THEN newer
              ELSE [newer EXCEPT ![ProbeEnd(newer, entries[idx].key)] = entries[idx]]
  /\ idx' = idx + 1
  /\ UNCHANGED <<entries, cap, len, call, answer, pc, live, walk>>

(* The new table takes the old one's place.  A client's walk goes on over  *)
(* it at the same index, which means nothing there.                        *)
OldTable == 0                                                    \* mutant
Released == 1

GrowEnd ==
  /\ pc = "move"
  /\ idx = cap
  /\ entries' = newer
  /\ newer' = NewTable(0)
  /\ cap' = 2 * cap
  /\ idx' = Home(call.key, cap')
  /\ pc' = "probe"
  /\ live' = live - Released
  /\ UNCHANGED <<len, call, answer, walk>>

(* The probe of hm_set and of hm_get goes on past another key, ... *)
ProbeOn ==
  /\ pc = "probe"
  /\ entries[idx].key # NoKey /\ ~SameKey(entries[idx].key, call.key)
  /\ idx' = After(idx, cap)
  /\ UNCHANGED <<entries, cap, len, call, newer, answer, pc, live, walk>>

(* ... finds the key, ... *)
ProbeHit ==
  /\ pc = "probe"
  /\ entries[idx].key # NoKey /\ SameKey(entries[idx].key, call.key)
  /\ IF call.fn = "set"
     THEN entries' = [entries EXCEPT ![idx].val = call.val] /\ Answer(TRUE)
     ELSE UNCHANGED entries /\ Answer(entries[idx].val)
  /\ UNCHANGED <<cap, len, newer, live, walk>>

(* ... or ends at a free slot: hm_get knows nothing, hm_set copies its key *)
(* there, if it can.                                                       *)
ProbeMiss ==
  /\ pc = "probe"
  /\ entries[idx].key = NoKey
  /\ \/ /\ call.fn = "get"
        /\ Answer(NoValue)
        /\ UNCHANGED <<entries, len, live>>
     \/ /\ call.fn = "set"
        /\ Answer(FALSE)
        /\ UNCHANGED <<entries, len, live>>
     \/ /\ call.fn = "set"
        /\ Answer(TRUE)
        /\ entries' = [entries EXCEPT ![idx] = [key |-> call.key, val |-> call.val]]
        /\ len' = len + 1
        /\ live' = live + 1
  /\ UNCHANGED <<cap, newer, walk>>

GetCall(k) ==
  /\ pc = "idle"
  /\ call' = Get(k) /\ answer' = NoValue
  /\ pc' = "probe"
  /\ idx' = Home(k, cap)
  /\ UNCHANGED <<entries, cap, len, newer, live, walk>>

(***************************************************************************)
(* A walk with hm_next, of a client that has its eye on one of the keys.   *)
(***************************************************************************)
WalkStart ==
  /\ pc = "idle"
  /\ \E i \in Used(entries) :
       walk' = [idx |-> 0, cap |-> cap, watch |-> entries[i].key, visits |-> 0]
  /\ UNCHANGED <<entries, cap, len, call, idx, newer, answer, pc, live>>

(* hm_next: on to the next used slot and past it, or to the end. *)
NotPast(i) == i                                                  \* mutant
Past(i)    == i + 1

WalkNext ==
  /\ pc = "idle"
  /\ walk # NoWalk /\ walk.idx < cap
  /\ LET ahead == {i \in Used(entries) : i >= walk.idx}
         i == CHOOSE j \in ahead : \A l \in ahead : j <= l
     IN walk' = IF ahead = {} THEN [walk EXCEPT !.idx = cap]
                ELSE [walk EXCEPT !.idx = Past(i),
                                  !.visits = IF entries[i].key = walk.watch
                                             THEN @ + 1 ELSE @]
  /\ UNCHANGED <<entries, cap, len, call, idx, newer, answer, pc, live>>

Stop == pc = "freed" /\ UNCHANGED vars

Next == \/ HmNew \/ HmFree
        \/ \E k \in Keys, v \in Values : SetCall(k, v)
        \/ \E k \in Keys : GetCall(k)
        \/ GrowStart \/ GrowMove \/ GrowEnd
        \/ ProbeOn \/ ProbeHit \/ ProbeMiss
        \/ WalkStart \/ WalkNext
        \/ Stop

Spec == Init /\ [][Next]_vars

(* A call is straight C: once it has begun it keeps running. *)
Calls    == GrowStart \/ GrowMove \/ GrowEnd \/ ProbeOn \/ ProbeHit \/ ProbeMiss
FairSpec == Spec /\ WF_vars(Calls)
=============================================================================
