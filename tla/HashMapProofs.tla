---------------------------- MODULE HashMapProofs ----------------------------
(***************************************************************************)
(* The invariants of the hash map, and that it implements Dictionary, for  *)
(* every set of keys, every hash function and every capacity asked for.    *)
(***************************************************************************)
EXTENDS HashMapProps, Facts

(***************************************************************************)
(* Probing a table of n slots.                                             *)
(***************************************************************************)
Tables(n) == [0..n - 1 -> Slots]

(* Every key of t is where a probe finds it; ProbeChain says so of both    *)
(* tables.                                                                 *)
Chained(t) ==
  \A i \in Used(t) :
    /\ \A j \in Used(t) : t[i].key = t[j].key => i = j
    /\ Chain(t, t[i].key, i) \subseteq Used(t)

(* A probe for k that stands at i has met other keys only. *)
Passed(t, n, k, i) ==
  \A d \in 0..((i - Home(k, n)) % n) - 1 :
    t[(Home(k, n) + d) % n].key \notin {NoKey, k}

(* A hash reduced to the table is one of its slots. *)
LEMMA HomeIsSlot ==
  ASSUME NEW n \in Nat, n > 0, NEW k \in Keys
  PROVE  Home(k, n) \in 0..n - 1
<1>1. hash_str(k) \in Nat
  BY HashAssumption
<1> QED BY <1>1 DEF Home

(* What a slot holds: a key and its value, or nothing. *)
LEMMA SlotFacts ==
  ASSUME NEW n \in Nat, NEW t \in Tables(n)
  PROVE  /\ Used(t) \subseteq 0..n - 1
         /\ \A i \in Used(t) : t[i].key \in Keys /\ t[i].val \in Values
         /\ \A i \in 0..n - 1 : t[i].key = NoKey \/ i \in Used(t)
         /\ IsFiniteSet(Used(t)) /\ Cardinality(Used(t)) \in 0..n
         /\ (\A i \in 0..n - 1 : i \in Used(t)) => Cardinality(Used(t)) = n
<1>1. Used(t) \subseteq 0..n - 1
  BY DEF Used, Tables
<1>2. \A i \in Used(t) : t[i].key \in Keys /\ t[i].val \in Values
  BY DEF Used, Tables, Slots, FreeSlot
<1>3. \A i \in 0..n - 1 : t[i].key = NoKey \/ i \in Used(t)
  BY DEF Used, Tables
<1>4. IsFiniteSet(Used(t)) /\ Cardinality(Used(t)) \in 0..n
  <2>1. IsFiniteSet(0..n - 1) /\ Cardinality(0..n - 1) = n
    BY SizeOfTable
  <2>2. IsFiniteSet(Used(t)) /\ Cardinality(Used(t)) <= n
    BY <1>1, <2>1, FS_Subset
  <2> QED BY <2>2, FS_CardinalityType
<1>5. (\A i \in 0..n - 1 : i \in Used(t)) => Cardinality(Used(t)) = n
  <2>1. ASSUME \A i \in 0..n - 1 : i \in Used(t) PROVE Used(t) = 0..n - 1
    BY <1>1, <2>1
  <2> QED BY <2>1, SizeOfTable
<1> QED BY <1>1, <1>2, <1>3, <1>4, <1>5

(* The chain of k up to i, with the size of the table spelt out. *)
LEMMA ChainSlots ==
  ASSUME NEW n \in Nat, NEW t \in Tables(n), NEW k, NEW i
  PROVE  Chain(t, k, i) = {(Home(k, n) + d) % n : d \in 0..((i - Home(k, n)) % n)}
<1>1. DOMAIN t = 0..n - 1
  BY DEF Tables
<1>2. Cardinality(DOMAIN t) = n
  BY <1>1, SizeOfTable
<1> QED BY <1>2, Zenon DEF Chain

(* It does not depend on what is in the table. *)
LEMMA SameChain ==
  ASSUME NEW n \in Nat, NEW t \in Tables(n), NEW u \in Tables(n), NEW k, NEW i
  PROVE  Chain(u, k, i) = Chain(t, k, i)
<1>1. Chain(t, k, i) = {(Home(k, n) + d) % n : d \in 0..((i - Home(k, n)) % n)}
  BY ChainSlots
<1>2. Chain(u, k, i) = {(Home(k, n) + d) % n : d \in 0..((i - Home(k, n)) % n)}
  BY ChainSlots
<1> QED BY <1>1, <1>2, Zenon

(* A probe for k that has passed other keys only and stands at a free slot *)
(* shows that k is nowhere in the table.                                   *)
LEMMA ProbeMisses ==
  ASSUME NEW n \in Nat, n > 0, NEW t \in Tables(n), Chained(t),
         NEW k \in Keys, NEW i \in 0..n - 1,
         t[i].key = NoKey, Passed(t, n, k, i)
  PROVE  \A j \in Used(t) : t[j].key # k
<1> SUFFICES ASSUME NEW j \in Used(t), t[j].key = k PROVE FALSE
  OBVIOUS
<1> DEFINE h == Home(k, n)
           di == (i - h) % n
           dj == (j - h) % n
<1>1. h \in 0..n - 1 /\ j \in 0..n - 1
  BY HomeIsSlot, SlotFacts
<1>2. /\ di \in 0..n - 1 /\ (h + di) % n = i
      /\ dj \in 0..n - 1 /\ (h + dj) % n = j
  BY <1>1, CircleRound
<1>3. CASE dj < di
  <2>1. dj \in 0..di - 1
    BY <1>2, <1>3
  <2>2. t[(h + dj) % n].key # k
    BY <2>1 DEF Passed
  <2> QED BY <2>2, <1>2
<1>4. CASE dj >= di
  <2>1. di \in 0..dj
    BY <1>2, <1>4
  <2>2. (h + di) % n \in Chain(t, k, j)
    BY <2>1, ChainSlots
  <2>3. i \in Used(t)
    BY <2>2, <1>2 DEF Chained
  <2> QED BY <2>3 DEF Used
<1> HIDE DEF h, di, dj
<1> QED BY <1>2, <1>3, <1>4

(* Storing k where such a probe stands keeps every key where a probe finds *)
(* it.                                                                     *)
LEMMA StoreKeepsChains ==
  ASSUME NEW n \in Nat, n > 0, NEW t \in Tables(n), Chained(t),
         NEW e \in Slots, e.key \in Keys, NEW i \in 0..n - 1,
         t[i].key = NoKey, Passed(t, n, e.key, i)
  PROVE  LET u == [t EXCEPT ![i] = e]
         IN /\ u \in Tables(n)
            /\ Used(u) = Used(t) \cup {i} /\ i \notin Used(t)
            /\ Cardinality(Used(u)) = Cardinality(Used(t)) + 1
            /\ Chained(u)
<1> DEFINE u == [t EXCEPT ![i] = e]
           k == e.key
           h == Home(k, n)
           di == (i - h) % n
<1>0. u \in Tables(n) /\ DOMAIN t = 0..n - 1 /\ DOMAIN u = 0..n - 1
  BY DEF Tables
<1>1. u[i] = e /\ \A j \in 0..n - 1 : j # i => u[j] = t[j]
  BY DEF Tables
<1>2. k # NoKey
  BY KeysAssumption
<1>3. Used(u) = Used(t) \cup {i} /\ i \notin Used(t)
  BY <1>0, <1>1, <1>2 DEF Used
<1>4. Cardinality(Used(u)) = Cardinality(Used(t)) + 1
  BY <1>3, SlotFacts, FS_AddElement
<1>5. \A j \in Used(t) : t[j].key # k
  BY ProbeMisses
<1>6. h \in 0..n - 1 /\ di \in 0..n - 1 /\ (h + di) % n = i
  BY HomeIsSlot, CircleRound
<1>7. Used(t) \subseteq 0..n - 1
  BY SlotFacts
<1> HIDE DEF u
<1>8. ASSUME NEW a \in Used(u), NEW b \in Used(u), u[a].key = u[b].key PROVE a = b
  BY <1>1, <1>3, <1>5, <1>7, <1>8 DEF Chained
<1>9. ASSUME NEW a \in Used(u) PROVE Chain(u, u[a].key, a) \subseteq Used(u)
  <2>1. CASE a # i
    <3>1. a \in Used(t) /\ u[a] = t[a]
      BY <2>1, <1>1, <1>3, <1>7
    <3>2. Chain(u, t[a].key, a) = Chain(t, t[a].key, a)
      BY <1>0, SameChain
    <3> QED BY <3>1, <3>2, <1>3 DEF Chained
  <2>2. CASE a = i
    <3>1. SUFFICES ASSUME NEW d \in 0..di PROVE (h + d) % n \in Used(u)
      <4>1. Chain(u, k, i) = {(h + d) % n : d \in 0..di}
        BY <1>0, ChainSlots
      <4>2. u[a].key = k
        BY <2>2, <1>1
      <4> QED BY <3>1, <4>1, <4>2, <2>2
    <3>2. CASE d = di
      BY <3>2, <1>6, <1>3
    <3>3. CASE d < di
      <4>1. d \in 0..di - 1
        BY <3>3, <1>6
      <4>2. t[(h + d) % n].key # NoKey
        BY <4>1 DEF Passed
      <4>3. (h + d) % n \in 0..n - 1
        BY <1>6, <4>1, CircleRound
      <4> HIDE DEF h
      <4> QED BY <4>2, <4>3, <1>3, <1>0 DEF Used
    <3> QED BY <3>2, <3>3, <1>6
  <2> QED BY <2>1, <2>2
<1>10. Chained(u)
  BY <1>8, <1>9 DEF Chained
<1> QED BY <1>0, <1>3, <1>4, <1>10 DEF u

(* A new value under a key that is there. *)
LEMMA OverwriteKeepsChains ==
  ASSUME NEW n \in Nat, NEW t \in Tables(n), Chained(t),
         NEW i \in Used(t), NEW v \in Values
  PROVE  LET u == [t EXCEPT ![i].val = v]
         IN /\ u \in Tables(n)
            /\ Used(u) = Used(t)
            /\ \A j \in Used(t) : u[j].key = t[j].key
            /\ u[i].val = v
            /\ \A j \in Used(t) : j # i => u[j] = t[j]
            /\ Chained(u)
<1> DEFINE u == [t EXCEPT ![i].val = v]
<1>1. i \in 0..n - 1 /\ Used(t) \subseteq 0..n - 1 /\ t[i] \in [key : Keys, val : Values]
  <2>1. t[i] \in Slots /\ t[i].key \in Keys
    BY SlotFacts DEF Tables
  <2> QED BY <2>1, SlotFacts, KeysAssumption DEF Slots, FreeSlot
<1>2. /\ u[i] = [key |-> t[i].key, val |-> v]
      /\ \A j \in 0..n - 1 : j # i => u[j] = t[j]
      /\ DOMAIN u = 0..n - 1 /\ DOMAIN t = 0..n - 1
  BY <1>1 DEF Tables
<1>3. u \in Tables(n)
  BY <1>1, <1>2 DEF Tables, Slots
<1>4. \A j \in 0..n - 1 : u[j].key = t[j].key
  BY <1>2
<1> HIDE DEF u
<1>5. Used(u) = Used(t)
  BY <1>2, <1>4 DEF Used
<1>6. Chained(u)
  <2>1. ASSUME NEW a \in Used(u) PROVE Chain(u, u[a].key, a) \subseteq Used(u)
    <3>1. Chain(u, t[a].key, a) = Chain(t, t[a].key, a)
      BY <1>3, SameChain
    <3> QED BY <3>1, <1>1, <1>4, <1>5 DEF Chained
  <2>2. \A a, b \in Used(u) : u[a].key = u[b].key => a = b
    BY <1>1, <1>4, <1>5 DEF Chained
  <2> QED BY <2>1, <2>2 DEF Chained
<1>7. u[i].val = v
  BY <1>2
<1> QED BY <1>1, <1>2, <1>3, <1>4, <1>5, <1>6, <1>7 DEF u

(* In a table with a free slot a probe for a key that is not there ends at *)
(* the first free one.                                                     *)
LEMMA ProbeEnds ==
  ASSUME NEW n \in Nat, n > 0, NEW t \in Tables(n), NEW k \in Keys,
         \A j \in Used(t) : t[j].key # k,
         Cardinality(Used(t)) < n
  PROVE  /\ ProbeEnd(t, k) \in 0..n - 1
         /\ t[ProbeEnd(t, k)].key = NoKey
         /\ Passed(t, n, k, ProbeEnd(t, k))
<1> DEFINE h == Home(k, n)
           D == {d \in 0..n - 1 : t[(h + d) % n].key = NoKey}
           Ends(d) == t[(h + d) % n].key = NoKey
                      /\ \A e \in 0..d - 1 : t[(h + e) % n].key # NoKey
           first == CHOOSE d \in 0..n - 1 : Ends(d)
<1>1. h \in 0..n - 1
  BY HomeIsSlot
<1>2. PICK i \in 0..n - 1 : t[i].key = NoKey
  BY SlotFacts
<1>3. (i - h) % n \in D
  BY <1>1, <1>2, CircleRound
<1>4. PICK d \in D : \A e \in D : d <= e
  <2>1. D \in SUBSET Nat /\ D # {}
    BY <1>3
  <2> QED BY <2>1, LeastNat
<1>5. d \in 0..n - 1 /\ Ends(d)
  <2>1. ASSUME NEW e \in 0..d - 1 PROVE t[(h + e) % n].key # NoKey
    <3>1. e \in 0..n - 1 /\ e \notin D
      BY <1>4
    <3> QED BY <3>1
  <2> QED BY <1>4, <2>1
<1> HIDE DEF Ends
<1>6. first \in 0..n - 1 /\ Ends(first)
  BY <1>5
<1>7. ProbeEnd(t, k) = (h + first) % n
  <2>1. Cardinality(DOMAIN t) = n
    <3>1. DOMAIN t = 0..n - 1
      BY DEF Tables
    <3> QED BY <3>1, SizeOfTable
  <2> QED BY <2>1, Zenon DEF ProbeEnd, Ends, NewHome
<1> HIDE DEF first, h
<1>8. /\ (h + first) % n \in 0..n - 1 /\ (((h + first) % n) - h) % n = first
      /\ \A e \in 0..n - 1 : (h + e) % n \in 0..n - 1
  BY <1>1, <1>6, CircleRound
<1>9. \A e \in 0..first - 1 : t[(h + e) % n].key \notin {NoKey, k}
  <2> TAKE e \in 0..first - 1
  <2>1. e \in 0..n - 1 /\ t[(h + e) % n].key # NoKey
    BY <1>6 DEF Ends
  <2>2. (h + e) % n \in Used(t)
    BY <2>1, <1>8, SlotFacts
  <2> QED BY <2>1, <2>2
<1>10. Passed(t, n, k, (h + first) % n)
  BY <1>8, <1>9 DEF Passed, h
<1> QED BY <1>6, <1>7, <1>8, <1>10 DEF Ends

(***************************************************************************)
(* Powers of two, and the table hm_new starts with.                        *)
(***************************************************************************)
LEMMA PowerDoubles ==
  ASSUME NEW c \in Nat, PowerOfTwo(c)
  PROVE  PowerOfTwo(2 * c)
<1>1. SUFFICES ASSUME NEW d \in 2..2 * c, (2 * c) % d = 0, d % 2 # 0 PROVE FALSE
  BY DEF PowerOfTwo
<1>2. PICK q \in Nat : 2 * c = d * q
  BY <1>1
<1>3. PICK a \in Nat : d = 2 * a + 1
  BY <1>1
<1>4. q % 2 = 0
  <2>1. SUFFICES ASSUME q % 2 = 1 PROVE FALSE
    BY <1>2
  <2>2. PICK b \in Nat : q = 2 * b + 1
    BY <2>1
  <2>3. d * q = 2 * (2 * a * b + a + b) + 1
    BY <1>3, <2>2
  <2>4. PICK e \in Nat : e = 2 * a * b + a + b
    OBVIOUS
  <2> QED BY <2>3, <2>4, <1>2
<1>5. PICK b \in Nat : q = 2 * b
  BY <1>4
<1>6. c = d * b
  <2>1. 2 * c = 2 * (d * b)
    BY <1>2, <1>5
  <2> QED BY <2>1
<1>7. d <= c
  <2>1. b > 0
    BY <1>6 DEF PowerOfTwo
  <2> QED BY <1>6, <2>1
<1>8. c % d = 0
  BY <1>6
<1> QED BY <1>1, <1>7, <1>8 DEF PowerOfTwo

LEMMA PowerBetween ==
  ASSUME NEW n \in Nat, n > 0
  PROVE  \E q \in n..2 * n - 1 : PowerOfTwo(q)
<1> DEFINE S == {m \in Nat : m = 0 \/ \E q \in m..2 * m - 1 : PowerOfTwo(q)}
<1>1. 0 \in S
  OBVIOUS
<1>2. ASSUME NEW m \in S PROVE m + 1 \in S
  <2>1. CASE m = 0
    <3>1. PowerOfTwo(1)
      BY DEF PowerOfTwo
    <3> QED BY <2>1, <3>1
  <2>2. CASE m # 0
    <3>1. PICK q \in m..2 * m - 1 : PowerOfTwo(q)
      BY <2>2
    <3>2. CASE q = m
      <4>1. PowerOfTwo(2 * q) /\ 2 * q \in m + 1..2 * (m + 1) - 1
        BY <3>1, <3>2, <2>2, PowerDoubles
      <4> QED BY <4>1
    <3>3. CASE q > m
      BY <3>1, <3>3
    <3> QED BY <3>1, <3>2, <3>3
  <2> QED BY <2>1, <2>2
<1>3. S = Nat
  <2>1. S \in SUBSET Nat
    OBVIOUS
  <2> HIDE DEF S
  <2> QED BY <1>1, <1>2, <2>1, SetInduction
<1> QED BY <1>3

LEMMA NextPowerOfTwo ==
  ASSUME NEW n \in Nat, n >= 4
  PROVE  next_pow2(n) \in Nat /\ next_pow2(n) >= 4 /\ PowerOfTwo(next_pow2(n))
<1> DEFINE S == {q \in Nat : q >= n /\ PowerOfTwo(q)}
           First(q) == PowerOfTwo(q) /\ \A r \in n..q - 1 : ~PowerOfTwo(r)
<1>1. PICK q \in S : \A r \in S : q <= r
  <2>1. S \in SUBSET Nat /\ S # {}
    BY PowerBetween
  <2> QED BY <2>1, LeastNat
<1>2. PICK b \in n..2 * n - 1 : PowerOfTwo(b)
  BY PowerBetween
<1>3. q \in n..2 * n /\ First(q)
  <2>1. q <= b
    BY <1>1, <1>2
  <2>2. ASSUME NEW r \in n..q - 1 PROVE ~PowerOfTwo(r)
    BY <1>1, <2>2
  <2> QED BY <1>1, <1>2, <2>1, <2>2
<1> HIDE DEF First
<1>4. next_pow2(n) = CHOOSE r \in n..2 * n : First(r)
  BY DEF next_pow2, First
<1>5. next_pow2(n) \in n..2 * n /\ First(next_pow2(n))
  BY <1>3, <1>4
<1> QED BY <1>5 DEF First

LEMMA EmptyTable ==
  ASSUME NEW n \in Nat
  PROVE  /\ NewTable(n) \in Tables(n)
         /\ Used(NewTable(n)) = {}
         /\ Chained(NewTable(n))
<1>1. NewTable(n) \in Tables(n)
  BY DEF NewTable, Tables, Slots
<1>2. Used(NewTable(n)) = {}
  BY DEF NewTable, Used, FreeSlot
<1> QED BY <1>1, <1>2 DEF Chained

LEMMA NoTable ==
  ASSUME NEW t \in [{} -> Slots]
  PROVE  Used(t) = {} /\ Chained(t)
BY DEF Used, Chained

(***************************************************************************)
(* The inductive invariant.                                                *)
(***************************************************************************)
Busy == pc \notin {"none", "freed"}

(* Before hm_new there is nothing. *)
Fresh == pc = "none" => cap = 0 /\ len = 0 /\ walk = NoWalk

(* The probe under way has met other keys only, and one of hm_set's has    *)
(* room for another key: that is what the load test is for.                *)
Probing ==
  pc = "probe" => /\ Passed(entries, cap, call.key, idx)
                  /\ call.fn = "set" => len * 10 < cap * 7

(* The table that grows holds what was moved so far. *)
MovedSlots == {j \in Used(entries) : j < idx}
Moved ==
  pc = "move" =>
    /\ \A i \in Used(newer) : \E j \in MovedSlots : newer[i] = entries[j]
    /\ \A j \in MovedSlots : \E i \in Used(newer) : newer[i] = entries[j]
    /\ Cardinality(Used(newer)) = Cardinality(MovedSlots)
Growing == pc \in {"grow", "move"} => call \in Sets

(* The map, its table, each key, and the new table are a block each. *)
Blocks == live = IF ~Busy THEN 0 ELSE 2 + len + (IF pc = "move" THEN 1 ELSE 0)

(* The key that is watched has been met if the walk is past it. *)
Met(i) == /\ entries[i].key = walk.watch
          /\ walk.visits = IF i < walk.idx THEN 1 ELSE 0
Walked == walk # NoWalk => /\ Busy
                           /\ walk.cap > 0 /\ walk.cap <= cap
                           /\ walk.cap = cap => \E i \in Used(entries) : Met(i)

IInv == /\ TypeOK /\ ProbeChain /\ RoomLeft
        /\ Fresh /\ Probing /\ Moved /\ Growing /\ Blocks /\ Walked

(* What it says of the tables. *)
LEMMA TableFacts ==
  ASSUME IInv, Busy
  PROVE  /\ cap \in Nat /\ cap >= 4
         /\ entries \in Tables(cap) /\ Chained(entries)
         /\ len = Cardinality(Used(entries)) /\ len < cap /\ len \in Nat
         /\ Chained(newer)
         /\ pc = "move" => newer \in Tables(2 * cap)
BY DEF IInv, TypeOK, ProbeChain, Chained, RoomLeft, Busy, Tables

LEMMA InitInv == Init => IInv
<1> SUFFICES ASSUME Init PROVE IInv
  OBVIOUS
<1>1. entries \in [0..cap - 1 -> Slots] /\ newer \in [{} -> Slots]
  BY DEF Init, NewTable, Slots
<1>2. TypeOK
  BY <1>1 DEF Init, TypeOK, NoCall, NoWalk
<1>3. ProbeChain
  <2>1. Chained(entries) /\ Chained(newer)
    BY EmptyTable DEF Init
  <2> QED BY <2>1 DEF ProbeChain, Chained
<1> QED BY <1>2, <1>3 DEF Init, IInv, RoomLeft, Fresh, Probing, Moved, Growing, Blocks,
           Busy, Walked

LEMMA HmNewInv == IInv /\ HmNew => IInv'
<1> SUFFICES ASSUME IInv, HmNew PROVE IInv'
  OBVIOUS
<1>0. /\ pc = "none" /\ cap = 0 /\ len = 0 /\ walk = NoWalk /\ live = 0
      /\ len' = len /\ walk' = walk
      /\ entries \in [{} -> Slots] /\ newer \in [{} -> Slots] /\ newer' = newer
      /\ call = NoCall /\ call' = call /\ answer' = answer
      /\ answer \in Values \cup {NoValue} \cup BOOLEAN
  BY DEF IInv, HmNew, Fresh, Blocks, Busy, TypeOK
<1>1. CASE pc' = "freed"
  <2>1. entries' = entries /\ cap' = cap /\ live' = live
    BY <1>1 DEF HmNew
  <2>2. TypeOK'
    BY <1>0, <1>1, <2>1 DEF TypeOK, NoWalk
  <2>3. ProbeChain'
    <3>1. Chained(entries') /\ Chained(newer')
      BY <1>0, <2>1, NoTable
    <3> QED BY <3>1 DEF ProbeChain, Chained
  <2> QED BY <1>0, <1>1, <2>1, <2>2, <2>3
          DEF IInv, RoomLeft, Fresh, Probing, Moved, Growing, Blocks, Busy, Walked
<1>2. CASE pc' # "freed"
  <2>1. PICK n \in Asked : cap' = next_pow2(IF n < 4 THEN 4 ELSE n)
    BY <1>2 DEF HmNew
  <2>2. cap' \in Nat /\ cap' >= 4 /\ PowerOfTwo(cap')
    <3>1. n \in Nat
      BY AskedAssumption
    <3> QED BY <2>1, <3>1, NextPowerOfTwo
  <2>3. entries' = NewTable(cap') /\ pc' = "idle" /\ live' = 2
    BY <1>2 DEF HmNew
  <2>4. entries' \in Tables(cap') /\ Used(entries') = {} /\ Chained(entries')
    BY <2>2, <2>3, EmptyTable
  <2>5. TypeOK'
    BY <1>0, <2>2, <2>3, <2>4 DEF TypeOK, Tables, NoWalk
  <2>6. ProbeChain'
    <3>1. Chained(newer')
      BY <1>0, NoTable
    <3> QED BY <2>4, <3>1 DEF ProbeChain, Chained
  <2>7. RoomLeft'
    BY <1>0, <2>2, <2>4, FS_EmptySet DEF RoomLeft
  <2> QED BY <1>0, <2>3, <2>5, <2>6, <2>7
          DEF IInv, Fresh, Probing, Moved, Growing, Blocks, Busy, Walked
<1> QED BY <1>1, <1>2

LEMMA HmFreeInv == IInv /\ HmFree => IInv'
<1> SUFFICES ASSUME IInv, HmFree PROVE IInv'
  OBVIOUS
<1>0. /\ pc = "idle" /\ pc' = "freed" /\ entries' = NewTable(0) /\ walk' = NoWalk
      /\ live' = live - Cardinality(Used(entries)) - 2
      /\ UNCHANGED <<cap, len, call, idx, newer, answer>>
  BY DEF HmFree
<1>1. live' = 0
  BY <1>0, TableFacts DEF IInv, Blocks, Busy
<1>2. entries' \in [{} -> Slots]
  BY <1>0, EmptyTable DEF Tables
<1>3. TypeOK'
  BY <1>0, <1>1, <1>2 DEF IInv, TypeOK, NoWalk
<1>4. ProbeChain'
  <2>1. Chained(entries') /\ Chained(newer')
    BY <1>0, <1>2, NoTable, TableFacts DEF Busy
  <2> QED BY <2>1 DEF ProbeChain, Chained
<1> QED BY <1>0, <1>1, <1>3, <1>4
        DEF IInv, RoomLeft, Fresh, Probing, Moved, Growing, Blocks, Busy, Walked

(* A call begins: its probe stands at the home slot and has passed nothing.*)
LEMMA BeginInv ==
  ASSUME IInv, pc = "idle", NEW k \in Keys,
         call' \in Sets \cup Gets, call'.key = k,
         \/ pc' = "grow" /\ call' \in Sets
         \/ pc' = "probe" /\ (call'.fn = "set" => ~Full),
         answer' = NoValue, idx' = Home(k, cap),
         UNCHANGED <<entries, cap, len, newer, live, walk>>
  PROVE  IInv'
<1>0. /\ cap \in Nat /\ cap >= 4 /\ len \in Nat
      /\ idx' \in 0..cap - 1
  BY TableFacts, HomeIsSlot DEF Busy
<1>1. TypeOK'
  BY <1>0 DEF IInv, TypeOK
<1>2. Probing'
  <2>1. (idx' - Home(k, cap)) % cap = 0
    BY <1>0
  <2>2. Passed(entries', cap', call'.key, idx')
    BY <2>1 DEF Passed
  <2> QED BY <1>0, <2>2 DEF Probing, Full
<1>3. Walked'
  BY DEF IInv, Walked, Met, Busy
<1>4. Growing' /\ Fresh' /\ Moved'
  BY DEF Sets, Gets, Growing, Fresh, Moved
<1> QED BY <1>0, <1>1, <1>2, <1>3, <1>4
        DEF IInv, ProbeChain, RoomLeft, Blocks, Busy

LEMMA SetCallInv == ASSUME IInv, NEW k \in Keys, NEW v \in Values, SetCall(k, v) PROVE IInv'
<1>1. call' \in Sets /\ call'.key = k /\ call'.fn = "set"
  BY DEF SetCall, Set, Sets
<1> QED BY <1>1, BeginInv DEF SetCall

LEMMA GetCallInv == ASSUME IInv, NEW k \in Keys, GetCall(k) PROVE IInv'
<1>1. call' \in Gets /\ call'.key = k /\ call'.fn = "get"
  BY DEF GetCall, Get, Gets
<1> QED BY <1>1, BeginInv DEF GetCall

LEMMA GrowStartInv == IInv /\ GrowStart => IInv'
<1> SUFFICES ASSUME IInv, GrowStart PROVE IInv'
  OBVIOUS
<1>0. /\ pc = "grow" /\ UNCHANGED <<entries, cap, len, walk>>
      /\ cap \in Nat /\ cap >= 4 /\ len \in Nat
      /\ newer \in [{} -> Slots] /\ call \in Sets
  BY TableFacts DEF GrowStart, Busy, IInv, TypeOK, Growing
<1>1. CASE pc' = "move"
  <2>0. /\ newer' = NewTable(2 * cap) /\ idx' = 0 /\ live' = live + 1
        /\ UNCHANGED <<call, answer>>
    BY <1>1 DEF GrowStart, Answer
  <2>1. newer' \in Tables(2 * cap) /\ Used(newer') = {} /\ Chained(newer')
    BY <1>0, <2>0, EmptyTable
  <2>2. TypeOK'
    BY <1>0, <1>1, <2>0, <2>1 DEF IInv, TypeOK, Tables
  <2>3. ProbeChain'
    BY <1>0, <2>1, TableFacts DEF ProbeChain, Chained, Busy
  <2>4. Moved'
    <3>1. MovedSlots' = {}
      BY <1>0, <2>0, TableFacts, SlotFacts DEF MovedSlots, Busy
    <3> QED BY <2>1, <3>1 DEF Moved
  <2>5. Walked'
    BY <1>0, <1>1 DEF IInv, Walked, Met, Busy
  <2> QED BY <1>0, <1>1, <2>0, <2>2, <2>3, <2>4, <2>5
          DEF IInv, RoomLeft, Fresh, Probing, Growing, Blocks, Busy
<1>2. CASE pc' # "move"
  <2>0. Answer(FALSE) /\ UNCHANGED <<newer, live>>
    BY <1>2 DEF GrowStart
  <2>1. TypeOK'
    BY <1>0, <2>0 DEF IInv, TypeOK, Answer
  <2>2. Walked'
    BY <1>0, <2>0 DEF IInv, Walked, Met, Busy, Answer
  <2> QED BY <1>0, <2>0, <2>1, <2>2
          DEF IInv, ProbeChain, RoomLeft, Fresh, Probing, Moved, Growing, Blocks, Busy, Answer
<1> QED BY <1>1, <1>2

(* The entry that is moved has its key from the old table, where it is     *)
(* stored once: it is new to the table that grows.                         *)
LEMMA GrowMoveInv == IInv /\ GrowMove => IInv'
<1> SUFFICES ASSUME IInv, GrowMove PROVE IInv'
  OBVIOUS
<1>0. /\ pc = "move" /\ idx < cap /\ idx' = idx + 1
      /\ UNCHANGED <<entries, cap, len, call, answer, pc, live, walk>>
      /\ idx \in 0..cap - 1
      /\ cap \in Nat /\ cap >= 4 /\ newer \in Tables(2 * cap) /\ Chained(newer)
      /\ entries \in Tables(cap) /\ Chained(entries)
      /\ Cardinality(Used(entries)) < cap
  <2>1. pc = "move" /\ idx < cap /\ idx \in 0..cap
    BY DEF GrowMove, IInv, TypeOK
  <2> QED BY <2>1, TableFacts DEF GrowMove, Busy
<1>1. /\ MovedSlots \subseteq Used(entries) /\ MovedSlots \subseteq 0..idx - 1
      /\ IsFiniteSet(MovedSlots) /\ Cardinality(MovedSlots) < cap
      /\ Cardinality(MovedSlots) \in Nat
  <2>1. IsFiniteSet(Used(entries)) /\ Used(entries) \subseteq 0..cap - 1
    BY <1>0, SlotFacts
  <2>2. MovedSlots \subseteq Used(entries)
    BY DEF MovedSlots
  <2>3. IsFiniteSet(MovedSlots) /\ Cardinality(MovedSlots) <= Cardinality(Used(entries))
    BY <2>1, <2>2, FS_Subset
  <2>4. Cardinality(MovedSlots) \in Nat /\ Cardinality(Used(entries)) \in Nat
    BY <2>1, <2>3, FS_CardinalityType
  <2> QED BY <1>0, <2>1, <2>2, <2>3, <2>4 DEF MovedSlots
<1>2. /\ newer' \in Tables(2 * cap)
      /\ Chained(newer')
      /\ Moved'
  <2>1. CASE entries[idx].key = NoKey
    <3>1. newer' = newer /\ idx \notin Used(entries)
      BY <1>0, <2>1 DEF GrowMove, Used
    <3>2. MovedSlots' = MovedSlots
      <4>1. Used(entries) \subseteq 0..cap - 1
        BY <1>0, SlotFacts
      <4> QED BY <1>0, <3>1, <4>1 DEF MovedSlots
    <3> QED BY <1>0, <3>1, <3>2 DEF IInv, Moved
  <2>2. CASE entries[idx].key # NoKey
    <3> DEFINE e == entries[idx]
               i == ProbeEnd(newer, e.key)
    <3>1. idx \in Used(entries) /\ e \in Slots /\ e.key \in Keys
      BY <1>0, <2>2, SlotFacts DEF Tables
    <3>2. newer' = [newer EXCEPT ![i] = e]
      BY <2>2 DEF GrowMove
    <3>3. \A j \in Used(newer) : newer[j].key # e.key
      <4>1. SUFFICES ASSUME NEW j \in Used(newer), newer[j].key = e.key PROVE FALSE
        OBVIOUS
      <4>2. PICK l \in MovedSlots : newer[j] = entries[l]
        BY <1>0 DEF IInv, Moved
      <4>3. l = idx
        BY <1>0, <1>1, <3>1, <4>1, <4>2 DEF Chained
      <4> QED BY <4>3, <1>1, <1>0
    <3>4. Cardinality(Used(newer)) = Cardinality(MovedSlots)
      BY <1>0 DEF IInv, Moved
    <3>5. /\ i \in 0..2 * cap - 1 /\ newer[i].key = NoKey
          /\ Passed(newer, 2 * cap, e.key, i)
      <4>1. Cardinality(Used(newer)) < 2 * cap /\ 2 * cap \in Nat /\ 2 * cap > 0
        BY <1>0, <1>1, <3>4
      <4> HIDE DEF e
      <4> QED BY <1>0, <3>1, <3>3, <4>1, ProbeEnds
    <3> HIDE DEF e, i
    <3>6. /\ newer' \in Tables(2 * cap)
          /\ Used(newer') = Used(newer) \cup {i} /\ i \notin Used(newer)
          /\ Cardinality(Used(newer')) = Cardinality(Used(newer)) + 1
          /\ Chained(newer')
      <4> DEFINE n == 2 * cap
                 u == [newer EXCEPT ![i] = e]
      <4>1. n \in Nat /\ n > 0
        BY <1>0
      <4>2. newer \in Tables(n) /\ i \in 0..n - 1 /\ Passed(newer, n, e.key, i)
        BY <1>0, <3>5
      <4> HIDE DEF n
      <4>3. /\ u \in Tables(n)
            /\ Used(u) = Used(newer) \cup {i} /\ i \notin Used(newer)
            /\ Cardinality(Used(u)) = Cardinality(Used(newer)) + 1
            /\ Chained(u)
        BY <1>0, <3>1, <3>5, <4>1, <4>2, StoreKeepsChains
      <4> QED BY <3>2, <4>3 DEF n
    <3>7. MovedSlots' = MovedSlots \cup {idx} /\ idx \notin MovedSlots
      BY <1>0, <1>1, <3>1, SlotFacts DEF MovedSlots
    <3>8. Cardinality(MovedSlots') = Cardinality(MovedSlots) + 1
      BY <1>1, <3>7, FS_AddElement
    <3>9. newer'[i] = e /\ \A j \in Used(newer) : newer'[j] = newer[j]
      BY <1>0, <3>2, <3>5, <3>6, SlotFacts DEF Tables
    <3>10. \A a \in Used(newer') : \E j \in MovedSlots' : newer'[a] = entries'[j]
      <4> TAKE a \in Used(newer')
      <4>1. CASE a = i
        BY <4>1, <3>7, <3>9, <1>0 DEF e
      <4>2. CASE a # i
        <5>1. a \in Used(newer)
          BY <4>2, <3>6
        <5>2. PICK j \in MovedSlots : newer[a] = entries[j]
          BY <5>1, <1>0 DEF IInv, Moved
        <5> QED BY <5>1, <5>2, <3>7, <3>9, <1>0
      <4> QED BY <4>1, <4>2
    <3>11. \A j \in MovedSlots' : \E a \in Used(newer') : newer'[a] = entries'[j]
      <4> TAKE j \in MovedSlots'
      <4>1. CASE j = idx
        BY <4>1, <3>6, <3>9, <1>0 DEF e
      <4>2. CASE j # idx
        <5>1. j \in MovedSlots
          BY <4>2, <3>7
        <5>2. PICK a \in Used(newer) : newer[a] = entries[j]
          BY <5>1, <1>0 DEF IInv, Moved
        <5> QED BY <5>2, <3>6, <3>9, <1>0
      <4> QED BY <4>1, <4>2
    <3> QED BY <1>0, <3>4, <3>6, <3>8, <3>10, <3>11 DEF Moved
  <2> QED BY <2>1, <2>2
<1>3. TypeOK'
  BY <1>0, <1>2 DEF IInv, TypeOK, Tables
<1>4. ProbeChain'
  BY <1>0, <1>2 DEF ProbeChain, Chained
<1>5. Walked'
  BY <1>0 DEF IInv, Walked, Met, Busy
<1> QED BY <1>0, <1>2, <1>3, <1>4, <1>5
        DEF IInv, RoomLeft, Fresh, Probing, Growing, Blocks, Busy

(* The new table holds what the old one held, in as many slots. *)
LEMMA GrowEndInv == IInv /\ GrowEnd => IInv'
<1> SUFFICES ASSUME IInv, GrowEnd PROVE IInv'
  OBVIOUS
<1>0. /\ pc = "move" /\ idx = cap /\ pc' = "probe"
      /\ entries' = newer /\ newer' = NewTable(0) /\ cap' = 2 * cap
      /\ idx' = Home(call.key, cap') /\ live' = live - 1
      /\ UNCHANGED <<len, call, answer, walk>>
      /\ cap \in Nat /\ cap >= 4 /\ newer \in Tables(2 * cap) /\ Chained(newer)
      /\ entries \in Tables(cap) /\ len < cap /\ len \in Nat
      /\ len = Cardinality(Used(entries))
      /\ call \in Sets
  <2>1. pc = "move"
    BY DEF GrowEnd
  <2> QED BY <2>1, TableFacts DEF GrowEnd, Released, Busy, IInv, Growing
<1>1. MovedSlots = Used(entries)
  BY <1>0, SlotFacts DEF MovedSlots
<1>2. len = Cardinality(Used(newer))
  BY <1>0, <1>1 DEF IInv, Moved
<1>3. idx' \in 0..cap' - 1
  <2>1. call.key \in Keys
    BY <1>0 DEF Sets
  <2>2. cap' \in Nat /\ cap' > 0
    BY <1>0
  <2> QED BY <1>0, <2>1, <2>2, HomeIsSlot
<1>4. newer' \in [{} -> Slots] /\ Chained(newer')
  BY <1>0, EmptyTable DEF Tables
<1>5. TypeOK'
  <2>1. PowerOfTwo(cap') /\ cap' \in Nat /\ cap' >= 4
    <3>1. PowerOfTwo(cap)
      BY <1>0 DEF IInv, TypeOK
    <3> QED BY <1>0, <3>1, PowerDoubles
  <2>2. entries' \in [0..cap' - 1 -> Slots]
    BY <1>0 DEF Tables
  <2>3. walk' \in [idx : 0..cap', cap : Nat, watch : Keys \cup {NoKey}, visits : Nat]
    BY <1>0 DEF IInv, TypeOK
  <2>4. live' \in Nat
    BY <1>0 DEF IInv, Blocks, Busy
  <2> QED BY <1>0, <1>3, <1>4, <2>1, <2>2, <2>3, <2>4 DEF IInv, TypeOK
<1>6. ProbeChain'
  BY <1>0, <1>4 DEF ProbeChain, Chained
<1>7. Probing'
  <2>1. (idx' - Home(call.key, cap')) % cap' = 0
    BY <1>0, <1>3
  <2>2. Passed(entries', cap', call'.key, idx')
    BY <1>0, <2>1 DEF Passed
  <2> QED BY <1>0, <2>2 DEF Probing
<1>8. Walked'
  BY <1>0 DEF IInv, Walked, Met, Busy, TypeOK
<1> QED BY <1>0, <1>2, <1>5, <1>6, <1>7, <1>8
        DEF IInv, RoomLeft, Fresh, Moved, Growing, Blocks, Busy

(* What an invariant probe knows of the slot it looks at. *)
LEMMA ProbeFacts ==
  ASSUME IInv, pc = "probe"
  PROVE  /\ cap \in Nat /\ cap >= 4 /\ entries \in Tables(cap) /\ Chained(entries)
         /\ len \in Nat /\ len < cap /\ len = Cardinality(Used(entries))
         /\ idx \in 0..cap - 1 /\ call \in Sets \cup Gets /\ call.key \in Keys
         /\ newer \in [{} -> Slots] /\ Chained(newer)
         /\ Passed(entries, cap, call.key, idx)
         /\ call.fn = "set" => len * 10 < cap * 7 /\ call \in Sets
         /\ call.fn = "get" => call \in Gets
         /\ entries[idx].key # NoKey => idx \in Used(entries)
         /\ live = 2 + len
<1>1. /\ idx \in 0..cap - 1 /\ call \in Sets \cup Gets /\ call.key \in Keys
      /\ newer \in [{} -> Slots]
      /\ call.fn = "set" => call \in Sets
      /\ call.fn = "get" => call \in Gets
  BY DEF IInv, TypeOK, Sets, Gets
<1>2. live = 2 + len
  BY TableFacts DEF IInv, Blocks, Busy
<1> QED BY <1>1, <1>2, TableFacts, SlotFacts DEF IInv, Probing, Busy

LEMMA ProbeOnInv == IInv /\ ProbeOn => IInv'
<1> SUFFICES ASSUME IInv, ProbeOn PROVE IInv'
  OBVIOUS
<1>0. /\ pc = "probe" /\ entries[idx].key \notin {NoKey, call.key}
      /\ idx' = (idx + 1) % cap
      /\ UNCHANGED <<entries, cap, len, call, newer, answer, pc, live, walk>>
  BY DEF ProbeOn, SameKey, After
<1> DEFINE h == Home(call.key, cap)
<1>1. /\ idx' \in 0..cap - 1 /\ h \in 0..cap - 1
      /\ (idx' - h) % cap = IF (idx - h) % cap = cap - 1 THEN 0 ELSE ((idx - h) % cap) + 1
      /\ (idx - h) % cap \in 0..cap - 1 /\ (h + ((idx - h) % cap)) % cap = idx
  <2>1. h \in 0..cap - 1 /\ cap \in Nat /\ idx \in 0..cap - 1
    BY <1>0, ProbeFacts, HomeIsSlot
  <2> HIDE DEF h
  <2>2. /\ (idx + 1) % cap \in 0..cap - 1
        /\ (((idx + 1) % cap) - h) % cap =
             IF (idx - h) % cap = cap - 1 THEN 0 ELSE ((idx - h) % cap) + 1
    BY <2>1, CircleNext
  <2>3. (idx - h) % cap \in 0..cap - 1 /\ (h + ((idx - h) % cap)) % cap = idx
    BY <2>1, CircleRound
  <2> QED BY <1>0, <2>1, <2>2, <2>3, Zenon
<1> HIDE DEF h
<1>2. \A d \in 0..((idx' - h) % cap) - 1 : entries[(h + d) % cap].key \notin {NoKey, call.key}
  <2> TAKE d \in 0..((idx' - h) % cap) - 1
  <2>1. CASE d = (idx - h) % cap
    BY <2>1, <1>0, <1>1
  <2>2. CASE d # (idx - h) % cap
    <3> DEFINE far == (idx - h) % cap
    <3>1. d \in 0..far - 1
      <4>1. (idx' - h) % cap = IF far = cap - 1 THEN 0 ELSE far + 1
        BY <1>1
      <4>2. far \in 0..cap - 1 /\ cap \in Nat /\ d # far
        BY <2>2, <1>1, <1>0, ProbeFacts
      <4>3. d \in 0..(IF far = cap - 1 THEN 0 ELSE far + 1) - 1
        BY <4>1
      <4> HIDE DEF far
      <4> QED BY <4>2, <4>3
    <3>2. Passed(entries, cap, call.key, idx)
      BY <1>0, ProbeFacts
    <3> QED BY <3>1, <3>2 DEF Passed, h
  <2> QED BY <2>1, <2>2
<1>3. Probing'
  <2>1. Passed(entries', cap', call'.key, idx')
    BY <1>0, <1>2 DEF Passed, h
  <2> QED BY <1>0, <2>1 DEF IInv, Probing
<1>4. TypeOK'
  BY <1>0, <1>1 DEF IInv, TypeOK
<1>5. Walked'
  BY <1>0 DEF IInv, Walked, Met, Busy
<1> QED BY <1>0, <1>3, <1>4, <1>5
        DEF IInv, ProbeChain, RoomLeft, Fresh, Moved, Growing, Blocks, Busy

LEMMA ProbeHitInv == IInv /\ ProbeHit => IInv'
<1> SUFFICES ASSUME IInv, ProbeHit PROVE IInv'
  OBVIOUS
<1>0. /\ pc = "probe" /\ entries[idx].key # NoKey /\ entries[idx].key = call.key
      /\ UNCHANGED <<cap, len, newer, live, walk>>
      /\ call' = NoCall /\ pc' = "idle" /\ idx' = 0
  BY DEF ProbeHit, SameKey, Answer
<1>1. /\ entries' \in Tables(cap) /\ Used(entries') = Used(entries)
      /\ \A j \in Used(entries) : entries'[j].key = entries[j].key
      /\ Chained(entries')
      /\ answer' \in Values \cup BOOLEAN
  <2>1. CASE call.fn = "set"
    <3>1. entries' = [entries EXCEPT ![idx].val = call.val] /\ answer' = TRUE
      BY <2>1 DEF ProbeHit, Answer
    <3>2. call.val \in Values /\ idx \in Used(entries) /\ entries \in Tables(cap)
          /\ Chained(entries) /\ cap \in Nat
      BY <1>0, <2>1, ProbeFacts DEF Sets
    <3> DEFINE u == [entries EXCEPT ![idx].val = call.val]
    <3>3. /\ u \in Tables(cap) /\ Used(u) = Used(entries)
          /\ \A j \in Used(entries) : u[j].key = entries[j].key
          /\ Chained(u)
      BY <3>2, OverwriteKeepsChains
    <3> QED BY <3>1, <3>3
  <2>2. CASE call.fn # "set"
    <3>1. entries' = entries /\ answer' = entries[idx].val
      BY <2>2 DEF ProbeHit, Answer
    <3> QED BY <1>0, <3>1, ProbeFacts, SlotFacts
  <2> QED BY <2>1, <2>2
<1>2. TypeOK'
  BY <1>0, <1>1, ProbeFacts DEF IInv, TypeOK, Tables
<1>3. ProbeChain'
  BY <1>0, <1>1, ProbeFacts DEF ProbeChain, Chained
<1>4. Walked'
  BY <1>0, <1>1 DEF IInv, Walked, Met, Busy
<1> QED BY <1>0, <1>1, <1>2, <1>3, <1>4
        DEF IInv, RoomLeft, Fresh, Probing, Moved, Growing, Blocks, Busy

LEMMA ProbeMissInv == IInv /\ ProbeMiss => IInv'
<1> SUFFICES ASSUME IInv, ProbeMiss PROVE IInv'
  OBVIOUS
<1>0. /\ pc = "probe" /\ entries[idx].key = NoKey
      /\ UNCHANGED <<cap, newer, walk>>
      /\ call' = NoCall /\ pc' = "idle" /\ idx' = 0
  BY DEF ProbeMiss, Answer
<1>1. CASE UNCHANGED <<entries, len, live>> /\ answer' \in {NoValue, FALSE}
  <2>1. TypeOK'
    BY <1>0, <1>1 DEF IInv, TypeOK
  <2>2. Walked'
    BY <1>0, <1>1 DEF IInv, Walked, Met, Busy
  <2> QED BY <1>0, <1>1, <2>1, <2>2
          DEF IInv, ProbeChain, RoomLeft, Fresh, Probing, Moved, Growing, Blocks, Busy
<1>2. CASE /\ call.fn = "set" /\ answer' = TRUE
           /\ entries' = [entries EXCEPT ![idx] = [key |-> call.key, val |-> call.val]]
           /\ len' = len + 1 /\ live' = live + 1
  <2> DEFINE e == [key |-> call.key, val |-> call.val]
             u == [entries EXCEPT ![idx] = e]
  <2>1. /\ e \in Slots /\ e.key \in Keys /\ e.key = call.key
        /\ cap > 0 /\ Passed(entries, cap, e.key, idx)
    BY <1>0, <1>2, ProbeFacts DEF Sets, Slots
  <2> HIDE DEF e
  <2>2. /\ u \in Tables(cap)
        /\ Used(u) = Used(entries) \cup {idx} /\ idx \notin Used(entries)
        /\ Cardinality(Used(u)) = Cardinality(Used(entries)) + 1
        /\ Chained(u)
    BY <1>0, <2>1, ProbeFacts, StoreKeepsChains
  <2>3. entries' = u
    BY <1>2 DEF e
  <2>4. \A j \in Used(entries) : entries'[j] = entries[j]
    BY <1>0, <2>2, <2>3, ProbeFacts, SlotFacts DEF Tables
  <2> HIDE DEF u
  <2>5. TypeOK'
    BY <1>0, <1>2, <2>2, <2>3, ProbeFacts DEF IInv, TypeOK, Tables
  <2>6. ProbeChain'
    BY <1>0, <2>2, <2>3, ProbeFacts DEF ProbeChain, Chained
  <2>7. RoomLeft' /\ Blocks'
    <3>1. /\ len \in Nat /\ cap \in Nat /\ cap >= 4 /\ len * 10 < cap * 7
          /\ len = Cardinality(Used(entries)) /\ live = 2 + len
      BY <1>0, <1>2, ProbeFacts
    <3>2. len' < cap'
      BY <3>1, <1>0, <1>2
    <3>3. len' = Cardinality(Used(entries'))
      BY <3>1, <1>2, <2>2, <2>3
    <3> QED BY <3>1, <3>2, <3>3, <1>0, <1>2 DEF RoomLeft, Blocks, Busy
  <2>8. Walked'
    BY <1>0, <2>2, <2>3, <2>4 DEF IInv, Walked, Met, Busy
  <2> QED BY <1>0, <1>2, <2>5, <2>6, <2>7, <2>8
          DEF IInv, Fresh, Probing, Moved, Growing
<1> QED BY <1>1, <1>2 DEF ProbeMiss, Answer

(***************************************************************************)
(* Walks.                                                                  *)
(***************************************************************************)
LEMMA WalkStartInv == IInv /\ WalkStart => IInv'
<1> SUFFICES ASSUME IInv, WalkStart PROVE IInv'
  OBVIOUS
<1>0. /\ pc = "idle" /\ UNCHANGED <<entries, cap, len, call, idx, newer, answer, pc, live>>
      /\ cap \in Nat /\ cap >= 4 /\ entries \in Tables(cap)
  BY TableFacts DEF WalkStart, Busy
<1>1. PICK i \in Used(entries) :
        walk' = [idx |-> 0, cap |-> cap, watch |-> entries[i].key, visits |-> 0]
  BY DEF WalkStart
<1>2. i \in 0..cap - 1 /\ entries[i].key \in Keys
  BY <1>0, SlotFacts
<1>3. TypeOK'
  BY <1>0, <1>1, <1>2 DEF IInv, TypeOK
<1>4. Walked'
  BY <1>0, <1>1, <1>2 DEF Walked, Met, Busy
<1> QED BY <1>0, <1>3, <1>4
        DEF IInv, ProbeChain, RoomLeft, Fresh, Probing, Moved, Growing, Blocks, Busy

(* hm_next meets the watched key when it passes its slot, and no other     *)
(* slot has that key.                                                      *)
LEMMA WalkNextInv == IInv /\ WalkNext => IInv'
<1> SUFFICES ASSUME IInv, WalkNext PROVE IInv'
  OBVIOUS
<1> DEFINE ahead == {i \in Used(entries) : i >= walk.idx}
           n == CHOOSE j \in ahead : \A l \in ahead : j <= l
<1>0. /\ pc = "idle" /\ UNCHANGED <<entries, cap, len, call, idx, newer, answer, pc, live>>
      /\ walk # NoWalk /\ walk.idx < cap
      /\ cap \in Nat /\ cap >= 4 /\ entries \in Tables(cap) /\ Chained(entries)
      /\ walk \in [idx : 0..cap, cap : Nat, watch : Keys \cup {NoKey}, visits : Nat]
      /\ Used(entries) \subseteq 0..cap - 1
  <2>1. pc = "idle"
    BY DEF WalkNext
  <2> QED BY <2>1, TableFacts, SlotFacts DEF WalkNext, Busy, IInv, TypeOK
<1>1. walk' = IF ahead = {} THEN [walk EXCEPT !.idx = cap]
              ELSE [walk EXCEPT !.idx = n + 1,
                                !.visits = IF entries[n].key = walk.watch THEN @ + 1 ELSE @]
  BY Zenon DEF WalkNext, Past
<1>2. ASSUME ahead # {} PROVE n \in ahead /\ \A l \in ahead : n <= l
  <2>1. ahead \in SUBSET Nat
    BY <1>0
  <2>2. \E j \in ahead : \A l \in ahead : j <= l
    <3> HIDE DEF ahead
    <3> QED BY <1>2, <2>1, LeastNat
  <2> HIDE DEF ahead
  <2> QED BY <2>2
<1> HIDE DEF n
<1>3. walk' \in [idx : 0..cap, cap : Nat, watch : Keys \cup {NoKey}, visits : Nat]
      /\ walk'.cap = walk.cap /\ walk'.watch = walk.watch
  <2>1. CASE ahead = {}
    BY <1>0, <1>1, <2>1
  <2>2. CASE ahead # {}
    <3>1. n \in 0..cap - 1
      BY <1>0, <1>2, <2>2
    <3> HIDE DEF ahead
    <3>2. walk' = [walk EXCEPT !.idx = n + 1,
                               !.visits = IF entries[n].key = walk.watch
                                          THEN walk.visits + 1 ELSE walk.visits]
      BY <1>1, <2>2
    <3>3. n + 1 \in 0..cap
      BY <1>0, <3>1
    <3>4. (IF entries[n].key = walk.watch THEN walk.visits + 1 ELSE walk.visits) \in Nat
      BY <1>0
    <3> QED BY <1>0, <3>2, <3>3, <3>4
  <2> QED BY <2>1, <2>2
<1>4. TypeOK'
  BY <1>0, <1>3 DEF IInv, TypeOK
<1>5. Walked'
  <2>1. /\ Busy /\ walk.cap > 0 /\ walk.cap <= cap
        /\ walk.cap = cap => \E i \in Used(entries) : Met(i)
    BY <1>0 DEF IInv, Walked
  <2>2. ASSUME walk.cap = cap PROVE \E i \in Used(entries) : Met(i)'
    <3>1. PICK i \in Used(entries) : Met(i)
      BY <2>1, <2>2
    <3>2. i \in 0..cap - 1 /\ entries[i].key = walk.watch
          /\ walk.visits = IF i < walk.idx THEN 1 ELSE 0
      BY <1>0, <3>1 DEF Met
    <3>3. walk'.visits = IF i < walk'.idx THEN 1 ELSE 0
      <4>1. CASE ahead = {}
        <5>1. i < walk.idx /\ walk'.visits = walk.visits /\ walk'.idx = cap
          BY <1>0, <1>1, <3>2, <4>1
        <5> QED BY <1>0, <3>2, <5>1
      <4>2. CASE ahead # {}
        <5>1. /\ n \in Used(entries) /\ n \in 0..cap - 1 /\ n >= walk.idx
              /\ i >= walk.idx => n <= i
          BY <1>0, <1>2, <4>2
        <5>2. entries[n].key = walk.watch <=> n = i
          BY <1>0, <3>2, <5>1 DEF Chained
        <5>3. /\ walk'.idx = n + 1
              /\ walk'.visits = IF n = i THEN walk.visits + 1 ELSE walk.visits
          <6> HIDE DEF ahead
          <6> QED BY <1>0, <1>1, <4>2, <5>2
        <5> QED BY <1>0, <3>2, <5>1, <5>3
      <4> QED BY <4>1, <4>2
    <3> QED BY <1>0, <1>3, <3>2, <3>3 DEF Met
  <2> QED BY <1>0, <1>3, <2>1, <2>2 DEF Walked, Busy
<1> QED BY <1>0, <1>4, <1>5
        DEF IInv, ProbeChain, RoomLeft, Fresh, Probing, Moved, Growing, Blocks, Busy

LEMMA StutterInv == IInv /\ UNCHANGED vars => IInv'
<1> SUFFICES ASSUME IInv, UNCHANGED vars PROVE IInv'
  OBVIOUS
<1>1. UNCHANGED <<entries, cap, len, call, idx, newer, answer, pc, live, walk>>
  BY DEF vars
<1>2. TypeOK'
  BY <1>1 DEF IInv, TypeOK
<1>3. Moved' /\ Walked'
  BY <1>1 DEF IInv, Moved, MovedSlots, Walked, Met, Busy
<1>4. Probing'
  BY <1>1 DEF IInv, Probing, Passed
<1> QED BY <1>1, <1>2, <1>3, <1>4
        DEF IInv, ProbeChain, RoomLeft, Fresh, Growing, Blocks, Busy

(* What holds of the map in every state, also in the middle of a probe, of *)
(* a growth or of a walk.                                                  *)
THEOREM InductiveInvariant == Spec => []IInv
<1>1. IInv /\ [Next]_vars => IInv'
  <2> SUFFICES ASSUME IInv, [Next]_vars PROVE IInv'
    OBVIOUS
  <2>1. CASE HmNew \/ HmFree
    BY <2>1, HmNewInv, HmFreeInv
  <2>2. CASE \E k \in Keys, v \in Values : SetCall(k, v)
    BY <2>2, SetCallInv
  <2>3. CASE \E k \in Keys : GetCall(k)
    BY <2>3, GetCallInv
  <2>4. CASE GrowStart \/ GrowMove \/ GrowEnd
    BY <2>4, GrowStartInv, GrowMoveInv, GrowEndInv
  <2>5. CASE ProbeOn \/ ProbeHit \/ ProbeMiss
    BY <2>5, ProbeOnInv, ProbeHitInv, ProbeMissInv
  <2>6. CASE WalkStart \/ WalkNext
    BY <2>6, WalkStartInv, WalkNextInv
  <2>7. CASE Stop \/ UNCHANGED vars
    BY <2>7, StutterInv DEF Stop
  <2> QED BY <2>1, <2>2, <2>3, <2>4, <2>5, <2>6, <2>7 DEF Next
<1> QED BY <1>1, InitInv, PTL DEF Spec

(***************************************************************************)
(* The safety properties.                                                  *)
(***************************************************************************)
(* Indices, capacities and the state of a call are always what _hm.c takes *)
(* them for: cap is a power of two, and a probe reads a slot of the table. *)
THEOREM TypeCorrect == Spec => []TypeOK
BY InductiveInvariant, PTL DEF IInv

(* Each key is stored once and reached from its home slot over used slots  *)
(* only, whatever the hashes, also in the table that grows.                *)
THEOREM ChainsUnbroken == Spec => []ProbeChain
BY InductiveInvariant, PTL DEF IInv

(* The load test of hm_set keeps a slot free, so that the while loops of   *)
(* hm_set, hm_get and hm_grow end at one.                                  *)
THEOREM RoomIsLeft == Spec => []RoomLeft
BY InductiveInvariant, PTL DEF IInv

(* hm_next meets each key that was there at the start once, as long as the *)
(* table does not grow.                                                    *)
THEOREM WalksVisitOnce == Spec => []EachVisitedOnce
<1>1. IInv => EachVisitedOnce
  <2> SUFFICES ASSUME IInv, walk # NoWalk, walk.cap = cap
               PROVE  walk.visits <= 1 /\ (walk.idx = cap => walk.visits = 1)
    BY DEF EachVisitedOnce
  <2>1. PICK i \in Used(entries) : Met(i)
    BY DEF IInv, Walked
  <2>2. i \in 0..cap - 1
    BY <2>1, TableFacts, SlotFacts DEF IInv, Walked
  <2>3. cap \in Nat
    BY DEF IInv, TypeOK
  <2> QED BY <2>1, <2>2, <2>3 DEF Met
<1> QED BY <1>1, InductiveInvariant, PTL

(* hm_free gives back every block the map took, also after a growth or a   *)
(* copy of a key that failed.                                              *)
THEOREM AllIsFreed == Spec => []FreedWhole
<1>1. IInv => FreedWhole
  BY DEF IInv, Blocks, Busy, FreedWhole
<1> QED BY <1>1, InductiveInvariant, PTL

(***************************************************************************)
(* The map implements Dictionary: growing and probing change no pair, and  *)
(* a call takes effect at its last step.                                   *)
(***************************************************************************)
LEMMA PairsAt ==
  ASSUME NEW t, Chained(t)
  PROVE  /\ \A k : k \in DOMAIN Pairs(t) <=> \E i \in Used(t) : k = t[i].key
         /\ \A i \in Used(t) : Pairs(t)[t[i].key] = t[i].val
<1>1. \A k : k \in DOMAIN Pairs(t) <=> \E i \in Used(t) : k = t[i].key
  BY DEF Pairs
<1>2. ASSUME NEW i \in Used(t) PROVE Pairs(t)[t[i].key] = t[i].val
  <2> DEFINE c == CHOOSE j \in Used(t) : t[j].key = t[i].key
  <2>1. c \in Used(t) /\ t[c].key = t[i].key
    OBVIOUS
  <2>2. c = i
    BY <2>1 DEF Chained
  <2>3. Pairs(t)[t[i].key] = t[c].val
    BY DEF Pairs
  <2> QED BY <2>2, <2>3
<1> QED BY <1>1, <1>2

(* Two tables with the same entries, wherever they stand. *)
LEMMA SamePairs ==
  ASSUME NEW t, NEW u, Chained(t), Chained(u),
         \A i \in Used(u) : \E j \in Used(t) : u[i] = t[j],
         \A j \in Used(t) : \E i \in Used(u) : u[i] = t[j]
  PROVE  Pairs(u) = Pairs(t)
<1>0. /\ \A k : k \in DOMAIN Pairs(t) <=> \E i \in Used(t) : k = t[i].key
      /\ \A i \in Used(t) : Pairs(t)[t[i].key] = t[i].val
      /\ \A k : k \in DOMAIN Pairs(u) <=> \E i \in Used(u) : k = u[i].key
      /\ \A i \in Used(u) : Pairs(u)[u[i].key] = u[i].val
  BY PairsAt
<1>1. DOMAIN Pairs(u) = DOMAIN Pairs(t)
  <2>1. \A k : (\E i \in Used(u) : k = u[i].key) <=> (\E j \in Used(t) : k = t[j].key)
    OBVIOUS
  <2> QED BY <1>0, <2>1
<1>2. ASSUME NEW k \in DOMAIN Pairs(t) PROVE Pairs(u)[k] = Pairs(t)[k]
  <2>1. PICK j \in Used(t) : k = t[j].key
    BY <1>0
  <2>2. PICK i \in Used(u) : u[i] = t[j]
    BY <2>1
  <2> QED BY <1>0, <2>1, <2>2
<1>3. Pairs(t) = [k \in DOMAIN Pairs(t) |-> Pairs(t)[k]]
      /\ Pairs(u) = [k \in DOMAIN Pairs(u) |-> Pairs(u)[k]]
  BY DEF Pairs
<1> QED BY <1>1, <1>2, <1>3

(* One slot with another value, or taken by another key. *)
LEMMA PairsWith ==
  ASSUME NEW t, NEW u, Chained(t), Chained(u),
         NEW i \in Used(u), Used(u) = Used(t) \cup {i},
         \A j \in Used(t) : j # i => u[j] = t[j],
         i \in Used(t) => t[i].key = u[i].key
  PROVE  Pairs(u) = [l \in DOMAIN Pairs(t) \cup {u[i].key} |->
                       IF l = u[i].key THEN u[i].val ELSE Pairs(t)[l]]
<1> DEFINE k == u[i].key
           w == [l \in DOMAIN Pairs(t) \cup {k} |-> IF l = k THEN u[i].val ELSE Pairs(t)[l]]
<1>0. /\ \A l : l \in DOMAIN Pairs(t) <=> \E j \in Used(t) : l = t[j].key
      /\ \A j \in Used(t) : Pairs(t)[t[j].key] = t[j].val
      /\ \A l : l \in DOMAIN Pairs(u) <=> \E j \in Used(u) : l = u[j].key
      /\ \A j \in Used(u) : Pairs(u)[u[j].key] = u[j].val
  BY PairsAt
<1>1. DOMAIN Pairs(u) = DOMAIN w
  <2>1. \A l : (\E j \in Used(u) : l = u[j].key) <=>
                (l = k \/ \E j \in Used(t) : l = t[j].key)
    OBVIOUS
  <2>2. DOMAIN w = DOMAIN Pairs(t) \cup {k}
    OBVIOUS
  <2>3. \A l : l \in DOMAIN w <=> l = k \/ l \in DOMAIN Pairs(t)
    BY <2>2
  <2> HIDE DEF w, k
  <2>4. \A l : l \in DOMAIN Pairs(u) <=> l \in DOMAIN w
    BY <1>0, <2>1, <2>3
  <2>5. DOMAIN Pairs(u) = {l \in DOMAIN Pairs(u) : TRUE} /\ DOMAIN w = {l \in DOMAIN w : TRUE}
    OBVIOUS
  <2> QED BY <2>4, <2>5
<1>2. ASSUME NEW l \in DOMAIN w PROVE Pairs(u)[l] = w[l]
  <2>1. CASE l = k
    BY <1>0, <2>1
  <2>2. CASE l # k
    <3>1. PICK j \in Used(t) : l = t[j].key
      BY <1>0, <2>2
    <3>2. j # i /\ u[j] = t[j] /\ j \in Used(u)
      BY <2>2, <3>1
    <3> QED BY <1>0, <2>2, <3>1, <3>2
  <2> QED BY <2>1, <2>2
<1>3. Pairs(u) = [l \in DOMAIN Pairs(u) |-> Pairs(u)[l]]
  BY DEF Pairs
<1> HIDE DEF w
<1>4. w = [l \in DOMAIN w |-> w[l]]
  BY DEF w
<1>5. Pairs(u) = w
  BY <1>1, <1>2, <1>3, <1>4
<1> QED BY <1>5 DEF w

(* A step that shows the client nothing. *)
LEMMA Unseen ==
  ASSUME Pairs(entries)' = Pairs(entries), UNCHANGED <<call, answer>>
  PROVE  [Map!Next]_(Map!vars)
BY DEF Map!vars

LEMMA GrowEndUnseen == IInv /\ GrowEnd => Pairs(entries') = Pairs(entries)
<1> SUFFICES ASSUME IInv, GrowEnd PROVE Pairs(entries') = Pairs(entries)
  OBVIOUS
<1>0. /\ pc = "move" /\ idx = cap /\ entries' = newer
      /\ Chained(entries) /\ Chained(newer) /\ entries \in Tables(cap)
      /\ cap \in Nat
  <2>1. pc = "move"
    BY DEF GrowEnd
  <2> QED BY <2>1, TableFacts DEF GrowEnd, Busy
<1>1. MovedSlots = Used(entries)
  BY <1>0, SlotFacts DEF MovedSlots
<1>2. /\ \A i \in Used(newer) : \E j \in Used(entries) : newer[i] = entries[j]
      /\ \A j \in Used(entries) : \E i \in Used(newer) : newer[i] = entries[j]
  BY <1>0, <1>1 DEF IInv, Moved
<1> QED BY <1>0, <1>2, SamePairs

LEMMA ProbeHitSteps == IInv /\ ProbeHit => Map!Next
<1> SUFFICES ASSUME IInv, ProbeHit PROVE Map!Next
  OBVIOUS
<1>0. /\ pc = "probe" /\ idx \in Used(entries) /\ entries[idx].key = call.key
      /\ call' = NoCall /\ Chained(entries) /\ entries \in Tables(cap) /\ cap \in Nat
      /\ call \in Sets \cup Gets
  <2>1. pc = "probe" /\ entries[idx].key # NoKey
    BY DEF ProbeHit
  <2> QED BY <2>1, ProbeFacts DEF ProbeHit, SameKey, Answer
<1>1. CASE call.fn = "set"
  <2> DEFINE u == [entries EXCEPT ![idx].val = call.val]
  <2>1. entries' = u /\ answer' = TRUE /\ call.val \in Values
    BY <1>0, <1>1 DEF ProbeHit, Answer, Sets, Gets
  <2>2. /\ Used(u) = Used(entries) /\ u[idx].key = call.key /\ u[idx].val = call.val
        /\ \A j \in Used(entries) : j # idx => u[j] = entries[j]
        /\ Chained(u)
    <3>0. call.val \in Values /\ idx \in Used(entries) /\ entries \in Tables(cap)
          /\ Chained(entries) /\ cap \in Nat
      BY <1>0, <2>1
    <3>1. /\ Used(u) = Used(entries)
          /\ \A j \in Used(entries) : u[j].key = entries[j].key
          /\ u[idx].val = call.val
          /\ \A j \in Used(entries) : j # idx => u[j] = entries[j]
          /\ Chained(u)
      BY <3>0, OverwriteKeepsChains
    <3> QED BY <1>0, <3>1
  <2> HIDE DEF u
  <2>3. Pairs(u) = Map!With(call.key, call.val)
    <3>1. Used(u) = Used(entries) \cup {idx}
      BY <1>0, <2>2
    <3>0. Chained(entries) /\ Chained(u) /\ idx \in Used(u)
          /\ \A j \in Used(entries) : j # idx => u[j] = entries[j]
      BY <1>0, <2>2
    <3>3. idx \in Used(entries) => entries[idx].key = u[idx].key
      BY <1>0, <2>2
    <3>2. Pairs(u) = [l \in DOMAIN Pairs(entries) \cup {u[idx].key} |->
                        IF l = u[idx].key THEN u[idx].val ELSE Pairs(entries)[l]]
      BY <3>0, <3>1, <3>3, PairsWith
    <3> QED BY <2>2, <3>2, Zenon DEF Map!With
  <2>4. Map!DoSet
    BY <1>0, <1>1, <2>1, <2>3 DEF Map!DoSet, Map!Idle, NoCall
  <2> QED BY <2>4 DEF Map!Next
<1>2. CASE call.fn # "set"
  <2>1. entries' = entries /\ answer' = entries[idx].val /\ call.fn = "get"
    BY <1>0, <1>2 DEF ProbeHit, Answer, Sets, Gets
  <2>2. call.key \in DOMAIN Pairs(entries) /\ Pairs(entries)[call.key] = entries[idx].val
    BY <1>0, PairsAt
  <2>3. Map!DoGet
    BY <1>0, <2>1, <2>2 DEF Map!DoGet, Map!Idle, NoCall
  <2> QED BY <2>3 DEF Map!Next
<1> QED BY <1>1, <1>2

LEMMA ProbeMissSteps == IInv /\ ProbeMiss => Map!Next
<1> SUFFICES ASSUME IInv, ProbeMiss PROVE Map!Next
  OBVIOUS
<1>0. /\ pc = "probe" /\ entries[idx].key = NoKey /\ call' = NoCall
      /\ cap \in Nat /\ cap > 0 /\ entries \in Tables(cap) /\ Chained(entries)
      /\ idx \in 0..cap - 1 /\ call \in Sets \cup Gets /\ call.key \in Keys
      /\ Passed(entries, cap, call.key, idx)
  <2>1. pc = "probe" /\ entries[idx].key = NoKey /\ call' = NoCall
    BY DEF ProbeMiss, Answer
  <2> QED BY <2>1, ProbeFacts
<1>1. call.key \notin DOMAIN Pairs(entries)
  <2>1. \A j \in Used(entries) : entries[j].key # call.key
    BY <1>0, ProbeMisses
  <2>2. \A k : k \in DOMAIN Pairs(entries) <=> \E j \in Used(entries) : k = entries[j].key
    BY <1>0, PairsAt
  <2> QED BY <2>1, <2>2
<1>2. CASE call.fn = "get" /\ answer' = NoValue /\ entries' = entries
  <2>1. Map!DoGet
    BY <1>0, <1>1, <1>2 DEF Map!DoGet, Map!Idle, NoCall
  <2> QED BY <2>1 DEF Map!Next
<1>3. CASE call.fn = "set" /\ answer' = FALSE /\ entries' = entries
  <2>1. Map!DoSet
    BY <1>0, <1>3 DEF Map!DoSet, Map!Idle, NoCall
  <2> QED BY <2>1 DEF Map!Next
<1>4. CASE /\ call.fn = "set" /\ answer' = TRUE
           /\ entries' = [entries EXCEPT ![idx] = [key |-> call.key, val |-> call.val]]
  <2> DEFINE e == [key |-> call.key, val |-> call.val]
             u == [entries EXCEPT ![idx] = e]
  <2>1. e \in Slots /\ e.key \in Keys /\ e.key = call.key /\ e.val = call.val
    BY <1>0, <1>4 DEF Sets, Gets, Slots
  <2> HIDE DEF e
  <2>2. /\ Used(u) = Used(entries) \cup {idx} /\ idx \notin Used(entries)
        /\ Chained(u)
    BY <1>0, <2>1, StoreKeepsChains
  <2>3. u[idx] = e /\ \A j \in Used(entries) : j # idx => u[j] = entries[j]
    BY <1>0, SlotFacts DEF Tables
  <2>4. entries' = u
    BY <1>4 DEF e
  <2> HIDE DEF u
  <2>5. Pairs(u) = Map!With(call.key, call.val)
    <3>1. Pairs(u) = [l \in DOMAIN Pairs(entries) \cup {u[idx].key} |->
                        IF l = u[idx].key THEN u[idx].val ELSE Pairs(entries)[l]]
      BY <1>0, <2>2, <2>3, PairsWith
    <3>2. u[idx].key = call.key /\ u[idx].val = call.val
      BY <2>1, <2>3
    <3> QED BY <3>1, <3>2, Zenon DEF Map!With
  <2>6. Map!DoSet
    BY <1>0, <1>4, <2>4, <2>5 DEF Map!DoSet, Map!Idle, NoCall
  <2> QED BY <2>6 DEF Map!Next
<1> QED BY <1>2, <1>3, <1>4 DEF ProbeMiss, Answer

LEMMA InitRefines == Init => Map!Init
<1> SUFFICES ASSUME Init PROVE Map!Init
  OBVIOUS
<1>1. Used(entries) = {}
  BY EmptyTable DEF Init
<1>2. Pairs(entries) = Map!Empty
  BY <1>1 DEF Pairs, Map!Empty
<1> QED BY <1>2 DEF Init, Map!Init, Map!Idle, NoCall

LEMMA StepRefines == IInv /\ [Next]_vars => [Map!Next]_(Map!vars)
<1> SUFFICES ASSUME IInv, [Next]_vars PROVE [Map!Next]_(Map!vars)
  OBVIOUS
<1>1. CASE HmNew
  <2>1. Used(entries) = {} /\ UNCHANGED <<call, answer>>
    <3>1. entries \in [{} -> Slots]
      BY <1>1 DEF HmNew, IInv, TypeOK, Fresh
    <3> QED BY <1>1, <3>1, NoTable DEF HmNew
  <2>2. Used(entries') = {}
    <3>1. CASE entries' = entries
      BY <2>1, <3>1
    <3>2. CASE entries' # entries
      <4>1. PICK n \in Asked : cap' = next_pow2(IF n < 4 THEN 4 ELSE n)
        BY <1>1, <3>2 DEF HmNew
      <4>2. entries' = NewTable(cap')
        BY <1>1, <3>2 DEF HmNew
      <4>3. n \in Nat
        BY AskedAssumption
      <4> QED BY <4>1, <4>2, <4>3, NextPowerOfTwo, EmptyTable
    <3> QED BY <3>1, <3>2
  <2>3. Pairs(entries') = Pairs(entries)
    BY <2>1, <2>2 DEF Pairs
  <2> QED BY <2>1, <2>3, Unseen
<1>2. CASE HmFree
  <2>1. Used(entries') = {}
    BY <1>2, EmptyTable DEF HmFree
  <2>2. Pairs(entries') = Map!Empty
    BY <2>1 DEF Pairs, Map!Empty
  <2>3. call = NoCall
    BY <1>2 DEF HmFree, IInv, TypeOK
  <2> QED BY <1>2, <2>2, <2>3 DEF HmFree, Map!Next, Map!Free, Map!Idle, NoCall
<1>3. ASSUME NEW k \in Keys, NEW v \in Values, SetCall(k, v) PROVE Map!Next
  <2>1. call = NoCall
    BY <1>3 DEF SetCall, IInv, TypeOK
  <2> QED BY <1>3, <2>1 DEF SetCall, Map!Next, Map!Begin, Map!Idle, NoCall, Map!Set, Set
<1>4. ASSUME NEW k \in Keys, GetCall(k) PROVE Map!Next
  <2>1. call = NoCall
    BY <1>4 DEF GetCall, IInv, TypeOK
  <2> QED BY <1>4, <2>1 DEF GetCall, Map!Next, Map!Begin, Map!Idle, NoCall, Map!Get, Get
<1>5. CASE GrowStart
  <2>1. CASE UNCHANGED <<call, answer>>
    BY <1>5, <2>1, Unseen DEF GrowStart
  <2>2. CASE Answer(FALSE)
    <3>1. call.fn = "set"
      BY <1>5 DEF GrowStart, IInv, Growing, Sets
    <3> QED BY <1>5, <2>2, <3>1
            DEF GrowStart, Answer, Map!Next, Map!DoSet, Map!Idle, NoCall
  <2> QED BY <1>5, <2>1, <2>2 DEF GrowStart
<1>6. CASE GrowMove \/ ProbeOn \/ WalkStart \/ WalkNext \/ Stop \/ UNCHANGED vars
  <2>1. UNCHANGED <<entries, call, answer>>
    BY <1>6 DEF GrowMove, ProbeOn, WalkStart, WalkNext, Stop, vars
  <2> QED BY <2>1, Unseen
<1>7. CASE GrowEnd
  BY <1>7, GrowEndUnseen, Unseen DEF GrowEnd
<1> QED BY <1>1, <1>2, <1>3, <1>4, <1>5, <1>6, <1>7, ProbeHitSteps, ProbeMissSteps DEF Next

(* What a client sees of _hm.c is a map whose calls take effect at once or *)
(* fail and change nothing.                                                *)
THEOREM ImplementsDictionary == Spec => Refines
<1>1. Spec => Map!Init /\ [][Map!Next]_(Map!vars)
  BY InductiveInvariant, InitRefines, StepRefines, PTL DEF Spec
<1> QED BY <1>1 DEF Refines, Map!Spec
=============================================================================
