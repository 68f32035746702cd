----------------------------- MODULE HeapProofs ------------------------------
(***************************************************************************)
(* The parser's heap, proved for every set of token arrays, both drivers,  *)
(* both allocators and every failure of an allocation: nothing that can    *)
(* still be reached has been given back.                                   *)
(***************************************************************************)
EXTENDS ParserProofs

(***************************************************************************)
(* Sane values: what a value owns covers what its kids own, all the way    *)
(* down.  U is a set of values closed under taking a kid.                  *)
(***************************************************************************)
ValueFields == DOMAIN Nil
KidsOwn(kids) == [i \in DOMAIN kids |-> kids[i].node.own]
Covers(v, U) == /\ DOMAIN v = ValueFields
                /\ v.own \in Nat
                /\ IsSeq(v.kids)
                /\ \A i \in 1..Len(v.kids) : v.kids[i].node \in U
                /\ Total(KidsOwn(v.kids)) <= v.own
Closed(U) == \A v \in U : Covers(v, U)
Sane(v) == \E U : v \in U /\ Closed(U)

(* A value apply_merge has still to walk: some of its kids are gone. *)
Walkable(v) == /\ DOMAIN v = ValueFields
               /\ IsSeq(v.kids)
               /\ \A i \in 1..Len(v.kids) : Sane(v.kids[i].node)

LEMMA ClosedUnion ==
  ASSUME NEW U, NEW V, Closed(U), Closed(V) PROVE Closed(U \cup V)
BY DEF Closed, Covers

LEMMA SaneFacts ==
  ASSUME NEW v, Sane(v)
  PROVE  /\ DOMAIN v = ValueFields
         /\ v.own \in Nat /\ Blocks(v) \in Nat
         /\ v # Nil => Blocks(v) = 1 + v.own
         /\ Walkable(v)
         /\ Len(v.kids) \in Nat /\ DOMAIN v.kids = 1..Len(v.kids)
         /\ Total(KidsOwn(v.kids)) <= v.own
<1>1. PICK U : v \in U /\ Closed(U)
  BY DEF Sane
<1>2. Covers(v, U)
  BY <1>1 DEF Closed
<1>3. \A i \in 1..Len(v.kids) : Sane(v.kids[i].node)
  BY <1>1, <1>2 DEF Covers, Sane
<1>4. Len(v.kids) \in Nat /\ DOMAIN v.kids = 1..Len(v.kids)
  BY <1>2, SeqDomain DEF Covers
<1>5. /\ DOMAIN v = ValueFields /\ v.own \in Nat /\ IsSeq(v.kids)
      /\ Total(KidsOwn(v.kids)) <= v.own
  BY <1>2 DEF Covers
<1> QED BY <1>3, <1>4, <1>5 DEF Walkable, Blocks

(* The sizes of a sane value's kids. *)
LEMMA KidSizes ==
  ASSUME NEW kids, IsSeq(kids), \A i \in 1..Len(kids) : Sane(kids[i].node)
  PROVE  /\ Sizes(KidsOwn(kids)) /\ Numbers(KidsOwn(kids))
         /\ Len(KidsOwn(kids)) = Len(kids) /\ Len(kids) \in Nat
         /\ \A i \in 1..Len(kids) : KidsOwn(kids)[i] = kids[i].node.own
<1>1. Len(kids) \in Nat /\ DOMAIN kids = 1..Len(kids)
  BY SeqDomain
<1>2. /\ KidsOwn(kids) = [i \in 1..Len(kids) |-> KidsOwn(kids)[i]]
      /\ DOMAIN KidsOwn(kids) = 1..Len(kids)
      /\ \A i \in 1..Len(kids) : KidsOwn(kids)[i] = kids[i].node.own
  BY <1>1 DEF KidsOwn
<1>3. Len(KidsOwn(kids)) = Len(kids)
  BY <1>1, <1>2, SeqFunction
<1>4. \A i \in 1..Len(kids) : KidsOwn(kids)[i] \in Nat
  BY <1>2, SaneFacts
<1> QED BY <1>1, <1>2, <1>3, <1>4 DEF Sizes, Numbers

LEMMA SaneIntro ==
  ASSUME NEW v, NEW U, Closed(U), DOMAIN v = ValueFields, v.own \in Nat, IsSeq(v.kids),
         \A i \in 1..Len(v.kids) : v.kids[i].node \in U,
         Total(KidsOwn(v.kids)) <= v.own
  PROVE  Sane(v)
<1> DEFINE V == U \cup {v}
<1>1. Covers(v, V)
  BY DEF Covers
<1>2. \A u \in U : Covers(u, V)
  BY DEF Covers, Closed
<1>3. v \in V /\ Closed(V)
  BY <1>1, <1>2 DEF Closed
<1> QED BY <1>3 DEF Sane

(* A value without kids. *)
LEMMA Childless ==
  ASSUME NEW v, DOMAIN v = ValueFields, v.own \in Nat, v.kids = <<>> PROVE Sane(v)
<1>1. IsSeq(v.kids) /\ Len(v.kids) = 0
  BY EmptyIsSeq
<1>2. Len(KidsOwn(v.kids)) = 0
  BY <1>1, KidSizes
<1>3. Total(KidsOwn(v.kids)) = 0
  BY <1>2, TotalEmpty
<1>4. Closed({}) /\ \A i \in 1..Len(v.kids) : v.kids[i].node \in {}
  BY <1>1 DEF Closed
<1> QED BY <1>1, <1>3, <1>4, SaneIntro

LEMMA NilSane == Sane(Nil) /\ Blocks(Nil) = 0
<1>1. DOMAIN Nil = ValueFields /\ Nil.own \in Nat /\ Nil.kids = <<>>
  BY DEF Nil, ValueFields
<1> QED BY <1>1, Childless DEF Blocks

LEMMA ScalarSane ==
  ASSUME NEW type, type # "nil", NEW text
  PROVE  LET v == Scalar(type, text)
         IN /\ Sane(v) /\ v # Nil /\ v.own = (IF type = "str" THEN 1 ELSE 0)
            /\ Blocks(v) = 1 + v.own
<1> DEFINE v == Scalar(type, text)
<1>1. /\ DOMAIN v = ValueFields /\ v.own \in Nat /\ v.kids = <<>> /\ v.type = type
      /\ v.own = (IF type = "str" THEN 1 ELSE 0)
  BY DEF Nil, ValueFields, Scalar
<1>2. Nil.type = "nil"
  BY DEF Nil
<1> HIDE DEF v
<1>3. Sane(v)
  BY <1>1, Childless
<1>4. v # Nil
  BY <1>1, <1>2
<1> QED BY <1>1, <1>3, <1>4, SaneFacts DEF v

LEMMA NullStringSane == Sane(NullString) /\ NullString # Nil /\ Blocks(NullString) = 1
<1>1. /\ DOMAIN NullString = ValueFields /\ NullString.own = 0 /\ NullString.kids = <<>>
      /\ NullString.type = "str" /\ Nil.type = "nil"
  BY DEF Nil, ValueFields, Scalar, NullString
<1>2. Sane(NullString) /\ NullString # Nil
  BY <1>1, Childless
<1> QED BY <1>1, <1>2, SaneFacts

LEMMA EmptiesSane ==
  /\ Sane(EmptyArray) /\ EmptyArray # Nil /\ EmptyArray.kids = <<>> /\ Blocks(EmptyArray) = 2
  /\ Sane(EmptyMap) /\ EmptyMap # Nil /\ EmptyMap.kids = <<>> /\ Blocks(EmptyMap) = 3
<1>1. /\ DOMAIN EmptyArray = ValueFields /\ EmptyArray.own = 1 /\ EmptyArray.kids = <<>>
      /\ EmptyArray.type = "arr" /\ Nil.type = "nil"
  BY DEF Nil, ValueFields, EmptyArray
<1>2. /\ DOMAIN EmptyMap = ValueFields /\ EmptyMap.own = 2 /\ EmptyMap.kids = <<>>
      /\ EmptyMap.type = "obj"
  BY DEF Nil, ValueFields, EmptyMap
<1>3. Sane(EmptyArray) /\ EmptyArray # Nil /\ Sane(EmptyMap) /\ EmptyMap # Nil
  BY <1>1, <1>2, Childless
<1> QED BY <1>1, <1>2, <1>3, SaneFacts

(***************************************************************************)
(* What the parser does to a value keeps it sane, and takes the blocks the *)
(* ledger is told of.                                                      *)
(***************************************************************************)
Distinct(kids) == \A i, j \in 1..Len(kids) : kids[i].key = kids[j].key => i = j

(* One more kid, with c blocks of its own. *)
LEMMA GrowSane ==
  ASSUME NEW v, Sane(v), v # Nil, NEW e, Sane(e), NEW k, NEW c \in 0..1, NEW r,
         DOMAIN r = ValueFields, r.kids = Append(v.kids, [key |-> k, node |-> e]),
         r.own = v.own + c + e.own
  PROVE  /\ Sane(r) /\ r # Nil
         /\ Blocks(r) = Blocks(v) + c + e.own
<1> DEFINE kid == [key |-> k, node |-> e]
<1>1. /\ DOMAIN v = ValueFields /\ v.own \in Nat /\ Blocks(v) = 1 + v.own
      /\ IsSeq(v.kids) /\ Len(v.kids) \in Nat
      /\ Total(KidsOwn(v.kids)) <= v.own
      /\ e.own \in Nat /\ c \in Nat
      /\ \A i \in 1..Len(v.kids) : Sane(v.kids[i].node)
  BY SaneFacts DEF Walkable
<1>2. r.kids = Append(v.kids, kid)
  OBVIOUS
<1>3. kid.key = k /\ kid.node = e
  OBVIOUS
<1> HIDE DEF kid
<1>4. /\ IsSeq(r.kids) /\ Len(r.kids) = Len(v.kids) + 1
      /\ \A i \in 1..Len(v.kids) : r.kids[i] = v.kids[i]
      /\ r.kids[Len(v.kids) + 1] = kid
  BY <1>1, <1>2, SeqAppend
<1>5. PICK n \in Nat : n = Len(v.kids)
  BY <1>1
<1>6. \A i \in 1..n + 1 : i \in 1..n \/ i = n + 1
  OBVIOUS
<1>7. \A i \in 1..Len(r.kids) : Sane(r.kids[i].node)
  BY <1>1, <1>3, <1>4, <1>5, <1>6
<1>8. Total(KidsOwn(r.kids)) = Total(KidsOwn(v.kids)) + e.own
  <2>1. /\ Numbers(KidsOwn(v.kids)) /\ Len(KidsOwn(v.kids)) = n
        /\ \A i \in 1..n : KidsOwn(v.kids)[i] = v.kids[i].node.own
    BY <1>1, <1>5, KidSizes
  <2>2. /\ Numbers(KidsOwn(r.kids)) /\ Len(KidsOwn(r.kids)) = n + 1
        /\ \A i \in 1..n + 1 : KidsOwn(r.kids)[i] = r.kids[i].node.own
    BY <1>4, <1>5, <1>7, KidSizes
  <2>3. /\ \A i \in 1..n : KidsOwn(r.kids)[i] = KidsOwn(v.kids)[i]
        /\ KidsOwn(r.kids)[n + 1] = e.own
    <3>1. n + 1 \in 1..n + 1 /\ \A i \in 1..n : i \in 1..n + 1
      OBVIOUS
    <3> QED BY <1>3, <1>4, <1>5, <2>1, <2>2, <3>1
  <2> QED BY <2>1, <2>2, <2>3, TotalAppend
<1>9. Total(KidsOwn(v.kids)) \in Nat
  BY <1>1, KidSizes, TotalNat
<1>10. r.own \in Nat /\ Total(KidsOwn(r.kids)) <= r.own
  BY <1>1, <1>2, <1>8, <1>9
<1>11. Sane(r)
  <2>1. PICK U : v \in U /\ Closed(U)
    BY DEF Sane
  <2>2. PICK V : e \in V /\ Closed(V)
    BY DEF Sane
  <2>3. Closed(U \cup V)
    BY <2>1, <2>2, ClosedUnion
  <2>4. \A i \in 1..n : v.kids[i].node \in U
    BY <1>5, <2>1 DEF Closed, Covers
  <2>5. \A i \in 1..Len(r.kids) : r.kids[i].node \in U \cup V
    BY <1>3, <1>4, <1>5, <1>6, <2>2, <2>4
  <2> QED BY <1>2, <1>4, <1>10, <2>3, <2>5, SaneIntro
<1>12. r # Nil
  <2>1. Len(r.kids) # 0
    BY <1>4, <1>5
  <2>2. Len(Nil.kids) = 0
    BY DEF Nil
  <2> QED BY <2>1, <2>2
<1>13. Blocks(r) = 1 + r.own
  BY <1>11, <1>12, SaneFacts
<1>14. Blocks(r) = Blocks(v) + c + e.own
  <2>1. PICK x, y \in Nat : x = v.own /\ y = e.own
    BY <1>1
  <2>2. Blocks(v) = 1 + x /\ Blocks(r) = 1 + (x + c + y) /\ c \in Nat
    BY <1>1, <1>13, <2>1
  <2>3. 1 + (x + c + y) = (1 + x) + c + y
    BY <2>2
  <2> QED BY <2>1, <2>2, <2>3
<1> QED BY <1>11, <1>12, <1>14

LEMMA DistinctAppend ==
  ASSUME NEW kids, IsSeq(kids), Distinct(kids), NEW kid,
         \A i \in 1..Len(kids) : kids[i].key # kid.key
  PROVE  Distinct(Append(kids, kid))
<1>1. PICK n \in Nat : n = Len(kids)
  BY SeqDomain
<1>2. PICK t : t = Append(kids, kid)
  OBVIOUS
<1>3. Len(t) = n + 1 /\ (\A i \in 1..n : t[i] = kids[i]) /\ t[n + 1] = kid
  BY <1>1, <1>2, SeqAppend
<1> SUFFICES ASSUME NEW i \in 1..n + 1, NEW j \in 1..n + 1, t[i].key = t[j].key
             PROVE  i = j
  BY <1>2, <1>3 DEF Distinct
<1>4. (i \in 1..n \/ i = n + 1) /\ (j \in 1..n \/ j = n + 1)
  OBVIOUS
<1> QED BY <1>1, <1>3, <1>4 DEF Distinct

LEMMA PushSane ==
  ASSUME NEW v, Sane(v), v # Nil, NEW e, Sane(e)
  PROVE  /\ Sane(Push(v, e)) /\ Push(v, e) # Nil
         /\ Blocks(Push(v, e)) = Blocks(v) + e.own + PushCost(v, e)
         /\ PushCost(v, e) \in Int
<1>1. v.own \in Nat /\ e.own \in Nat /\ Blocks(v) \in Nat
  BY SaneFacts
<1>2. CASE Full(v)
  <2>1. Push(v, e) = v /\ PushCost(v, e) = -e.own
    BY <1>2 DEF Push, PushCost
  <2> QED BY <1>1, <2>1
<1>3. CASE ~Full(v)
  <2>1. PICK c \in 0..1 : c = 0
    OBVIOUS
  <2>2. DOMAIN v = ValueFields
    BY SaneFacts
  <2>3. PICK r, k : r = Push(v, e) /\ k = ""
    OBVIOUS
  <2>4. /\ DOMAIN r = ValueFields /\ r.kids = Append(v.kids, [key |-> k, node |-> e])
    BY <1>3, <2>2, <2>3 DEF Push, ValueFields, Nil
  <2>5. r.own = v.own + c + e.own
    <3>1. r.own = v.own + e.own
      BY <1>3, <2>2, <2>3 DEF Push, ValueFields, Nil
    <3> QED BY <1>1, <2>1, <3>1
  <2>6. Sane(r) /\ r # Nil /\ Blocks(r) = Blocks(v) + c + e.own
    BY <2>4, <2>5, GrowSane
  <2>7. PushCost(v, e) = 0
    BY <1>3 DEF PushCost
  <2>8. r = Push(v, e)
    BY <2>3
  <2> QED BY <1>1, <2>1, <2>6, <2>7, <2>8
<1> QED BY <1>2, <1>3

(* hm_set of a key that is there: the old value's blocks are lost. *)
LEMMA OverwriteSane ==
  ASSUME NEW m, Sane(m), m # Nil, Distinct(m.kids), NEW e, Sane(e), NEW k, Has(m, k)
  PROVE  LET r == HmSet(m, k, e)
         IN /\ Sane(r) /\ r # Nil /\ Distinct(r.kids)
            /\ Blocks(r) <= Blocks(m) + e.own
<1>1. /\ DOMAIN m = ValueFields /\ m.own \in Nat /\ Blocks(m) = 1 + m.own
      /\ IsSeq(m.kids) /\ Len(m.kids) \in Nat /\ DOMAIN m.kids = 1..Len(m.kids)
      /\ Total(KidsOwn(m.kids)) <= m.own
      /\ e.own \in Nat
      /\ \A i \in 1..Len(m.kids) : Sane(m.kids[i].node)
  BY SaneFacts DEF Walkable
<1>2. PICK n \in Nat : n = Len(m.kids)
  BY <1>1
<1>3. PICK j \in 1..n : m.kids[j].key = k /\ Get(m, k) = m.kids[j].node
  BY <1>1, <1>2 DEF Has, Get
<1>4. PICK kid, r : kid = [key |-> k, node |-> e] /\ r = HmSet(m, k, e)
  OBVIOUS
<1>5. kid.key = k /\ kid.node = e
  BY <1>4
<1>6. /\ DOMAIN r = ValueFields
      /\ r.own = m.own - m.kids[j].node.own + e.own
      /\ r.kids = [i \in 1..n |-> IF m.kids[i].key = k THEN kid ELSE m.kids[i]]
  BY <1>1, <1>2, <1>3, <1>4 DEF HmSet, ValueFields, Nil
<1>7. \A i \in 1..n : r.kids[i] = IF i = j THEN kid ELSE m.kids[i]
  <2> TAKE i \in 1..n
  <2>1. m.kids[i].key = k <=> i = j
    BY <1>2, <1>3 DEF Distinct
  <2> QED BY <1>6, <2>1
<1>8. IsSeq(r.kids) /\ Len(r.kids) = n
  <2>1. DOMAIN r.kids = 1..n /\ r.kids = [i \in 1..n |-> r.kids[i]]
    BY <1>6
  <2> QED BY <2>1, SeqFunction
<1>9. \A i \in 1..Len(r.kids) : Sane(r.kids[i].node)
  BY <1>1, <1>2, <1>5, <1>7, <1>8
<1>10. /\ Total(KidsOwn(r.kids)) = Total(KidsOwn(m.kids)) - m.kids[j].node.own + e.own
       /\ m.kids[j].node.own <= Total(KidsOwn(m.kids))
       /\ Total(KidsOwn(m.kids)) \in Nat
  <2>1. /\ Numbers(KidsOwn(m.kids)) /\ Sizes(KidsOwn(m.kids)) /\ Len(KidsOwn(m.kids)) = n
        /\ \A i \in 1..n : KidsOwn(m.kids)[i] = m.kids[i].node.own
    BY <1>1, <1>2, KidSizes
  <2>2. /\ Numbers(KidsOwn(r.kids)) /\ Len(KidsOwn(r.kids)) = n
        /\ \A i \in 1..n : KidsOwn(r.kids)[i] = r.kids[i].node.own
    BY <1>8, <1>9, KidSizes
  <2>3. /\ \A i \in 1..n : i # j => KidsOwn(r.kids)[i] = KidsOwn(m.kids)[i]
        /\ KidsOwn(r.kids)[j] = e.own
    BY <1>5, <1>7, <2>1, <2>2
  <2>4. Total(KidsOwn(r.kids)) = Total(KidsOwn(m.kids)) - KidsOwn(m.kids)[j] + KidsOwn(r.kids)[j]
    <3>1. PICK w, u : w = KidsOwn(m.kids) /\ u = KidsOwn(r.kids)
      OBVIOUS
    <3>2. Numbers(w) /\ Numbers(u) /\ Len(w) = n /\ Len(u) = n
      BY <2>1, <2>2, <3>1
    <3>3. \A i \in 1..Len(w) : i # j => u[i] = w[i]
      BY <2>3, <3>1, <3>2
    <3>4. Total(u) = Total(w) - w[j] + u[j]
      BY <3>2, <3>3, TotalReplace
    <3> QED BY <3>1, <3>4
  <2>5. KidsOwn(m.kids)[j] <= Total(KidsOwn(m.kids))
    BY <2>1, TotalMember
  <2> QED BY <2>1, <2>3, <2>4, <2>5, TotalNat
<1>11. /\ m.kids[j].node.own \in Nat
       /\ r.own \in Nat /\ Total(KidsOwn(r.kids)) <= r.own
  <2>1. m.kids[j].node.own \in Nat
    BY <1>1, <1>2, SaneFacts
  <2>2. PICK x, y, z, t \in Nat : /\ x = m.own /\ y = e.own /\ z = m.kids[j].node.own
                                  /\ t = Total(KidsOwn(m.kids))
    BY <1>1, <1>10, <2>1
  <2>3. z <= t /\ t <= x
    BY <1>1, <1>10, <2>2
  <2>4. r.own = x - z + y /\ Total(KidsOwn(r.kids)) = t - z + y
    BY <1>6, <1>10, <2>2
  <2> QED BY <2>1, <2>3, <2>4
<1>12. Sane(r)
  <2>1. PICK U : m \in U /\ Closed(U)
    BY DEF Sane
  <2>2. PICK V : e \in V /\ Closed(V)
    BY DEF Sane
  <2>3. Closed(U \cup V)
    BY <2>1, <2>2, ClosedUnion
  <2>4. \A i \in 1..n : m.kids[i].node \in U
    BY <1>2, <2>1 DEF Closed, Covers
  <2>5. \A i \in 1..Len(r.kids) : r.kids[i].node \in U \cup V
    BY <1>5, <1>7, <1>8, <2>2, <2>4
  <2> QED BY <1>6, <1>8, <1>11, <2>3, <2>5, SaneIntro
<1>13. r # Nil
  <2>1. Len(r.kids) # 0
    BY <1>2, <1>3, <1>8
  <2>2. Len(Nil.kids) = 0
    BY DEF Nil
  <2> QED BY <2>1, <2>2
<1>14. Distinct(r.kids)
  <2>1. \A i \in 1..n : r.kids[i].key = m.kids[i].key
    BY <1>3, <1>5, <1>7
  <2> QED BY <1>2, <1>8, <2>1 DEF Distinct
<1>15. Blocks(r) = 1 + r.own
  BY <1>12, <1>13, SaneFacts
<1>16. Blocks(r) <= Blocks(m) + e.own
  <2>1. PICK old \in Nat : old = m.kids[j].node.own
    BY <1>11
  <2>2. r.own = m.own - old + e.own
    BY <1>6, <2>1
  <2> QED BY <1>1, <1>15, <2>2
<1> QED BY <1>4, <1>12, <1>13, <1>14, <1>16

LEMMA HmSetSane ==
  ASSUME NEW m, Sane(m), m # Nil, Distinct(m.kids), NEW e, Sane(e), NEW k
  PROVE  /\ Sane(HmSet(m, k, e)) /\ HmSet(m, k, e) # Nil /\ Distinct(HmSet(m, k, e).kids)
         /\ Blocks(HmSet(m, k, e)) <= Blocks(m) + e.own + SetCost(m, k, e)
         /\ SetCost(m, k, e) \in Int
<1>1. m.own \in Nat /\ e.own \in Nat /\ Blocks(m) \in Nat
  BY SaneFacts
<1>2. CASE Has(m, k)
  <2>1. SetCost(m, k, e) = 0
    BY <1>2 DEF SetCost
  <2>2. /\ Sane(HmSet(m, k, e)) /\ HmSet(m, k, e) # Nil /\ Distinct(HmSet(m, k, e).kids)
        /\ Blocks(HmSet(m, k, e)) <= Blocks(m) + e.own
    BY <1>2, OverwriteSane
  <2> QED BY <1>1, <2>1, <2>2
<1>3. CASE ~Has(m, k) /\ Full(m)
  <2>1. HmSet(m, k, e) = m /\ SetCost(m, k, e) = -e.own
    BY <1>3 DEF HmSet, SetCost
  <2> QED BY <1>1, <2>1
<1>4. CASE ~Has(m, k) /\ ~Full(m)
  <2>1. PICK c \in 0..1 : c = 1
    OBVIOUS
  <2>2. DOMAIN m = ValueFields
    BY SaneFacts
  <2>3. PICK r : r = HmSet(m, k, e)
    OBVIOUS
  <2>4. DOMAIN r = ValueFields /\ r.kids = Append(m.kids, [key |-> k, node |-> e])
    BY <1>4, <2>2, <2>3 DEF HmSet, ValueFields, Nil
  <2>5. r.own = m.own + c + e.own
    <3>1. r.own = m.own + 1 + e.own
      BY <1>4, <2>2, <2>3 DEF HmSet, ValueFields, Nil
    <3> QED BY <1>1, <2>1, <3>1
  <2>6. \A i \in 1..Len(m.kids) : m.kids[i].key # k
    <3>1. DOMAIN m.kids = 1..Len(m.kids)
      BY SaneFacts
    <3> QED BY <1>4, <3>1 DEF Has
  <2>7. Sane(r) /\ r # Nil /\ Distinct(r.kids) /\ Blocks(r) = Blocks(m) + c + e.own
    <3>1. Sane(r) /\ r # Nil /\ Blocks(r) = Blocks(m) + c + e.own
      BY <2>4, <2>5, GrowSane
    <3>2. PICK kid : kid = [key |-> k, node |-> e]
      OBVIOUS
    <3>3. kid.key = k /\ r.kids = Append(m.kids, kid) /\ IsSeq(m.kids)
      BY <2>4, <3>2, SaneFacts DEF Walkable
    <3>4. Distinct(r.kids)
      BY <2>6, <3>3, DistinctAppend
    <3> QED BY <3>1, <3>4
  <2>8. SetCost(m, k, e) = 1
    BY <1>4 DEF SetCost
  <2>9. r = HmSet(m, k, e)
    BY <2>3
  <2> QED BY <1>1, <2>1, <2>7, <2>8, <2>9
<1> QED BY <1>2, <1>3, <1>4

(* apply_tag: a conversion never owns more than was taken for it. *)
LEMMA ApplyTagSane ==
  ASSUME NEW v, Sane(v), v # Nil, NEW tag, ~(IsNullString(v) /\ tag \in {"int", "bool"})
  PROVE  /\ Sane(ApplyTag(v, tag)) /\ ApplyTag(v, tag) # Nil
         /\ Blocks(ApplyTag(v, tag)) <= Blocks(v) + TagCost(v, tag)
         /\ TagCost(v, tag) \in Int
<1>1. v.own \in Nat /\ Blocks(v) = 1 + v.own
  BY SaneFacts
<1> DEFINE Fits(r) == Sane(r) /\ r # Nil /\ Blocks(r) <= Blocks(v) + TagCost(v, tag)
<1>2. TagCost(v, tag) \in Int
  BY DEF TagCost
<1>3. CASE tag = "str"
  <2>1. CASE v.type = "str"
    <3>1. ApplyTag(v, tag) = v /\ TagCost(v, tag) = 0
      BY <1>3, <2>1 DEF ApplyTag, TagCost
    <3> QED BY <1>1, <3>1
  <2>2. CASE v.type # "str"
    <3>1. /\ ApplyTag(v, tag) \in {Scalar("str", v.text), Scalar("str", "null")}
          /\ TagCost(v, tag) = 1
      BY <1>3, <2>2 DEF ApplyTag, TagCost
    <3>2. PICK r, t : r = ApplyTag(v, tag) /\ r = Scalar("str", t)
      BY <3>1
    <3>3. Sane(r) /\ r # Nil /\ Blocks(r) = 1 + 1
      BY <3>2, ScalarSane
    <3> QED BY <1>1, <3>1, <3>2, <3>3
  <2> QED BY <2>1, <2>2
<1>4. CASE tag \in {"int", "bool"} /\ v.type = "str"
  <2>1. v.own >= 1
    BY <1>1, <1>4 DEF IsNullString
  <2>2. ApplyTag(v, tag) = Scalar(tag, v.text) /\ TagCost(v, tag) = -1
    BY <1>4 DEF ApplyTag, TagCost
  <2>3. PICK r : r = ApplyTag(v, tag)
    OBVIOUS
  <2>4. tag # "nil" /\ tag # "str"
    BY <1>4
  <2>5. Sane(r) /\ r # Nil /\ r.own = 0 /\ Blocks(r) = 1 + r.own
    BY <2>2, <2>3, <2>4, ScalarSane
  <2> QED BY <1>1, <2>1, <2>2, <2>3, <2>5
<1>5. CASE tag # "str" /\ ~(tag \in {"int", "bool"} /\ v.type = "str")
  <2>1. TagCost(v, tag) = 0
    BY <1>5 DEF TagCost
  <2>2. PICK r : r = ApplyTag(v, tag)
    OBVIOUS
  <2>3. r = v \/ \E type \in {"null", "float", "int", "bool"} : \E text : r = Scalar(type, text)
    BY <1>5, <2>2, Zenon DEF ApplyTag, NullValue
  <2>4. CASE r = v
    BY <1>1, <2>1, <2>2, <2>4
  <2>5. CASE r # v
    <3>1. PICK type, text : r = Scalar(type, text) /\ type # "str" /\ type # "nil"
      BY <2>3, <2>5
    <3>2. Sane(r) /\ r # Nil /\ r.own = 0 /\ Blocks(r) = 1 + r.own
      BY <3>1, ScalarSane
    <3> QED BY <1>1, <2>1, <2>2, <3>2
  <2> QED BY <2>4, <2>5
<1> QED BY <1>2, <1>3, <1>4, <1>5

(***************************************************************************)
(* The inductive invariant: sane values everywhere, and the ledger never   *)
(* below what can be reached.                                              *)
(***************************************************************************)
Sides == {"malloc", "custom"}

FrameSane(f) ==
  /\ Sane(f.v)
  /\ f.fn # "node" /\ f.lc # "enter" => f.v # Nil
  /\ f.fn \in {"fmap", "bmap"} => Distinct(f.v.kids)
  /\ f.lc = "merge" => f.key # NullKey
  /\ IsSeq(f.work) /\ \A i \in 1..Len(f.work) : Walkable(f.work[i])

FramesSane(s) == IsSeq(s) /\ \A i \in 1..Len(s) : FrameSane(s[i])
TableSane(t)  == IsSeq(t) /\ \A i \in 1..Len(t) : Sane(t[i].node)
DocsSane(l)   == IsSeq(l) /\ \A i \in 1..Len(l) : Sane(l[i])

HeapInv ==
  /\ live \in [Sides -> Int]
  /\ Sane(ret)
  /\ FramesSane(stack)
  /\ TableSane(anchors)
  /\ DocsSane(docs)
  /\ NothingFreedTwice

(* What the stack, a table of anchors and a list of documents come to. *)
LEMMA FrameSize == ASSUME NEW f, FrameSane(f) PROVE FrameBlocks(f) \in Nat
<1>1. Blocks(f.v) \in Nat
  BY SaneFacts DEF FrameSane
<1> QED BY <1>1 DEF FrameBlocks

LEMMA StackSizes ==
  ASSUME NEW s, FramesSane(s)
  PROVE  \E w : /\ Sizes(w) /\ Numbers(w) /\ Len(w) = Len(s) /\ Len(s) \in Nat
                /\ StackBlocks(s) = Total(w) /\ StackBlocks(s) \in Nat
                /\ \A i \in 1..Len(s) : w[i] = FrameBlocks(s[i])
<1> DEFINE w == [i \in DOMAIN s |-> FrameBlocks(s[i])]
<1>1. IsSeq(s) /\ Len(s) \in Nat /\ DOMAIN s = 1..Len(s)
  BY SeqDomain DEF FramesSane
<1>2. /\ w = [i \in 1..Len(s) |-> w[i]] /\ DOMAIN w = 1..Len(s)
      /\ \A i \in 1..Len(s) : w[i] = FrameBlocks(s[i])
  BY <1>1
<1>3. StackBlocks(s) = Total(w)
  BY DEF StackBlocks
<1> HIDE DEF w
<1>4. Len(w) = Len(s)
  BY <1>1, <1>2, SeqFunction
<1>5. \A i \in 1..Len(s) : w[i] \in Nat
  BY <1>2, FrameSize DEF FramesSane
<1>6. Sizes(w) /\ Numbers(w)
  BY <1>1, <1>4, <1>5 DEF Sizes, Numbers
<1> QED BY <1>1, <1>2, <1>3, <1>4, <1>6, TotalNat

LEMMA TableSizes ==
  ASSUME NEW t, TableSane(t)
  PROVE  \E w : /\ Sizes(w) /\ Numbers(w) /\ Len(w) = Len(t) /\ Len(t) \in Nat
                /\ AnchorBlocks(t) = Total(w) /\ AnchorBlocks(t) \in Nat
                /\ \A i \in 1..Len(t) : w[i] = 1 + Blocks(t[i].node)
<1> DEFINE w == [i \in DOMAIN t |-> 1 + Blocks(t[i].node)]
<1>1. IsSeq(t) /\ Len(t) \in Nat /\ DOMAIN t = 1..Len(t)
  BY SeqDomain DEF TableSane
<1>2. /\ w = [i \in 1..Len(t) |-> w[i]] /\ DOMAIN w = 1..Len(t)
      /\ \A i \in 1..Len(t) : w[i] = 1 + Blocks(t[i].node)
  BY <1>1
<1>3. AnchorBlocks(t) = Total(w)
  BY DEF AnchorBlocks
<1> HIDE DEF w
<1>4. Len(w) = Len(t)
  BY <1>1, <1>2, SeqFunction
<1>5. ASSUME NEW i \in 1..Len(t) PROVE w[i] \in Nat
  <2>1. Blocks(t[i].node) \in Nat
    BY SaneFacts DEF TableSane
  <2> QED BY <1>2, <2>1
<1>6. Sizes(w) /\ Numbers(w)
  BY <1>1, <1>4, <1>5 DEF Sizes, Numbers
<1> QED BY <1>1, <1>2, <1>3, <1>4, <1>6, TotalNat

LEMMA DocSizes ==
  ASSUME NEW l, DocsSane(l)
  PROVE  \E w : /\ Sizes(w) /\ Numbers(w) /\ Len(w) = Len(l) /\ Len(l) \in Nat
                /\ DocBlocks(l) = Total(w) /\ DocBlocks(l) \in Nat
                /\ \A i \in 1..Len(l) : w[i] = Blocks(l[i])
<1> DEFINE w == [i \in DOMAIN l |-> Blocks(l[i])]
<1>1. IsSeq(l) /\ Len(l) \in Nat /\ DOMAIN l = 1..Len(l)
  BY SeqDomain DEF DocsSane
<1>2. /\ w = [i \in 1..Len(l) |-> w[i]] /\ DOMAIN w = 1..Len(l)
      /\ \A i \in 1..Len(l) : w[i] = Blocks(l[i])
  BY <1>1
<1>3. DocBlocks(l) = Total(w)
  BY DEF DocBlocks
<1> HIDE DEF w
<1>4. Len(w) = Len(l)
  BY <1>1, <1>2, SeqFunction
<1>5. \A i \in 1..Len(l) : w[i] \in Nat
  BY <1>2, SaneFacts DEF DocsSane
<1>6. Sizes(w) /\ Numbers(w)
  BY <1>1, <1>4, <1>5 DEF Sizes, Numbers
<1> QED BY <1>1, <1>2, <1>3, <1>4, <1>6, TotalNat

(* Nothing, and one more. *)
LEMMA NothingHeld ==
  /\ FramesSane(<<>>) /\ StackBlocks(<<>>) = 0
  /\ TableSane(<<>>) /\ AnchorBlocks(<<>>) = 0
  /\ DocsSane(<<>>) /\ DocBlocks(<<>>) = 0
<1>1. IsSeq(<<>>) /\ Len(<<>>) = 0
  BY EmptyIsSeq
<1>2. FramesSane(<<>>) /\ TableSane(<<>>) /\ DocsSane(<<>>)
  BY <1>1 DEF FramesSane, TableSane, DocsSane
<1>3. StackBlocks(<<>>) = 0
  BY <1>1, <1>2, StackSizes, TotalEmpty
<1>4. AnchorBlocks(<<>>) = 0
  BY <1>1, <1>2, TableSizes, TotalEmpty
<1>5. DocBlocks(<<>>) = 0
  BY <1>1, <1>2, DocSizes, TotalEmpty
<1> QED BY <1>2, <1>3, <1>4, <1>5

LEMMA StackCall ==
  ASSUME NEW s, FramesSane(s), NEW g, FrameSane(g), NEW t, t = Append(s, g)
  PROVE  FramesSane(t) /\ StackBlocks(t) = StackBlocks(s) + FrameBlocks(g)
<1>1. PICK w : /\ Numbers(w) /\ Len(w) = Len(s) /\ Len(s) \in Nat /\ StackBlocks(s) = Total(w)
               /\ \A i \in 1..Len(s) : w[i] = FrameBlocks(s[i])
  BY StackSizes
<1>2. PICK n \in Nat : n = Len(s)
  BY <1>1
<1>3. IsSeq(t) /\ Len(t) = n + 1 /\ (\A i \in 1..n : t[i] = s[i]) /\ t[n + 1] = g
  BY <1>2, SeqAppend DEF FramesSane
<1>4. \A i \in 1..n + 1 : i \in 1..n \/ i = n + 1
  OBVIOUS
<1>5. FramesSane(t)
  BY <1>2, <1>3, <1>4 DEF FramesSane
<1>6. PICK u : /\ Numbers(u) /\ Len(u) = n + 1 /\ StackBlocks(t) = Total(u)
               /\ \A i \in 1..n + 1 : u[i] = FrameBlocks(t[i])
  <2>1. PICK u : /\ Numbers(u) /\ Len(u) = Len(t) /\ StackBlocks(t) = Total(u)
                 /\ \A i \in 1..Len(t) : u[i] = FrameBlocks(t[i])
    BY <1>5, StackSizes
  <2> QED BY <1>3, <2>1
<1>7. (\A i \in 1..n : u[i] = w[i]) /\ u[n + 1] = FrameBlocks(g)
  BY <1>1, <1>2, <1>3, <1>6
<1>8. Total(u) = Total(w) + u[Len(u)]
  BY <1>1, <1>2, <1>6, <1>7, TotalAppend
<1> QED BY <1>1, <1>5, <1>6, <1>7, <1>8

LEMMA StackSetTop ==
  ASSUME NEW s, FramesSane(s), s # <<>>, NEW f, FrameSane(f), NEW t, t = [s EXCEPT ![Len(s)] = f]
  PROVE  /\ FramesSane(t) /\ t # <<>> /\ Len(t) = Len(s) /\ t[Len(t)] = f
         /\ StackBlocks(t) = StackBlocks(s) - FrameBlocks(s[Len(s)]) + FrameBlocks(f)
<1>1. PICK w : /\ Numbers(w) /\ Len(w) = Len(s) /\ Len(s) \in Nat /\ StackBlocks(s) = Total(w)
               /\ \A i \in 1..Len(s) : w[i] = FrameBlocks(s[i])
  BY StackSizes
<1>2. PICK n \in Nat : n = Len(s) /\ n > 0
  BY SeqDomain DEF FramesSane
<1>3. /\ IsSeq(t) /\ Len(t) = n /\ t # <<>>
      /\ (\A i \in 1..n - 1 : t[i] = s[i]) /\ t[n] = f
  <2>1. IsSeq(s)
    BY DEF FramesSane
  <2> DEFINE r == [s EXCEPT ![Len(s)] = f]
  <2>2. /\ IsSeq(r) /\ Len(r) = Len(s) /\ r # <<>>
        /\ (\A i \in 1..Len(s) - 1 : r[i] = s[i]) /\ r[Len(s)] = f
    BY <2>1, SeqSetTop
  <2>3. t = r
    OBVIOUS
  <2> HIDE DEF r
  <2> QED BY <1>2, <2>2, <2>3
<1>4. (\A i \in 1..n : i \in 1..n - 1 \/ i = n) /\ n \in 1..n
  BY <1>2
<1>5. FramesSane(t)
  BY <1>2, <1>3, <1>4 DEF FramesSane
<1>6. PICK u : /\ Numbers(u) /\ Len(u) = n /\ StackBlocks(t) = Total(u)
               /\ \A i \in 1..n : u[i] = FrameBlocks(t[i])
  <2>1. PICK u : /\ Numbers(u) /\ Len(u) = Len(t) /\ StackBlocks(t) = Total(u)
                 /\ \A i \in 1..Len(t) : u[i] = FrameBlocks(t[i])
    BY <1>5, StackSizes
  <2> QED BY <1>3, <2>1
<1>7. \A i \in 1..Len(w) : i # n => u[i] = w[i]
  BY <1>1, <1>2, <1>3, <1>4, <1>6
<1>8. Total(u) = Total(w) - w[n] + u[n]
  BY <1>1, <1>2, <1>4, <1>6, <1>7, TotalReplace
<1>9. w[n] = FrameBlocks(s[n]) /\ u[n] = FrameBlocks(f)
  BY <1>1, <1>2, <1>3, <1>4, <1>6
<1> QED BY <1>1, <1>2, <1>3, <1>5, <1>6, <1>8, <1>9

LEMMA StackReturn ==
  ASSUME NEW s, FramesSane(s), s # <<>>, NEW t, t = SubSeq(s, 1, Len(s) - 1)
  PROVE  FramesSane(t) /\ StackBlocks(s) = StackBlocks(t) + FrameBlocks(s[Len(s)])
<1>1. PICK w : /\ Numbers(w) /\ Len(w) = Len(s) /\ Len(s) \in Nat /\ StackBlocks(s) = Total(w)
               /\ \A i \in 1..Len(s) : w[i] = FrameBlocks(s[i])
  BY StackSizes
<1>2. PICK n \in Nat : n = Len(s) /\ n > 0
  BY SeqDomain DEF FramesSane
<1>3. IsSeq(t) /\ Len(t) = n - 1 /\ \A i \in 1..n - 1 : t[i] = s[i]
  BY <1>2, SeqReturn DEF FramesSane
<1>4. (\A i \in 1..n - 1 : i \in 1..n) /\ n \in 1..n /\ n = (n - 1) + 1
  BY <1>2
<1>5. FramesSane(t)
  BY <1>2, <1>3, <1>4 DEF FramesSane
<1>6. PICK u : /\ Numbers(u) /\ Len(u) = n - 1 /\ StackBlocks(t) = Total(u)
               /\ \A i \in 1..n - 1 : u[i] = FrameBlocks(t[i])
  <2>1. PICK u : /\ Numbers(u) /\ Len(u) = Len(t) /\ StackBlocks(t) = Total(u)
                 /\ \A i \in 1..Len(t) : u[i] = FrameBlocks(t[i])
    BY <1>5, StackSizes
  <2> QED BY <1>3, <2>1
<1>7. (\A i \in 1..Len(u) : w[i] = u[i]) /\ Len(w) = Len(u) + 1
  BY <1>1, <1>2, <1>3, <1>4, <1>6
<1>8. Total(w) = Total(u) + w[Len(w)]
  BY <1>1, <1>6, <1>7, TotalAppend
<1>9. w[Len(w)] = FrameBlocks(s[n])
  BY <1>1, <1>2, <1>4
<1> QED BY <1>1, <1>2, <1>5, <1>6, <1>8, <1>9

LEMMA TableAppend ==
  ASSUME NEW t, TableSane(t), NEW e, Sane(e.node), NEW r, r = Append(t, e)
  PROVE  TableSane(r) /\ AnchorBlocks(r) = AnchorBlocks(t) + 1 + Blocks(e.node)
<1>1. PICK w : /\ Numbers(w) /\ Len(w) = Len(t) /\ Len(t) \in Nat /\ AnchorBlocks(t) = Total(w)
               /\ AnchorBlocks(t) \in Nat
               /\ \A i \in 1..Len(t) : w[i] = 1 + Blocks(t[i].node)
  BY TableSizes
<1>2. PICK n \in Nat : n = Len(t)
  BY <1>1
<1>3. IsSeq(r) /\ Len(r) = n + 1 /\ (\A i \in 1..n : r[i] = t[i]) /\ r[n + 1] = e
  BY <1>2, SeqAppend DEF TableSane
<1>4. \A i \in 1..n + 1 : i \in 1..n \/ i = n + 1
  OBVIOUS
<1>5. TableSane(r)
  BY <1>2, <1>3, <1>4 DEF TableSane
<1>6. PICK u : /\ Numbers(u) /\ Len(u) = n + 1 /\ AnchorBlocks(r) = Total(u)
               /\ \A i \in 1..n + 1 : u[i] = 1 + Blocks(r[i].node)
  <2>1. PICK u : /\ Numbers(u) /\ Len(u) = Len(r) /\ AnchorBlocks(r) = Total(u)
                 /\ \A i \in 1..Len(r) : u[i] = 1 + Blocks(r[i].node)
    BY <1>5, TableSizes
  <2> QED BY <1>3, <2>1
<1>7. (\A i \in 1..n : u[i] = w[i]) /\ u[n + 1] = 1 + Blocks(e.node)
  BY <1>1, <1>2, <1>3, <1>6
<1>8. Total(u) = Total(w) + u[Len(u)]
  BY <1>1, <1>2, <1>6, <1>7, TotalAppend
<1>9. Blocks(e.node) \in Nat
  BY SaneFacts
<1> QED BY <1>1, <1>5, <1>6, <1>7, <1>8, <1>9

(* The table's names alone are no more than names and nodes. *)
LEMMA TableAtLeast ==
  ASSUME NEW t, TableSane(t)
  PROVE  Len(t) \in Nat /\ AnchorBlocks(t) \in Nat /\ Len(t) <= AnchorBlocks(t)
<1>1. PICK w : /\ Sizes(w) /\ Len(w) = Len(t) /\ Len(t) \in Nat /\ AnchorBlocks(t) = Total(w)
               /\ AnchorBlocks(t) \in Nat
               /\ \A i \in 1..Len(t) : w[i] = 1 + Blocks(t[i].node)
  BY TableSizes
<1>2. ASSUME NEW i \in 1..Len(w) PROVE w[i] >= 1
  <2>1. Blocks(t[i].node) \in Nat
    BY <1>1, SaneFacts DEF TableSane
  <2> QED BY <1>1, <2>1
<1> QED BY <1>1, <1>2, TotalAtLeast

LEMMA DocAppend ==
  ASSUME NEW l, DocsSane(l), NEW v, Sane(v), NEW r, r = Append(l, v)
  PROVE  DocsSane(r) /\ DocBlocks(r) = DocBlocks(l) + Blocks(v)
<1>1. PICK w : /\ Numbers(w) /\ Len(w) = Len(l) /\ Len(l) \in Nat /\ DocBlocks(l) = Total(w)
               /\ \A i \in 1..Len(l) : w[i] = Blocks(l[i])
  BY DocSizes
<1>2. PICK n \in Nat : n = Len(l)
  BY <1>1
<1>3. IsSeq(r) /\ Len(r) = n + 1 /\ (\A i \in 1..n : r[i] = l[i]) /\ r[n + 1] = v
  BY <1>2, SeqAppend DEF DocsSane
<1>4. \A i \in 1..n + 1 : i \in 1..n \/ i = n + 1
  OBVIOUS
<1>5. DocsSane(r)
  BY <1>2, <1>3, <1>4 DEF DocsSane
<1>6. PICK u : /\ Numbers(u) /\ Len(u) = n + 1 /\ DocBlocks(r) = Total(u)
               /\ \A i \in 1..n + 1 : u[i] = Blocks(r[i])
  <2>1. PICK u : /\ Numbers(u) /\ Len(u) = Len(r) /\ DocBlocks(r) = Total(u)
                 /\ \A i \in 1..Len(r) : u[i] = Blocks(r[i])
    BY <1>5, DocSizes
  <2> QED BY <1>3, <2>1
<1>7. (\A i \in 1..n : u[i] = w[i]) /\ u[n + 1] = Blocks(v)
  BY <1>1, <1>2, <1>3, <1>6
<1>8. Total(u) = Total(w) + u[Len(u)]
  BY <1>1, <1>2, <1>6, <1>7, TotalAppend
<1> QED BY <1>1, <1>5, <1>6, <1>7, <1>8

(***************************************************************************)
(* The ledger.  A step that takes n blocks from the client's allocator and *)
(* m from malloc may make n more blocks of values reachable, and m more of *)
(* the library's own; d is what it hands from the library to a value,      *)
(* which is sound when the allocators are one.                             *)
(***************************************************************************)
LEMMA SameHeap == ASSUME live \in [Sides -> Int], live' = live PROVE Heap(0, 0)
<1>1. \A a \in Sides : live[a] = live[a] + (IF a = alloc THEN 0 ELSE 0)
                                 + (IF a = "malloc" THEN 0 ELSE 0)
  OBVIOUS
<1>2. live = [a \in Sides |-> live[a]]
  OBVIOUS
<1> QED BY <1>1, <1>2 DEF Heap, Sides

LEMMA Balance ==
  ASSUME live \in [Sides -> Int], alloc \in Sides, NothingFreedTwice, pc # "crashed",
         tokens' = tokens, alloc' = alloc,
         NEW n \in Int, NEW m \in Int, NEW d \in Int, Heap(n, m),
         Held \in Int, Held' \in Int, HeldByLibrary \in Int, HeldByLibrary' \in Int,
         Held' <= Held + n + d, HeldByLibrary' <= HeldByLibrary + m - d,
         d = 0 \/ (SameAllocator => alloc = "malloc")
  PROVE  live' \in [Sides -> Int] /\ NothingFreedTwice'
<1>1. /\ live' \in [Sides -> Int]
      /\ \A a \in Sides : live'[a] = live[a] + (IF a = alloc THEN n ELSE 0)
                                             + (IF a = "malloc" THEN m ELSE 0)
  BY DEF Heap, Sides
<1>2. SUFFICES ASSUME SameAllocator, NEW x \in Sides PROVE live'[x] >= Reachable(x)'
  BY <1>1 DEF NothingFreedTwice, SameAllocator, Sides
<1>3. live[x] >= Reachable(x) /\ live[x] \in Int
  BY <1>2 DEF NothingFreedTwice
<1>4. d = 0 \/ alloc = "malloc"
  BY <1>2
<1>5. Reachable(x)' = (IF x = alloc THEN Held' ELSE 0)
                      + (IF x = "malloc" THEN HeldByLibrary' ELSE 0)
  BY DEF Reachable
<1>6. Reachable(x) = (IF x = alloc THEN Held ELSE 0)
                     + (IF x = "malloc" THEN HeldByLibrary ELSE 0)
  BY DEF Reachable
<1>7. live'[x] = live[x] + (IF x = alloc THEN n ELSE 0) + (IF x = "malloc" THEN m ELSE 0)
  BY <1>1
<1> QED BY <1>3, <1>4, <1>5, <1>6, <1>7

(* The buffers of the block scalars from p on. *)
Unread(T, p) == Cardinality({i \in p..Len(T) : T[i].kind = "block"})

LEMMA UnreadFacts ==
  ASSUME NEW T \in Inputs, NEW p \in 1..Len(T), NEW q \in p..Len(T)
  PROVE  /\ Unread(T, p) \in Nat /\ Unread(T, q) \in Nat
         /\ Unread(T, q) <= Unread(T, p)
         /\ q = p + 1 /\ T[p].kind = "block" => Unread(T, q) <= Unread(T, p) - 1
<1> DEFINE From(k) == {i \in k..Len(T) : T[i].kind = "block"}
<1>1. Len(T) \in Nat /\ p \in Nat /\ q \in Nat /\ p <= q
  BY Tokens
<1>2. IsFiniteSet(From(p)) /\ IsFiniteSet(From(q))
  <2>1. IsFiniteSet(p..Len(T)) /\ IsFiniteSet(q..Len(T))
    BY <1>1, FS_Interval
  <2>2. From(p) \in SUBSET (p..Len(T)) /\ From(q) \in SUBSET (q..Len(T))
    OBVIOUS
  <2> QED BY <2>1, <2>2, FS_Subset
<1>3. From(q) \in SUBSET From(p)
  BY <1>1
<1>4. q = p + 1 => From(q) \in SUBSET (From(p) \ {p})
  BY <1>1
<1>5. T[p].kind = "block" => p \in From(p)
  BY <1>1
<1>6. Unread(T, p) = Cardinality(From(p)) /\ Unread(T, q) = Cardinality(From(q))
  BY DEF Unread
<1> HIDE DEF From
<1>7. Cardinality(From(p)) \in Nat /\ Cardinality(From(q)) \in Nat
  BY <1>2, FS_CardinalityType
<1>8. Cardinality(From(q)) <= Cardinality(From(p))
  BY <1>2, <1>3, FS_Subset
<1>9. ASSUME q = p + 1, T[p].kind = "block"
      PROVE  Cardinality(From(q)) <= Cardinality(From(p)) - 1
  <2>1. p \in From(p) /\ From(q) \in SUBSET (From(p) \ {p})
    BY <1>4, <1>5, <1>9
  <2>2. /\ IsFiniteSet(From(p) \ {p})
        /\ Cardinality(From(p) \ {p}) = Cardinality(From(p)) - 1
    BY <1>2, <2>1, FS_RemoveElement
  <2>3. Cardinality(From(q)) <= Cardinality(From(p) \ {p})
    BY <2>1, <2>2, FS_Subset
  <2> QED BY <2>2, <2>3
<1> QED BY <1>6, <1>7, <1>8, <1>9

LEMMA BuffersAre == IInv => Buffers = Unread(tokens, 1)
<1>1. IInv => DOMAIN tokens = 1..Len(tokens)
  BY Tokens DEF IInv
<1> QED BY <1>1 DEF Buffers, Unread

(* What the library keeps for itself, and what the parser holds. *)
Arrays(c, md) == (IF c \in {"parsing", "loop"} THEN 2 ELSE 0)
                 + (IF md = "stream" /\ c \in {"parsing", "loop", "done"} THEN 1 ELSE 0)

LEMMA LibraryIs ==
  ASSUME tokens \in Inputs, pos \in 1..Len(tokens)
  PROVE  /\ HeldByLibrary = (IF pc \in {"call", "refused"} THEN 0 ELSE Unread(tokens, pos))
                            + Arrays(pc, mode)
         /\ Unread(tokens, pos) \in Nat /\ Arrays(pc, mode) \in Nat /\ HeldByLibrary \in Nat
<1>1. Unread(tokens, pos) \in Nat
  <2>1. pos \in pos..Len(tokens)
    BY Tokens
  <2> QED BY <2>1, UnreadFacts
<1>2. UnreadBuffers = IF pc \in {"call", "refused"} THEN 0 ELSE Unread(tokens, pos)
  BY DEF UnreadBuffers, Unread
<1>3. UnreadBuffers \in Nat /\ Arrays(pc, mode) \in Nat
  BY <1>1, <1>2 DEF Arrays
<1>4. HeldByLibrary = UnreadBuffers + Arrays(pc, mode)
  BY <1>3 DEF HeldByLibrary, Arrays
<1> QED BY <1>1, <1>2, <1>3, <1>4

Ret(lc, v)    == IF lc \in {"tail", "elem", "put", "merge"} THEN Blocks(v) ELSE 0
RetPart(s, v) == IF s = <<>> THEN Blocks(v) ELSE Ret(s[Len(s)].lc, v)

LEMMA HeldIs ==
  Held = StackBlocks(stack) + (IF pc = "parsing" THEN RetPart(stack, ret) ELSE 0)
         + AnchorBlocks(anchors) + DocBlocks(docs)
BY DEF Held, RetHeld, RetPart, Ret, Top

LEMMA HeldFacts ==
  ASSUME Sane(ret), FramesSane(stack), TableSane(anchors), DocsSane(docs)
  PROVE  /\ StackBlocks(stack) \in Nat /\ AnchorBlocks(anchors) \in Nat
         /\ DocBlocks(docs) \in Nat /\ RetPart(stack, ret) \in Nat
         /\ Blocks(ret) \in Nat /\ Held \in Nat
<1>1. StackBlocks(stack) \in Nat /\ AnchorBlocks(anchors) \in Nat /\ DocBlocks(docs) \in Nat
  BY StackSizes, TableSizes, DocSizes
<1>2. Blocks(ret) \in Nat
  BY SaneFacts
<1>3. RetPart(stack, ret) \in Nat
  BY <1>2 DEF RetPart, Ret
<1> QED BY <1>1, <1>2, <1>3, HeldIs

(***************************************************************************)
(* A step inside the descent.                                              *)
(***************************************************************************)
Handed(d) == d = 0 \/ (d = 1 /\ Cur.kind = "block" /\ pos' = pos + 1)

LEMMA DescentHeap ==
  ASSUME IInv, HeapInv, Keep, pc = "parsing", pos' \in pos..Len(tokens),
         NEW n \in Int, NEW d, Handed(d), Heap(n, 0),
         Sane(ret'), FramesSane(stack'), TableSane(anchors'),
         StackBlocks(stack') + RetPart(stack', ret') + AnchorBlocks(anchors')
           <= StackBlocks(stack) + RetPart(stack, ret) + AnchorBlocks(anchors) + n + d
  PROVE  HeapInv'
<1>1. /\ tokens' = tokens /\ docs' = docs /\ pc' = pc /\ mode' = mode /\ alloc' = alloc
      /\ tokens \in Inputs /\ pos \in 1..Len(tokens) /\ alloc \in Sides
      /\ pc # "crashed" /\ d \in Int
  BY ParametersAssumption DEF Keep, IInv, Sides, Handed
<1>2. pos' \in 1..Len(tokens)
  BY <1>1, Tokens
<1>3. /\ live \in [Sides -> Int] /\ Sane(ret) /\ FramesSane(stack) /\ TableSane(anchors)
      /\ DocsSane(docs) /\ NothingFreedTwice
  BY DEF HeapInv
<1>4. DocsSane(docs)'
  BY <1>1, <1>3
<1>5. /\ Held = StackBlocks(stack) + RetPart(stack, ret) + AnchorBlocks(anchors) + DocBlocks(docs)
      /\ StackBlocks(stack) \in Nat /\ AnchorBlocks(anchors) \in Nat
      /\ DocBlocks(docs) \in Nat /\ RetPart(stack, ret) \in Nat /\ Held \in Nat
  BY <1>3, HeldFacts, HeldIs
<1>6. /\ Held' = StackBlocks(stack') + RetPart(stack', ret') + AnchorBlocks(anchors')
                 + DocBlocks(docs)
      /\ StackBlocks(stack') \in Nat /\ AnchorBlocks(anchors') \in Nat
      /\ RetPart(stack', ret') \in Nat /\ Held' \in Nat
  <2>1. (Sane(ret) /\ FramesSane(stack) /\ TableSane(anchors) /\ DocsSane(docs)
         => /\ StackBlocks(stack) \in Nat /\ AnchorBlocks(anchors) \in Nat
            /\ RetPart(stack, ret) \in Nat /\ Held \in Nat)'
    BY HeldFacts, PTL
  <2>2. (Held = StackBlocks(stack) + (IF pc = "parsing" THEN RetPart(stack, ret) ELSE 0)
                + AnchorBlocks(anchors) + DocBlocks(docs))'
    BY HeldIs, PTL
  <2> QED BY <1>1, <1>4, <2>1, <2>2
<1>7. /\ HeldByLibrary = Unread(tokens, pos) + Arrays(pc, mode)
      /\ Unread(tokens, pos) \in Nat /\ Arrays(pc, mode) \in Nat /\ HeldByLibrary \in Nat
  BY <1>1, LibraryIs
<1>8. /\ HeldByLibrary' = Unread(tokens, pos') + Arrays(pc, mode)
      /\ Unread(tokens, pos') \in Nat /\ HeldByLibrary' \in Nat
  <2>1. (tokens \in Inputs /\ pos \in 1..Len(tokens)
         => /\ HeldByLibrary = (IF pc \in {"call", "refused"} THEN 0 ELSE Unread(tokens, pos))
                               + Arrays(pc, mode)
            /\ Unread(tokens, pos) \in Nat /\ HeldByLibrary \in Nat)'
    BY LibraryIs, PTL
  <2> QED BY <1>1, <1>2, <2>1
<1>9. Unread(tokens, pos') <= Unread(tokens, pos) - d
  <2>1. CASE d = 0
    BY <1>1, <1>7, <1>8, <2>1, UnreadFacts
  <2>2. CASE d = 1 /\ Cur.kind = "block" /\ pos' = pos + 1
    BY <1>1, <2>2, UnreadFacts DEF Cur
  <2> QED BY <2>1, <2>2 DEF Handed
<1>10. d = 0 \/ (SameAllocator => alloc = "malloc")
  <2>1. DOMAIN tokens = 1..Len(tokens)
    BY <1>1, Tokens
  <2> QED BY <1>1, <2>1 DEF Handed, SameAllocator, Cur
<1>11. Held' <= Held + n + d
  <2>1. PICK s, s1, a, a1 \in Nat :
               /\ s = StackBlocks(stack) /\ s1 = StackBlocks(stack')
               /\ a = AnchorBlocks(anchors) /\ a1 = AnchorBlocks(anchors')
    BY <1>5, <1>6
  <2>2. PICK r, r1, b \in Nat :
               /\ r = RetPart(stack, ret) /\ r1 = RetPart(stack', ret') /\ b = DocBlocks(docs)
    BY <1>5, <1>6
  <2>3. s1 + r1 + a1 <= s + r + a + n + d
    BY <2>1, <2>2
  <2>4. s1 + r1 + a1 + b <= s + r + a + b + n + d
    BY <1>1, <2>3
  <2> QED BY <1>5, <1>6, <2>1, <2>2, <2>4
<1>12. PICK m \in Int : m = 0 /\ HeldByLibrary' <= HeldByLibrary + m - d
  <2>1. PICK u, u1, c \in Nat : /\ u = Unread(tokens, pos) /\ u1 = Unread(tokens, pos')
                                /\ c = Arrays(pc, mode)
    BY <1>7, <1>8
  <2>2. u1 <= u - d
    BY <1>9, <2>1
  <2>3. u1 + c <= u + c + 0 - d
    BY <1>1, <2>2
  <2> QED BY <1>7, <1>8, <2>1, <2>3
<1>13. live' \in [Sides -> Int] /\ NothingFreedTwice'
  <2>1. Heap(n, m)
    BY <1>12
  <2>2. /\ Held \in Int /\ Held' \in Int /\ HeldByLibrary \in Int /\ HeldByLibrary' \in Int
        /\ HeldByLibrary' <= HeldByLibrary + m - d
    BY <1>5, <1>6, <1>7, <1>8, <1>12
  <2> QED BY <1>1, <1>3, <1>10, <1>11, <2>1, <2>2, Balance
<1> QED BY <1>4, <1>13 DEF HeapInv

LEMMA StepSetTop ==
  ASSUME IInv, HeapInv, Keep, pc = "parsing", stack # <<>>, pos' \in pos..Len(tokens),
         NEW n \in Int, NEW d, Handed(d), Heap(n, 0),
         NEW f, SetTop(f), FrameSane(f), Sane(ret'), TableSane(anchors'),
         FrameBlocks(f) + Ret(f.lc, ret') + AnchorBlocks(anchors')
           <= FrameBlocks(Top) + Ret(Top.lc, ret) + AnchorBlocks(anchors) + n + d
  PROVE  HeapInv'
<1>1. FramesSane(stack) /\ Sane(ret) /\ TableSane(anchors)
  BY DEF HeapInv
<1>2. PICK t : t = stack'
  OBVIOUS
<1>3. /\ FramesSane(t) /\ t # <<>> /\ Len(t) = Len(stack) /\ t[Len(t)] = f
      /\ StackBlocks(t) = StackBlocks(stack) - FrameBlocks(Top) + FrameBlocks(f)
  BY <1>1, <1>2, StackSetTop DEF SetTop, Top
<1>4. /\ StackBlocks(stack) \in Nat /\ StackBlocks(t) \in Nat
      /\ AnchorBlocks(anchors) \in Nat /\ AnchorBlocks(anchors') \in Nat
      /\ Blocks(ret) \in Nat /\ Blocks(ret') \in Nat
  BY <1>1, <1>3, StackSizes, TableSizes, SaneFacts
<1>5. RetPart(stack, ret) = Ret(Top.lc, ret) /\ RetPart(t, ret') = Ret(f.lc, ret')
  BY <1>3 DEF RetPart, Top
<1>6. Ret(Top.lc, ret) \in Nat /\ Ret(f.lc, ret') \in Nat
  BY <1>4 DEF Ret
<1>7. FrameBlocks(f) \in Nat /\ FrameBlocks(Top) \in Nat
  <2>1. FrameSane(Top)
    BY <1>1, SeqDomain DEF FramesSane, Top
  <2> QED BY <2>1, FrameSize
<1>8. d \in Int
  BY DEF Handed
<1>9. StackBlocks(t) + RetPart(t, ret') + AnchorBlocks(anchors')
        <= StackBlocks(stack) + RetPart(stack, ret) + AnchorBlocks(anchors) + n + d
  <2>1. PICK s, s1, a, a1 \in Nat :
               /\ s = StackBlocks(stack) /\ s1 = StackBlocks(t)
               /\ a = AnchorBlocks(anchors) /\ a1 = AnchorBlocks(anchors')
    BY <1>4
  <2>2. PICK r, r1, b, b1 \in Nat :
               /\ r = Ret(Top.lc, ret) /\ r1 = Ret(f.lc, ret')
               /\ b = FrameBlocks(Top) /\ b1 = FrameBlocks(f)
    BY <1>6, <1>7
  <2>3. b1 + r1 + a1 <= b + r + a + n + d
    BY <2>1, <2>2
  <2>4. s1 = s - b + b1
    BY <1>3, <2>1, <2>2
  <2>5. s1 + r1 + a1 <= s + r + a + n + d
    BY <1>8, <2>3, <2>4
  <2> QED BY <1>5, <2>1, <2>2, <2>5
<1> QED BY <1>2, <1>3, <1>9, DescentHeap

LEMMA StepTop ==
  ASSUME IInv, HeapInv, Keep, pc = "parsing", stack # <<>>, pos' \in pos..Len(tokens),
         NEW n \in Int, Heap(n, 0),
         NEW f, SetTop(f), FrameSane(f), Sane(ret'), TableSane(anchors'),
         FrameBlocks(f) + Ret(f.lc, ret') + AnchorBlocks(anchors')
           <= FrameBlocks(Top) + Ret(Top.lc, ret) + AnchorBlocks(anchors) + n
  PROVE  HeapInv'
<1>1. PICK d : d = 0
  OBVIOUS
<1>2. Handed(d)
  BY <1>1 DEF Handed
<1>3. /\ FrameBlocks(Top) \in Nat /\ AnchorBlocks(anchors) \in Nat /\ Ret(Top.lc, ret) \in Nat
  <2>1. FrameSane(Top) /\ Sane(ret) /\ TableSane(anchors)
    BY SeqDomain DEF HeapInv, FramesSane, Top
  <2>2. Blocks(ret) \in Nat
    BY <2>1, SaneFacts
  <2> QED BY <2>1, <2>2, FrameSize, TableSizes DEF Ret
<1>4. FrameBlocks(f) + Ret(f.lc, ret') + AnchorBlocks(anchors')
        <= FrameBlocks(Top) + Ret(Top.lc, ret) + AnchorBlocks(anchors) + n + d
  <2>1. PICK k \in Int : k = FrameBlocks(Top) + Ret(Top.lc, ret) + AnchorBlocks(anchors) + n
    BY <1>3
  <2>2. k + d = k
    BY <1>1
  <2> QED BY <2>1, <2>2
<1> QED BY <1>2, <1>4, StepSetTop

LEMMA NewFrame ==
  ASSUME NEW fn, NEW col, NEW at
  PROVE  LET g == Frame(fn, col, at)
         IN FrameSane(g) /\ FrameBlocks(g) = 0 /\ g.lc = "enter"
<1> DEFINE g == Frame(fn, col, at)
<1>1. g.v = Nil /\ g.lc = "enter" /\ g.work = <<>>
  BY DEF Frame
<1>2. Distinct(Nil.kids)
  <2>1. Len(Nil.kids) = 0
    BY DEF Nil
  <2> QED BY <2>1 DEF Distinct
<1>3. IsSeq(<<>>) /\ Len(<<>>) = 0
  BY EmptyIsSeq
<1> HIDE DEF g
<1>4. FrameSane(g)
  BY <1>1, <1>2, <1>3, NilSane DEF FrameSane
<1>5. FrameBlocks(g) = 0
  BY <1>1, NilSane DEF FrameBlocks, HoldsKey
<1>6. FrameSane(g) /\ FrameBlocks(g) = 0 /\ g.lc = "enter"
  BY <1>1, <1>4, <1>5
<1> QED BY <1>6 DEF g

LEMMA StepCall ==
  ASSUME IInv, HeapInv, Keep, pc = "parsing", stack # <<>>, pos' \in pos..Len(tokens),
         NEW n \in Int, Heap(n, 0),
         NEW f, NEW fn, NEW col, NEW at, Call(f, fn, col, at), FrameSane(f),
         ret' = ret, anchors' = anchors,
         FrameBlocks(f) <= FrameBlocks(Top) + Ret(Top.lc, ret) + n
  PROVE  HeapInv'
<1> DEFINE g == Frame(fn, col, at)
<1>1. FramesSane(stack) /\ Sane(ret) /\ TableSane(anchors)
  BY DEF HeapInv
<1>2. PICK r, t : r = [stack EXCEPT ![Len(stack)] = f] /\ t = Append(r, g) /\ t = stack'
  BY DEF Call
<1>3. FrameSane(g) /\ FrameBlocks(g) = 0 /\ g.lc = "enter"
  BY NewFrame
<1>4. /\ FramesSane(r)
      /\ StackBlocks(r) = StackBlocks(stack) - FrameBlocks(Top) + FrameBlocks(f)
  BY <1>1, <1>2, StackSetTop DEF Top
<1> HIDE DEF g
<1>5. FramesSane(t) /\ StackBlocks(t) = StackBlocks(r) + FrameBlocks(g)
  BY <1>2, <1>3, <1>4, StackCall
<1>6. t # <<>> /\ t[Len(t)].lc = "enter"
  <2>1. IsSeq(r)
    BY <1>4 DEF FramesSane
  <2>2. PICK k \in Nat : k = Len(r)
    BY <2>1, SeqDomain
  <2>3. Len(t) = k + 1 /\ t[k + 1] = g
    BY <1>2, <2>1, <2>2, SeqAppend
  <2>4. Len(<<>>) = 0
    OBVIOUS
  <2>5. t # <<>>
    BY <2>3, <2>4
  <2> QED BY <1>3, <2>3, <2>5
<1>7. RetPart(stack, ret) = Ret(Top.lc, ret) /\ RetPart(t, ret') = 0
  BY <1>6 DEF RetPart, Ret, Top
<1>8. /\ StackBlocks(stack) \in Nat /\ StackBlocks(t) \in Nat /\ StackBlocks(r) \in Nat
      /\ AnchorBlocks(anchors) \in Nat /\ Blocks(ret) \in Nat
  BY <1>1, <1>4, <1>5, StackSizes, TableSizes, SaneFacts
<1>9. FrameBlocks(f) \in Nat /\ FrameBlocks(Top) \in Nat /\ Ret(Top.lc, ret) \in Nat
  <2>1. FrameSane(Top)
    BY <1>1, SeqDomain DEF FramesSane, Top
  <2> QED BY <1>8, <2>1, FrameSize DEF Ret
<1>10. PICK d : d = 0
  OBVIOUS
<1>11. Handed(d)
  BY <1>10 DEF Handed
<1>12. StackBlocks(t) + RetPart(t, ret') + AnchorBlocks(anchors')
         <= StackBlocks(stack) + RetPart(stack, ret) + AnchorBlocks(anchors) + n + d
  <2>1. PICK s, s1, s2, a \in Nat :
               /\ s = StackBlocks(stack) /\ s1 = StackBlocks(r) /\ s2 = StackBlocks(t)
               /\ a = AnchorBlocks(anchors)
    BY <1>8
  <2>2. PICK q, b, b1 \in Nat :
               /\ q = Ret(Top.lc, ret) /\ b = FrameBlocks(Top) /\ b1 = FrameBlocks(f)
    BY <1>9
  <2>3. b1 <= b + q + n /\ s1 = s - b + b1 /\ s2 = s1
    BY <1>3, <1>4, <1>5, <2>1, <2>2
  <2>4. s2 + 0 + a <= s + q + a + n + d
    BY <1>10, <2>3
  <2> QED BY <1>7, <2>1, <2>2, <2>4
<1>13. Sane(ret') /\ FramesSane(stack') /\ TableSane(anchors')
  BY <1>1, <1>2, <1>5
<1> QED BY <1>2, <1>11, <1>12, <1>13, DescentHeap

LEMMA StepReturn ==
  ASSUME IInv, HeapInv, Keep, pc = "parsing", stack # <<>>, pos' \in pos..Len(tokens),
         NEW n \in Int, Heap(n, 0),
         NEW v, Return(v), Sane(v), TableSane(anchors'),
         Blocks(v) + AnchorBlocks(anchors')
           <= FrameBlocks(Top) + Ret(Top.lc, ret) + AnchorBlocks(anchors) + n
  PROVE  HeapInv'
<1>1. FramesSane(stack) /\ Sane(ret) /\ TableSane(anchors)
  BY DEF HeapInv
<1>2. PICK t : t = stack' /\ t = SubSeq(stack, 1, Len(stack) - 1)
  BY DEF Return
<1>3. ret' = v
  BY DEF Return
<1>4. FramesSane(t) /\ StackBlocks(stack) = StackBlocks(t) + FrameBlocks(Top)
  BY <1>1, <1>2, StackReturn DEF Top
<1>5. /\ StackBlocks(stack) \in Nat /\ StackBlocks(t) \in Nat
      /\ AnchorBlocks(anchors) \in Nat /\ AnchorBlocks(anchors') \in Nat
      /\ Blocks(ret) \in Nat /\ Blocks(v) \in Nat
  BY <1>1, <1>4, StackSizes, TableSizes, SaneFacts
<1>6. FrameBlocks(Top) \in Nat /\ Ret(Top.lc, ret) \in Nat
  <2>1. FrameSane(Top)
    BY <1>1, SeqDomain DEF FramesSane, Top
  <2> QED BY <1>5, <2>1, FrameSize DEF Ret
<1>7. /\ RetPart(stack, ret) = Ret(Top.lc, ret)
      /\ RetPart(t, ret') \in Nat /\ RetPart(t, ret') <= Blocks(v)
  BY <1>3, <1>5 DEF RetPart, Ret, Top
<1>8. PICK d : d = 0
  OBVIOUS
<1>9. Handed(d)
  BY <1>8 DEF Handed
<1>10. StackBlocks(t) + RetPart(t, ret') + AnchorBlocks(anchors')
         <= StackBlocks(stack) + RetPart(stack, ret) + AnchorBlocks(anchors) + n + d
  <2>1. PICK s, s1, a, a1 \in Nat :
               /\ s = StackBlocks(stack) /\ s1 = StackBlocks(t)
               /\ a = AnchorBlocks(anchors) /\ a1 = AnchorBlocks(anchors')
    BY <1>5
  <2>2. PICK q, b, x, y \in Nat :
               /\ q = Ret(Top.lc, ret) /\ b = FrameBlocks(Top)
               /\ x = Blocks(v) /\ y = RetPart(t, ret')
    BY <1>5, <1>6, <1>7
  <2>3. x + a1 <= b + q + a + n /\ s = s1 + b /\ y <= x
    BY <1>4, <1>7, <2>1, <2>2
  <2>4. s1 + y + a1 <= s + q + a + n + d
    BY <1>8, <2>3
  <2> QED BY <1>7, <2>1, <2>2, <2>4
<1> QED BY <1>2, <1>3, <1>4, <1>9, <1>10, DescentHeap

(* The stack stays as it is. *)
LEMMA StepStay ==
  ASSUME IInv, HeapInv, Keep, pc = "parsing", pos' \in pos..Len(tokens),
         UNCHANGED <<stack, ret, anchors, live>>
  PROVE  HeapInv'
<1>1. PICK n \in Int, d \in Int : n = 0 /\ d = 0
  OBVIOUS
<1>2. Handed(d)
  BY <1>1 DEF Handed
<1>3. live \in [Sides -> Int] /\ Sane(ret) /\ FramesSane(stack) /\ TableSane(anchors) /\ DocsSane(docs)
  BY DEF HeapInv
<1>4. Heap(n, 0)
  BY <1>1, <1>3, SameHeap
<1>5. PICK k \in Nat : k = StackBlocks(stack) + RetPart(stack, ret) + AnchorBlocks(anchors)
  BY <1>3, HeldFacts
<1>6. k <= k + n + d
  BY <1>1
<1>7. StackBlocks(stack') + RetPart(stack', ret') + AnchorBlocks(anchors') = k
  BY <1>5
<1>8. StackBlocks(stack') + RetPart(stack', ret') + AnchorBlocks(anchors')
        <= StackBlocks(stack) + RetPart(stack, ret) + AnchorBlocks(anchors) + n + d
  BY <1>5, <1>6, <1>7
<1>9. Sane(ret') /\ FramesSane(stack') /\ TableSane(anchors')
  BY <1>3
<1> QED BY <1>2, <1>4, <1>8, <1>9, DescentHeap

(* What every action inside the descent may count on. *)
LEMMA InHeap ==
  ASSUME IInv, HeapInv, NEW fn, NEW lc, At(fn, lc)
  PROVE  /\ pc = "parsing" /\ stack # <<>> /\ Top.fn = fn /\ Top.lc = lc
         /\ DOMAIN Top = Fields
         /\ FrameSane(Top) /\ Sane(ret) /\ TableSane(anchors) /\ live \in [Sides -> Int]
         /\ Sane(Top.v) /\ Blocks(Top.v) \in Nat
         /\ Blocks(ret) \in Nat /\ AnchorBlocks(anchors) \in Nat
         /\ FrameBlocks(Top) = Blocks(Top.v)
              + (IF lc \in {"put", "merge"} /\ Top.key # NullKey THEN 1 ELSE 0)
         /\ pos \in Nat /\ pos \in pos..Len(tokens)
<1>1. /\ pc = "parsing" /\ stack # <<>> /\ Top.fn = fn /\ Top.lc = lc
      /\ DOMAIN Top = Fields /\ pos \in Nat /\ pos \in 1..Len(tokens) /\ Len(tokens) \in Nat
  BY InDescent
<1>2. FrameSane(Top) /\ Sane(ret) /\ TableSane(anchors) /\ live \in [Sides -> Int]
  BY <1>1, SeqDomain DEF HeapInv, FramesSane, Top
<1>3. Sane(Top.v)
  BY <1>2 DEF FrameSane
<1>4. Blocks(Top.v) \in Nat /\ Blocks(ret) \in Nat /\ AnchorBlocks(anchors) \in Nat
  BY <1>2, <1>3, SaneFacts, TableSizes
<1>5. FrameBlocks(Top) = Blocks(Top.v)
              + (IF lc \in {"put", "merge"} /\ Top.key # NullKey THEN 1 ELSE 0)
  BY <1>1 DEF FrameBlocks, HoldsKey
<1> QED BY <1>1, <1>2, <1>3, <1>4, <1>5

LEMMA Onward ==
  ASSUME IInv, IInv', tokens' = tokens, NEW k \in Nat, pos' = pos + k
  PROVE  pos' \in pos..Len(tokens)
<1>1. pos \in Nat /\ pos' \in 1..Len(tokens) /\ Len(tokens) \in Nat
  BY Tokens DEF IInv
<1> QED BY <1>1

(* A frame that moves on to another label. *)
LEMMA GotoSane ==
  ASSUME DOMAIN Top = Fields, FrameSane(Top), Top.lc # "enter" \/ Top.fn = "node",
         NEW l, l # "merge"
  PROVE  /\ FrameSane(Goto(l)) /\ Goto(l).lc = l /\ Goto(l).v = Top.v
         /\ FrameBlocks(Goto(l)) = Blocks(Top.v)
              + (IF l = "put" /\ Top.key # NullKey THEN 1 ELSE 0)
<1>1. PICK g : g = Goto(l)
  OBVIOUS
<1>2. /\ g.lc = l /\ g.fn = Top.fn /\ g.v = Top.v /\ g.key = Top.key /\ g.work = Top.work
  BY <1>1 DEF Goto, Fields, Frame
<1>3. FrameSane(g)
  BY <1>2 DEF FrameSane
<1>4. FrameBlocks(g) = Blocks(Top.v) + (IF l = "put" /\ Top.key # NullKey THEN 1 ELSE 0)
  BY <1>2 DEF FrameBlocks, HoldsKey
<1> QED BY <1>1, <1>2, <1>3, <1>4

(* No block is taken or given back: a frame returns what it has at most, ... *)
LEMMA QuietReturn ==
  ASSUME IInv, HeapInv, Keep, NEW fn, NEW lc, At(fn, lc), pos' \in pos..Len(tokens),
         NEW v, Return(v), Sane(v), anchors' = anchors, live' = live,
         Blocks(v) <= Blocks(Top.v)
  PROVE  HeapInv'
<1>1. /\ pc = "parsing" /\ stack # <<>> /\ Sane(ret) /\ TableSane(anchors)
      /\ live \in [Sides -> Int] /\ Blocks(Top.v) \in Nat
      /\ Blocks(ret) \in Nat /\ AnchorBlocks(anchors) \in Nat
      /\ FrameBlocks(Top) = Blocks(Top.v)
           + (IF lc \in {"put", "merge"} /\ Top.key # NullKey THEN 1 ELSE 0)
  BY InHeap
<1>2. PICK n \in Int : n = 0
  OBVIOUS
<1>3. Heap(n, 0)
  BY <1>1, <1>2, SameHeap
<1>4. Blocks(v) \in Nat /\ Ret(Top.lc, ret) \in Nat
  BY <1>1, SaneFacts DEF Ret
<1>5. FrameBlocks(Top) \in Nat /\ Blocks(Top.v) <= FrameBlocks(Top)
  BY <1>1
<1>6. Blocks(v) + AnchorBlocks(anchors')
        <= FrameBlocks(Top) + Ret(Top.lc, ret) + AnchorBlocks(anchors) + n
  <2>1. PICK b, b1, c, q, a \in Nat :
               /\ b = Blocks(v) /\ b1 = Blocks(Top.v) /\ c = FrameBlocks(Top)
               /\ q = Ret(Top.lc, ret) /\ a = AnchorBlocks(anchors)
    BY <1>1, <1>4, <1>5
  <2>2. b <= b1 /\ b1 <= c
    BY <1>5, <2>1
  <2>3. b + a <= c + q + a + n
    BY <1>2, <2>2
  <2> QED BY <2>1, <2>3
<1>7. TableSane(anchors')
  BY <1>1
<1> QED BY <1>1, <1>3, <1>6, <1>7, StepReturn

(* ... or holds no more than before. *)
LEMMA QuietTop ==
  ASSUME IInv, HeapInv, Keep, NEW fn, NEW lc, At(fn, lc), pos' \in pos..Len(tokens),
         NEW f, SetTop(f), FrameSane(f), UNCHANGED <<ret, anchors, live>>,
         FrameBlocks(f) + Ret(f.lc, ret) <= FrameBlocks(Top) + Ret(lc, ret)
  PROVE  HeapInv'
<1>1. /\ pc = "parsing" /\ stack # <<>> /\ Top.lc = lc /\ Sane(ret) /\ TableSane(anchors)
      /\ live \in [Sides -> Int] /\ FrameSane(Top)
      /\ Blocks(ret) \in Nat /\ AnchorBlocks(anchors) \in Nat
  BY InHeap
<1>2. PICK n \in Int : n = 0
  OBVIOUS
<1>3. Heap(n, 0)
  BY <1>1, <1>2, SameHeap
<1>4. FrameBlocks(f) \in Nat /\ FrameBlocks(Top) \in Nat
  BY <1>1, FrameSize
<1>5. Ret(lc, ret) \in Nat /\ Ret(f.lc, ret) \in Nat
  BY <1>1 DEF Ret
<1>6. FrameBlocks(f) + Ret(f.lc, ret') + AnchorBlocks(anchors')
        <= FrameBlocks(Top) + Ret(Top.lc, ret) + AnchorBlocks(anchors) + n
  <2>1. PICK b, c, q, q1, a \in Nat :
               /\ b = FrameBlocks(f) /\ c = FrameBlocks(Top)
               /\ q = Ret(lc, ret) /\ q1 = Ret(f.lc, ret) /\ a = AnchorBlocks(anchors)
    BY <1>1, <1>4, <1>5
  <2>2. b + q1 <= c + q
    BY <2>1
  <2>3. b + q1 + a <= c + q + a + n
    BY <1>2, <2>2
  <2> QED BY <1>1, <2>1, <2>3
<1>7. Sane(ret') /\ TableSane(anchors')
  BY <1>1
<1> QED BY <1>1, <1>3, <1>6, <1>7, StepTop

(***************************************************************************)
(* parse_node.                                                             *)
(***************************************************************************)
LEMMA NodePropsHeap == IInv /\ HeapInv /\ IInv' /\ NodeProps => HeapInv'
<1> SUFFICES ASSUME IInv, HeapInv, IInv', NodeProps PROVE HeapInv'
  OBVIOUS
<1>1. /\ At("node", "enter") /\ Keep /\ anchors' = anchors /\ live' = live
  BY DEF NodeProps, Quiet
<1>2. /\ Top.fn = "node" /\ DOMAIN Top = Fields /\ FrameSane(Top)
      /\ Blocks(Top.v) \in Nat /\ FrameBlocks(Top) = Blocks(Top.v)
      /\ pos \in Nat /\ pos \in pos..Len(tokens)
  BY <1>1, InHeap
<1>3. CASE ok # 0
  <2>1. Return(Nil) /\ pos' = pos
    BY <1>3 DEF NodeProps
  <2>2. Sane(Nil) /\ Blocks(Nil) <= Blocks(Top.v)
    BY <1>2, NilSane
  <2> QED BY <1>1, <1>2, <2>1, <2>2, QuietReturn
<1>4. CASE ok = 0
  <2>2. PICK k \in Nat : pos' = pos + k
    <3>1. pos' = pos \/ pos' = pos + 1 \/ pos' = pos + 2
      BY <1>2, <1>4 DEF NodeProps
    <3>2. pos = pos + 0
      BY <1>2
    <3> QED BY <3>1, <3>2
  <2>3. pos' \in pos..Len(tokens)
    BY <1>1, <2>2, Onward DEF Keep
  <2>4. ret' = ret /\ \E tag, anchor :
          SetTop([Top EXCEPT !.lc = "dispatch", !.tag = tag, !.anchor = anchor])
    BY <1>4 DEF NodeProps
  <2>5. PICK tag, anchor :
          SetTop([Top EXCEPT !.lc = "dispatch", !.tag = tag, !.anchor = anchor])
    BY <2>4
  <2>6. PICK f : f = [Top EXCEPT !.lc = "dispatch", !.tag = tag, !.anchor = anchor]
    OBVIOUS
  <2>7. SetTop(f)
    BY <2>5, <2>6
  <2>8. f.lc = "dispatch" /\ f.fn = Top.fn /\ f.v = Top.v /\ f.work = Top.work
    BY <1>2, <2>6 DEF Fields, Frame
  <2>9. FrameSane(f)
    BY <1>2, <2>8 DEF FrameSane
  <2>10. FrameBlocks(f) = Blocks(Top.v) /\ Ret(f.lc, ret) = 0 /\ Ret("enter", ret) = 0
    BY <1>2, <2>8 DEF FrameBlocks, HoldsKey, Ret
  <2>11. FrameBlocks(f) + Ret(f.lc, ret) <= FrameBlocks(Top) + Ret("enter", ret)
    BY <1>2, <2>10
  <2> QED BY <1>1, <2>3, <2>4, <2>7, <2>9, <2>11, QuietTop
<1> QED BY <1>3, <1>4

(* A node without kids: the step takes the blocks of what it returns, less *)
(* a buffer that the lexer had already taken.                              *)
LEMMA LeafHeap ==
  ASSUME IInv, HeapInv, Keep, At("node", "dispatch"), pos' \in pos..Len(tokens),
         SetTop(Goto("tail")), Sane(ret'), anchors' = anchors,
         NEW d, Handed(d), Heap(Blocks(ret') - d, 0)
  PROVE  HeapInv'
<1>1. /\ pc = "parsing" /\ stack # <<>> /\ Top.fn = "node" /\ Top.lc = "dispatch"
      /\ DOMAIN Top = Fields /\ FrameSane(Top) /\ TableSane(anchors)
      /\ Blocks(Top.v) \in Nat /\ AnchorBlocks(anchors) \in Nat
      /\ FrameBlocks(Top) = Blocks(Top.v)
  BY InHeap
<1>2. /\ FrameSane(Goto("tail")) /\ Goto("tail").lc = "tail"
      /\ FrameBlocks(Goto("tail")) = Blocks(Top.v)
  BY <1>1, GotoSane
<1>3. Blocks(ret') \in Nat /\ d \in Int
  BY SaneFacts DEF Handed
<1>4. PICK n \in Int : n = Blocks(ret') - d
  BY <1>3
<1>5. Ret("tail", ret') = Blocks(ret') /\ Ret("dispatch", ret) = 0
  BY DEF Ret
<1>6. FrameBlocks(Goto("tail")) + Ret("tail", ret') + AnchorBlocks(anchors')
        <= FrameBlocks(Top) + Ret("dispatch", ret) + AnchorBlocks(anchors) + n + d
  <2>1. PICK b, c, a \in Nat :
               b = Blocks(Top.v) /\ c = Blocks(ret') /\ a = AnchorBlocks(anchors)
    BY <1>1, <1>3
  <2>2. n = c - d /\ d \in Int
    BY <1>3, <1>4, <2>1
  <2>3. b + c + a <= b + 0 + a + n + d
    BY <2>2
  <2> QED BY <1>1, <1>2, <1>5, <2>1, <2>3
<1>7. TableSane(anchors') /\ Heap(n, 0)
  BY <1>1, <1>4
<1> QED BY <1>1, <1>2, <1>6, <1>7, StepSetTop

LEMMA LeafSane ==
  ASSUME NEW v, Sane(v), NEW n, Leaf(v, n) PROVE SetTop(Goto("tail")) /\ Sane(ret')
<1>1. SetTop(Goto("tail")) /\ ret' \in {v, Nil, NullString}
  BY DEF Leaf
<1> QED BY <1>1, NilSane, NullStringSane

LEMMA FirstAnchorSane == ASSUME TableSane(anchors), NEW name PROVE Sane(FirstAnchor(name))
<1> DEFINE hits == {i \in DOMAIN anchors : anchors[i].name = name}
<1>1. DOMAIN anchors = 1..Len(anchors) /\ Len(anchors) \in Nat
  BY SeqDomain DEF TableSane
<1>2. CASE hits = {}
  BY <1>2, NilSane DEF FirstAnchor
<1>3. CASE hits # {}
  <2>1. hits \in SUBSET Nat
    BY <1>1
  <2>2. \E x \in hits : \A y \in hits : x <= y
    <3> HIDE DEF hits
    <3> QED BY <1>3, <2>1, LeastNat
  <2>3. Min(hits) \in hits
    BY <2>2 DEF Min
  <2>4. FirstAnchor(name) = anchors[Min(hits)].node
    BY <1>3 DEF FirstAnchor
  <2>5. Min(hits) \in 1..Len(anchors)
    BY <1>1, <2>3
  <2> HIDE DEF hits
  <2> QED BY <2>4, <2>5 DEF TableSane
<1> QED BY <1>2, <1>3

LEMMA NodeAliasHeap == IInv /\ HeapInv /\ IInv' /\ NodeAlias => HeapInv'
<1> SUFFICES ASSUME IInv, HeapInv, IInv', NodeAlias PROVE HeapInv'
  OBVIOUS
<1>1. /\ At("node", "dispatch") /\ Keep /\ anchors' = anchors /\ pos' = pos + 1
      /\ Leaf(FirstAnchor(Cur.val), 1) /\ Heap(Blocks(ret'), 0)
  BY DEF NodeAlias, Copied
<1>2. pos' \in pos..Len(tokens)
  BY <1>1, Onward DEF Keep
<1>3. Sane(FirstAnchor(Cur.val))
  BY FirstAnchorSane DEF HeapInv
<1>4. SetTop(Goto("tail")) /\ Sane(ret')
  BY <1>1, <1>3, LeafSane
<1>5. PICK d : d = 0
  OBVIOUS
<1>6. Blocks(ret') - d = Blocks(ret')
  BY <1>4, <1>5, SaneFacts
<1>7. Handed(d) /\ Heap(Blocks(ret') - d, 0)
  BY <1>1, <1>5, <1>6 DEF Handed
<1> QED BY <1>1, <1>2, <1>4, <1>7, LeafHeap

LEMMA NodeEmptyHeap == IInv /\ HeapInv /\ IInv' /\ NodeEmpty => HeapInv'
<1> SUFFICES ASSUME IInv, HeapInv, IInv', NodeEmpty PROVE HeapInv'
  OBVIOUS
<1>1. /\ At("node", "dispatch") /\ Keep /\ anchors' = anchors /\ pos' = pos
      /\ Leaf(NullValue, 1) /\ Heap(Blocks(ret'), 0)
  BY DEF NodeEmpty
<1>2. pos' \in pos..Len(tokens)
  BY <1>1, InHeap
<1>3. Sane(NullValue)
  BY ScalarSane DEF NullValue
<1>4. SetTop(Goto("tail")) /\ Sane(ret')
  BY <1>1, <1>3, LeafSane
<1>5. PICK d : d = 0
  OBVIOUS
<1>6. Blocks(ret') - d = Blocks(ret')
  BY <1>4, <1>5, SaneFacts
<1>7. Handed(d) /\ Heap(Blocks(ret') - d, 0)
  BY <1>1, <1>5, <1>6 DEF Handed
<1> QED BY <1>1, <1>2, <1>4, <1>7, LeafHeap

LEMMA NodeScalarHeap == IInv /\ HeapInv /\ IInv' /\ NodeScalar => HeapInv'
<1> SUFFICES ASSUME IInv, HeapInv, IInv', NodeScalar PROVE HeapInv'
  OBVIOUS
<1>1. /\ At("node", "dispatch") /\ Keep /\ anchors' = anchors /\ pos' = pos + 1
  BY DEF NodeScalar
<1>2. pos' \in pos..Len(tokens)
  BY <1>1, Onward DEF Keep
<1>3. PICK type, n : Leaf(Scalar(type, Cur.val), n) /\ type \in Kinds \cup {"str"}
  <2>1. Cur.kind \in Kinds
    <3> DEFINE R == [type : TokenTypes, line : Nat, col : Nat, kind : Kinds, val : STRING]
    <3>1. tokens \in Inputs /\ pos \in 1..Len(tokens)
      BY DEF IInv
    <3>2. tokens \in Seq(R)
      BY <3>1, InputsAssumption
    <3>3. \A r \in R : r.kind \in Kinds
      OBVIOUS
    <3> HIDE DEF R
    <3>4. tokens[pos] \in R
      BY <3>1, <3>2
    <3> QED BY <3>3, <3>4 DEF Cur
  <2> QED BY <2>1 DEF NodeScalar
<1>4. type # "nil"
  BY <1>3 DEF Kinds
<1>5. Sane(Scalar(type, Cur.val))
  BY <1>4, ScalarSane
<1>6. SetTop(Goto("tail")) /\ Sane(ret')
  BY <1>3, <1>5, LeafSane
<1>7. PICK d : d = (IF Cur.kind = "block" /\ ret' # Nil THEN 1 ELSE 0)
  OBVIOUS
<1>8. Handed(d) /\ Heap(Blocks(ret') - d, 0)
  BY <1>1, <1>7 DEF Handed, NodeScalar
<1> QED BY <1>1, <1>2, <1>6, <1>8, LeafHeap

LEMMA NodeNilHeap ==
  IInv /\ HeapInv /\ IInv' /\ (NodeUnknownAlias \/ NodeNoValue) => HeapInv'
<1> SUFFICES ASSUME IInv, HeapInv, IInv', NodeUnknownAlias \/ NodeNoValue PROVE HeapInv'
  OBVIOUS
<1>1. PICK lc : /\ At("node", lc) /\ Keep /\ anchors' = anchors /\ pos' = pos
                /\ Return(Nil) /\ live' = live
  BY DEF NodeUnknownAlias, NodeNoValue
<1>2. pos' \in pos..Len(tokens) /\ Blocks(Top.v) \in Nat
  BY <1>1, InHeap
<1>3. Sane(Nil) /\ Blocks(Nil) <= Blocks(Top.v)
  BY <1>2, NilSane
<1> QED BY <1>1, <1>2, <1>3, QuietReturn

LEMMA NodeCollectionHeap == IInv /\ HeapInv /\ IInv' /\ NodeCollection => HeapInv'
<1> SUFFICES ASSUME IInv, HeapInv, IInv', NodeCollection PROVE HeapInv'
  OBVIOUS
<1>1. /\ At("node", "dispatch") /\ Keep /\ anchors' = anchors /\ pos' = pos
      /\ ret' = ret /\ live' = live
  BY DEF NodeCollection, Idle, Quiet
<1>2. \E fn, col : Call(Goto("tail"), fn, col, pos)
  BY DEF NodeCollection
<1>3. PICK fn, col : Call(Goto("tail"), fn, col, pos)
  BY <1>2
<1>4. /\ pc = "parsing" /\ stack # <<>> /\ Top.fn = "node" /\ Top.lc = "dispatch"
      /\ DOMAIN Top = Fields /\ FrameSane(Top) /\ live \in [Sides -> Int]
      /\ Blocks(Top.v) \in Nat /\ FrameBlocks(Top) = Blocks(Top.v)
      /\ pos' \in pos..Len(tokens)
  BY <1>1, InHeap
<1>5. FrameSane(Goto("tail")) /\ FrameBlocks(Goto("tail")) = Blocks(Top.v)
  BY <1>4, GotoSane
<1>6. PICK n \in Int : n = 0
  OBVIOUS
<1>7. Heap(n, 0)
  BY <1>1, <1>4, <1>6, SameHeap
<1>8. FrameBlocks(Goto("tail")) <= FrameBlocks(Top) + Ret(Top.lc, ret) + n
  BY <1>4, <1>5, <1>6 DEF Ret
<1> QED BY <1>1, <1>3, <1>4, <1>5, <1>7, <1>8, StepCall

(* What the tag makes of the value, and what it costs. *)
Converted(f) == CASE f = 1 -> NullString
                  [] f # 1 /\ Top.tag # None -> ApplyTag(ret, Top.tag)
                  [] OTHER -> ret
Cost(f) == IF Top.tag # None /\ f # 1 THEN TagCost(ret, Top.tag) ELSE 0

LEMMA ConvertedSane ==
  ASSUME Sane(ret), ret # Nil, ~TagReadsNull, NEW f
  PROVE  /\ Sane(Converted(f)) /\ Blocks(Converted(f)) \in Nat /\ Cost(f) \in Int
         /\ Blocks(Converted(f)) <= Blocks(ret) + Cost(f)
<1>1. ret.own \in Nat /\ Blocks(ret) = 1 + ret.own
  BY SaneFacts
<1>2. CASE f = 1
  <2>1. Converted(f) = NullString /\ Cost(f) = 0
    BY <1>2 DEF Converted, Cost
  <2> QED BY <1>1, <2>1, NullStringSane
<1>3. CASE f # 1 /\ Top.tag # None
  <2>1. Converted(f) = ApplyTag(ret, Top.tag) /\ Cost(f) = TagCost(ret, Top.tag)
    BY <1>3 DEF Converted, Cost
  <2>2. ~(IsNullString(ret) /\ Top.tag \in {"int", "bool"})
    BY DEF TagReadsNull
  <2>3. /\ Sane(ApplyTag(ret, Top.tag))
        /\ Blocks(ApplyTag(ret, Top.tag)) <= Blocks(ret) + TagCost(ret, Top.tag)
        /\ TagCost(ret, Top.tag) \in Int
    BY <2>2, ApplyTagSane
  <2> QED BY <2>1, <2>3, SaneFacts
<1>4. CASE f # 1 /\ Top.tag = None
  <2>1. Converted(f) = ret /\ Cost(f) = 0
    BY <1>4 DEF Converted, Cost
  <2> QED BY <1>1, <2>1
<1> QED BY <1>2, <1>3, <1>4

LEMMA NodeTailHeap == IInv /\ HeapInv /\ IInv' /\ NodeTail => HeapInv'
<1> SUFFICES ASSUME IInv, HeapInv, IInv', NodeTail PROVE HeapInv'
  OBVIOUS
<1>1. /\ At("node", "tail") /\ Keep /\ pos' = pos /\ ret # Nil /\ ~TagReadsNull
  BY DEF NodeTail
<1>2. /\ pc = "parsing" /\ stack # <<>> /\ Top.lc = "tail" /\ Sane(ret)
      /\ TableSane(anchors) /\ Blocks(Top.v) \in Nat
      /\ FrameBlocks(Top) = Blocks(Top.v)
      /\ Blocks(ret) \in Nat /\ AnchorBlocks(anchors) \in Nat /\ pos' \in pos..Len(tokens)
  BY <1>1, InHeap
<1>3. PICK f : LET named == Top.anchor # None /\ f # 2
                   copy  == IF f = 3 THEN Nil ELSE Converted(f)
                   entry == [name |-> Top.anchor, node |-> copy, at |-> pos]
               IN /\ anchors' = IF named THEN Append(anchors, entry) ELSE anchors
                  /\ Heap(Cost(f) + (IF named THEN 1 + Blocks(copy) ELSE 0), 0)
                  /\ Return(Converted(f))
  BY DEF NodeTail, Converted, Cost
<1> DEFINE named == Top.anchor # None /\ f # 2
           copy  == IF f = 3 THEN Nil ELSE Converted(f)
<1>4. PICK entry : entry = [name |-> Top.anchor, node |-> copy, at |-> pos]
  OBVIOUS
<1>5. entry.node = copy
  BY <1>4
<1>6. PICK n : n = Cost(f) + (IF named THEN 1 + Blocks(copy) ELSE 0)
  OBVIOUS
<1>7. /\ anchors' = IF named THEN Append(anchors, entry) ELSE anchors
      /\ Heap(n, 0) /\ Return(Converted(f))
  BY <1>3, <1>4, <1>6
<1>8. /\ Sane(Converted(f)) /\ Blocks(Converted(f)) \in Nat /\ Cost(f) \in Int
      /\ Blocks(Converted(f)) <= Blocks(ret) + Cost(f)
  BY <1>1, <1>2, ConvertedSane
<1>9. Sane(copy) /\ Blocks(copy) \in Nat
  BY <1>8, NilSane
<1> HIDE DEF named, copy
<1>10. n \in Int
  BY <1>6, <1>8, <1>9
<1>11. /\ TableSane(anchors')
       /\ AnchorBlocks(anchors') = AnchorBlocks(anchors) + (IF named THEN 1 + Blocks(copy) ELSE 0)
  <2>1. CASE named
    <3>1. PICK r : r = anchors' /\ r = Append(anchors, entry)
      BY <1>7, <2>1
    <3>2. Sane(entry.node)
      BY <1>5, <1>9
    <3>3. TableSane(r) /\ AnchorBlocks(r) = AnchorBlocks(anchors) + 1 + Blocks(entry.node)
      BY <1>2, <3>1, <3>2, TableAppend
    <3> QED BY <1>2, <1>5, <1>9, <2>1, <3>1, <3>3
  <2>2. CASE ~named
    BY <1>2, <1>7, <2>2
  <2> QED BY <2>1, <2>2
<1>12. Blocks(Converted(f)) + AnchorBlocks(anchors')
         <= FrameBlocks(Top) + Ret(Top.lc, ret) + AnchorBlocks(anchors) + n
  <2>1. Ret(Top.lc, ret) = Blocks(ret)
    BY <1>2 DEF Ret
  <2>2. PICK x, y, b, a \in Nat : /\ x = Blocks(Converted(f)) /\ y = Blocks(ret)
                                  /\ b = Blocks(Top.v) /\ a = AnchorBlocks(anchors)
    BY <1>2, <1>8
  <2>3. PICK c, e \in Int : c = Cost(f) /\ e = (IF named THEN 1 + Blocks(copy) ELSE 0)
    BY <1>8, <1>9
  <2>4. x <= y + c /\ n = c + e /\ AnchorBlocks(anchors') = a + e
    BY <1>6, <1>8, <1>11, <2>2, <2>3
  <2>5. x + (a + e) <= b + y + a + n
    BY <2>4
  <2> QED BY <1>2, <2>1, <2>2, <2>4, <2>5
<1> QED BY <1>1, <1>2, <1>7, <1>8, <1>10, <1>11, <1>12, StepReturn

(***************************************************************************)
(* What the collection functions share.                                    *)
(***************************************************************************)
LEMMA EnterHeap ==
  ASSUME NEW fn \in Flow \cup Block PROVE IInv /\ HeapInv /\ IInv' /\ Enter(fn) => HeapInv'
<1> SUFFICES ASSUME IInv, HeapInv, IInv', Enter(fn) PROVE HeapInv'
  OBVIOUS
<1>1. At(fn, "enter") /\ Keep /\ anchors' = anchors
  BY DEF Enter
<1>2. /\ pc = "parsing" /\ stack # <<>> /\ Top.fn = fn /\ Top.lc = "enter"
      /\ DOMAIN Top = Fields /\ FrameSane(Top) /\ Sane(ret)
      /\ TableSane(anchors) /\ Blocks(Top.v) \in Nat
      /\ FrameBlocks(Top) = Blocks(Top.v)
      /\ AnchorBlocks(anchors) \in Nat /\ pos \in Nat /\ pos \in pos..Len(tokens)
  BY <1>1, InHeap
<1>3. pos' \in pos..Len(tokens)
  <2>1. pos' = pos \/ pos' = pos + 1
    BY DEF Enter, Advance
  <2>2. PICK k \in Nat : pos' = pos + k
    <3>1. pos = pos + 0
      BY <1>2
    <3> QED BY <2>1, <3>1
  <2> QED BY <1>1, <2>2, Onward DEF Keep
<1>4. PICK e : e = Empty(fn) /\ e \in {EmptyArray, EmptyMap}
  BY DEF Empty
<1>5. Sane(e) /\ e # Nil /\ e.kids = <<>> /\ Blocks(e) \in Nat
  BY <1>4, EmptiesSane
<1>6. Ret("enter", ret) = 0 /\ Ret("loop", ret') = 0
  BY DEF Ret
<1>7. CASE /\ SetTop([Top EXCEPT !.lc = "loop", !.v = Empty(fn)])
           /\ Heap(Blocks(Empty(fn)), 0)
           /\ ret' = ret
  <2>1. PICK f : f = [Top EXCEPT !.lc = "loop", !.v = e]
    OBVIOUS
  <2>2. f.lc = "loop" /\ f.fn = fn /\ f.v = e /\ f.work = Top.work
    BY <1>2, <2>1 DEF Fields, Frame
  <2>3. SetTop(f) /\ Heap(Blocks(e), 0)
    BY <1>4, <1>7, <2>1
  <2>4. Distinct(e.kids)
    <3>1. Len(e.kids) = 0
      BY <1>5
    <3> QED BY <3>1 DEF Distinct
  <2>5. FrameSane(f)
    BY <1>2, <1>5, <2>2, <2>4 DEF FrameSane
  <2>6. FrameBlocks(f) = Blocks(e)
    BY <1>5, <2>2 DEF FrameBlocks, HoldsKey
  <2>7. PICK n \in Int : n = Blocks(e)
    BY <1>5
  <2>8. FrameBlocks(f) + Ret(f.lc, ret') + AnchorBlocks(anchors')
          <= FrameBlocks(Top) + Ret(Top.lc, ret) + AnchorBlocks(anchors) + n
    <3>1. PICK b, a, c \in Nat : b = Blocks(Top.v) /\ a = AnchorBlocks(anchors) /\ c = Blocks(e)
      BY <1>2, <1>5
    <3>2. c + 0 + a <= b + 0 + a + n
      BY <2>7, <3>1
    <3> QED BY <1>1, <1>2, <1>6, <2>2, <2>6, <3>1, <3>2
  <2>9. Heap(n, 0) /\ Sane(ret') /\ TableSane(anchors')
    BY <1>1, <1>2, <1>7, <2>3, <2>7
  <2> QED BY <1>1, <1>2, <1>3, <2>3, <2>5, <2>8, <2>9, StepTop
<1>8. CASE /\ Return(Nil)
           /\ \E n \in 0..2 : Heap(n, 0)
  <2>1. PICK n \in Int : Heap(n, 0) /\ n >= 0
    BY <1>8
  <2>2. Sane(Nil) /\ Blocks(Nil) = 0
    BY NilSane
  <2>3. Blocks(Nil) + AnchorBlocks(anchors')
          <= FrameBlocks(Top) + Ret(Top.lc, ret) + AnchorBlocks(anchors) + n
    <3>1. PICK b, a \in Nat : b = Blocks(Top.v) /\ a = AnchorBlocks(anchors)
      BY <1>2
    <3>2. 0 + a <= b + 0 + a + n
      BY <2>1
    <3> QED BY <1>1, <1>2, <1>6, <2>2, <3>1, <3>2
  <2>4. TableSane(anchors')
    BY <1>1, <1>2
  <2> QED BY <1>1, <1>2, <1>3, <1>8, <2>1, <2>2, <2>3, <2>4, StepReturn
<1>9. \/ /\ SetTop([Top EXCEPT !.lc = "loop", !.v = Empty(fn)])
         /\ Heap(Blocks(Empty(fn)), 0)
         /\ ret' = ret
      \/ Return(Nil) /\ \E n \in 0..2 : Heap(n, 0)
  <2>1. PICK f \in FailAt(IF Empty(fn) = EmptyMap THEN 2 ELSE 1) :
          IF f = 0
          THEN /\ SetTop([Top EXCEPT !.lc = "loop", !.v = Empty(fn)])
               /\ Heap(Blocks(Empty(fn)), 0)
               /\ ret' = ret
          ELSE /\ Return(Nil)
               /\ Heap(CASE Empty(fn) = EmptyArray -> 0
                         [] f = 1 -> 1
                         [] f = 2 -> EmptyMap.own, 0)
    BY DEF Enter
  <2>2. CASE f = 0
    BY <2>1, <2>2
  <2>3. CASE f # 0
    <3>1. f \in 0..2
      BY <2>1 DEF FailAt
    <3>2. EmptyMap.own = 2
      BY DEF EmptyMap
    <3>3. PICK n : n = CASE Empty(fn) = EmptyArray -> 0
                         [] f = 1 -> 1
                         [] f = 2 -> EmptyMap.own
      OBVIOUS
    <3>4. f = 1 \/ f = 2
      BY <2>3, <3>1
    <3>5. n \in 0..2
      BY <3>2, <3>3, <3>4
    <3> QED BY <2>1, <2>3, <3>3, <3>5
  <2> QED BY <2>2, <2>3
<1> QED BY <1>7, <1>8, <1>9

LEMMA PushElemHeap ==
  ASSUME NEW fn \in {"fseq", "bseq"} PROVE IInv /\ HeapInv /\ IInv' /\ PushElem(fn) => HeapInv'
<1> SUFFICES ASSUME IInv, HeapInv, IInv', PushElem(fn) PROVE HeapInv'
  OBVIOUS
<1>1. At(fn, "elem") /\ Keep /\ UNCHANGED <<pos, ret, anchors>>
  BY DEF PushElem, Quiet
<1>2. /\ pc = "parsing" /\ stack # <<>> /\ Top.fn = fn /\ Top.lc = "elem"
      /\ DOMAIN Top = Fields /\ FrameSane(Top) /\ Sane(ret) /\ Sane(Top.v)
      /\ TableSane(anchors) /\ Blocks(Top.v) \in Nat /\ Blocks(ret) \in Nat
      /\ FrameBlocks(Top) = Blocks(Top.v)
      /\ AnchorBlocks(anchors) \in Nat /\ pos' \in pos..Len(tokens)
  BY <1>1, InHeap
<1>3. Ret("elem", ret) = Blocks(ret) /\ Ret("close", ret) = 0 /\ Ret("loop", ret) = 0
  BY DEF Ret
<1>4. CASE Failed
  <2>1. SetTop(Goto("close")) /\ live' = live
    BY <1>4 DEF PushElem, Break
  <2>2. /\ FrameSane(Goto("close")) /\ Goto("close").lc = "close"
        /\ FrameBlocks(Goto("close")) = Blocks(Top.v)
    BY <1>2, GotoSane
  <2>3. FrameBlocks(Goto("close")) + Ret("close", ret) <= FrameBlocks(Top) + Ret("elem", ret)
    BY <1>2, <1>3, <2>2
  <2> QED BY <1>1, <1>2, <2>1, <2>2, <2>3, QuietTop
<1>5. CASE ~Failed
  <2>1. PICK r : r = Push(Top.v, ret)
    OBVIOUS
  <2>2. PICK f : f = [Top EXCEPT !.lc = "loop", !.v = r]
    OBVIOUS
  <2>3. f.lc = "loop" /\ f.fn = fn /\ f.v = r /\ f.work = Top.work
    BY <1>2, <2>2 DEF Fields, Frame
  <2>4. SetTop(f) /\ Heap(PushCost(Top.v, ret) - 1, 0)
    BY <1>5, <2>1, <2>2 DEF PushElem
  <2>5. Top.v # Nil /\ ret # Nil
    BY <1>2, <1>5 DEF FrameSane, Failed
  <2>6. /\ Sane(r) /\ r # Nil
        /\ Blocks(r) = Blocks(Top.v) + ret.own + PushCost(Top.v, ret)
        /\ PushCost(Top.v, ret) \in Int
    BY <1>2, <2>1, <2>5, PushSane
  <2>7. FrameSane(f)
    BY <1>2, <2>3, <2>6 DEF FrameSane
  <2>8. Blocks(r) \in Nat
    BY <2>6, SaneFacts
  <2>9. FrameBlocks(f) = Blocks(r)
    BY <2>3, <2>8 DEF FrameBlocks, HoldsKey
  <2>10. PICK n \in Int : n = PushCost(Top.v, ret) - 1
    BY <2>6
  <2>11. FrameBlocks(f) + Ret(f.lc, ret') + AnchorBlocks(anchors')
           <= FrameBlocks(Top) + Ret(Top.lc, ret) + AnchorBlocks(anchors) + n
    <3>1. ret.own \in Nat /\ Blocks(ret) = 1 + ret.own
      BY <1>2, <2>5, SaneFacts
    <3>2. PICK b, o, a, c \in Nat : /\ b = Blocks(Top.v) /\ o = ret.own
                                    /\ a = AnchorBlocks(anchors) /\ c = Blocks(r)
      BY <1>2, <2>8, <3>1
    <3>3. c = b + o + (n + 1)
      BY <2>6, <2>10, <3>2
    <3>4. c + 0 + a <= b + (1 + o) + a + n
      BY <3>3
    <3> QED BY <1>1, <1>2, <1>3, <2>3, <2>9, <3>1, <3>2, <3>4
  <2>12. Heap(n, 0) /\ Sane(ret') /\ TableSane(anchors')
    BY <1>1, <1>2, <2>4, <2>10
  <2> QED BY <1>1, <1>2, <2>4, <2>7, <2>11, <2>12, StepTop
<1> QED BY <1>4, <1>5

(* A mapping that takes a pair, or does not. *)
LEMMA PairSane ==
  ASSUME NEW m, Sane(m), m # Nil, Distinct(m.kids), NEW e, Sane(e), NEW k, NEW f
  PROVE  /\ Sane(SetPair(m, k, e, f)) /\ SetPair(m, k, e, f) # Nil
         /\ Distinct(SetPair(m, k, e, f).kids)
         /\ Blocks(SetPair(m, k, e, f)) \in Nat
         /\ SetPairCost(m, k, e, f) \in Int
         /\ Blocks(SetPair(m, k, e, f)) <= Blocks(m) + e.own + SetPairCost(m, k, e, f)
<1>1. CASE f = 1
  <2>1. SetPair(m, k, e, f) = m /\ SetPairCost(m, k, e, f) = 0
    BY <1>1 DEF SetPair, SetPairCost
  <2>2. Blocks(m) \in Nat /\ e.own \in Nat
    BY SaneFacts
  <2> QED BY <2>1, <2>2
<1>2. CASE f # 1
  <2>1. SetPair(m, k, e, f) = HmSet(m, k, e) /\ SetPairCost(m, k, e, f) = SetCost(m, k, e)
    BY <1>2 DEF SetPair, SetPairCost
  <2>2. /\ Sane(HmSet(m, k, e)) /\ HmSet(m, k, e) # Nil /\ Distinct(HmSet(m, k, e).kids)
        /\ Blocks(HmSet(m, k, e)) <= Blocks(m) + e.own + SetCost(m, k, e)
        /\ SetCost(m, k, e) \in Int
    BY HmSetSane
  <2>3. Blocks(HmSet(m, k, e)) \in Nat
    BY <2>2, SaneFacts
  <2> QED BY <2>1, <2>2, <2>3
<1> QED BY <1>1, <1>2

LEMMA PutPairHeap ==
  ASSUME NEW fn \in {"fmap", "bmap"} PROVE IInv /\ HeapInv /\ IInv' /\ PutPair(fn) => HeapInv'
<1> SUFFICES ASSUME IInv, HeapInv, IInv', PutPair(fn) PROVE HeapInv'
  OBVIOUS
<1>1. At(fn, "put") /\ Keep /\ UNCHANGED <<pos, ret, anchors>>
  BY DEF PutPair
<1>2. /\ pc = "parsing" /\ stack # <<>> /\ Top.fn = fn /\ Top.lc = "put"
      /\ DOMAIN Top = Fields /\ FrameSane(Top) /\ Sane(ret) /\ Sane(Top.v)
      /\ TableSane(anchors) /\ Blocks(Top.v) \in Nat /\ Blocks(ret) \in Nat
      /\ FrameBlocks(Top) = Blocks(Top.v) + (IF Top.key # NullKey THEN 1 ELSE 0)
      /\ AnchorBlocks(anchors) \in Nat /\ pos' \in pos..Len(tokens)
  BY <1>1, InHeap
<1>3. Ret("put", ret) = Blocks(ret) /\ Ret("close", ret) = 0 /\ Ret("loop", ret) = 0
  BY DEF Ret
<1>4. Sane(ret') /\ TableSane(anchors')
  BY <1>1, <1>2
<1>5. CASE Failed
  <2>1. SetTop(Goto("close")) /\ Heap(IF Top.key = NullKey THEN 0 ELSE -1, 0)
    BY <1>5 DEF PutPair, Break
  <2>2. /\ FrameSane(Goto("close")) /\ Goto("close").lc = "close"
        /\ FrameBlocks(Goto("close")) = Blocks(Top.v)
    BY <1>2, GotoSane
  <2>3. PICK n \in Int : n = IF Top.key = NullKey THEN 0 ELSE -1
    OBVIOUS
  <2>4. FrameBlocks(Goto("close")) + Ret("close", ret') + AnchorBlocks(anchors')
          <= FrameBlocks(Top) + Ret("put", ret) + AnchorBlocks(anchors) + n
    <3>1. PICK b, a, c, k \in Nat : /\ b = Blocks(Top.v) /\ c = Blocks(ret)
                                    /\ a = AnchorBlocks(anchors)
                                    /\ k = (IF Top.key # NullKey THEN 1 ELSE 0)
      BY <1>2
    <3>2. n = -k
      BY <2>3, <3>1
    <3>3. b + 0 + a <= (b + k) + c + a + n
      BY <3>2
    <3> QED BY <1>1, <1>2, <1>3, <2>2, <3>1, <3>3
  <2>5. Heap(n, 0)
    BY <2>1, <2>3
  <2> QED BY <1>1, <1>2, <1>4, <2>1, <2>2, <2>4, <2>5, StepTop
<1>6. CASE ~Failed
  <2>1. Top.key # NullKey
    BY <1>6 DEF PutPair
  <2>2. PICK h : /\ SetTop([Top EXCEPT !.lc = "loop", !.v = SetPair(@, Top.key, ret, h)])
                 /\ Heap(SetPairCost(Top.v, Top.key, ret, h) - 2, 0)
    BY <1>6 DEF PutPair
  <2>3. PICK r : r = SetPair(Top.v, Top.key, ret, h)
    OBVIOUS
  <2>4. PICK f : f = [Top EXCEPT !.lc = "loop", !.v = r]
    OBVIOUS
  <2>5. f.lc = "loop" /\ f.fn = fn /\ f.v = r /\ f.work = Top.work
    BY <1>2, <2>4 DEF Fields, Frame
  <2>6. SetTop(f)
    BY <2>2, <2>3, <2>4
  <2>7. Top.v # Nil /\ ret # Nil /\ Distinct(Top.v.kids)
    BY <1>2, <1>6 DEF FrameSane, Failed
  <2>8. /\ Sane(r) /\ r # Nil /\ Distinct(r.kids) /\ Blocks(r) \in Nat
        /\ SetPairCost(Top.v, Top.key, ret, h) \in Int
        /\ Blocks(r) <= Blocks(Top.v) + ret.own + SetPairCost(Top.v, Top.key, ret, h)
    BY <1>2, <2>3, <2>7, PairSane
  <2>9. FrameSane(f)
    BY <1>2, <2>5, <2>8 DEF FrameSane
  <2>10. FrameBlocks(f) = Blocks(r)
    BY <2>5, <2>8 DEF FrameBlocks, HoldsKey
  <2>11. PICK n \in Int : n = SetPairCost(Top.v, Top.key, ret, h) - 2
    BY <2>8
  <2>12. FrameBlocks(f) + Ret(f.lc, ret') + AnchorBlocks(anchors')
           <= FrameBlocks(Top) + Ret(Top.lc, ret) + AnchorBlocks(anchors) + n
    <3>1. ret.own \in Nat /\ Blocks(ret) = 1 + ret.own
      BY <1>2, <2>7, SaneFacts
    <3>2. PICK b, o, a, c \in Nat : /\ b = Blocks(Top.v) /\ o = ret.own
                                    /\ a = AnchorBlocks(anchors) /\ c = Blocks(r)
      BY <1>2, <2>8, <3>1
    <3>3. c <= b + o + (n + 2)
      BY <2>8, <2>11, <3>2
    <3>4. c + 0 + a <= (b + 1) + (1 + o) + a + n
      BY <3>3
    <3> QED BY <1>1, <1>2, <1>3, <2>1, <2>5, <2>10, <3>1, <3>2, <3>4
  <2>13. Heap(n, 0)
    BY <2>2, <2>11
  <2> QED BY <1>1, <1>2, <1>4, <2>6, <2>9, <2>12, <2>13, StepTop
<1> QED BY <1>5, <1>6

(***************************************************************************)
(* Collections: what the loops and the ends have in common.                *)
(***************************************************************************)
(* A loop that goes to another label, or calls parse_node, with n blocks   *)
(* more for the key it took.                                               *)
LEMMA LoopEnds ==
  ASSUME IInv, HeapInv, Keep, NEW fn \in Flow \cup Block, At(fn, "loop"),
         pos' \in pos..Len(tokens), SetTop(Goto("close")), UNCHANGED <<ret, anchors, live>>
  PROVE  HeapInv'
<1>1. /\ Top.lc = "loop" /\ DOMAIN Top = Fields /\ FrameSane(Top)
      /\ Blocks(Top.v) \in Nat /\ FrameBlocks(Top) = Blocks(Top.v)
  BY InHeap
<1>2. /\ FrameSane(Goto("close")) /\ Goto("close").lc = "close"
      /\ FrameBlocks(Goto("close")) = Blocks(Top.v)
  BY <1>1, GotoSane
<1>3. Ret("close", ret) = 0 /\ Ret("loop", ret) = 0
  BY DEF Ret
<1>4. FrameBlocks(Goto("close")) + Ret(Goto("close").lc, ret) <= FrameBlocks(Top) + Ret("loop", ret)
  BY <1>1, <1>2, <1>3
<1> QED BY <1>2, <1>4, QuietTop

LEMMA LoopCalls ==
  ASSUME IInv, HeapInv, Keep, NEW fn \in Flow \cup Block, At(fn, "loop"),
         pos' \in pos..Len(tokens), NEW f, NEW col, NEW at, Call(f, "node", col, at),
         f.fn = fn, f.v = Top.v, f.work = Top.work, f.lc \in {"elem", "put"},
         NEW n \in 0..1, f.lc = "put" /\ f.key # NullKey => n = 1,
         Heap(n, 0), UNCHANGED <<ret, anchors>>
  PROVE  HeapInv'
<1>1. /\ pc = "parsing" /\ stack # <<>> /\ Top.fn = fn /\ Top.lc = "loop" /\ FrameSane(Top)
      /\ Blocks(Top.v) \in Nat /\ FrameBlocks(Top) = Blocks(Top.v)
  BY InHeap
<1>2. FrameSane(f)
  BY <1>1 DEF FrameSane, Flow, Block
<1>3. FrameBlocks(f) \in Nat /\ FrameBlocks(f) <= Blocks(Top.v) + n
  BY <1>1 DEF FrameBlocks, HoldsKey
<1>4. Ret(Top.lc, ret) = 0
  BY <1>1 DEF Ret
<1>5. n \in Int /\ FrameBlocks(f) <= FrameBlocks(Top) + Ret(Top.lc, ret) + n
  BY <1>1, <1>3, <1>4
<1> QED BY <1>1, <1>2, <1>5, StepCall

(* A collection is returned as it is. *)
LEMMA ReturnsWhole ==
  ASSUME IInv, HeapInv, Keep, NEW fn, NEW lc, At(fn, lc), pos' \in pos..Len(tokens),
         Return(Top.v), anchors' = anchors, live' = live
  PROVE  HeapInv'
<1>1. Sane(Top.v) /\ Blocks(Top.v) \in Nat
  BY InHeap
<1>2. Blocks(Top.v) <= Blocks(Top.v)
  BY <1>1
<1> QED BY <1>1, <1>2, QuietReturn

LEMMA EndsHeap ==
  IInv /\ HeapInv /\ IInv' /\ (FlowClose \/ BseqDone \/ BmapDone) => HeapInv'
<1> SUFFICES ASSUME IInv, HeapInv, IInv', FlowClose \/ BseqDone \/ BmapDone PROVE HeapInv'
  OBVIOUS
<1>1. /\ \E fn, lc : At(fn, lc)
      /\ Keep /\ Return(Top.v) /\ anchors' = anchors /\ live' = live
      /\ pos' = pos \/ pos' = pos + 1
  BY DEF FlowClose, BseqDone, BmapDone, Quiet
<1>2. PICK fn, lc : At(fn, lc)
  BY <1>1
<1>3. pos' \in pos..Len(tokens)
  <2>1. pos \in Nat
    BY <1>2, InHeap
  <2>2. PICK k \in Nat : pos' = pos + k
    <3>1. pos = pos + 0
      BY <2>1
    <3> QED BY <1>1, <3>1
  <2> QED BY <1>1, <2>2, Onward DEF Keep
<1> QED BY <1>1, <1>2, <1>3, ReturnsWhole

LEMMA FewTokens ==
  ASSUME IInv, IInv', tokens' = tokens, pos' \in {pos, pos + 1, pos + 2, pos + 3}
  PROVE  pos' \in pos..Len(tokens)
<1>1. pos \in Nat
  BY Tokens DEF IInv
<1>2. pos = pos + 0
  BY <1>1
<1>3. \E k \in Nat : pos' = pos + k
  BY <1>2
<1> QED BY <1>3, Onward

(***************************************************************************)
(* parse_flow_sequence and parse_flow_mapping.                             *)
(***************************************************************************)
LEMMA FlowCommaHeap == IInv /\ HeapInv /\ IInv' /\ FlowComma => HeapInv'
<1> SUFFICES ASSUME IInv, HeapInv, IInv', FlowComma PROVE HeapInv'
  OBVIOUS
<1>1. /\ \E fn \in Flow : At(fn, "loop")
      /\ Keep /\ UNCHANGED <<stack, ret, anchors, live>> /\ pos' = pos + 1
  BY DEF FlowComma, InLoop, Idle, Quiet
<1>2. pos' \in pos..Len(tokens)
  BY <1>1, Onward DEF Keep
<1>3. pc = "parsing"
  BY <1>1 DEF At
<1> QED BY <1>1, <1>2, <1>3, StepStay

LEMMA FseqElemHeap == IInv /\ HeapInv /\ IInv' /\ FseqElem => HeapInv'
<1> SUFFICES ASSUME IInv, HeapInv, IInv', FseqElem PROVE HeapInv'
  OBVIOUS
<1>1. /\ At("fseq", "loop") /\ "fseq" \in Flow \cup Block
      /\ Keep /\ ret' = ret /\ anchors' = anchors /\ live' = live /\ pos' = pos
      /\ Call(Goto("elem"), "node", 0, pos)
  BY DEF FseqElem, InLoop, Idle, Quiet, Flow
<1>2. /\ pos' \in pos..Len(tokens) /\ DOMAIN Top = Fields /\ Top.fn = "fseq"
      /\ live \in [Sides -> Int]
  BY <1>1, InHeap
<1>3. PICK f : f = Goto("elem")
  OBVIOUS
<1>4. f.fn = "fseq" /\ f.v = Top.v /\ f.work = Top.work /\ f.lc = "elem"
  BY <1>2, <1>3 DEF Goto, Fields, Frame
<1>5. PICK n \in 0..1 : n = 0
  OBVIOUS
<1>6. Heap(n, 0)
  BY <1>1, <1>2, <1>5, SameHeap
<1>7. Call(f, "node", 0, pos)
  BY <1>1, <1>3
<1> QED BY <1>1, <1>2, <1>4, <1>6, <1>7, LoopCalls

LEMMA FmapNoKeyHeap == IInv /\ HeapInv /\ IInv' /\ FmapNoKey => HeapInv'
<1> SUFFICES ASSUME IInv, HeapInv, IInv', FmapNoKey PROVE HeapInv'
  OBVIOUS
<1>1. /\ At("fmap", "loop") /\ "fmap" \in Flow \cup Block
      /\ Keep /\ UNCHANGED <<ret, anchors, live>> /\ SetTop(Goto("close"))
      /\ pos' \in {FlowKeyPos, FlowKeyPos + 1}
  BY DEF FmapNoKey, InLoop, Break, Flow
<1>2. pos \in Nat
  BY <1>1, InHeap
<1>3. pos' \in {pos, pos + 1, pos + 2, pos + 3}
  BY <1>1, <1>2 DEF FlowKeyPos
<1>4. pos' \in pos..Len(tokens)
  BY <1>1, <1>3, FewTokens DEF Keep
<1> QED BY <1>1, <1>4, LoopEnds

LEMMA FmapKeyHeap == IInv /\ HeapInv /\ IInv' /\ FmapKey => HeapInv'
<1> SUFFICES ASSUME IInv, HeapInv, IInv', FmapKey PROVE HeapInv'
  OBVIOUS
<1>1. /\ At("fmap", "loop") /\ "fmap" \in Flow \cup Block
      /\ Keep /\ UNCHANGED <<ret, anchors>> /\ pos' = FlowKeyPos + 2
  BY DEF FmapKey, InLoop, Flow
<1>2. pos \in Nat /\ DOMAIN Top = Fields /\ Top.fn = "fmap"
  BY <1>1, InHeap
<1>3. pos' \in {pos, pos + 1, pos + 2, pos + 3}
  BY <1>1, <1>2 DEF FlowKeyPos
<1>4. pos' \in pos..Len(tokens)
  BY <1>1, <1>3, FewTokens DEF Keep
<1>5. PICK h \in FailAt(1) :
        /\ Call([Top EXCEPT !.lc = "put", !.key = IF h = 1 THEN NullKey ELSE FlowKey.val],
                "node", 0, pos')
        /\ Heap(1 - h, 0)
  BY DEF FmapKey
<1>6. PICK k : k = IF h = 1 THEN NullKey ELSE FlowKey.val
  OBVIOUS
<1>7. PICK f : f = [Top EXCEPT !.lc = "put", !.key = k]
  OBVIOUS
<1>8. f.fn = "fmap" /\ f.v = Top.v /\ f.work = Top.work /\ f.lc = "put" /\ f.key = k
  BY <1>2, <1>7 DEF Fields, Frame
<1>9. PICK n \in 0..1 : n = 1 - h
  <2>1. h \in 0..1
    BY DEF FailAt
  <2> QED BY <2>1
<1>10. f.key # NullKey => n = 1
  <2>1. h \in 0..1
    BY DEF FailAt
  <2>2. h = 0 \/ h = 1
    BY <2>1
  <2> QED BY <1>6, <1>8, <1>9, <2>2
<1>11. Call(f, "node", 0, pos') /\ Heap(n, 0)
  BY <1>5, <1>6, <1>7, <1>9
<1> QED BY <1>1, <1>4, <1>8, <1>10, <1>11, LoopCalls

(***************************************************************************)
(* parse_block_sequence and parse_block_mapping.                           *)
(***************************************************************************)
LEMMA BseqElemHeap == IInv /\ HeapInv /\ IInv' /\ BseqElem => HeapInv'
<1> SUFFICES ASSUME IInv, HeapInv, IInv', BseqElem PROVE HeapInv'
  OBVIOUS
<1>1. /\ At("bseq", "loop") /\ "bseq" \in Flow \cup Block
      /\ Keep /\ ret' = ret /\ anchors' = anchors /\ live' = live /\ pos' = pos + 1
  BY DEF BseqElem, Idle, Quiet, AfterDash, Block
<1>2. /\ pos' \in pos..Len(tokens) /\ DOMAIN Top = Fields /\ Top.fn = "bseq"
      /\ Top.lc = "loop" /\ FrameSane(Top) /\ Sane(Top.v) /\ FrameBlocks(Top) = Blocks(Top.v)
      /\ Blocks(Top.v) \in Nat /\ live \in [Sides -> Int]
  BY <1>1, InHeap, Onward DEF Keep
<1>3. CASE NullElem
  <2>1. PICK e : e = NullValue
    OBVIOUS
  <2>2. Sane(e) /\ e.own = 0
    <3>1. PICK type, text : type = "null" /\ e = Scalar(type, text)
      BY <2>1 DEF NullValue
    <3> QED BY <3>1, ScalarSane
  <2>3. PICK r, f : r = Push(Top.v, e) /\ f = [Top EXCEPT !.v = r]
    OBVIOUS
  <2>4. f.lc = "loop" /\ f.fn = "bseq" /\ f.v = r /\ f.work = Top.work
    BY <1>2, <2>3 DEF Fields, Frame
  <2>5. SetTop(f)
    BY <1>3, <2>1, <2>3 DEF BseqElem
  <2>6. Top.v # Nil
    BY <1>2 DEF FrameSane
  <2>7. /\ Sane(r) /\ r # Nil
        /\ Blocks(r) = Blocks(Top.v) + e.own + PushCost(Top.v, e)
        /\ PushCost(Top.v, e) \in Int
    BY <1>2, <2>2, <2>3, <2>6, PushSane
  <2>8. PushCost(Top.v, e) <= 0
    <3>1. PICK z \in Int : z = e.own /\ z = 0
      BY <2>2
    <3>2. PushCost(Top.v, e) = -z \/ PushCost(Top.v, e) = 0
      BY <3>1 DEF PushCost
    <3> QED BY <3>1, <3>2
  <2>9. FrameSane(f)
    BY <1>2, <2>4, <2>7 DEF FrameSane
  <2>10. FrameBlocks(f) \in Int /\ FrameBlocks(f) <= Blocks(Top.v)
    <3>1. PICK b, c \in Int : b = Blocks(Top.v) /\ c = PushCost(Top.v, e)
      BY <1>2, <2>7
    <3>2. Blocks(r) = b + 0 + c /\ c <= 0
      BY <2>2, <2>7, <2>8, <3>1
    <3>3. FrameBlocks(f) = Blocks(r) + 0
      BY <2>4 DEF FrameBlocks, HoldsKey
    <3> QED BY <3>1, <3>2, <3>3
  <2>11. Ret("loop", ret) = 0
    BY DEF Ret
  <2>12. FrameBlocks(f) + Ret(f.lc, ret) <= FrameBlocks(Top) + Ret("loop", ret)
    BY <1>2, <2>4, <2>10, <2>11
  <2>13. UNCHANGED <<ret, anchors, live>>
    BY <1>1
  <2> QED BY <1>1, <1>2, <2>5, <2>9, <2>12, <2>13, QuietTop
<1>4. CASE ~NullElem
  <2>1. Call(Goto("elem"), "node", KidIndent, pos')
    BY <1>4 DEF BseqElem
  <2>2. PICK f, col : f = Goto("elem") /\ col = KidIndent
    OBVIOUS
  <2>3. f.fn = "bseq" /\ f.v = Top.v /\ f.work = Top.work /\ f.lc = "elem"
    BY <1>2, <2>2 DEF Goto, Fields, Frame
  <2>4. PICK n \in 0..1 : n = 0
    OBVIOUS
  <2>5. Heap(n, 0)
    BY <1>1, <1>2, <2>4, SameHeap
  <2>6. Call(f, "node", col, pos')
    BY <2>1, <2>2
  <2> QED BY <1>1, <1>2, <2>3, <2>5, <2>6, LoopCalls
<1> QED BY <1>3, <1>4

LEMMA BmapNoKeyHeap == IInv /\ HeapInv /\ IInv' /\ BmapNoKey => HeapInv'
<1> SUFFICES ASSUME IInv, HeapInv, IInv', BmapNoKey PROVE HeapInv'
  OBVIOUS
<1>1. /\ At("bmap", "loop") /\ "bmap" \in Flow \cup Block
      /\ Keep /\ UNCHANGED <<ret, anchors, live>> /\ SetTop(Goto("close"))
      /\ pos' = KeyPos
  BY DEF BmapNoKey, AtKey, Break, Block
<1>2. pos' \in {pos, pos + 1, pos + 2, pos + 3}
  BY <1>1 DEF KeyPos
<1>3. pos' \in pos..Len(tokens)
  BY <1>1, <1>2, FewTokens DEF Keep
<1> QED BY <1>1, <1>3, LoopEnds

LEMMA BmapBareKeyHeap == IInv /\ HeapInv /\ IInv' /\ BmapBareKey => HeapInv'
<1> SUFFICES ASSUME IInv, HeapInv, IInv', BmapBareKey PROVE HeapInv'
  OBVIOUS
<1>1. At("bmap", "loop") /\ Keep /\ ret' = ret /\ anchors' = anchors /\ pos' = KeyPos + 1
  BY DEF BmapBareKey, AtKey
<1>2. /\ pc = "parsing" /\ stack # <<>> /\ Top.fn = "bmap" /\ Top.lc = "loop"
      /\ DOMAIN Top = Fields /\ FrameSane(Top) /\ Sane(ret) /\ Sane(Top.v)
      /\ TableSane(anchors) /\ Blocks(Top.v) \in Nat
      /\ FrameBlocks(Top) = Blocks(Top.v) /\ AnchorBlocks(anchors) \in Nat /\ pos \in Nat
  BY <1>1, InHeap
<1>3. pos' \in {pos, pos + 1, pos + 2, pos + 3}
  BY <1>1, <1>2 DEF KeyPos
<1>4. pos' \in pos..Len(tokens)
  BY <1>1, <1>3, FewTokens DEF Keep
<1>5. CASE UNCHANGED <<stack, faults, live>>
  BY <1>1, <1>2, <1>4, <1>5, StepStay
<1>6. ASSUME NEW h, SetTop([Top EXCEPT !.v = SetPair(@, Key.val, NullValue, h)]),
             Heap(SetPairCost(Top.v, Key.val, NullValue, h), 0)
      PROVE  HeapInv'
  <2>1. PICK e, k : e = NullValue /\ k = Key.val
    OBVIOUS
  <2>2. Sane(e) /\ e.own = 0
    <3>1. PICK type, text : type = "null" /\ e = Scalar(type, text)
      BY <2>1 DEF NullValue
    <3> QED BY <3>1, ScalarSane
  <2>3. PICK r, f : r = SetPair(Top.v, k, e, h) /\ f = [Top EXCEPT !.v = r]
    OBVIOUS
  <2>4. f.lc = "loop" /\ f.fn = "bmap" /\ f.v = r /\ f.work = Top.work
    BY <1>2, <2>3 DEF Fields, Frame
  <2>5. SetTop(f)
    BY <1>6, <2>1, <2>3
  <2>6. Top.v # Nil /\ Distinct(Top.v.kids)
    BY <1>2 DEF FrameSane
  <2>7. /\ Sane(r) /\ r # Nil /\ Distinct(r.kids) /\ Blocks(r) \in Nat
        /\ SetPairCost(Top.v, k, e, h) \in Int
        /\ Blocks(r) <= Blocks(Top.v) + e.own + SetPairCost(Top.v, k, e, h)
    BY <1>2, <2>2, <2>3, <2>6, PairSane
  <2>8. FrameSane(f)
    BY <1>2, <2>4, <2>7 DEF FrameSane
  <2>9. FrameBlocks(f) = Blocks(r)
    BY <2>4, <2>7 DEF FrameBlocks, HoldsKey
  <2>10. PICK n \in Int : n = SetPairCost(Top.v, k, e, h)
    BY <2>7
  <2>11. Heap(n, 0) /\ Sane(ret') /\ TableSane(anchors')
    BY <1>1, <1>2, <1>6, <2>1, <2>10
  <2>12. FrameBlocks(f) + Ret(f.lc, ret') + AnchorBlocks(anchors')
           <= FrameBlocks(Top) + Ret(Top.lc, ret) + AnchorBlocks(anchors) + n
    <3>1. Ret(f.lc, ret') = 0 /\ Ret(Top.lc, ret) = 0
      BY <1>2, <2>4 DEF Ret
    <3>2. PICK b, a, c \in Nat : b = Blocks(Top.v) /\ a = AnchorBlocks(anchors) /\ c = Blocks(r)
      BY <1>2, <2>7
    <3>3. c <= b + 0 + n
      BY <2>2, <2>7, <2>10, <3>2
    <3>4. c + 0 + a <= b + 0 + a + n
      BY <3>3
    <3> QED BY <1>1, <1>2, <2>9, <3>1, <3>2, <3>4
  <2> QED BY <1>1, <1>2, <1>4, <2>5, <2>8, <2>11, <2>12, StepTop
<1>7. \/ UNCHANGED <<stack, faults, live>>
      \/ \E h : /\ SetTop([Top EXCEPT !.v = SetPair(@, Key.val, NullValue, h)])
                /\ Heap(SetPairCost(Top.v, Key.val, NullValue, h), 0)
  BY DEF BmapBareKey
<1> QED BY <1>5, <1>6, <1>7

LEMMA BmapKeyHeap == IInv /\ HeapInv /\ IInv' /\ BmapKey => HeapInv'
<1> SUFFICES ASSUME IInv, HeapInv, IInv', BmapKey PROVE HeapInv'
  OBVIOUS
<1>1. /\ At("bmap", "loop") /\ "bmap" \in Flow \cup Block
      /\ Keep /\ anchors' = anchors /\ pos' = KeyPos + 2
  BY DEF BmapKey, AtKey, Block
<1>2. /\ pc = "parsing" /\ stack # <<>> /\ Top.fn = "bmap" /\ Top.lc = "loop"
      /\ DOMAIN Top = Fields /\ FrameSane(Top) /\ Sane(ret) /\ Sane(Top.v)
      /\ TableSane(anchors) /\ Blocks(Top.v) \in Nat
      /\ FrameBlocks(Top) = Blocks(Top.v) /\ AnchorBlocks(anchors) \in Nat /\ pos \in Nat
  BY <1>1, InHeap
<1>3. pos' \in {pos, pos + 1, pos + 2, pos + 3}
  BY <1>1, <1>2 DEF KeyPos
<1>4. pos' \in pos..Len(tokens)
  BY <1>1, <1>3, FewTokens DEF Keep
<1>5. PICK f : f = [Top EXCEPT !.lc = "put", !.key = Key.val]
  OBVIOUS
<1>6. f.lc = "put" /\ f.fn = "bmap" /\ f.v = Top.v /\ f.work = Top.work
  BY <1>2, <1>5 DEF Fields, Frame
<1>7. CASE SetTop(f) /\ ret' \in {Nil, NullValue} /\ Heap(1 + Blocks(ret'), 0)
  <2>1. Sane(ret') /\ Blocks(ret') \in Nat
    <3>1. Sane(NullValue)
      BY ScalarSane DEF NullValue
    <3> QED BY <1>7, <3>1, NilSane, SaneFacts
  <2>2. FrameSane(f)
    BY <1>2, <1>6 DEF FrameSane
  <2>3. FrameBlocks(f) \in Nat /\ FrameBlocks(f) <= Blocks(Top.v) + 1
    BY <1>2, <1>6 DEF FrameBlocks, HoldsKey
  <2>4. PICK n \in Int : n = 1 + Blocks(ret')
    BY <2>1
  <2>5. Heap(n, 0) /\ TableSane(anchors')
    BY <1>1, <1>2, <1>7, <2>4
  <2>6. FrameBlocks(f) + Ret(f.lc, ret') + AnchorBlocks(anchors')
          <= FrameBlocks(Top) + Ret(Top.lc, ret) + AnchorBlocks(anchors) + n
    <3>1. Ret(f.lc, ret') = Blocks(ret') /\ Ret(Top.lc, ret) = 0
      BY <1>2, <1>6 DEF Ret
    <3>2. PICK b, a, c, q \in Nat : /\ b = Blocks(Top.v) /\ a = AnchorBlocks(anchors)
                                    /\ c = FrameBlocks(f) /\ q = Blocks(ret')
      BY <1>2, <2>1, <2>3
    <3>3. c + q + a <= b + 0 + a + n
      BY <2>3, <2>4, <3>2
    <3> QED BY <1>1, <1>2, <3>1, <3>2, <3>3
  <2> QED BY <1>1, <1>2, <1>4, <1>7, <2>1, <2>2, <2>5, <2>6, StepTop
<1>8. CASE Call(f, "node", KidIndent, pos') /\ Heap(1, 0) /\ ret' = ret
  <2>1. PICK n \in 0..1 : n = 1
    OBVIOUS
  <2>2. PICK col : col = KidIndent
    OBVIOUS
  <2>3. Call(f, "node", col, pos') /\ Heap(n, 0) /\ UNCHANGED <<ret, anchors>>
    BY <1>1, <1>8, <2>1, <2>2
  <2> QED BY <1>1, <1>4, <1>6, <2>1, <2>3, LoopCalls
<1>9. \/ SetTop(f) /\ ret' \in {Nil, NullValue} /\ Heap(1 + Blocks(ret'), 0)
      \/ Call(f, "node", KidIndent, pos') /\ Heap(1, 0) /\ ret' = ret
  BY <1>5 DEF BmapKey
<1> QED BY <1>7, <1>8, <1>9

(***************************************************************************)
(* apply_merge.                                                            *)
(***************************************************************************)
WorkSane(w) == IsSeq(w) /\ \A i \in 1..Len(w) : Walkable(w[i])

LEMMA WorkCons ==
  ASSUME NEW v, Walkable(v), NEW w, WorkSane(w) PROVE WorkSane(<<v>> \o w)
<1>1. PICK G : w \in Seq(G) /\ \A x \in G : Walkable(x)
  <2>1. w \in Seq({w[i] : i \in DOMAIN w}) /\ DOMAIN w = 1..Len(w)
    BY SeqDomain DEF WorkSane, IsSeq
  <2> QED BY <2>1 DEF WorkSane
<1>2. <<v>> \o w \in Seq(G \cup {v})
  BY <1>1
<1>3. PICK r : r = <<v>> \o w
  OBVIOUS
<1>4. \A i \in 1..Len(r) : r[i] \in G \cup {v}
  BY <1>2, <1>3, SeqElements
<1> QED BY <1>1, <1>2, <1>3, <1>4, SeqIntro DEF WorkSane

LEMMA WorkTail ==
  ASSUME NEW w, WorkSane(w), w # <<>> PROVE WorkSane(Tail(w)) /\ Walkable(Head(w))
<1>1. PICK G : w \in Seq(G) /\ \A x \in G : Walkable(x)
  <2>1. w \in Seq({w[i] : i \in DOMAIN w}) /\ DOMAIN w = 1..Len(w)
    BY SeqDomain DEF WorkSane, IsSeq
  <2> QED BY <2>1 DEF WorkSane
<1>2. Tail(w) \in Seq(G) /\ Head(w) \in G
  BY <1>1
<1>3. PICK r : r = Tail(w)
  OBVIOUS
<1>4. \A i \in 1..Len(r) : r[i] \in G
  BY <1>2, <1>3, SeqElements
<1> QED BY <1>1, <1>2, <1>3, <1>4, SeqIntro DEF WorkSane

(* The first kid of a value that is being walked, and the value without it. *)
LEMMA WalkOn ==
  ASSUME NEW v, Walkable(v), v.kids # <<>>
  PROVE  Sane(Head(v.kids).node) /\ Walkable([v EXCEPT !.kids = Tail(@)])
<1>1. IsSeq(v.kids) /\ DOMAIN v = ValueFields /\ \A i \in 1..Len(v.kids) : Sane(v.kids[i].node)
  BY DEF Walkable
<1>2. PICK G : v.kids \in Seq(G) /\ \A x \in G : Sane(x.node)
  <2>1. v.kids \in Seq({v.kids[i] : i \in DOMAIN v.kids}) /\ DOMAIN v.kids = 1..Len(v.kids)
    BY <1>1, SeqDomain DEF IsSeq
  <2> QED BY <1>1, <2>1
<1>3. Tail(v.kids) \in Seq(G) /\ Head(v.kids) \in G
  BY <1>2
<1>4. PICK r : r = [v EXCEPT !.kids = Tail(@)]
  OBVIOUS
<1>5. DOMAIN r = ValueFields /\ r.kids = Tail(v.kids)
  BY <1>1, <1>4 DEF ValueFields, Nil
<1>6. IsSeq(r.kids) /\ \A i \in 1..Len(r.kids) : r.kids[i] \in G
  BY <1>3, <1>5, SeqIntro, SeqElements
<1> QED BY <1>2, <1>3, <1>4, <1>5, <1>6 DEF Walkable

(* A frame that merges, with another value and something else to walk. *)
LEMMA MergeFrame ==
  ASSUME DOMAIN Top = Fields, Top.fn = "bmap", Top.lc = "merge", FrameSane(Top),
         NEW v, Sane(v), v # Nil, Distinct(v.kids), NEW w, WorkSane(w),
         NEW f, f = [Top EXCEPT !.v = v, !.work = w]
  PROVE  FrameSane(f) /\ f.lc = "merge" /\ FrameBlocks(f) = Blocks(v) + 1
<1>1. f.lc = "merge" /\ f.fn = "bmap" /\ f.v = v /\ f.work = w /\ f.key = Top.key
  BY DEF Fields, Frame
<1>2. FrameSane(f)
  BY <1>1 DEF FrameSane, WorkSane
<1>3. f.key # NullKey
  BY <1>1 DEF FrameSane
<1> QED BY <1>1, <1>2, <1>3 DEF FrameBlocks, HoldsKey

LEMMA InMerge ==
  ASSUME IInv, HeapInv, At("bmap", "merge")
  PROVE  /\ pc = "parsing" /\ stack # <<>> /\ Top.fn = "bmap" /\ Top.lc = "merge"
         /\ DOMAIN Top = Fields /\ FrameSane(Top) /\ Sane(ret) /\ Sane(Top.v)
         /\ Top.v # Nil /\ Distinct(Top.v.kids) /\ WorkSane(Top.work)
         /\ TableSane(anchors) /\ Blocks(Top.v) \in Nat /\ Blocks(ret) \in Nat
         /\ FrameBlocks(Top) = Blocks(Top.v) + 1 /\ AnchorBlocks(anchors) \in Nat
         /\ pos \in pos..Len(tokens) /\ Ret("merge", ret) = Blocks(ret)
<1>1. /\ pc = "parsing" /\ stack # <<>> /\ Top.fn = "bmap" /\ Top.lc = "merge"
      /\ DOMAIN Top = Fields /\ FrameSane(Top) /\ Sane(ret) /\ Sane(Top.v)
      /\ TableSane(anchors) /\ Blocks(Top.v) \in Nat /\ Blocks(ret) \in Nat
      /\ FrameBlocks(Top) = Blocks(Top.v) + (IF Top.key # NullKey THEN 1 ELSE 0)
      /\ AnchorBlocks(anchors) \in Nat /\ pos \in pos..Len(tokens)
  BY InHeap
<1>2. Top.key # NullKey /\ Top.v # Nil /\ Distinct(Top.v.kids) /\ WorkSane(Top.work)
  BY <1>1 DEF FrameSane, WorkSane
<1>3. FrameBlocks(Top) = Blocks(Top.v) + 1
  BY <1>1, <1>2
<1> QED BY <1>1, <1>2, <1>3 DEF Ret

(* What is left to walk changes, and nothing else. *)
LEMMA MergeWalks ==
  ASSUME IInv, HeapInv, Keep, At("bmap", "merge"), pos' = pos,
         UNCHANGED <<ret, anchors, live>>,
         NEW w, WorkSane(w), SetTop([Top EXCEPT !.work = w])
  PROVE  HeapInv'
<1>1. /\ pc = "parsing" /\ stack # <<>> /\ Top.fn = "bmap" /\ Top.lc = "merge"
      /\ DOMAIN Top = Fields /\ FrameSane(Top) /\ Sane(Top.v) /\ Blocks(ret) \in Nat
      /\ Top.v # Nil /\ Distinct(Top.v.kids) /\ Blocks(Top.v) \in Nat
      /\ FrameBlocks(Top) = Blocks(Top.v) + 1 /\ pos' \in pos..Len(tokens)
      /\ Ret("merge", ret) = Blocks(ret)
  BY InMerge
<1>2. PICK f : f = [Top EXCEPT !.v = Top.v, !.work = w]
  OBVIOUS
<1>3. FrameSane(f) /\ f.lc = "merge" /\ FrameBlocks(f) = Blocks(Top.v) + 1
  BY <1>1, <1>2, MergeFrame
<1>4. f = [Top EXCEPT !.work = w]
  BY <1>1, <1>2 DEF Fields, Frame
<1>5. SetTop(f)
  BY <1>4
<1>6. FrameBlocks(f) + Ret(f.lc, ret) <= FrameBlocks(Top) + Ret("merge", ret)
  BY <1>1, <1>3
<1> QED BY <1>1, <1>3, <1>5, <1>6, QuietTop

LEMMA MergeStartHeap == IInv /\ HeapInv /\ IInv' /\ MergeStart => HeapInv'
<1> SUFFICES ASSUME IInv, HeapInv, IInv', MergeStart PROVE HeapInv'
  OBVIOUS
<1>1. /\ At("bmap", "put") /\ Keep /\ pos' = pos /\ UNCHANGED <<ret, anchors, live>>
      /\ SetTop([Top EXCEPT !.lc = "merge", !.work = <<ret>>])
  BY DEF MergeStart, Idle, Quiet
<1>2. Top.key # NullKey
  BY DEF MergeStart, NullKey
<1>3. /\ Top.fn = "bmap" /\ Top.lc = "put" /\ DOMAIN Top = Fields /\ FrameSane(Top) /\ Sane(ret)
      /\ Blocks(ret) \in Nat /\ Blocks(Top.v) \in Nat
      /\ FrameBlocks(Top) = Blocks(Top.v) + 1 /\ pos' \in pos..Len(tokens)
  BY <1>1, <1>2, InHeap
<1>4. PICK w : w = <<ret>>
  OBVIOUS
<1>5. IsSeq(w) /\ \A i \in 1..Len(w) : Walkable(w[i])
  <2>1. Walkable(ret)
    BY <1>3, SaneFacts
  <2>2. w \in Seq({ret}) /\ \A i \in 1..Len(w) : w[i] = ret
    BY <1>4
  <2> QED BY <2>1, <2>2, SeqIntro
<1>6. PICK f : f = [Top EXCEPT !.lc = "merge", !.work = w]
  OBVIOUS
<1>7. f.lc = "merge" /\ f.fn = "bmap" /\ f.v = Top.v /\ f.work = w /\ f.key = Top.key
  BY <1>3, <1>6 DEF Fields, Frame
<1>8. FrameSane(f)
  BY <1>2, <1>3, <1>5, <1>7 DEF FrameSane
<1>9. FrameBlocks(f) = Blocks(Top.v) + 1
  BY <1>2, <1>7 DEF FrameBlocks, HoldsKey
<1>10. Ret(f.lc, ret) = Blocks(ret) /\ Ret("put", ret) = Blocks(ret)
  BY <1>7 DEF Ret
<1>11. FrameBlocks(f) + Ret(f.lc, ret) <= FrameBlocks(Top) + Ret("put", ret)
  BY <1>3, <1>9, <1>10
<1>12. SetTop(f)
  BY <1>1, <1>4, <1>6
<1> QED BY <1>1, <1>3, <1>8, <1>11, <1>12, QuietTop

LEMMA RestSane ==
  ASSUME WorkSane(Top.work), Top.work # <<>>, Source.kids # <<>>
  PROVE  WorkSane(Rest) /\ Sane(FirstKid.node)
<1>1. WorkSane(Tail(Top.work)) /\ Walkable(Source)
  BY WorkTail DEF Source
<1>2. Sane(FirstKid.node) /\ Walkable([Source EXCEPT !.kids = Tail(@)])
  BY <1>1, WalkOn DEF FirstKid
<1>3. WorkSane(<<[Source EXCEPT !.kids = Tail(@)]>> \o Tail(Top.work))
  BY <1>1, <1>2, WorkCons
<1> QED BY <1>2, <1>3 DEF Rest

LEMMA MergePairHeap == IInv /\ HeapInv /\ IInv' /\ MergePair => HeapInv'
<1> SUFFICES ASSUME IInv, HeapInv, IInv', MergePair PROVE HeapInv'
  OBVIOUS
<1>1. /\ At("bmap", "merge") /\ Keep /\ UNCHANGED <<pos, ret, anchors>>
      /\ Top.work # <<>> /\ Source.kids # <<>>
  BY DEF MergePair, Merging
<1>2. /\ pc = "parsing" /\ stack # <<>> /\ Top.fn = "bmap" /\ Top.lc = "merge"
      /\ DOMAIN Top = Fields /\ FrameSane(Top) /\ Sane(ret) /\ Sane(Top.v)
      /\ Top.v # Nil /\ Distinct(Top.v.kids) /\ WorkSane(Top.work)
      /\ TableSane(anchors) /\ Blocks(Top.v) \in Nat /\ Blocks(ret) \in Nat
      /\ FrameBlocks(Top) = Blocks(Top.v) + 1 /\ AnchorBlocks(anchors) \in Nat
      /\ pos' \in pos..Len(tokens) /\ Ret("merge", ret) = Blocks(ret)
  BY <1>1, InMerge
<1>3. WorkSane(Rest) /\ Sane(FirstKid.node)
  BY <1>1, <1>2, RestSane
<1>4. PICK k, e, w : k = FirstKid.key /\ e = FirstKid.node /\ w = Rest
  OBVIOUS
<1>5. PICK h :
        LET skip == Has(Top.v, k) \/ h = 1
        IN /\ SetTop([Top EXCEPT !.work = w,
                        !.v = IF skip \/ h = 2 THEN @ ELSE HmSet(@, k, e)])
           /\ Heap((IF skip THEN 0 ELSE e.own)
                     + (IF skip \/ h = 2 THEN 0 ELSE SetCost(Top.v, k, e)), 0)
  <2>1. PICK h :
          LET skip == Has(Top.v, FirstKid.key) \/ h = 1
          IN /\ SetTop([Top EXCEPT !.work = Rest,
                          !.v = IF skip \/ h = 2 THEN @ ELSE HmSet(@, FirstKid.key, FirstKid.node)])
             /\ Heap((IF skip THEN 0 ELSE FirstKid.node.own)
                       + (IF skip \/ h = 2 THEN 0
                          ELSE SetCost(Top.v, FirstKid.key, FirstKid.node)), 0)
    BY DEF MergePair
  <2> QED BY <1>4, <2>1
<1>6. PICK v, n :
        /\ v = IF (Has(Top.v, k) \/ h = 1) \/ h = 2 THEN Top.v ELSE HmSet(Top.v, k, e)
        /\ n = (IF Has(Top.v, k) \/ h = 1 THEN 0 ELSE e.own)
               + (IF (Has(Top.v, k) \/ h = 1) \/ h = 2 THEN 0 ELSE SetCost(Top.v, k, e))
  OBVIOUS
<1>7. PICK f : f = [Top EXCEPT !.v = v, !.work = w]
  OBVIOUS
<1>8. SetTop(f) /\ Heap(n, 0)
  <2>1. f = [Top EXCEPT !.work = w, !.v = IF (Has(Top.v, k) \/ h = 1) \/ h = 2 THEN @ ELSE HmSet(@, k, e)]
    BY <1>2, <1>6, <1>7 DEF Fields, Frame
  <2> QED BY <1>5, <1>6, <2>1
<1>9. Sane(e) /\ e.own \in Nat
  BY <1>3, <1>4, SaneFacts
<1>10. /\ Sane(v) /\ v # Nil /\ Distinct(v.kids) /\ Blocks(v) \in Nat /\ n \in Int
       /\ Blocks(v) <= Blocks(Top.v) + n
  <2>1. CASE Has(Top.v, k) \/ h = 1
    BY <1>2, <1>6, <2>1
  <2>2. CASE ~(Has(Top.v, k) \/ h = 1) /\ h = 2
    <3>1. v = Top.v /\ n = e.own + 0
      BY <1>6, <2>2
    <3> QED BY <1>2, <1>9, <3>1
  <2>3. CASE ~(Has(Top.v, k) \/ h = 1) /\ h # 2
    <3>1. v = HmSet(Top.v, k, e) /\ n = e.own + SetCost(Top.v, k, e)
      BY <1>6, <2>3
    <3>2. /\ Sane(v) /\ v # Nil /\ Distinct(v.kids)
          /\ Blocks(v) <= Blocks(Top.v) + e.own + SetCost(Top.v, k, e)
          /\ SetCost(Top.v, k, e) \in Int
      BY <1>2, <1>9, <3>1, HmSetSane
    <3>3. Blocks(v) \in Nat
      BY <3>2, SaneFacts
    <3> QED BY <1>2, <1>9, <3>1, <3>2, <3>3
  <2> QED BY <2>1, <2>2, <2>3
<1>11. WorkSane(w)
  BY <1>3, <1>4
<1>12. FrameSane(f) /\ f.lc = "merge" /\ FrameBlocks(f) = Blocks(v) + 1
  BY <1>2, <1>7, <1>10, <1>11, MergeFrame
<1>13. FrameBlocks(f) + Ret(f.lc, ret') + AnchorBlocks(anchors')
         <= FrameBlocks(Top) + Ret(Top.lc, ret) + AnchorBlocks(anchors) + n
  <2>1. PICK b, c, q, a \in Nat : /\ b = Blocks(Top.v) /\ c = Blocks(v)
                                  /\ q = Blocks(ret) /\ a = AnchorBlocks(anchors)
    BY <1>2, <1>10
  <2>2. n \in Int /\ c <= b + n
    BY <1>10, <2>1
  <2>3. (c + 1) + q + a <= (b + 1) + q + a + n
    BY <2>2
  <2> QED BY <1>1, <1>2, <1>12, <2>1, <2>3
<1>14. Sane(ret') /\ TableSane(anchors')
  BY <1>1, <1>2
<1> QED BY <1>1, <1>2, <1>8, <1>10, <1>12, <1>13, <1>14, StepTop

LEMMA MergeWalkHeap ==
  IInv /\ HeapInv /\ IInv' /\ (MergeElement \/ MergeNext) => HeapInv'
<1> SUFFICES ASSUME IInv, HeapInv, IInv', MergeElement \/ MergeNext PROVE HeapInv'
  OBVIOUS
<1>1. /\ At("bmap", "merge") /\ Keep /\ pos' = pos /\ UNCHANGED <<ret, anchors, live>>
      /\ Top.work # <<>>
  BY DEF MergeElement, MergeNext, Merging, Idle, Quiet
<1>2. WorkSane(Top.work) /\ DOMAIN Top = Fields
  BY <1>1, InMerge
<1>3. CASE MergeElement
  <2>1. Source.kids # <<>> /\ SetTop([Top EXCEPT !.work = <<FirstKid.node>> \o Rest])
    BY <1>3 DEF MergeElement, Merging
  <2>2. WorkSane(Rest) /\ Sane(FirstKid.node)
    BY <1>1, <1>2, <2>1, RestSane
  <2>3. Walkable(FirstKid.node)
    BY <2>2, SaneFacts
  <2>4. WorkSane(<<FirstKid.node>> \o Rest)
    BY <2>2, <2>3, WorkCons
  <2> QED BY <1>1, <2>1, <2>4, MergeWalks
<1>4. CASE MergeNext
  <2>1. SetTop([Top EXCEPT !.work = Tail(Top.work)])
    <3>1. [Top EXCEPT !.work = Tail(@)] = [Top EXCEPT !.work = Tail(Top.work)]
      BY <1>2
    <3> QED BY <1>4, <3>1 DEF MergeNext
  <2>2. WorkSane(Tail(Top.work))
    BY <1>1, <1>2, WorkTail
  <2> QED BY <1>1, <2>1, <2>2, MergeWalks
<1> QED BY <1>3, <1>4

LEMMA MergeDoneHeap == IInv /\ HeapInv /\ IInv' /\ MergeDone => HeapInv'
<1> SUFFICES ASSUME IInv, HeapInv, IInv', MergeDone PROVE HeapInv'
  OBVIOUS
<1>1. /\ At("bmap", "merge") /\ Keep /\ UNCHANGED <<pos, ret, anchors>>
      /\ SetTop(Goto("loop")) /\ Heap(-Blocks(ret) - 1, 0)
  BY DEF MergeDone, Quiet
<1>2. /\ pc = "parsing" /\ stack # <<>> /\ Top.fn = "bmap" /\ Top.lc = "merge"
      /\ DOMAIN Top = Fields /\ FrameSane(Top) /\ Sane(ret)
      /\ TableSane(anchors) /\ Blocks(Top.v) \in Nat /\ Blocks(ret) \in Nat
      /\ FrameBlocks(Top) = Blocks(Top.v) + 1 /\ AnchorBlocks(anchors) \in Nat
      /\ pos' \in pos..Len(tokens) /\ Ret("merge", ret) = Blocks(ret)
  BY <1>1, InMerge
<1>3. /\ FrameSane(Goto("loop")) /\ Goto("loop").lc = "loop"
      /\ FrameBlocks(Goto("loop")) = Blocks(Top.v)
  BY <1>2, GotoSane
<1>4. PICK n \in Int : n = -Blocks(ret) - 1
  BY <1>2
<1>5. Ret("loop", ret') = 0
  BY DEF Ret
<1>6. FrameBlocks(Goto("loop")) + Ret(Goto("loop").lc, ret') + AnchorBlocks(anchors')
        <= FrameBlocks(Top) + Ret(Top.lc, ret) + AnchorBlocks(anchors) + n
  <2>1. PICK b, q, a \in Nat : b = Blocks(Top.v) /\ q = Blocks(ret) /\ a = AnchorBlocks(anchors)
    BY <1>2
  <2>2. n = -q - 1
    BY <1>4, <2>1
  <2>3. b + 0 + a <= (b + 1) + q + a + n
    BY <2>2
  <2> QED BY <1>1, <1>2, <1>3, <1>5, <2>1, <2>3
<1>7. Heap(n, 0) /\ Sane(ret') /\ TableSane(anchors')
  BY <1>1, <1>2, <1>4
<1> QED BY <1>1, <1>2, <1>3, <1>6, <1>7, StepTop

(***************************************************************************)
(* The drivers.                                                            *)
(***************************************************************************)
LEMMA HeldNext ==
  ASSUME Sane(ret'), FramesSane(stack'), TableSane(anchors'), DocsSane(docs')
  PROVE  /\ Held' = StackBlocks(stack') + (IF pc' = "parsing" THEN RetPart(stack', ret') ELSE 0)
                    + AnchorBlocks(anchors') + DocBlocks(docs')
         /\ Held' \in Nat
<1>1. (Sane(ret) /\ FramesSane(stack) /\ TableSane(anchors) /\ DocsSane(docs) => Held \in Nat)'
  BY HeldFacts, PTL
<1>2. (Held = StackBlocks(stack) + (IF pc = "parsing" THEN RetPart(stack, ret) ELSE 0)
              + AnchorBlocks(anchors) + DocBlocks(docs))'
  BY HeldIs, PTL
<1> QED BY <1>1, <1>2

LEMMA LibraryNext ==
  ASSUME IInv, IInv', tokens' = tokens, pos' \in {pos, pos + 1}
  PROVE  /\ HeldByLibrary' = (IF pc' \in {"call", "refused"} THEN 0 ELSE Unread(tokens, pos'))
                             + Arrays(pc', mode')
         /\ HeldByLibrary' \in Nat /\ Arrays(pc', mode') \in Nat
         /\ Unread(tokens, pos') \in Nat /\ Buffers \in Nat
         /\ Unread(tokens, pos') <= Unread(tokens, pos)
         /\ Unread(tokens, pos') <= Buffers
<1>1. /\ tokens \in Inputs /\ pos \in 1..Len(tokens) /\ pos' \in 1..Len(tokens)
      /\ Len(tokens) \in Nat
  BY Tokens DEF IInv
<1>2. (tokens \in Inputs /\ pos \in 1..Len(tokens)
       => /\ HeldByLibrary = (IF pc \in {"call", "refused"} THEN 0 ELSE Unread(tokens, pos))
                             + Arrays(pc, mode)
          /\ Unread(tokens, pos) \in Nat /\ Arrays(pc, mode) \in Nat /\ HeldByLibrary \in Nat)'
  BY LibraryIs, PTL
<1>3. pos' \in pos..Len(tokens) /\ 1 \in 1..Len(tokens) /\ pos' \in 1..Len(tokens)
  BY <1>1
<1>4. Unread(tokens, pos') <= Unread(tokens, pos) /\ Unread(tokens, pos') \in Nat
  BY <1>1, <1>3, UnreadFacts
<1>5. PICK p \in 1..Len(tokens) : p = 1
  BY <1>3
<1>6. pos' \in p..Len(tokens)
  BY <1>1, <1>5
<1>7. Unread(tokens, pos') <= Unread(tokens, p) /\ Unread(tokens, p) \in Nat
  BY <1>1, <1>6, UnreadFacts
<1>8. Buffers = Unread(tokens, p)
  BY <1>5, BuffersAre
<1> QED BY <1>1, <1>2, <1>4, <1>7, <1>8

LEMMA DriverHeap ==
  ASSUME IInv, HeapInv, IInv', tokens' = tokens, alloc' = alloc, pc # "crashed",
         pos' \in {pos, pos + 1},
         NEW n \in Int, NEW m \in Int, Heap(n, m),
         Sane(ret'), FramesSane(stack'), TableSane(anchors'), DocsSane(docs'),
         Held' <= Held + n, HeldByLibrary' <= HeldByLibrary + m
  PROVE  HeapInv'
<1>1. PICK d \in Int : d = 0
  OBVIOUS
<1>2. /\ live \in [Sides -> Int] /\ Sane(ret) /\ FramesSane(stack) /\ TableSane(anchors)
      /\ DocsSane(docs) /\ NothingFreedTwice
  BY DEF HeapInv
<1>3. Held \in Nat /\ Held' \in Nat /\ HeldByLibrary \in Nat /\ HeldByLibrary' \in Nat
  BY <1>2, HeldFacts, HeldNext, LibraryNext, LibraryIs DEF IInv
<1>4. alloc \in Sides
  BY ParametersAssumption DEF IInv, Sides
<1>5. Held' <= Held + n + d /\ HeldByLibrary' <= HeldByLibrary + m - d
  <2>1. PICK a, b, a1, b1 \in Nat : /\ a = Held /\ b = HeldByLibrary
                                    /\ a1 = Held' /\ b1 = HeldByLibrary'
    BY <1>3
  <2>2. a1 <= a + n /\ b1 <= b + m
    BY <2>1
  <2>3. a1 <= a + n + d /\ b1 <= b + m - d
    BY <1>1, <2>2
  <2> QED BY <2>1, <2>3
<1>6. d = 0 \/ (SameAllocator => alloc = "malloc")
  BY <1>1
<1>7. Held \in Int /\ Held' \in Int /\ HeldByLibrary \in Int /\ HeldByLibrary' \in Int
  BY <1>3
<1>8. live' \in [Sides -> Int] /\ NothingFreedTwice'
  BY <1>2, <1>4, <1>5, <1>6, <1>7, Balance
<1> QED BY <1>8 DEF HeapInv

(* Outside the descent the stack is empty. *)
LEMMA Outside ==
  ASSUME IInv, HeapInv
  PROVE  /\ Sane(ret) /\ FramesSane(stack) /\ TableSane(anchors) /\ DocsSane(docs)
         /\ live \in [Sides -> Int]
         /\ StackBlocks(stack) \in Nat
         /\ AnchorBlocks(anchors) \in Nat /\ DocBlocks(docs) \in Nat /\ Blocks(ret) \in Nat
         /\ stack = <<>> => StackBlocks(stack) = 0 /\ RetPart(stack, ret) = Blocks(ret)
         /\ Held = StackBlocks(stack) + (IF pc = "parsing" THEN RetPart(stack, ret) ELSE 0)
                   + AnchorBlocks(anchors) + DocBlocks(docs)
         /\ HeldByLibrary = (IF pc \in {"call", "refused"} THEN 0 ELSE Unread(tokens, pos))
                            + Arrays(pc, mode)
         /\ HeldByLibrary \in Nat /\ Unread(tokens, pos) \in Nat /\ pos \in Nat
<1>1. /\ Sane(ret) /\ FramesSane(stack) /\ TableSane(anchors) /\ DocsSane(docs)
      /\ live \in [Sides -> Int]
  BY DEF HeapInv
<1>2. tokens \in Inputs /\ pos \in 1..Len(tokens) /\ pos \in Nat
  BY DEF IInv
<1>3. stack = <<>> => StackBlocks(stack) = 0 /\ RetPart(stack, ret) = Blocks(ret)
  BY NothingHeld DEF RetPart
<1> QED BY <1>1, <1>2, <1>3, HeldFacts, HeldIs, LibraryIs

LEMMA FirstCall ==
  ASSUME NEW col, NEW at, stack' = <<Frame("node", col, at)>>
  PROVE  FramesSane(stack') /\ StackBlocks(stack') = 0 /\ RetPart(stack', ret') = 0
<1>1. PICK g, t : g = Frame("node", col, at) /\ t = stack'
  OBVIOUS
<1>2. FrameSane(g) /\ FrameBlocks(g) = 0 /\ g.lc = "enter"
  BY <1>1, NewFrame
<1>3. t = Append(<<>>, g) /\ t # <<>> /\ t[Len(t)] = g
  BY <1>1
<1>4. FramesSane(<<>>) /\ StackBlocks(<<>>) = 0
  BY NothingHeld
<1>5. FramesSane(t) /\ StackBlocks(t) = StackBlocks(<<>>) + FrameBlocks(g)
  BY <1>2, <1>3, <1>4, StackCall
<1> QED BY <1>1, <1>2, <1>3, <1>4, <1>5 DEF RetPart, Ret

LEMMA CrashHeap == IInv /\ HeapInv /\ IInv' /\ Crash => HeapInv'
BY DEF HeapInv, Crash, NothingFreedTwice

LEMMA AfterMarkerNear == AfterMarker \in {pos, pos + 1}
BY DEF AfterMarker

LEMMA LexFailsHeap == IInv /\ HeapInv /\ IInv' /\ LexFails => HeapInv'
<1> SUFFICES ASSUME IInv, HeapInv, IInv', LexFails PROVE HeapInv'
  OBVIOUS
<1>1. /\ pc = "call" /\ pc' = "refused" /\ stack = <<>> /\ tokens' = tokens /\ alloc' = alloc
      /\ pos' \in {pos, pos + 1} /\ mode' = mode
      /\ UNCHANGED <<stack, ret, anchors, docs, live>>
  BY DEF LexFails, IInv
<1>2. PICK n, m \in Int : n = 0 /\ m = 0
  OBVIOUS
<1>3. Heap(n, m)
  BY <1>2, <1>1, SameHeap, Outside
<1>4. Sane(ret') /\ FramesSane(stack') /\ TableSane(anchors') /\ DocsSane(docs')
  BY <1>1, Outside
<1>5. Held' <= Held + n
  <2>1. Held' = Held /\ Held \in Nat
    BY <1>1, <1>4, HeldNext, Outside
  <2> QED BY <1>2, <2>1
<1>6. HeldByLibrary' <= HeldByLibrary + m
  <2>1. HeldByLibrary' = 0 + Arrays("refused", mode) /\ HeldByLibrary \in Nat
    BY <1>1, LibraryNext, Outside
  <2>2. Arrays("refused", mode) = 0
    BY DEF Arrays
  <2> QED BY <1>2, <2>1, <2>2
<1> QED BY <1>1, <1>3, <1>4, <1>5, <1>6, DriverHeap

LEMMA ParseStartHeap == IInv /\ HeapInv /\ IInv' /\ ParseStart => HeapInv'
<1> SUFFICES ASSUME IInv, HeapInv, IInv', ParseStart PROVE HeapInv'
  OBVIOUS
<1>1. /\ pc = "call" /\ pc' = "parsing" /\ stack = <<>> /\ tokens' = tokens /\ alloc' = alloc
      /\ pos' \in {pos, pos + 1} /\ mode' = mode /\ mode = "parse"
      /\ UNCHANGED <<ret, anchors, docs>> /\ Heap(0, 2 + Buffers)
      /\ stack' = <<Frame("node", 0, pos')>>
  BY AfterMarkerNear DEF ParseStart, IInv
<1>2. FramesSane(stack') /\ StackBlocks(stack') = 0 /\ RetPart(stack', ret') = 0
  BY <1>1, FirstCall
<1>3. PICK n, m \in Int : n = 0 /\ m = 2 + Buffers
  BY <1>1, LibraryNext
<1>4. Heap(n, m)
  BY <1>1, <1>3
<1>5. Sane(ret') /\ TableSane(anchors') /\ DocsSane(docs')
  BY <1>1, Outside
<1>6. Held' <= Held + n
  <2>1. PICK a, c \in Nat : a = AnchorBlocks(anchors) /\ c = DocBlocks(docs)
    BY Outside
  <2>2. Held = 0 + 0 + a + c
    BY <1>1, <2>1, Outside
  <2>3. Held' = 0 + 0 + a + c
    BY <1>1, <1>2, <1>5, <2>1, HeldNext
  <2> QED BY <1>3, <2>2, <2>3
<1>7. HeldByLibrary' <= HeldByLibrary + m
  <2>1. Arrays("parsing", mode) = 2
    BY <1>1 DEF Arrays
  <2>2. PICK u, b \in Nat : u = Unread(tokens, pos') /\ b = Buffers /\ u <= b
    BY <1>1, LibraryNext
  <2>3. HeldByLibrary' = u + 2 /\ HeldByLibrary \in Nat
    BY <1>1, <2>1, <2>2, LibraryNext, Outside
  <2> QED BY <1>3, <2>2, <2>3
<1> QED BY <1>1, <1>2, <1>4, <1>5, <1>6, <1>7, DriverHeap

LEMMA StreamStartHeap == IInv /\ HeapInv /\ IInv' /\ StreamStart => HeapInv'
<1> SUFFICES ASSUME IInv, HeapInv, IInv', StreamStart PROVE HeapInv'
  OBVIOUS
<1>1. /\ pc = "call" /\ pc' = "loop" /\ stack = <<>> /\ tokens' = tokens /\ alloc' = alloc
      /\ pos' \in {pos, pos + 1} /\ mode' = mode /\ mode = "stream"
      /\ UNCHANGED <<stack, ret, anchors, docs>> /\ Heap(0, 3 + Buffers)
  BY DEF StreamStart, IInv
<1>2. PICK n, m \in Int : n = 0 /\ m = 3 + Buffers
  BY <1>1, LibraryNext
<1>3. Heap(n, m)
  BY <1>1, <1>2
<1>4. Sane(ret') /\ FramesSane(stack') /\ TableSane(anchors') /\ DocsSane(docs')
  BY <1>1, Outside
<1>5. Held' <= Held + n
  <2>1. Held' = Held /\ Held \in Nat
    BY <1>1, <1>4, HeldNext, Outside
  <2> QED BY <1>2, <2>1
<1>6. HeldByLibrary' <= HeldByLibrary + m
  <2>1. Arrays("loop", mode) = 3
    BY <1>1 DEF Arrays
  <2>2. PICK u, b \in Nat : u = Unread(tokens, pos') /\ b = Buffers /\ u <= b
    BY <1>1, LibraryNext
  <2>3. HeldByLibrary' = u + 3 /\ HeldByLibrary \in Nat
    BY <1>1, <2>1, <2>2, LibraryNext, Outside
  <2> QED BY <1>2, <2>2, <2>3
<1> QED BY <1>1, <1>3, <1>4, <1>5, <1>6, DriverHeap

LEMMA ParseEndHeap == IInv /\ HeapInv /\ IInv' /\ ParseEnd => HeapInv'
<1> SUFFICES ASSUME IInv, HeapInv, IInv', ParseEnd PROVE HeapInv'
  OBVIOUS
<1>1. /\ pc = "parsing" /\ pc' = "done" /\ stack = <<>> /\ tokens' = tokens /\ alloc' = alloc
      /\ pos' = pos /\ pos' \in {pos, pos + 1} /\ mode' = mode /\ mode = "parse"
      /\ stack' = stack /\ ret' = Nil /\ anchors' = <<>>
      /\ docs' = IF ok = 0 THEN <<ret>> ELSE <<>>
      /\ Heap(-(IF ok = 0 THEN 0 ELSE Blocks(ret)) - AnchorBlocks(anchors), -2)
  BY DEF ParseEnd
<1>2. PICK n, m \in Int : /\ n = -(IF ok = 0 THEN 0 ELSE Blocks(ret)) - AnchorBlocks(anchors)
                          /\ m = -2
  BY Outside
<1>3. Heap(n, m)
  BY <1>1, <1>2
<1>4. Sane(ret') /\ FramesSane(stack') /\ TableSane(anchors')
  BY <1>1, NilSane, NothingHeld, Outside
<1>5. DocsSane(docs') /\ DocBlocks(docs') = IF ok = 0 THEN Blocks(ret) ELSE 0
  <2>1. CASE ok = 0
    <3>1. PICK l : l = docs' /\ l = Append(<<>>, ret)
      BY <1>1, <2>1
    <3>2. DocsSane(<<>>) /\ DocBlocks(<<>>) = 0 /\ Sane(ret)
      BY NothingHeld, Outside
    <3>3. DocsSane(l) /\ DocBlocks(l) = DocBlocks(<<>>) + Blocks(ret)
      BY <3>1, <3>2, DocAppend
    <3> QED BY <2>1, <3>1, <3>2, <3>3, Outside
  <2>2. CASE ok # 0
    BY <1>1, <2>2, NothingHeld
  <2> QED BY <2>1, <2>2
<1>6. Held' <= Held + n
  <2>1. PICK a, c, q, e \in Nat : /\ a = AnchorBlocks(anchors) /\ c = DocBlocks(docs)
                                  /\ q = Blocks(ret) /\ e = (IF ok = 0 THEN 0 ELSE q)
    BY Outside
  <2>2. Held = 0 + q + a + c
    BY <1>1, <2>1, Outside
  <2>3. PICK x \in Nat : x = DocBlocks(docs') /\ x = (IF ok = 0 THEN q ELSE 0)
    BY <1>5, <2>1
  <2>4. Held' = 0 + 0 + 0 + x
    BY <1>1, <1>4, <1>5, <2>3, HeldNext, NothingHeld
  <2>5. n = -e - a /\ x + e = q
    BY <1>2, <2>1, <2>3
  <2> QED BY <2>2, <2>4, <2>5
<1>7. HeldByLibrary' <= HeldByLibrary + m
  <2>1. Arrays("parsing", mode) = 2 /\ Arrays("done", mode) = 0
    BY <1>1 DEF Arrays
  <2>2. PICK u \in Nat : u = Unread(tokens, pos)
    BY Outside
  <2>3. HeldByLibrary' = u + 0 /\ HeldByLibrary = u + 2
    BY <1>1, <2>1, <2>2, LibraryNext, Outside
  <2> QED BY <1>2, <2>3
<1> QED BY <1>1, <1>3, <1>4, <1>5, <1>6, <1>7, DriverHeap

LEMMA StreamDocHeap == IInv /\ HeapInv /\ IInv' /\ StreamDoc => HeapInv'
<1> SUFFICES ASSUME IInv, HeapInv, IInv', StreamDoc PROVE HeapInv'
  OBVIOUS
<1>1. /\ pc = "loop" /\ pc' = "parsing" /\ stack = <<>> /\ tokens' = tokens /\ alloc' = alloc
      /\ pos' \in {pos, pos + 1} /\ mode' = mode
      /\ ret' = ret /\ docs' = docs
      /\ stack' = <<Frame("node", 0, pos')>>
  BY AfterMarkerNear DEF StreamDoc, IInv
<1>2. FramesSane(stack') /\ StackBlocks(stack') = 0 /\ RetPart(stack', ret') = 0
  BY <1>1, FirstCall
<1>3. PICK n \in Int : /\ Heap(n, 0)
                       /\ \/ n = 0 /\ anchors' = anchors
                          \/ n = -AnchorBlocks(anchors) /\ anchors' = <<>>
  <2>1. CASE anchors_clear(0)
    <3>1. PICK n \in Int : n = -0 - AnchorBlocks(anchors)
      BY Outside
    <3>2. n = -AnchorBlocks(anchors)
      BY <3>1, Outside
    <3> QED BY <2>1, <3>1, <3>2 DEF anchors_clear
  <2>2. CASE UNCHANGED <<anchors, live>>
    BY <2>2, SameHeap, Outside
  <2> QED BY <2>1, <2>2 DEF StreamDoc
<1>4. /\ Sane(ret') /\ TableSane(anchors') /\ DocsSane(docs')
      /\ AnchorBlocks(anchors') \in Nat /\ AnchorBlocks(anchors') <= AnchorBlocks(anchors) + n
  <2>1. CASE n = 0 /\ anchors' = anchors
    BY <1>1, <2>1, Outside
  <2>2. CASE n = -AnchorBlocks(anchors) /\ anchors' = <<>>
    <3>1. PICK a \in Nat : a = AnchorBlocks(anchors)
      BY Outside
    <3>2. 0 <= a + n
      BY <2>2, <3>1
    <3> QED BY <1>1, <2>2, <3>1, <3>2, Outside, NothingHeld
  <2> QED BY <1>3, <2>1, <2>2
<1>5. PICK m \in Int : m = 0
  OBVIOUS
<1>6. Heap(n, m)
  BY <1>3, <1>5
<1>7. Held' <= Held + n
  <2>1. PICK a, a1, c \in Nat : /\ a = AnchorBlocks(anchors) /\ a1 = AnchorBlocks(anchors')
                                /\ c = DocBlocks(docs)
    BY <1>4, Outside
  <2>2. Held = 0 + 0 + a + c
    BY <1>1, <2>1, Outside
  <2>3. Held' = 0 + 0 + a1 + c
    BY <1>1, <1>2, <1>4, <2>1, HeldNext
  <2>4. a1 <= a + n
    BY <1>4, <2>1
  <2> QED BY <2>2, <2>3, <2>4
<1>8. HeldByLibrary' <= HeldByLibrary + m
  <2>1. Arrays("parsing", mode) = Arrays("loop", mode)
    BY DEF Arrays
  <2>2. PICK u, u1, r \in Nat : /\ u = Unread(tokens, pos) /\ u1 = Unread(tokens, pos')
                                /\ u1 <= u /\ r = Arrays("parsing", mode)
    BY <1>1, LibraryNext, Outside
  <2>3. HeldByLibrary' = u1 + r /\ HeldByLibrary = u + r
    BY <1>1, <2>1, <2>2, LibraryNext, Outside
  <2> QED BY <1>5, <2>2, <2>3
<1> QED BY <1>1, <1>2, <1>4, <1>6, <1>7, <1>8, DriverHeap

LEMMA StreamStoreHeap == IInv /\ HeapInv /\ IInv' /\ StreamStore => HeapInv'
<1> SUFFICES ASSUME IInv, HeapInv, IInv', StreamStore PROVE HeapInv'
  OBVIOUS
<1>1. /\ pc = "parsing" /\ pc' = "loop" /\ stack = <<>> /\ tokens' = tokens /\ alloc' = alloc
      /\ pos' \in {pos, pos + 1} /\ mode' = mode /\ stack' = stack /\ ret' = Nil
      /\ docs' = IF Len(docs) < MaxDocs THEN Append(docs, ret) ELSE docs
  BY DEF StreamStore
<1>2. PICK lost \in Nat : lost = IF Len(docs) < MaxDocs THEN 0 ELSE Blocks(ret)
  BY Outside
<1>3. PICK n \in Int : /\ Heap(n, 0)
                       /\ \/ n = -lost /\ anchors' = anchors
                          \/ n = -lost - AnchorBlocks(anchors) /\ anchors' = <<>>
  <2>1. CASE anchors_clear(lost)
    BY <2>1, Outside DEF anchors_clear
  <2>2. CASE Heap(-lost, 0) /\ anchors' = anchors
    BY <2>2
  <2> QED BY <1>2, <2>1, <2>2 DEF StreamStore
<1>4. /\ Sane(ret') /\ FramesSane(stack') /\ TableSane(anchors')
      /\ AnchorBlocks(anchors') \in Nat
      /\ AnchorBlocks(anchors') <= AnchorBlocks(anchors) + n + lost
  <2>1. CASE n = -lost /\ anchors' = anchors
    <3>1. PICK a \in Nat : a = AnchorBlocks(anchors)
      BY Outside
    <3>2. a <= a + n + lost
      BY <2>1
    <3> QED BY <1>1, <2>1, <3>1, <3>2, NilSane, Outside
  <2>2. CASE n = -lost - AnchorBlocks(anchors) /\ anchors' = <<>>
    <3>1. PICK a \in Nat : a = AnchorBlocks(anchors)
      BY Outside
    <3>2. 0 <= a + n + lost
      BY <2>2, <3>1
    <3> QED BY <1>1, <2>2, <3>1, <3>2, NilSane, Outside, NothingHeld
  <2> QED BY <1>3, <2>1, <2>2
<1>5. /\ DocsSane(docs') /\ DocBlocks(docs') \in Nat
      /\ DocBlocks(docs') + lost = DocBlocks(docs) + Blocks(ret)
  <2>1. CASE Len(docs) < MaxDocs
    <3>1. PICK l : l = docs' /\ l = Append(docs, ret)
      BY <1>1, <2>1
    <3>2. DocsSane(l) /\ DocBlocks(l) = DocBlocks(docs) + Blocks(ret)
      BY <3>1, DocAppend, Outside
    <3> QED BY <1>2, <2>1, <3>1, <3>2, Outside
  <2>2. CASE ~(Len(docs) < MaxDocs)
    BY <1>1, <1>2, <2>2, Outside
  <2> QED BY <2>1, <2>2
<1>6. PICK m \in Int : m = 0
  OBVIOUS
<1>7. Heap(n, m)
  BY <1>3, <1>6
<1>8. Held' <= Held + n
  <2>1. PICK a, a1, c, c1, q \in Nat :
               /\ a = AnchorBlocks(anchors) /\ a1 = AnchorBlocks(anchors')
               /\ c = DocBlocks(docs) /\ c1 = DocBlocks(docs') /\ q = Blocks(ret)
    BY <1>4, <1>5, Outside
  <2>2. Held = 0 + q + a + c
    BY <1>1, <2>1, Outside
  <2>3. Held' = 0 + 0 + a1 + c1
    BY <1>1, <1>4, <1>5, <2>1, HeldNext, Outside
  <2>4. a1 <= a + n + lost /\ c1 + lost = c + q
    BY <1>4, <1>5, <2>1
  <2> QED BY <2>2, <2>3, <2>4
<1>9. HeldByLibrary' <= HeldByLibrary + m
  <2>1. Arrays("parsing", mode) = Arrays("loop", mode)
    BY DEF Arrays
  <2>2. PICK u, u1, r \in Nat : /\ u = Unread(tokens, pos) /\ u1 = Unread(tokens, pos')
                                /\ u1 <= u /\ r = Arrays("loop", mode)
    BY <1>1, LibraryNext, Outside
  <2>3. HeldByLibrary' = u1 + r /\ HeldByLibrary = u + r
    BY <1>1, <2>1, <2>2, LibraryNext, Outside
  <2> QED BY <1>6, <2>2, <2>3
<1> QED BY <1>1, <1>4, <1>5, <1>7, <1>8, <1>9, DriverHeap

LEMMA StreamEndHeap == IInv /\ HeapInv /\ IInv' /\ StreamEnd => HeapInv'
<1> SUFFICES ASSUME IInv, HeapInv, IInv', StreamEnd PROVE HeapInv'
  OBVIOUS
<1>1. /\ pc \in {"loop", "parsing"} /\ pc' = "done" /\ stack = <<>> /\ tokens' = tokens
      /\ alloc' = alloc /\ pos' \in {pos, pos + 1} /\ mode' = mode /\ stack' = stack
      /\ ret' = Nil /\ anchors' = <<>> /\ docs' = docs
  BY AfterMarkerNear DEF StreamEnd, IInv
<1>2. Len(anchors) \in Nat /\ Len(anchors) <= AnchorBlocks(anchors)
  BY TableAtLeast, Outside DEF TableSane
<1>3. PICK n \in Int : /\ Heap(n, -2)
                       /\ \/ /\ pc = "loop"
                             /\ n \in {-AnchorBlocks(anchors), -Len(anchors)}
                          \/ /\ pc = "parsing"
                             /\ n = -Blocks(ret) - Len(anchors)
  <2>1. CASE /\ pc = "loop"
             /\ Heap(-(IF Cur.type = "DOC_START" THEN AnchorBlocks(anchors)
                                                 ELSE Len(anchors)), -2)
    BY <2>1, <1>2, Outside
  <2>2. CASE pc = "parsing" /\ Heap(-Blocks(ret) - Len(anchors), -2)
    BY <2>2, <1>2, Outside
  <2> QED BY <2>1, <2>2 DEF StreamEnd
<1>4. Sane(ret') /\ FramesSane(stack') /\ TableSane(anchors') /\ DocsSane(docs')
  BY <1>1, NilSane, NothingHeld, Outside
<1>5. PICK m \in Int : m = -2
  OBVIOUS
<1>6. Heap(n, m)
  BY <1>3, <1>5
<1>7. Held' <= Held + n
  <2>1. PICK a, c, q, k \in Nat : /\ a = AnchorBlocks(anchors) /\ c = DocBlocks(docs)
                                  /\ q = Blocks(ret) /\ k = Len(anchors) /\ k <= a
    BY <1>2, Outside
  <2>2. Held' = 0 + 0 + 0 + c
    BY <1>1, <1>4, <2>1, HeldNext, NothingHeld, Outside
  <2>3. CASE pc = "loop" /\ n \in {-AnchorBlocks(anchors), -Len(anchors)}
    <3>1. Held = 0 + 0 + a + c
      BY <1>1, <2>1, <2>3, Outside
    <3>2. 0 <= a + n
      BY <2>1, <2>3
    <3> QED BY <2>2, <3>1, <3>2
  <2>4. CASE pc = "parsing" /\ n = -Blocks(ret) - Len(anchors)
    <3>1. Held = 0 + q + a + c
      BY <1>1, <2>1, <2>4, Outside
    <3>2. 0 <= q + a + n
      <4>1. n = -q - k /\ k <= a
        BY <2>1, <2>4
      <4> QED BY <4>1
    <3> QED BY <2>2, <3>1, <3>2
  <2> QED BY <1>3, <2>3, <2>4
<1>8. HeldByLibrary' <= HeldByLibrary + m
  <2>1. PICK r \in Nat : /\ r = Arrays("done", mode)
                         /\ Arrays("loop", mode) = r + 2 /\ Arrays("parsing", mode) = r + 2
    BY DEF Arrays
  <2>2. PICK u, u1 \in Nat : /\ u = Unread(tokens, pos) /\ u1 = Unread(tokens, pos')
                             /\ u1 <= u
    BY <1>1, LibraryNext, Outside
  <2>3. HeldByLibrary' = u1 + r
    BY <1>1, <2>1, <2>2, LibraryNext
  <2>4. HeldByLibrary = u + (r + 2)
    BY <1>1, <2>1, <2>2, Outside
  <2> QED BY <1>5, <2>2, <2>3, <2>4
<1> QED BY <1>1, <1>4, <1>6, <1>7, <1>8, DriverHeap

LEMMA DestroyHeap == IInv /\ HeapInv /\ IInv' /\ Destroy => HeapInv'
<1> SUFFICES ASSUME IInv, HeapInv, IInv', Destroy PROVE HeapInv'
  OBVIOUS
<1>1. /\ pc = "done" /\ pc' = "end" /\ tokens' = tokens /\ alloc' = alloc
      /\ pos' = pos /\ pos' \in {pos, pos + 1} /\ mode' = mode /\ stack' = stack
      /\ ret' = ret /\ anchors' = anchors /\ docs' = <<>>
      /\ Heap(-DocBlocks(docs), IF mode = "stream" THEN -1 ELSE 0)
  BY DEF Destroy
<1>2. PICK n, m \in Int : /\ n = -DocBlocks(docs)
                          /\ m = (IF mode = "stream" THEN -1 ELSE 0)
  BY Outside
<1>3. Heap(n, m)
  BY <1>1, <1>2
<1>4. Sane(ret') /\ FramesSane(stack') /\ TableSane(anchors') /\ DocsSane(docs')
  BY <1>1, NothingHeld, Outside
<1>5. Held' <= Held + n
  <2>1. PICK s, a, c \in Nat : /\ s = StackBlocks(stack) /\ a = AnchorBlocks(anchors)
                               /\ c = DocBlocks(docs)
    BY Outside
  <2>2. Held = s + 0 + a + c
    BY <1>1, <2>1, Outside
  <2>3. Held' = s + 0 + a + 0
    BY <1>1, <1>4, <2>1, HeldNext, NothingHeld
  <2> QED BY <1>2, <2>1, <2>2, <2>3
<1>6. HeldByLibrary' <= HeldByLibrary + m
  <2>1. PICK r \in Nat : /\ r = Arrays("end", mode)
                         /\ Arrays("done", mode) + m = r
    BY <1>2 DEF Arrays
  <2>2. PICK u, d \in Nat : u = Unread(tokens, pos) /\ d = Arrays("done", mode)
    BY Outside DEF Arrays
  <2>3. HeldByLibrary' = u + r /\ HeldByLibrary = u + d
    BY <1>1, <2>1, <2>2, LibraryNext, Outside
  <2> QED BY <1>2, <2>1, <2>2, <2>3
<1> QED BY <1>1, <1>3, <1>4, <1>5, <1>6, DriverHeap

LEMMA InitHeap == Init => HeapInv
<1> SUFFICES ASSUME Init PROVE HeapInv
  OBVIOUS
<1>1. IInv
  BY InitInv
<1>2. /\ pc = "call" /\ stack = <<>> /\ ret = Nil /\ anchors = <<>> /\ docs = <<>>
      /\ tokens \in Inputs /\ pos \in 1..Len(tokens)
      /\ \A x \in DOMAIN live : live[x] = 0
  BY <1>1 DEF Init, IInv
<1>3. Sane(ret) /\ FramesSane(stack) /\ TableSane(anchors) /\ DocsSane(docs)
  BY <1>2, NilSane, NothingHeld
<1>4. live \in [Sides -> Int]
  <2>1. live = [a \in {"malloc", "custom"} |-> 0]
    BY DEF Init
  <2>2. \A f : f = [a \in {"malloc", "custom"} |-> 0] => f \in [Sides -> Int]
    BY DEF Sides
  <2> QED BY <2>1, <2>2
<1>5. PICK s, a, d \in Nat : /\ s = StackBlocks(stack) /\ a = AnchorBlocks(anchors)
                             /\ d = DocBlocks(docs) /\ s <= 0 /\ a <= 0 /\ d <= 0
  BY <1>2, NothingHeld
<1>6. Held = s + 0 + a + d
  BY <1>2, <1>5, HeldIs
<1>7. Held \in Nat /\ Held <= 0
  BY <1>5, <1>6
<1>8. HeldByLibrary \in Nat /\ HeldByLibrary <= 0
  <2>1. PICK r \in Nat : r = Arrays(pc, mode) /\ r <= 0
    BY <1>2 DEF Arrays
  <2>2. HeldByLibrary = 0 + r
    BY <1>2, <2>1, LibraryIs
  <2> QED BY <2>1, <2>2
<1>9. ASSUME NEW x \in DOMAIN live PROVE live[x] >= Reachable(x)
  <2>1. PICK h, b \in Nat : h = Held /\ b = HeldByLibrary /\ h <= 0 /\ b <= 0
    BY <1>7, <1>8
  <2>2. Reachable(x) = (IF x = alloc THEN h ELSE 0) + (IF x = "malloc" THEN b ELSE 0)
    BY <2>1 DEF Reachable
  <2>3. Reachable(x) \in Int /\ Reachable(x) <= 0
    BY <2>1, <2>2
  <2> QED BY <1>2, <2>3
<1> QED BY <1>3, <1>4, <1>9 DEF HeapInv, NothingFreedTwice

LEMMA NextHeap == IInv /\ HeapInv /\ [Next]_vars => HeapInv'
<1> SUFFICES ASSUME IInv, HeapInv, [Next]_vars PROVE HeapInv'
  OBVIOUS
<1>1. IInv'
  BY NextInv
<1>2. CASE ParseNode
  BY <1>1, <1>2, NodePropsHeap, NodeAliasHeap, NodeNilHeap, NodeCollectionHeap,
     NodeScalarHeap, NodeEmptyHeap, NodeTailHeap, CrashHeap DEF ParseNode, TagCrash
<1>3. CASE Collections
  BY <1>1, <1>3, EnterHeap, PushElemHeap, PutPairHeap DEF Collections
<1>4. CASE FlowStyle
  BY <1>1, <1>4, FlowCommaHeap, FseqElemHeap, FmapNoKeyHeap, FmapKeyHeap, CrashHeap,
     EndsHeap DEF FlowStyle, FmapCrash
<1>5. CASE BlockStyle
  BY <1>1, <1>5, BseqElemHeap, EndsHeap, BmapNoKeyHeap, BmapBareKeyHeap,
     BmapKeyHeap DEF BlockStyle
<1>6. CASE Merge
  BY <1>1, <1>6, MergeStartHeap, MergePairHeap, MergeWalkHeap, MergeDoneHeap DEF Merge
<1>7. CASE Driver
  BY <1>1, <1>7, LexFailsHeap, ParseStartHeap, ParseEndHeap, StreamStartHeap,
     StreamDocHeap, StreamStoreHeap, StreamEndHeap, DestroyHeap DEF Driver
<1>8. CASE UNCHANGED vars
  <2>1. UNCHANGED <<tokens, pos, stack, ret, anchors, docs, pc, mode, alloc, live>>
    BY <1>8 DEF vars
  <2>2. Held' = Held /\ HeldByLibrary' = HeldByLibrary
    <3>1. RetHeld' = RetHeld
      BY <2>1 DEF RetHeld, Top
    <3>2. StackBlocks(stack)' = StackBlocks(stack) /\ AnchorBlocks(anchors)' = AnchorBlocks(anchors)
          /\ DocBlocks(docs)' = DocBlocks(docs) /\ Blocks(ret)' = Blocks(ret)
      BY <2>1
    <3>3. Held' = Held
      BY <3>1, <3>2 DEF Held
    <3>4. UnreadBuffers' = UnreadBuffers
      BY <2>1 DEF UnreadBuffers
    <3> QED BY <2>1, <3>3, <3>4 DEF HeldByLibrary
  <2> QED BY <2>1, <2>2 DEF HeapInv, NothingFreedTwice, Reachable, SameAllocator
<1> QED BY <1>2, <1>3, <1>4, <1>5, <1>6, <1>7, <1>8 DEF Next, Stop

(* Nothing is freed twice: whatever the tokens, the anchors, the merges    *)
(* and the failures, the blocks the parser and its drivers still own never *)
(* outnumber those in use, so no yml_value_free, yml_free, hm_free or      *)
(* da_free of YMLParser.c reaches a block that another owner still holds   *)
(* and will free, or that was freed before.                                *)
THEOREM NothingFreed == Spec => []NothingFreedTwice
<1>1. HeapInv => NothingFreedTwice
  BY DEF HeapInv
<1>2. Init => IInv /\ HeapInv
  BY InitInv, InitHeap
<1>3. IInv /\ HeapInv /\ [Next]_vars => (IInv /\ HeapInv)'
  BY NextInv, NextHeap
<1>4. Spec => [](IInv /\ HeapInv)
  BY <1>2, <1>3, PTL DEF Spec
<1> QED BY <1>1, <1>4, PTL
=============================================================================
