-------------------------------- MODULE Facts --------------------------------
(***************************************************************************)
(* Facts about numbers and sequences that the proofs of several components *)
(* need.  Induction is stated with a set instead of a predicate: S is the  *)
(* set of the numbers the predicate holds of.                              *)
(***************************************************************************)
EXTENDS Integers, Sequences, FiniteSets, Totals, SequenceTheorems,
        FiniteSetTheorems, WellFoundedInduction, TLAPS

(* A set of naturals that is not empty has a least element. *)
LEMMA LeastNat ==
  ASSUME NEW T \in SUBSET Nat, T # {}
  PROVE  \E x \in T : \A y \in T : x <= y
<1> DEFINE R == {e \in Nat \X Nat : e[1] < e[2]}
<1>1. IsWellFoundedOn(R, Nat)
  BY NatLessThanWellFounded, Zenon DEF OpToRel
<1>2. \A x, y \in Nat : x < y => <<x, y>> \in R
  OBVIOUS
<1> HIDE DEF R
<1>3. \E x \in T : \A y \in T : ~ (<<y, x>> \in R)
  BY <1>1, WFMin
<1>4. PICK x \in T : \A y \in T : ~ (<<y, x>> \in R)
  BY <1>3
<1>5. ASSUME NEW y \in T PROVE x <= y
  <2>1. x \in Nat /\ y \in Nat
    OBVIOUS
  <2>2. ~ (y < x)
    BY <2>1, <1>2, <1>4
  <2> QED BY <2>1, <2>2
<1> QED BY <1>5

(* A set of naturals with 0 and all successors has them all. *)
LEMMA SetInduction ==
  ASSUME NEW S \in SUBSET Nat, 0 \in S, \A n \in S : n + 1 \in S
  PROVE  S = Nat
<1>1. SUFFICES ASSUME S # Nat PROVE FALSE
  OBVIOUS
<1> DEFINE T == Nat \ S
<1>2. PICK x \in T : \A y \in T : x <= y
  <2>1. T # {} /\ T \in SUBSET Nat
    BY <1>1
  <2> QED BY <2>1, LeastNat
<1>3. x - 1 \in Nat /\ x - 1 \notin T
  BY <1>2
<1> QED BY <1>3

(* An integer interval is finite and has as many elements as it should. *)
LEMMA SizeOfTable ==
  ASSUME NEW n \in Nat
  PROVE  IsFiniteSet(0..n - 1) /\ Cardinality(0..n - 1) = n
BY FS_Interval

(***************************************************************************)
(* Going round in a circle of n places: d places on from h, and how far it *)
(* is from h on to i.  Each undoes the other.                              *)
(***************************************************************************)
LEMMA CircleOn ==
  ASSUME NEW n \in Nat, NEW h \in 0..n - 1, NEW d \in 0..n - 1
  PROVE  (h + d) % n = IF h + d < n THEN h + d ELSE h + d - n
<1>1. CASE h + d < n
  BY <1>1
<1>2. CASE h + d >= n
  <2>1. h + d - n \in 0..n - 1
    BY <1>2
  <2> QED BY <1>2, <2>1
<1> QED BY <1>1, <1>2

LEMMA CircleFar ==
  ASSUME NEW n \in Nat, NEW h \in 0..n - 1, NEW i \in 0..n - 1
  PROVE  (i - h) % n = IF i >= h THEN i - h ELSE i - h + n
<1>1. CASE i >= h
  BY <1>1
<1>2. CASE i < h
  BY <1>2
<1> QED BY <1>1, <1>2

LEMMA CircleRound ==
  ASSUME NEW n \in Nat, NEW h \in 0..n - 1
  PROVE  /\ \A d \in 0..n - 1 : /\ (h + d) % n \in 0..n - 1
                                /\ (((h + d) % n) - h) % n = d
         /\ \A i \in 0..n - 1 : /\ (i - h) % n \in 0..n - 1
                                /\ (h + ((i - h) % n)) % n = i
<1>1. ASSUME NEW d \in 0..n - 1
      PROVE  (h + d) % n \in 0..n - 1 /\ (((h + d) % n) - h) % n = d
  <2>1. (h + d) % n = IF h + d < n THEN h + d ELSE h + d - n
    BY CircleOn
  <2>2. (h + d) % n \in 0..n - 1
    BY <2>1
  <2>3. (((h + d) % n) - h) % n = IF (h + d) % n >= h THEN ((h + d) % n) - h ELSE ((h + d) % n) - h + n
    BY <2>2, CircleFar
  <2> QED BY <2>1, <2>2, <2>3
<1>2. ASSUME NEW i \in 0..n - 1
      PROVE  (i - h) % n \in 0..n - 1 /\ (h + ((i - h) % n)) % n = i
  <2>1. (i - h) % n = IF i >= h THEN i - h ELSE i - h + n
    BY CircleFar
  <2>2. (i - h) % n \in 0..n - 1
    BY <2>1
  <2>3. (h + ((i - h) % n)) % n = IF h + ((i - h) % n) < n THEN h + ((i - h) % n)
                                  ELSE h + ((i - h) % n) - n
    BY <2>2, CircleOn
  <2> QED BY <2>1, <2>2, <2>3
<1> QED BY <1>1, <1>2

(* The place after the one that is d on is the one that is d + 1 on. *)
LEMMA CircleNext ==
  ASSUME NEW n \in Nat, NEW h \in 0..n - 1, NEW i \in 0..n - 1
  PROVE  /\ (i + 1) % n \in 0..n - 1
         /\ (((i + 1) % n) - h) % n = IF (i - h) % n = n - 1 THEN 0 ELSE ((i - h) % n) + 1
<1>1. (i + 1) % n = IF i + 1 < n THEN i + 1 ELSE 0
  <2>1. CASE i + 1 < n
    BY <2>1
  <2>2. CASE i + 1 = n
    BY <2>2
  <2> QED BY <2>1, <2>2
<1>2. (i + 1) % n \in 0..n - 1
  BY <1>1
<1>3. /\ (i - h) % n = IF i >= h THEN i - h ELSE i - h + n
      /\ (((i + 1) % n) - h) % n = IF (i + 1) % n >= h THEN ((i + 1) % n) - h ELSE ((i + 1) % n) - h + n
  BY <1>2, CircleFar
<1> QED BY <1>1, <1>2, <1>3

(***************************************************************************)
(* Sequences whose elements have no type of their own.                     *)
(***************************************************************************)
IsSeq(s) == s \in Seq({s[i] : i \in DOMAIN s})

(* A sequence over any set is one. *)
LEMMA SeqIntro == ASSUME NEW G, NEW t \in Seq(G) PROVE IsSeq(t)
<1> DEFINE H == {t[i] : i \in DOMAIN t}
<1>1. Len(t) \in Nat /\ t \in [1..Len(t) -> G]  OBVIOUS
<1>2. t \in [1..Len(t) -> H]  BY <1>1
<1>3. t \in Seq(H)  BY <1>1, <1>2
<1> QED BY <1>3 DEF IsSeq

LEMMA SeqElements ==
  ASSUME NEW G, NEW t \in Seq(G)
  PROVE  Len(t) \in Nat /\ DOMAIN t = 1..Len(t) /\ \A i \in 1..Len(t) : t[i] \in G
OBVIOUS

(* Its domain, and what SetTop, Call and Return do to it. *)
LEMMA SeqDomain ==
  ASSUME NEW s, IsSeq(s)
  PROVE  /\ Len(s) \in Nat
         /\ DOMAIN s = 1..Len(s)
         /\ s # <<>> => Len(s) > 0
BY DEF IsSeq

LEMMA SeqSetTop ==
  ASSUME NEW s, IsSeq(s), s # <<>>, NEW f
  PROVE  LET t == [s EXCEPT ![Len(s)] = f]
         IN /\ IsSeq(t)
            /\ Len(t) = Len(s)
            /\ t # <<>>
            /\ \A i \in 1..Len(s) - 1 : t[i] = s[i]
            /\ t[Len(s)] = f
<1> DEFINE G == {s[i] : i \in DOMAIN s} \cup {f}
           t == [s EXCEPT ![Len(s)] = f]
<1>1. s \in Seq(G)  BY DEF IsSeq
<1>2. t \in Seq(G) /\ Len(t) = Len(s)  BY <1>1
<1>3. Len(s) \in 1..Len(s)  BY <1>1
<1>4. /\ \A i \in 1..Len(s) - 1 : t[i] = s[i]
      /\ t[Len(s)] = f
      /\ t # <<>>
  BY <1>1, <1>2, <1>3
<1>5. IsSeq(t)  BY <1>2, SeqIntro
<1> QED BY <1>2, <1>4, <1>5

LEMMA SeqAppend ==
  ASSUME NEW s, IsSeq(s), NEW f
  PROVE  LET t == Append(s, f)
         IN /\ IsSeq(t)
            /\ Len(t) = Len(s) + 1
            /\ \A i \in 1..Len(s) : t[i] = s[i]
            /\ t[Len(s) + 1] = f
<1> DEFINE G == {s[i] : i \in DOMAIN s} \cup {f}
           t == Append(s, f)
<1>1. s \in Seq(G)  BY DEF IsSeq
<1>2. t \in Seq(G) /\ Len(t) = Len(s) + 1  BY <1>1
<1>3. /\ \A i \in 1..Len(s) : t[i] = s[i]
      /\ t[Len(s) + 1] = f
  BY <1>1
<1>4. IsSeq(t)  BY <1>2, SeqIntro
<1> QED BY <1>2, <1>3, <1>4

LEMMA SeqReturn ==
  ASSUME NEW s, IsSeq(s), s # <<>>
  PROVE  LET t == SubSeq(s, 1, Len(s) - 1)
         IN /\ IsSeq(t)
            /\ Len(t) = Len(s) - 1
            /\ \A i \in 1..Len(s) - 1 : t[i] = s[i]
<1> DEFINE G == {s[i] : i \in DOMAIN s}
           t == SubSeq(s, 1, Len(s) - 1)
<1>1. s \in Seq(G)  BY DEF IsSeq
<1>2. Len(s) \in Nat /\ Len(s) > 0  BY <1>1
<1>3. \A i \in 1..Len(s) - 1 : s[i] \in G  BY <1>1, <1>2
<1> HIDE DEF G
<1>4. t \in Seq(G) /\ Len(t) = Len(s) - 1
  <2>1. 1 \in Int /\ Len(s) - 1 \in Int  BY <1>2
  <2>2. t \in Seq(G)  BY <2>1, <1>3, SubSeqProperties
  <2>3. Len(t) = IF 1 <= Len(s) - 1 THEN Len(s) - 1 - 1 + 1 ELSE 0
    BY <2>1, <1>3, SubSeqProperties
  <2>4. CASE Len(s) = 1  BY <2>2, <2>3, <2>4
  <2>5. CASE Len(s) > 1
    <3>1. 1 <= Len(s) - 1 /\ Len(s) - 1 - 1 + 1 = Len(s) - 1  BY <2>5, <1>2
    <3> QED BY <2>2, <2>3, <3>1
  <2>6. \A k \in Nat : k > 0 => k = 1 \/ k > 1  OBVIOUS
  <2>7. Len(s) = 1 \/ Len(s) > 1  BY <1>2, <2>6
  <2> QED BY <2>4, <2>5, <2>7, Zenon
<1>5. \A i \in 1..Len(s) - 1 : t[i] = s[i]  BY <1>1, <1>2
<1>6. IsSeq(t)  BY <1>4, SeqIntro
<1> QED BY <1>4, <1>5, <1>6

(* One sequence behind another, and one of n equal parts. *)
LEMMA SeqConcat ==
  ASSUME NEW s, IsSeq(s), NEW r, IsSeq(r)
  PROVE  /\ IsSeq(s \o r)
         /\ Len(s \o r) = Len(s) + Len(r)
<1> DEFINE G == {s[i] : i \in DOMAIN s} \cup {r[i] : i \in DOMAIN r}
<1>1. s \in Seq(G) /\ r \in Seq(G)  BY DEF IsSeq
<1>2. s \o r \in Seq(G) /\ Len(s \o r) = Len(s) + Len(r)  BY <1>1
<1> QED BY <1>2, SeqIntro

LEMMA SeqFunction ==
  ASSUME NEW n \in Nat, NEW s, DOMAIN s = 1..n, s = [i \in 1..n |-> s[i]]
  PROVE  IsSeq(s) /\ Len(s) = n
<1> DEFINE G == {s[i] : i \in DOMAIN s}
<1>1. s \in [1..n -> G]  OBVIOUS
<1>2. s \in Seq(G)  BY <1>1
<1>3. Len(s) = n  BY <1>1
<1> QED BY <1>2, <1>3, SeqIntro

LEMMA EmptyIsSeq == IsSeq(<<>>)
BY DEF IsSeq

(***************************************************************************)
(* Sums.  s[i] is the sum of the first i numbers of w.                     *)
(***************************************************************************)
Numbers(w) == Len(w) \in Nat /\ \A i \in 1..Len(w) : w[i] \in Int
Sums(w, s) == /\ s \in [0..Len(w) -> Int]
              /\ s[0] = 0
              /\ \A i \in 1..Len(w) : s[i] = s[i - 1] + w[i]

LEMMA TotalIs ==
  ASSUME NEW w, Numbers(w), NEW s, Sums(w, s)
  PROVE  Total(w) = s[Len(w)]
<1> DEFINE n == Len(w)
           F == CHOOSE h : h = [i \in 0..n |-> IF i = 0 THEN 0 ELSE h[i - 1] + w[i]]
<1>1. n \in Nat
  BY DEF Numbers
<1>2. s = [i \in 0..n |-> IF i = 0 THEN 0 ELSE s[i - 1] + w[i]]
  <2>1. s = [i \in 0..n |-> s[i]]
    BY DEF Sums
  <2>2. \A i \in 0..n : s[i] = IF i = 0 THEN 0 ELSE s[i - 1] + w[i]
    BY <1>1 DEF Sums
  <2> HIDE DEF n
  <2> QED BY <2>1, <2>2
<1>3. F = [i \in 0..n |-> IF i = 0 THEN 0 ELSE F[i - 1] + w[i]]
  BY <1>2
<1>4. Total(w) = F[n]
  BY DEF Total
<1> HIDE DEF F
<1> DEFINE Same(k) == k \in 0..n => F[k] = s[k]
           S == {k \in Nat : Same(k)}
<1>5. Same(0)
  BY <1>1, <1>3 DEF Sums
<1>6. ASSUME NEW k \in Nat, Same(k) PROVE Same(k + 1)
  <2> SUFFICES ASSUME k + 1 \in 0..n PROVE F[k + 1] = s[k + 1]
    OBVIOUS
  <2>1. PICK i \in 1..n : i = k + 1 /\ i - 1 = k /\ i # 0 /\ i \in 0..n
    BY <1>1
  <2>2. k \in 0..n /\ F[k] = s[k]
    BY <1>1, <1>6
  <2>3. F[i] = F[i - 1] + w[i]
    BY <1>3, <2>1
  <2>4. s[i] = s[i - 1] + w[i]
    BY <2>1 DEF Sums
  <2> QED BY <2>1, <2>2, <2>3, <2>4
<1>7. Same(n)
  <2> HIDE DEF Same
  <2>1. S \in SUBSET Nat /\ 0 \in S /\ \A k \in S : k + 1 \in S
    BY <1>5, <1>6
  <2>2. S = Nat
    <3> HIDE DEF S
    <3> QED BY <2>1, SetInduction
  <2> QED BY <1>1, <2>2
<1> QED BY <1>1, <1>4, <1>7

LEMMA SumsExist ==
  ASSUME NEW w, Numbers(w)
  PROVE  \E s : Sums(w, s) /\ Total(w) = s[Len(w)]
<1> DEFINE n == Len(w)
           Upto(m) == \E s \in [0..n -> Int] :
                        s[0] = 0 /\ \A i \in 1..n : i <= m => s[i] = s[i - 1] + w[i]
           S == {m \in Nat : Upto(m)}
<1>1. n \in Nat
  BY DEF Numbers
<1>2. Upto(0)
  <2>1. [i \in 0..n |-> 0] \in [0..n -> Int] /\ 0 \in 0..n
    BY <1>1
  <2>2. \A i \in 1..n : ~ (i <= 0)
    BY <1>1
  <2> HIDE DEF n
  <2> QED BY <2>1, <2>2
<1>3. ASSUME NEW m \in Nat, Upto(m) PROVE Upto(m + 1)
  <2>1. PICK s \in [0..n -> Int] :
               s[0] = 0 /\ \A i \in 1..n : i <= m => s[i] = s[i - 1] + w[i]
    BY <1>3
  <2>2. CASE m + 1 \in 1..n
    <3> DEFINE t == [s EXCEPT ![m + 1] = s[m] + w[m + 1]]
    <3>1. m \in 0..n /\ m + 1 \in 0..n /\ s[m] \in Int /\ w[m + 1] \in Int
      BY <1>1, <2>1, <2>2 DEF Numbers
    <3>2. t \in [0..n -> Int] /\ \A i \in 0..n : t[i] = IF i = m + 1 THEN s[m] + w[m + 1] ELSE s[i]
      BY <3>1
    <3> HIDE DEF t, n
    <3>3. t[0] = 0
      BY <1>1, <2>1, <3>2
    <3>4. ASSUME NEW i \in 1..n, i <= m + 1 PROVE t[i] = t[i - 1] + w[i]
      <4>1. i \in 0..n /\ i - 1 \in 0..n /\ i - 1 # m + 1
        BY <1>1, <3>4
      <4>2. CASE i = m + 1
        BY <3>1, <3>2, <4>1, <4>2
      <4>3. CASE i # m + 1
        BY <2>1, <3>2, <3>4, <4>1, <4>3
      <4> QED BY <4>2, <4>3
    <3> QED BY <3>2, <3>3, <3>4
  <2>3. CASE m + 1 \notin 1..n
    <3>1. \A i \in 1..n : i <= m + 1 => i <= m
      BY <1>1, <2>3
    <3> QED BY <2>1, <3>1
  <2> QED BY <2>2, <2>3
<1>4. Upto(n)
  <2> HIDE DEF Upto
  <2>1. S \in SUBSET Nat /\ 0 \in S /\ \A m \in S : m + 1 \in S
    BY <1>2, <1>3
  <2>2. S = Nat
    <3> HIDE DEF S
    <3> QED BY <2>1, SetInduction
  <2> QED BY <1>1, <2>2
<1>5. PICK s : Sums(w, s)
  BY <1>1, <1>4 DEF Sums
<1> QED BY <1>5, TotalIs

(* No number is below the next step of b, so the sum is not below its end. *)
LEMMA TotalAbove ==
  ASSUME NEW w, Numbers(w), NEW b \in [0..Len(w) -> Int], b[0] = 0,
         \A i \in 1..Len(w) : b[i] <= b[i - 1] + w[i]
  PROVE  Total(w) \in Int /\ b[Len(w)] <= Total(w)
<1> DEFINE n == Len(w)
<1>1. n \in Nat
  BY DEF Numbers
<1>2. PICK s : Sums(w, s) /\ Total(w) = s[n]
  BY SumsExist
<1> DEFINE Below(k) == k \in 0..n => b[k] <= s[k]
           S == {k \in Nat : Below(k)}
<1>3. Below(0)
  BY <1>1, <1>2 DEF Sums
<1>4. ASSUME NEW k \in Nat, Below(k) PROVE Below(k + 1)
  <2> SUFFICES ASSUME k + 1 \in 0..n PROVE b[k + 1] <= s[k + 1]
    OBVIOUS
  <2>1. PICK i \in 1..n : i = k + 1 /\ i - 1 = k /\ i \in 0..n /\ k \in 0..n
    BY <1>1
  <2>2. s[i] = s[i - 1] + w[i] /\ s[i] \in Int /\ s[k] \in Int
    BY <1>2, <2>1 DEF Sums
  <2>3. b[i] <= b[i - 1] + w[i] /\ b[i] \in Int /\ b[k] \in Int /\ w[i] \in Int
    BY <2>1 DEF Numbers
  <2>4. b[k] <= s[k]
    BY <1>4, <2>1
  <2> HIDE DEF n
  <2> QED BY <2>1, <2>2, <2>3, <2>4
<1>5. Below(n)
  <2> HIDE DEF Below
  <2>1. S \in SUBSET Nat /\ 0 \in S /\ \A k \in S : k + 1 \in S
    BY <1>3, <1>4
  <2>2. S = Nat
    <3> HIDE DEF S
    <3> QED BY <2>1, SetInduction
  <2> QED BY <1>1, <2>2
<1>6. n \in 0..n /\ s[n] \in Int
  BY <1>1, <1>2 DEF Sums
<1> QED BY <1>2, <1>5, <1>6

Sizes(w) == Len(w) \in Nat /\ \A i \in 1..Len(w) : w[i] \in Nat

LEMMA TotalNat == ASSUME NEW w, Sizes(w) PROVE Total(w) \in Nat
<1> DEFINE b == [i \in 0..Len(w) |-> 0]
<1>1. Len(w) \in Nat /\ Len(w) \in 0..Len(w) /\ 0 \in 0..Len(w) /\ Numbers(w)
  BY DEF Sizes, Numbers
<1>2. \A i \in 1..Len(w) : i - 1 \in 0..Len(w) /\ i \in 0..Len(w) /\ w[i] \in Nat
  BY <1>1 DEF Sizes
<1>3. b \in [0..Len(w) -> Int] /\ \A i \in 0..Len(w) : b[i] = 0
  OBVIOUS
<1> HIDE DEF b
<1>4. \A i \in 1..Len(w) : b[i] <= b[i - 1] + w[i]
  BY <1>2, <1>3
<1>5. b[0] = 0 /\ b[Len(w)] = 0
  BY <1>1, <1>3
<1> QED BY <1>1, <1>3, <1>4, <1>5, TotalAbove

LEMMA TotalAtLeast ==
  ASSUME NEW w, Sizes(w), \A i \in 1..Len(w) : w[i] >= 1 PROVE Total(w) >= Len(w)
<1> DEFINE b == [i \in 0..Len(w) |-> i]
<1>1. Len(w) \in Nat /\ Len(w) \in 0..Len(w) /\ 0 \in 0..Len(w) /\ Numbers(w)
  BY DEF Sizes, Numbers
<1>2. \A i \in 1..Len(w) : i - 1 \in 0..Len(w) /\ i \in 0..Len(w) /\ w[i] \in Nat
  BY <1>1 DEF Sizes
<1>3. b \in [0..Len(w) -> Int] /\ \A i \in 0..Len(w) : b[i] = i
  BY <1>1
<1> HIDE DEF b
<1>4. \A i \in 1..Len(w) : b[i] <= b[i - 1] + w[i]
  BY <1>2, <1>3
<1>5. b[0] = 0 /\ b[Len(w)] = Len(w)
  BY <1>1, <1>3
<1>6. Total(w) \in Int /\ b[Len(w)] <= Total(w)
  BY <1>1, <1>3, <1>4, <1>5, TotalAbove
<1> QED BY <1>1, <1>5, <1>6

LEMMA TotalEmpty == ASSUME NEW w, Len(w) = 0 PROVE Total(w) = 0
<1>1. Numbers(w)
  BY DEF Numbers
<1>2. PICK s : Sums(w, s) /\ Total(w) = s[Len(w)]
  BY <1>1, SumsExist
<1> QED BY <1>2 DEF Sums

(* One number more. *)
LEMMA TotalAppend ==
  ASSUME NEW w, Numbers(w), NEW v, Numbers(v), Len(v) = Len(w) + 1,
         \A i \in 1..Len(w) : v[i] = w[i]
  PROVE  Total(v) = Total(w) + v[Len(v)]
<1> DEFINE n == Len(w)
<1>1. n \in Nat /\ n + 1 \in 1..Len(v) /\ v[n + 1] \in Int /\ Len(v) = n + 1
  BY DEF Numbers
<1>2. PICK s : Sums(w, s) /\ Total(w) = s[n]
  BY SumsExist
<1> DEFINE t == [i \in 0..n + 1 |-> IF i = n + 1 THEN s[n] + v[n + 1] ELSE s[i]]
<1>3. s \in [0..n -> Int] /\ s[0] = 0 /\ \A i \in 1..n : s[i] = s[i - 1] + w[i]
  BY <1>2 DEF Sums
<1>4. /\ t \in [0..n + 1 -> Int]
      /\ t[n + 1] = s[n] + v[n + 1]
      /\ \A i \in 0..n : t[i] = s[i]
  BY <1>1, <1>3
<1> HIDE DEF t
<1>5. ASSUME NEW i \in 1..n + 1 PROVE t[i] = t[i - 1] + v[i]
  <2>1. CASE i = n + 1
    <3>1. i - 1 = n /\ n \in 0..n
      BY <1>1, <2>1
    <3> QED BY <1>4, <2>1, <3>1
  <2>2. CASE i # n + 1
    <3>1. i \in 1..n /\ i - 1 \in 0..n /\ i \in 0..n
      BY <1>1, <2>2
    <3>2. v[i] = w[i] /\ s[i] = s[i - 1] + w[i]
      BY <1>3, <3>1
    <3> QED BY <1>4, <3>1, <3>2
  <2> QED BY <2>1, <2>2
<1>6. Sums(v, t)
  <2>1. 0 \in 0..n
    BY <1>1
  <2> HIDE DEF n
  <2> QED BY <1>1, <1>3, <1>4, <1>5, <2>1 DEF Sums
<1>7. Total(v) = t[Len(v)]
  BY <1>6, TotalIs
<1> QED BY <1>1, <1>2, <1>4, <1>7

(* Another number in one place. *)
LEMMA TotalReplace ==
  ASSUME NEW w, Numbers(w), NEW v, Numbers(v), Len(v) = Len(w),
         NEW k \in 1..Len(w), \A i \in 1..Len(w) : i # k => v[i] = w[i]
  PROVE  Total(v) = Total(w) - w[k] + v[k]
<1> DEFINE n == Len(w)
           t(s) == [i \in 0..n |-> IF i < k THEN s[i] ELSE s[i] - w[k] + v[k]]
<1>1. n \in Nat /\ k \in 1..n /\ w[k] \in Int /\ v[k] \in Int /\ Len(v) = n /\ k \in Nat
  BY DEF Numbers
<1>2. PICK s : Sums(w, s) /\ Total(w) = s[n]
  BY SumsExist
<1>3. s \in [0..n -> Int] /\ s[0] = 0 /\ \A i \in 1..n : s[i] = s[i - 1] + w[i]
  BY <1>2 DEF Sums
<1>4. /\ t(s) \in [0..n -> Int]
      /\ \A i \in 0..n : t(s)[i] = IF i < k THEN s[i] ELSE s[i] - w[k] + v[k]
  BY <1>1, <1>3
<1>5. PICK r : r = t(s)
  OBVIOUS
<1> HIDE DEF t
<1>6. ASSUME NEW i \in 1..n PROVE r[i] = r[i - 1] + v[i]
  <2>1. i \in 0..n /\ i - 1 \in 0..n /\ i \in Nat
    BY <1>1
  <2>2. s[i] = s[i - 1] + w[i] /\ s[i - 1] \in Int /\ w[i] \in Int /\ v[i] \in Int
    BY <1>1, <1>3, <2>1 DEF Numbers
  <2>3. /\ r[i] = IF i < k THEN s[i] ELSE s[i] - w[k] + v[k]
        /\ r[i - 1] = IF i - 1 < k THEN s[i - 1] ELSE s[i - 1] - w[k] + v[k]
    BY <1>4, <1>5, <2>1
  <2>4. CASE i = k
    BY <1>1, <2>1, <2>2, <2>3, <2>4
  <2>5. CASE i # k
    <3>1. v[i] = w[i]
      BY <2>5
    <3> HIDE DEF n
    <3>2. CASE i < k
      <4>1. i - 1 < k
        BY <1>1, <2>1, <3>2
      <4> QED BY <2>2, <2>3, <3>1, <3>2, <4>1
    <3>3. CASE ~(i < k)
      <4>1. ~(i - 1 < k)
        BY <1>1, <2>1, <2>5, <3>3
      <4> QED BY <1>1, <2>2, <2>3, <3>1, <3>3, <4>1
    <3> QED BY <3>2, <3>3
  <2> QED BY <2>4, <2>5
<1>7. Sums(v, r)
  <2>1. 0 \in 0..n /\ 0 < k
    BY <1>1
  <2> HIDE DEF n
  <2> QED BY <1>1, <1>3, <1>4, <1>5, <1>6, <2>1 DEF Sums
<1>8. Total(v) = r[Len(v)]
  BY <1>7, TotalIs
<1>9. n \in 0..n /\ ~(n < k)
  BY <1>1
<1> QED BY <1>1, <1>2, <1>4, <1>5, <1>8, <1>9

(* Each is at most the sum. *)
LEMMA TotalMember ==
  ASSUME NEW w, Sizes(w), NEW k \in 1..Len(w)
  PROVE  w[k] <= Total(w)
<1> DEFINE v == [i \in 1..Len(w) |-> IF i = k THEN 0 ELSE w[i]]
<1>1. Len(w) \in Nat /\ w[k] \in Nat /\ \A i \in 1..Len(w) : w[i] \in Nat
  BY DEF Sizes
<1>2. /\ v = [i \in 1..Len(w) |-> v[i]] /\ DOMAIN v = 1..Len(w)
      /\ \A i \in 1..Len(w) : v[i] = IF i = k THEN 0 ELSE w[i]
  OBVIOUS
<1> HIDE DEF v
<1>3. Len(v) = Len(w)
  BY <1>1, <1>2, SeqFunction
<1>4. Sizes(v) /\ Numbers(v) /\ Numbers(w)
  BY <1>1, <1>2, <1>3 DEF Sizes, Numbers
<1>5. Total(v) = Total(w) - w[k] + v[k]
  BY <1>2, <1>3, <1>4, TotalReplace
<1>6. Total(v) \in Nat /\ Total(w) \in Nat
  BY <1>4, TotalNat
<1>7. v[k] = 0
  BY <1>2
<1> QED BY <1>1, <1>5, <1>6, <1>7
=============================================================================
