----------------------------- MODULE LexerProofs -----------------------------
(***************************************************************************)
(* The lexer, proved for every set of texts and every first capacity of    *)
(* the array of tokens and of a block scalar's buffer: the cursor stays in *)
(* the text, the buffer has room, lines and columns are those of the text, *)
(* and an allocation that fails is reported, or was to make the array of   *)
(* tokens grow.                                                            *)
(***************************************************************************)
EXTENDS LexerProps, Facts

(* The least and the greatest element of a set of numbers. *)
LEMMA LeastOf ==
  ASSUME NEW S \in SUBSET Nat, S # {}
  PROVE  Min(S) \in S /\ \A y \in S : Min(S) <= y
<1>1. \E x \in S : \A y \in S : x <= y
  BY LeastNat
<1> QED BY <1>1 DEF Min

LEMMA GreatestOf ==
  ASSUME NEW n \in Nat, NEW S \in SUBSET 0..n, S # {}
  PROVE  Max(S) \in S /\ \A y \in S : y <= Max(S)
<1> DEFINE T == {x \in Nat : n - x \in S}
<1>1. PICK y \in S : TRUE
  OBVIOUS
<1>2. n - y \in T
  BY <1>1
<1>3. PICK x \in T : \A z \in T : x <= z
  BY <1>2, LeastNat
<1>4. n - x \in S
  BY <1>3
<1>5. ASSUME NEW z \in S PROVE z <= n - x
  <2>1. n - z \in T
    OBVIOUS
  <2> QED BY <1>3, <2>1
<1>6. \E m \in S : \A z \in S : m >= z
  BY <1>4, <1>5
<1> QED BY <1>6 DEF Max

(***************************************************************************)
(* A loop that never goes back ends at a place where it stays, and what    *)
(* holds at its start and is kept by each turn holds there.                *)
(***************************************************************************)
LEMMA EndsExist ==
  ASSUME NEW n \in Nat, NEW next \in [1..n -> 1..n], \A k \in 1..n : next[k] >= k
  PROVE  Ends(next) = [k \in 1..n |-> IF next[k] = k THEN k ELSE Ends(next)[next[k]]]
<1> DEFINE D == 1..n
           Right(e, k) == e[k] = IF next[k] = k THEN k ELSE e[next[k]]
           From(m) == \E e \in [D -> D] : \A k \in D : k > n - m => Right(e, k)
           T == {m \in Nat : m <= n => From(m)}
<1>1. From(0)
  <2>1. [k \in D |-> k] \in [D -> D] /\ \A k \in D : ~ (k > n - 0)
    OBVIOUS
  <2> QED BY <2>1
<1>2. ASSUME NEW m \in Nat, From(m), m + 1 <= n PROVE From(m + 1)
  <2>2. PICK e \in [D -> D] : \A k \in D : k > n - m => Right(e, k)
    BY <1>2
  <2>1. PICK h \in D : h = n - m
    BY <1>2
  <2> DEFINE u == [e EXCEPT ![h] = IF next[h] = h THEN h ELSE e[next[h]]]
  <2>3. /\ u \in [D -> D] /\ next[h] \in D /\ next[h] >= h
        /\ u[h] = (IF next[h] = h THEN h ELSE e[next[h]])
        /\ \A k \in D : k # h => u[k] = e[k]
    OBVIOUS
  <2> HIDE DEF u
  <2>4. ASSUME NEW k \in D, k > n - (m + 1) PROVE Right(u, k)
    <3>1. CASE k = h
      BY <2>3, <3>1
    <3>2. CASE k # h
      <4>1. k > h /\ k > n - m
        BY <2>1, <2>4, <3>2
      <4>2. next[k] \in D /\ next[k] # h
        BY <4>1
      <4>3. Right(e, k)
        BY <2>2, <4>1
      <4> QED BY <2>3, <3>2, <4>2, <4>3
    <3> QED BY <3>1, <3>2
  <2> QED BY <2>3, <2>4
<1>3. From(n)
  <2> HIDE DEF From
  <2>1. T \in SUBSET Nat /\ 0 \in T /\ \A m \in T : m + 1 \in T
    BY <1>1, <1>2
  <2>2. T = Nat
    <3> HIDE DEF T
    <3> QED BY <2>1, SetInduction
  <2> QED BY <2>2
<1>4. PICK e \in [D -> D] : \A k \in D : Right(e, k)
  <2>1. PICK e \in [D -> D] : \A k \in D : k > n - n => Right(e, k)
    BY <1>3
  <2>2. \A k \in D : k > n - n
    OBVIOUS
  <2>3. \A k \in D : Right(e, k)
    BY <2>1, <2>2
  <2> QED BY <2>3
<1>5. e = [k \in D |-> IF next[k] = k THEN k ELSE e[next[k]]]
  BY <1>4
<1>6. DOMAIN next = D
  OBVIOUS
<1> QED BY <1>5, <1>6 DEF Ends

LEMMA FollowKeeps ==
  ASSUME NEW n \in Nat, NEW next \in [1..n -> 1..n], \A k \in 1..n : next[k] >= k,
         NEW S \in SUBSET 1..n, \A k \in S : next[k] \in S,
         NEW i \in S
  PROVE  Follow(next, i) \in S /\ next[Follow(next, i)] = Follow(next, i)
<1> DEFINE e == Ends(next)
           Kept(m) == \A k \in S : k > n - m => e[k] \in S /\ next[e[k]] = e[k]
           T == {m \in Nat : Kept(m)}
<1>1. e = [k \in 1..n |-> IF next[k] = k THEN k ELSE e[next[k]]]
  BY EndsExist
<1> HIDE DEF e
<1>2. Kept(0)
  OBVIOUS
<1>3. ASSUME NEW m \in Nat, Kept(m) PROVE Kept(m + 1)
  <2>0. SUFFICES ASSUME NEW k \in S, k > n - (m + 1)
                 PROVE  e[k] \in S /\ next[e[k]] = e[k]
    OBVIOUS
  <2>1. k \in 1..n /\ next[k] \in S /\ next[k] >= k
    OBVIOUS
  <2>2. CASE next[k] = k
    <3>1. e[k] = k
      BY <1>1, <2>1, <2>2
    <3> QED BY <2>2, <3>1
  <2>3. CASE next[k] # k
    <3>1. next[k] \in S /\ next[k] > n - m
      BY <2>0, <2>1, <2>3
    <3>2. e[k] = e[next[k]]
      BY <1>1, <2>1, <2>3
    <3>3. e[next[k]] \in S /\ next[e[next[k]]] = e[next[k]]
      BY <1>3, <3>1
    <3> QED BY <3>2, <3>3
  <2> QED BY <2>2, <2>3
<1>4. Kept(n)
  <2> HIDE DEF Kept
  <2>1. T \in SUBSET Nat /\ 0 \in T
    BY <1>2
  <2>3. ASSUME NEW m \in T PROVE m + 1 \in T
    <3>1. m \in Nat /\ Kept(m)
      OBVIOUS
    <3>2. Kept(m + 1) /\ m + 1 \in Nat
      BY <1>3, <3>1
    <3> QED BY <3>2
  <2>2. T = Nat
    <3> HIDE DEF T
    <3> QED BY <2>1, <2>3, SetInduction
  <2> QED BY <2>2
<1>5. e[i] \in S /\ next[e[i]] = e[i]
  BY <1>4
<1> QED BY <1>5 DEF Follow, e

(***************************************************************************)
(* The first place from i on with one of S, or without one.                *)
(***************************************************************************)
LEMMA UntilFacts ==
  ASSUME NEW t, Len(t) \in Nat, DOMAIN t = 1..Len(t), NEW i \in Nat \ {0}, NEW S
  PROVE  /\ Until(t, i, S) \in Nat
         /\ Until(t, i, S) >= i
         /\ Until(t, i, S) <= Len(t) + 1 \/ Until(t, i, S) = i
         /\ Until(t, i, S) <= Len(t) => t[Until(t, i, S)] \in S
         /\ \A j \in i..Until(t, i, S) - 1 : j <= Len(t) /\ t[j] \notin S
<1> DEFINE m == Max({i, Len(t) + 1})
           T == {j \in i..Len(t) : t[j] \in S} \cup {m}
<1>1. m \in {i, Len(t) + 1} /\ m >= i /\ m >= Len(t) + 1
  <2> DEFINE n == i + Len(t) + 1
             R == {i, Len(t) + 1}
  <2>1. n \in Nat /\ R \in SUBSET 0..n /\ R # {}
    OBVIOUS
  <2> HIDE DEF n
  <2>2. Max(R) \in R /\ \A y \in R : y <= Max(R)
    BY <2>1, GreatestOf
  <2> QED BY <2>2
<1> HIDE DEF m
<1>2. T \in SUBSET Nat /\ T # {}
  BY <1>1
<1>3. Min(T) \in T /\ \A y \in T : Min(T) <= y
  BY <1>2, LeastOf
<1>4. Until(t, i, S) = Min(T)
  BY DEF Until, m
<1> DEFINE u == Min(T)
<1> HIDE DEF u
<1>5. u \in T /\ \A y \in T : u <= y
  BY <1>3 DEF u
<1>6. u \in Nat /\ u >= i /\ (u <= Len(t) + 1 \/ u = i) /\ (u <= Len(t) => t[u] \in S)
  BY <1>1, <1>5
<1>7. \A j \in i..u - 1 : j <= Len(t) /\ t[j] \notin S
  <2> TAKE j \in i..u - 1
  <2>1. m \in T /\ j \in Nat /\ j < u
    BY <1>6
  <2>3. u <= m /\ j \notin T
    <3> HIDE DEF T
    <3> QED BY <1>1, <1>5, <1>6, <2>1
  <2>2. j <= Len(t)
    BY <1>1, <1>6, <2>1, <2>3
  <2> QED BY <2>1, <2>2, <2>3
<1> QED BY <1>4, <1>6, <1>7 DEF u

LEMMA WhileFacts ==
  ASSUME NEW t, Len(t) \in Nat, DOMAIN t = 1..Len(t), NEW i \in Nat \ {0}, NEW S
  PROVE  /\ While(t, i, S) \in Nat
         /\ While(t, i, S) >= i
         /\ While(t, i, S) <= Len(t) + 1 \/ While(t, i, S) = i
         /\ While(t, i, S) <= Len(t) => t[While(t, i, S)] \notin S
         /\ \A j \in i..While(t, i, S) - 1 : j <= Len(t) /\ t[j] \in S
<1> DEFINE R == {t[j] : j \in DOMAIN t} \ S
           u == Until(t, i, R)
<1>1. u = While(t, i, S)
  <2>1. \A j \in i..Len(t) : t[j] \in R <=> t[j] \notin S
    OBVIOUS
  <2> HIDE DEF R
  <2>2. {j \in i..Len(t) : t[j] \in R} = {j \in i..Len(t) : t[j] \notin S}
    BY <2>1
  <2> QED BY <2>2 DEF Until, While
<1>2. /\ u \in Nat /\ u >= i /\ (u <= Len(t) + 1 \/ u = i)
      /\ u <= Len(t) => t[u] \in R
      /\ \A j \in i..u - 1 : j <= Len(t) /\ t[j] \notin R
  <2> HIDE DEF R
  <2> QED BY UntilFacts
<1> HIDE DEF u
<1>3. \A j \in i..u - 1 : t[j] \in S
  BY <1>2
<1> QED BY <1>1, <1>2, <1>3

(***************************************************************************)
(* A sequence of sequences made one: what holds of the empty one, and is   *)
(* kept as each part is put behind, holds of the whole.                    *)
(***************************************************************************)
LEMMA FlattenKeeps ==
  ASSUME NEW n \in Nat, NEW ss, Len(ss) = n, DOMAIN ss = 1..n, n = 0 => ss = <<>>,
         NEW P, <<>> \in P[0],
         \A k \in 1..n : \A r \in P[k - 1] : r \o ss[k] \in P[k],
         n > 0 => <<>> \o ss[1] = ss[1]
  PROVE  FlattenSeq(ss) \in P[n]
<1> DEFINE Right(f, i) == f[i] = IF i = 1 THEN ss[i] ELSE f[i - 1] \o ss[i]
           Upto(m) == \E f : DOMAIN f = 1..n /\ \A i \in 1..n : i <= m => Right(f, i)
           T == {m \in Nat : Upto(m)}
<1>1. Upto(0)
  <2>1. DOMAIN ss = 1..n /\ \A i \in 1..n : ~ (i <= 0)
    OBVIOUS
  <2> QED BY <2>1
<1>2. ASSUME NEW m \in Nat, Upto(m) PROVE Upto(m + 1)
  <2>1. PICK f : DOMAIN f = 1..n /\ \A i \in 1..n : i <= m => Right(f, i)
    BY <1>2
  <2> DEFINE v == IF m + 1 = 1 THEN ss[m + 1] ELSE f[m] \o ss[m + 1]
             g == [i \in 1..n |-> IF i = m + 1 THEN v ELSE f[i]]
  <2>2. DOMAIN g = 1..n /\ \A i \in 1..n : g[i] = IF i = m + 1 THEN v ELSE f[i]
    OBVIOUS
  <2> HIDE DEF g
  <2>3. ASSUME NEW i \in 1..n, i <= m + 1 PROVE Right(g, i)
    <3>1. CASE i = m + 1
      <4>1. i # 1 => i - 1 \in 1..n /\ i - 1 # m + 1 /\ i - 1 = m
        BY <3>1
      <4> QED BY <2>2, <3>1, <4>1
    <3>2. CASE i # m + 1
      <4>1. i <= m /\ (i # 1 => i - 1 \in 1..n /\ i - 1 # m + 1)
        BY <2>3, <3>2
      <4>2. Right(f, i)
        BY <2>1, <4>1
      <4> HIDE DEF v
      <4> QED BY <2>2, <3>2, <4>1, <4>2
    <3> QED BY <3>1, <3>2
  <2> QED BY <2>2, <2>3
<1>3. Upto(n)
  <2> HIDE DEF Upto
  <2>1. T \in SUBSET Nat /\ 0 \in T /\ \A m \in T : m + 1 \in T
    BY <1>1, <1>2
  <2>2. T = Nat
    <3> HIDE DEF T
    <3> QED BY <2>1, SetInduction
  <2> QED BY <2>2
<1>4. PICK f : DOMAIN f = 1..n /\ \A i \in 1..n : i <= n => Right(f, i)
  BY <1>3
<1> DEFINE F == CHOOSE h : h = [i \in 1..n |-> IF i = 1 THEN ss[i] ELSE h[i - 1] \o ss[i]]
<1>5. F = [i \in 1..n |-> IF i = 1 THEN ss[i] ELSE F[i - 1] \o ss[i]]
  <2> DEFINE h == [i \in 1..n |-> f[i]]
  <2>1. \A i \in 1..n : h[i] = IF i = 1 THEN ss[i] ELSE h[i - 1] \o ss[i]
    BY <1>4
  <2>2. h = [i \in 1..n |-> IF i = 1 THEN ss[i] ELSE h[i - 1] \o ss[i]]
    <3>1. h = [i \in 1..n |-> h[i]]
      OBVIOUS
    <3> HIDE DEF h
    <3> QED BY <2>1, <3>1
  <2> QED BY <2>2
<1>6. FlattenSeq(ss) = IF n = 0 THEN ss ELSE F[n]
  BY DEF FlattenSeq
<1> HIDE DEF F
<1> DEFINE Kept(k) == k \in 1..n => F[k] \in P[k]
           K == {k \in Nat : Kept(k)}
<1>7. Kept(0)
  OBVIOUS
<1>8. ASSUME NEW k \in Nat, Kept(k) PROVE Kept(k + 1)
  <2> SUFFICES ASSUME k + 1 \in 1..n PROVE F[k + 1] \in P[k + 1]
    OBVIOUS
  <2>1. CASE k = 0
    <3>1. F[1] = ss[1]
      BY <1>5, <2>1
    <3>2. 1 \in 1..n /\ 1 - 1 = 0
      BY <2>1
    <3>4. \A r \in P[1 - 1] : r \o ss[1] \in P[1]
      BY <3>2
    <3>5. <<>> \o ss[1] \in P[1]
      BY <3>2, <3>4
    <3>6. n > 0
      BY <2>1
    <3>3. F[1] \in P[1]
      BY <3>1, <3>5, <3>6
    <3> QED BY <2>1, <3>3
  <2>2. CASE k # 0
    <3>1. \A i \in 1..n : F[i] = IF i = 1 THEN ss[i] ELSE F[i - 1] \o ss[i]
      BY <1>5
    <3>2. PICK i \in 1..n : i = k + 1 /\ i # 1 /\ i - 1 = k
      BY <2>2
    <3>3. F[i] = F[i - 1] \o ss[i]
      BY <3>1, <3>2, Zenon
    <3>4. F[i - 1] \in P[i - 1]
      BY <1>8, <2>2, <3>2
    <3>5. F[i - 1] \o ss[i] \in P[i]
      BY <3>4
    <3>6. F[i] \in P[i]
      BY <3>3, <3>5, Zenon
    <3> QED BY <3>2, <3>6
  <2> QED BY <2>1, <2>2
<1>9. Kept(n)
  <2> HIDE DEF Kept
  <2>1. K \in SUBSET Nat /\ 0 \in K /\ \A k \in K : k + 1 \in K
    BY <1>7, <1>8
  <2>2. K = Nat
    <3> HIDE DEF K
    <3> QED BY <2>1, SetInduction
  <2> QED BY <2>2
<1>10. CASE n = 0
  BY <1>6, <1>10
<1>11. CASE n # 0
  BY <1>6, <1>9, <1>11
<1> QED BY <1>10, <1>11

LEMMA FlattenInto ==
  ASSUME NEW n \in Nat, NEW ss, DOMAIN ss = 1..n, ss = [k \in 1..n |-> ss[k]],
         NEW G, \A k \in 1..n : ss[k] \in Seq(G),
         NEW P, P = [k \in 0..n |-> P[k]], \A k \in 0..n : P[k] \subseteq Seq(G),
         <<>> \in P[0],
         \A k \in 1..n : \A r \in P[k - 1] : r \o ss[k] \in P[k]
  PROVE  FlattenSeq(ss) \in P[n]
<1>1. IsSeq(ss) /\ Len(ss) = n
  BY SeqFunction
<1>2. n = 0 => ss = <<>>
  BY <1>1 DEF IsSeq
<1>3. n > 0 => <<>> \o ss[1] = ss[1]
  <2> SUFFICES ASSUME n > 0 PROVE <<>> \o ss[1] = ss[1]
    OBVIOUS
  <2>1. ss[1] \in Seq(G)
    OBVIOUS
  <2> QED BY <2>1, ConcatEmptySeq
<1> QED BY <1>1, <1>2, <1>3, FlattenKeeps

(***************************************************************************)
(* What is read is a C string: normalize_encoding gives bytes that are not *)
(* zero, however the text was encoded.                                     *)
(***************************************************************************)
Bytes == 1..255

LEMMA Utf8Bytes ==
  ASSUME NEW cp \in Nat \ {0}
  PROVE  /\ enc_utf8(cp) \in Seq(Bytes)
         /\ Len(enc_utf8(cp)) <= IF cp < 65536 THEN 3 ELSE 4
<1>1. \A n \in Nat : Tail6(n) \in Bytes
  BY DEF Tail6, Bytes
<1>2. /\ cp \div 64 \in Nat /\ cp \div 4096 \in Nat /\ cp \div 262144 \in Nat
      /\ cp < 2048 => cp \div 64 < 32
      /\ cp < 65536 => cp \div 4096 < 16
  OBVIOUS
<1> DEFINE q1 == cp \div 64
           q2 == cp \div 4096
           q3 == (cp \div 262144) % 16
<1>3. q1 \in Nat /\ q2 \in Nat /\ q3 \in 0..15
  BY <1>2
<1>4. /\ cp < 2048 => 192 + q1 \in Bytes
      /\ cp < 65536 => 224 + q2 \in Bytes
      /\ 240 + q3 \in Bytes
  <2>1. (cp < 2048 => q1 < 32) /\ (cp < 65536 => q2 < 16)
    BY <1>2
  <2> HIDE DEF q1, q2, q3
  <2> QED BY <1>3, <2>1 DEF Bytes
<1> DEFINE r1 == <<cp>>
           r2 == <<192 + q1, Tail6(cp)>>
           r3 == <<224 + q2, Tail6(q1), Tail6(cp)>>
           r4 == <<240 + q3, Tail6(q2), Tail6(q1), Tail6(cp)>>
<1>5. enc_utf8(cp) = CASE cp < 128 -> r1
                       [] 128 <= cp /\ cp < 2048 -> r2
                       [] 2048 <= cp /\ cp < 65536 -> r3
                       [] OTHER -> r4
  BY DEF enc_utf8
<1> HIDE DEF q1, q2, q3
<1>6. Tail6(cp) \in Bytes /\ Tail6(q1) \in Bytes /\ Tail6(q2) \in Bytes
  BY <1>1, <1>3
<1>7. CASE cp < 128
  <2>1. cp \in Bytes
    BY <1>7 DEF Bytes
  <2>2. r1 \in Seq(Bytes) /\ Len(r1) = 1
    BY <2>1
  <2> HIDE DEF r1, r2, r3, r4
  <2>3. enc_utf8(cp) = r1
    BY <1>5, <1>7
  <2> QED BY <1>7, <2>2, <2>3
<1>8. CASE 128 <= cp /\ cp < 2048
  <2>1. r2 \in Seq(Bytes) /\ Len(r2) = 2
    BY <1>4, <1>6, <1>8
  <2> HIDE DEF r1, r2, r3, r4
  <2>2. enc_utf8(cp) = r2
    BY <1>5, <1>8
  <2>3. enc_utf8(cp) \in Seq(Bytes) /\ Len(enc_utf8(cp)) = 2
    BY <2>1, <2>2
  <2>4. cp < 65536
    BY <1>8
  <2> QED BY <2>3, <2>4
<1>9. CASE 2048 <= cp /\ cp < 65536
  <2>1. r3 \in Seq(Bytes) /\ Len(r3) = 3
    BY <1>4, <1>6, <1>9
  <2> HIDE DEF r1, r2, r3, r4
  <2>2. enc_utf8(cp) = r3
    BY <1>5, <1>9
  <2>3. enc_utf8(cp) \in Seq(Bytes) /\ Len(enc_utf8(cp)) = 3
    BY <2>1, <2>2
  <2>4. cp < 65536
    BY <1>9
  <2> QED BY <2>3, <2>4
<1>10. CASE cp > 65535
  <2>1. r4 \in Seq(Bytes) /\ Len(r4) = 4
    BY <1>4, <1>6
  <2> HIDE DEF r1, r2, r3, r4
  <2>2. enc_utf8(cp) = r4
    BY <1>5, <1>10
  <2> QED BY <1>10, <2>1, <2>2
<1> QED BY <1>7, <1>8, <1>9, <1>10

(* The bytes and units of a memory. *)
LEMMA ByteFacts ==
  ASSUME NEW m, Memory(m), NEW i \in Nat \ {0}
  PROVE  Byte(m, i) \in 0..255
<1>1. Len(m.bytes) \in Nat /\ \A j \in 1..Len(m.bytes) : m.bytes[j] \in 0..255
  <2> DEFINE s == m.bytes
  <2>1. s \in Seq(0..255)
    BY DEF Memory
  <2> HIDE DEF s
  <2>2. Len(s) \in Nat /\ \A j \in 1..Len(s) : s[j] \in 0..255
    BY <2>1, SeqElements
  <2> QED BY <2>2 DEF s
<1>2. \A j \in 1..2 : m.behind[j] \in 0..255
  BY DEF Memory
<1>3. 1 + (i % 2) \in 1..2
  OBVIOUS
<1>4. CASE i <= Len(m.bytes)
  BY <1>1, <1>4 DEF Byte
<1>5. CASE ~ (i <= Len(m.bytes))
  <2>1. Byte(m, i) = m.behind[1 + (i % 2)]
    BY <1>5 DEF Byte
  <2> QED BY <1>2, <1>3, <2>1
<1> QED BY <1>4, <1>5

LEMMA UnitFacts ==
  ASSUME NEW m, Memory(m), NEW i \in Nat \ {0}, NEW be \in BOOLEAN
  PROVE  /\ Unit(m, i, 2, be) \in Nat /\ Unit(m, i, 2, be) < 65536
         /\ ~Zero(m, i, 2) => Unit(m, i, 2, be) # 0
         /\ Unit(m, i, 4, be) \in Nat
         /\ ~Zero(m, i, 4) => Unit(m, i, 4, be) # 0
<1>1. /\ Byte(m, i) \in 0..255 /\ Byte(m, i + 1) \in 0..255
      /\ Byte(m, i + 2) \in 0..255 /\ Byte(m, i + 3) \in 0..255
  BY ByteFacts
<1>2. /\ ~Zero(m, i, 2) => Byte(m, i) # 0 \/ Byte(m, i + 1) # 0
      /\ ~Zero(m, i, 4) => \/ Byte(m, i) # 0 \/ Byte(m, i + 1) # 0
                           \/ Byte(m, i + 2) # 0 \/ Byte(m, i + 3) # 0
  <2>1. 0..2 - 1 = {0, 1} /\ 0..4 - 1 = {0, 1, 2, 3}
    OBVIOUS
  <2>2. i + 0 = i
    OBVIOUS
  <2> QED BY <2>1, <2>2 DEF Zero
<1>3. Unit(m, i, 2, be) = IF be THEN 256 * Byte(m, i) + Byte(m, i + 1)
                          ELSE 256 * Byte(m, i + 1) + Byte(m, i)
  <2>1. i + 1 - 1 = i /\ i + (1 + 1) - 1 = i + 1 /\ i + 2 - 1 = i + 1 /\ i + 2 - (1 + 1) = i
    OBVIOUS
  <2> QED BY <2>1 DEF Unit
<1>4. Unit(m, i, 4, be) =
        IF be THEN 65536 * (256 * Byte(m, i) + Byte(m, i + 1))
                   + (256 * Byte(m, i + 2) + Byte(m, i + 3))
        ELSE 65536 * (256 * Byte(m, i + 3) + Byte(m, i + 2))
             + (256 * Byte(m, i + 1) + Byte(m, i))
  <2>1. /\ i + 1 - 1 = i /\ i + (1 + 1) - 1 = i + 1
        /\ i + 3 - 1 = i + 2 /\ i + (3 + 1) - 1 = i + 3
        /\ i + 4 - 1 = i + 3 /\ i + 4 - (1 + 1) = i + 2
        /\ i + 4 - 3 = i + 1 /\ i + 4 - (3 + 1) = i
    OBVIOUS
  <2> QED BY <2>1 DEF Unit
<1>5. \A a, b \in Nat : 65536 * a + b \in Nat /\ (a # 0 \/ b # 0 => 65536 * a + b # 0)
  OBVIOUS
<1> DEFINE b1 == Byte(m, i)
           b2 == Byte(m, i + 1)
           b3 == Byte(m, i + 2)
           b4 == Byte(m, i + 3)
<1> HIDE DEF b1, b2, b3, b4
<1>6. /\ Unit(m, i, 2, be) \in Nat /\ Unit(m, i, 2, be) < 65536
      /\ (~Zero(m, i, 2) => Unit(m, i, 2, be) # 0)
  <2>1. /\ b1 \in 0..255 /\ b2 \in 0..255
        /\ ~Zero(m, i, 2) => b1 # 0 \/ b2 # 0
        /\ Unit(m, i, 2, be) = IF be THEN 256 * b1 + b2 ELSE 256 * b2 + b1
    BY <1>1, <1>2, <1>3 DEF b1, b2
  <2>2. /\ 256 * b1 + b2 \in Nat /\ 256 * b1 + b2 < 65536
        /\ 256 * b2 + b1 \in Nat /\ 256 * b2 + b1 < 65536
        /\ b1 # 0 \/ b2 # 0 => 256 * b1 + b2 # 0 /\ 256 * b2 + b1 # 0
    <3>1. b1 \in 0..255 /\ b2 \in 0..255
      BY <2>1
    <3> QED BY <3>1
  <2> QED BY <2>1, <2>2
<1>7. Unit(m, i, 4, be) \in Nat /\ (~Zero(m, i, 4) => Unit(m, i, 4, be) # 0)
  <2> DEFINE hi == 256 * b1 + b2
             lo == 256 * b3 + b4
             rh == 256 * b4 + b3
             rl == 256 * b2 + b1
  <2>1. /\ b1 \in 0..255 /\ b2 \in 0..255 /\ b3 \in 0..255 /\ b4 \in 0..255
        /\ ~Zero(m, i, 4) => b1 # 0 \/ b2 # 0 \/ b3 # 0 \/ b4 # 0
        /\ Unit(m, i, 4, be) = IF be THEN 65536 * hi + lo ELSE 65536 * rh + rl
    BY <1>1, <1>2, <1>4 DEF b1, b2, b3, b4
  <2>2. /\ hi \in Nat /\ lo \in Nat /\ rh \in Nat /\ rl \in Nat
        /\ b1 # 0 \/ b2 # 0 => hi # 0 /\ rl # 0
        /\ b3 # 0 \/ b4 # 0 => lo # 0 /\ rh # 0
    <3>1. /\ hi \in Nat /\ rl \in Nat
          /\ b1 # 0 \/ b2 # 0 => hi # 0 /\ rl # 0
      BY <2>1
    <3>2. /\ lo \in Nat /\ rh \in Nat
          /\ b3 # 0 \/ b4 # 0 => lo # 0 /\ rh # 0
      BY <2>1
    <3> QED BY <3>1, <3>2
  <2> HIDE DEF hi, lo, rh, rl
  <2> QED BY <1>5, <2>1, <2>2
<1> QED BY <1>6, <1>7

(* No unit is the first and the second half of a pair. *)
LEMMA Surrogates ==
  /\ \A x \in High : x \in Nat /\ x >= 55296 /\ x < 56320
  /\ \A x \in Low : x \in Nat /\ x >= 56320
  /\ \A x : ~ (x \in High /\ x \in Low)
<1>1. \A x \in High : x \in Nat /\ x >= 55296 /\ x < 56320
  BY DEF High
<1>2. \A x \in Low : x \in Nat /\ x >= 56320
  BY DEF Low
<1> QED BY <1>1, <1>2

(* A text in UTF-16 of n units, none of them zero. *)
LEMMA Utf16Bytes ==
  ASSUME NEW m, Memory(m), NEW i \in Nat \ {0}, NEW n \in Nat, NEW be \in BOOLEAN,
         \A k \in 1..n : ~Zero(m, i + 2 * (k - 1), 2)
  PROVE  /\ decode_utf16(m, i, n, be) \in Seq(Bytes)
         /\ Len(decode_utf16(m, i, n, be)) <= 3 * n
<1> DEFINE u(k)    == Unit(m, i + 2 * (k - 1), 2, be)
           pair(k) == k \in 1..n - 1 /\ u(k) \in High /\ u(k + 1) \in Low
           lone    == {k \in 1..n : u(k) \in High /\ ~pair(k)}
           stop    == Min(lone \cup {n + 1})
           cp(k)   == 65536 + (u(k) - 55296) * 1024 + u(k + 1) - 56320
           piece(k) == CASE pair(k)     -> enc_utf8(cp(k))
                         [] pair(k - 1) -> <<>>
                         [] OTHER       -> enc_utf8(u(k))
           ss      == [k \in 1..stop - 1 |-> piece(k)]
           bound(k) == 3 * k + (IF pair(k) THEN 1 ELSE 0)
           P       == [k \in 0..stop - 1 |-> {r \in Seq(Bytes) : Len(r) <= bound(k)}]
<1>1. decode_utf16(m, i, n, be) = FlattenSeq(ss)
  BY DEF decode_utf16
<1>2. stop \in 1..n + 1 /\ (stop \in lone \/ stop = n + 1)
  <2>1. lone \cup {n + 1} \in SUBSET Nat /\ lone \cup {n + 1} # {}
    OBVIOUS
  <2>2. stop \in lone \cup {n + 1} /\ \A y \in lone \cup {n + 1} : stop <= y
    <3> HIDE DEF lone
    <3> QED BY <2>1, LeastOf
  <2> QED BY <2>2
<1>3. \A k \in 1..n : u(k) \in Nat \ {0} /\ u(k) < 65536
  <2> TAKE k \in 1..n
  <2>1. i + 2 * (k - 1) \in Nat \ {0} /\ ~Zero(m, i + 2 * (k - 1), 2)
    OBVIOUS
  <2> QED BY <2>1, UnitFacts
<1> HIDE DEF u, stop
<1>4. \A k \in 1..n : pair(k) => cp(k) \in Nat \ {0}
  <2> TAKE k \in 1..n
  <2> HAVE pair(k)
  <2>1. u(k) \in High /\ u(k + 1) \in Low
    OBVIOUS
  <2> DEFINE a == u(k)
             b == u(k + 1)
  <2>2. a \in Nat /\ a >= 55296 /\ b \in Nat /\ b >= 56320
    BY <2>1, Surrogates
  <2>3. cp(k) = 65536 + (a - 55296) * 1024 + b - 56320
    OBVIOUS
  <2> HIDE DEF a, b
  <2>4. 65536 + (a - 55296) * 1024 + b - 56320 \in Nat \ {0}
    BY <2>2
  <2> QED BY <2>3, <2>4
<1>5. \A k \in 1..n : pair(k) => ~pair(k - 1) /\ k + 1 \in 1..n /\ ~pair(k + 1)
  <2> TAKE k \in 1..n
  <2> HAVE pair(k)
  <2>1. k \in 1..n - 1 /\ u(k) \in High /\ u(k + 1) \in Low
    OBVIOUS
  <2>2. u(k) \notin Low /\ u(k + 1) \notin High
    BY <2>1, Surrogates
  <2>3. k - 1 + 1 = k
    OBVIOUS
  <2> QED BY <2>1, <2>2, <2>3
<1>6. ~pair(stop - 1)
  <2> SUFFICES ASSUME pair(stop - 1) PROVE FALSE
    OBVIOUS
  <2>1. stop - 1 \in 1..n - 1 /\ stop - 1 + 1 = stop
    BY <1>2
  <2>2. u(stop) \in Low
    BY <2>1
  <2>3. u(stop) \notin High
    BY <2>2, Surrogates
  <2> QED BY <1>2, <2>1, <2>3
<1> HIDE DEF cp, pair
<1>7. \A k \in 1..n :
        /\ pair(k) => piece(k) = enc_utf8(cp(k))
        /\ ~pair(k) /\ pair(k - 1) => piece(k) = <<>>
        /\ ~pair(k) /\ ~pair(k - 1) => piece(k) = enc_utf8(u(k))
  BY <1>5
<1>8. \A k \in 1..n :
        /\ piece(k) \in Seq(Bytes)
        /\ Len(piece(k)) <= IF pair(k) THEN 4 ELSE IF pair(k - 1) THEN 0 ELSE 3
  <2> TAKE k \in 1..n
  <2>1. CASE pair(k)
    <3>1. cp(k) \in Nat \ {0}
      BY <1>4, <2>1
    <3>2. enc_utf8(cp(k)) \in Seq(Bytes) /\ Len(enc_utf8(cp(k))) <= 4
      BY <3>1, Utf8Bytes
    <3> HIDE DEF piece
    <3> QED BY <1>7, <2>1, <3>2
  <2>2. CASE ~pair(k) /\ pair(k - 1)
    <3>1. <<>> \in Seq(Bytes) /\ Len(<<>>) = 0
      OBVIOUS
    <3>2. piece(k) = <<>>
      BY <1>7, <2>2
    <3> HIDE DEF piece
    <3> QED BY <2>2, <3>1, <3>2
  <2>3. CASE ~pair(k) /\ ~pair(k - 1)
    <3>1. enc_utf8(u(k)) \in Seq(Bytes) /\ Len(enc_utf8(u(k))) <= 3
      BY <1>3, Utf8Bytes
    <3> HIDE DEF piece
    <3> QED BY <1>7, <2>3, <3>1
  <2> QED BY <2>1, <2>2, <2>3
<1> HIDE DEF piece
<1>9. \A k \in 1..stop - 1 : \A r \in P[k - 1] : r \o ss[k] \in P[k]
  <2> TAKE k \in 1..stop - 1
  <2> TAKE r \in P[k - 1]
  <2>1. k \in 1..n /\ k - 1 \in 0..stop - 1
    BY <1>2
  <2>2. ss[k] = piece(k) /\ r \in Seq(Bytes) /\ Len(r) <= bound(k - 1)
    BY <2>1
  <2>3. r \o ss[k] \in Seq(Bytes) /\ Len(r \o ss[k]) = Len(r) + Len(piece(k))
        /\ Len(r) \in Nat /\ Len(piece(k)) \in Nat
    BY <1>8, <2>1, <2>2
  <2>4. Len(r) + Len(piece(k)) <= bound(k)
    BY <1>5, <1>8, <2>1, <2>2, <2>3
  <2> QED BY <2>1, <2>3, <2>4
<1>10. FlattenSeq(ss) \in P[stop - 1]
  <2>1. stop - 1 \in Nat /\ DOMAIN ss = 1..stop - 1 /\ ss = [k \in 1..stop - 1 |-> ss[k]]
        /\ \A k \in 1..stop - 1 : ss[k] \in Seq(Bytes)
    BY <1>2, <1>8
  <2>2. /\ P = [k \in 0..stop - 1 |-> P[k]]
        /\ \A k \in 0..stop - 1 : P[k] \subseteq Seq(Bytes)
        /\ <<>> \in P[0]
    BY <1>2
  <2> HIDE DEF ss, P
  <2> QED BY <1>9, <2>1, <2>2, FlattenInto
<1>11. FlattenSeq(ss) \in Seq(Bytes) /\ Len(FlattenSeq(ss)) <= 3 * (stop - 1)
  <2>1. stop - 1 \in 0..stop - 1
    BY <1>2
  <2> HIDE DEF ss
  <2> QED BY <1>6, <1>10, <2>1
<1> HIDE DEF ss
<1> QED BY <1>1, <1>2, <1>11

LEMMA Utf32Bytes ==
  ASSUME NEW m, Memory(m), NEW i \in Nat \ {0}, NEW n \in Nat, NEW be \in BOOLEAN,
         \A k \in 1..n : ~Zero(m, i + 4 * (k - 1), 4)
  PROVE  /\ decode_utf32(m, i, n, be) \in Seq(Bytes)
         /\ Len(decode_utf32(m, i, n, be)) <= 4 * n
<1> DEFINE u(k) == Unit(m, i + 4 * (k - 1), 4, be)
           ss   == [k \in 1..n |-> enc_utf8(u(k))]
           P    == [k \in 0..n |-> {r \in Seq(Bytes) : Len(r) <= 4 * k}]
<1>1. decode_utf32(m, i, n, be) = FlattenSeq(ss)
  BY DEF decode_utf32
<1>2. \A k \in 1..n : u(k) \in Nat \ {0}
  <2> TAKE k \in 1..n
  <2>1. i + 4 * (k - 1) \in Nat \ {0} /\ ~Zero(m, i + 4 * (k - 1), 4)
    OBVIOUS
  <2> QED BY <2>1, UnitFacts
<1> HIDE DEF u
<1>3. \A k \in 1..n : ss[k] \in Seq(Bytes) /\ Len(ss[k]) \in Nat /\ Len(ss[k]) <= 4
  <2> TAKE k \in 1..n
  <2>1. /\ enc_utf8(u(k)) \in Seq(Bytes)
        /\ Len(enc_utf8(u(k))) <= IF u(k) < 65536 THEN 3 ELSE 4
    BY <1>2, Utf8Bytes
  <2>2. Len(enc_utf8(u(k))) \in Nat
    BY <2>1
  <2> QED BY <2>1, <2>2
<1>4. \A k \in 1..n : \A r \in P[k - 1] : r \o ss[k] \in P[k]
  <2> TAKE k \in 1..n
  <2> TAKE r \in P[k - 1]
  <2>1. k - 1 \in 0..n /\ k \in 0..n
    OBVIOUS
  <2>2. r \in Seq(Bytes) /\ Len(r) <= 4 * (k - 1) /\ Len(r) \in Nat
    BY <2>1
  <2>3. ss[k] \in Seq(Bytes) /\ Len(ss[k]) \in Nat /\ Len(ss[k]) <= 4
    BY <1>3
  <2> HIDE DEF ss
  <2>4. r \o ss[k] \in Seq(Bytes) /\ Len(r \o ss[k]) = Len(r) + Len(ss[k])
    BY <2>2, <2>3
  <2>5. Len(r) + Len(ss[k]) <= 4 * k
    BY <2>2, <2>3
  <2> QED BY <2>1, <2>4, <2>5
<1>5. FlattenSeq(ss) \in P[n]
  <2>1. DOMAIN ss = 1..n /\ ss = [k \in 1..n |-> ss[k]]
        /\ \A k \in 1..n : ss[k] \in Seq(Bytes)
    BY <1>3
  <2>2. /\ P = [k \in 0..n |-> P[k]]
        /\ \A k \in 0..n : P[k] \subseteq Seq(Bytes)
        /\ <<>> \in P[0]
    OBVIOUS
  <2> HIDE DEF ss, P
  <2> QED BY <1>4, <2>1, <2>2, FlattenInto
<1> HIDE DEF ss
<1> QED BY <1>1, <1>5

(* What normalize_encoding gives lex to read. *)
LEMMA Normalized ==
  ASSUME NEW m, Memory(m)
  PROVE  LET r == normalize_encoding(m)
         IN /\ r.bytes \in Seq(Bytes)
            /\ r.copied \in BOOLEAN /\ r.astray \in BOOLEAN
            /\ r.astray => r.bytes = <<>>
<1> DEFINE a == Announced(m)
           i == a.skip + 1
           marked == a.width = 4 /\ a.be /\ a.skip > 0
           ends   == IF marked THEN {n \div 4 : n \in Units(m, i, 1)}
                               ELSE Units(m, i, a.width)
           n == Min(ends)
<1>1. a \in [width : {1, 2, 4}, be : BOOLEAN, skip : {0, 2, 3, 4}]
  BY DEF Announced
<1>2. a.width \in {1, 2, 4} /\ a.be \in BOOLEAN /\ i \in Nat \ {0}
  BY <1>1
<1>3. normalize_encoding(m) =
        CASE ends = {}   -> [bytes |-> <<>>, copied |-> FALSE, astray |-> TRUE]
          [] ends # {} /\ a.width = 1 ->
               [bytes |-> [k \in 1..n |-> Byte(m, i + k - 1)], copied |-> FALSE,
                astray |-> FALSE]
          [] OTHER ->
               [bytes |-> IF a.width = 2 THEN decode_utf16(m, i, n, a.be)
                                         ELSE decode_utf32(m, i, n, a.be),
                copied |-> TRUE, astray |-> FALSE]
  BY DEF normalize_encoding
<1>4. \A w \in {1, 2, 4} : \A q \in Units(m, i, w) :
        q \in Nat /\ \A k \in 0..q - 1 : ~Zero(m, i + k * w, w)
  <2>1. Len(m.bytes) \in Nat
    BY SeqElements DEF Memory
  <2> QED BY <2>1 DEF Units
<1> HIDE DEF a, i
<1>5. CASE ends = {}
  <2>1. normalize_encoding(m) = [bytes |-> <<>>, copied |-> FALSE, astray |-> TRUE]
    <3> HIDE DEF ends, n
    <3> QED BY <1>3, <1>5
  <2> QED BY <2>1
<1>6. CASE ends # {}
  <2>1. ends \in SUBSET Nat
    BY <1>2, <1>4
  <2>2. n \in ends
    <3> HIDE DEF ends
    <3> QED BY <1>6, <2>1, LeastOf
  <2>3. CASE a.width = 1
    <3>1. n \in Units(m, i, 1)
      BY <2>2, <2>3
    <3> HIDE DEF ends, n
    <3>2. normalize_encoding(m) =
            [bytes |-> [k \in 1..n |-> Byte(m, i + k - 1)], copied |-> FALSE,
             astray |-> FALSE]
      BY <1>3, <1>6, <2>3
    <3>3. \A k \in 1..n : Byte(m, i + k - 1) \in Bytes
      <4> TAKE k \in 1..n
      <4>1. n \in Nat /\ ~Zero(m, i + (k - 1) * 1, 1)
        BY <1>4, <3>1
      <4>2. i + (k - 1) * 1 = i + k - 1 /\ i + k - 1 \in Nat \ {0} /\ 0..1 - 1 = {0}
            /\ i + k - 1 + 0 = i + k - 1
        BY <1>2, <4>1
      <4>3. Byte(m, i + k - 1) # 0
        BY <4>1, <4>2 DEF Zero
      <4> QED BY <4>2, <4>3, ByteFacts DEF Bytes
    <3>4. [k \in 1..n |-> Byte(m, i + k - 1)] \in Seq(Bytes)
      BY <1>4, <3>1, <3>3
    <3> QED BY <3>2, <3>4
  <2>4. CASE a.width = 2
    <3>1. n \in Units(m, i, 2)
      BY <2>2, <2>4
    <3> HIDE DEF ends, n
    <3>2. normalize_encoding(m) =
            [bytes |-> decode_utf16(m, i, n, a.be), copied |-> TRUE, astray |-> FALSE]
      BY <1>3, <1>6, <2>4
    <3>3. n \in Nat /\ \A k \in 1..n : ~Zero(m, i + 2 * (k - 1), 2)
      <4>1. n \in Nat /\ \A k \in 0..n - 1 : ~Zero(m, i + k * 2, 2)
        BY <1>4, <3>1
      <4>2. \A k \in 1..n : k - 1 \in 0..n - 1 /\ (k - 1) * 2 = 2 * (k - 1)
        BY <4>1
      <4> QED BY <4>1, <4>2
    <3>4. decode_utf16(m, i, n, a.be) \in Seq(Bytes)
      BY <1>2, <3>3, Utf16Bytes
    <3> QED BY <3>2, <3>4
  <2>5. CASE a.width = 4
    <3>1. n \in Nat /\ \A k \in 1..n : ~Zero(m, i + 4 * (k - 1), 4)
      <4>1. CASE marked
        <5>1. PICK q \in Units(m, i, 1) : n = q \div 4
          BY <2>2, <4>1
        <5>2. q \in Nat /\ n \in Nat /\ 4 * n <= q
          BY <1>4, <5>1
        <5> HIDE DEF n
        <5>3. ASSUME NEW k \in 1..n PROVE ~Zero(m, i + 4 * (k - 1), 4)
          <6>1. 4 * (k - 1) \in 0..q - 1
            BY <5>2
          <6>2. ~Zero(m, i + (4 * (k - 1)) * 1, 1)
            BY <1>4, <6>1
          <6>3. (4 * (k - 1)) * 1 = 4 * (k - 1) /\ 0..1 - 1 = {0} /\ 0 \in 0..4 - 1
            OBVIOUS
          <6> QED BY <6>2, <6>3 DEF Zero
        <5> QED BY <5>2, <5>3
      <4>2. CASE ~marked
        <5>1. n \in Units(m, i, 4)
          BY <2>2, <2>5, <4>2
        <5> HIDE DEF n
        <5>2. n \in Nat /\ \A k \in 0..n - 1 : ~Zero(m, i + k * 4, 4)
          BY <1>4, <5>1
        <5>3. \A k \in 1..n : k - 1 \in 0..n - 1 /\ (k - 1) * 4 = 4 * (k - 1)
          BY <5>2
        <5> QED BY <5>2, <5>3
      <4> QED BY <4>1, <4>2
    <3> HIDE DEF ends, n
    <3>2. normalize_encoding(m) =
            [bytes |-> decode_utf32(m, i, n, a.be), copied |-> TRUE, astray |-> FALSE]
      BY <1>3, <1>6, <2>5
    <3>3. decode_utf32(m, i, n, a.be) \in Seq(Bytes)
      BY <1>2, <3>1, Utf32Bytes
    <3> QED BY <3>2, <3>3
  <2> QED BY <1>2, <2>3, <2>4, <2>5
<1> QED BY <1>5, <1>6

(***************************************************************************)
(* Lines and columns of a place in a text, and how they follow from those  *)
(* of an earlier one.                                                      *)
(***************************************************************************)
BreaksIn(t, i, j) == {k \in i..j - 1 : CharAt(t, k) = "\n"}
LineIn(t, i)      == 1 + Cardinality(BreaksIn(t, 1, i))
ColIn(t, i)       == i - 1 - Max(BreaksIn(t, 1, i) \cup {0})

LEMMA BreaksFacts ==
  ASSUME NEW t, NEW i \in Nat \ {0}, NEW j \in Nat
  PROVE  /\ BreaksIn(t, i, j) \in SUBSET (i..j - 1)
         /\ IsFiniteSet(BreaksIn(t, i, j))
         /\ Cardinality(BreaksIn(t, i, j)) \in Nat
<1>1. BreaksIn(t, i, j) \in SUBSET (i..j - 1)
  BY DEF BreaksIn
<1>2. IsFiniteSet(i..j - 1)
  BY FS_Interval
<1>3. IsFiniteSet(BreaksIn(t, i, j))
  BY <1>1, <1>2, FS_Subset
<1> QED BY <1>1, <1>3, FS_CardinalityType

LEMMA LastBreak ==
  ASSUME NEW t, NEW i \in Nat \ {0}
  PROVE  LET m == Max(BreaksIn(t, 1, i) \cup {0})
         IN /\ m \in 0..i - 1
            /\ m \in BreaksIn(t, 1, i) \cup {0}
            /\ \A y \in BreaksIn(t, 1, i) : y <= m
<1> DEFINE R == BreaksIn(t, 1, i) \cup {0}
<1>1. i - 1 \in Nat /\ R \in SUBSET 0..i - 1 /\ R # {}
  BY BreaksFacts
<1>2. Max(R) \in R /\ \A y \in R : y <= Max(R)
  <2> HIDE DEF R
  <2> QED BY <1>1, GreatestOf
<1> QED BY <1>1, <1>2

LEMMA PlaceType ==
  ASSUME NEW t, NEW i \in Nat \ {0}
  PROVE  LineIn(t, i) \in Nat /\ ColIn(t, i) \in Nat
<1>1. Cardinality(BreaksIn(t, 1, i)) \in Nat
  BY BreaksFacts
<1>2. Max(BreaksIn(t, 1, i) \cup {0}) \in 0..i - 1
  BY LastBreak
<1> QED BY <1>1, <1>2 DEF LineIn, ColIn

LEMMA PlaceMoves ==
  ASSUME NEW t, NEW i \in Nat \ {0}, NEW j \in Nat, i <= j
  PROVE  /\ LineIn(t, j) = LineIn(t, i) + Cardinality(BreaksIn(t, i, j))
         /\ ColIn(t, j) = IF BreaksIn(t, i, j) = {} THEN ColIn(t, i) + j - i
                          ELSE j - 1 - Max(BreaksIn(t, i, j))
<1> DEFINE A == BreaksIn(t, 1, i)
           B == BreaksIn(t, i, j)
           C == BreaksIn(t, 1, j)
<1>1. C = A \cup B /\ A \cap B = {}
  BY DEF BreaksIn
<1>2. /\ A \in SUBSET (1..i - 1) /\ IsFiniteSet(A) /\ Cardinality(A) \in Nat
      /\ B \in SUBSET (i..j - 1) /\ IsFiniteSet(B) /\ Cardinality(B) \in Nat
  BY BreaksFacts
<1>3. Cardinality(C) = Cardinality(A) + Cardinality(B)
  <2>1. Cardinality(A \cup B) = Cardinality(A) + Cardinality(B) - Cardinality(A \cap B)
    <3> HIDE DEF A, B
    <3> QED BY <1>2, FS_Union
  <2>2. Cardinality(A \cap B) = 0
    BY <1>1, FS_EmptySet
  <2> HIDE DEF A, B, C
  <2> QED BY <1>1, <1>2, <2>1, <2>2
<1>4. /\ Max(A \cup {0}) \in 0..i - 1 /\ Max(A \cup {0}) \in A \cup {0}
      /\ \A y \in A : y <= Max(A \cup {0})
  BY LastBreak
<1>5. /\ Max(C \cup {0}) \in 0..j - 1 /\ Max(C \cup {0}) \in C \cup {0}
      /\ \A y \in C : y <= Max(C \cup {0})
  BY LastBreak
<1>8. /\ LineIn(t, i) = 1 + Cardinality(A) /\ ColIn(t, i) = i - 1 - Max(A \cup {0})
      /\ LineIn(t, j) = 1 + Cardinality(C) /\ ColIn(t, j) = j - 1 - Max(C \cup {0})
  BY DEF LineIn, ColIn
<1>6. CASE B = {}
  <2>1. C = A /\ Cardinality(B) = 0
    BY <1>1, <1>6, FS_EmptySet
  <2> HIDE DEF A, B, C
  <2>2. LineIn(t, j) = LineIn(t, i) + Cardinality(B) /\ ColIn(t, j) = ColIn(t, i) + j - i
    BY <1>2, <1>4, <1>8, <2>1
  <2> QED BY <1>6, <2>2 DEF B
<1>7. CASE B # {}
  <2>1. Max(B) \in B /\ \A y \in B : y <= Max(B)
    <3>1. j - 1 \in Nat /\ B \in SUBSET 0..j - 1
      BY <1>2
    <3> HIDE DEF B
    <3> QED BY <1>7, <3>1, GreatestOf
  <2> HIDE DEF A, B, C
  <2>2. Max(C \cup {0}) = Max(B)
    <3>1. Max(B) \in i..j - 1
      BY <1>2, <2>1
    <3>2. Max(B) <= Max(C \cup {0})
      BY <1>1, <1>5, <2>1
    <3>3. Max(C \cup {0}) \in B
      BY <1>1, <1>2, <1>5, <3>1, <3>2
    <3> QED BY <1>5, <2>1, <3>1, <3>2, <3>3
  <2>3. LineIn(t, j) = LineIn(t, i) + Cardinality(B) /\ ColIn(t, j) = j - 1 - Max(B)
    BY <1>2, <1>3, <1>8, <2>2
  <2> QED BY <1>7, <2>3 DEF B
<1> QED BY <1>6, <1>7

(***************************************************************************)
(* The inductive invariant.  While a block scalar is read, its token is    *)
(* still to come: BlockOK says where it will stand.                        *)
(***************************************************************************)
IsText(t) == Len(t) \in Nat /\ DOMAIN t = 1..Len(t)
Here(t, i) == [line |-> LineIn(t, i), col |-> ColIn(t, i)]

TokenIn(tok, t) ==
  /\ TokenOK(tok)
  /\ tok.at \in 1..Len(t) + 1 /\ tok.to \in Nat
  /\ tok.line = LineIn(t, tok.at) /\ tok.col = ColIn(t, tok.at)

BlockOK(b, t, i) ==
  /\ DOMAIN b = DOMAIN NoBlock
  /\ b.style \in {"literal", "folded"}
  /\ b.at \in 1..i
  /\ b.line = LineIn(t, b.at) /\ b.col = ColIn(t, b.at)
  /\ b.base \in Nat
  /\ IsSeq(b.buf) /\ b.cap \in Nat /\ Len(b.buf) < b.cap

Lexing  == {"scan", "block", "text"}
Labels  == {"call", "done", "refused", "astray", "crashed"} \cup Lexing

(* The array of tokens, and what it could not grow for. *)
ArrayOK ==
  /\ room \in Nat /\ dropped \in Nat
  /\ TokenCap <= room /\ Len(tokens) <= room
  /\ pc # "refused" /\ dropped > 0 => TokenCap <= Len(tokens)

IInv ==
  /\ pc \in Labels
  /\ storage \in {"caller", "copy", "freed"}
  /\ flow_depth \in Nat /\ faults \in Nat /\ error \in BOOLEAN
  /\ \E S \in Sources : source \in S
  /\ IsText(text)
  /\ p \in Nat \ {0}
  /\ pc # "astray" => p <= Len(text) + 1
  /\ pc = "astray" => text = <<>> \/ Last(text) = "\\"
  /\ line = LineIn(text, p) /\ col = ColIn(text, p)
  /\ IsSeq(tokens) /\ \A k \in 1..Len(tokens) : TokenIn(tokens[k], text)
  /\ ArrayOK
  /\ pc = "call" => /\ text = <<>> /\ tokens = <<>> /\ dropped = 0
                    /\ p = 1 /\ line = 1 /\ col = 0 /\ faults = 0 /\ ~error
  /\ pc \in Lexing => faults = dropped \/ error
  /\ pc = "done" => faults = dropped
  /\ pc \in {"block", "text"} => BlockOK(blk, text, p)

(* Where an advance of the cursor leads. *)
LEMMA Cursor ==
  ASSUME IsText(text), p \in Nat \ {0}, line = LineIn(text, p), col = ColIn(text, p),
         NEW i \in Nat, p <= i
  PROVE  /\ LineTo(i) = LineIn(text, i) /\ ColTo(i) = ColIn(text, i)
         /\ PlaceAt(i) = Here(text, i)
         /\ LineIn(text, i) \in Nat /\ ColIn(text, i) \in Nat
<1>1. LinesTo(i) = BreaksIn(text, p, i)
  BY DEF LinesTo, BreaksIn, At
<1>2. /\ LineIn(text, i) = line + Cardinality(BreaksIn(text, p, i))
      /\ ColIn(text, i) = IF BreaksIn(text, p, i) = {} THEN col + i - p
                          ELSE i - 1 - Max(BreaksIn(text, p, i))
  BY PlaceMoves
<1>3. LineIn(text, i) \in Nat /\ ColIn(text, i) \in Nat
  BY PlaceType
<1>4. LineTo(i) = LineIn(text, i) /\ ColTo(i) = ColIn(text, i)
  BY <1>1, <1>2 DEF LineTo, ColTo
<1> QED BY <1>3, <1>4 DEF PlaceAt, Here

(* What skip_ws leaves behind, and what stops it. *)
Skipped(i, j) == \A k \in i..j - 1 :
  \/ At(k) \in Blank \cup Breaks
  \/ \E h \in i..k : At(h) = "#" /\ \A x \in h..k : At(x) # "\n"

LEMMA StartFacts ==
  ASSUME IsText(text), p \in 1..Len(text) + 1
  PROVE  /\ Start \in p..Len(text) + 1
         /\ Skipped(p, Start)
         /\ At(Start) \notin Blank \cup {"\n", "#"}
         /\ At(Start) = "\r" => At(Start + 1) # "\n"
         /\ At(p) = "#" => Start >= Until(text, p, {"\n"})
         /\ At(p) = "\r" /\ At(p + 1) # "\n" => Start = p
<1> DEFINE n == Len(text) + 1
           turn(i) == CASE At(i) \in Blank \cup {"\n"}      -> i + 1
                        [] At(i) = "\r" /\ At(i + 1) = "\n" -> i + 2
                        [] At(i) = "#"                      -> Until(text, i, {"\n"})
                        [] OTHER                            -> i
           next == [i \in 1..n |-> turn(i)]
           S == {i \in p..n : Skipped(p, i)}
<1>0. n \in Nat /\ DOMAIN text = 1..n - 1 /\ p \in 1..n
  BY DEF IsText
<1>1. \A i \in Nat : At(i) # Nul => i \in 1..n - 1
  BY <1>0 DEF At, CharAt
<1>2. ASSUME NEW i \in 1..n
      PROVE  /\ At(i) \in Blank \cup {"\n"} => turn(i) = i + 1
             /\ At(i) = "\r" /\ At(i + 1) = "\n" => turn(i) = i + 2
             /\ At(i) = "#" => turn(i) = Until(text, i, {"\n"})
             /\ \/ At(i) \in Blank \cup {"\n"}
                \/ At(i) = "\r" /\ At(i + 1) = "\n"
                \/ At(i) = "#"
                \/ turn(i) = i
  BY DEF Blank
<1>3. ASSUME NEW i \in 1..n, At(i) = "#"
      PROVE  /\ turn(i) \in i + 1..n
             /\ \A x \in i..turn(i) - 1 : At(x) # "\n"
  <2> DEFINE u == Until(text, i, {"\n"})
  <2>1. i \in 1..n - 1
    <3>1. i \in Nat /\ At(i) # Nul
      BY <1>3 DEF Nul
    <3> QED BY <1>1, <3>1
  <2>2. /\ u \in Nat /\ u >= i /\ (u <= n \/ u = i)
        /\ u <= n - 1 => text[u] \in {"\n"}
        /\ \A j \in i..u - 1 : j <= n - 1 /\ text[j] \notin {"\n"}
    BY <1>0, UntilFacts
  <2> HIDE DEF u
  <2>3. u # i
    BY <1>0, <1>3, <2>1, <2>2 DEF At, CharAt
  <2>4. \A x \in i..u - 1 : At(x) # "\n"
    BY <1>0, <2>1, <2>2 DEF At, CharAt
  <2> HIDE DEF turn
  <2> QED BY <1>2, <1>3, <2>1, <2>2, <2>3, <2>4 DEF u
<1> HIDE DEF turn
<1>4. \A i \in 1..n : turn(i) \in i..n
  <2> TAKE i \in 1..n
  <2>0. i \in Nat /\ i + 1 \in Nat
    OBVIOUS
  <2>1. At(i) \in Blank \cup {"\n"} => i \in 1..n - 1
    <3>1. At(i) \in Blank \cup {"\n"} => At(i) # Nul
      BY DEF Blank, Nul
    <3> QED BY <1>1, <2>0, <3>1
  <2>2. At(i + 1) = "\n" => i + 1 \in 1..n - 1
    <3>1. At(i + 1) = "\n" => At(i + 1) # Nul
      BY DEF Nul
    <3> QED BY <1>1, <2>0, <3>1
  <2> QED BY <1>0, <1>2, <1>3, <2>1, <2>2
<1>5. next \in [1..n -> 1..n] /\ \A k \in 1..n : next[k] >= k
  BY <1>0, <1>4
<1>6. S \in SUBSET 1..n /\ p \in S
  BY <1>0 DEF Skipped
<1>7. ASSUME NEW i \in S PROVE next[i] \in S
  <2>1. i \in p..n /\ i \in 1..n /\ Skipped(p, i) /\ next[i] = turn(i) /\ turn(i) \in i..n
    BY <1>0, <1>4
  <2>2. CASE At(i) = "#"
    <3>1. \A k \in i..turn(i) - 1 : \A x \in i..k : At(x) # "\n"
      BY <1>3, <2>1, <2>2
    <3> QED BY <1>0, <2>1, <2>2, <3>1 DEF Skipped
  <2>3. CASE At(i) \in Blank \cup {"\n"}
    BY <1>0, <1>2, <2>1, <2>3 DEF Skipped, Breaks
  <2>4. CASE At(i) = "\r" /\ At(i + 1) = "\n"
    <3>1. turn(i) = i + 2 /\ At(i) \in Breaks /\ At(i + 1) \in Breaks
      BY <1>2, <2>1, <2>4 DEF Breaks
    <3>2. \A k \in p..turn(i) - 1 : k \in p..i - 1 \/ k = i \/ k = i + 1
      BY <1>0, <2>1, <3>1
    <3>3. Skipped(p, turn(i))
      BY <2>1, <3>1, <3>2 DEF Skipped
    <3> QED BY <1>0, <2>1, <3>3
  <2> QED BY <1>2, <2>1, <2>2, <2>3, <2>4
<1>8. Start = Follow(next, p)
  BY DEF Start, turn
<1>9. Start \in S /\ next[Start] = Start
  <2> HIDE DEF S, next, n
  <2> QED BY <1>0, <1>5, <1>6, <1>7, <1>8, FollowKeeps
<1>10. Start \in p..n /\ Start \in 1..n /\ Skipped(p, Start) /\ turn(Start) = Start
  BY <1>0, <1>6, <1>9
<1>11. ASSUME At(p) = "#" PROVE Start >= turn(p)
  <2> DEFINE R == {i \in 1..n : i = p \/ i >= turn(p)}
  <2>1. turn(p) \in p + 1..n
    BY <1>0, <1>3, <1>11
  <2>2. R \in SUBSET 1..n /\ p \in R
    BY <1>0
  <2>3. ASSUME NEW i \in R PROVE next[i] \in R
    <3>1. i \in 1..n /\ next[i] = turn(i) /\ turn(i) \in i..n /\ (i = p \/ i >= turn(p))
      BY <1>4
    <3> QED BY <1>0, <2>1, <3>1
  <2>4. Start \in R
    <3> HIDE DEF R, next, n
    <3> QED BY <1>0, <1>5, <1>8, <2>2, <2>3, FollowKeeps
  <2>5. Start # p
    BY <1>10, <1>11, <2>1
  <2> QED BY <2>4, <2>5
<1>12. ASSUME At(p) = "\r", At(p + 1) # "\n" PROVE Start = p
  <2> DEFINE R == {p}
  <2>1. At(p) \notin Blank \cup {"\n", "#"}
    BY <1>12, Zenon DEF Blank
  <2>2. next[p] = p
    BY <1>0, <1>2, <1>12, <2>1
  <2>3. R \in SUBSET 1..n /\ p \in R /\ \A i \in R : next[i] \in R
    BY <1>0, <2>2
  <2>4. Start \in R
    <3> HIDE DEF R, next, n
    <3> QED BY <1>0, <1>5, <1>8, <2>3, FollowKeeps
  <2> QED BY <2>4
<1> HIDE DEF S, next
<1>13. At(p) = "#" => Start >= Until(text, p, {"\n"})
  BY <1>0, <1>2, <1>11
<1> QED BY <1>2, <1>3, <1>10, <1>12, <1>13

(***************************************************************************)
(* Steps of the main loop that push one token.                             *)
(***************************************************************************)
LEMMA OneMoreIn ==
  ASSUME NEW t, NEW T, IsSeq(T), \A k \in 1..Len(T) : TokenIn(T[k], t),
         NEW tok, TokenIn(tok, t)
  PROVE  /\ IsSeq(Append(T, tok)) /\ Len(Append(T, tok)) = Len(T) + 1 /\ Len(T) \in Nat
         /\ \A k \in 1..Len(Append(T, tok)) : TokenIn(Append(T, tok)[k], t)
<1> DEFINE U == Append(T, tok)
<1>1. /\ IsSeq(U) /\ Len(U) = Len(T) + 1
      /\ \A k \in 1..Len(T) : U[k] = T[k]
      /\ U[Len(T) + 1] = tok
  BY SeqAppend
<1>2. Len(T) \in Nat
  BY SeqDomain
<1> HIDE DEF U
<1>3. \A k \in 1..Len(U) : k \in 1..Len(T) \/ k = Len(T) + 1
  BY <1>1, <1>2
<1>4. \A k \in 1..Len(U) : TokenIn(U[k], t)
  BY <1>1, <1>3
<1> QED BY <1>1, <1>2, <1>4 DEF U

(* A push, with room, with the array doubled, and in vain. *)
LEMMA Pushed ==
  ASSUME IInv, pc \in Lexing, NEW tok, TokenIn(tok, text), NEW f \in Nat, Push(tok, f)
  PROVE  /\ IsSeq(tokens') /\ \A k \in 1..Len(tokens') : TokenIn(tokens'[k], text)
         /\ ArrayOK' /\ faults' \in Nat
         /\ faults = dropped /\ f = 0 => faults' = dropped'
<1>1. IsSeq(tokens) /\ \A k \in 1..Len(tokens) : TokenIn(tokens[k], text)
  BY DEF IInv
<1>2. /\ room \in Nat /\ dropped \in Nat /\ TokenCap <= room /\ Len(tokens) <= room
      /\ dropped > 0 => TokenCap <= Len(tokens)
      /\ faults \in Nat /\ TokenCap \in Nat \ {0}
  BY TokenCapAssumption DEF IInv, ArrayOK, Lexing
<1>3. Len(tokens) \in Nat
  BY <1>1, SeqDomain
<1>4. CASE /\ tokens' = Append(tokens, tok)
           /\ room' = IF Len(tokens) = room THEN 2 * room ELSE room
           /\ faults' = faults + f /\ dropped' = dropped
  <2>1. /\ IsSeq(tokens') /\ Len(tokens') = Len(tokens) + 1
        /\ \A k \in 1..Len(tokens') : TokenIn(tokens'[k], text)
    BY <1>1, <1>4, OneMoreIn
  <2>2. room' \in Nat /\ TokenCap <= room' /\ Len(tokens') <= room'
    BY <1>2, <1>3, <1>4, <2>1
  <2>3. dropped' > 0 => TokenCap <= Len(tokens')
    BY <1>2, <1>3, <1>4, <2>1
  <2>4. ArrayOK'
    BY <1>2, <1>4, <2>2, <2>3 DEF ArrayOK
  <2>5. faults' \in Nat /\ (faults = dropped /\ f = 0 => faults' = dropped')
    BY <1>2, <1>4
  <2> QED BY <2>1, <2>4, <2>5
<1>5. CASE /\ Len(tokens) = room /\ faults' = faults + f + 1 /\ dropped' = dropped + 1
           /\ UNCHANGED <<tokens, room>>
  <2>1. TokenCap <= Len(tokens') /\ dropped' \in Nat
    BY <1>2, <1>5
  <2>2. ArrayOK'
    BY <1>2, <1>5, <2>1 DEF ArrayOK
  <2>3. faults' \in Nat /\ (faults = dropped /\ f = 0 => faults' = dropped')
    BY <1>2, <1>5
  <2> QED BY <1>1, <1>5, <2>2, <2>3
<1> QED BY <1>4, <1>5 DEF Push

(* What a push leaves of the tokens, and that none was dropped before. *)
LEMMA PushLeaves ==
  ASSUME IInv, NEW tok, NEW f, Push(tok, f)
  PROVE  /\ tokens' \in {tokens, Append(tokens, tok)}
         /\ dropped' = 0 => dropped = 0 /\ tokens' = Append(tokens, tok)
<1>1. dropped \in Nat
  BY DEF IInv, ArrayOK
<1> QED BY <1>1 DEF Push

LEMMA NotPushed ==
  ASSUME IInv, NoPush, pc # "refused" \/ pc' = "refused" \/ dropped = 0
  PROVE  ArrayOK'
BY DEF IInv, ArrayOK, NoPush

LEMMA TokenMade ==
  ASSUME IsText(text), NEW type \in TokenTypes, NEW style \in Styles,
         NEW s \in 1..Len(text) + 1, NEW i \in Nat, s <= i, NEW val,
         NEW owned \in BOOLEAN, owned => style \in {"literal", "folded"}
  PROVE  TokenIn(Token(type, Here(text, s), s, i, val, style, owned), text)
<1> DEFINE tok == Token(type, Here(text, s), s, i, val, style, owned)
<1>1. /\ tok.type = type /\ tok.style = style /\ tok.owned = owned
      /\ tok.at = s /\ tok.to = i
      /\ tok.line = LineIn(text, s) /\ tok.col = ColIn(text, s)
  BY DEF Token, Here
<1>2. tok.line \in Nat /\ tok.col \in Nat
  BY <1>1, PlaceType
<1> HIDE DEF tok
<1>3. TokenOK(tok)
  BY <1>1, <1>2 DEF TokenOK
<1>4. TokenIn(tok, text)
  BY <1>1, <1>3 DEF TokenIn
<1> QED BY <1>4 DEF tok

LEMMA ScanFacts ==
  ASSUME IInv, pc = "scan"
  PROVE  /\ IsText(text) /\ Len(text) \in Nat
         /\ p \in 1..Len(text) + 1 /\ Start \in p..Len(text) + 1
         /\ line = LineIn(text, p) /\ col = ColIn(text, p)
         /\ \A i \in Nat : p <= i =>
              /\ LineTo(i) = LineIn(text, i) /\ ColTo(i) = ColIn(text, i)
              /\ PlaceAt(i) = Here(text, i)
              /\ LineIn(text, i) \in Nat /\ ColIn(text, i) \in Nat
<1>1. /\ IsText(text) /\ Len(text) \in Nat /\ p \in 1..Len(text) + 1
      /\ line = LineIn(text, p) /\ col = ColIn(text, p)
  BY DEF IInv, IsText
<1> QED BY <1>1, StartFacts, Cursor

LEMMA LexedInv ==
  ASSUME IInv, pc = "scan", NEW type \in TokenTypes, NEW style \in Styles,
         NEW i \in Start..Len(text) + 2, NEW val,
         Lexed(type, Start, i, val, style),
         flow_depth' \in Nat, pc' \in {"scan", "astray"},
         pc' = "scan" => i <= Len(text) + 1,
         pc' = "astray" => Last(text) = "\\"
  PROVE  IInv'
<1> DEFINE s == Start
           tok == Token(type, PlaceAt(s), s, i, val, style, FALSE)
<1>1. /\ IsText(text) /\ Len(text) \in Nat /\ p \in 1..Len(text) + 1
      /\ s \in p..Len(text) + 1
      /\ PlaceAt(s) = Here(text, s)
      /\ LineTo(i) = LineIn(text, i) /\ ColTo(i) = ColIn(text, i)
  <2>1. /\ IsText(text) /\ Len(text) \in Nat /\ p \in 1..Len(text) + 1
        /\ s \in p..Len(text) + 1
    BY ScanFacts
  <2>2. s \in Nat /\ p <= s /\ i \in Nat /\ p <= i
    BY <2>1
  <2> HIDE DEF s
  <2> QED BY <2>1, <2>2, ScanFacts
<1>2. /\ Push(tok, 0)
      /\ p' = i /\ line' = LineIn(text, i) /\ col' = ColIn(text, i)
      /\ UNCHANGED <<source, text, storage, blk, error>>
  BY <1>1 DEF Lexed, AdvanceTo
<1> HIDE DEF s
<1>3. TokenIn(tok, text)
  <2>1. s \in 1..Len(text) + 1 /\ i \in Nat /\ s <= i
    BY <1>1 DEF s
  <2> QED BY <1>1, <2>1, TokenMade
<1> HIDE DEF tok
<1>4. /\ IsSeq(tokens') /\ \A k \in 1..Len(tokens') : TokenIn(tokens'[k], text)
      /\ ArrayOK' /\ faults' \in Nat
      /\ faults' = dropped' \/ error'
  <2>1. /\ IsSeq(tokens') /\ \A k \in 1..Len(tokens') : TokenIn(tokens'[k], text)
        /\ ArrayOK' /\ faults' \in Nat
        /\ faults = dropped => faults' = dropped'
    BY <1>2, <1>3, Pushed DEF Lexing
  <2>2. faults = dropped \/ error
    BY DEF IInv, Lexing
  <2> QED BY <1>2, <2>1, <2>2, Zenon
<1>5. i \in Nat \ {0}
  BY <1>1 DEF s
<1>6. pc' \notin {"call", "done", "block", "text"} /\ pc' \in Labels
  BY DEF Labels, Lexing
<1> QED BY <1>1, <1>2, <1>4, <1>5, <1>6 DEF IInv, Lexing

LEMMA InText ==
  ASSUME IsText(text), NEW i \in Nat, At(i) # Nul
  PROVE  i \in 1..Len(text) /\ At(i) = text[i]
BY DEF IsText, At, CharAt

LEMMA LexMarkerInv == IInv /\ LexMarker => IInv'
<1> SUFFICES ASSUME IInv, LexMarker PROVE IInv'
  OBVIOUS
<1>1. pc = "scan" /\ pc' = "scan" /\ flow_depth' = flow_depth /\ flow_depth \in Nat
  BY DEF LexMarker, IInv
<1>2. Start \in 1..Len(text) + 1 /\ Len(text) \in Nat /\ IsText(text)
  BY <1>1, ScanFacts
<1>3. PICK c \in {"-", "."}, type \in {"DOC_START", "DOC_END"} :
        IsMarker(Start, c) /\ Mark(type, Start, 3)
  BY DEF LexMarker
<1>4. Start + 2 \in Nat /\ At(Start + 2) # Nul
  <2>1. 2 \in 0..2
    OBVIOUS
  <2>2. At(Start + 2) = c
    BY <1>3, <2>1, Zenon DEF IsMarker
  <2>3. At(Start + 2) # Nul
    BY <2>2 DEF Nul
  <2>4. Start + 2 \in Nat
    BY <1>2
  <2> QED BY <2>3, <2>4
<1>5. Start + 3 \in Start..Len(text) + 1
  BY <1>2, <1>4, InText
<1>6. Lexed(type, Start, Start + 3, <<>>, "plain")
  BY <1>3 DEF Mark
<1>7. type \in TokenTypes /\ "plain" \in Styles
  BY DEF TokenTypes, Styles
<1> QED BY <1>1, <1>2, <1>5, <1>6, <1>7, LexedInv

(* A mark of one character. *)
LEMMA MarkInv ==
  ASSUME IInv, pc = "scan", NEW type \in TokenTypes, At(Start) # Nul,
         Mark(type, Start, 1), flow_depth' \in Nat, pc' = pc
  PROVE  IInv'
<1>1. Start \in 1..Len(text) + 1 /\ Len(text) \in Nat /\ IsText(text)
  BY ScanFacts
<1>2. Start + 1 \in Start..Len(text) + 1
  BY <1>1, InText
<1>3. Lexed(type, Start, Start + 1, <<>>, "plain") /\ "plain" \in Styles
  BY DEF Mark, Styles
<1> QED BY <1>1, <1>2, <1>3, LexedInv

LEMMA LexOpenInv == IInv /\ LexOpen => IInv'
<1> SUFFICES ASSUME IInv, LexOpen PROVE IInv'
  OBVIOUS
<1>1. /\ pc = "scan" /\ pc' = pc /\ At(Start) \in {"[", "{"}
      /\ Mark(Opening[At(Start)], Start, 1)
  BY DEF LexOpen, Opening
<1>3. flow_depth' \in Nat
  <2>1. flow_depth \in Nat
    BY DEF IInv
  <2>2. flow_depth' = flow_depth + 1
    BY DEF LexOpen
  <2> QED BY <2>1, <2>2
<1>2. Opening[At(Start)] \in TokenTypes /\ At(Start) # Nul
  BY <1>1 DEF Opening, TokenTypes, Nul
<1> QED BY <1>1, <1>2, <1>3, MarkInv

LEMMA LexCloseInv == IInv /\ LexClose => IInv'
<1> SUFFICES ASSUME IInv, LexClose PROVE IInv'
  OBVIOUS
<1>1. /\ pc = "scan" /\ pc' = pc /\ At(Start) \in {"]", "}"}
      /\ Mark(Closing[At(Start)], Start, 1)
  BY DEF LexClose, Closing
<1>3. flow_depth' \in Nat
  <2>1. flow_depth \in Nat
    BY DEF IInv
  <2>2. flow_depth' = IF flow_depth > 0 THEN flow_depth - 1 ELSE 0
    BY DEF LexClose, is_flow
  <2> QED BY <2>1, <2>2
<1>2. Closing[At(Start)] \in TokenTypes /\ At(Start) # Nul
  BY <1>1 DEF Closing, TokenTypes, Nul
<1> QED BY <1>1, <1>2, <1>3, MarkInv

LEMMA IndicatorFacts ==
  ASSUME NEW s, Indicator(s) # "none"
  PROVE  Indicator(s) \in TokenTypes /\ At(s) \in {",", "-", "?", ":"}
BY DEF Indicator, TokenTypes

LEMMA LexIndicatorInv == IInv /\ LexIndicator => IInv'
<1> SUFFICES ASSUME IInv, LexIndicator PROVE IInv'
  OBVIOUS
<1>1. /\ pc = "scan" /\ pc' = pc /\ Indicator(Start) # "none"
      /\ Mark(Indicator(Start), Start, 1) /\ flow_depth' \in Nat
  BY DEF LexIndicator, IInv
<1>2. Indicator(Start) \in TokenTypes /\ At(Start) # Nul
  BY <1>1, IndicatorFacts DEF Nul
<1> QED BY <1>1, <1>2, MarkInv

(* Places found from one in the text on. *)
LEMMA WithinText ==
  ASSUME IsText(text), NEW i \in 1..Len(text) + 1, NEW S
  PROVE  /\ Until(text, i, S) \in i..Len(text) + 1
         /\ While(text, i, S) \in i..Len(text) + 1
         /\ \A j \in i..While(text, i, S) - 1 : At(j) \in S
<1>1. Len(text) \in Nat /\ DOMAIN text = 1..Len(text) /\ i \in Nat \ {0}
  BY DEF IsText
<1> DEFINE u == Until(text, i, S)
           w == While(text, i, S)
<1>2. u \in Nat /\ u >= i /\ (u <= Len(text) + 1 \/ u = i)
  BY <1>1, UntilFacts
<1>3. /\ w \in Nat /\ w >= i /\ (w <= Len(text) + 1 \/ w = i)
      /\ \A j \in i..w - 1 : j <= Len(text) /\ text[j] \in S
  BY <1>1, WhileFacts
<1> HIDE DEF u, w
<1>4. u \in i..Len(text) + 1 /\ w \in i..Len(text) + 1
  BY <1>1, <1>2, <1>3
<1>5. ASSUME NEW j \in i..w - 1 PROVE At(j) \in S
  <2>1. j \in 1..Len(text) /\ text[j] \in S
    BY <1>1, <1>3
  <2>2. At(j) = text[j]
    BY <1>1, <2>1 DEF At, CharAt
  <2> QED BY <2>1, <2>2
<1> QED BY <1>4, <1>5 DEF u, w

LEMMA NameEndFacts ==
  ASSUME IsText(text), NEW s \in 1..Len(text)
  PROVE  NameEnd(s) \in s + 1..Len(text) + 1
<1> DEFINE S == Blank \cup Breaks \cup {",", "[", "]", "{", "}"}
           i == s + 1
<1>1. NameEnd(s) = Until(text, i, S)
  BY DEF NameEnd
<1>2. i \in 1..Len(text) + 1
  BY DEF IsText
<1> HIDE DEF S, i
<1>3. NameEnd(s) \in i..Len(text) + 1
  BY <1>1, <1>2, WithinText
<1> QED BY <1>3 DEF i

LEMMA LexAnchorInv == IInv /\ lex_anchor_alias => IInv'
<1> SUFFICES ASSUME IInv, lex_anchor_alias PROVE IInv'
  OBVIOUS
<1>1. pc = "scan" /\ pc' = "scan" /\ flow_depth' = flow_depth /\ flow_depth \in Nat
  BY DEF lex_anchor_alias, IInv
<1>2. Start \in 1..Len(text) + 1 /\ Len(text) \in Nat /\ IsText(text)
  BY <1>1, ScanFacts
<1>3. PICK type \in {"ANCHOR", "ALIAS"} :
        /\ At(Start) \in {"&", "*"}
        /\ Lexed(type, Start, NameEnd(Start), Slice(Start + 1, NameEnd(Start)), "plain")
  BY DEF lex_anchor_alias
<1>4. Start \in 1..Len(text)
  <2>1. At(Start) # Nul
    BY <1>3 DEF Nul
  <2>2. Start \in Nat
    BY <1>2
  <2> QED BY <1>2, <2>1, <2>2, InText
<1>5. NameEnd(Start) \in Start..Len(text) + 1
  BY <1>2, <1>4, NameEndFacts
<1>6. type \in TokenTypes /\ "plain" \in Styles
  BY DEF TokenTypes, Styles
<1> QED BY <1>1, <1>2, <1>3, <1>5, <1>6, LexedInv

LEMMA TagEndFacts ==
  ASSUME IsText(text), NEW s \in 1..Len(text)
  PROVE  TagEnd(s) \in s + 1..Len(text) + 1
<1> DEFINE g == Until(text, s + 1, {">"})
           i == CASE At(s + 1) = "!" -> s + 2
                  [] At(s + 1) = "<" -> IF At(g) = ">" THEN g + 1 ELSE g
                  [] OTHER           -> s + 1
<1>1. s + 1 \in Nat \ {0} /\ Len(text) \in Nat /\ DOMAIN text = 1..Len(text)
  BY DEF IsText
<1>2. g \in s + 1..Len(text) + 1
  <2>1. g \in Nat /\ g >= s + 1 /\ (g <= Len(text) + 1 \/ g = s + 1)
    BY <1>1, UntilFacts
  <2> QED BY <1>1, <2>1
<1> HIDE DEF g
<1>3. /\ At(s + 1) = "!" => s + 1 <= Len(text)
      /\ At(g) = ">" => g <= Len(text)
  <2>1. At(s + 1) = "!" => At(s + 1) # Nul
    BY DEF Nul
  <2>2. At(g) = ">" => At(g) # Nul
    BY DEF Nul
  <2>3. g \in Nat
    BY <1>2
  <2> QED BY <1>1, <2>1, <2>2, <2>3, InText
<1>4. i \in s + 1..Len(text) + 1
  BY <1>1, <1>2, <1>3
<1>5. TagEnd(s) = Until(text, i, Blank \cup Breaks)
  BY DEF TagEnd, g
<1> HIDE DEF i
<1>6. i \in Nat \ {0}
  BY <1>4
<1>7. TagEnd(s) \in Nat /\ TagEnd(s) >= i /\ (TagEnd(s) <= Len(text) + 1 \/ TagEnd(s) = i)
  BY <1>1, <1>5, <1>6, UntilFacts
<1> QED BY <1>4, <1>7

LEMMA LexTagInv == IInv /\ lex_tag => IInv'
<1> SUFFICES ASSUME IInv, lex_tag PROVE IInv'
  OBVIOUS
<1>1. pc = "scan" /\ pc' = "scan" /\ flow_depth' = flow_depth /\ flow_depth \in Nat
  BY DEF lex_tag, IInv
<1>2. Start \in 1..Len(text) + 1 /\ Len(text) \in Nat /\ IsText(text)
  BY <1>1, ScanFacts
<1>3. /\ At(Start) = "!"
      /\ Lexed("TAG", Start, TagEnd(Start), Slice(Start, TagEnd(Start)), "plain")
  BY DEF lex_tag
<1>4. Start \in 1..Len(text)
  <2>1. At(Start) # Nul
    BY <1>3 DEF Nul
  <2>2. Start \in Nat
    BY <1>2
  <2> QED BY <1>2, <2>1, <2>2, InText
<1>5. TagEnd(Start) \in Start..Len(text) + 1
  BY <1>2, <1>4, TagEndFacts
<1>6. "TAG" \in TokenTypes /\ "plain" \in Styles
  BY DEF TokenTypes, Styles
<1> QED BY <1>1, <1>2, <1>3, <1>5, <1>6, LexedInv

(***************************************************************************)
(* Quoted scalars.  Only a '\' leads behind the end of the text, and only  *)
(* one that is the last character.                                         *)
(***************************************************************************)
LEMMA SingleEndFacts ==
  ASSUME IsText(text), NEW i \in 1..Len(text) + 1
  PROVE  SingleEnd(i) \in i..Len(text) + 1
<1> DEFINE n == Len(text) + 1
           turn(k) == CASE At(k) = "'" /\ At(k + 1) = "'" -> k + 2
                        [] At(k) = "'" /\ At(k + 1) # "'" -> k
                        [] At(k) = Nul                    -> k
                        [] OTHER                          -> k + 1
           next == [k \in 1..n |-> turn(k)]
           S == i..n
<1>1. n \in Nat /\ Len(text) \in Nat
  BY DEF IsText
<1>2. ASSUME NEW k \in 1..n PROVE turn(k) \in k..n
  <2>1. k \in Nat /\ k + 1 \in Nat
    OBVIOUS
  <2>2. At(k) # Nul => k + 1 <= n
    BY <1>1, <2>1, InText
  <2>3. At(k + 1) # Nul => k + 2 <= n
    BY <1>1, <2>1, InText
  <2>4. At(k + 1) = "'" => At(k + 1) # Nul
    BY DEF Nul
  <2>5. CASE At(k) = "'" /\ At(k + 1) = "'"
    <3>1. turn(k) = k + 2
      BY <2>5 DEF Nul
    <3> HIDE DEF turn
    <3> QED BY <1>1, <2>1, <2>3, <2>4, <2>5, <3>1
  <2>6. CASE At(k) = "'" /\ At(k + 1) # "'"
    <3>1. turn(k) = k
      BY <2>6 DEF Nul
    <3> HIDE DEF turn
    <3> QED BY <1>1, <3>1
  <2>7. CASE At(k) = Nul
    <3>1. turn(k) = k
      BY <2>7 DEF Nul
    <3> HIDE DEF turn
    <3> QED BY <1>1, <3>1
  <2>8. CASE At(k) # "'" /\ At(k) # Nul
    <3>1. turn(k) = k + 1
      BY <2>8
    <3> HIDE DEF turn
    <3> QED BY <1>1, <2>1, <2>2, <2>8, <3>1
  <2> QED BY <2>5, <2>6, <2>7, <2>8
<1>3. SingleEnd(i) = Follow(next, i)
  BY DEF SingleEnd
<1> HIDE DEF turn
<1>4. /\ next \in [1..n -> 1..n] /\ \A k \in 1..n : next[k] >= k
      /\ S \in SUBSET 1..n /\ i \in S /\ \A k \in S : next[k] \in S
  BY <1>1, <1>2
<1>5. Follow(next, i) \in S
  <2> HIDE DEF next, S, n
  <2> QED BY <1>1, <1>4, FollowKeeps
<1> QED BY <1>3, <1>5

LEMMA DoubleEndFacts ==
  ASSUME IsText(text), NEW i \in 1..Len(text) + 1
  PROVE  /\ DoubleEnd(i) \in i..Len(text) + 2
         /\ DoubleEnd(i) > Len(text) + 1 => Last(text) = "\\"
<1> DEFINE n == Len(text) + 2
           turn(k) == CASE At(k) = "\\"          -> k + 2
                        [] At(k) \in {"\"", Nul} -> k
                        [] OTHER                 -> k + 1
           next == [k \in 1..n |-> turn(k)]
           S == {k \in i..n : k = n => Last(text) = "\\"}
<1>1. n \in Nat /\ Len(text) \in Nat
  BY DEF IsText
<1>2. ASSUME NEW k \in 1..n
      PROVE  /\ turn(k) \in k..n
             /\ turn(k) = n /\ k # n => Last(text) = "\\"
  <2>1. At(k) # Nul => k <= Len(text) /\ At(k) = text[k]
    <3>1. k \in Nat
      OBVIOUS
    <3> QED BY <1>1, <3>1, InText
  <2>2. CASE At(k) = "\\"
    <3>1. turn(k) = k + 2 /\ At(k) # Nul
      BY <2>2 DEF Nul
    <3>2. k <= Len(text) /\ text[k] = "\\"
      BY <2>1, <2>2, <3>1
    <3> HIDE DEF turn
    <3> QED BY <1>1, <3>1, <3>2 DEF Last
  <2>3. CASE At(k) \in {"\"", Nul}
    <3>1. turn(k) = k
      BY <2>3 DEF Nul
    <3> HIDE DEF turn
    <3> QED BY <1>1, <3>1
  <2>4. CASE At(k) # "\\" /\ At(k) \notin {"\"", Nul}
    <3>1. turn(k) = k + 1 /\ At(k) # Nul
      BY <2>4
    <3> HIDE DEF turn
    <3> QED BY <1>1, <2>1, <3>1
  <2> QED BY <2>2, <2>3, <2>4
<1>3. DoubleEnd(i) = Follow(next, i)
  BY DEF DoubleEnd
<1> HIDE DEF turn
<1>4. /\ next \in [1..n -> 1..n] /\ \A k \in 1..n : next[k] >= k
      /\ S \in SUBSET 1..n /\ i \in S /\ \A k \in S : next[k] \in S
  BY <1>1, <1>2
<1>5. Follow(next, i) \in S
  <2> HIDE DEF next, S, n
  <2> QED BY <1>1, <1>4, FollowKeeps
<1> QED BY <1>1, <1>3, <1>5

LEMMA PastQuoteFacts ==
  ASSUME IsText(text), NEW i \in Nat, NEW q, q # Nul
  PROVE  /\ PastQuote(i, q) \in Nat /\ PastQuote(i, q) >= i
         /\ i <= Len(text) + 1 => PastQuote(i, q) <= Len(text) + 1
         /\ i > Len(text) + 1 => PastQuote(i, q) = i
<1>1. Len(text) \in Nat
  BY DEF IsText
<1>2. CASE At(i) = q
  <2>1. PastQuote(i, q) = i + 1
    BY <1>2 DEF PastQuote
  <2>2. At(i) # Nul
    BY <1>2
  <2>3. i \in 1..Len(text)
    BY <2>2, InText
  <2>4. /\ i + 1 \in Nat /\ i + 1 >= i
        /\ i <= Len(text) + 1 => i + 1 <= Len(text) + 1
        /\ ~ (i > Len(text) + 1)
    BY <1>1, <2>3
  <2> QED BY <2>1, <2>4, Zenon
<1>3. CASE At(i) # q
  <2>1. PastQuote(i, q) = i
    BY <1>3 DEF PastQuote
  <2>2. i \in Nat /\ i >= i
    OBVIOUS
  <2> QED BY <2>1, <2>2, Zenon
<1> QED BY <1>2, <1>3

LEMMA LexSingleInv == IInv /\ lex_single_quoted => IInv'
<1> SUFFICES ASSUME IInv, lex_single_quoted PROVE IInv'
  OBVIOUS
<1> DEFINE i == SingleEnd(Start + 1)
           j == PastQuote(i, "'")
<1>1. pc = "scan" /\ pc' = "scan" /\ flow_depth' = flow_depth /\ flow_depth \in Nat
  BY DEF lex_single_quoted, IInv
<1>2. Start \in 1..Len(text) + 1 /\ Len(text) \in Nat /\ IsText(text)
  BY <1>1, ScanFacts
<1>3. At(Start) = "'" /\ Lexed("SCALAR", Start, j, Slice(Start + 1, i), "single")
  BY DEF lex_single_quoted
<1>4. Start \in 1..Len(text)
  <2>1. At(Start) # Nul
    BY <1>3 DEF Nul
  <2>2. Start \in Nat
    BY <1>2
  <2> QED BY <1>2, <2>1, <2>2, InText
<1>5. i \in Start + 1..Len(text) + 1
  <2>1. Start + 1 \in 1..Len(text) + 1
    BY <1>2, <1>4
  <2> QED BY <1>2, <2>1, SingleEndFacts
<1> HIDE DEF i
<1>6. j \in Start..Len(text) + 1
  <2>1. i \in Nat /\ i <= Len(text) + 1 /\ i >= Start
    BY <1>2, <1>5
  <2>3. "'" # Nul
    BY DEF Nul
  <2>2. j \in Nat /\ j >= i /\ j <= Len(text) + 1
    BY <1>2, <2>1, <2>3, PastQuoteFacts
  <2> HIDE DEF j
  <2> QED BY <1>2, <2>1, <2>2
<1> HIDE DEF j
<1>7. "SCALAR" \in TokenTypes /\ "single" \in Styles
  BY DEF TokenTypes, Styles
<1> QED BY <1>1, <1>2, <1>3, <1>6, <1>7, LexedInv

LEMMA LexDoubleInv == IInv /\ lex_double_quoted => IInv'
<1> SUFFICES ASSUME IInv, lex_double_quoted PROVE IInv'
  OBVIOUS
<1> DEFINE i == DoubleEnd(Start + 1)
           j == PastQuote(i, "\"")
<1>1. pc = "scan" /\ flow_depth' = flow_depth /\ flow_depth \in Nat
  BY DEF lex_double_quoted, IInv
<1>2. Start \in 1..Len(text) + 1 /\ Len(text) \in Nat /\ IsText(text)
  BY <1>1, ScanFacts
<1>3. /\ At(Start) = "\"" /\ Lexed("SCALAR", Start, j, Slice(Start + 1, i), "double")
      /\ pc' = IF i > Len(text) + 1 THEN "astray" ELSE "scan"
  BY DEF lex_double_quoted
<1>4. Start \in 1..Len(text)
  <2>1. At(Start) # Nul
    BY <1>3 DEF Nul
  <2>2. Start \in Nat
    BY <1>2
  <2> QED BY <1>2, <2>1, <2>2, InText
<1>5. /\ i \in Start + 1..Len(text) + 2
      /\ i > Len(text) + 1 => Last(text) = "\\"
  <2>1. Start + 1 \in 1..Len(text) + 1
    BY <1>2, <1>4
  <2> QED BY <1>2, <2>1, DoubleEndFacts
<1> HIDE DEF i
<1>6. j \in Start..Len(text) + 2 /\ (i <= Len(text) + 1 => j <= Len(text) + 1)
  <2>1. i \in Nat /\ i <= Len(text) + 2 /\ i >= Start
    BY <1>2, <1>5
  <2>3. "\"" # Nul
    BY DEF Nul
  <2>2. /\ j \in Nat /\ j >= i
        /\ i <= Len(text) + 1 => j <= Len(text) + 1
        /\ i > Len(text) + 1 => j = i
    BY <1>2, <2>1, <2>3, PastQuoteFacts
  <2> HIDE DEF j
  <2> QED BY <1>2, <2>1, <2>2
<1> HIDE DEF j
<1>7. "SCALAR" \in TokenTypes /\ "double" \in Styles
  BY DEF TokenTypes, Styles
<1>8. /\ pc' \in {"scan", "astray"}
      /\ pc' = "scan" => j <= Len(text) + 1
      /\ pc' = "astray" => Last(text) = "\\"
  <2>1. i \in Nat /\ Len(text) \in Nat
    BY <1>2, <1>5
  <2>2. CASE i > Len(text) + 1
    <3>1. pc' = "astray"
      BY <1>3, <2>2
    <3>2. "astray" # "scan"
      OBVIOUS
    <3> QED BY <1>5, <2>2, <3>1, <3>2
  <2>3. CASE ~ (i > Len(text) + 1)
    <3>1. pc' = "scan"
      BY <1>3, <2>3
    <3>2. j <= Len(text) + 1
      BY <1>6, <2>1, <2>3
    <3>3. "astray" # "scan"
      OBVIOUS
    <3> QED BY <3>1, <3>2, <3>3
  <2> QED BY <2>2, <2>3
<1>9. Lexed("SCALAR", Start, j, Slice(Start + 1, i), "double") /\ flow_depth' \in Nat
  BY <1>1, <1>3
<1> QED BY <1>1, <1>6, <1>7, <1>8, <1>9, LexedInv

(***************************************************************************)
(* Plain scalars.                                                          *)
(***************************************************************************)
LEMMA PlainEndFacts ==
  ASSUME IsText(text), NEW s \in 1..Len(text) + 1
  PROVE  PlainEnd(s) \in s..Len(text) + 1
<1> DEFINE R == {i \in s..Len(text) : PlainStop(s, i)} \cup {Len(text) + 1}
<1>1. Len(text) \in Nat
  BY DEF IsText
<1>2. R \in SUBSET Nat /\ R # {} /\ \A x \in R : x \in s..Len(text) + 1
  BY <1>1
<1>3. PlainEnd(s) = Min(R)
  BY DEF PlainEnd
<1> HIDE DEF R
<1>4. Min(R) \in R
  BY <1>2, LeastOf
<1> QED BY <1>2, <1>3, <1>4

LEMMA LexPlainInv == IInv /\ lex_plain => IInv'
<1> SUFFICES ASSUME IInv, lex_plain PROVE IInv'
  OBVIOUS
<1> DEFINE i == PlainEnd(Start)
<1>1. pc = "scan" /\ flow_depth \in Nat
  BY DEF lex_plain, IInv
<1>2. Start \in 1..Len(text) + 1 /\ Len(text) \in Nat /\ IsText(text)
  BY <1>1, ScanFacts
<1>3. \/ UNCHANGED vars
      \/ /\ Lexed("SCALAR", Start, i, Trimmed(Slice(Start, i)), "plain")
         /\ UNCHANGED <<flow_depth, pc>>
  BY DEF lex_plain
<1>4. i \in Start..Len(text) + 1
  BY <1>2, PlainEndFacts
<1> HIDE DEF i
<1>5. CASE UNCHANGED vars
  BY <1>5 DEF IInv, vars, BlockOK, ArrayOK
<1>6. CASE /\ Lexed("SCALAR", Start, i, Trimmed(Slice(Start, i)), "plain")
           /\ UNCHANGED <<flow_depth, pc>>
  <2>1. "SCALAR" \in TokenTypes /\ "plain" \in Styles
    BY DEF TokenTypes, Styles
  <2>2. i \in Start..Len(text) + 2 /\ i <= Len(text) + 1
    BY <1>2, <1>4
  <2> QED BY <1>1, <1>6, <2>1, <2>2, LexedInv
<1> QED BY <1>3, <1>5, <1>6

(***************************************************************************)
(* Block scalars: the header, the buffer that grows, and the lines.        *)
(***************************************************************************)
LEMMA SpacesFacts ==
  ASSUME IsText(text), NEW i \in 1..Len(text) + 1
  PROVE  /\ Spaces(i) \in Nat
         /\ i + Spaces(i) \in i..Len(text) + 1
         /\ \A j \in i..(i + Spaces(i)) - 1 : At(j) = " "
<1> DEFINE w == While(text, i, {" "})
<1>1. w \in i..Len(text) + 1
  BY WithinText
<1>2. \A j \in i..w - 1 : At(j) = " "
  <2>1. \A j \in i..w - 1 : At(j) \in {" "}
    BY WithinText
  <2> QED BY <2>1, Zenon
<1>3. Spaces(i) = w - i /\ Len(text) \in Nat
  BY DEF Spaces, IsText
<1> HIDE DEF w
<1>4. Spaces(i) \in Nat /\ i + Spaces(i) = w
  BY <1>1, <1>3
<1> HIDE DEF w
<1>5. \A x : x = w => x \in i..Len(text) + 1 /\ \A j \in i..x - 1 : At(j) = " "
  BY <1>1, <1>2, Zenon
<1>6. \A j \in i..(i + Spaces(i)) - 1 : At(j) = " "
  BY <1>4, <1>5, Zenon
<1> QED BY <1>4, <1>5, <1>6, Zenon

(* A place behind a character that is there. *)
LEMMA NextPlace ==
  ASSUME IsText(text), NEW i \in 1..Len(text) + 1, At(i) # Nul
  PROVE  i + 1 \in 1..Len(text) + 1
<1>1. i \in Nat /\ Len(text) \in Nat
  BY DEF IsText
<1>2. i \in 1..Len(text)
  BY <1>1, InText
<1> QED BY <1>1, <1>2

LEMMA PastBreakFacts ==
  ASSUME IsText(text), NEW i \in 1..Len(text) + 1
  PROVE  PastBreak(i) \in i..Len(text) + 1
<1> DEFINE j == IF At(i) = "\r" THEN i + 1 ELSE i
<1>1. Len(text) \in Nat
  BY DEF IsText
<1>2. j \in i..Len(text) + 1
  <2>1. CASE At(i) = "\r"
    <3>1. At(i) # Nul
      BY <2>1 DEF Nul
    <3> QED BY <1>1, <2>1, <3>1, NextPlace
  <2>2. CASE At(i) # "\r"
    BY <1>1, <2>2
  <2> QED BY <2>1, <2>2
<1>3. PastBreak(i) = IF At(j) = "\n" THEN j + 1 ELSE j
  BY DEF PastBreak
<1> HIDE DEF j
<1>4. j \in 1..Len(text) + 1
  BY <1>1, <1>2
<1>5. CASE At(j) = "\n"
  <2>1. At(j) # Nul
    BY <1>5 DEF Nul
  <2>2. j + 1 \in 1..Len(text) + 1
    BY <1>4, <2>1, NextPlace
  <2>3. PastBreak(i) = j + 1
    BY <1>3, <1>5
  <2> QED BY <1>1, <1>2, <2>2, <2>3
<1>6. CASE At(j) # "\n"
  BY <1>2, <1>3, <1>6
<1> QED BY <1>5, <1>6

LEMMA DigitFacts ==
  ASSUME NEW c \in Nonzero
  PROVE  DigitOf(c) \in Nat
<1>1. \E n \in 1..9 : <<"1", "2", "3", "4", "5", "6", "7", "8", "9">>[n] = c
  <2> DEFINE T == <<"1", "2", "3", "4", "5", "6", "7", "8", "9">>
  <2>1. /\ T[1] = "1" /\ T[2] = "2" /\ T[3] = "3" /\ T[4] = "4" /\ T[5] = "5"
        /\ T[6] = "6" /\ T[7] = "7" /\ T[8] = "8" /\ T[9] = "9"
    OBVIOUS
  <2>2. c \in {"1", "2", "3", "4", "5", "6", "7", "8", "9"}
    BY DEF Nonzero, Digits
  <2>3. /\ 1 \in 1..9 /\ 2 \in 1..9 /\ 3 \in 1..9 /\ 4 \in 1..9 /\ 5 \in 1..9
        /\ 6 \in 1..9 /\ 7 \in 1..9 /\ 8 \in 1..9 /\ 9 \in 1..9
    OBVIOUS
  <2> HIDE DEF T
  <2>4. \E n \in 1..9 : T[n] = c
    BY <2>1, <2>2, <2>3, Zenon
  <2> QED BY <2>4 DEF T
<1>2. DigitOf(c) \in 1..9
  BY <1>1 DEF DigitOf
<1> QED BY <1>2

LEMMA HeaderFacts ==
  ASSUME IsText(text), NEW s \in 1..Len(text)
  PROVE  HeaderEnd(s).indent \in Nat /\ HeaderEnd(s).to \in s + 1..Len(text) + 1
<1> DEFINE S == ChompChars \cup Nonzero
           h == While(text, s + 1, S)
           b == While(text, h, Blank)
           e == Until(text, b, {"\n"})
           c == IF At(b) = "#" THEN (IF At(e) = "\n" THEN e + 1 ELSE e) ELSE b
           k == {j \in s + 1..h - 1 : At(j) \in Nonzero}
<1>1. /\ HeaderEnd(s).indent = IF k = {} THEN 0 ELSE DigitOf(At(Max(k)))
      /\ HeaderEnd(s).to = IF At(c) = "\n" THEN c + 1 ELSE c
  BY DEF HeaderEnd
<1>2. Len(text) \in Nat /\ s + 1 \in 1..Len(text) + 1
  BY DEF IsText
<1>3. h \in s + 1..Len(text) + 1
  BY <1>2, WithinText
<1> HIDE DEF h
<1>4. h \in 1..Len(text) + 1 /\ h >= s + 1 /\ h \in Nat
  BY <1>2, <1>3
<1>5. b \in h..Len(text) + 1
  BY <1>4, WithinText
<1> HIDE DEF b
<1>6. b \in 1..Len(text) + 1 /\ b >= s + 1 /\ b \in Nat
  BY <1>2, <1>4, <1>5
<1>7. e \in b..Len(text) + 1
  BY <1>6, WithinText
<1> HIDE DEF e
<1>8. e \in 1..Len(text) + 1 /\ e >= s + 1 /\ e \in Nat
  BY <1>2, <1>6, <1>7
<1>9. \A i \in 1..Len(text) + 1 : At(i) = "\n" => i + 1 \in 1..Len(text) + 1
  <2> TAKE i \in 1..Len(text) + 1
  <2> HAVE At(i) = "\n"
  <2>1. At(i) # Nul
    BY DEF Nul
  <2> QED BY <2>1, NextPlace
<1>10. c \in 1..Len(text) + 1 /\ c >= s + 1 /\ c \in Nat
  BY <1>6, <1>8, <1>9
<1> HIDE DEF c
<1>11. HeaderEnd(s).to \in s + 1..Len(text) + 1
  <2>1. CASE At(c) = "\n"
    <3>1. HeaderEnd(s).to = c + 1 /\ c + 1 \in 1..Len(text) + 1
      BY <1>1, <1>9, <1>10, <2>1
    <3> QED BY <1>2, <1>10, <3>1
  <2>2. CASE At(c) # "\n"
    BY <1>1, <1>2, <1>10, <2>2
  <2> QED BY <2>1, <2>2
<1>12. HeaderEnd(s).indent \in Nat
  <2>1. CASE k = {}
    BY <1>1, <2>1
  <2>2. CASE k # {}
    <3>1. k \in SUBSET 0..Len(text) + 1 /\ Len(text) + 1 \in Nat
      BY <1>2, <1>4
    <3>2. Max(k) \in k
      <4> HIDE DEF k
      <4> QED BY <2>2, <3>1, GreatestOf
    <3>3. At(Max(k)) \in Nonzero
      BY <3>2
    <3> HIDE DEF k
    <3> QED BY <1>1, <2>2, <3>3, DigitFacts
  <2> QED BY <2>1, <2>2
<1> QED BY <1>11, <1>12

(* Spaces behind a header stand on the next line. *)
LEMMA HeaderSpaces ==
  ASSUME IsText(text), NEW s \in 1..Len(text), At(HeaderEnd(s).to) \in Blank
  PROVE  At(HeaderEnd(s).to - 1) = "\n"
<1> DEFINE S == ChompChars \cup Nonzero
           h == While(text, s + 1, S)
           b == While(text, h, Blank)
           e == Until(text, b, {"\n"})
           c == IF At(b) = "#" THEN (IF At(e) = "\n" THEN e + 1 ELSE e) ELSE b
<1>1. HeaderEnd(s).to = IF At(c) = "\n" THEN c + 1 ELSE c
  BY DEF HeaderEnd
<1>2. Len(text) \in Nat /\ s + 1 \in 1..Len(text) + 1 /\ DOMAIN text = 1..Len(text)
  BY DEF IsText
<1>3. h \in 1..Len(text) + 1
  <2>1. h \in s + 1..Len(text) + 1
    BY <1>2, WithinText
  <2> HIDE DEF h
  <2> QED BY <1>2, <2>1
<1> HIDE DEF h
<1>4. b \in 1..Len(text) + 1 /\ At(b) \notin Blank
  <2>1. b \in h..Len(text) + 1
    BY <1>3, WithinText
  <2>2. b <= Len(text) => text[b] \notin Blank
    BY <1>2, <1>3, WhileFacts
  <2> HIDE DEF b
  <2>3. b \in 1..Len(text) + 1
    BY <1>2, <1>3, <2>1
  <2>4. At(b) \notin Blank
    <3>1. CASE b <= Len(text)
      <4>1. At(b) = text[b]
        BY <1>2, <2>3, <3>1 DEF At, CharAt
      <4> QED BY <2>2, <3>1, <4>1
    <3>2. CASE ~ (b <= Len(text))
      <4>1. b \notin DOMAIN text
        BY <1>2, <2>3, <3>2
      <4> QED BY <4>1 DEF At, CharAt, Nul, Blank
    <3> QED BY <3>1, <3>2
  <2> QED BY <2>3, <2>4
<1> HIDE DEF b
<1>5. e \in 1..Len(text) + 1 /\ At(e) \in {"\n", Nul}
  <2>1. e \in b..Len(text) + 1
    BY <1>4, WithinText
  <2>2. e <= Len(text) => text[e] \in {"\n"}
    BY <1>2, <1>4, UntilFacts
  <2> HIDE DEF e
  <2>3. e \in 1..Len(text) + 1
    BY <1>2, <1>4, <2>1
  <2> QED BY <1>2, <2>2, <2>3 DEF At, CharAt
<1> HIDE DEF e
<1>6. CASE At(c) = "\n"
  <2>1. HeaderEnd(s).to = c + 1 /\ c \in Nat
    BY <1>1, <1>4, <1>5, <1>6
  <2> HIDE DEF c
  <2>2. (c + 1) - 1 = c
    BY <2>1
  <2> QED BY <1>6, <2>1, <2>2
<1>7. CASE At(c) # "\n"
  <2>1. HeaderEnd(s).to = c /\ At(c) \in Blank
    BY <1>1, <1>7
  <2>0. Nul \notin Blank
    BY DEF Nul, Blank
  <2>2. At(b) = "#" /\ At(e) = "\n" /\ c = e + 1
    BY <1>4, <1>5, <1>7, <2>1, <2>0
  <2>3. (e + 1) - 1 = e
    BY <1>5
  <2> QED BY <2>1, <2>2, <2>3
<1> QED BY <1>6, <1>7

(* The buffer is made as large as it takes. *)
LEMMA CapacityFacts ==
  ASSUME NEW n \in Nat, blk.cap \in Nat, Len(blk.buf) \in Nat, Len(blk.buf) < blk.cap
  PROVE  Capacity(n) \in Nat /\ Len(blk.buf) + n < Capacity(n)
<1> DEFINE a == blk.cap
           l == Len(blk.buf)
           m == 2 * (a + n)
           next == [c \in 1..m |-> IF l + n >= c THEN 2 * c ELSE c]
           S == a..m
<1>1. Capacity(n) = Follow(next, a)
  BY DEF Capacity
<1>2. a \in Nat /\ l \in Nat /\ l < a /\ m \in Nat /\ a \in S /\ S \in SUBSET 1..m
  OBVIOUS
<1> HIDE DEF a, l
<1>3. \A c \in 1..m : next[c] \in 1..m /\ next[c] >= c
  BY <1>2
<1>4. next \in [1..m -> 1..m] /\ \A c \in S : next[c] \in S
  BY <1>2, <1>3
<1>5. Follow(next, a) \in S /\ next[Follow(next, a)] = Follow(next, a)
  <2> HIDE DEF S, next, m
  <2> QED BY <1>2, <1>3, <1>4, FollowKeeps
<1> DEFINE c == Follow(next, a)
<1>6. c \in 1..m /\ c \in Nat
  BY <1>2, <1>5
<1>7. next[c] = (IF l + n >= c THEN 2 * c ELSE c) /\ next[c] = c
  BY <1>5, <1>6
<1> HIDE DEF c, next, S
<1>8. ~ (l + n >= c)
  BY <1>2, <1>6, <1>7
<1>9. c \in Nat /\ l + n < c
  BY <1>2, <1>6, <1>8
<1> QED BY <1>1, <1>9 DEF c, l

LEMMA BlockFacts ==
  ASSUME IInv, pc \in {"block", "text"}
  PROVE  /\ IsText(text) /\ Len(text) \in Nat /\ p \in 1..Len(text) + 1
         /\ BlockOK(blk, text, p) /\ Len(blk.buf) \in Nat
         /\ \A i \in Nat : p <= i =>
              /\ LineTo(i) = LineIn(text, i) /\ ColTo(i) = ColIn(text, i)
<1>1. /\ IsText(text) /\ Len(text) \in Nat /\ p \in 1..Len(text) + 1
      /\ line = LineIn(text, p) /\ col = ColIn(text, p)
      /\ BlockOK(blk, text, p)
  BY DEF IInv, IsText
<1>2. Len(blk.buf) \in Nat
  BY <1>1, SeqDomain DEF BlockOK
<1>3. p \in Nat \ {0}
  BY <1>1
<1> QED BY <1>1, <1>2, <1>3, Cursor

(* The token of a block scalar, whole or given up. *)
LEMMA BlockToken ==
  ASSUME IsText(text), p \in 1..Len(text) + 1, BlockOK(blk, text, p),
         NEW i \in Nat, p <= i, NEW val, NEW owned \in BOOLEAN
  PROVE  TokenIn(Token("SCALAR", [line |-> blk.line, col |-> blk.col], blk.at, i, val,
                       blk.style, owned), text)
<1>1. [line |-> blk.line, col |-> blk.col] = Here(text, blk.at)
  BY DEF BlockOK, Here
<1>2. blk.at \in 1..p /\ blk.style \in {"literal", "folded"}
  BY DEF BlockOK
<1>3. blk.at \in 1..Len(text) + 1 /\ blk.at <= i
  BY <1>2 DEF IsText
<1>4. "SCALAR" \in TokenTypes /\ blk.style \in Styles
  BY <1>2 DEF TokenTypes, Styles
<1> DEFINE a == blk.at
           st == blk.style
<1> HIDE DEF a, st
<1>5. TokenIn(Token("SCALAR", Here(text, a), a, i, val, st, owned), text)
  <2>1. a \in 1..Len(text) + 1 /\ a <= i /\ st \in Styles /\ st \in {"literal", "folded"}
    BY <1>2, <1>3, <1>4 DEF a, st
  <2> QED BY <1>4, <2>1, TokenMade
<1> QED BY <1>1, <1>5, Zenon DEF a, st

(* Characters put into the buffer, which grows or is given up. *)
LEMMA AppendedInv ==
  ASSUME IInv, pc \in {"block", "text"},
         NEW cs, IsSeq(cs), NEW n \in Nat, Len(cs) <= n,
         NEW q \in p..Len(text) + 1, NEW i \in p..Len(text) + 1,
         NEW l \in {"block", "text"}, Appended(cs, n, q, i, l), Body
  PROVE  IInv'
<1>1. /\ IsText(text) /\ Len(text) \in Nat /\ p \in 1..Len(text) + 1
      /\ BlockOK(blk, text, p) /\ Len(blk.buf) \in Nat
  BY BlockFacts
<1>2. /\ LineTo(i) = LineIn(text, i) /\ ColTo(i) = ColIn(text, i)
      /\ LineTo(q) = LineIn(text, q) /\ ColTo(q) = ColIn(text, q)
  <2>1. i \in Nat /\ p <= i /\ q \in Nat /\ p <= q
    BY <1>1
  <2> QED BY <2>1, BlockFacts
<1>3. UNCHANGED <<source, text, storage, flow_depth>>
  BY DEF Body
<1>4. CASE /\ blk' = [blk EXCEPT !.buf = @ \o cs, !.cap = Capacity(n)]
           /\ AdvanceTo(i)
           /\ pc' = l
           /\ NoPush /\ UNCHANGED <<error, faults>>
  <2>1. p' = i /\ line' = LineIn(text, i) /\ col' = ColIn(text, i)
    BY <1>2, <1>4 DEF AdvanceTo
  <2>2. BlockOK(blk', text, i)
    <3>1. /\ DOMAIN blk = {"style", "at", "line", "col", "chomp", "base", "buf", "cap"}
          /\ IsSeq(blk.buf) /\ blk.cap \in Nat /\ Len(blk.buf) < blk.cap
      BY <1>1 DEF BlockOK, NoBlock
    <3>2. Capacity(n) \in Nat /\ Len(blk.buf) + n < Capacity(n)
      BY <1>1, <3>1, CapacityFacts
    <3>3. /\ blk'.buf = blk.buf \o cs /\ blk'.cap = Capacity(n)
          /\ DOMAIN blk' = DOMAIN blk
          /\ blk'.style = blk.style /\ blk'.at = blk.at /\ blk'.line = blk.line
          /\ blk'.col = blk.col /\ blk'.base = blk.base
      BY <1>4, <3>1
    <3> DEFINE b == blk.buf
    <3>4. IsSeq(b \o cs) /\ Len(b \o cs) = Len(b) + Len(cs) /\ Len(cs) \in Nat
      <4>1. IsSeq(b)
        BY <3>1
      <4> HIDE DEF b
      <4> QED BY <4>1, SeqConcat, SeqDomain
    <3>5. Len(blk'.buf) < blk'.cap
      <4>1. Len(b) \in Nat /\ Len(b) + n < Capacity(n)
        BY <1>1, <3>2
      <4> HIDE DEF b
      <4>2. Len(b \o cs) < Capacity(n)
        BY <3>2, <3>4, <4>1
      <4> QED BY <3>3, <4>2 DEF b
    <3>6. blk.at \in 1..i
      <4>1. blk.at \in 1..p
        BY <1>1 DEF BlockOK
      <4> QED BY <1>1, <4>1
    <3> QED BY <1>1, <3>2, <3>3, <3>4, <3>5, <3>6 DEF BlockOK
  <2>3. i \in Nat \ {0} /\ i <= Len(text) + 1
    BY <1>1
  <2>4. /\ pc' \in Labels /\ pc' \in Lexing /\ pc \in Lexing
        /\ pc' \notin {"call", "done", "astray"}
    BY <1>4 DEF Labels, Lexing
  <2>5. UNCHANGED <<error, faults, tokens, dropped>> /\ ArrayOK'
    <3>1. pc # "refused"
      OBVIOUS
    <3> QED BY <1>4, <3>1, NotPushed DEF NoPush
  <2> QED BY <1>1, <1>3, <2>1, <2>2, <2>3, <2>4, <2>5 DEF IInv
<1>5. CASE /\ Capacity(n) # blk.cap /\ faults < MaxFaults
           /\ AdvanceTo(q)
           /\ GiveUp
  <2>1. p' = q /\ line' = LineIn(text, q) /\ col' = ColIn(text, q)
    BY <1>2, <1>5 DEF AdvanceTo
  <2>2. /\ error' = TRUE /\ pc' = "scan"
        /\ Push(Token("SCALAR", [line |-> blk.line, col |-> blk.col], blk.at, q, <<>>,
                      blk.style, FALSE), 1)
    BY <1>5, <2>1 DEF GiveUp
  <2>3. /\ IsSeq(tokens') /\ \A k \in 1..Len(tokens') : TokenIn(tokens'[k], text)
        /\ ArrayOK' /\ faults' \in Nat
    <3> DEFINE tok == Token("SCALAR", [line |-> blk.line, col |-> blk.col], blk.at, q,
                            <<>>, blk.style, FALSE)
    <3>1. TokenIn(tok, text)
      <4>1. q \in Nat /\ p <= q
        BY <1>1
      <4> QED BY <1>1, <4>1, BlockToken
    <3>2. pc \in Lexing /\ 1 \in Nat
      BY DEF Lexing
    <3>3. Push(tok, 1)
      BY <2>2
    <3> HIDE DEF tok
    <3> QED BY <3>1, <3>2, <3>3, Pushed
  <2>4. q \in Nat \ {0} /\ q <= Len(text) + 1
    BY <1>1
  <2>5. pc' \in Labels /\ pc' \notin {"call", "done", "astray", "block", "text"}
    BY <2>2 DEF Labels, Lexing
  <2>6. error' \in BOOLEAN
    BY <2>2
  <2> QED BY <1>1, <1>3, <2>1, <2>2, <2>3, <2>4, <2>5, <2>6 DEF IInv
<1> QED BY <1>4, <1>5 DEF Appended

LEMMA BlockHeaderInv == IInv /\ BlockHeader => IInv'
<1> SUFFICES ASSUME IInv, BlockHeader PROVE IInv'
  OBVIOUS
<1> DEFINE s == Start
           h == HeaderEnd(s)
           i == h.to
<1>1. pc = "scan" /\ At(s) \in {"|", ">"} /\ AdvanceTo(i)
      /\ UNCHANGED <<source, text, storage, flow_depth>>
  BY DEF BlockHeader
<1>2. PICK f \in FailAt(1) :
        /\ error' = (error \/ f = 1)
        /\ blk' = IF f = 1 THEN blk
                  ELSE [style |-> BlockStyle(s),
                        at |-> s, line |-> LineTo(s), col |-> ColTo(s),
                        chomp |-> h.chomp,
                        base |-> IF h.indent = 0 THEN Spaces(i) ELSE h.indent,
                        buf |-> <<>>, cap |-> BlockCap]
        /\ IF f = 0 THEN NoPush /\ UNCHANGED faults
           ELSE Push(Token("SCALAR", PlaceAt(s), s, i, <<>>, BlockStyle(s), FALSE), 1)
        /\ pc' = IF f = 0 THEN "block" ELSE "scan"
  BY DEF BlockHeader
<1>3. /\ IsText(text) /\ Len(text) \in Nat /\ p \in 1..Len(text) + 1
      /\ s \in p..Len(text) + 1
  BY <1>1, ScanFacts
<1>4. s \in 1..Len(text)
  <2>1. At(s) # Nul
    BY <1>1 DEF Nul
  <2>2. s \in Nat
    BY <1>3
  <2> HIDE DEF s
  <2> QED BY <1>3, <2>1, <2>2, InText
<1>5. h.indent \in Nat /\ i \in s + 1..Len(text) + 1
  <2> HIDE DEF s
  <2> QED BY <1>3, <1>4, HeaderFacts
<1>6. /\ LineTo(s) = LineIn(text, s) /\ ColTo(s) = ColIn(text, s)
      /\ PlaceAt(s) = Here(text, s)
      /\ LineTo(i) = LineIn(text, i) /\ ColTo(i) = ColIn(text, i)
  <2>1. s \in Nat /\ p <= s /\ i \in Nat /\ p <= i
    <3> HIDE DEF s, i
    <3> QED BY <1>3, <1>5
  <2> HIDE DEF s, i
  <2> QED BY <1>1, <2>1, ScanFacts
<1>7. BlockStyle(s) \in {"literal", "folded"} /\ BlockStyle(s) \in Styles
      /\ "SCALAR" \in TokenTypes
  BY DEF BlockStyle, Styles, TokenTypes
<1>8. Spaces(i) \in Nat
  <2>1. i \in 1..Len(text) + 1
    <3> HIDE DEF s, i
    <3> QED BY <1>3, <1>4, <1>5
  <2> HIDE DEF i
  <2> QED BY <1>3, <2>1, SpacesFacts
<1> DEFINE base == IF h.indent = 0 THEN Spaces(i) ELSE h.indent
<1>9. base \in Nat
  BY <1>5, <1>8
<1> HIDE DEF s, h, i, base
<1>10. p' = i /\ line' = LineIn(text, i) /\ col' = ColIn(text, i)
       /\ i \in Nat \ {0} /\ i <= Len(text) + 1 /\ s <= i
  BY <1>1, <1>3, <1>4, <1>5, <1>6 DEF AdvanceTo
<1>11. CASE f = 0
  <2>1. /\ UNCHANGED <<tokens, dropped, faults, error>> /\ pc' = "block" /\ ArrayOK'
    <3>1. NoPush /\ faults' = faults /\ pc' = "block" /\ error' = error
      BY <1>2, <1>11 DEF IInv
    <3>2. pc # "refused"
      BY <1>1
    <3> QED BY <3>1, <3>2, NotPushed DEF NoPush
  <2>2. blk' = [style |-> BlockStyle(s),
                at |-> s, line |-> LineTo(s), col |-> ColTo(s),
                chomp |-> h.chomp, base |-> base, buf |-> <<>>, cap |-> BlockCap]
    BY <1>2, <1>11 DEF base
  <2>3. BlockOK(blk', text, i)
    <3>1. /\ DOMAIN blk' = DOMAIN NoBlock
          /\ blk'.style = BlockStyle(s) /\ blk'.at = s
          /\ blk'.line = LineIn(text, s) /\ blk'.col = ColIn(text, s)
          /\ blk'.base = base /\ blk'.buf = <<>> /\ blk'.cap = BlockCap
      BY <1>6, <2>2 DEF NoBlock
    <3>2. IsSeq(<<>>) /\ Len(<<>>) = 0
      BY EmptyIsSeq
    <3>3. BlockCap \in Nat /\ 0 < BlockCap
      BY BlockCapAssumption
    <3>4. s \in 1..i
      BY <1>4, <1>10
    <3> QED BY <1>7, <1>9, <3>1, <3>2, <3>3, <3>4 DEF BlockOK
  <2>4. pc' \in Labels /\ pc' \notin {"call", "done", "astray"} /\ pc \in Lexing
    BY <1>1, <2>1 DEF Labels, Lexing
  <2> QED BY <1>1, <1>3, <1>10, <2>1, <2>3, <2>4 DEF IInv
<1>12. CASE f # 0
  <2>1. f = 1
    BY <1>12 DEF FailAt
  <2>2. /\ Push(Token("SCALAR", Here(text, s), s, i, <<>>, BlockStyle(s), FALSE), 1)
        /\ pc' = "scan" /\ error' = TRUE
    <3>1. /\ Push(Token("SCALAR", PlaceAt(s), s, i, <<>>, BlockStyle(s), FALSE), 1)
          /\ pc' = "scan"
      BY <1>2, <1>12
    <3>2. error' = TRUE
      BY <1>2, <2>1, Zenon
    <3> QED BY <1>6, <3>1, <3>2, Zenon
  <2>3. /\ IsSeq(tokens') /\ \A k \in 1..Len(tokens') : TokenIn(tokens'[k], text)
        /\ ArrayOK' /\ faults' \in Nat
    <3> DEFINE tok == Token("SCALAR", Here(text, s), s, i, <<>>, BlockStyle(s), FALSE)
    <3>1. TokenIn(tok, text)
      <4>1. s \in 1..Len(text) + 1
        BY <1>3, <1>4
      <4> QED BY <1>3, <1>7, <1>10, <4>1, TokenMade
    <3>2. pc \in Lexing /\ 1 \in Nat
      BY <1>1 DEF Lexing
    <3>3. Push(tok, 1)
      BY <2>2
    <3> HIDE DEF tok
    <3> QED BY <3>1, <3>2, <3>3, Pushed
  <2>4. pc' \in Labels /\ pc' \notin {"call", "done", "astray", "block", "text"}
    BY <2>2 DEF Labels, Lexing
  <2>5. error' \in BOOLEAN
    BY <2>2
  <2> QED BY <1>1, <1>3, <1>10, <2>2, <2>3, <2>4, <2>5 DEF IInv
<1> QED BY <1>11, <1>12

LEMMA BlockBlankInv == IInv /\ BlockBlank => IInv'
<1> SUFFICES ASSUME IInv, BlockBlank PROVE IInv'
  OBVIOUS
<1> DEFINE q == p + Spaces(p)
           i == PastBreak(q)
<1>1. pc = "block" /\ Appended(<<"\n">>, 1, q, i, "block") /\ Body
  BY DEF BlockBlank
<1>2. IsText(text) /\ Len(text) \in Nat /\ p \in 1..Len(text) + 1
  BY <1>1, BlockFacts
<1>3. q \in p..Len(text) + 1
  BY <1>2, SpacesFacts
<1> HIDE DEF q
<1>4. i \in q..Len(text) + 1
  <2>1. q \in 1..Len(text) + 1
    BY <1>2, <1>3
  <2> QED BY <1>2, <2>1, PastBreakFacts
<1> HIDE DEF i
<1>5. i \in p..Len(text) + 1
  BY <1>2, <1>3, <1>4
<1>6. IsSeq(<<"\n">>) /\ Len(<<"\n">>) = 1 /\ 1 \in Nat
  <2>1. <<"\n">> \in Seq({"\n"})
    OBVIOUS
  <2> QED BY <2>1, SeqIntro
<1>7. "block" \in {"block", "text"} /\ pc \in {"block", "text"} /\ 1 <= 1
  BY <1>1
<1> DEFINE cs == <<"\n">>
<1>8. IsSeq(cs) /\ Len(cs) <= 1 /\ Appended(cs, 1, q, i, "block")
  BY <1>1, <1>6
<1> HIDE DEF cs
<1> QED BY <1>1, <1>3, <1>5, <1>6, <1>7, <1>8, AppendedInv

LEMMA BlockNewlineInv == IInv /\ BlockNewline => IInv'
<1> SUFFICES ASSUME IInv, BlockNewline PROVE IInv'
  OBVIOUS
<1> DEFINE i == PastBreak(p)
           cs == <<"\n">>
<1>1. pc = "text" /\ Appended(cs, 1, p, i, "block") /\ Body
  BY DEF BlockNewline
<1>2. IsText(text) /\ Len(text) \in Nat /\ p \in 1..Len(text) + 1
  BY <1>1, BlockFacts
<1>3. i \in p..Len(text) + 1 /\ p \in p..Len(text) + 1
  BY <1>2, PastBreakFacts
<1> HIDE DEF i
<1>4. IsSeq(cs) /\ Len(cs) <= 1 /\ 1 \in Nat
  <2>1. cs \in Seq({"\n"}) /\ Len(cs) = 1
    OBVIOUS
  <2> HIDE DEF cs
  <2> QED BY <2>1, SeqIntro
<1> HIDE DEF cs
<1>5. "block" \in {"block", "text"} /\ pc \in {"block", "text"}
  BY <1>1
<1> QED BY <1>1, <1>3, <1>4, <1>5, AppendedInv

LEMMA BlockCharInv == IInv /\ BlockChar => IInv'
<1> SUFFICES ASSUME IInv, BlockChar PROVE IInv'
  OBVIOUS
<1> DEFINE i == p + 1
           c == At(p)
           cs == <<c>>
<1>1. pc = "text" /\ c \notin Breaks \cup {Nul} /\ Appended(cs, 1, p, i, "text") /\ Body
  BY DEF BlockChar
<1>2. IsText(text) /\ Len(text) \in Nat /\ p \in 1..Len(text) + 1
  BY <1>1, BlockFacts
<1>3. i \in p..Len(text) + 1 /\ p \in p..Len(text) + 1
  <2>1. At(p) # Nul
    BY <1>1
  <2>2. i \in 1..Len(text) + 1
    BY <1>2, <2>1, NextPlace
  <2> QED BY <1>2, <2>2
<1> HIDE DEF i, c
<1>4. IsSeq(cs) /\ Len(cs) <= 1 /\ 1 \in Nat
  <2>1. cs \in Seq({c}) /\ Len(cs) = 1
    OBVIOUS
  <2> HIDE DEF cs
  <2> QED BY <2>1, SeqIntro
<1> HIDE DEF cs
<1>5. "text" \in {"block", "text"} /\ pc \in {"block", "text"}
  BY <1>1
<1> QED BY <1>1, <1>3, <1>4, <1>5, AppendedInv

LEMMA BlockIndentInv == IInv /\ BlockIndent => IInv'
<1> SUFFICES ASSUME IInv, BlockIndent PROVE IInv'
  OBVIOUS
<1> DEFINE q == p + Spaces(p)
           extra == Spaces(p) - blk.base
           n == extra + 1
           cs == [k \in 1..extra |-> " "]
<1>1. pc = "block" /\ Spaces(p) >= blk.base /\ Body
  BY DEF BlockIndent
<1>7. Appended(cs, n, q, q, "text")
  BY DEF BlockIndent
<1>2. IsText(text) /\ Len(text) \in Nat /\ p \in 1..Len(text) + 1 /\ blk.base \in Nat
  BY <1>1, BlockFacts DEF BlockOK
<1>3. q \in p..Len(text) + 1 /\ Spaces(p) \in Nat
  BY <1>2, SpacesFacts
<1> HIDE DEF q
<1>4. extra \in Nat
  BY <1>1, <1>2, <1>3
<1> HIDE DEF extra
<1>5. IsSeq(cs) /\ Len(cs) <= n /\ n \in Nat
  <2>1. n \in Nat /\ extra <= n
    BY <1>4
  <2>2. ASSUME NEW c PROVE LET t == [k \in 1..extra |-> c] IN IsSeq(t) /\ Len(t) = extra
    <3>1. [k \in 1..extra |-> c] \in Seq({c}) /\ Len([k \in 1..extra |-> c]) = extra
      BY <1>4
    <3> QED BY <3>1, SeqIntro
  <2>3. IsSeq(cs) /\ Len(cs) = extra
    BY <2>2, Zenon
  <2> HIDE DEF cs, n
  <2> QED BY <2>1, <2>3
<1> HIDE DEF cs, n
<1>6. "text" \in {"block", "text"} /\ pc \in {"block", "text"}
  BY <1>1
<1> QED BY <1>1, <1>3, <1>5, <1>6, <1>7, AppendedInv

(* The spaces that are given back were no line breaks. *)
LEMMA BlockEndInv == IInv /\ BlockEnd => IInv'
<1> SUFFICES ASSUME IInv, BlockEnd PROVE IInv'
  OBVIOUS
<1> DEFINE q == p + Spaces(p)
           tok == Token("SCALAR", [line |-> blk.line, col |-> blk.col], blk.at, p,
                        Chomped(blk.buf, blk.chomp), blk.style, TRUE)
<1>1. /\ pc = "block" /\ pc' = "scan"
      /\ Push(tok, 0)
      /\ col' = ColBack(q)
      /\ UNCHANGED <<p, line, error>>
      /\ UNCHANGED <<source, text, storage, flow_depth>>
  BY DEF BlockEnd, Body
<1>2. /\ IsText(text) /\ Len(text) \in Nat /\ p \in 1..Len(text) + 1
      /\ BlockOK(blk, text, p)
  BY <1>1, BlockFacts
<1>3. q \in Nat /\ p \in Nat /\ p <= q /\ \A j \in p..q - 1 : At(j) # "\n"
  <2>1. q \in p..Len(text) + 1 /\ \A j \in p..q - 1 : At(j) = " "
    BY <1>2, SpacesFacts, Zenon
  <2>2. \A j \in p..q - 1 : At(j) # "\n"
    <3>1. " " # "\n"
      OBVIOUS
    <3> QED BY <2>1, <3>1, Zenon
  <2>3. q \in p..Len(text) + 1
    BY <2>1, Zenon
  <2> HIDE DEF q
  <2> QED BY <1>2, <2>2, <2>3
<1> HIDE DEF q
<1>4. col' = col
  <2>1. LinesTo(q) = {}
    BY <1>3 DEF LinesTo
  <2>2. ColTo(q) = col + q - p
    BY <2>1 DEF ColTo
  <2>3. col \in Nat
    <3>1. col = ColIn(text, p)
      BY DEF IInv
    <3> QED BY <1>2, <3>1, PlaceType
  <2>4. (col + q - p) - (q - p) = col
    BY <1>3, <2>3
  <2> QED BY <1>1, <2>2, <2>4 DEF ColBack
<1>5. TokenIn(tok, text)
  <2>1. p <= p
    BY <1>3
  <2> QED BY <1>2, <1>3, <2>1, BlockToken
<1> HIDE DEF tok
<1>6. /\ IsSeq(tokens') /\ \A k \in 1..Len(tokens') : TokenIn(tokens'[k], text)
      /\ ArrayOK' /\ faults' \in Nat
      /\ faults' = dropped' \/ error'
  <2>1. /\ IsSeq(tokens') /\ \A k \in 1..Len(tokens') : TokenIn(tokens'[k], text)
        /\ ArrayOK' /\ faults' \in Nat
        /\ faults = dropped => faults' = dropped'
    BY <1>1, <1>5, Pushed DEF Lexing
  <2>2. faults = dropped \/ error
    BY <1>1 DEF IInv, Lexing
  <2> QED BY <1>1, <2>1, <2>2, Zenon
<1>7. /\ pc' \in Labels /\ pc' \notin {"call", "done", "astray", "block", "text"}
      /\ pc \in Lexing /\ pc # "astray"
  BY <1>1 DEF Labels, Lexing
<1> QED BY <1>1, <1>4, <1>6, <1>7 DEF IInv

(***************************************************************************)
(* The start and the end of the call.                                      *)
(***************************************************************************)
LEMMA FirstPlace == \A t : LineIn(t, 1) = 1 /\ ColIn(t, 1) = 0
<1> TAKE t
<1>1. BreaksIn(t, 1, 1) = {}
  BY DEF BreaksIn
<1>2. Max(BreaksIn(t, 1, 1) \cup {0}) = 0
  <2>1. PICK i \in Nat \ {0} : i = 1
    OBVIOUS
  <2>2. Max(BreaksIn(t, i, i) \cup {0}) \in 0..i - 1
    BY <2>1, LastBreak
  <2> QED BY <2>1, <2>2
<1>3. Cardinality(BreaksIn(t, 1, 1)) = 0
  BY <1>1, FS_EmptySet
<1> QED BY <1>2, <1>3 DEF LineIn, ColIn

LEMMA InitInv == Init => IInv
<1> SUFFICES ASSUME Init PROVE IInv
  OBVIOUS
<1>1. IsText(<<>>) /\ IsSeq(<<>>) /\ Len(<<>>) = 0
  BY EmptyIsSeq DEF IsText
<1>2. line = LineIn(text, p) /\ col = ColIn(text, p)
  BY FirstPlace DEF Init
<1>3. \A k \in 1..Len(tokens) : TokenIn(tokens[k], text)
  BY <1>1 DEF Init
<1>4. pc \in Labels /\ pc \notin Lexing /\ pc \notin {"done", "astray"}
  BY DEF Init, Labels, Lexing
<1>5. /\ storage \in {"caller", "copy", "freed"}
      /\ flow_depth \in Nat /\ faults \in Nat /\ error \in BOOLEAN
      /\ \E S \in Sources : source \in S
      /\ IsText(text) /\ IsSeq(tokens) /\ p \in Nat \ {0} /\ p <= Len(text) + 1
      /\ text = <<>> /\ tokens = <<>>
      /\ p = 1 /\ line = 1 /\ col = 0 /\ faults = 0 /\ ~error
  <2>1. /\ storage \in {"caller", "copy", "freed"} /\ \E S \in Sources : source \in S
        /\ text = <<>> /\ tokens = <<>> /\ ~error /\ error \in BOOLEAN
    BY Zenon DEF Init
  <2>2. /\ p = 1 /\ line = 1 /\ col = 0 /\ faults = 0
        /\ flow_depth \in Nat /\ faults \in Nat /\ p \in Nat \ {0} /\ p <= 0 + 1
    BY DEF Init
  <2>3. IsText(text) /\ IsSeq(tokens) /\ Len(text) = 0
    BY <1>1, <2>1
  <2> QED BY <2>1, <2>2, <2>3
<1>6. pc \notin {"block", "text"}
  BY <1>4 DEF Lexing
<1>7. ArrayOK /\ dropped = 0
  BY <1>1, <1>5, TokenCapAssumption DEF Init, ArrayOK
<1> QED BY <1>2, <1>3, <1>4, <1>5, <1>6, <1>7 DEF IInv

LEMMA LexStartInv == IInv /\ LexStart => IInv'
<1> SUFFICES ASSUME IInv, LexStart PROVE IInv'
  OBVIOUS
<1> DEFINE r == normalize_encoding(source)
<1>1. PICK f \in FailAt(IF r.copied THEN 2 ELSE 1) :
        /\ Fault(f)
        /\ text' = [k \in DOMAIN r.bytes |-> Chr(r.bytes[k])]
        /\ storage' = IF ~r.copied THEN "caller" ELSE IF f = 0 THEN "copy" ELSE "freed"
        /\ pc' = IF r.astray THEN "astray" ELSE IF f = 0 THEN "scan" ELSE "refused"
  BY DEF LexStart
<1>2. /\ pc = "call" /\ NoPush
      /\ UNCHANGED <<source, p, line, col, flow_depth, tokens, dropped, blk, error>>
  BY DEF LexStart, NoPush
<1>3. /\ tokens = <<>> /\ dropped = 0 /\ p = 1 /\ line = 1 /\ col = 0 /\ faults = 0 /\ ~error
      /\ \E S \in Sources : source \in S
      /\ flow_depth \in Nat
  BY <1>2 DEF IInv
<1>4. /\ r.bytes \in Seq(Bytes) /\ r.copied \in BOOLEAN /\ r.astray \in BOOLEAN
      /\ r.astray => r.bytes = <<>>
  <2>1. Memory(source)
    BY <1>3, SourcesAssumption
  <2> QED BY <2>1, Normalized
<1> HIDE DEF r
<1>5. IsText(text') /\ Len(text') = Len(r.bytes)
  <2> DEFINE n == Len(r.bytes)
             t == [k \in 1..n |-> Chr(r.bytes[k])]
  <2>1. n \in Nat /\ DOMAIN r.bytes = 1..n
    BY <1>4, SeqElements
  <2>2. text' = t
    BY <1>1, <2>1
  <2> HIDE DEF n
  <2>3. t \in Seq({t[k] : k \in 1..n}) /\ Len(t) = n
    BY <2>1
  <2>4. DOMAIN t = 1..n
    OBVIOUS
  <2> HIDE DEF t
  <2>5. IsText(text') /\ Len(text') = n
    BY <2>1, <2>2, <2>3, <2>4 DEF IsText
  <2> QED BY <2>5 DEF n
<1>6. r.astray => text' = <<>>
  <2> SUFFICES ASSUME r.astray PROVE text' = <<>>
    OBVIOUS
  <2>1. r.bytes = <<>> /\ DOMAIN <<>> = {}
    BY <1>4
  <2> QED BY <1>1, <2>1
<1>7. storage' \in {"caller", "copy", "freed"} /\ pc' \in {"astray", "scan", "refused"}
  BY <1>1
<1>8. /\ pc' = "astray" => text' = <<>>
      /\ pc' = "scan" => faults' = 0
      /\ faults' \in Nat
  <2>1. pc' = "astray" => r.astray
    BY <1>1
  <2>2. pc' = "scan" => f = 0
    BY <1>1
  <2>3. f = 0 => faults' = 0
    BY <1>1, <1>3 DEF Fault
  <2>4. faults' \in Nat
    BY <1>1, <1>3 DEF Fault
  <2> QED BY <1>6, <2>1, <2>2, <2>3, <2>4
<1>9. line' = LineIn(text', p') /\ col' = ColIn(text', p')
  BY <1>2, <1>3, FirstPlace
<1>10. IsSeq(tokens') /\ \A k \in 1..Len(tokens') : TokenIn(tokens'[k], text')
  <2>1. tokens' = <<>> /\ Len(<<>>) = 0
    BY <1>2, <1>3
  <2> QED BY <2>1, EmptyIsSeq
<1>11. p' = 1 /\ p' \in Nat \ {0} /\ p' <= Len(text') + 1
  BY <1>2, <1>3, <1>5 DEF IsText
<1>12. /\ pc' \in Labels /\ pc' \notin {"call", "done", "block", "text"}
       /\ pc' \in Lexing => pc' = "scan"
  BY <1>7 DEF Labels, Lexing
<1>13. /\ flow_depth' \in Nat /\ error' \in BOOLEAN
       /\ \E S \in Sources : source' \in S
       /\ ArrayOK' /\ dropped' = 0
  BY <1>2, <1>3, NotPushed DEF IInv
<1> QED BY <1>5, <1>7, <1>8, <1>9, <1>10, <1>11, <1>12, <1>13 DEF IInv

LEMMA LexEndInv == IInv /\ LexEnd => IInv'
<1> SUFFICES ASSUME IInv, LexEnd PROVE IInv'
  OBVIOUS
<1> DEFINE s == Start
           tok == Token("EOF", PlaceAt(s), s, s, <<>>, "plain", FALSE)
<1>1. /\ pc = "scan" /\ AdvanceTo(s)
      /\ IF error THEN tokens' = <<>> /\ UNCHANGED <<room, dropped, faults>>
         ELSE Push(tok, 0)
      /\ pc' = IF error THEN "refused" ELSE "done"
      /\ storage' = IF storage = "copy" THEN "freed" ELSE storage
      /\ UNCHANGED <<source, text, flow_depth, blk, error>>
  BY DEF LexEnd, Refused
<1>2. /\ IsText(text) /\ Len(text) \in Nat /\ p \in 1..Len(text) + 1
      /\ s \in p..Len(text) + 1
  BY <1>1, ScanFacts
<1> HIDE DEF s
<1>3. /\ PlaceAt(s) = Here(text, s)
      /\ LineTo(s) = LineIn(text, s) /\ ColTo(s) = ColIn(text, s)
  <2>1. s \in Nat /\ p <= s
    BY <1>2
  <2> QED BY <1>1, <2>1, ScanFacts
<1>4. TokenIn(tok, text)
  <2>1. "EOF" \in TokenTypes /\ "plain" \in Styles
    BY DEF TokenTypes, Styles
  <2>2. s \in 1..Len(text) + 1 /\ s \in Nat /\ s <= s
    BY <1>2
  <2> QED BY <1>2, <1>3, <2>1, <2>2, TokenMade
<1> HIDE DEF tok
<1>5. /\ IsSeq(tokens') /\ \A k \in 1..Len(tokens') : TokenIn(tokens'[k], text)
      /\ ArrayOK' /\ faults' \in Nat
      /\ ~error => faults' = dropped'
  <2>1. CASE error
    <3>1. tokens' = <<>> /\ Len(<<>>) = 0 /\ pc' = "refused" /\ UNCHANGED <<room, dropped, faults>>
      BY <1>1, <2>1
    <3>2. room \in Nat /\ dropped \in Nat /\ TokenCap <= room /\ faults \in Nat
      BY DEF IInv, ArrayOK
    <3>3. ArrayOK'
      BY <3>1, <3>2 DEF ArrayOK
    <3> QED BY <2>1, <3>1, <3>2, <3>3, EmptyIsSeq
  <2>2. CASE ~error
    <3>1. /\ IsSeq(tokens') /\ \A k \in 1..Len(tokens') : TokenIn(tokens'[k], text)
          /\ ArrayOK' /\ faults' \in Nat
          /\ faults = dropped => faults' = dropped'
      BY <1>1, <1>4, <2>2, Pushed DEF Lexing
    <3>2. faults = dropped
      BY <1>1, <2>2 DEF IInv, Lexing
    <3> QED BY <3>1, <3>2, Zenon
  <2> QED BY <2>1, <2>2
<1>6. p' = s /\ line' = LineIn(text, s) /\ col' = ColIn(text, s)
      /\ s \in Nat \ {0} /\ s <= Len(text) + 1
  BY <1>1, <1>2, <1>3 DEF AdvanceTo
<1>7. storage' \in {"caller", "copy", "freed"}
  <2>1. storage \in {"caller", "copy", "freed"}
    BY DEF IInv
  <2> QED BY <1>1, <2>1
<1>8. /\ pc' \in Labels /\ pc' \notin {"call", "astray", "block", "text"}
      /\ pc' \notin Lexing
      /\ pc' = "done" => ~error
  BY <1>1 DEF Labels, Lexing
<1>9. pc \in Lexing
  BY <1>1 DEF Lexing
<1> QED BY <1>1, <1>2, <1>5, <1>6, <1>7, <1>8, <1>9 DEF IInv

LEMMA StopInv == IInv /\ UNCHANGED vars => IInv'
BY DEF IInv, vars, BlockOK, ArrayOK

LEMMA GrowCrashInv == IInv /\ GrowCrash => IInv'
<1> SUFFICES ASSUME IInv, GrowCrash PROVE IInv'
  OBVIOUS
<1>1. /\ pc \in Lexing /\ pc' = "crashed"
      /\ UNCHANGED <<source, text, storage, p, line, col, flow_depth, tokens, blk, error, faults>>
      /\ NoPush
  BY DEF GrowCrash, NoPush, Lexing
<1>2. ArrayOK'
  <2>1. pc # "refused"
    BY <1>1 DEF Lexing
  <2> QED BY <1>1, <2>1, NotPushed
<1>3. /\ pc' \in Labels /\ pc' \notin Lexing /\ pc # "astray"
      /\ pc' \notin {"call", "done", "astray", "block", "text"}
  BY <1>1 DEF Labels, Lexing
<1> QED BY <1>1, <1>2, <1>3 DEF IInv

LEMMA NextInv == IInv /\ [Next]_vars => IInv'
BY LexStartInv, LexMarkerInv, LexOpenInv, LexCloseInv, LexIndicatorInv, LexAnchorInv,
   LexTagInv, LexSingleInv, LexDoubleInv, LexPlainInv, BlockHeaderInv, BlockBlankInv,
   BlockIndentInv, BlockCharInv, BlockNewlineInv, BlockEndInv, LexEndInv, GrowCrashInv, StopInv
   DEF Next, Marks, Scalars, Blocks, Stop

(* What holds of lex in every state: the cursor, the tokens so far and the *)
(* block scalar under way fit the text.                                    *)
THEOREM InductiveInvariant == Spec => []IInv
<1>1. Init => IInv
  BY InitInv
<1>2. IInv /\ [Next]_vars => IInv'
  BY NextInv
<1> QED BY <1>1, <1>2, PTL DEF Spec

(***************************************************************************)
(* lex comes back: where every step leads.                                 *)
(***************************************************************************)
Progress == p' > p \/ (p' = p /\ Left' < Left)

(* A token pushed by a step of the main loop that is not empty.            *)
LEMMA LexedOn ==
  ASSUME IInv, pc = "scan", NEW type, NEW style, NEW val,
         NEW i \in Nat, Start < i, Lexed(type, Start, i, val, style)
  PROVE  Progress
<1>1. p \in Nat /\ Start \in Nat /\ p <= Start
  BY ScanFacts
<1>2. p' = i
  BY DEF Lexed, AdvanceTo
<1> HIDE DEF Start
<1>3. p' > p
  BY <1>1, <1>2
<1> QED BY <1>3 DEF Progress

LEMMA SomethingThere ==
  ASSUME IInv, pc = "scan", At(Start) # Nul
  PROVE  /\ Start \in 1..Len(text) /\ Start \in Nat
         /\ IsText(text) /\ Len(text) \in Nat
<1>1. /\ IsText(text) /\ Len(text) \in Nat
      /\ p \in 1..Len(text) + 1 /\ Start \in p..Len(text) + 1
  BY ScanFacts
<1> DEFINE s == Start
<1>2. s \in Nat /\ At(s) # Nul
  BY <1>1
<1> HIDE DEF s
<1>3. s \in 1..Len(text)
  BY <1>1, <1>2, InText
<1> QED BY <1>1, <1>2, <1>3 DEF s

LEMMA MarksOn == IInv /\ Marks => Progress
<1> SUFFICES ASSUME IInv, Marks PROVE Progress
  OBVIOUS
<1>1. pc = "scan" /\ Start \in Nat
  <2>1. pc = "scan"
    BY DEF Marks, LexMarker, LexOpen, LexClose, LexIndicator
  <2> QED BY <2>1, ScanFacts
<1>2. ASSUME NEW type, NEW n \in {1, 3}, Mark(type, Start, n) PROVE Progress
  <2>1. Start + n \in Nat /\ Start < Start + n
    BY <1>1
  <2>2. Lexed(type, Start, Start + n, <<>>, "plain")
    BY <1>2 DEF Mark
  <2> QED BY <1>1, <2>1, <2>2, LexedOn
<1>3. \E type : Mark(type, Start, 1) \/ Mark(type, Start, 3)
  BY DEF Marks, LexMarker, LexOpen, LexClose, LexIndicator
<1> QED BY <1>2, <1>3

LEMMA NamesOn == IInv /\ (lex_anchor_alias \/ lex_tag) => Progress
<1> SUFFICES ASSUME IInv, lex_anchor_alias \/ lex_tag PROVE Progress
  OBVIOUS
<1>1. pc = "scan" /\ At(Start) # Nul
  BY DEF lex_anchor_alias, lex_tag, Nul
<1>2. Start \in 1..Len(text) /\ Start \in Nat /\ IsText(text) /\ Len(text) \in Nat
  BY <1>1, SomethingThere
<1>3. NameEnd(Start) \in Start + 1..Len(text) + 1 /\ TagEnd(Start) \in Start + 1..Len(text) + 1
  BY <1>2, NameEndFacts, TagEndFacts
<1>4. PICK i \in {NameEnd(Start), TagEnd(Start)} :
        \E type, val : Lexed(type, Start, i, val, "plain")
  BY DEF lex_anchor_alias, lex_tag
<1>5. i \in Nat /\ Start < i
  BY <1>2, <1>3, <1>4
<1> QED BY <1>1, <1>4, <1>5, LexedOn

LEMMA BeyondBoth == \A a, b, c \in Nat : b > a /\ c >= b => a < c
OBVIOUS

LEMMA QuotedOn == IInv /\ (lex_single_quoted \/ lex_double_quoted) => Progress
<1> SUFFICES ASSUME IInv, lex_single_quoted \/ lex_double_quoted PROVE Progress
  OBVIOUS
<1>1. pc = "scan" /\ At(Start) # Nul
  BY DEF lex_single_quoted, lex_double_quoted, Nul
<1>2. Start \in 1..Len(text) /\ Start \in Nat /\ IsText(text) /\ Len(text) \in Nat
  BY <1>1, SomethingThere
<1> DEFINE i == SingleEnd(Start + 1)
           j == DoubleEnd(Start + 1)
<1>3. i \in Nat /\ i > Start /\ j \in Nat /\ j > Start
  <2>1. Start + 1 \in 1..Len(text) + 1
    BY <1>2
  <2>2. i \in Start + 1..Len(text) + 1 /\ j \in Start + 1..Len(text) + 2
    BY <1>2, <2>1, SingleEndFacts, DoubleEndFacts
  <2> HIDE DEF i, j
  <2> QED BY <1>2, <2>2
<1> HIDE DEF i, j
<1>4. ASSUME NEW e \in {i, j}, NEW q \in {"'", "\""}
      PROVE  PastQuote(e, q) \in Nat /\ Start < PastQuote(e, q)
  <2>1. e \in Nat /\ e > Start /\ q # Nul
    BY <1>3 DEF Nul
  <2>2. PastQuote(e, q) \in Nat /\ PastQuote(e, q) >= e
    BY <1>2, <2>1, PastQuoteFacts
  <2>3. Start \in Nat
    BY <1>2
  <2> QED BY <2>1, <2>2, <2>3, BeyondBoth
<1>5. PICK e \in {i, j}, q \in {"'", "\""} :
        \E val, style : Lexed("SCALAR", Start, PastQuote(e, q), val, style)
  BY DEF lex_single_quoted, lex_double_quoted, i, j
<1> QED BY <1>1, <1>4, <1>5, LexedOn

(* What starts a plain scalar does not stop it, a lone carriage return     *)
(* apart.                                                                  *)
LEMMA PlainStarts ==
  ASSUME IInv, pc = "scan", At(Start) # "\r",
         At(Start) \notin Special, Indicator(Start) = "none"
  PROVE  ~PlainStop(Start, Start)
<1> DEFINE s == Start
<1>2. At(s) \notin Blank \cup {"\n", "#"}
  <2>1. IsText(text) /\ p \in 1..Len(text) + 1
    BY ScanFacts
  <2> QED BY <2>1, StartFacts
<1>3. At(s) # "\r"
  OBVIOUS
<1> HIDE DEF s
<1>4. At(s) \notin Special /\ Indicator(s) = "none"
  BY DEF s
<1>5. At(s) \notin Breaks /\ At(s) # "#"
  BY <1>2, <1>3 DEF Breaks
<1>6. At(s) = ":" => ~ (is_flow \/ At(s + 1) \in BlankOrEnd)
  <2> SUFFICES ASSUME At(s) = ":", is_flow \/ At(s + 1) \in BlankOrEnd PROVE FALSE
    OBVIOUS
  <2>1. Indicator(s) = "MAP_VAL"
    BY Zenon DEF Indicator
  <2> QED BY <1>4, <2>1
<1>7. ~ (At(s) \in {",", "]", "}"} /\ is_flow)
  <2>1. At(s) # "]" /\ At(s) # "}"
    BY <1>4 DEF Special
  <2>2. At(s) = "," => ~is_flow
    <3> SUFFICES ASSUME At(s) = ",", is_flow PROVE FALSE
      OBVIOUS
    <3>1. Indicator(s) = "FLOW_ENTRY"
      BY Zenon DEF Indicator
    <3> QED BY <1>4, <3>1
  <2> QED BY <2>1, <2>2
<1>8. ~PlainStop(s, s)
  BY <1>5, <1>6, <1>7 DEF PlainStop
<1> QED BY <1>8 DEF s

LEMMA NoReturn ==
  ASSUME IInv, pc = "scan", ~LoneReturn, At(Start) # Nul
  PROVE  At(Start) # "\r"
<1> SUFFICES ASSUME At(Start) = "\r" PROVE FALSE
  OBVIOUS
<1>1. Start \in 1..Len(text) /\ IsText(text)
  BY SomethingThere
<1>2. At(Start + 1) # "\n"
  <2>1. p \in 1..Len(text) + 1
    BY ScanFacts
  <2> QED BY <1>1, <2>1, StartFacts
<1> DEFINE s == Start
<1>3. s \in DOMAIN text /\ text[s] = At(s)
  BY <1>1 DEF IsText, At, CharAt
<1> HIDE DEF s
<1>4. At(s) = "\r" /\ At(s + 1) # "\n"
  BY <1>2 DEF s
<1> QED BY <1>3, <1>4 DEF LoneReturn

LEMMA PlainOn == IInv /\ ~LoneReturn /\ lex_plain => Progress \/ UNCHANGED vars
<1> SUFFICES ASSUME IInv, ~LoneReturn, lex_plain, ~UNCHANGED vars PROVE Progress
  OBVIOUS
<1> DEFINE i == PlainEnd(Start)
<1>1. /\ pc = "scan" /\ At(Start) \notin Special /\ Indicator(Start) = "none"
      /\ Lexed("SCALAR", Start, i, Trimmed(Slice(Start, i)), "plain")
  BY DEF lex_plain
<1>2. Start \in 1..Len(text) /\ Start \in Nat /\ IsText(text) /\ Len(text) \in Nat
  <2>1. At(Start) # Nul
    BY <1>1 DEF Special
  <2> QED BY <1>1, <2>1, SomethingThere
<1>3. i # Start
  <2> DEFINE R == {k \in Start..Len(text) : PlainStop(Start, k)} \cup {Len(text) + 1}
  <2>1. R \in SUBSET Nat /\ R # {}
    BY <1>2
  <2>2. Start \notin R
    <3>1. ~PlainStop(Start, Start)
      <4>1. At(Start) # Nul
        BY <1>1 DEF Special
      <4> QED BY <1>1, <4>1, NoReturn, PlainStarts
    <3> QED BY <1>2, <3>1
  <2>3. i = Min(R)
    BY DEF PlainEnd
  <2> HIDE DEF R, i
  <2>4. Min(R) \in R
    BY <2>1, LeastOf
  <2> QED BY <2>2, <2>3, <2>4
<1>4. i \in Nat /\ Start < i
  <2>1. i \in Start..Len(text) + 1
    BY <1>2, PlainEndFacts
  <2> HIDE DEF i
  <2> QED BY <1>2, <1>3, <2>1
<1> HIDE DEF i
<1> QED BY <1>1, <1>4, LexedOn

(* The measure, where the step leaves the text and the cursor alone.       *)
LEMMA LeftFacts ==
  /\ Left \in 0..5
  /\ pc = "call" => Left = 5
  /\ pc = "text" => Left = IF At(p) = Nul THEN 4 ELSE 2
  /\ pc = "block" => Left = 3
  /\ pc = "scan" => Left = IF At(p) = Nul THEN 2 ELSE 1
  /\ pc \in {"done", "refused", "astray", "crashed"} => Left = 0
BY DEF Left

LEMMA LeftPrimed ==
  /\ Left' \in 0..5
  /\ pc' = "text" => Left' = IF CharAt(text', p') = Nul THEN 4 ELSE 2
  /\ pc' = "block" => Left' = 3
  /\ pc' = "scan" => Left' \in {1, 2}
  /\ pc' \in {"done", "refused", "astray", "crashed"} => Left' = 0
BY DEF Left, At

LEMMA HeaderOn == IInv /\ BlockHeader => Progress
<1> SUFFICES ASSUME IInv, BlockHeader PROVE Progress
  OBVIOUS
<1> DEFINE i == HeaderEnd(Start).to
<1>1. pc = "scan" /\ At(Start) # Nul /\ p' = i
  BY DEF BlockHeader, AdvanceTo, Nul
<1>2. Start \in 1..Len(text) /\ Start \in Nat /\ IsText(text) /\ Len(text) \in Nat
  BY <1>1, SomethingThere
<1>3. p \in Nat /\ p <= Start
  BY <1>1, ScanFacts
<1>4. i \in Start + 1..Len(text) + 1
  BY <1>2, HeaderFacts
<1> HIDE DEF i
<1>5. p' > p
  BY <1>1, <1>2, <1>3, <1>4
<1> QED BY <1>5 DEF Progress

(* Where a line break is, there is something to pass. *)
LEMMA PastBreakOn ==
  ASSUME IsText(text), NEW i \in 1..Len(text) + 1, At(i) \in Breaks
  PROVE  PastBreak(i) \in Nat /\ PastBreak(i) > i
<1>1. i \in Nat /\ Len(text) \in Nat
  BY DEF IsText
<1>2. CASE At(i) = "\r"
  <2>1. PastBreak(i) = IF At(i + 1) = "\n" THEN i + 1 + 1 ELSE i + 1
    BY <1>2 DEF PastBreak
  <2> QED BY <1>1, <2>1
<1>3. CASE At(i) = "\n"
  <2>1. PastBreak(i) = i + 1
    BY <1>3 DEF PastBreak
  <2> QED BY <1>1, <2>1
<1> QED BY <1>2, <1>3 DEF Breaks

LEMMA BlockBlankOn == IInv /\ BlockBlank => Progress
<1> SUFFICES ASSUME IInv, BlockBlank PROVE Progress
  OBVIOUS
<1> DEFINE q == p + Spaces(p)
           i == PastBreak(q)
<1>1. /\ pc = "block" /\ At(p) # Nul /\ At(q) \in Breaks \cup {Nul}
      /\ Appended(<<"\n">>, 1, q, i, "block")
  BY DEF BlockBlank, BlankLine
<1>2. /\ IsText(text) /\ Len(text) \in Nat /\ p \in 1..Len(text) + 1 /\ p \in Nat
      /\ q \in p..Len(text) + 1
  <2>1. IsText(text) /\ Len(text) \in Nat /\ p \in 1..Len(text) + 1 /\ p \in Nat
    BY <1>1, BlockFacts
  <2> QED BY <2>1, SpacesFacts
<1> HIDE DEF q
<1>3. CASE p' = i /\ pc' = "block"
  <2>1. q \in 1..Len(text) + 1 /\ q \in Nat
    BY <1>2
  <2>2. CASE At(q) \in Breaks
    <3>1. i \in Nat /\ i > q
      BY <1>2, <2>1, <2>2, PastBreakOn
    <3> HIDE DEF i
    <3>2. p' > p
      BY <1>2, <1>3, <2>1, <3>1
    <3> QED BY <3>2 DEF Progress
  <2>3. CASE At(q) \notin Breaks
    <3>1. At(q) = Nul
      BY <1>1, <2>3
    <3>2. q # p
      BY <1>1, <3>1
    <3>3. i \in q..Len(text) + 1
      BY <1>2, <2>1, PastBreakFacts
    <3> HIDE DEF i
    <3>4. p' > p
      BY <1>2, <1>3, <2>1, <3>2, <3>3
    <3> QED BY <3>4 DEF Progress
  <2> QED BY <2>2, <2>3
<1>4. CASE p' = q /\ pc' = "scan"
  <2>1. Left = 3 /\ Left' \in {1, 2}
    BY <1>1, <1>4, LeftFacts, LeftPrimed
  <2>2. p' > p \/ p' = p
    BY <1>2, <1>4
  <2>3. Left' < Left
    BY <2>1
  <2> QED BY <2>2, <2>3 DEF Progress
<1>5. (p' = i /\ pc' = "block") \/ (p' = q /\ pc' = "scan")
  BY <1>1 DEF Appended, AdvanceTo, GiveUp
<1> QED BY <1>3, <1>4, <1>5

LEMMA BlockIndentOn == IInv /\ BlockIndent => Progress
<1> SUFFICES ASSUME IInv, BlockIndent PROVE Progress
  OBVIOUS
<1> DEFINE q == p + Spaces(p)
<1>1. /\ pc = "block" /\ At(p) # Nul
      /\ p' = q /\ pc' \in {"text", "scan"} /\ text' = text
  BY DEF BlockIndent, Appended, AdvanceTo, GiveUp, Body
<1>2. p \in Nat /\ q \in p..Len(text) + 1 /\ Len(text) \in Nat
  <2>1. IsText(text) /\ Len(text) \in Nat /\ p \in 1..Len(text) + 1 /\ p \in Nat
    BY <1>1, BlockFacts
  <2> QED BY <2>1, SpacesFacts
<1> HIDE DEF q
<1>3. CASE q = p
  <2>1. CharAt(text', p') # Nul
    BY <1>1, <1>3 DEF At
  <2>2. Left = 3
    BY <1>1, LeftFacts
  <2>3. Left' \in {1, 2}
    BY <1>1, <2>1, LeftPrimed
  <2>4. p' = p /\ Left' < Left
    BY <1>1, <1>3, <2>2, <2>3
  <2> QED BY <2>4 DEF Progress
<1>4. CASE q # p
  <2>1. p' > p
    BY <1>1, <1>2, <1>4
  <2> QED BY <2>1 DEF Progress
<1> QED BY <1>3, <1>4

LEMMA BlockCharOn == IInv /\ BlockChar => Progress
<1> SUFFICES ASSUME IInv, BlockChar PROVE Progress
  OBVIOUS
<1>1. /\ pc = "text" /\ At(p) # Nul /\ text' = text
      /\ (p' = p + 1 /\ pc' = "text") \/ (p' = p /\ pc' = "scan")
  BY DEF BlockChar, Appended, AdvanceTo, GiveUp, Body
<1>2. p \in Nat
  BY DEF IInv
<1>3. CASE p' = p + 1
  <2>1. p' > p
    BY <1>2, <1>3
  <2> QED BY <2>1 DEF Progress
<1>4. CASE p' = p /\ pc' = "scan"
  <2>1. CharAt(text', p') # Nul
    BY <1>1, <1>4 DEF At
  <2>2. Left = 2
    BY <1>1, LeftFacts
  <2>3. Left' = 1
    BY <1>4, <2>1 DEF Left, At
  <2>4. Left' < Left
    BY <2>2, <2>3
  <2> QED BY <1>4, <2>4 DEF Progress
<1> QED BY <1>1, <1>3, <1>4

LEMMA BlockNewlineOn == IInv /\ BlockNewline => Progress
<1> SUFFICES ASSUME IInv, BlockNewline PROVE Progress
  OBVIOUS
<1> DEFINE i == PastBreak(p)
<1>1. /\ pc = "text" /\ At(p) \in Breaks \cup {Nul} /\ text' = text
      /\ (p' = i /\ pc' = "block") \/ (p' = p /\ pc' = "scan")
  BY DEF BlockNewline, Appended, AdvanceTo, GiveUp, Body
<1>2. IsText(text) /\ Len(text) \in Nat /\ p \in 1..Len(text) + 1 /\ p \in Nat
  BY <1>1, BlockFacts
<1>3. CASE At(p) \in Breaks
  <2>1. i \in Nat /\ i > p
    BY <1>2, <1>3, PastBreakOn
  <2> HIDE DEF i
  <2>2. CASE p' = i
    <3>1. p' > p
      BY <1>2, <2>1, <2>2
    <3> QED BY <3>1 DEF Progress
  <2>3. CASE p' = p /\ pc' = "scan"
    <3>1. CharAt(text', p') # Nul
      BY <1>1, <1>3, <2>3 DEF At, Breaks, Nul
    <3>2. Left' = 1
      BY <2>3, <3>1 DEF Left, At
    <3>3. Left = 2
      <4>1. At(p) # Nul
        BY <1>3 DEF Breaks, Nul
      <4> QED BY <1>1, <4>1, LeftFacts
    <3>4. Left' < Left
      BY <3>2, <3>3
    <3> QED BY <2>3, <3>4 DEF Progress
  <2> QED BY <1>1, <2>2, <2>3
<1>4. CASE At(p) \notin Breaks
  <2>1. At(p) = Nul
    BY <1>1, <1>4
  <2>2. i = p
    <3>1. At(p) # "\r" /\ At(p) # "\n"
      BY <2>1 DEF Nul
    <3> QED BY <3>1 DEF PastBreak
  <2> HIDE DEF i
  <2>3. p' = p /\ pc' \in {"block", "scan"}
    BY <1>1, <2>2
  <2>4. Left = 4
    BY <1>1, <2>1, LeftFacts
  <2>5. Left' \in {1, 2, 3}
    BY <2>3, LeftPrimed
  <2>6. Left' < Left
    BY <2>4, <2>5
  <2> QED BY <2>3, <2>6 DEF Progress
<1> QED BY <1>3, <1>4

LEMMA BlockEndOn == IInv /\ BlockEnd => Progress
<1> SUFFICES ASSUME IInv, BlockEnd PROVE Progress
  OBVIOUS
<1>1. pc = "block" /\ pc' = "scan" /\ p' = p
  BY DEF BlockEnd
<1>2. Left = 3 /\ Left' \in {1, 2}
  BY <1>1, LeftFacts, LeftPrimed
<1>3. Left' < Left
  BY <1>2
<1> QED BY <1>1, <1>3 DEF Progress

LEMMA CrashOn == IInv /\ GrowCrash => Progress
<1> SUFFICES ASSUME IInv, GrowCrash PROVE Progress
  OBVIOUS
<1>1. pc \in {"scan", "block", "text"} /\ p' = p /\ pc' = "crashed"
  BY DEF GrowCrash
<1>2. Left' = 0
  BY <1>1, LeftPrimed
<1>3. Left > 0
  BY <1>1 DEF Left
<1>4. Left' < Left
  BY <1>2, <1>3
<1> QED BY <1>1, <1>4 DEF Progress

LEMMA EndsOn == IInv /\ (LexStart \/ LexEnd) => Progress
<1> SUFFICES ASSUME IInv, LexStart \/ LexEnd PROVE Progress
  OBVIOUS
<1>1. CASE LexStart
  <2>1. pc = "call" /\ p' = p /\ pc' \in {"astray", "scan", "refused"}
    BY <1>1 DEF LexStart
  <2>2. Left = 5
    BY <2>1, LeftFacts
  <2>3. Left' \in 0..2
    BY <2>1, LeftPrimed
  <2>4. Left' < Left
    BY <2>2, <2>3
  <2> QED BY <2>1, <2>4 DEF Progress
<1>2. CASE LexEnd
  <2> DEFINE s == Start
  <2>1. /\ pc = "scan" /\ At(s) = Nul /\ p' = s /\ pc' \in {"refused", "done"}
    BY <1>2 DEF LexEnd, AdvanceTo
  <2>2. p \in Nat /\ s \in Nat /\ p <= s
    BY <2>1, ScanFacts
  <2> HIDE DEF s
  <2>3. CASE s = p
    <3>1. Left = 2
      BY <2>1, <2>3, LeftFacts
    <3>2. Left' = 0
      BY <2>1, LeftPrimed
    <3>3. Left' < Left
      BY <3>1, <3>2
    <3> QED BY <2>1, <2>3, <3>3 DEF Progress
  <2>4. CASE s # p
    <3>1. p' > p
      BY <2>1, <2>2, <2>4
    <3> QED BY <3>1 DEF Progress
  <2> QED BY <2>3, <2>4
<1> QED BY <1>1, <1>2

(* Advances: lex comes back.  Every step of its main loop and of           *)
(* lex_block_scalar's loop moves the cursor on, or changes to a step that  *)
(* is nearer to the end, however the buffer grows and whatever allocation  *)
(* fails; lex_plain at a lone carriage return apart.                       *)
THEOREM LexAdvances == Spec => Advances
<1>1. IInv /\ [Next]_vars => (~LoneReturn => Progress) \/ UNCHANGED vars
  BY EndsOn, MarksOn, NamesOn, QuotedOn, PlainOn, HeaderOn, BlockBlankOn, BlockIndentOn,
     BlockCharOn, BlockNewlineOn, BlockEndOn, CrashOn
     DEF Next, Scalars, Blocks, Stop
<1>2. IInv /\ [Next]_vars => [~LoneReturn => p' > p \/ (p' = p /\ Left' < Left)]_vars
  BY <1>1 DEF Progress
<1> QED BY <1>2, InductiveInvariant, PTL DEF Spec, Advances

(* TypeOK: the cursor leaves the text only behind a last '\' or when the   *)
(* caller's bytes have no end (lex_double_quoted, normalize_encoding), and *)
(* a block scalar's buffer has room for its '\0' (lex_block_scalar).       *)
THEOREM TypeCorrect == Spec => []TypeOK
<1>1. IInv => TypeOK
  <2> SUFFICES ASSUME IInv PROVE TypeOK
    OBVIOUS
  <2>1. /\ pc \in Labels /\ storage \in {"caller", "copy", "freed"}
        /\ flow_depth \in Nat
        /\ pc = "astray" => text = <<>> \/ Last(text) = "\\"
    BY DEF IInv
  <2>2. line \in Nat /\ col \in Nat
    <3>1. p \in Nat \ {0} /\ line = LineIn(text, p) /\ col = ColIn(text, p)
      BY DEF IInv
    <3> QED BY <3>1, PlaceType
  <2>3. \A i \in DOMAIN tokens : TokenOK(tokens[i])
    <3>1. IsSeq(tokens) /\ \A k \in 1..Len(tokens) : TokenIn(tokens[k], text)
      BY DEF IInv
    <3> QED BY <3>1, SeqDomain DEF TokenIn
  <2>4. pc # "astray" => p \in 1..Len(text) + 1
    <3>1. p \in Nat \ {0} /\ Len(text) \in Nat /\ (pc # "astray" => p <= Len(text) + 1)
      BY DEF IInv, IsText
    <3> QED BY <3>1
  <2>5. pc \in {"block", "text"} => Len(blk.buf) < blk.cap
    BY DEF IInv, BlockOK
  <2>6. pc \in {"call", "scan", "block", "text", "done", "refused", "astray", "crashed"}
    BY <2>1 DEF Labels, Lexing
  <2>7. dropped \in Nat /\ Len(tokens) <= room
    BY DEF IInv, ArrayOK
  <2> QED BY <2>1, <2>2, <2>3, <2>4, <2>5, <2>6, <2>7 DEF TypeOK
<1> QED BY <1>1, InductiveInvariant, PTL

(* Places: line and column are those of the text wherever the cursor is,   *)
(* and every token's are those of the place it starts at (ladvance, and    *)
(* the columns lex_block_scalar takes back).                               *)
THEOREM PlacesRight == Spec => []Places
<1>1. IInv => Places
  <2> SUFFICES ASSUME IInv PROVE Places
    OBVIOUS
  <2>1. \A i : LineOf(i) = LineIn(text, i) /\ ColOf(i) = ColIn(text, i)
    BY DEF LineOf, ColOf, LineIn, ColIn, BreaksIn, At
  <2>2. line = LineOf(p) /\ col = ColOf(p)
    BY <2>1 DEF IInv
  <2>3. ASSUME NEW i \in DOMAIN tokens
        PROVE  tokens[i].line = LineOf(tokens[i].at) /\ tokens[i].col = ColOf(tokens[i].at)
    <3>1. IsSeq(tokens) /\ \A k \in 1..Len(tokens) : TokenIn(tokens[k], text)
      BY DEF IInv
    <3>2. TokenIn(tokens[i], text)
      BY <3>1, SeqDomain
    <3> QED BY <2>1, <3>2 DEF TokenIn
  <2> QED BY <2>2, <2>3 DEF Places
<1> QED BY <1>1, InductiveInvariant, PTL

(* FailureReported: when lex hands out tokens the only allocations that    *)
(* failed during the call are those that had to double the array of        *)
(* tokens, one for each token that is missing and none of them for one of  *)
(* the first TokenCap; any other one is in l.error and fails the call.     *)
THEOREM FailuresReported == Spec => []FailureReported
<1>1. IInv => FailureReported
  BY DEF IInv, ArrayOK, FailureReported
<1> QED BY <1>1, InductiveInvariant, PTL

(* The buffers decode_utf16 and decode_utf32 allocate, 3 bytes a unit and  *)
(* 4 bytes a unit and one more, hold what is written and the '\0' behind,  *)
(* for every memory: a pair of surrogates makes 4 bytes out of two units,  *)
(* and a unit beyond Unicode no more than 4.                               *)
THEOREM TranscodedFits ==
  \A m : Memory(m) =>
    \A i \in Nat \ {0}, n \in Nat, be \in BOOLEAN :
      /\ (\A k \in 1..n : ~Zero(m, i + 2 * (k - 1), 2)) =>
           Len(decode_utf16(m, i, n, be)) + 1 <= 3 * n + 1
      /\ (\A k \in 1..n : ~Zero(m, i + 4 * (k - 1), 4)) =>
           Len(decode_utf32(m, i, n, be)) + 1 <= 4 * n + 1
<1> TAKE m
<1> HAVE Memory(m)
<1> TAKE i \in Nat \ {0}, n \in Nat, be \in BOOLEAN
<1>1. ASSUME \A k \in 1..n : ~Zero(m, i + 2 * (k - 1), 2)
      PROVE  Len(decode_utf16(m, i, n, be)) + 1 <= 3 * n + 1
  <2> DEFINE s == decode_utf16(m, i, n, be)
  <2>1. s \in Seq(Bytes) /\ Len(s) <= 3 * n
    BY <1>1, Utf16Bytes
  <2> HIDE DEF s
  <2>2. Len(s) + 1 <= 3 * n + 1
    BY <2>1
  <2> QED BY <2>2 DEF s
<1>2. ASSUME \A k \in 1..n : ~Zero(m, i + 4 * (k - 1), 4)
      PROVE  Len(decode_utf32(m, i, n, be)) + 1 <= 4 * n + 1
  <2> DEFINE s == decode_utf32(m, i, n, be)
  <2>1. s \in Seq(Bytes) /\ Len(s) <= 4 * n
    BY <1>2, Utf32Bytes
  <2> HIDE DEF s
  <2>2. Len(s) + 1 <= 4 * n + 1
    BY <2>1
  <2> QED BY <2>2 DEF s
<1> QED BY <1>1, <1>2
=============================================================================
