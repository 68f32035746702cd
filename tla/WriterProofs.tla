---------------------------- MODULE WriterProofs ----------------------------
(***************************************************************************)
(* The writer's buffer, proved for every tree, every indentation and every *)
(* capacity: it is never overrun, nothing is written behind a piece that   *)
(* did not fit, and YMLWriteBuf returns the length of the whole text, or   *)
(* -1 exactly if text and '\0' do not fit.                                 *)
(***************************************************************************)
EXTENDS RoundTrip, WriterProps, Facts

(***************************************************************************)
(* Lengths of pieces.                                                      *)
(***************************************************************************)
IsPieces(ps) == IsSeq(ps) /\ \A k \in 1..Len(ps) : IsSeq(ps[k])
Lengths(ps)  == [k \in DOMAIN ps |-> Len(ps[k])]

LEMMA LengthsSized ==
  ASSUME NEW ps, IsPieces(ps)
  PROVE  /\ Len(Lengths(ps)) = Len(ps) /\ Len(ps) \in Nat /\ DOMAIN ps = 1..Len(ps)
         /\ \A k \in 1..Len(ps) : Lengths(ps)[k] = Len(ps[k]) /\ Len(ps[k]) \in Nat
         /\ Sizes(Lengths(ps)) /\ Numbers(Lengths(ps))
         /\ Length(ps) = Total(Lengths(ps)) /\ Length(ps) \in Nat
<1>1. Len(ps) \in Nat /\ DOMAIN ps = 1..Len(ps) /\ \A k \in 1..Len(ps) : IsSeq(ps[k])
  BY SeqDomain DEF IsPieces
<1>2. DOMAIN Lengths(ps) = 1..Len(ps) /\ Lengths(ps) = [k \in 1..Len(ps) |-> Lengths(ps)[k]]
      /\ \A k \in 1..Len(ps) : Lengths(ps)[k] = Len(ps[k])
  BY <1>1 DEF Lengths
<1>6. \A k \in 1..Len(ps) : Len(ps[k]) \in Nat
  BY <1>1, SeqDomain
<1>3. Len(Lengths(ps)) = Len(ps)
  BY <1>1, <1>2, SeqFunction
<1>4. Sizes(Lengths(ps)) /\ Numbers(Lengths(ps))
  BY <1>1, <1>2, <1>3, <1>6 DEF Sizes, Numbers
<1>5. Length(ps) = Total(Lengths(ps))
  BY DEF Length, Lengths
<1> QED BY <1>1, <1>2, <1>3, <1>4, <1>5, <1>6, TotalNat

LEMMA LengthConcat ==
  ASSUME NEW a, IsPieces(a), NEW b, IsPieces(b)
  PROVE  IsPieces(a \o b) /\ Length(a \o b) = Length(a) + Length(b)
<1> DEFINE m == Len(a)
           n == Len(b)
           w == Lengths(a \o b)
<1>0. /\ m \in Nat /\ n \in Nat /\ IsSeq(a \o b) /\ Len(a \o b) = m + n
      /\ \A i \in 1..m : (a \o b)[i] = a[i]
      /\ \A i \in 1..n : (a \o b)[m + i] = b[i]
  BY SeqDomain, SeqConcat DEF IsPieces
<1>1. m \in Nat /\ n \in Nat /\ IsPieces(a \o b) /\ Len(a \o b) = m + n
  <2> SUFFICES ASSUME NEW i \in 1..m + n PROVE IsSeq((a \o b)[i])
    BY <1>0 DEF IsPieces
  <2>1. CASE i \in 1..m
    BY <1>0, <2>1 DEF IsPieces
  <2>2. CASE i \notin 1..m
    <3>1. i - m \in 1..n /\ m + (i - m) = i
      BY <1>0, <2>2
    <3> QED BY <1>0, <3>1 DEF IsPieces
  <2> QED BY <2>1, <2>2
<1>2. PICK s : Sums(Lengths(a), s) /\ Total(Lengths(a)) = s[m]
  BY LengthsSized, SumsExist
<1>3. PICK t : Sums(Lengths(b), t) /\ Total(Lengths(b)) = t[n]
  BY LengthsSized, SumsExist
<1>4. s \in [0..m -> Int] /\ s[0] = 0 /\ \A i \in 1..m : s[i] = s[i - 1] + Lengths(a)[i]
  BY <1>2, LengthsSized DEF Sums
<1>5. t \in [0..n -> Int] /\ t[0] = 0 /\ \A i \in 1..n : t[i] = t[i - 1] + Lengths(b)[i]
  BY <1>3, LengthsSized DEF Sums
<1>6. Len(w) = m + n /\ Numbers(w) /\ Length(a \o b) = Total(w)
  BY <1>1, LengthsSized
<1>7. \A i \in 1..m : w[i] = Lengths(a)[i]
  <2> SUFFICES ASSUME NEW i \in 1..m PROVE w[i] = Lengths(a)[i]
    OBVIOUS
  <2>1. (a \o b)[i] = a[i] /\ i \in 1..m + n
    BY <1>0
  <2>2. w[i] = Len((a \o b)[i]) /\ Lengths(a)[i] = Len(a[i])
    BY <1>1, <2>1, LengthsSized
  <2> QED BY <2>1, <2>2
<1>8. \A i \in 1..n : w[m + i] = Lengths(b)[i]
  <2> SUFFICES ASSUME NEW i \in 1..n PROVE w[m + i] = Lengths(b)[i]
    OBVIOUS
  <2>1. (a \o b)[m + i] = b[i] /\ m + i \in 1..m + n
    BY <1>0
  <2>2. w[m + i] = Len((a \o b)[m + i]) /\ Lengths(b)[i] = Len(b[i])
    BY <1>1, <2>1, LengthsSized
  <2> QED BY <2>1, <2>2
<1> DEFINE u == [k \in 0..m + n |-> IF k <= m THEN s[k] ELSE s[m] + t[k - m]]
<1>9. /\ u \in [0..m + n -> Int]
      /\ \A k \in 0..m + n : u[k] = IF k <= m THEN s[k] ELSE s[m] + t[k - m]
  <2> HIDE DEF m, n
  <2>1. \A k \in 0..m + n : IF k <= m THEN k \in 0..m ELSE k - m \in 0..n
    BY <1>1
  <2>2. \A k \in 0..m + n : (IF k <= m THEN s[k] ELSE s[m] + t[k - m]) \in Int
    BY <1>1, <1>4, <1>5, <2>1
  <2> QED BY <2>2
<1> HIDE DEF m, n, u, w
<1>10. \A i \in 1..m + n : u[i] = u[i - 1] + w[i]
  <2> SUFFICES ASSUME NEW i \in 1..m + n PROVE u[i] = u[i - 1] + w[i]
    OBVIOUS
  <2>1. CASE i <= m
    <3>1. i \in 1..m /\ i \in 0..m + n /\ i - 1 \in 0..m + n /\ i - 1 <= m
      BY <1>1, <2>1
    <3>2. u[i] = s[i]
      BY <1>9, <2>1, <3>1
    <3>3. u[i - 1] = s[i - 1]
      BY <1>9, <3>1
    <3>4. s[i] = s[i - 1] + Lengths(a)[i]
      BY <1>4, <3>1
    <3>5. w[i] = Lengths(a)[i]
      BY <1>7, <3>1
    <3> QED BY <3>2, <3>3, <3>4, <3>5
  <2>2. CASE i = m + 1
    <3>1. i \in 0..m + n /\ m \in 0..m + n /\ i - 1 = m /\ ~(i <= m) /\ i - m = 1 /\ 1 \in 1..n
      BY <1>1, <2>2
    <3>2. u[i] = s[m] + t[1] /\ u[i - 1] = s[m]
      BY <1>1, <1>9, <3>1
    <3>3. t[1] = t[0] + Lengths(b)[1] /\ w[m + 1] = Lengths(b)[1] /\ t[1] \in Int
      BY <1>1, <1>5, <1>8, <3>1
    <3>4. Lengths(b)[1] \in Nat
      BY <3>1, LengthsSized DEF n
    <3>5. w[i] = t[1] /\ s[m] \in Int
      BY <1>1, <1>4, <1>5, <2>2, <3>3, <3>4
    <3> QED BY <3>2, <3>5
  <2>3. CASE i > m + 1
    <3>1. /\ i \in 0..m + n /\ i - 1 \in 0..m + n /\ ~(i <= m) /\ ~(i - 1 <= m)
          /\ i - m \in 1..n /\ (i - 1) - m = (i - m) - 1 /\ m + (i - m) = i
      BY <1>1, <2>3
    <3>2. u[i] = s[m] + t[i - m] /\ u[i - 1] = s[m] + t[(i - m) - 1]
      BY <1>9, <3>1
    <3>3. t[i - m] = t[(i - m) - 1] + Lengths(b)[i - m] /\ w[i] = Lengths(b)[i - m]
      BY <1>5, <1>8, <3>1
    <3>4. t[(i - m) - 1] \in Int /\ s[m] \in Int /\ Lengths(b)[i - m] \in Nat
      <4>1. (i - m) - 1 \in 0..n /\ m \in 0..m
        BY <1>1, <3>1
      <4>2. Lengths(b)[i - m] \in Nat
        BY <3>1, LengthsSized DEF n
      <4> QED BY <4>1, <4>2, <1>4, <1>5
    <3> QED BY <3>2, <3>3, <3>4
  <2> QED BY <1>1, <2>1, <2>2, <2>3
<1>11. u[0] = 0
  BY <1>1, <1>4, <1>9
<1>12. Total(w) = u[m + n]
  <2>1. Sums(w, u)
    BY <1>6, <1>9, <1>10, <1>11 DEF Sums
  <2> QED BY <1>6, <2>1, TotalIs
<1>13. u[m + n] = s[m] + t[n]
  <2>1. CASE n = 0
    BY <1>1, <1>4, <1>5, <1>9, <2>1
  <2>2. CASE n > 0
    BY <1>1, <1>9, <2>2
  <2> QED BY <1>1, <2>1, <2>2
<1>14. Length(a) = s[m] /\ Length(b) = t[n]
  BY <1>2, <1>3, LengthsSized
<1> QED BY <1>1, <1>6, <1>12, <1>13, <1>14

LEMMA PieceOne ==
  ASSUME NEW x, IsSeq(x)
  PROVE  IsPieces(<<x>>) /\ Length(<<x>>) = Len(x)
<1> DEFINE n == Len(x)
           w == Lengths(<<x>>)
           s == [k \in 0..1 |-> IF k = 0 THEN 0 ELSE n]
<1>1. IsSeq(<<x>>) /\ Len(<<x>>) = 1 /\ <<x>>[1] = x
  BY DEF IsSeq
<1>2. n \in Nat
  BY SeqDomain
<1>3. IsPieces(<<x>>)
  BY <1>1 DEF IsPieces
<1>4. w[1] = n /\ Len(w) = 1 /\ Numbers(w) /\ Length(<<x>>) = Total(w)
  BY <1>1, <1>3, LengthsSized
<1> HIDE DEF n, w
<1>5. s \in [0..1 -> Int] /\ s[0] = 0 /\ s[1] = n
  BY <1>2
<1> HIDE DEF s
<1>6. Sums(w, s)
  BY <1>2, <1>4, <1>5 DEF Sums
<1>7. Total(w) = s[1]
  BY <1>4, <1>6, TotalIs
<1> QED BY <1>3, <1>4, <1>5, <1>7 DEF n

LEMMA PieceNone == IsPieces(<<>>) /\ Length(<<>>) = 0
<1>1. IsPieces(<<>>) /\ Len(<<>>) = 0
  BY DEF IsPieces, IsSeq
<1> QED BY <1>1, LengthsSized, TotalEmpty

(* n times the same character. *)
LEMMA PieceRow ==
  ASSUME NEW n \in Nat, NEW x, IsSeq(x), Len(x) = 1, NEW ps, ps = [k \in 1..n |-> x]
  PROVE  IsPieces(ps) /\ Length(ps) = n
<1> DEFINE s == [k \in 0..n |-> k]
           w == Lengths(ps)
<1>1. IsSeq(ps) /\ Len(ps) = n /\ \A k \in 1..n : ps[k] = x
  BY SeqFunction
<1>2. IsPieces(ps)
  BY <1>1 DEF IsPieces
<1>3. Len(w) = n /\ Numbers(w) /\ Length(ps) = Total(w) /\ \A k \in 1..n : w[k] = 1
  <2>1. /\ Len(w) = Len(ps) /\ Numbers(w) /\ Length(ps) = Total(w)
        /\ \A k \in 1..Len(ps) : w[k] = Len(ps[k])
    BY <1>2, LengthsSized
  <2> HIDE DEF w
  <2> QED BY <1>1, <2>1
<1>4. s \in [0..n -> Int]
  OBVIOUS
<1>5. \A k \in 0..n : s[k] = k
  OBVIOUS
<1> HIDE DEF s, w
<1>6. Sums(w, s)
  <2>1. \A k \in 1..n : s[k] = s[k - 1] + w[k]
    BY <1>3, <1>5
  <2> QED BY <1>3, <1>4, <1>5, <2>1 DEF Sums
<1>7. Total(w) = s[n]
  BY <1>3, <1>6, TotalIs
<1> QED BY <1>2, <1>3, <1>5, <1>7

(***************************************************************************)
(* _yml_emit, piece after piece.                                           *)
(***************************************************************************)
CtxOK(c) == /\ c \in [indent: Nat, emit_start: BOOLEAN, cap: Nat \cup {Stream},
                      buf: {c.buf}, ok: {0, 1}]
            /\ IsSeq(c.buf)
Fits(c)  == c.cap # Stream /\ c.buf # <<>> => Len(c.buf) < c.cap
SameCall(r, c) == r.indent = c.indent /\ r.emit_start = c.emit_start /\ r.cap = c.cap

(* What n characters in pieces make of c.                                  *)
Put(r, c, n) ==
  /\ CtxOK(r) /\ SameCall(r, c)
  /\ c.ok # 0 => r = c
  /\ c.ok = 0 /\ r.ok = 0 => Len(r.buf) = Len(c.buf) + n
  /\ c.ok = 0 /\ r.ok # 0 => c.cap # Stream /\ Len(c.buf) + n + 1 > c.cap
  /\ Fits(c) => Fits(r)

LEMMA EmitOne ==
  ASSUME NEW c, CtxOK(c), NEW s, IsSeq(s)
  PROVE  Put(_yml_emit(c, s), c, Len(s))
<1> DEFINE r == _yml_emit(c, s)
<1>1. /\ c.indent \in Nat /\ c.emit_start \in BOOLEAN /\ c.cap \in Nat \cup {Stream}
      /\ c.ok \in {0, 1} /\ IsSeq(c.buf) /\ Len(c.buf) \in Nat /\ Len(s) \in Nat
  BY SeqDomain DEF CtxOK
<1>2. IsSeq(c.buf \o s) /\ Len(c.buf \o s) = Len(c.buf) + Len(s)
  BY <1>1, SeqConcat
<1>3. CASE c.ok # 0
  <2>1. r = c
    BY <1>3 DEF _yml_emit
  <2> QED BY <1>1, <1>3, <2>1 DEF Put, SameCall, CtxOK
<1>4. CASE c.ok = 0 /\ c.cap # Stream /\ Len(c.buf) + Len(s) + 1 > c.cap
  <2>1. r = [c EXCEPT !.ok = 1]
    BY <1>4 DEF _yml_emit
  <2>2. r.ok = 1 /\ r.buf = c.buf /\ SameCall(r, c) /\ CtxOK(r)
    BY <1>1, <2>1 DEF CtxOK, SameCall
  <2> QED BY <1>1, <1>4, <2>2 DEF Put, Fits, SameCall
<1>5. CASE c.ok = 0 /\ ~(c.cap # Stream /\ Len(c.buf) + Len(s) + 1 > c.cap)
  <2>1. r = [c EXCEPT !.buf = @ \o s]
    BY <1>5 DEF _yml_emit
  <2>2. r.ok = 0 /\ r.buf = c.buf \o s /\ SameCall(r, c) /\ CtxOK(r)
    BY <1>1, <1>2, <1>5, <2>1 DEF CtxOK, SameCall
  <2> QED BY <1>1, <1>2, <1>5, <2>2 DEF Put, Fits, SameCall, Stream
<1> QED BY <1>1, <1>3, <1>4, <1>5

LEMMA PutTwice ==
  ASSUME NEW c, CtxOK(c), NEW r, NEW q, NEW m \in Nat, NEW n \in Nat,
         Put(r, c, m), Put(q, r, n)
  PROVE  Put(q, c, m + n)
<1>1. c.ok \in {0, 1} /\ r.ok \in {0, 1} /\ q.ok \in {0, 1} /\ c.cap \in Nat \cup {Stream}
  BY DEF Put, CtxOK
<1>2. Len(c.buf) \in Nat /\ Len(r.buf) \in Nat /\ Len(q.buf) \in Nat
  BY SeqDomain DEF Put, CtxOK
<1>3. CtxOK(q) /\ SameCall(q, c) /\ (Fits(c) => Fits(q)) /\ (c.ok # 0 => q = c) /\ r.cap = c.cap
  BY <1>1 DEF Put, SameCall
<1> DEFINE x == Len(c.buf)
           y == Len(r.buf)
           z == Len(q.buf)
<1>4. /\ c.ok = 0 /\ r.ok = 0 => y = x + m
      /\ c.ok = 0 /\ r.ok # 0 => c.cap # Stream /\ x + m + 1 > c.cap
      /\ r.ok = 0 /\ q.ok = 0 => z = y + n
      /\ r.ok = 0 /\ q.ok # 0 => c.cap # Stream /\ y + n + 1 > c.cap
      /\ r.ok # 0 => q.ok = r.ok
  BY <1>3 DEF Put
<1>5. x \in Nat /\ y \in Nat /\ z \in Nat
  BY <1>2
<1> HIDE DEF x, y, z
<1>6. c.ok = 0 /\ q.ok = 0 => z = x + (m + n)
  BY <1>1, <1>4, <1>5
<1>7. c.ok = 0 /\ q.ok # 0 => c.cap # Stream /\ x + (m + n) + 1 > c.cap
  <2> SUFFICES ASSUME c.ok = 0, q.ok # 0 PROVE c.cap # Stream /\ x + (m + n) + 1 > c.cap
    OBVIOUS
  <2>1. c.cap # Stream
    BY <1>1, <1>4
  <2>2. c.cap \in Nat
    BY <1>1, <2>1
  <2>3. x + (m + n) + 1 > c.cap
    BY <1>1, <1>4, <1>5, <2>2
  <2> QED BY <2>1, <2>3
<1> QED BY <1>3, <1>6, <1>7 DEF Put, x, z

LEMMA PutNone == ASSUME NEW c, CtxOK(c) PROVE Put(c, c, 0)
<1>1. Len(c.buf) \in Nat
  BY SeqDomain DEF CtxOK
<1> QED BY <1>1 DEF Put, SameCall

(* The recursive function in Emitted exists. *)
EmitsUpTo(c, ps, n, e) ==
  e = [k \in 0..n |-> IF k = 0 THEN c ELSE _yml_emit(e[k - 1], ps[k])]

LEMMA EmitsExist ==
  ASSUME NEW c, NEW ps, NEW n \in Nat
  PROVE  \E e : EmitsUpTo(c, ps, n, e)
<1> DEFINE S == {m \in Nat : \E e : EmitsUpTo(c, ps, m, e)}
<1>1. 0 \in S
  <2> DEFINE e == [k \in 0..0 |-> c]
  <2>1. e = [k \in 0..0 |-> IF k = 0 THEN c ELSE _yml_emit(e[k - 1], ps[k])]
    OBVIOUS
  <2> QED BY <2>1 DEF EmitsUpTo
<1>2. ASSUME NEW m \in S PROVE m + 1 \in S
  <2>1. PICK e : EmitsUpTo(c, ps, m, e)
    OBVIOUS
  <2> DEFINE F(h) == [k \in 0..m + 1 |-> IF k = 0 THEN c ELSE _yml_emit(h[k - 1], ps[k])]
             g == [k \in 0..m + 1 |-> IF k = m + 1 THEN _yml_emit(e[m], ps[m + 1]) ELSE e[k]]
  <2>2. \A k \in 0..m + 1 : g[k] = IF k = m + 1 THEN _yml_emit(e[m], ps[m + 1]) ELSE e[k]
    OBVIOUS
  <2>3. \A k \in 0..m : e[k] = IF k = 0 THEN c ELSE _yml_emit(e[k - 1], ps[k])
    BY <2>1, Zenon DEF EmitsUpTo
  <2>4. g = [k \in 0..m + 1 |-> g[k]]
    OBVIOUS
  <2> HIDE DEF g
  <2>5. ASSUME NEW k \in 0..m + 1 PROVE g[k] = IF k = 0 THEN c ELSE _yml_emit(g[k - 1], ps[k])
    <3>1. CASE k = 0
      <4>1. k \in 0..m /\ k # m + 1
        BY <3>1
      <4> QED BY <2>2, <2>3, <3>1, <4>1
    <3>2. CASE k # 0 /\ k # m + 1
      <4>1. k \in 0..m /\ k - 1 \in 0..m + 1 /\ k - 1 # m + 1
        BY <3>2
      <4>2. g[k] = e[k] /\ g[k - 1] = e[k - 1]
        BY <2>2, <3>2, <4>1
      <4> QED BY <2>3, <3>2, <4>1, <4>2
    <3>3. CASE k = m + 1
      <4>1. k # 0 /\ k - 1 = m /\ m \in 0..m + 1 /\ m # m + 1
        BY <3>3
      <4>2. g[k] = _yml_emit(e[m], ps[m + 1]) /\ g[k - 1] = e[m]
        BY <2>2, <3>3, <4>1
      <4> QED BY <3>3, <4>1, <4>2
    <3> QED BY <3>1, <3>2, <3>3
  <2>6. g = F(g)
    BY <2>4, <2>5, Zenon
  <2> QED BY <2>6 DEF EmitsUpTo
<1>3. S = Nat
  <2>1. S \in SUBSET Nat
    OBVIOUS
  <2> HIDE DEF S
  <2> QED BY <1>1, <1>2, <2>1, SetInduction
<1> QED BY <1>3

LEMMA EmitFacts ==
  ASSUME NEW c, CtxOK(c), NEW ps, IsPieces(ps)
  PROVE  Put(Emitted(c, ps), c, Length(ps))
<1> DEFINE n == Len(ps)
           w == Lengths(ps)
           e == CHOOSE h : EmitsUpTo(c, ps, n, h)
<1>1. n \in Nat /\ Length(ps) = Total(w) /\ \A k \in 1..n : w[k] = Len(ps[k]) /\ w[k] \in Nat
  BY LengthsSized
<1>2. PICK s : Sums(w, s) /\ Total(w) = s[n]
  BY LengthsSized, SumsExist
<1>3. Emitted(c, ps) = e[n]
  BY DEF Emitted, EmitsUpTo
<1>4. EmitsUpTo(c, ps, n, e)
  BY <1>1, EmitsExist
<1>5. s[0] = 0 /\ \A k \in 1..n : s[k] = s[k - 1] + w[k]
  BY <1>2, LengthsSized DEF Sums
<1> HIDE DEF e, n, w
<1>6. \A k \in 0..n : e[k] = IF k = 0 THEN c ELSE _yml_emit(e[k - 1], ps[k])
  BY <1>4, Zenon DEF EmitsUpTo
<1> DEFINE S == {k \in Nat : k <= n => s[k] \in Nat /\ Put(e[k], c, s[k])}
<1>7. 0 \in S
  BY <1>1, <1>5, <1>6, PutNone
<1>8. ASSUME NEW k \in S PROVE k + 1 \in S
  <2> SUFFICES ASSUME k + 1 <= n PROVE s[k + 1] \in Nat /\ Put(e[k + 1], c, s[k + 1])
    OBVIOUS
  <2>1. k + 1 \in 1..n /\ k + 1 \in 0..n /\ k + 1 # 0 /\ (k + 1) - 1 = k /\ k <= n /\ k \in Nat
    BY <1>1
  <2>2. s[k] \in Nat /\ Put(e[k], c, s[k])
    BY <2>1
  <2>3. e[k + 1] = _yml_emit(e[k], ps[k + 1])
    BY <1>6, <2>1
  <2>4. s[k + 1] = s[k] + w[k + 1] /\ w[k + 1] = Len(ps[k + 1]) /\ w[k + 1] \in Nat
    BY <1>1, <1>5, <2>1
  <2>5. IsSeq(ps[k + 1]) /\ CtxOK(e[k])
    BY <2>1, <2>2 DEF IsPieces, Put, n
  <2>6. Put(e[k + 1], e[k], w[k + 1])
    BY <2>3, <2>4, <2>5, EmitOne
  <2> QED BY <2>2, <2>4, <2>6, PutTwice
<1>9. S = Nat
  <2>1. S \in SUBSET Nat
    OBVIOUS
  <2> HIDE DEF S
  <2> QED BY <1>7, <1>8, <2>1, SetInduction
<1> QED BY <1>1, <1>2, <1>3, <1>9

(***************************************************************************)
(* Trees, level by level, and how long their texts are.                    *)
(***************************************************************************)
TreesUpTo(n, t) == t = [h \in 0..n |-> IF h = 0 THEN {} ELSE Grown(t[h - 1])]

LEMMA TreesExist ==
  ASSUME NEW n \in Nat
  PROVE  \E t : TreesUpTo(n, t)
<1> DEFINE S == {m \in Nat : \E t : TreesUpTo(m, t)}
<1>1. 0 \in S
  <2> DEFINE t == [h \in 0..0 |-> {}]
  <2>1. t = [h \in 0..0 |-> IF h = 0 THEN {} ELSE Grown(t[h - 1])]
    OBVIOUS
  <2> QED BY <2>1 DEF TreesUpTo
<1>2. ASSUME NEW m \in S PROVE m + 1 \in S
  <2>1. PICK t : TreesUpTo(m, t)
    OBVIOUS
  <2> DEFINE F(f) == [h \in 0..m + 1 |-> IF h = 0 THEN {} ELSE Grown(f[h - 1])]
             g == [h \in 0..m + 1 |-> IF h = m + 1 THEN Grown(t[m]) ELSE t[h]]
  <2>2. \A h \in 0..m + 1 : g[h] = IF h = m + 1 THEN Grown(t[m]) ELSE t[h]
    OBVIOUS
  <2>3. \A h \in 0..m : t[h] = IF h = 0 THEN {} ELSE Grown(t[h - 1])
    BY <2>1, Zenon DEF TreesUpTo
  <2>4. g = [h \in 0..m + 1 |-> g[h]]
    OBVIOUS
  <2> HIDE DEF g
  <2>5. ASSUME NEW h \in 0..m + 1 PROVE g[h] = IF h = 0 THEN {} ELSE Grown(g[h - 1])
    <3>1. CASE h = 0
      <4>1. h \in 0..m /\ h # m + 1
        BY <3>1
      <4> QED BY <2>2, <2>3, <3>1, <4>1
    <3>2. CASE h # 0 /\ h # m + 1
      <4>1. h \in 0..m /\ h - 1 \in 0..m + 1 /\ h - 1 # m + 1
        BY <3>2
      <4>2. g[h] = t[h] /\ g[h - 1] = t[h - 1]
        BY <2>2, <3>2, <4>1
      <4> QED BY <2>3, <3>2, <4>1, <4>2
    <3>3. CASE h = m + 1
      <4>1. h # 0 /\ h - 1 = m /\ m \in 0..m + 1 /\ m # m + 1
        BY <3>3
      <4>2. g[h] = Grown(t[m]) /\ g[h - 1] = t[m]
        BY <2>2, <3>3, <4>1
      <4> QED BY <3>3, <4>1, <4>2
    <3> QED BY <3>1, <3>2, <3>3
  <2>6. g = F(g)
    BY <2>4, <2>5, Zenon
  <2> QED BY <2>6 DEF TreesUpTo
<1>3. S = Nat
  <2>1. S \in SUBSET Nat
    OBVIOUS
  <2> HIDE DEF S
  <2> QED BY <1>1, <1>2, <2>1, SetInduction
<1> QED BY <1>3

LEMMA TreesAre ==
  /\ MaxDepth \in Nat /\ Trees[0] = {}
  /\ \A h \in 1..MaxDepth : Trees[h] = Grown(Trees[h - 1])
<1> DEFINE t == CHOOSE f : TreesUpTo(MaxDepth, f)
<1>1. MaxDepth \in Nat
  BY JobsAssumption
<1>2. Trees = t
  BY DEF Trees, TreesUpTo
<1>3. TreesUpTo(MaxDepth, t)
  BY <1>1, TreesExist
<1> HIDE DEF t
<1>4. \A h \in 0..MaxDepth : t[h] = IF h = 0 THEN {} ELSE Grown(t[h - 1])
  BY <1>3, Zenon DEF TreesUpTo
<1>5. 0 \in 0..MaxDepth /\ \A h \in 1..MaxDepth : h \in 0..MaxDepth /\ h # 0
  BY <1>1
<1> QED BY <1>1, <1>2, <1>4, <1>5

LEMMA TreeFacts ==
  ASSUME NEW h \in 0..MaxDepth, NEW t \in Trees[h]
  PROVE  /\ h \in 1..MaxDepth /\ h - 1 \in 0..MaxDepth
         /\ t.type \in {"null", "str", "bool", "int", "float", "arr", "obj"}
         /\ IsSeq(t.text) /\ IsSeq(t.kids) /\ DOMAIN t.kids = 1..Len(t.kids)
         /\ t.kids # <<>> => is_collection(t)
         /\ \A i \in DOMAIN t.kids : /\ t.kids[i].node \in Trees[h - 1]
                                     /\ IsSeq(t.kids[i].key)
<1>1. h \in 1..MaxDepth /\ h - 1 \in 0..MaxDepth /\ t \in Grown(Trees[h - 1])
  BY TreesAre
<1> DEFINE T == Trees[h - 1]
           P == [key: Seq(STRING), node: T]
<1> HIDE DEF T
<1>2. CASE t \in [type: {"null", "str", "bool", "int", "float"}, text: Seq(STRING), kids: {<<>>}]
  <2>1. t.text \in Seq(STRING) /\ t.kids = <<>>
        /\ t.type \in {"null", "str", "bool", "int", "float"}
    BY <1>2
  <2>2. IsSeq(t.text) /\ IsSeq(t.kids) /\ DOMAIN t.kids = 1..Len(t.kids) /\ DOMAIN t.kids = {}
    BY <2>1, SeqIntro, EmptyIsSeq, SeqDomain
  <2> QED BY <1>1, <2>1, <2>2
<1>3. CASE t \in [type: {"arr", "obj"}, text: {<<>>}, kids: Seq(P)]
  <2>1. t.text = <<>> /\ t.type \in {"arr", "obj"} /\ t.kids \in Seq(P)
    BY <1>3
  <2>2. IsSeq(t.text) /\ IsSeq(t.kids) /\ DOMAIN t.kids = 1..Len(t.kids)
    BY <2>1, SeqIntro, EmptyIsSeq, SeqDomain
  <2>3. \A i \in DOMAIN t.kids : t.kids[i] \in P
    <3> HIDE DEF P
    <3> QED BY <2>1, SeqElements
  <2>4. \A x \in P : x.node \in T /\ IsSeq(x.key)
    BY SeqIntro
  <2> QED BY <1>1, <2>1, <2>2, <2>3, <2>4 DEF is_collection, T
<1> QED BY <1>1, <1>2, <1>3 DEF Grown, T

LEMMA Characters ==
  /\ \A x : IsSeq(<<x>>) /\ Len(<<x>>) = 1
  /\ \A x, y : IsSeq(<<x, y>>) /\ Len(<<x, y>>) = 2
  /\ \A x, y, z : IsSeq(<<x, y, z>>) /\ Len(<<x, y, z>>) = 3
  /\ \A w, x, y, z : IsSeq(<<w, x, y, z>>) /\ Len(<<w, x, y, z>>) = 4
<1>1. ASSUME NEW x PROVE IsSeq(<<x>>) /\ Len(<<x>>) = 1
  BY DEF IsSeq
<1>2. ASSUME NEW x, NEW y PROVE IsSeq(<<x, y>>) /\ Len(<<x, y>>) = 2
  BY DEF IsSeq
<1>3. ASSUME NEW x, NEW y, NEW z PROVE IsSeq(<<x, y, z>>) /\ Len(<<x, y, z>>) = 3
  BY DEF IsSeq
<1>4. ASSUME NEW w, NEW x, NEW y, NEW z
      PROVE  IsSeq(<<w, x, y, z>>) /\ Len(<<w, x, y, z>>) = 4
  BY DEF IsSeq
<1> QED BY <1>1, <1>2, <1>3, <1>4

LEMMA StringPieces ==
  ASSUME NEW s, IsSeq(s)
  PROVE  IsPieces(_yml_write_string(s))
<1> DEFINE q == <<"\"">>
           m == [i \in DOMAIN s |-> IF s[i] \in DOMAIN Escape THEN Escape[s[i]] ELSE <<s[i]>>]
<1>1. Len(s) \in Nat /\ DOMAIN s = 1..Len(s)
  BY SeqDomain
<1>2. IsPieces(<<s>>)
  BY PieceOne
<1>3. IsPieces(<<q>>)
  <2>1. IsSeq(q)
    BY Characters, Zenon
  <2> HIDE DEF q
  <2> QED BY <2>1, PieceOne
<1>4. \A x \in DOMAIN Escape : IsSeq(Escape[x])
  BY Characters, Zenon DEF Escape
<1>5. IsPieces(m)
  <2>1. \A i \in 1..Len(s) : IsSeq(m[i])
    BY <1>1, <1>4, Characters
  <2>2. m = [i \in 1..Len(s) |-> m[i]] /\ DOMAIN m = 1..Len(s)
    BY <1>1
  <2> HIDE DEF m
  <2>3. IsSeq(m) /\ Len(m) = Len(s)
    BY <1>1, <2>2, SeqFunction
  <2> QED BY <2>1, <2>3 DEF IsPieces
<1>6. _yml_write_string(s) = IF ~_yml_needs_quotes(s) THEN <<s>> ELSE <<q>> \o m \o <<q>>
  BY Zenon DEF _yml_write_string
<1> HIDE DEF q, m
<1>7. IsPieces(<<q>> \o m \o <<q>>)
  BY <1>3, <1>5, LengthConcat
<1> QED BY <1>2, <1>6, <1>7

LEMMA LiteralPieces ==
  ASSUME NEW h \in 0..MaxDepth, NEW t \in Trees[h]
  PROVE  /\ IsPieces(Literal(t))
         /\ IsEmpty(t) => Length(Literal(t)) = 2 /\ IsSeq(Literal(t)[1]) /\ Len(Literal(t)[1]) = 2
<1>1. /\ t.type \in {"null", "str", "bool", "int", "float", "arr", "obj"}
      /\ IsSeq(t.text)
  BY TreeFacts
<1>2. CASE t.type = "null"
  <2>1. Literal(t) = <<<<"n", "u", "l", "l">>>>
    BY <1>2 DEF Literal
  <2> QED BY <1>2, <2>1, Characters, PieceOne DEF IsEmpty, is_collection
<1>3. CASE t.type = "str"
  <2>1. Literal(t) = _yml_write_string(t.text)
    BY <1>3 DEF Literal
  <2> QED BY <1>1, <1>3, <2>1, StringPieces DEF IsEmpty, is_collection
<1>4. CASE t.type = "arr"
  <2>1. Literal(t) = <<<<"[", "]">>>> /\ Literal(t)[1] = <<"[", "]">>
    BY <1>4 DEF Literal
  <2> QED BY <2>1, Characters, PieceOne
<1>5. CASE t.type = "obj"
  <2>1. Literal(t) = <<<<"{", "}">>>> /\ Literal(t)[1] = <<"{", "}">>
    BY <1>5 DEF Literal
  <2> QED BY <2>1, Characters, PieceOne
<1>6. CASE t.type \in {"bool", "int", "float"}
  <2>1. Literal(t) = <<t.text>>
    BY <1>6 DEF Literal
  <2> QED BY <1>1, <1>6, <2>1, PieceOne DEF IsEmpty, is_collection
<1> QED BY <1>1, <1>2, <1>3, <1>4, <1>5, <1>6

(* The recursive function in Size exists. *)
SizesOver(ind, h, x) ==
  [t \in Trees[h] |-> [d \in Nat |->
     IF t.kids = <<>> THEN Length(Literal(t))
     ELSE Total([i \in DOMAIN t.kids |-> Line(t, i, d, ind, x)])]]
SizesUpTo(ind, n, z) == z = [h \in 0..n |-> IF h = 0 THEN <<>> ELSE SizesOver(ind, h, z[h - 1])]

LEMMA SizesExist ==
  ASSUME NEW n \in Nat, NEW ind
  PROVE  \E z : SizesUpTo(ind, n, z)
<1> DEFINE S == {m \in Nat : \E z : SizesUpTo(ind, m, z)}
<1>1. 0 \in S
  <2> DEFINE z == [h \in 0..0 |-> <<>>]
  <2>1. z = [h \in 0..0 |-> IF h = 0 THEN <<>> ELSE SizesOver(ind, h, z[h - 1])]
    OBVIOUS
  <2> QED BY <2>1 DEF SizesUpTo
<1>2. ASSUME NEW m \in S PROVE m + 1 \in S
  <2>1. PICK z : SizesUpTo(ind, m, z)
    OBVIOUS
  <2> DEFINE F(f) == [h \in 0..m + 1 |-> IF h = 0 THEN <<>> ELSE SizesOver(ind, h, f[h - 1])]
             g == [h \in 0..m + 1 |-> IF h = m + 1 THEN SizesOver(ind, m + 1, z[m]) ELSE z[h]]
  <2>2. \A h \in 0..m + 1 : g[h] = IF h = m + 1 THEN SizesOver(ind, m + 1, z[m]) ELSE z[h]
    OBVIOUS
  <2>3. \A h \in 0..m : z[h] = IF h = 0 THEN <<>> ELSE SizesOver(ind, h, z[h - 1])
    BY <2>1, Zenon DEF SizesUpTo
  <2>4. g = [h \in 0..m + 1 |-> g[h]]
    OBVIOUS
  <2> HIDE DEF g
  <2>5. ASSUME NEW h \in 0..m + 1
        PROVE  g[h] = IF h = 0 THEN <<>> ELSE SizesOver(ind, h, g[h - 1])
    <3>1. CASE h = 0
      <4>1. h \in 0..m /\ h # m + 1
        BY <3>1
      <4> QED BY <2>2, <2>3, <3>1, <4>1
    <3>2. CASE h # 0 /\ h # m + 1
      <4>1. h \in 0..m /\ h - 1 \in 0..m + 1 /\ h - 1 # m + 1
        BY <3>2
      <4>2. g[h] = z[h] /\ g[h - 1] = z[h - 1]
        BY <2>2, <3>2, <4>1
      <4> QED BY <2>3, <3>2, <4>1, <4>2
    <3>3. CASE h = m + 1
      <4>1. h # 0 /\ h - 1 = m /\ m \in 0..m + 1 /\ m # m + 1
        BY <3>3
      <4>2. g[h] = SizesOver(ind, m + 1, z[m]) /\ g[h - 1] = z[m]
        BY <2>2, <3>3, <4>1
      <4> QED BY <3>3, <4>1, <4>2
    <3> QED BY <3>1, <3>2, <3>3
  <2>6. g = F(g)
    BY <2>4, <2>5, Zenon
  <2>7. SizesUpTo(ind, m + 1, g)
    BY <2>6 DEF SizesUpTo
  <2> HIDE DEF F
  <2> QED BY <2>7
<1>3. S = Nat
  <2>1. S \in SUBSET Nat
    OBVIOUS
  <2> HIDE DEF S
  <2> QED BY <1>1, <1>2, <2>1, SetInduction
<1> QED BY <1>3

(* What the kids of t that are in L add to its text. *)
Lines(t, L, d, ind, x) ==
  [i \in DOMAIN t.kids |-> IF i \in L THEN Line(t, i, d, ind, x) ELSE 0]
(* What is to come of t, of whose kids those in L are still to be written. *)
ToCome(h, t, L, d, ind) ==
  IF t.kids = <<>> THEN Length(Literal(t)) ELSE Total(Lines(t, L, d, ind, Size(ind)[h - 1]))

LEMMA SizeIs ==
  ASSUME NEW ind, NEW h \in 0..MaxDepth, NEW t \in Trees[h], NEW d \in Nat
  PROVE  Size(ind)[h][t][d] = ToCome(h, t, DOMAIN t.kids, d, ind)
<1> DEFINE z == CHOOSE f : SizesUpTo(ind, MaxDepth, f)
<1>1. Size(ind) = z
  BY DEF Size, SizesUpTo, SizesOver
<1>2. SizesUpTo(ind, MaxDepth, z)
  BY TreesAre, SizesExist
<1> HIDE DEF z
<1>3. z[h] = SizesOver(ind, h, z[h - 1])
  <2>1. \A k \in 0..MaxDepth : z[k] = IF k = 0 THEN <<>> ELSE SizesOver(ind, k, z[k - 1])
    BY <1>2, Zenon DEF SizesUpTo
  <2>2. h # 0
    BY TreeFacts
  <2> QED BY <2>1, <2>2
<1> DEFINE x == z[h - 1]
           E(u, e) == IF u.kids = <<>> THEN Length(Literal(u))
                      ELSE Total([i \in DOMAIN u.kids |-> Line(u, i, e, ind, x)])
<1>4. SizesOver(ind, h, x) = [u \in Trees[h] |-> [e \in Nat |-> E(u, e)]]
  BY DEF SizesOver
<1>5. z[h][t][d] = E(t, d)
  <2> HIDE DEF E, x
  <2>1. [u \in Trees[h] |-> [e \in Nat |-> E(u, e)]][t] = [e \in Nat |-> E(t, e)]
    OBVIOUS
  <2>2. [e \in Nat |-> E(t, e)][d] = E(t, d)
    OBVIOUS
  <2> QED BY <1>3, <1>4, <2>1, <2>2 DEF x
<1>6. [i \in DOMAIN t.kids |-> Line(t, i, d, ind, x)] = Lines(t, DOMAIN t.kids, d, ind, x)
  BY DEF Lines
<1> QED BY <1>1, <1>5, <1>6 DEF ToCome

LEMMA LineNat ==
  ASSUME NEW ind \in Nat, NEW h \in 0..MaxDepth, NEW t \in Trees[h], NEW d \in Nat,
         NEW i \in DOMAIN t.kids
  PROVE  LineStart(t, i, d, ind) \in Nat
<1>1. IsSeq(t.kids[i].key)
  BY TreeFacts
<1>2. Length(_yml_write_string(t.kids[i].key)) \in Nat
  BY <1>1, StringPieces, LengthsSized
<1>3. d * ind \in Nat
  OBVIOUS
<1> QED BY <1>2, <1>3 DEF LineStart

LEMMA ToComeNat ==
  ASSUME NEW ind \in Nat, NEW h \in 0..MaxDepth, NEW t \in Trees[h], NEW d \in Nat,
         NEW L,
         \A i \in DOMAIN t.kids : Line(t, i, d, ind, Size(ind)[h - 1]) \in Nat
  PROVE  /\ ToCome(h, t, L, d, ind) \in Nat
         /\ Sizes(Lines(t, L, d, ind, Size(ind)[h - 1]))
         /\ Numbers(Lines(t, L, d, ind, Size(ind)[h - 1]))
         /\ Len(Lines(t, L, d, ind, Size(ind)[h - 1])) = Len(t.kids)
<1> DEFINE x == Size(ind)[h - 1]
           w == Lines(t, L, d, ind, x)
<1>1. DOMAIN t.kids = 1..Len(t.kids) /\ Len(t.kids) \in Nat
  BY TreeFacts, SeqDomain
<1>2. \A i \in 1..Len(t.kids) : Line(t, i, d, ind, x) \in Nat
  BY <1>1
<1> HIDE DEF x
<1>3. DOMAIN w = 1..Len(t.kids) /\ w = [i \in 1..Len(t.kids) |-> w[i]]
      /\ \A i \in 1..Len(t.kids) : w[i] \in Nat
  BY <1>1, <1>2 DEF Lines
<1> HIDE DEF w
<1>4. Len(w) = Len(t.kids)
  BY <1>1, <1>3, SeqFunction
<1>5. Sizes(w) /\ Numbers(w)
  <2>1. Len(w) \in Nat /\ \A i \in 1..Len(w) : w[i] \in Nat
    BY <1>1, <1>3, <1>4
  <2> QED BY <2>1 DEF Sizes, Numbers
<1>6. Length(Literal(t)) \in Nat
  BY LiteralPieces, LengthsSized
<1> QED BY <1>4, <1>5, <1>6, TotalNat DEF ToCome, w, x

LEMMA SizeNat ==
  ASSUME NEW ind \in Nat
  PROVE  \A h \in 0..MaxDepth : \A t \in Trees[h] : \A d \in Nat : Size(ind)[h][t][d] \in Nat
<1> DEFINE Holds(h) == \A t \in Trees[h] : \A d \in Nat : Size(ind)[h][t][d] \in Nat
           S == {h \in Nat : h <= MaxDepth => Holds(h)}
<1>1. 0 \in S
  BY TreesAre
<1>2. ASSUME NEW h \in S PROVE h + 1 \in S
  <2> SUFFICES ASSUME h + 1 <= MaxDepth, NEW t \in Trees[h + 1], NEW d \in Nat
               PROVE  Size(ind)[h + 1][t][d] \in Nat
    OBVIOUS
  <2>1. h + 1 \in 0..MaxDepth /\ (h + 1) - 1 = h /\ h \in 0..MaxDepth /\ Holds(h)
    BY TreesAre
  <2>2. ASSUME NEW i \in DOMAIN t.kids PROVE Line(t, i, d, ind, Size(ind)[h]) \in Nat
    <3>1. t.kids[i].node \in Trees[h]
      BY <2>1, TreeFacts
    <3>2. Deeper(t.kids[i].node, d) \in Nat
      BY DEF Deeper
    <3>3. Size(ind)[h][t.kids[i].node][Deeper(t.kids[i].node, d)] \in Nat
      BY <2>1, <3>1, <3>2
    <3>4. LineStart(t, i, d, ind) \in Nat
      BY <2>1, LineNat
    <3> QED BY <3>3, <3>4 DEF Line
  <2>3. ToCome(h + 1, t, DOMAIN t.kids, d, ind) \in Nat
    BY <2>1, <2>2, ToComeNat
  <2> QED BY <2>1, <2>3, SizeIs
<1>3. S = Nat
  <2>1. S \in SUBSET Nat
    OBVIOUS
  <2> HIDE DEF S
  <2> QED BY <1>1, <1>2, <2>1, SetInduction
<1> QED BY <1>3, TreesAre

LEMMA LinesNat ==
  ASSUME NEW ind \in Nat, NEW h \in 0..MaxDepth, NEW t \in Trees[h], NEW d \in Nat
  PROVE  \A i \in DOMAIN t.kids : Line(t, i, d, ind, Size(ind)[h - 1]) \in Nat
<1> SUFFICES ASSUME NEW i \in DOMAIN t.kids PROVE Line(t, i, d, ind, Size(ind)[h - 1]) \in Nat
  OBVIOUS
<1>1. h - 1 \in 0..MaxDepth /\ t.kids[i].node \in Trees[h - 1]
  BY TreeFacts
<1>2. Deeper(t.kids[i].node, d) \in Nat
  BY DEF Deeper
<1>3. Size(ind)[h - 1][t.kids[i].node][Deeper(t.kids[i].node, d)] \in Nat
  BY <1>1, <1>2, SizeNat
<1>4. LineStart(t, i, d, ind) \in Nat
  BY LineNat
<1> QED BY <1>3, <1>4 DEF Line

LEMMA ToComeFacts ==
  ASSUME NEW ind \in Nat, NEW h \in 0..MaxDepth, NEW t \in Trees[h], NEW d \in Nat, NEW L
  PROVE  /\ ToCome(h, t, L, d, ind) \in Nat
         /\ Sizes(Lines(t, L, d, ind, Size(ind)[h - 1]))
         /\ Numbers(Lines(t, L, d, ind, Size(ind)[h - 1]))
         /\ Len(Lines(t, L, d, ind, Size(ind)[h - 1])) = Len(t.kids)
<1>1. \A i \in DOMAIN t.kids : Line(t, i, d, ind, Size(ind)[h - 1]) \in Nat
  BY LinesNat, Zenon
<1> QED BY <1>1, ToComeNat, Zenon

(* One of the kids is written: its line is no longer to come. *)
LEMMA ToComeLess ==
  ASSUME NEW ind \in Nat, NEW h \in 0..MaxDepth, NEW t \in Trees[h], NEW d \in Nat,
         NEW L \in SUBSET DOMAIN t.kids, NEW i \in L
  PROVE  ToCome(h, t, L, d, ind)
           = ToCome(h, t, L \ {i}, d, ind) + LineStart(t, i, d, ind)
               + ToCome(h - 1, t.kids[i].node, DOMAIN t.kids[i].node.kids,
                      Deeper(t.kids[i].node, d), ind)
<1> DEFINE x == Size(ind)[h - 1]
           w == Lines(t, L, d, ind, x)
           v == Lines(t, L \ {i}, d, ind, x)
<1>1. /\ Sizes(w) /\ Numbers(w) /\ Len(w) = Len(t.kids)
      /\ Sizes(v) /\ Numbers(v) /\ Len(v) = Len(t.kids)
  <2>1. Sizes(w) /\ Numbers(w) /\ Len(w) = Len(t.kids)
    BY ToComeFacts, Zenon
  <2>2. Sizes(v) /\ Numbers(v) /\ Len(v) = Len(t.kids)
    BY ToComeFacts, Zenon
  <2> HIDE DEF v, w
  <2> QED BY <2>1, <2>2
<1>2. DOMAIN t.kids = 1..Len(t.kids) /\ i \in 1..Len(t.kids)
  BY TreeFacts
<1>3. w[i] = Line(t, i, d, ind, x) /\ v[i] = 0 /\ w[i] \in Nat
  BY LinesNat DEF Lines
<1>4. \A k \in 1..Len(t.kids) : k # i => v[k] = w[k]
  BY <1>2 DEF Lines
<1>5. DOMAIN v = 1..Len(t.kids) /\ DOMAIN w = 1..Len(t.kids)
  BY <1>2 DEF Lines
<1> HIDE DEF v, w
<1>6. Total(v) = Total(w) - w[i] + v[i]
  BY <1>1, <1>2, <1>4, <1>5, TotalReplace
<1>7. Total(v) \in Nat /\ Total(w) \in Nat
  BY <1>1, TotalNat
<1>8. Total(w) = Total(v) + w[i]
  BY <1>3, <1>6, <1>7
<1>9. h - 1 \in 0..MaxDepth /\ t.kids[i].node \in Trees[h - 1]
      /\ Deeper(t.kids[i].node, d) \in Nat
  BY TreeFacts DEF Deeper
<1>10. x[t.kids[i].node][Deeper(t.kids[i].node, d)]
         = ToCome(h - 1, t.kids[i].node, DOMAIN t.kids[i].node.kids, Deeper(t.kids[i].node, d), ind)
  BY <1>9, SizeIs
<1>11. t.kids # <<>>
  BY <1>2, TreeFacts
<1>12. ToCome(h, t, L, d, ind) = Total(w) /\ ToCome(h, t, L \ {i}, d, ind) = Total(v)
  BY <1>11 DEF ToCome, v, w
<1>13. x[t.kids[i].node][Deeper(t.kids[i].node, d)] \in Nat /\ LineStart(t, i, d, ind) \in Nat
  BY <1>9, SizeNat, LineNat
<1> HIDE DEF x
<1> QED BY <1>3, <1>7, <1>8, <1>10, <1>12, <1>13 DEF Line

(* None of them is left. *)
LEMMA ToComeNone ==
  ASSUME NEW ind \in Nat, NEW h \in 0..MaxDepth, NEW t \in Trees[h], NEW d \in Nat,
         t.kids # <<>>
  PROVE  ToCome(h, t, {}, d, ind) = 0
<1> DEFINE w == Lines(t, {}, d, ind, Size(ind)[h - 1])
           s == [k \in 0..Len(w) |-> 0]
<1>1. Numbers(w) /\ Len(w) = Len(t.kids) /\ Len(t.kids) \in Nat /\ DOMAIN t.kids = 1..Len(t.kids)
  <2>1. Numbers(w) /\ Len(w) = Len(t.kids)
    BY ToComeFacts, Zenon
  <2> QED BY <2>1, TreeFacts, SeqDomain
<1>2. \A k \in 1..Len(t.kids) : w[k] = 0
  BY <1>1 DEF Lines
<1> HIDE DEF w
<1>3. s \in [0..Len(w) -> Int] /\ \A k \in 0..Len(w) : s[k] = 0
  OBVIOUS
<1> HIDE DEF s
<1>4. Sums(w, s)
  BY <1>1, <1>2, <1>3 DEF Sums
<1>5. Total(w) = 0
  BY <1>1, <1>3, <1>4, TotalIs
<1> QED BY <1>5 DEF ToCome, w

(***************************************************************************)
(* The stack of activations.  The k-th from below writes a value of the    *)
(* k-th level from above.                                                  *)
(***************************************************************************)
LEMMA StackPush ==
  ASSUME NEW w, IsSeq(w), NEW f
  PROVE  LET t == <<f>> \o w
         IN /\ IsSeq(t) /\ Len(t) = Len(w) + 1 /\ t[1] = f
            /\ \A i \in 1..Len(w) : t[i + 1] = w[i]
<1> DEFINE G == {w[i] : i \in DOMAIN w} \cup {f}
           t == <<f>> \o w
<1>1. w \in Seq(G) /\ <<f>> \in Seq(G) /\ Len(<<f>>) = 1 /\ <<f>>[1] = f
  BY DEF IsSeq
<1> HIDE DEF G
<1>2. t \in Seq(G) /\ Len(t) = Len(w) + 1
  BY <1>1
<1>3. t[1] = f /\ \A i \in 1..Len(w) : t[i + 1] = w[i]
  BY <1>1
<1> QED BY <1>2, <1>3, SeqIntro

LEMMA StackPop ==
  ASSUME NEW w, IsSeq(w), w # <<>>
  PROVE  /\ IsSeq(Tail(w)) /\ Len(Tail(w)) = Len(w) - 1 /\ Head(w) = w[1] /\ Len(w) > 0
         /\ \A i \in 1..Len(w) - 1 : Tail(w)[i] = w[i + 1]
<1> DEFINE G == {w[i] : i \in DOMAIN w}
<1>1. w \in Seq(G) /\ Len(w) > 0
  BY SeqDomain DEF IsSeq
<1> HIDE DEF G
<1>2. Tail(w) \in Seq(G) /\ Len(Tail(w)) = Len(w) - 1
  BY <1>1
<1>3. Head(w) = w[1] /\ \A i \in 1..Len(w) - 1 : Tail(w)[i] = w[i + 1]
  BY <1>1
<1> QED BY <1>1, <1>2, <1>3, SeqIntro

LEMMA StackPushTwo ==
  ASSUME NEW w, IsSeq(w), NEW f, NEW g
  PROVE  <<f, g>> \o w = <<f>> \o (<<g>> \o w)
<1> DEFINE G == {w[i] : i \in DOMAIN w} \cup {f, g}
<1>1. w \in Seq(G) /\ f \in G /\ g \in G
  BY DEF IsSeq
<1> HIDE DEF G
<1>2. <<f>> \in Seq(G) /\ <<g>> \in Seq(G)
  BY <1>1
<1>3. <<f>> \o <<g>> = <<f, g>>
  <2> DEFINE q == <<f>> \o <<g>>
  <2>1. q \in Seq(G) /\ Len(q) = 2 /\ q[1] = f /\ q[2] = g
    BY <1>2, ConcatProperties
  <2>2. <<f, g>> \in Seq(G)
    BY <1>1
  <2> HIDE DEF q
  <2>3. q = <<f, g>>
    BY <2>1, <2>2
  <2> QED BY <2>3 DEF q
<1>4. (<<f>> \o <<g>>) \o w = <<f>> \o (<<g>> \o w)
  BY <1>1, <1>2, ConcatAssociative
<1> QED BY <1>3, <1>4, Zenon

FrameOK(f, h) ==
  /\ h \in 0..MaxDepth /\ f.node \in Trees[h] /\ f.depth \in Nat
  /\ f.left \in SUBSET DOMAIN f.node.kids
  /\ f = [node |-> f.node, depth |-> f.depth, left |-> f.left]
Due(f, h, ind) == ToCome(h, f.node, f.left, f.depth, ind)
Below(w, k)    == w[Len(w) + 1 - k]

(* n characters are to come from the activations of w.                     *)
Owes(w, ind, n) ==
  /\ IsSeq(w)
  /\ \A k \in 1..Len(w) : FrameOK(Below(w, k), MaxDepth - k + 1)
  /\ \E due \in [0..Len(w) -> Nat] :
       /\ due[0] = 0 /\ due[Len(w)] = n
       /\ \A k \in 1..Len(w) : due[k] = due[k - 1] + Due(Below(w, k), MaxDepth - k + 1, ind)

LEMMA DueNat ==
  ASSUME NEW f, NEW h, FrameOK(f, h), NEW ind \in Nat
  PROVE  Due(f, h, ind) \in Nat
<1>1. h \in 0..MaxDepth /\ f.node \in Trees[h] /\ f.depth \in Nat
  BY DEF FrameOK
<1>2. ToCome(h, f.node, f.left, f.depth, ind) \in Nat
  BY <1>1, ToComeFacts, Zenon
<1> QED BY <1>2 DEF Due

LEMMA OwesNothing ==
  /\ \A ind : Owes(<<>>, ind, 0)
  /\ \A ind, n : Owes(<<>>, ind, n) => n = 0
<1>1. IsSeq(<<>>) /\ Len(<<>>) = 0 /\ 1..0 = {}
  BY EmptyIsSeq
<1>2. [i \in 0..0 |-> 0] \in [0..0 -> Nat] /\ [i \in 0..0 |-> 0][0] = 0
  OBVIOUS
<1>3. \A ind : Owes(<<>>, ind, 0)
  BY <1>1, <1>2 DEF Owes
<1> QED BY <1>1, <1>3 DEF Owes

LEMMA OwesMore ==
  ASSUME NEW w, NEW ind, NEW n \in Nat, Owes(w, ind, n),
         NEW f, FrameOK(f, MaxDepth - Len(w)), Due(f, MaxDepth - Len(w), ind) \in Nat
  PROVE  Owes(<<f>> \o w, ind, n + Due(f, MaxDepth - Len(w), ind))
<1> DEFINE l == Len(w)
           t == <<f>> \o w
           m == Due(f, MaxDepth - l, ind)
<1>1. l \in Nat /\ IsSeq(w) /\ MaxDepth \in Nat
  BY SeqDomain, TreesAre DEF Owes
<1>2. IsSeq(t) /\ Len(t) = l + 1 /\ t[1] = f /\ \A i \in 1..l : t[i + 1] = w[i]
  BY <1>1, StackPush
<1>3. PICK due \in [0..l -> Nat] :
             /\ due[0] = 0 /\ due[l] = n
             /\ \A k \in 1..l : due[k] = due[k - 1] + Due(Below(w, k), MaxDepth - k + 1, ind)
  BY DEF Owes
<1>4. \A k \in 1..l : FrameOK(Below(w, k), MaxDepth - k + 1)
  BY DEF Owes
<1>5. MaxDepth - (l + 1) + 1 = MaxDepth - l /\ (l + 1) - 1 = l
  BY <1>1
<1>6. m \in Nat /\ FrameOK(f, MaxDepth - l)
  OBVIOUS
<1> HIDE DEF l, m, t
<1>7. Below(t, l + 1) = f /\ \A k \in 1..l : Below(t, k) = Below(w, k)
  <2>1. (l + 1) + 1 - (l + 1) = 1
    BY <1>1
  <2>2. \A k \in 1..l : (l + 1 - k) \in 1..l /\ (l + 1) + 1 - k = (l + 1 - k) + 1
    BY <1>1
  <2> QED BY <1>2, <2>1, <2>2 DEF Below, l
<1> DEFINE e == [k \in 0..l + 1 |-> IF k = l + 1 THEN n + m ELSE due[k]]
<1>8. e \in [0..l + 1 -> Nat] /\ \A k \in 0..l + 1 : e[k] = IF k = l + 1 THEN n + m ELSE due[k]
  <2>1. \A k \in 0..l + 1 : k # l + 1 => k \in 0..l
    BY <1>1
  <2>2. \A k \in 0..l + 1 : (IF k = l + 1 THEN n + m ELSE due[k]) \in Nat
    BY <1>3, <1>6, <2>1
  <2> QED BY <2>2
<1> HIDE DEF e
<1>9. e[0] = 0 /\ e[l + 1] = n + m /\ e[l] = n
  BY <1>1, <1>3, <1>8
<1>10. ASSUME NEW k \in 1..l + 1
       PROVE  FrameOK(Below(t, k), MaxDepth - k + 1)
              /\ e[k] = e[k - 1] + Due(Below(t, k), MaxDepth - k + 1, ind)
  <2>1. CASE k = l + 1
    <3>1. Due(Below(t, k), MaxDepth - k + 1, ind) = m
      BY <1>5, <1>7, <2>1 DEF m
    <3>2. e[k] = n + m /\ e[k - 1] = n
      BY <1>5, <1>9, <2>1
    <3> QED BY <1>5, <1>6, <1>7, <2>1, <3>1, <3>2
  <2>2. CASE k # l + 1
    <3>1. k \in 1..l /\ k \in 0..l + 1 /\ k - 1 \in 0..l + 1 /\ k - 1 # l + 1
      BY <1>1, <2>2
    <3>2. e[k] = due[k] /\ e[k - 1] = due[k - 1] /\ Below(t, k) = Below(w, k)
      BY <1>7, <1>8, <2>2, <3>1
    <3> QED BY <1>3, <1>4, <3>1, <3>2
  <2> QED BY <2>1, <2>2
<1> QED BY <1>2, <1>8, <1>9, <1>10 DEF Owes, l, m, t

LEMMA OwesLess ==
  ASSUME NEW w, NEW ind, NEW n, Owes(w, ind, n), w # <<>>
  PROVE  LET h == MaxDepth - Len(Tail(w))
         IN /\ FrameOK(Head(w), h)
            /\ \E m \in Nat : Owes(Tail(w), ind, m) /\ n = m + Due(Head(w), h, ind)
<1> DEFINE l == Len(w)
           t == Tail(w)
<1>1. l \in Nat /\ l > 0 /\ IsSeq(w) /\ MaxDepth \in Nat
  BY SeqDomain, TreesAre DEF Owes
<1>2. IsSeq(t) /\ Len(t) = l - 1 /\ Head(w) = w[1] /\ \A i \in 1..l - 1 : t[i] = w[i + 1]
  BY <1>1, StackPop
<1>3. PICK due \in [0..l -> Nat] :
             /\ due[0] = 0 /\ due[l] = n
             /\ \A k \in 1..l : due[k] = due[k - 1] + Due(Below(w, k), MaxDepth - k + 1, ind)
  BY DEF Owes
<1>4. \A k \in 1..l : FrameOK(Below(w, k), MaxDepth - k + 1)
  BY DEF Owes
<1>5. MaxDepth - l + 1 = MaxDepth - (l - 1) /\ l \in 1..l
  BY <1>1
<1> HIDE DEF l, t
<1>6. Below(w, l) = Head(w) /\ \A k \in 1..l - 1 : Below(t, k) = Below(w, k)
  <2>1. l + 1 - l = 1
    BY <1>1
  <2>2. \A k \in 1..l - 1 : (l - 1) + 1 - k \in 1..l - 1 /\ ((l - 1) + 1 - k) + 1 = l + 1 - k
    BY <1>1
  <2> QED BY <1>2, <2>1, <2>2 DEF Below, l
<1>7. FrameOK(Head(w), MaxDepth - (l - 1))
      /\ n = due[l - 1] + Due(Head(w), MaxDepth - (l - 1), ind)
  BY <1>3, <1>4, <1>5, <1>6
<1> DEFINE e == [k \in 0..l - 1 |-> due[k]]
<1>8. e \in [0..l - 1 -> Nat] /\ \A k \in 0..l - 1 : e[k] = due[k]
  <2>1. \A k \in 0..l - 1 : k \in 0..l
    BY <1>1
  <2> QED BY <1>3, <2>1
<1> HIDE DEF e
<1>9. e[0] = 0 /\ e[l - 1] = due[l - 1] /\ due[l - 1] \in Nat
  <2>1. 0 \in 0..l - 1 /\ l - 1 \in 0..l - 1 /\ l - 1 \in 0..l
    BY <1>1
  <2> QED BY <1>3, <1>8, <2>1
<1>10. ASSUME NEW k \in 1..l - 1
       PROVE  FrameOK(Below(t, k), MaxDepth - k + 1)
              /\ e[k] = e[k - 1] + Due(Below(t, k), MaxDepth - k + 1, ind)
  <2>1. k \in 1..l /\ k \in 0..l - 1 /\ k - 1 \in 0..l - 1
    BY <1>1
  <2>2. e[k] = due[k] /\ e[k - 1] = due[k - 1] /\ Below(t, k) = Below(w, k)
    BY <1>6, <1>8, <2>1
  <2> QED BY <1>3, <1>4, <2>1, <2>2
<1>11. Owes(t, ind, due[l - 1])
  BY <1>2, <1>8, <1>9, <1>10 DEF Owes
<1> QED BY <1>2, <1>7, <1>9, <1>11 DEF t

(***************************************************************************)
(* The inductive invariant: what is in the buffer, what the activations    *)
(* owe, and the last line break are the whole text, or that did not fit.   *)
(***************************************************************************)
Returned(c, whole, r) == IF c.cap # Stream /\ whole >= c.cap THEN r = -1 ELSE r = whole
Account(c, n, whole) ==
  /\ c.ok = 0 => Len(c.buf) + n = whole
  /\ c.ok # 0 => c.cap # Stream /\ whole >= c.cap

WInv ==
  /\ tree \in Trees[MaxDepth] /\ CtxOK(ctx) /\ Fits(ctx)
  /\ pc = "call"  => ctx.buf = <<>> /\ ctx.ok = 0
  /\ pc = "write" => \E n \in Nat : Owes(work, ctx.indent, n) /\ Account(ctx, n + 1, Whole)
  /\ pc \notin {"call", "write"} => Returned(ctx, Whole, result)

LEMMA AccountKept ==
  ASSUME NEW c, CtxOK(c), NEW r, NEW m \in Nat, NEW n \in Nat, n > 0, NEW W \in Nat,
         Put(r, c, m), Account(c, m + n, W)
  PROVE  Account(r, n, W)
<1> DEFINE x == Len(c.buf)
           y == Len(r.buf)
<1>1. c.ok \in {0, 1} /\ c.cap \in Nat \cup {Stream} /\ r.cap = c.cap
  BY DEF Put, CtxOK, SameCall
<1>2. x \in Nat /\ y \in Nat
  BY SeqDomain DEF Put, CtxOK
<1>3. /\ c.ok # 0 => r = c
      /\ c.ok = 0 /\ r.ok = 0 => y = x + m
      /\ c.ok = 0 /\ r.ok # 0 => c.cap # Stream /\ x + m + 1 > c.cap
      /\ c.ok = 0 => x + (m + n) = W
      /\ c.ok # 0 => c.cap # Stream /\ W >= c.cap
  BY DEF Put, Account
<1>4. r.ok = 0 => c.ok = 0
  BY <1>3
<1> HIDE DEF x, y
<1>5. r.ok = 0 => y + n = W
  BY <1>2, <1>3, <1>4
<1>6. ASSUME r.ok # 0 PROVE r.cap # Stream /\ W >= r.cap
  <2>1. c.cap # Stream /\ c.cap \in Nat
    BY <1>1, <1>3, <1>6
  <2>2. W >= c.cap
    BY <1>1, <1>2, <1>3, <1>6, <2>1
  <2> QED BY <1>1, <2>1, <2>2
<1> QED BY <1>5, <1>6 DEF Account, y

(* The last piece, and what is returned behind it. *)
LEMMA AccountClosed ==
  ASSUME NEW c, CtxOK(c), NEW r, NEW m \in Nat, m > 0, NEW W \in Nat,
         Put(r, c, m), Account(c, m, W), Fits(c)
  PROVE  Returned(r, W, BytesWritten(r))
<1> DEFINE x == Len(c.buf)
           y == Len(r.buf)
<1>1. /\ c.ok \in {0, 1} /\ c.cap \in Nat \cup {Stream} /\ r.cap = c.cap /\ Fits(r)
      /\ IsSeq(r.buf)
  BY DEF Put, CtxOK, SameCall
<1>2. x \in Nat /\ y \in Nat
  BY SeqDomain DEF Put, CtxOK
<1>3. /\ c.ok # 0 => r = c
      /\ c.ok = 0 /\ r.ok = 0 => y = x + m
      /\ c.ok = 0 /\ r.ok # 0 => c.cap # Stream /\ x + m + 1 > c.cap
      /\ c.ok = 0 => x + m = W
      /\ c.ok # 0 => c.cap # Stream /\ W >= c.cap
  BY DEF Put, Account
<1>4. CASE r.ok = 0
  <2>1. c.ok = 0 /\ y = W /\ y > 0
    <3> HIDE DEF x, y
    <3> QED BY <1>2, <1>3, <1>4
  <2>2. r.buf # <<>>
    BY <2>1
  <2>3. r.cap # Stream => y < r.cap
    BY <1>1, <2>2 DEF Fits
  <2>4. BytesWritten(r) = y
    BY <1>4 DEF BytesWritten
  <2> HIDE DEF y
  <2>5. ~ (r.cap # Stream /\ W >= r.cap)
    BY <1>1, <1>2, <2>1, <2>3
  <2> QED BY <2>1, <2>4, <2>5 DEF Returned
<1>5. CASE r.ok # 0
  <2>1. c.cap # Stream /\ c.cap \in Nat
    BY <1>1, <1>3, <1>5
  <2> HIDE DEF x, y
  <2>2. W >= c.cap
    BY <1>1, <1>2, <1>3, <1>5, <2>1
  <2>3. BytesWritten(r) = -1
    BY <1>5 DEF BytesWritten
  <2> QED BY <1>1, <2>1, <2>2, <2>3 DEF Returned
<1> QED BY <1>4, <1>5

LEMMA WholeIs ==
  ASSUME WInv
  PROVE  Whole \in Nat
         /\ Whole = (IF ctx.emit_start THEN 3 ELSE 0)
                      + ToCome(MaxDepth, tree, DOMAIN tree.kids, 0, ctx.indent) + 1
                      + (IF ctx.emit_start /\ tree.kids = <<>> THEN 1 ELSE 0)
         /\ ToCome(MaxDepth, tree, DOMAIN tree.kids, 0, ctx.indent) \in Nat
<1>1. tree \in Trees[MaxDepth] /\ MaxDepth \in 0..MaxDepth /\ ctx.indent \in Nat /\ 0 \in Nat
  BY TreesAre DEF WInv, CtxOK
<1>2. Size(ctx.indent)[MaxDepth][tree][0]
        = ToCome(MaxDepth, tree, DOMAIN tree.kids, 0, ctx.indent)
  BY <1>1, SizeIs
<1>3. Size(ctx.indent)[MaxDepth][tree][0] \in Nat
  BY <1>1, SizeNat
<1> QED BY <1>2, <1>3 DEF Whole

LEMMA WholeKept ==
  ASSUME tree' = tree, SameCall(ctx', ctx)
  PROVE  Whole' = Whole
BY DEF Whole, SameCall

LEMMA LineBreak == IsPieces(Newline) /\ Length(Newline) = 1
<1>1. IsSeq(<<"\n">>) /\ Len(<<"\n">>) = 1
  BY Characters, Zenon
<1> DEFINE x == <<"\n">>
<1>2. Newline = <<x>>
  BY Zenon DEF Newline
<1> HIDE DEF x
<1>3. IsSeq(x) /\ Len(x) = 1
  BY <1>1 DEF x
<1> QED BY <1>2, <1>3, PieceOne

LEMMA IndentPieces ==
  ASSUME NEW d \in Nat, ctx.indent \in Nat
  PROVE  IsPieces(Indent(d)) /\ Length(Indent(d)) = d * ctx.indent
<1> DEFINE x == <<" ">>
           n == d * ctx.indent
<1>1. IsSeq(x) /\ Len(x) = 1
  BY Characters, Zenon
<1>2. Indent(d) = [i \in 1..n |-> x]
  BY Zenon DEF Indent
<1>3. n \in Nat
  OBVIOUS
<1> HIDE DEF x, n
<1>4. IsPieces(Indent(d)) /\ Length(Indent(d)) = n
  BY <1>1, <1>2, <1>3, PieceRow
<1> QED BY <1>4 DEF n

(***************************************************************************)
(* The steps.                                                              *)
(***************************************************************************)
LEMMA EmitStep ==
  ASSUME CtxOK(ctx), NEW ps, IsPieces(ps), Emit(ps)
  PROVE  Put(ctx', ctx, Length(ps))
BY EmitFacts DEF Emit

(* The activation on top, with what it owes and what those below owe.      *)
LEMMA TopFacts ==
  ASSUME WInv, pc = "write", work # <<>>
  PROVE  LET h == MaxDepth - Len(Tail(work))
         IN /\ FrameOK(Doing, h) /\ ctx.indent \in Nat /\ CtxOK(ctx) /\ Whole \in Nat
            /\ IsSeq(Tail(work)) /\ Due(Doing, h, ctx.indent) \in Nat
            /\ \E n \in Nat : /\ Owes(Tail(work), ctx.indent, n)
                              /\ Account(ctx, n + Due(Doing, h, ctx.indent) + 1, Whole)
<1> DEFINE h == MaxDepth - Len(Tail(work))
<1>1. PICK n \in Nat : Owes(work, ctx.indent, n) /\ Account(ctx, n + 1, Whole)
  BY DEF WInv
<1>2. /\ FrameOK(Doing, h)
      /\ \E m \in Nat : Owes(Tail(work), ctx.indent, m) /\ n = m + Due(Doing, h, ctx.indent)
  BY <1>1, OwesLess DEF Doing
<1>3. PICK m \in Nat : Owes(Tail(work), ctx.indent, m) /\ n = m + Due(Doing, h, ctx.indent)
  BY <1>2
<1>4. CtxOK(ctx) /\ ctx.indent \in Nat
  BY DEF WInv, CtxOK
<1> HIDE DEF h
<1>5. Due(Doing, h, ctx.indent) \in Nat
  <2>1. FrameOK(Doing, h) /\ ctx.indent \in Nat
    BY <1>2, <1>4
  <2> QED BY <2>1, DueNat
<1>6. IsSeq(Tail(work))
  BY <1>3 DEF Owes
<1>7. Whole \in Nat
  BY WholeIs
<1> QED BY <1>1, <1>2, <1>3, <1>4, <1>5, <1>6, <1>7 DEF h

LEMMA LeftLess ==
  ASSUME NEW f, f = [node |-> f.node, depth |-> f.depth, left |-> f.left], NEW i,
         NEW g, g = [f EXCEPT !.left = @ \ {i}]
  PROVE  /\ g.node = f.node /\ g.depth = f.depth /\ g.left = f.left \ {i}
         /\ g = [node |-> g.node, depth |-> g.depth, left |-> g.left]
<1>1. PICK x, y, z : f = [node |-> x, depth |-> y, left |-> z]
  OBVIOUS
<1>2. g = [node |-> x, depth |-> y, left |-> z \ {i}]
  BY <1>1
<1> QED BY <1>1, <1>2

LEMMA EnterStep ==
  ASSUME WInv, pc = "write", work # <<>>, NEW i, NEW prefix, IsPieces(prefix),
         Doing.left \subseteq DOMAIN Doing.node.kids /\ i \in Doing.left =>
           LineStart(Doing.node, i, Doing.depth, ctx.indent)
             = 1 + Doing.depth * ctx.indent + Length(prefix),
         Enter(i, prefix)
  PROVE  WInv' /\ \E m \in Nat : Put(ctx', ctx, m)
<1> DEFINE w == Tail(work)
           h == MaxDepth - Len(w)
           f == Doing
           v == Kid(i).node
           g == [Doing EXCEPT !.left = @ \ {i}]
           a == Act(v, Deeper(v, f.depth))
           ps == Newline \o Indent(f.depth) \o prefix
           m == Length(ps)
           ind == ctx.indent
<1>1. /\ FrameOK(f, h) /\ ind \in Nat /\ CtxOK(ctx) /\ Whole \in Nat
      /\ IsSeq(w) /\ Due(f, h, ind) \in Nat
  BY TopFacts
<1>2. PICK n \in Nat : Owes(w, ind, n) /\ Account(ctx, n + Due(f, h, ind) + 1, Whole)
  BY TopFacts
<1>3. /\ i \in f.left /\ Emit(ps) /\ work' = <<a, g>> \o w
      /\ tree' = tree /\ pc' = pc /\ result' = result
  BY DEF Enter
<1>4. /\ h \in 0..MaxDepth /\ f.node \in Trees[h] /\ f.depth \in Nat
      /\ f.left \in SUBSET DOMAIN f.node.kids
      /\ f = [node |-> f.node, depth |-> f.depth, left |-> f.left]
  BY <1>1 DEF FrameOK
<1>5. v = f.node.kids[i].node /\ i \in DOMAIN f.node.kids
  BY <1>3, <1>4 DEF Kid
<1>6. IsPieces(ps) /\ m = LineStart(f.node, i, f.depth, ind)
  <2>1. IsPieces(Indent(f.depth)) /\ Length(Indent(f.depth)) = f.depth * ind
    BY <1>1, <1>4, IndentPieces
  <2>2. IsPieces(Newline \o Indent(f.depth))
        /\ Length(Newline \o Indent(f.depth)) = 1 + f.depth * ind
    BY <2>1, LineBreak, LengthConcat
  <2>3. IsPieces(ps) /\ m = 1 + f.depth * ind + Length(prefix)
    BY <2>2, LengthConcat
  <2> QED BY <1>3, <1>4, <2>3
<1>7. m \in Nat /\ Put(ctx', ctx, m)
  BY <1>1, <1>3, <1>6, LengthsSized, EmitStep
<1>8. /\ h - 1 \in 0..MaxDepth /\ v \in Trees[h - 1] /\ Deeper(v, f.depth) \in Nat
      /\ DOMAIN v.kids = DOMAIN v.kids
  BY <1>4, <1>5, TreeFacts DEF Deeper
<1>9. /\ a.node = v /\ a.depth = Deeper(v, f.depth) /\ a.left = DOMAIN v.kids
      /\ a = [node |-> a.node, depth |-> a.depth, left |-> a.left]
  BY DEF Act
<1>10. /\ g.node = f.node /\ g.depth = f.depth /\ g.left = f.left \ {i}
       /\ g = [node |-> g.node, depth |-> g.depth, left |-> g.left]
  <2>1. g = [f EXCEPT !.left = @ \ {i}]
    OBVIOUS
  <2>2. f = [node |-> f.node, depth |-> f.depth, left |-> f.left]
    BY <1>4
  <2> HIDE DEF f, g
  <2> QED BY <2>1, <2>2, LeftLess, Zenon
<1> HIDE DEF a, g, ps, m, v, f, w, h
<1>11. FrameOK(a, h - 1) /\ FrameOK(g, h)
  BY <1>4, <1>8, <1>9, <1>10 DEF FrameOK
<1>12. Due(a, h - 1, ind) \in Nat /\ Due(g, h, ind) \in Nat
  BY <1>1, <1>11, DueNat
<1>13. Due(f, h, ind) = Due(g, h, ind) + m + Due(a, h - 1, ind)
  BY <1>1, <1>3, <1>4, <1>5, <1>6, <1>9, <1>10, ToComeLess DEF Due
<1>14. Owes(<<g>> \o w, ind, n + Due(g, h, ind))
  BY <1>2, <1>11, <1>12, OwesMore DEF h
<1>15. IsSeq(<<g>> \o w) /\ Len(<<g>> \o w) = Len(w) + 1 /\ Len(w) \in Nat
  BY <1>1, StackPush, SeqDomain
<1>16. MaxDepth - Len(<<g>> \o w) = h - 1
  BY <1>15, TreesAre DEF h
<1>17. Owes(<<a>> \o (<<g>> \o w), ind, n + Due(g, h, ind) + Due(a, h - 1, ind))
  <2>1. n + Due(g, h, ind) \in Nat
    BY <1>12
  <2> QED BY <1>11, <1>12, <1>14, <1>16, <2>1, OwesMore
<1>18. work' = <<a>> \o (<<g>> \o w)
  BY <1>1, <1>3, StackPushTwo
<1> DEFINE k == n + Due(g, h, ind) + Due(a, h - 1, ind)
<1>19. k \in Nat /\ k + 1 \in Nat /\ k + 1 > 0 /\ n + Due(f, h, ind) + 1 = m + (k + 1)
  BY <1>7, <1>12, <1>13
<1>20. Account(ctx, m + (k + 1), Whole)
  BY <1>2, <1>19
<1> HIDE DEF k
<1>21. Account(ctx', k + 1, Whole)
  BY <1>1, <1>7, <1>19, <1>20, AccountKept
<1>22. Whole' = Whole /\ ctx'.indent = ind /\ CtxOK(ctx') /\ Fits(ctx')
  BY <1>3, <1>7, WholeKept DEF Put, SameCall, WInv
<1>23. Owes(work', ctx'.indent, k) /\ Account(ctx', k + 1, Whole')
  BY <1>17, <1>18, <1>21, <1>22 DEF k
<1>24. \E x \in Nat : Owes(work', ctx'.indent, x) /\ Account(ctx', x + 1, Whole')
  BY <1>19, <1>23
<1>25. tree' \in Trees[MaxDepth] /\ pc' = "write"
  BY <1>3 DEF WInv
<1> QED BY <1>7, <1>22, <1>24, <1>25 DEF WInv

LEMMA ElemStep ==
  ASSUME WInv, WriteElem
  PROVE  WInv' /\ \E m \in Nat : Put(ctx', ctx, m)
<1> DEFINE x == <<"-", " ">>
           i == Min(Doing.left)
<1>1. pc = "write" /\ work # <<>> /\ Doing.node.type = "arr" /\ Enter(i, <<x>>)
  BY Zenon DEF WriteElem, Writing
<1>2. IsSeq(x) /\ Len(x) = 2
  BY Characters, Zenon
<1> HIDE DEF x, i
<1>3. IsPieces(<<x>>) /\ Length(<<x>>) = 2
  BY <1>2, PieceOne
<1>4. Doing.left \subseteq DOMAIN Doing.node.kids /\ i \in Doing.left =>
        LineStart(Doing.node, i, Doing.depth, ctx.indent)
          = 1 + Doing.depth * ctx.indent + Length(<<x>>)
  BY <1>1, <1>3 DEF LineStart
<1> QED BY <1>1, <1>3, <1>4, EnterStep

LEMMA KeyPieces ==
  ASSUME NEW s, IsSeq(s), NEW b \in BOOLEAN
  PROVE  LET ps == _yml_write_string(s) \o <<<<":">>>> \o (IF b THEN <<>> ELSE <<<<" ">>>>)
         IN /\ IsPieces(ps)
            /\ Length(ps) = Length(_yml_write_string(s)) + (IF b THEN 1 ELSE 2)
            /\ Length(_yml_write_string(s)) \in Nat
<1> DEFINE c == <<":">>
           x == <<" ">>
           e == IF b THEN <<>> ELSE <<x>>
           k == _yml_write_string(s)
<1>1. IsSeq(c) /\ Len(c) = 1 /\ IsSeq(x) /\ Len(x) = 1
  BY Characters, Zenon
<1> HIDE DEF c, x
<1>2. IsPieces(<<c>>) /\ Length(<<c>>) = 1
  BY <1>1, PieceOne
<1>3. IsPieces(e) /\ Length(e) = IF b THEN 0 ELSE 1
  BY <1>1, PieceOne, PieceNone
<1>4. IsPieces(k) /\ Length(k) \in Nat
  BY StringPieces, LengthsSized
<1> HIDE DEF e, k
<1>5. IsPieces(k \o <<c>>) /\ Length(k \o <<c>>) = Length(k) + 1
  BY <1>2, <1>4, LengthConcat
<1>6. IsPieces(k \o <<c>> \o e) /\ Length(k \o <<c>> \o e) = Length(k) + 1 + Length(e)
  BY <1>3, <1>5, LengthConcat
<1>7. Length(k \o <<c>> \o e) = Length(k) + (IF b THEN 1 ELSE 2)
  BY <1>3, <1>4, <1>6
<1> QED BY <1>4, <1>6, <1>7, Zenon DEF k, c, e, x

LEMMA PairStep ==
  ASSUME WInv, WritePair
  PROVE  WInv' /\ \E m \in Nat : Put(ctx', ctx, m)
<1> DEFINE prefix(i) == _yml_write_string(Kid(i).key) \o <<<<":">>>>
                          \o (IF is_collection(Kid(i).node) THEN <<>> ELSE <<<<" ">>>>)
<1>1. pc = "write" /\ work # <<>> /\ Doing.node.type = "obj"
      /\ \E i \in Doing.left : Enter(i, prefix(i))
  BY Zenon DEF WritePair, Writing
<1>2. PICK i \in Doing.left : Enter(i, prefix(i))
  BY <1>1, Zenon
<1> DEFINE b == is_collection(Kid(i).node)
           k == _yml_write_string(Kid(i).key)
           h == MaxDepth - Len(Tail(work))
<1>3. FrameOK(Doing, h) /\ ctx.indent \in Nat
  BY <1>1, TopFacts
<1> HIDE DEF h
<1>4. h \in 0..MaxDepth /\ Doing.node \in Trees[h] /\ Doing.depth \in Nat
      /\ i \in DOMAIN Doing.node.kids
  BY <1>3 DEF FrameOK
<1>5. IsSeq(Kid(i).key) /\ b \in BOOLEAN
  BY <1>4, TreeFacts DEF Kid, is_collection
<1>6. /\ IsPieces(prefix(i)) /\ Length(k) \in Nat
      /\ Length(prefix(i)) = Length(k) + (IF b THEN 1 ELSE 2)
  BY <1>5, KeyPieces, Zenon
<1> HIDE DEF prefix
<1>7. LineStart(Doing.node, i, Doing.depth, ctx.indent)
        = 1 + Doing.depth * ctx.indent + Length(prefix(i))
  <2>1. LineStart(Doing.node, i, Doing.depth, ctx.indent)
          = 1 + Doing.depth * ctx.indent + (Length(k) + (IF b THEN 1 ELSE 2))
    BY <1>1 DEF LineStart, Kid
  <2> QED BY <1>6, <2>1
<1> QED BY <1>1, <1>2, <1>6, <1>7, EnterStep

(* A scalar's text is all that it owed. *)
LEMMA ScalarStep ==
  ASSUME WInv, WriteScalar
  PROVE  WInv' /\ \E m \in Nat : Put(ctx', ctx, m)
<1> DEFINE w == Tail(work)
           h == MaxDepth - Len(w)
           ps == Literal(Doing.node)
           m == Length(ps)
           ind == ctx.indent
<1>1. /\ pc = "write" /\ work # <<>> /\ Doing.node.kids = <<>> /\ Emit(ps)
      /\ work' = w /\ tree' = tree /\ pc' = pc
  BY DEF WriteScalar
<1>2. FrameOK(Doing, h) /\ CtxOK(ctx) /\ Whole \in Nat
  BY <1>1, TopFacts
<1>3. PICK n \in Nat : Owes(w, ind, n) /\ Account(ctx, n + Due(Doing, h, ind) + 1, Whole)
  BY <1>1, TopFacts
<1>4. h \in 0..MaxDepth /\ Doing.node \in Trees[h]
  BY <1>2 DEF FrameOK
<1> HIDE DEF h
<1>5. IsPieces(ps) /\ m \in Nat
  BY <1>4, LiteralPieces, LengthsSized
<1>6. Put(ctx', ctx, m)
  BY <1>1, <1>2, <1>5, EmitStep
<1>7. Due(Doing, h, ind) = m
  BY <1>1 DEF Due, ToCome
<1> HIDE DEF ps, m, w
<1>8. Account(ctx, m + (n + 1), Whole)
  <2>1. n + m + 1 = m + (n + 1)
    BY <1>5
  <2> QED BY <1>3, <1>7, <2>1
<1>9. Account(ctx', n + 1, Whole)
  BY <1>2, <1>5, <1>6, <1>8, AccountKept
<1>10. Whole' = Whole /\ ctx'.indent = ind /\ CtxOK(ctx') /\ Fits(ctx')
  BY <1>1, <1>6, WholeKept DEF Put, SameCall, WInv
<1>11. \E x \in Nat : Owes(work', ctx'.indent, x) /\ Account(ctx', x + 1, Whole')
  BY <1>1, <1>3, <1>9, <1>10
<1>12. tree' \in Trees[MaxDepth] /\ pc' = "write"
  BY <1>1 DEF WInv
<1> QED BY <1>5, <1>6, <1>10, <1>11, <1>12 DEF WInv

(* A collection is left when nothing of it is to come. *)
LEMMA LeaveStep ==
  ASSUME WInv, WriteLeave
  PROVE  WInv' /\ ctx' = ctx
<1> DEFINE w == Tail(work)
           h == MaxDepth - Len(w)
           ind == ctx.indent
<1>1. /\ pc = "write" /\ work # <<>> /\ Doing.left = {} /\ Doing.node.kids # <<>>
      /\ work' = w /\ tree' = tree /\ pc' = pc /\ ctx' = ctx
  BY DEF WriteLeave
<1>2. FrameOK(Doing, h) /\ ind \in Nat
  BY <1>1, TopFacts
<1>3. PICK n \in Nat : Owes(w, ind, n) /\ Account(ctx, n + Due(Doing, h, ind) + 1, Whole)
  BY <1>1, TopFacts
<1>4. h \in 0..MaxDepth /\ Doing.node \in Trees[h] /\ Doing.depth \in Nat
  BY <1>2 DEF FrameOK
<1> HIDE DEF h, w
<1>5. Due(Doing, h, ind) = 0
  BY <1>1, <1>2, <1>4, ToComeNone DEF Due
<1>6. n + Due(Doing, h, ind) + 1 = n + 1
  BY <1>5
<1>7. Whole' = Whole
  BY <1>1, WholeKept DEF SameCall
<1>8. \E x \in Nat : Owes(work', ctx'.indent, x) /\ Account(ctx', x + 1, Whole')
  BY <1>1, <1>3, <1>6, <1>7
<1>9. tree' \in Trees[MaxDepth] /\ pc' = "write" /\ CtxOK(ctx') /\ Fits(ctx')
  BY <1>1 DEF WInv
<1> QED BY <1>1, <1>8, <1>9 DEF WInv

LEMMA MarkerPieces ==
  /\ IsPieces(Marker) /\ Length(Marker) = IF ctx.emit_start THEN 3 ELSE 0
  /\ IsPieces(OwnLine) /\ Length(OwnLine) = IF ctx.emit_start THEN 1 ELSE 0
<1> DEFINE x == <<"-", "-", "-">>
<1>1. IsSeq(x) /\ Len(x) = 3
  BY Characters, Zenon
<1>2. Marker = IF ctx.emit_start THEN <<x>> ELSE <<>>
  BY Zenon DEF Marker
<1> HIDE DEF x
<1>3. IsPieces(<<x>>) /\ Length(<<x>>) = 3
  BY <1>1, PieceOne
<1>4. IsPieces(Marker) /\ Length(Marker) = IF ctx.emit_start THEN 3 ELSE 0
  BY <1>2, <1>3, PieceNone
<1>5. IsPieces(OwnLine) /\ Length(OwnLine) = IF ctx.emit_start THEN 1 ELSE 0
  BY LineBreak, PieceNone DEF OwnLine
<1> QED BY <1>4, <1>5

LEMMA StartStep ==
  ASSUME WInv, WriteStart
  PROVE  WInv' /\ \E m \in Nat : Put(ctx', ctx, m)
<1> DEFINE f == Act(tree, 0)
           own == IF is_collection(tree) THEN <<>> ELSE OwnLine
           ps == Marker \o own
           m == Length(ps)
           ind == ctx.indent
           k == Due(f, MaxDepth, ind)
<1>1. /\ pc = "call" /\ ~IsEmpty(tree) /\ Emit(ps)
      /\ work' = <<f>> /\ tree' = tree /\ pc' = "write"
  BY DEF WriteStart
<1>2. /\ tree \in Trees[MaxDepth] /\ CtxOK(ctx) /\ ctx.buf = <<>> /\ ctx.ok = 0
      /\ ind \in Nat /\ MaxDepth \in 0..MaxDepth /\ MaxDepth \in Nat
  BY <1>1, TreesAre DEF WInv, CtxOK
<1>3. tree.kids = <<>> <=> ~is_collection(tree)
  BY <1>1, <1>2, TreeFacts DEF IsEmpty
<1>4. /\ f.node = tree /\ f.depth = 0 /\ f.left = DOMAIN tree.kids
      /\ f = [node |-> f.node, depth |-> f.depth, left |-> f.left]
  BY DEF Act
<1> HIDE DEF f
<1>5. FrameOK(f, MaxDepth) /\ k = ToCome(MaxDepth, tree, DOMAIN tree.kids, 0, ind)
  BY <1>2, <1>4 DEF FrameOK, Due
<1>6. Whole \in Nat /\ k \in Nat
      /\ Whole = (IF ctx.emit_start THEN 3 ELSE 0) + k + 1
                   + (IF ctx.emit_start /\ tree.kids = <<>> THEN 1 ELSE 0)
  BY <1>5, WholeIs
<1>7. IsPieces(own) /\ Length(own) = IF ctx.emit_start /\ tree.kids = <<>> THEN 1 ELSE 0
  BY <1>3, MarkerPieces, PieceNone
<1> HIDE DEF own
<1>8. IsPieces(ps) /\ m = Length(Marker) + Length(own) /\ m \in Nat
  BY <1>7, MarkerPieces, LengthConcat, LengthsSized
<1>9. m + (k + 1) = Whole
  <2> HIDE DEF m, k
  <2>1. Length(Marker) = IF ctx.emit_start THEN 3 ELSE 0
    BY MarkerPieces
  <2> QED BY <1>6, <1>7, <1>8, <2>1
<1>10. Put(ctx', ctx, m)
  BY <1>1, <1>2, <1>8, EmitStep
<1>11. Len(ctx.buf) = 0
  BY <1>2, EmptyIsSeq
<1> HIDE DEF ps, m, k
<1>12. Account(ctx, m + (k + 1), Whole)
  <2>1. Len(ctx.buf) + (m + (k + 1)) = Whole
    BY <1>6, <1>9, <1>11
  <2> QED BY <1>2, <2>1 DEF Account
<1>13. k + 1 \in Nat /\ k + 1 > 0
  BY <1>6
<1>14. Account(ctx', k + 1, Whole)
  BY <1>2, <1>6, <1>8, <1>10, <1>12, <1>13, AccountKept
<1>15. Owes(work', ind, k)
  <2>1. MaxDepth - Len(<<>>) = MaxDepth
    BY <1>2, EmptyIsSeq
  <2>2. Owes(<<f>> \o <<>>, ind, 0 + k)
    BY <1>5, <1>6, <2>1, OwesNothing, OwesMore DEF k
  <2>3. <<f>> \o <<>> = <<f>>
    <3>1. <<f>> \in Seq({f})
      OBVIOUS
    <3> QED BY <3>1, ConcatEmptySeq
  <2>4. 0 + k = k
    BY <1>6
  <2> QED BY <1>1, <2>2, <2>3, <2>4
<1>16. Whole' = Whole /\ ctx'.indent = ind /\ CtxOK(ctx') /\ Fits(ctx')
  BY <1>1, <1>10, WholeKept DEF Put, SameCall, WInv
<1>17. \E x \in Nat : Owes(work', ctx'.indent, x) /\ Account(ctx', x + 1, Whole')
  BY <1>6, <1>14, <1>15, <1>16
<1>18. tree' \in Trees[MaxDepth] /\ pc' = "write"
  BY <1>1, <1>2
<1> QED BY <1>8, <1>10, <1>16, <1>17, <1>18 DEF WInv

LEMMA EmptyStep ==
  ASSUME WInv, WriteEmpty
  PROVE  WInv' /\ \E m \in Nat : Put(ctx', ctx, m)
<1> DEFINE nl == <<"\n">>
           l == Literal(tree)[1] \o nl
           ps == Marker \o OwnLine \o <<l>>
           m == Length(ps)
<1>1. /\ pc = "call" /\ IsEmpty(tree) /\ Emit(ps)
      /\ result' = BytesWritten(ctx') /\ tree' = tree /\ pc' = "written"
  BY Zenon DEF WriteEmpty
<1>2. /\ tree \in Trees[MaxDepth] /\ CtxOK(ctx) /\ Fits(ctx) /\ ctx.buf = <<>> /\ ctx.ok = 0
      /\ MaxDepth \in 0..MaxDepth
  BY <1>1, TreesAre DEF WInv
<1>3. IsSeq(nl) /\ Len(nl) = 1
  BY Characters, Zenon
<1> HIDE DEF nl
<1>4. IsSeq(Literal(tree)[1]) /\ Len(Literal(tree)[1]) = 2 /\ Length(Literal(tree)) = 2
  BY <1>1, <1>2, LiteralPieces
<1>5. IsSeq(l) /\ Len(l) = 3
  <2>1. IsSeq(l) /\ Len(l) = Len(Literal(tree)[1]) + Len(nl)
    BY <1>3, <1>4, SeqConcat, Zenon
  <2> HIDE DEF l
  <2> QED BY <1>3, <1>4, <2>1
<1> HIDE DEF l
<1>6. IsPieces(<<l>>) /\ Length(<<l>>) = 3
  BY <1>5, PieceOne
<1>7. IsPieces(Marker \o OwnLine) /\ Length(Marker \o OwnLine) = IF ctx.emit_start THEN 4 ELSE 0
  BY MarkerPieces, LengthConcat
<1>8. IsPieces(ps) /\ m = IF ctx.emit_start THEN 7 ELSE 3
  BY <1>6, <1>7, LengthConcat
<1>9. tree.kids = <<>>
  BY <1>1 DEF IsEmpty
<1>10. Whole \in Nat /\ Whole = m
  <2>1. ToCome(MaxDepth, tree, DOMAIN tree.kids, 0, ctx.indent) = 2
    BY <1>4, <1>9 DEF ToCome
  <2> QED BY <1>8, <1>9, <2>1, WholeIs
<1>11. m \in Nat /\ m > 0
  BY <1>8
<1>12. Put(ctx', ctx, m)
  BY <1>1, <1>2, <1>8, EmitStep
<1>13. Len(ctx.buf) = 0
  BY <1>2, EmptyIsSeq
<1> HIDE DEF ps, m
<1>14. Account(ctx, m, Whole)
  <2>1. Len(ctx.buf) + m = Whole
    BY <1>10, <1>11, <1>13
  <2> QED BY <1>2, <2>1 DEF Account
<1>15. Returned(ctx', Whole, BytesWritten(ctx'))
  BY <1>2, <1>10, <1>11, <1>12, <1>14, AccountClosed
<1>16. Whole' = Whole /\ CtxOK(ctx') /\ Fits(ctx')
  BY <1>1, <1>2, <1>12, WholeKept DEF Put
<1>17. Returned(ctx', Whole', result')
  BY <1>1, <1>15, <1>16
<1>18. tree' \in Trees[MaxDepth] /\ pc' = "written"
  BY <1>1, <1>2
<1> QED BY <1>11, <1>12, <1>16, <1>17, <1>18 DEF WInv

LEMMA EndStep ==
  ASSUME WInv, WriteEnd
  PROVE  WInv' /\ \E m \in Nat : Put(ctx', ctx, m)
<1>1. /\ pc = "write" /\ work = <<>> /\ Emit(Newline)
      /\ result' = BytesWritten(ctx') /\ tree' = tree /\ pc' = "written"
  BY DEF WriteEnd
<1>2. tree \in Trees[MaxDepth] /\ CtxOK(ctx) /\ Fits(ctx) /\ Whole \in Nat
  BY WholeIs DEF WInv
<1>3. PICK n \in Nat : Owes(work, ctx.indent, n) /\ Account(ctx, n + 1, Whole)
  BY <1>1 DEF WInv
<1>4. n = 0
  BY <1>1, <1>3, OwesNothing
<1>5. Account(ctx, 1, Whole)
  BY <1>3, <1>4
<1>6. Put(ctx', ctx, 1)
  BY <1>1, <1>2, LineBreak, EmitStep
<1>7. Returned(ctx', Whole, BytesWritten(ctx'))
  BY <1>2, <1>5, <1>6, AccountClosed
<1>8. Whole' = Whole /\ CtxOK(ctx') /\ Fits(ctx')
  BY <1>1, <1>2, <1>6, WholeKept DEF Put
<1>9. Returned(ctx', Whole', result')
  BY <1>1, <1>7, <1>8
<1>10. tree' \in Trees[MaxDepth] /\ pc' = "written"
  BY <1>1, <1>2
<1> QED BY <1>6, <1>8, <1>9, <1>10 DEF WInv

(***************************************************************************)
(* The theorems, of the writer and of the round trip it begins.            *)
(***************************************************************************)
LEMMA WriterStep ==
  ASSUME WInv, WNext
  PROVE  WInv' /\ (ctx' = ctx \/ \E m \in Nat : Put(ctx', ctx, m))
BY StartStep, EmptyStep, ElemStep, PairStep, ScalarStep, LeaveStep, EndStep DEF WNext

(* Lexer and Parser leave the writer's state alone.                        *)
LEMMA ReaderStep ==
  ASSUME WInv, tree' = tree, ctx' = ctx, result' = result, work' = work,
         pc' = pc \/ (pc \notin {"call", "write"} /\ pc' \notin {"call", "write"})
  PROVE  WInv'
<1>1. Whole' = Whole
  BY WholeKept DEF SameCall
<1>2. tree' \in Trees[MaxDepth] /\ CtxOK(ctx') /\ Fits(ctx')
  BY DEF WInv
<1>3. pc' = "call" => ctx'.buf = <<>> /\ ctx'.ok = 0
  BY DEF WInv
<1>4. pc' = "write" => \E n \in Nat : Owes(work', ctx'.indent, n) /\ Account(ctx', n + 1, Whole')
  BY <1>1 DEF WInv
<1>5. pc' \notin {"call", "write"} => Returned(ctx', Whole', result')
  BY <1>1 DEF WInv
<1> QED BY <1>2, <1>3, <1>4, <1>5 DEF WInv

LEMMA ReaderIdle ==
  ASSUME WInv, UNCHANGED wvars
  PROVE  WInv' /\ ctx' = ctx
<1>1. tree' = tree /\ ctx' = ctx /\ work' = work /\ result' = result /\ pc' = pc
  BY DEF wvars
<1> QED BY <1>1, ReaderStep

LEMMA NextStep ==
  ASSUME WInv, [Next]_vars
  PROVE  WInv' /\ (ctx' = ctx \/ \E m \in Nat : Put(ctx', ctx, m))
<1>1. CASE Write
  BY <1>1, WriterStep DEF Write
<1>2. CASE HandText
  BY <1>2, ReaderStep DEF HandText
<1>3. CASE LexText
  BY <1>3, ReaderIdle, Zenon DEF LexText
<1>4. CASE HandTokens
  BY <1>4, ReaderStep DEF HandTokens
<1>5. CASE ParseTokens
  BY <1>5, ReaderIdle, Zenon DEF ParseTokens
<1>6. CASE Stop
  BY <1>6, ReaderIdle, Zenon DEF Stop, vars
<1>7. CASE UNCHANGED vars
  BY <1>7, ReaderIdle, Zenon DEF vars
<1> QED BY <1>1, <1>2, <1>3, <1>4, <1>5, <1>6, <1>7 DEF Next

LEMMA Begins == Init => WInv
<1> SUFFICES ASSUME WInit PROVE WInv
  BY DEF Init
<1>0. PICK S \in Jobs : \E j \in S :
        /\ tree = j.tree
        /\ ctx = [indent |-> IF j.indent > 0 THEN j.indent ELSE 2,
                  emit_start |-> j.start, cap |-> j.cap, buf |-> <<>>, ok |-> 0]
  BY DEF WInit
<1>1. PICK j \in S :
        /\ tree = j.tree
        /\ ctx = [indent |-> IF j.indent > 0 THEN j.indent ELSE 2,
                  emit_start |-> j.start, cap |-> j.cap, buf |-> <<>>, ok |-> 0]
  BY <1>0
<1>2. /\ j.tree \in Trees[MaxDepth] /\ j.indent \in Int
      /\ j.start \in BOOLEAN /\ j.cap \in Nat \cup {Stream}
  BY JobsAssumption
<1>3. /\ ctx.buf = <<>> /\ ctx.ok = 0 /\ IsSeq(ctx.buf)
  BY <1>1, EmptyIsSeq
<1>4. (IF j.indent > 0 THEN j.indent ELSE 2) \in Nat
  BY <1>2
<1>5. CtxOK(ctx)
  BY <1>1, <1>2, <1>3, <1>4 DEF CtxOK
<1>6. pc = "call"
  BY DEF WInit
<1> QED BY <1>1, <1>2, <1>3, <1>5, <1>6 DEF WInv, Fits

THEOREM Invariant == Spec => []WInv
<1>1. Init => WInv
  BY Begins
<1>2. WInv /\ [Next]_vars => WInv'
  BY NextStep
<1> QED BY <1>1, <1>2, PTL DEF Spec

(* YMLWriteBuf writes inside its buffer and leaves a byte for the '\0'; it *)
(* returns how long the text is, or -1 if text and '\0' do not fit.        *)
THEOREM BufferIsRight == Spec => []BufferHolds
<1>1. WInv => BufferHolds
  BY DEF WInv, BufferHolds, Fits, Returned
<1> QED BY <1>1, Invariant, PTL

(* After the first piece that does not fit, _yml_emit writes nothing more: *)
(* the buffer holds the beginning of the text, with no gap in it.          *)
THEOREM NothingFollows == Spec => NothingAfterOverflow
<1>1. WInv /\ [Next]_vars => [ctx.ok # 0 => ctx'.buf = ctx.buf /\ ctx'.ok # 0]_wvars
  BY NextStep DEF Put
<1> QED BY <1>1, Invariant, PTL DEF Spec, NothingAfterOverflow
=============================================================================
