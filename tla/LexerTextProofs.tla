--------------------------- MODULE LexerTextProofs ---------------------------
(***************************************************************************)
(* The lexer loses nothing of the text, for every text: as long as the     *)
(* array of tokens can grow, they stand in order and apart, each is its    *)
(* value but for its quotes, and what is between them is blank or a        *)
(* comment. A quoted scalar ends at its closing quote, or with the text.   *)
(* And the tokens are what the parser supposes them to be.                 *)
(***************************************************************************)
EXTENDS LexerProofs

(***************************************************************************)
(* LosesNothing for the part of a text that has been read, up to n.        *)
(***************************************************************************)
CoveredBy(T, i) == \E k \in 1..Len(T) : i \in T[k].at .. T[k].to - 1
InComment(T, t, i) == \E h \in 1..i : /\ CharAt(t, h) = "#" /\ ~CoveredBy(T, h)
                                      /\ \A k \in h..i : CharAt(t, k) # "\n"
Known(T, t, n) == \A i \in 1..n - 1 : \/ CoveredBy(T, i)
                                      \/ CharAt(t, i) \in Blank \cup Breaks
                                      \/ InComment(T, t, i)
Apart(T, n) == /\ \A k \in 1..Len(T) - 1 : T[k].to <= T[k + 1].at
               /\ \A k \in 1..Len(T) : T[k].to <= n
Numbered(T) == \A k \in 1..Len(T) : T[k].at \in Nat /\ T[k].to \in Nat

(* What skip_ws passes over is no token. *)
LEMMA SkippedKnown ==
  ASSUME NEW T, IsSeq(T), Numbered(T),
         NEW n \in Nat \ {0}, NEW s \in Nat, n <= s,
         Apart(T, n), Known(T, text, n), Skipped(n, s)
  PROVE  Known(T, text, s)
<1>1. ASSUME NEW i \in Nat, n <= i PROVE ~CoveredBy(T, i)
  <2> SUFFICES ASSUME NEW k \in 1..Len(T), i \in T[k].at .. T[k].to - 1 PROVE FALSE
    BY DEF CoveredBy
  <2>1. T[k].to <= n /\ T[k].at \in Nat /\ T[k].to \in Nat
    BY DEF Apart, Numbered
  <2> QED BY <1>1, <2>1
<1>2. ASSUME NEW i \in 1..s - 1, i >= n
      PROVE  CharAt(text, i) \in Blank \cup Breaks \/ InComment(T, text, i)
  <2>1. i \in n..s - 1
    BY <1>2
  <2>2. \/ At(i) \in Blank \cup Breaks
        \/ \E h \in n..i : At(h) = "#" /\ \A x \in h..i : At(x) # "\n"
    BY <2>1 DEF Skipped
  <2>3. CASE At(i) \in Blank \cup Breaks
    BY <2>3 DEF At
  <2>4. CASE \E h \in n..i : At(h) = "#" /\ \A x \in h..i : At(x) # "\n"
    <3>1. PICK h \in n..i : At(h) = "#" /\ \A x \in h..i : At(x) # "\n"
      BY <2>4
    <3>2. h \in 1..i /\ h \in Nat /\ n <= h
      OBVIOUS
    <3>3. ~CoveredBy(T, h)
      BY <1>1, <3>2
    <3> QED BY <3>1, <3>2, <3>3 DEF InComment, At
  <2> QED BY <2>2, <2>3, <2>4
<1>3. ASSUME NEW i \in 1..s - 1, ~ (i >= n)
      PROVE  \/ CoveredBy(T, i)
             \/ CharAt(text, i) \in Blank \cup Breaks
             \/ InComment(T, text, i)
  <2>1. i \in 1..n - 1
    BY <1>3
  <2> QED BY <2>1 DEF Known
<1> QED BY <1>2, <1>3 DEF Known

(* One more token, behind what has been read. *)
LEMMA TokenKnown ==
  ASSUME NEW T, IsSeq(T), Numbered(T),
         NEW s \in Nat \ {0}, NEW e \in Nat, s <= e,
         Apart(T, s), Known(T, text, s),
         NEW tok, tok.at = s, tok.to = e
  PROVE  LET U == Append(T, tok)
         IN Apart(U, e) /\ Known(U, text, e) /\ Numbered(U)
<1> DEFINE U == Append(T, tok)
<1>1. /\ Len(T) \in Nat /\ Len(U) = Len(T) + 1
      /\ \A k \in 1..Len(T) : U[k] = T[k]
      /\ U[Len(T) + 1] = tok
  BY SeqAppend, SeqDomain
<1> HIDE DEF U
<1>2. \A k \in 1..Len(U) : k \in 1..Len(T) \/ k = Len(T) + 1
  BY <1>1
<1>3. Numbered(U)
  BY <1>1, <1>2 DEF Numbered
<1>4. Apart(U, e)
  <2>1. \A k \in 1..Len(T) : T[k].at \in Nat /\ T[k].to \in Nat /\ T[k].to <= s
    BY DEF Apart, Numbered
  <2>2. ASSUME NEW k \in 1..Len(U) - 1 PROVE U[k].to <= U[k + 1].at
    <3>1. k \in 1..Len(T) /\ U[k] = T[k]
      BY <1>1
    <3>2. CASE k = Len(T)
      BY <1>1, <2>1, <3>1, <3>2
    <3>3. CASE k # Len(T)
      <4>1. k + 1 \in 1..Len(T) /\ k \in 1..Len(T) - 1
        BY <1>1, <3>1, <3>3
      <4>2. T[k].to <= T[k + 1].at /\ U[k + 1] = T[k + 1]
        BY <1>1, <4>1 DEF Apart
      <4> QED BY <3>1, <4>2
    <3> QED BY <3>2, <3>3
  <2>3. ASSUME NEW k \in 1..Len(U) PROVE U[k].to <= e
    BY <1>1, <1>2, <2>1
  <2> QED BY <2>2, <2>3 DEF Apart
<1>5. ASSUME NEW i \in Nat, CoveredBy(T, i) PROVE CoveredBy(U, i)
  <2>1. PICK k \in 1..Len(T) : i \in T[k].at .. T[k].to - 1
    BY <1>5 DEF CoveredBy
  <2>2. k \in 1..Len(U) /\ U[k] = T[k]
    BY <1>1
  <2> QED BY <2>1, <2>2 DEF CoveredBy
<1>6. ASSUME NEW i \in Nat, i < s, ~CoveredBy(T, i) PROVE ~CoveredBy(U, i)
  <2> SUFFICES ASSUME NEW k \in 1..Len(U), i \in U[k].at .. U[k].to - 1 PROVE FALSE
    BY DEF CoveredBy
  <2>1. CASE k \in 1..Len(T)
    BY <1>1, <1>6, <2>1 DEF CoveredBy
  <2>2. CASE k = Len(T) + 1
    BY <1>1, <1>6, <2>2
  <2> QED BY <1>2, <2>1, <2>2
<1>7. ASSUME NEW i \in 1..e - 1
      PROVE  \/ CoveredBy(U, i)
             \/ CharAt(text, i) \in Blank \cup Breaks
             \/ InComment(U, text, i)
  <2>1. CASE i >= s
    <3>1. Len(T) + 1 \in 1..Len(U) /\ i \in U[Len(T) + 1].at .. U[Len(T) + 1].to - 1
      BY <1>1, <2>1
    <3> QED BY <3>1 DEF CoveredBy
  <2>2. CASE ~ (i >= s)
    <3>1. i \in 1..s - 1 /\ i \in Nat
      BY <2>2
    <3>2. CASE CoveredBy(T, i)
      BY <1>5, <3>1, <3>2
    <3>3. CASE InComment(T, text, i)
      <4>1. PICK h \in 1..i : /\ CharAt(text, h) = "#" /\ ~CoveredBy(T, h)
                              /\ \A k \in h..i : CharAt(text, k) # "\n"
        BY <3>3 DEF InComment
      <4>2. h \in Nat /\ h < s
        BY <3>1
      <4>3. ~CoveredBy(U, h)
        BY <1>6, <4>1, <4>2
      <4> QED BY <4>1, <4>3 DEF InComment
    <3> QED BY <3>1, <3>2, <3>3 DEF Known
  <2> QED BY <2>1, <2>2
<1>8. Known(U, text, e)
  BY <1>7 DEF Known
<1> QED BY <1>3, <1>4, <1>8 DEF U

(***************************************************************************)
(* Parts of the text.                                                      *)
(***************************************************************************)
LEMMA PartFacts ==
  ASSUME NEW t, NEW a \in Nat \ {0}, NEW b \in Nat, a <= b + 1
  PROVE  /\ Len(SubSeq(t, a, b)) = b + 1 - a
         /\ IsSeq(SubSeq(t, a, b))
         /\ \A k \in 1..b + 1 - a : SubSeq(t, a, b)[k] = t[(a + k) - 1]
<1> DEFINE S == {t[i] : i \in a..b}
           r == SubSeq(t, a, b)
<1>1. a \in Int /\ b \in Int /\ \A i \in a..b : t[i] \in S
  OBVIOUS
<1> HIDE DEF S
<1>2. /\ r \in Seq(S)
      /\ Len(r) = IF a <= b THEN b - a + 1 ELSE 0
      /\ \A i \in 1..b - a + 1 : r[i] = t[a + i - 1]
  BY <1>1, SubSeqProperties
<1> HIDE DEF r
<1>3. IsSeq(r)
  BY <1>2, SeqIntro
<1>4. Len(r) = b + 1 - a
  BY <1>2
<1>5. ASSUME NEW k \in 1..b + 1 - a PROVE r[k] = t[(a + k) - 1]
  <2>1. k \in 1..b - a + 1 /\ (a + k) - 1 = a + k - 1
    OBVIOUS
  <2> QED BY <1>2, <2>1
<1> QED BY <1>3, <1>4, <1>5 DEF r

LEMMA SliceFacts ==
  ASSUME IsText(text), NEW s \in Nat \ {0}, NEW i \in Nat, s <= i, i <= Len(text) + 1
  PROVE  Slice(s, i) = SubSeq(text, s, i - 1) /\ Len(Slice(s, i)) = i - s
<1> DEFINE R == {i - 1, Len(text)}
<1>1. Len(text) \in Nat /\ i - 1 \in Nat
  BY DEF IsText
<1>2. R \in SUBSET Nat /\ R # {} /\ i - 1 \in R /\ \A y \in R : i - 1 <= y
  BY <1>1
<1>3. Min(R) \in R /\ \A y \in R : Min(R) <= y
  BY <1>2, LeastOf
<1>4. Min(R) = i - 1
  <2> HIDE DEF R
  <2>1. Min(R) \in Nat /\ Min(R) <= i - 1 /\ i - 1 <= Min(R)
    BY <1>2, <1>3
  <2> QED BY <1>1, <2>1
<1>5. Slice(s, i) = SubSeq(text, s, i - 1)
  BY <1>4 DEF Slice
<1>6. Len(SubSeq(text, s, i - 1)) = (i - 1) + 1 - s
  BY <1>1, PartFacts
<1> QED BY <1>1, <1>5, <1>6

(* A value at the start of a token, or one behind its quote or sign. *)
Signs == {"'", "\"", "&", "*"}

LEMMA WholeMade ==
  ASSUME NEW tok, NEW s \in Nat \ {0}, NEW e \in Nat, NEW f \in 0..1, NEW l \in Nat,
         tok.at = s, tok.to = e, f = IF At(s) \in Signs THEN 1 ELSE 0,
         Len(tok.val) = l, tok.val = SubSeq(text, s + f, s + f + l - 1),
         \A i \in s..e - 1 : i < s + f \/ i > s + f + l - 1 => At(i) \in Frame(tok)
  PROVE  Whole(tok)
<1> DEFINE value == s + f .. s + f + l - 1
<1>1. \A i \in (s..e - 1) \ value : At(i) \in Frame(tok)
  <2> TAKE i \in (s..e - 1) \ value
  <2>1. i < s + f \/ i > s + f + l - 1
    OBVIOUS
  <2> QED BY <2>1
<1>2. Whole(tok) <=> /\ tok.val = SubSeq(text, s + f, s + f + l - 1)
                     /\ \A i \in (s..e - 1) \ value : At(i) \in Frame(tok)
  BY Zenon DEF Whole, Signs
<1> QED BY <1>1, <1>2

(* Frame(tok) where the token is no plain scalar. *)
LEMMA FrameOf ==
  ASSUME NEW tok, tok.type # "SCALAR" \/ tok.style # "plain"
  PROVE  At(tok.at) \in Frame(tok) /\ Frame(tok) = {At(tok.at)}
BY Zenon DEF Frame

(* A mark is one character, once or several times. *)
LEMMA MarkWhole ==
  ASSUME NEW s \in Nat \ {0}, NEW e \in Nat, At(s) \notin Signs,
         \A i \in s..e - 1 : At(i) = At(s),
         NEW type, type # "SCALAR", NEW pl
  PROVE  Whole(Token(type, pl, s, e, <<>>, "plain", FALSE))
<1> DEFINE tok == Token(type, pl, s, e, <<>>, "plain", FALSE)
<1>1. tok.type = type /\ tok.at = s /\ tok.to = e /\ tok.val = <<>>
  BY DEF Token
<1> HIDE DEF tok
<1>2. Frame(tok) = {At(s)}
  BY <1>1, FrameOf
<1>3. <<>> = SubSeq(text, s + 0, s + 0 + 0 - 1) /\ Len(<<>>) = 0
  <2>1. s + 0 \in Int /\ s + 0 + 0 - 1 \in Int /\ s + 0 + 0 - 1 < s + 0
    OBVIOUS
  <2> QED BY <2>1, SubSeqEmpty
<1>4. \A i \in s..e - 1 : At(i) \in Frame(tok)
  BY <1>2
<1>5. 0 \in 0..1 /\ 0 = (IF At(s) \in Signs THEN 1 ELSE 0) /\ 0 \in Nat
  OBVIOUS
<1>6. \A i \in s..e - 1 : i < s + 0 \/ i > s + 0 + 0 - 1 => At(i) \in Frame(tok)
  BY <1>4, Zenon
<1>7. Len(tok.val) = 0 /\ tok.val = SubSeq(text, s + 0, s + 0 + 0 - 1)
  BY <1>1, <1>3, Zenon
<1>8. Whole(tok)
  <2> PICK f \in 0..1, l \in Nat : f = 0 /\ l = 0
    OBVIOUS
  <2>1. f = IF At(s) \in Signs THEN 1 ELSE 0
    BY <1>5
  <2>2. /\ Len(tok.val) = l /\ tok.val = SubSeq(text, s + f, s + f + l - 1)
        /\ \A i \in s..e - 1 : i < s + f \/ i > s + f + l - 1 => At(i) \in Frame(tok)
    BY <1>6, <1>7, Zenon
  <2> QED BY <1>1, <2>1, <2>2, WholeMade
<1> QED BY <1>8 DEF tok

(* A name behind its sign, or a value between its quotes. *)
LEMMA SignedWhole ==
  ASSUME IsText(text), NEW s \in Nat \ {0}, NEW i \in Nat, NEW e \in Nat, At(s) \in Signs,
         s + 1 <= i, i <= Len(text) + 1,
         e = i \/ (e = i + 1 /\ At(i) = At(s)),
         NEW type, NEW pl, NEW style, type # "SCALAR" \/ style # "plain"
  PROVE  Whole(Token(type, pl, s, e, Slice(s + 1, i), style, FALSE))
<1> DEFINE tok == Token(type, pl, s, e, Slice(s + 1, i), style, FALSE)
           l   == i - (s + 1)
<1>1. /\ tok.type = type /\ tok.style = style /\ tok.at = s /\ tok.to = e
      /\ tok.val = Slice(s + 1, i)
  BY DEF Token
<1> HIDE DEF tok
<1>2. Frame(tok) = {At(s)}
  <2>1. tok.type # "SCALAR" \/ tok.style # "plain"
    BY <1>1, Zenon
  <2> QED BY <1>1, <2>1, FrameOf, Zenon
<1>3. Slice(s + 1, i) = SubSeq(text, s + 1, i - 1) /\ Len(Slice(s + 1, i)) = l
  <2>1. s + 1 \in Nat \ {0}
    OBVIOUS
  <2> QED BY <2>1, SliceFacts
<1>4. l \in Nat /\ s + 1 + l - 1 = i - 1
  OBVIOUS
<1>5. tok.val = SubSeq(text, s + 1, s + 1 + l - 1) /\ Len(tok.val) = l
  BY <1>1, <1>3, <1>4, Zenon
<1>6. \A x \in s..e - 1 : x < s + 1 \/ x > s + 1 + l - 1 => At(x) \in Frame(tok)
  <2> TAKE x \in s..e - 1
  <2> HAVE x < s + 1 \/ x > s + 1 + l - 1
  <2>1. x = s \/ (x = i /\ e = i + 1)
    BY <1>4
  <2>2. At(x) = At(s)
    BY <2>1
  <2> QED BY <1>2, <2>2
<1>7. 1 \in 0..1 /\ 1 = (IF At(s) \in Signs THEN 1 ELSE 0)
  OBVIOUS
<1> HIDE DEF l
<1>8. Whole(tok)
  BY <1>1, <1>4, <1>5, <1>6, <1>7, WholeMade
<1> QED BY <1>8 DEF tok

(* A tag is its characters. *)
LEMMA TagWhole ==
  ASSUME IsText(text), NEW s \in Nat \ {0}, NEW i \in Nat, At(s) \notin Signs,
         s <= i, i <= Len(text) + 1, NEW type, NEW pl, NEW style
  PROVE  Whole(Token(type, pl, s, i, Slice(s, i), style, FALSE))
<1> DEFINE tok == Token(type, pl, s, i, Slice(s, i), style, FALSE)
           l   == i - s
<1>1. tok.at = s /\ tok.to = i /\ tok.val = Slice(s, i)
  BY DEF Token
<1> HIDE DEF tok
<1>3. Slice(s, i) = SubSeq(text, s, i - 1) /\ Len(Slice(s, i)) = l
  BY SliceFacts
<1>4. l \in Nat /\ s + 0 + l - 1 = i - 1 /\ s + 0 = s
  OBVIOUS
<1>5. tok.val = SubSeq(text, s + 0, s + 0 + l - 1) /\ Len(tok.val) = l
  BY <1>1, <1>3, <1>4, Zenon
<1>6. \A x \in s..i - 1 : x < s + 0 \/ x > s + 0 + l - 1 => At(x) \in Frame(tok)
  BY <1>4
<1>7. 0 \in 0..1 /\ 0 = (IF At(s) \in Signs THEN 1 ELSE 0)
  OBVIOUS
<1> HIDE DEF l
<1>8. Whole(tok)
  BY <1>1, <1>4, <1>5, <1>6, <1>7, WholeMade
<1> QED BY <1>8 DEF tok

(* A plain scalar is its characters but for the blanks at its end. *)
LEMMA PlainWhole ==
  ASSUME IsSeq(text), IsText(text), NEW s \in Nat \ {0}, NEW i \in Nat, At(s) \notin Signs,
         s <= i, i <= Len(text) + 1, NEW pl
  PROVE  Whole(Token("SCALAR", pl, s, i, Trimmed(Slice(s, i)), "plain", FALSE))
<1> DEFINE tok == Token("SCALAR", pl, s, i, Trimmed(Slice(s, i)), "plain", FALSE)
           r   == Slice(s, i)
           K   == {k \in DOMAIN r : r[k] \notin Blank}
           l   == Max(K \cup {0})
<1>1. /\ tok.at = s /\ tok.to = i /\ tok.val = SubSeq(r, 1, l)
      /\ tok.type = "SCALAR" /\ tok.style = "plain"
  <2>1. Trimmed(r) = SubSeq(r, 1, l)
    BY Zenon DEF Trimmed
  <2>2. /\ tok.at = s /\ tok.to = i /\ tok.val = Trimmed(r)
        /\ tok.type = "SCALAR" /\ tok.style = "plain"
    BY DEF Token
  <2> QED BY <2>1, <2>2, Zenon
<1> HIDE DEF tok
<1>2. Frame(tok) = Blank
  BY <1>1 DEF Frame
<1>3. r = SubSeq(text, s, i - 1) /\ Len(text) \in Nat /\ i - 1 \in Nat /\ s <= (i - 1) + 1
  <2>1. r = SubSeq(text, s, i - 1)
    BY SliceFacts
  <2>2. i - 1 \in Nat /\ s <= (i - 1) + 1
    OBVIOUS
  <2> QED BY <2>1, <2>2 DEF IsText
<1>4. /\ Len(r) = (i - 1) + 1 - s /\ IsSeq(r)
      /\ \A k \in 1..(i - 1) + 1 - s : r[k] = text[(s + k) - 1]
  <2> HIDE DEF r
  <2> QED BY <1>3, PartFacts
<1> HIDE DEF r
<1>5. Len(r) = i - s /\ Len(r) \in Nat /\ DOMAIN r = 1..Len(r)
      /\ \A k \in 1..Len(r) : r[k] = text[(s + k) - 1]
  BY <1>4, SeqDomain
<1>6. l \in 0..Len(r) /\ \A k \in K : k <= l
  <2> DEFINE R == K \cup {0}
  <2>1. R \in SUBSET 0..Len(r) /\ R # {}
    BY <1>5
  <2>2. Max(R) \in R /\ \A y \in R : y <= Max(R)
    <3> HIDE DEF R
    <3> QED BY <1>5, <2>1, GreatestOf
  <2> QED BY <2>1, <2>2
<1>7. \A k \in 1..Len(r) : k > l => r[k] \in Blank
  <2> TAKE k \in 1..Len(r)
  <2> HAVE k > l
  <2>1. k \notin K
    <3> HIDE DEF K, l
    <3> QED BY <1>5, <1>6
  <2> QED BY <1>5, <2>1
<1> HIDE DEF l, K
<1>8. l \in Nat /\ l <= Len(r) /\ s + 0 = s /\ s + 0 + l - 1 = (s + l) - 1
  BY <1>5, <1>6
<1> DEFINE v == SubSeq(r, 1, l)
           w == SubSeq(text, s, (s + l) - 1)
<1>9. /\ Len(v) = l /\ IsSeq(v)
      /\ \A k \in 1..l : v[k] = r[k]
  <2>1. 1 \in Nat \ {0} /\ 1 <= l + 1 /\ l + 1 - 1 = l
    BY <1>8
  <2>2. /\ Len(v) = l + 1 - 1 /\ IsSeq(v)
        /\ \A k \in 1..l + 1 - 1 : v[k] = r[(1 + k) - 1]
    BY <1>8, <2>1, PartFacts
  <2>3. \A k \in 1..l : (1 + k) - 1 = k
    BY <1>8
  <2> HIDE DEF v
  <2> QED BY <2>1, <2>2, <2>3
<1>10. /\ Len(w) = l /\ IsSeq(w)
       /\ \A k \in 1..l : w[k] = text[(s + k) - 1]
  <2> DEFINE b == (s + l) - 1
  <2>1. b \in Nat /\ s <= b + 1 /\ b + 1 - s = l
    BY <1>8
  <2> HIDE DEF b
  <2>2. /\ Len(SubSeq(text, s, b)) = b + 1 - s /\ IsSeq(SubSeq(text, s, b))
        /\ \A k \in 1..b + 1 - s : SubSeq(text, s, b)[k] = text[(s + k) - 1]
    BY <2>1, PartFacts
  <2> QED BY <2>1, <2>2 DEF b
<1>11. v = w
  <2>1. \A k \in 1..l : v[k] = w[k]
    BY <1>5, <1>8, <1>9, <1>10
  <2> HIDE DEF v, w
  <2>2. v = [k \in 1..l |-> v[k]] /\ w = [k \in 1..l |-> w[k]]
    BY <1>9, <1>10 DEF IsSeq
  <2> QED BY <2>1, <2>2
<1>12. tok.val = SubSeq(text, s + 0, s + 0 + l - 1) /\ Len(tok.val) = l
  BY <1>1, <1>8, <1>9, <1>11, Zenon
<1> HIDE DEF v, w
<1>13. \A x \in s..i - 1 : x < s + 0 \/ x > s + 0 + l - 1 => At(x) \in Frame(tok)
  <2> TAKE x \in s..i - 1
  <2> HAVE x < s + 0 \/ x > s + 0 + l - 1
  <2>1. x >= s + l
    BY <1>8
  <2>2. PICK k \in 1..Len(r) : k = x - s + 1 /\ k > l
    BY <1>5, <1>8, <2>1
  <2>3. (s + k) - 1 = x /\ x \in 1..Len(text)
    BY <1>3, <2>2
  <2>4. r[k] = text[x] /\ At(x) = text[x]
    BY <1>3, <1>5, <2>3 DEF At, CharAt, IsText
  <2> QED BY <1>2, <1>7, <2>2, <2>4
<1>14. 0 \in 0..1 /\ 0 = (IF At(s) \in Signs THEN 1 ELSE 0)
  OBVIOUS
<1>15. Whole(tok)
  BY <1>1, <1>8, <1>12, <1>13, <1>14, WholeMade
<1> QED BY <1>15 DEF tok, r

(***************************************************************************)
(* What has been read: up to the cursor, or to where the block scalar      *)
(* under way starts.  An allocation that failed leaves a scalar without    *)
(* its value, which lex reports, or drops a token.                         *)
(***************************************************************************)
WholeIn(tok, t) ==
  LET first == IF CharAt(t, tok.at) \in Signs THEN 1 ELSE 0
      from  == tok.at + first
      upto  == tok.at + first + Len(tok.val) - 1
      frame == IF tok.type = "SCALAR" /\ tok.style = "plain" THEN Blank
               ELSE {CharAt(t, tok.at)}
  IN /\ tok.val = SubSeq(t, from, upto)
     /\ \A i \in (tok.at .. tok.to - 1) \ (from .. upto) : CharAt(t, i) \in frame

Read(T, t, n) == /\ Apart(T, n) /\ Known(T, t, n)
                 /\ \A k \in 1..Len(T) : T[k].owned \/ WholeIn(T[k], t)

Kept   == ~error /\ dropped = 0
ReadTo == IF pc \in {"block", "text"} THEN blk.at ELSE p

ReadInv ==
  /\ IsSeq(text) /\ \A i \in 1..Len(text) : text[i] # Nul
  /\ pc \in Lexing \cup {"done"} /\ Kept => Read(tokens, text, ReadTo)
  /\ pc = "done" => p = Len(text) + 1 /\ ~error

LEMMA WholeSame == \A tok : Whole(tok) <=> WholeIn(tok, text)
BY Zenon DEF Whole, WholeIn, Frame, At, Signs

(* One more token that is whole, or a block scalar's. *)
LEMMA ReadOn ==
  ASSUME NEW T, IsSeq(T), Numbered(T),
         NEW s \in Nat \ {0}, NEW e \in Nat, s <= e, Read(T, text, s),
         NEW tok, tok.at = s, tok.to = e, tok.owned \/ WholeIn(tok, text)
  PROVE  Read(Append(T, tok), text, e)
<1> DEFINE U == Append(T, tok)
<1>1. Apart(T, s) /\ Known(T, text, s)
      /\ \A k \in 1..Len(T) : T[k].owned \/ WholeIn(T[k], text)
  BY DEF Read
<1>2. Apart(U, e) /\ Known(U, text, e)
  BY <1>1, TokenKnown
<1>3. /\ Len(T) \in Nat /\ Len(U) = Len(T) + 1
      /\ \A k \in 1..Len(T) : U[k] = T[k]
      /\ U[Len(T) + 1] = tok
  BY SeqAppend, SeqDomain
<1> HIDE DEF U
<1>4. ASSUME NEW k \in 1..Len(U) PROVE U[k].owned \/ WholeIn(U[k], text)
  <2>1. CASE k \in 1..Len(T)
    BY <1>1, <1>3, <2>1
  <2>2. CASE k = Len(T) + 1
    BY <1>3, <2>2
  <2> QED BY <1>3, <2>1, <2>2
<1>5. Read(U, text, e)
  BY <1>2, <1>4 DEF Read
<1> QED BY <1>5 DEF U

(* The tokens' places, and what is read when skip_ws has returned. *)
LEMMA TokensNumbered ==
  ASSUME IInv
  PROVE  IsSeq(tokens) /\ Numbered(tokens)
BY DEF IInv, TokenIn, Numbered

LEMMA ScanRead ==
  ASSUME IInv, ReadInv, pc = "scan", Kept
  PROVE  Read(tokens, text, Start)
<1>1. /\ IsText(text) /\ Len(text) \in Nat /\ p \in 1..Len(text) + 1
      /\ Start \in p..Len(text) + 1
  BY ScanFacts
<1>2. Read(tokens, text, p)
  BY DEF ReadInv, ReadTo, Lexing
<1> DEFINE s == Start
<1>3. Skipped(p, s)
  BY <1>1, StartFacts
<1>4. s \in Nat /\ p <= s /\ p \in Nat \ {0}
  BY <1>1
<1> HIDE DEF s
<1>5. Known(tokens, text, s)
  BY <1>2, <1>3, <1>4, TokensNumbered, SkippedKnown DEF Read
<1>6. Apart(tokens, s)
  <2>1. \A k \in 1..Len(tokens) : tokens[k].to \in Nat /\ tokens[k].to <= p
    BY <1>2, TokensNumbered DEF Read, Apart, Numbered
  <2>2. \A k \in 1..Len(tokens) : tokens[k].to <= s
    BY <1>4, <2>1
  <2> QED BY <1>2, <2>2 DEF Read, Apart
<1> QED BY <1>2, <1>5, <1>6 DEF Read, s

(***************************************************************************)
(* The steps of the main loop.                                             *)
(***************************************************************************)
LEMMA LexedRead ==
  ASSUME IInv, ReadInv, pc = "scan", pc' \in {"scan", "astray"},
         NEW type, NEW style, NEW i \in Nat, Start <= i, NEW val,
         Lexed(type, Start, i, val, style),
         ~error /\ pc' = "scan" =>
           Whole(Token(type, PlaceAt(Start), Start, i, val, style, FALSE))
  PROVE  ReadInv'
<1> DEFINE s == Start
           tok == Token(type, PlaceAt(s), s, i, val, style, FALSE)
<1>1. text' = text /\ error' = error /\ p' = i /\ Push(tok, 0)
  BY DEF Lexed, AdvanceTo
<1>2. tok.at = s /\ tok.to = i
  BY DEF Token
<1>3. ~error /\ pc' = "scan" => Whole(tok)
  OBVIOUS
<1>4. s \in Nat \ {0} /\ s <= i
  BY ScanFacts
<1>5. Kept => Read(tokens, text, s)
  BY ScanRead
<1> HIDE DEF tok, s
<1>9. Kept' => Kept /\ tokens' = Append(tokens, tok)
  BY <1>1, PushLeaves DEF Kept
<1>6. Kept' /\ pc' = "scan" => Read(tokens', text, i)
  <2>1. Kept /\ pc' = "scan" => Read(Append(tokens, tok), text, i)
    BY <1>2, <1>3, <1>4, <1>5, WholeSame, TokensNumbered, ReadOn DEF Kept
  <2> QED BY <1>9, <2>1
<1>7. ReadTo' = p' /\ (pc' \in Lexing \cup {"done"} => pc' = "scan" /\ pc' # "done")
  BY DEF ReadTo, Lexing
<1>8. pc' # "done"
  OBVIOUS
<1> QED BY <1>1, <1>6, <1>7, <1>8 DEF ReadInv

LEMMA StartInText ==
  ASSUME IInv, pc = "scan", At(Start) # Nul
  PROVE  /\ IsText(text) /\ Len(text) \in Nat /\ Start \in 1..Len(text)
         /\ Start \in Nat \ {0}
<1>1. Start \in 1..Len(text) + 1 /\ Len(text) \in Nat /\ IsText(text)
  BY ScanFacts
<1>2. Start \in Nat
  BY <1>1
<1>3. Start \in 1..Len(text)
  BY <1>1, <1>2, InText
<1> QED BY <1>1, <1>3

(* A mark of one character. *)
LEMMA MarkRead ==
  ASSUME IInv, ReadInv, pc = "scan", pc' = pc, At(Start) # Nul, At(Start) \notin Signs,
         NEW type, type # "SCALAR", Mark(type, Start, 1)
  PROVE  ReadInv'
<1>1. Start \in Nat \ {0} /\ Start + 1 \in Nat /\ Start <= Start + 1
  BY StartInText
<1>2. Lexed(type, Start, Start + 1, <<>>, "plain")
  BY DEF Mark
<1>3. \A i \in Start..(Start + 1) - 1 : At(i) = At(Start)
  BY <1>1
<1>4. Whole(Token(type, PlaceAt(Start), Start, Start + 1, <<>>, "plain", FALSE))
  BY <1>1, <1>3, MarkWhole
<1> QED BY <1>1, <1>2, <1>4, LexedRead

LEMMA LexMarkerRead == IInv /\ ReadInv /\ LexMarker => ReadInv'
<1> SUFFICES ASSUME IInv, ReadInv, LexMarker PROVE ReadInv'
  OBVIOUS
<1>1. pc = "scan" /\ pc' = "scan"
  BY DEF LexMarker
<1>2. PICK c \in {"-", "."}, type \in {"DOC_START", "DOC_END"} :
        IsMarker(Start, c) /\ Mark(type, Start, 3)
  BY DEF LexMarker
<1>3. At(Start + 0) = c /\ At(Start + 1) = c /\ At(Start + 2) = c
  <2>1. 0 \in 0..2 /\ 1 \in 0..2 /\ 2 \in 0..2
    OBVIOUS
  <2> QED BY <1>2, <2>1, Zenon DEF IsMarker
<1>4. Start \in Nat \ {0} /\ Start + 3 \in Nat /\ Start <= Start + 3
  BY <1>1, ScanFacts
<1>5. At(Start) = c
  BY <1>3, <1>4
<1>6. At(Start) \notin Signs
  BY <1>5 DEF Signs
<1>7. \A i \in Start..(Start + 3) - 1 : At(i) = At(Start)
  <2> TAKE i \in Start..(Start + 3) - 1
  <2>1. i = Start \/ i = Start + 1 \/ i = Start + 2
    BY <1>4
  <2> QED BY <1>3, <1>5, <2>1
<1>8. Lexed(type, Start, Start + 3, <<>>, "plain")
  BY <1>2 DEF Mark
<1>9. Whole(Token(type, PlaceAt(Start), Start, Start + 3, <<>>, "plain", FALSE))
  BY <1>4, <1>6, <1>7, MarkWhole
<1> QED BY <1>1, <1>4, <1>8, <1>9, LexedRead

LEMMA LexOpenRead == IInv /\ ReadInv /\ LexOpen => ReadInv'
<1> SUFFICES ASSUME IInv, ReadInv, LexOpen PROVE ReadInv'
  OBVIOUS
<1>1. /\ pc = "scan" /\ pc' = pc /\ At(Start) \in {"[", "{"}
      /\ Mark(Opening[At(Start)], Start, 1)
  BY DEF LexOpen, Opening
<1>2. At(Start) # Nul /\ At(Start) \notin Signs
  BY <1>1 DEF Nul, Signs
<1>3. Opening[At(Start)] # "SCALAR"
  BY <1>1 DEF Opening
<1> QED BY <1>1, <1>2, <1>3, MarkRead

LEMMA LexCloseRead == IInv /\ ReadInv /\ LexClose => ReadInv'
<1> SUFFICES ASSUME IInv, ReadInv, LexClose PROVE ReadInv'
  OBVIOUS
<1>1. /\ pc = "scan" /\ pc' = pc /\ At(Start) \in {"]", "}"}
      /\ Mark(Closing[At(Start)], Start, 1)
  BY DEF LexClose, Closing
<1>2. At(Start) # Nul /\ At(Start) \notin Signs
  BY <1>1 DEF Nul, Signs
<1>3. Closing[At(Start)] # "SCALAR"
  BY <1>1 DEF Closing
<1> QED BY <1>1, <1>2, <1>3, MarkRead

LEMMA LexIndicatorRead == IInv /\ ReadInv /\ LexIndicator => ReadInv'
<1> SUFFICES ASSUME IInv, ReadInv, LexIndicator PROVE ReadInv'
  OBVIOUS
<1>1. /\ pc = "scan" /\ pc' = pc /\ Indicator(Start) # "none"
      /\ Mark(Indicator(Start), Start, 1)
  BY DEF LexIndicator
<1>2. At(Start) \in {",", "-", "?", ":"}
  BY <1>1, IndicatorFacts
<1>3. At(Start) # Nul /\ At(Start) \notin Signs
  BY <1>2 DEF Nul, Signs
<1>4. Indicator(Start) # "SCALAR"
  BY DEF Indicator
<1> QED BY <1>1, <1>3, <1>4, MarkRead

LEMMA LexAnchorRead == IInv /\ ReadInv /\ lex_anchor_alias => ReadInv'
<1> SUFFICES ASSUME IInv, ReadInv, lex_anchor_alias PROVE ReadInv'
  OBVIOUS
<1> DEFINE i == NameEnd(Start)
<1>1. pc = "scan" /\ pc' = "scan"
  BY DEF lex_anchor_alias
<1>2. PICK type \in {"ANCHOR", "ALIAS"} :
        At(Start) \in {"&", "*"} /\ Lexed(type, Start, i, Slice(Start + 1, i), "plain")
  BY DEF lex_anchor_alias
<1>3. At(Start) # Nul /\ At(Start) \in Signs
  BY <1>2 DEF Nul, Signs
<1>4. IsText(text) /\ Start \in 1..Len(text) /\ Start \in Nat \ {0} /\ Len(text) \in Nat
  BY <1>1, <1>3, StartInText
<1>5. i \in Start + 1..Len(text) + 1
  BY <1>4, NameEndFacts
<1> HIDE DEF i
<1>6. i \in Nat /\ Start + 1 <= i /\ i <= Len(text) + 1 /\ Start <= i
  BY <1>4, <1>5
<1>7. type # "SCALAR"
  OBVIOUS
<1>8. Whole(Token(type, PlaceAt(Start), Start, i, Slice(Start + 1, i), "plain", FALSE))
  BY <1>3, <1>4, <1>6, <1>7, SignedWhole
<1> QED BY <1>1, <1>2, <1>6, <1>8, LexedRead

LEMMA LexTagRead == IInv /\ ReadInv /\ lex_tag => ReadInv'
<1> SUFFICES ASSUME IInv, ReadInv, lex_tag PROVE ReadInv'
  OBVIOUS
<1> DEFINE i == TagEnd(Start)
<1>1. /\ pc = "scan" /\ pc' = "scan" /\ At(Start) = "!"
      /\ Lexed("TAG", Start, i, Slice(Start, i), "plain")
  BY DEF lex_tag
<1>2. At(Start) # Nul /\ At(Start) \notin Signs
  BY <1>1 DEF Nul, Signs
<1>3. IsText(text) /\ Start \in 1..Len(text) /\ Start \in Nat \ {0} /\ Len(text) \in Nat
  BY <1>1, <1>2, StartInText
<1>4. i \in Start + 1..Len(text) + 1
  BY <1>3, TagEndFacts
<1> HIDE DEF i
<1>5. i \in Nat /\ i <= Len(text) + 1 /\ Start <= i
  BY <1>3, <1>4
<1>6. Whole(Token("TAG", PlaceAt(Start), Start, i, Slice(Start, i), "plain", FALSE))
  BY <1>2, <1>3, <1>5, TagWhole
<1> QED BY <1>1, <1>5, <1>6, LexedRead

(* The quote that ends a scalar is that which starts it. *)
LEMMA QuoteFrame ==
  ASSUME NEW i \in Nat, NEW q
  PROVE  PastQuote(i, q) = i \/ (PastQuote(i, q) = i + 1 /\ At(i) = q)
BY DEF PastQuote

LEMMA LexSingleRead == IInv /\ ReadInv /\ lex_single_quoted => ReadInv'
<1> SUFFICES ASSUME IInv, ReadInv, lex_single_quoted PROVE ReadInv'
  OBVIOUS
<1> DEFINE i == SingleEnd(Start + 1)
           e == PastQuote(i, "'")
<1>1. /\ pc = "scan" /\ pc' = "scan" /\ At(Start) = "'"
      /\ Lexed("SCALAR", Start, e, Slice(Start + 1, i), "single")
  BY DEF lex_single_quoted
<1>2. At(Start) # Nul /\ At(Start) \in Signs
  BY <1>1 DEF Nul, Signs
<1>3. IsText(text) /\ Start \in 1..Len(text) /\ Start \in Nat \ {0} /\ Len(text) \in Nat
  BY <1>1, <1>2, StartInText
<1>4. i \in Start + 1..Len(text) + 1
  <2>1. Start + 1 \in 1..Len(text) + 1
    BY <1>3
  <2> QED BY <1>3, <2>1, SingleEndFacts
<1> HIDE DEF i
<1>5. i \in Nat /\ Start + 1 <= i /\ i <= Len(text) + 1
  BY <1>3, <1>4
<1>6. e = i \/ (e = i + 1 /\ At(i) = At(Start))
  BY <1>1, <1>5, QuoteFrame, Zenon
<1> HIDE DEF e
<1>7. e \in Nat /\ Start <= e
  BY <1>3, <1>5, <1>6
<1>8. Whole(Token("SCALAR", PlaceAt(Start), Start, e, Slice(Start + 1, i), "single", FALSE))
  BY <1>2, <1>3, <1>5, <1>6, <1>7, SignedWhole
<1> QED BY <1>1, <1>7, <1>8, LexedRead

LEMMA LexDoubleRead == IInv /\ ReadInv /\ lex_double_quoted => ReadInv'
<1> SUFFICES ASSUME IInv, ReadInv, lex_double_quoted PROVE ReadInv'
  OBVIOUS
<1> DEFINE i == DoubleEnd(Start + 1)
           e == PastQuote(i, "\"")
<1>1. /\ pc = "scan" /\ At(Start) = "\""
      /\ Lexed("SCALAR", Start, e, Slice(Start + 1, i), "double")
      /\ pc' = IF i > Len(text) + 1 THEN "astray" ELSE "scan"
  BY DEF lex_double_quoted
<1>2. At(Start) # Nul /\ At(Start) \in Signs
  BY <1>1 DEF Nul, Signs
<1>3. IsText(text) /\ Start \in 1..Len(text) /\ Start \in Nat \ {0} /\ Len(text) \in Nat
  BY <1>1, <1>2, StartInText
<1>4. i \in Start + 1..Len(text) + 2
  <2>1. Start + 1 \in 1..Len(text) + 1
    BY <1>3
  <2> QED BY <1>3, <2>1, DoubleEndFacts
<1> HIDE DEF i
<1>5. i \in Nat /\ Start + 1 <= i /\ (pc' = "scan" => i <= Len(text) + 1)
  <2>1. i \in Nat /\ Start + 1 <= i
    BY <1>3, <1>4
  <2>2. ~ (i > Len(text) + 1) => i <= Len(text) + 1
    BY <1>3, <2>1
  <2>3. pc' = "scan" => ~ (i > Len(text) + 1)
    BY <1>1
  <2> QED BY <2>1, <2>2, <2>3
<1>6. e = i \/ (e = i + 1 /\ At(i) = At(Start))
  BY <1>1, <1>5, QuoteFrame, Zenon
<1> HIDE DEF e
<1>7. e \in Nat /\ Start <= e
  BY <1>3, <1>5, <1>6
<1>8. pc' = "scan" =>
        Whole(Token("SCALAR", PlaceAt(Start), Start, e, Slice(Start + 1, i), "double", FALSE))
  BY <1>2, <1>3, <1>5, <1>6, <1>7, SignedWhole
<1>9. pc' \in {"scan", "astray"}
  BY <1>1
<1> QED BY <1>1, <1>7, <1>8, <1>9, LexedRead

LEMMA ReadStays == ReadInv /\ UNCHANGED vars => ReadInv'
BY DEF ReadInv, ReadTo, Kept, vars

LEMMA LexPlainRead == IInv /\ ReadInv /\ lex_plain => ReadInv'
<1> SUFFICES ASSUME IInv, ReadInv, lex_plain PROVE ReadInv'
  OBVIOUS
<1> DEFINE i == PlainEnd(Start)
<1>1. /\ pc = "scan" /\ At(Start) \notin Special
      /\ \/ UNCHANGED vars
         \/ /\ Lexed("SCALAR", Start, i, Trimmed(Slice(Start, i)), "plain")
            /\ pc' = pc
  BY DEF lex_plain
<1>2. At(Start) # Nul /\ At(Start) \notin Signs
  BY <1>1 DEF Special, Signs
<1>3. IsText(text) /\ Start \in 1..Len(text) /\ Start \in Nat \ {0} /\ Len(text) \in Nat
  BY <1>1, <1>2, StartInText
<1>4. i \in Start..Len(text) + 1
  <2>1. Start \in 1..Len(text) + 1
    BY <1>3
  <2> QED BY <1>3, <2>1, PlainEndFacts
<1> HIDE DEF i
<1>5. i \in Nat /\ i <= Len(text) + 1 /\ Start <= i
  BY <1>3, <1>4
<1>6. CASE UNCHANGED vars
  BY <1>6, ReadStays
<1>7. CASE Lexed("SCALAR", Start, i, Trimmed(Slice(Start, i)), "plain") /\ pc' = pc
  <2>1. IsSeq(text)
    BY DEF ReadInv
  <2>2. Whole(Token("SCALAR", PlaceAt(Start), Start, i, Trimmed(Slice(Start, i)), "plain",
                    FALSE))
    BY <1>2, <1>3, <1>5, <2>1, PlainWhole
  <2> QED BY <1>1, <1>5, <1>7, <2>2, LexedRead
<1> QED BY <1>1, <1>6, <1>7

(***************************************************************************)
(* Block scalars: nothing is taken until the end, or it is given up.       *)
(***************************************************************************)
LEMMA BlockHeaderRead == IInv /\ ReadInv /\ BlockHeader => ReadInv'
<1> SUFFICES ASSUME IInv, ReadInv, BlockHeader PROVE ReadInv'
  OBVIOUS
<1> DEFINE s == Start
<1>1. pc = "scan" /\ text' = text
  BY DEF BlockHeader
<1>2. PICK f \in FailAt(1) :
        /\ error' = (error \/ f = 1)
        /\ blk' = IF f = 1 THEN blk
                  ELSE [style |-> BlockStyle(s),
                        at |-> s, line |-> LineTo(s), col |-> ColTo(s),
                        chomp |-> HeaderEnd(s).chomp,
                        base |-> IF HeaderEnd(s).indent = 0 THEN Spaces(HeaderEnd(s).to)
                                 ELSE HeaderEnd(s).indent,
                        buf |-> <<>>, cap |-> BlockCap]
        /\ f = 0 => UNCHANGED <<tokens, dropped>>
        /\ pc' = IF f = 0 THEN "block" ELSE "scan"
  BY DEF BlockHeader, NoPush
<1>3. f = 0 \/ f = 1
  BY DEF FailAt
<1>4. Kept => Read(tokens, text, s)
  BY <1>1, ScanRead
<1> HIDE DEF s
<1>5. CASE f = 0
  <2>1. pc' = "block" /\ tokens' = tokens /\ blk'.at = s
    BY <1>2, <1>5
  <2>2. ReadTo' = s
    BY <2>1 DEF ReadTo
  <2>3. Kept' => Kept
    BY <1>2, <1>5, Zenon DEF Kept
  <2>4. pc' # "done"
    BY <2>1
  <2> QED BY <1>1, <1>4, <2>1, <2>2, <2>3, <2>4 DEF ReadInv
<1>6. CASE f = 1
  <2>1. error'
    BY <1>2, <1>6, Zenon
  <2>2. pc' = "scan"
    BY <1>2, <1>6
  <2>3. pc' # "done"
    BY <2>2
  <2> QED BY <1>1, <2>1, <2>3 DEF ReadInv, Kept
<1> QED BY <1>3, <1>5, <1>6

LEMMA AppendedRead ==
  ASSUME IInv, ReadInv, pc \in {"block", "text"}, Body,
         NEW cs, NEW n, NEW q, NEW i, NEW l \in {"block", "text"}, Appended(cs, n, q, i, l)
  PROVE  ReadInv'
<1>1. text' = text
  BY DEF Body
<1>2. CASE /\ blk' = [blk EXCEPT !.buf = @ \o cs, !.cap = Capacity(n)]
           /\ pc' = l
           /\ UNCHANGED <<error, tokens, dropped>>
  <2>1. "at" \in DOMAIN blk /\ blk'.at = blk.at
    <3>1. DOMAIN blk = DOMAIN NoBlock
      BY DEF IInv, BlockOK
    <3>2. "at" \in DOMAIN blk
      BY <3>1 DEF NoBlock
    <3> QED BY <1>2, <3>2
  <2>2. ReadTo' = ReadTo /\ pc \in Lexing /\ pc' # "done"
    BY <1>2, <2>1 DEF ReadTo, Lexing
  <2> QED BY <1>1, <1>2, <2>2 DEF ReadInv, Kept
<1>3. CASE GiveUp
  BY <1>1, <1>3 DEF GiveUp, ReadInv, Kept
<1> QED BY <1>2, <1>3 DEF Appended, NoPush

LEMMA BlockStepRead ==
  IInv /\ ReadInv /\ (BlockBlank \/ BlockIndent \/ BlockChar \/ BlockNewline) => ReadInv'
<1> SUFFICES ASSUME IInv, ReadInv, BlockBlank \/ BlockIndent \/ BlockChar \/ BlockNewline
             PROVE  ReadInv'
  OBVIOUS
<1>1. Body /\ pc \in {"block", "text"}
  BY DEF BlockBlank, BlockIndent, BlockChar, BlockNewline
<1>2. CASE BlockBlank
  <2> DEFINE q == p + Spaces(p)
  <2>1. Appended(<<"\n">>, 1, q, PastBreak(q), "block")
    BY <1>2 DEF BlockBlank
  <2> QED BY <1>1, <2>1, AppendedRead
<1>3. CASE BlockIndent
  <2> DEFINE q == p + Spaces(p)
             extra == Spaces(p) - blk.base
  <2>1. Appended([k \in 1..extra |-> " "], extra + 1, q, q, "text")
    BY <1>3 DEF BlockIndent
  <2> QED BY <1>1, <2>1, AppendedRead
<1>4. CASE BlockChar
  <2>1. Appended(<<At(p)>>, 1, p, p + 1, "text")
    BY <1>4 DEF BlockChar
  <2> QED BY <1>1, <2>1, AppendedRead
<1>5. CASE BlockNewline
  <2>1. Appended(<<"\n">>, 1, p, PastBreak(p), "block")
    BY <1>5 DEF BlockNewline
  <2> QED BY <1>1, <2>1, AppendedRead
<1> QED BY <1>2, <1>3, <1>4, <1>5

LEMMA BlockEndRead == IInv /\ ReadInv /\ BlockEnd => ReadInv'
<1> SUFFICES ASSUME IInv, ReadInv, BlockEnd PROVE ReadInv'
  OBVIOUS
<1> DEFINE s == blk.at
           tok == Token("SCALAR", [line |-> blk.line, col |-> blk.col], s, p,
                        Chomped(blk.buf, blk.chomp), blk.style, TRUE)
<1>1. /\ pc = "block" /\ pc' = "scan" /\ Push(tok, 0)
      /\ UNCHANGED <<text, p, error>>
  BY DEF BlockEnd, Body
<1>2. tok.at = s /\ tok.to = p /\ tok.owned
  BY DEF Token
<1>3. s \in 1..p /\ p \in Nat \ {0}
  BY <1>1, BlockFacts DEF BlockOK
<1>4. Kept => Read(tokens, text, s)
  BY <1>1 DEF ReadInv, ReadTo, Lexing
<1> HIDE DEF s, tok
<1>7. Kept' => Kept /\ tokens' = Append(tokens, tok)
  BY <1>1, PushLeaves DEF Kept
<1>5. Kept => Read(Append(tokens, tok), text, p)
  BY <1>2, <1>3, <1>4, TokensNumbered, ReadOn
<1>6. ReadTo' = p' /\ pc' # "done"
  BY <1>1 DEF ReadTo
<1> QED BY <1>1, <1>5, <1>6, <1>7 DEF ReadInv

(***************************************************************************)
(* The start and the end of the call.                                      *)
(***************************************************************************)
LEMMA LexStartRead == IInv /\ LexStart => ReadInv'
<1> SUFFICES ASSUME IInv, LexStart PROVE ReadInv'
  OBVIOUS
<1> DEFINE r == normalize_encoding(source)
           n == Len(r.bytes)
<1>1. /\ pc = "call" /\ UNCHANGED <<p, tokens, error>>
      /\ text' = [k \in DOMAIN r.bytes |-> Chr(r.bytes[k])]
      /\ pc' \in {"astray", "scan", "refused"}
  BY DEF LexStart, NoPush
<1>2. tokens = <<>> /\ p = 1 /\ \E S \in Sources : source \in S
  BY <1>1 DEF IInv
<1>3. r.bytes \in Seq(Bytes)
  BY <1>2, SourcesAssumption, Normalized
<1>4. n \in Nat /\ DOMAIN r.bytes = 1..n /\ \A k \in 1..n : r.bytes[k] \in Bytes
  <2> DEFINE b == r.bytes
  <2>1. b \in Seq(Bytes)
    BY <1>3
  <2> HIDE DEF b
  <2>2. Len(b) \in Nat /\ DOMAIN b = 1..Len(b) /\ \A k \in 1..Len(b) : b[k] \in Bytes
    BY <2>1, SeqElements
  <2> QED BY <2>2 DEF b
<1> HIDE DEF n, r
<1>5. \A k \in 1..n : text'[k] = Chr(r.bytes[k]) /\ Chr(r.bytes[k]) # Nul
  BY <1>1, <1>4, CharsAssumption DEF Bytes
<1>6. IsSeq(text') /\ Len(text') = n
  <2>1. DOMAIN text' = 1..n /\ text' = [k \in 1..n |-> text'[k]]
    BY <1>1, <1>4
  <2> QED BY <1>4, <2>1, SeqFunction
<1>7. Read(<<>>, text', 1)
  <2>1. Len(<<>>) = 0 /\ 1..0 = {} /\ 1..0 - 1 = {} /\ 1..1 - 1 = {}
    OBVIOUS
  <2> QED BY <2>1 DEF Read, Apart, Known
<1>8. pc' = "scan" => ReadTo' = 1
  BY <1>1, <1>2 DEF ReadTo
<1>9. /\ pc' \in Lexing \cup {"done"} => pc' = "scan"
      /\ pc' # "done"
  BY <1>1 DEF Lexing
<1> QED BY <1>1, <1>2, <1>5, <1>6, <1>7, <1>8, <1>9 DEF ReadInv

LEMMA LexEndRead == IInv /\ ReadInv /\ LexEnd => ReadInv'
<1> SUFFICES ASSUME IInv, ReadInv, LexEnd PROVE ReadInv'
  OBVIOUS
<1> DEFINE s == Start
           tok == Token("EOF", PlaceAt(s), s, s, <<>>, "plain", FALSE)
<1>1. /\ pc = "scan" /\ At(s) = Nul /\ p' = s
      /\ ~error => Push(tok, 0)
      /\ pc' = IF error THEN "refused" ELSE "done"
      /\ UNCHANGED <<text, error>>
  BY DEF LexEnd, Refused, AdvanceTo
<1>2. IsText(text) /\ Len(text) \in Nat /\ s \in 1..Len(text) + 1
  BY <1>1, ScanFacts
<1>3. s = Len(text) + 1
  <2>1. s \in 1..Len(text) => At(s) = text[s]
    <3> HIDE DEF s
    <3> QED BY <1>2 DEF At, CharAt, IsText
  <2>2. \A i \in 1..Len(text) : text[i] # Nul
    BY DEF ReadInv
  <2> HIDE DEF s
  <2> QED BY <1>1, <1>2, <2>1, <2>2
<1>4. CASE error
  <2>1. pc' \notin Lexing \cup {"done"} /\ pc' # "done"
    BY <1>1, <1>4 DEF Lexing
  <2> QED BY <1>1, <2>1 DEF ReadInv
<1>5. CASE ~error
  <2>1. Kept => Read(tokens, text, s)
    BY <1>1, ScanRead
  <2>2. s \in Nat \ {0} /\ s <= s
    BY <1>2
  <2>3. Whole(tok)
    <3>1. At(s) \notin Signs
      BY <1>1 DEF Nul, Signs
    <3>2. \A i \in s..s - 1 : At(i) = At(s)
      <4> HIDE DEF s
      <4> QED BY <2>2
    <3>3. "EOF" # "SCALAR"
      OBVIOUS
    <3> HIDE DEF s
    <3> QED BY <2>2, <3>1, <3>2, <3>3, MarkWhole
  <2>4. tok.at = s /\ tok.to = s
    BY DEF Token
  <2> HIDE DEF tok, s
  <2>5. Kept => Read(Append(tokens, tok), text, s)
    BY <2>1, <2>2, <2>3, <2>4, TokensNumbered, WholeSame, ReadOn
  <2>6. pc' = "done" /\ ~error' /\ (Kept' => Kept /\ tokens' = Append(tokens, tok))
    BY <1>1, <1>5, PushLeaves DEF Kept
  <2>7. ReadTo' = s
    BY <1>1, <2>6 DEF ReadTo
  <2> QED BY <1>1, <1>3, <2>5, <2>6, <2>7 DEF ReadInv
<1> QED BY <1>4, <1>5

LEMMA InitRead == Init => ReadInv
<1> SUFFICES ASSUME Init PROVE ReadInv
  OBVIOUS
<1>1. text = <<>> /\ Len(<<>>) = 0 /\ 1..0 = {}
  BY DEF Init
<1>2. IsSeq(text) /\ \A i \in 1..Len(text) : text[i] # Nul
  BY <1>1, EmptyIsSeq
<1>3. pc \notin Lexing \cup {"done"} /\ pc # "done"
  BY DEF Init, Lexing
<1> QED BY <1>2, <1>3 DEF ReadInv

LEMMA GrowCrashRead == ReadInv /\ GrowCrash => ReadInv'
<1> SUFFICES ASSUME ReadInv, GrowCrash PROVE ReadInv'
  OBVIOUS
<1>1. pc' \notin Lexing \cup {"done"} /\ pc' # "done" /\ text' = text
  BY DEF GrowCrash, Lexing
<1> QED BY <1>1 DEF ReadInv

LEMMA NextRead == IInv /\ ReadInv /\ [Next]_vars => ReadInv'
BY LexStartRead, LexMarkerRead, LexOpenRead, LexCloseRead, LexIndicatorRead, LexAnchorRead,
   LexTagRead, LexSingleRead, LexDoubleRead, LexPlainRead, BlockHeaderRead, BlockStepRead,
   BlockEndRead, LexEndRead, GrowCrashRead, ReadStays
   DEF Next, Marks, Scalars, Blocks, Stop

(* LosesNothing: when lex returns, and the array of tokens could grow      *)
(* whenever it was full, the tokens stand in order and apart, each is its  *)
(* value but for its quotes or sign and the blanks behind it, and every    *)
(* other character of the text is blank or in a comment that starts        *)
(* outside every token (skip_ws and the branches of lex).                  *)
THEOREM NothingLost == Spec => []LosesNothing
<1>1. Init => ReadInv
  BY InitRead
<1>2. IInv /\ ReadInv /\ [Next]_vars => ReadInv'
  BY NextRead
<1>3. IInv /\ ReadInv => LosesNothing
  <2> SUFFICES ASSUME IInv, ReadInv, pc = "done", dropped = 0 PROVE
        /\ \A k \in DOMAIN tokens : tokens[k].owned \/ Whole(tokens[k])
        /\ \A k \in 1..Len(tokens) - 1 : tokens[k].to <= tokens[k + 1].at
        /\ \A i \in DOMAIN text : Covered(i) \/ At(i) \in Blank \cup Breaks \/ Comment(i)
    BY Zenon DEF LosesNothing
  <2>1. Read(tokens, text, p) /\ p = Len(text) + 1
    BY DEF ReadInv, ReadTo, Kept
  <2>2. DOMAIN tokens = 1..Len(tokens) /\ DOMAIN text = 1..Len(text) /\ Len(text) \in Nat
    BY SeqDomain DEF IInv, ReadInv
  <2>3. \A k \in DOMAIN tokens : tokens[k].owned \/ Whole(tokens[k])
    BY <2>1, <2>2, WholeSame, Zenon DEF Read
  <2>4. \A k \in 1..Len(tokens) - 1 : tokens[k].to <= tokens[k + 1].at
    BY <2>1, Zenon DEF Read, Apart
  <2>5. \A i : /\ CoveredBy(tokens, i) <=> Covered(i)
               /\ InComment(tokens, text, i) <=> Comment(i)
    BY <2>2, Zenon DEF CoveredBy, Covered, InComment, Comment, At
  <2>6. \A i \in 1..Len(text) : i \in 1..(Len(text) + 1) - 1
    BY <2>2
  <2>7. \A i \in DOMAIN text : Covered(i) \/ At(i) \in Blank \cup Breaks \/ Comment(i)
    BY <2>1, <2>2, <2>5, <2>6, Zenon DEF Read, Known, At
  <2> QED BY <2>3, <2>4, <2>7
<1> QED BY <1>1, <1>2, <1>3, InductiveInvariant, PTL DEF Spec

(***************************************************************************)
(* Quotes.  Paired(a, k, c): of the characters from a on, an even number   *)
(* of c stand right before k.                                              *)
(***************************************************************************)
Paired(a, k, c) ==
  \E m \in Nat : /\ 2 * m <= k - a
                 /\ \A x \in k - 2 * m .. k - 1 : At(x) = c
                 /\ k - 2 * m = a \/ At((k - 2 * m) - 1) # c

LEMMA PairedFirst == ASSUME NEW a \in Nat, NEW c PROVE Paired(a, a, c)
<1>1. 0 \in Nat /\ 2 * 0 <= a - a /\ a - 2 * 0 = a /\ a - 2 * 0 .. a - 1 = {}
  OBVIOUS
<1> QED BY <1>1 DEF Paired

LEMMA PairedOther ==
  ASSUME NEW a \in Nat, NEW k \in Nat, a < k, NEW c, At(k - 1) # c
  PROVE  Paired(a, k, c)
<1>1. 0 \in Nat /\ 2 * 0 <= k - a /\ k - 2 * 0 = k /\ k - 2 * 0 .. k - 1 = {}
  OBVIOUS
<1> QED BY <1>1 DEF Paired

LEMMA PairedTwo ==
  ASSUME NEW a \in Nat, NEW k \in Nat, NEW c, Paired(a, k, c), At(k) = c, At(k + 1) = c
  PROVE  Paired(a, k + 2, c)
<1>1. PICK m \in Nat : /\ 2 * m <= k - a
                       /\ \A x \in k - 2 * m .. k - 1 : At(x) = c
                       /\ k - 2 * m = a \/ At((k - 2 * m) - 1) # c
  BY DEF Paired
<1> DEFINE n == m + 1
<1>2. n \in Nat /\ 2 * n <= (k + 2) - a /\ (k + 2) - 2 * n = k - 2 * m
  BY <1>1
<1>3. \A x \in k - 2 * m .. (k + 2) - 1 : x \in k - 2 * m .. k - 1 \/ x = k \/ x = k + 1
  OBVIOUS
<1>4. \A x \in (k + 2) - 2 * n .. (k + 2) - 1 : At(x) = c
  <2> HIDE DEF n
  <2> QED BY <1>1, <1>2, <1>3
<1> HIDE DEF n
<1> QED BY <1>1, <1>2, <1>4 DEF Paired

(* How many c stand right before i, as QuotesClose counts them. *)
LEMMA RunIs ==
  ASSUME NEW t, NEW i \in Nat \ {0}, NEW c, NEW r \in Nat, r <= i - 1,
         \A k \in i - r .. i - 1 : t[k] = c,
         r = i - 1 \/ t[(i - 1) - r] # c
  PROVE  RunBefore(t, i, c) = r
<1> DEFINE R == {k \in 1..i - 1 : t[k] # c} \cup {0}
           m == (i - 1) - r
<1>1. i - 1 \in Nat /\ R \in SUBSET 0..i - 1 /\ R # {} /\ m \in Nat
  OBVIOUS
<1>2. m \in R /\ \A y \in R : y <= m
  <2>1. m \in R
    BY <1>1
  <2>2. ASSUME NEW y \in R, ~ (y <= m) PROVE FALSE
    <3>1. y \in i - r .. i - 1
      BY <2>2
    <3> QED BY <2>2, <3>1
  <2>3. \A y \in R : y <= m
    BY <2>2
  <2> QED BY <2>1, <2>3
<1>3. Max(R) \in R /\ \A y \in R : y <= Max(R)
  <2> HIDE DEF R
  <2> QED BY <1>1, GreatestOf
<1>4. Max(R) = m
  <2>1. Max(R) <= m /\ m <= Max(R)
    <3> HIDE DEF R, m
    <3> QED BY <1>2, <1>3, Zenon
  <2>2. Max(R) \in Nat
    <3>1. Max(R) \in 0..i - 1
      <4> HIDE DEF R
      <4> QED BY <1>1, <1>3, Zenon
    <3> HIDE DEF R, m
    <3> QED BY <3>1
  <2> HIDE DEF R
  <2> QED BY <1>1, <2>1, <2>2
<1>5. RunBefore(t, i, c) = i - 1 - Max(R)
  BY DEF RunBefore
<1> HIDE DEF R
<1> QED BY <1>4, <1>5

(* The same in a value that starts at a and ends before e. *)
LEMMA PairedRun ==
  ASSUME IsText(text), NEW a \in Nat \ {0}, NEW e \in Nat, a <= e, e <= Len(text) + 1,
         NEW k \in a..e, NEW c, Paired(a, k, c)
  PROVE  LET v == SubSeq(text, a, e - 1)
         IN /\ RunBefore(v, (k - a) + 1, c) % 2 = 0
            /\ k < e /\ At(k) = c => RunBefore(v, (k - a) + 2, c) % 2 = 1
<1> DEFINE v == SubSeq(text, a, e - 1)
           i == (k - a) + 1
<1>0. Len(text) \in Nat /\ DOMAIN text = 1..Len(text)
  BY DEF IsText
<1>1. \A x \in 1..e - a : v[x] = At((a + x) - 1)
  <2>1. e - 1 \in Nat /\ a <= (e - 1) + 1 /\ (e - 1) + 1 - a = e - a
    OBVIOUS
  <2>2. \A x \in 1..(e - 1) + 1 - a : v[x] = text[(a + x) - 1]
    BY <2>1, PartFacts
  <2> HIDE DEF v
  <2>3. ASSUME NEW x \in 1..e - a PROVE v[x] = At((a + x) - 1)
    <3>1. v[x] = text[(a + x) - 1] /\ (a + x) - 1 \in 1..Len(text)
      BY <1>0, <2>1, <2>2
    <3> QED BY <1>0, <3>1 DEF At, CharAt
  <2> QED BY <2>3
<1>2. PICK m \in Nat : /\ 2 * m <= k - a
                       /\ \A x \in k - 2 * m .. k - 1 : At(x) = c
                       /\ k - 2 * m = a \/ At((k - 2 * m) - 1) # c
  BY DEF Paired
<1> HIDE DEF v
<1> DEFINE r == 2 * m
<1>3. r \in Nat /\ r <= k - a /\ r % 2 = 0 /\ (r + 1) % 2 = 1
  BY <1>2
<1>4. /\ \A x \in k - r .. k - 1 : At(x) = c
      /\ k - r = a \/ At((k - r) - 1) # c
  BY <1>2
<1> HIDE DEF r
<1>5. ASSUME NEW x \in i - r .. i - 1 PROVE v[x] = c
  <2>1. x \in 1..e - a /\ (a + x) - 1 \in k - r .. k - 1
    BY <1>3
  <2> QED BY <1>1, <1>4, <2>1
<1>6. r = i - 1 \/ v[(i - 1) - r] # c
  <2> SUFFICES ASSUME r # i - 1 PROVE v[(i - 1) - r] # c
    OBVIOUS
  <2> DEFINE x == (i - 1) - r
  <2>1. x \in 1..e - a /\ (a + x) - 1 = (k - r) - 1 /\ k - r # a
    BY <1>3
  <2> HIDE DEF x
  <2>2. v[x] = At((k - r) - 1)
    BY <1>1, <2>1
  <2> QED BY <1>4, <2>1, <2>2 DEF x
<1>7. i \in Nat \ {0} /\ r <= i - 1
  BY <1>3
<1>8. RunBefore(v, i, c) = r
  <2> HIDE DEF i
  <2> QED BY <1>3, <1>5, <1>6, <1>7, RunIs
<1>9. ASSUME k < e, At(k) = c PROVE RunBefore(v, (k - a) + 2, c) = r + 1
  <2> DEFINE j == (k - a) + 2
             q == r + 1
  <2>1. j \in Nat \ {0} /\ q \in Nat /\ q <= j - 1
    BY <1>3
  <2>2. ASSUME NEW x \in j - q .. j - 1 PROVE v[x] = c
    <3>1. CASE x = i
      <4>1. x \in 1..e - a /\ (a + x) - 1 = k
        BY <1>9, <3>1
      <4> QED BY <1>1, <1>9, <4>1
    <3>2. CASE x # i
      <4>1. x \in i - r .. i - 1
        BY <1>3, <3>2
      <4> QED BY <1>5, <4>1
    <3> QED BY <3>1, <3>2
  <2>3. q = j - 1 <=> r = i - 1
    BY <1>3
  <2>4. (j - 1) - q = (i - 1) - r
    BY <1>3
  <2>5. q = j - 1 \/ v[(j - 1) - q] # c
    BY <1>6, <2>3, <2>4, Zenon
  <2> HIDE DEF j, q
  <2>6. RunBefore(v, j, c) = q
    BY <2>1, <2>2, <2>5, RunIs
  <2> QED BY <2>6 DEF j, q
<1>10. RunBefore(v, (k - a) + 1, c) % 2 = 0
  BY <1>3, <1>8
<1>11. k < e /\ At(k) = c => RunBefore(v, (k - a) + 2, c) % 2 = 1
  BY <1>3, <1>9
<1> QED BY <1>10, <1>11 DEF v

(* The loop over a double-quoted scalar, from a on: next[k] is k + 2 only  *)
(* at an escape, and k + 1 at neither an escape nor a quote.               *)
Escaped(a, k, esc, quo) ==
  \A j \in a..k - 1 : At(j) = quo => j > a /\ At(j - 1) = esc /\ Paired(a, j - 1, esc)

LEMMA EscapedTwo ==
  ASSUME NEW a \in Nat, NEW k \in Nat, a <= k, NEW esc, NEW quo, quo # esc,
         Escaped(a, k, esc, quo), Paired(a, k, esc), At(k) = esc
  PROVE  Escaped(a, k + 2, esc, quo) /\ Paired(a, k + 2, esc)
<1>1. ASSUME NEW j \in a..(k + 2) - 1, At(j) = quo
      PROVE  j > a /\ At(j - 1) = esc /\ Paired(a, j - 1, esc)
  <2>1. j \in a..k - 1 \/ j = k \/ j = k + 1
    OBVIOUS
  <2>2. CASE j \in a..k - 1
    BY <1>1, <2>2 DEF Escaped
  <2>3. CASE j = k
    BY <1>1, <2>3
  <2>4. CASE j = k + 1
    <3>1. j > a /\ j - 1 = k
      BY <2>4
    <3> QED BY <3>1
  <2> QED BY <2>1, <2>2, <2>3, <2>4
<1>2. CASE At(k + 1) = esc
  <2>1. Paired(a, k + 2, esc)
    BY <1>2, PairedTwo
  <2> QED BY <1>1, <2>1 DEF Escaped
<1>3. CASE At(k + 1) # esc
  <2>1. (k + 2) - 1 = k + 1 /\ k + 2 \in Nat /\ a < k + 2
    OBVIOUS
  <2>2. At((k + 2) - 1) # esc
    BY <1>3, <2>1, Zenon
  <2>3. Paired(a, k + 2, esc)
    BY <2>1, <2>2, PairedOther
  <2> QED BY <1>1, <2>3 DEF Escaped
<1> QED BY <1>2, <1>3

LEMMA EscapedOne ==
  ASSUME NEW a \in Nat, NEW k \in Nat, a <= k, NEW esc, NEW quo,
         Escaped(a, k, esc, quo), At(k) # esc, At(k) # quo
  PROVE  Escaped(a, k + 1, esc, quo) /\ Paired(a, k + 1, esc)
<1>1. ASSUME NEW j \in a..(k + 1) - 1, At(j) = quo
      PROVE  j > a /\ At(j - 1) = esc /\ Paired(a, j - 1, esc)
  <2>1. j \in a..k - 1 \/ j = k
    OBVIOUS
  <2>2. j # k
    BY <1>1
  <2> QED BY <1>1, <2>1, <2>2 DEF Escaped
<1>2. Paired(a, k + 1, esc)
  <2>1. k + 1 \in Nat /\ a < k + 1 /\ (k + 1) - 1 = k
    OBVIOUS
  <2>2. At((k + 1) - 1) # esc
    BY <2>1, Zenon
  <2> QED BY <2>1, <2>2, PairedOther
<1> QED BY <1>1, <1>2 DEF Escaped

(* What a turn of the loop does at a character, an escape or a quote. *)
TurnsOver(next, n, esc, quo) ==
  /\ next \in [1..n -> 1..n]
  /\ \A k \in 1..n : next[k] \in {k, k + 1, k + 2}
  /\ \A k \in 1..n : next[k] = k + 1 => At(k) # esc /\ At(k) # quo
  /\ \A k \in 1..n : next[k] = k + 2 => At(k) = esc

LEMMA DoubleLoop ==
  ASSUME NEW n \in Nat, NEW a \in 1..n, NEW esc, NEW quo, quo # esc,
         NEW next, TurnsOver(next, n, esc, quo),
         NEW e, e = Follow(next, a), e # n
  PROVE  e \in a..n - 1 /\ next[e] = e /\ Paired(a, e, esc) /\ Escaped(a, e, esc, quo)
<1> USE DEF TurnsOver
<1> DEFINE Good(k) == Paired(a, k, esc) /\ Escaped(a, k, esc, quo)
           S == {k \in a..n : k # n => Good(k)}
<1>1. ASSUME NEW k \in 1..n PROVE next[k] >= k /\ next[k] \in 1..n
  <2>1. PICK y : y = next[k]
    OBVIOUS
  <2>2. y \in {k, k + 1, k + 2} /\ y \in 1..n
    BY <2>1
  <2>3. k \in Nat /\ y >= k
    BY <2>2
  <2> QED BY <2>1, <2>2, <2>3, Zenon
<1>2. Good(a)
  <2>1. a \in Nat /\ a..a - 1 = {}
    OBVIOUS
  <2> QED BY <2>1, PairedFirst DEF Escaped
<1> HIDE DEF Good
<1>3. ASSUME NEW k \in S PROVE next[k] \in S
  <2>1. k \in Nat /\ a \in Nat /\ a <= k /\ k \in 1..n /\ next[k] \in a..n
    BY <1>1
  <2>2. CASE next[k] = k
    BY <2>2
  <2>3. CASE next[k] # k
    <3>1. k # n
      BY <1>1, <2>3
    <3>2. Paired(a, k, esc) /\ Escaped(a, k, esc, quo)
      BY <3>1 DEF Good
    <3>3. CASE next[k] = k + 1
      <4>1. At(k) # esc /\ At(k) # quo
        BY <2>1, <3>3
      <4>2. Good(k + 1)
        BY <2>1, <3>2, <4>1, EscapedOne DEF Good
      <4> QED BY <2>1, <3>3, <4>2
    <3>4. CASE next[k] = k + 2
      <4>1. At(k) = esc
        BY <2>1, <3>4
      <4>2. Good(k + 2)
        BY <2>1, <3>2, <4>1, EscapedTwo DEF Good
      <4> QED BY <2>1, <3>4, <4>2
    <3> QED BY <2>1, <2>3, <3>3, <3>4
  <2> QED BY <2>2, <2>3
<1>4. a \in S /\ S \in SUBSET 1..n
  BY <1>2
<1>5. e \in S /\ next[e] = e
  <2> HIDE DEF S
  <2> QED BY <1>1, <1>3, <1>4, FollowKeeps
<1>6. e \in a..n - 1 /\ Good(e)
  BY <1>5
<1> QED BY <1>5, <1>6 DEF Good

LEMMA DoubleQuotes ==
  ASSUME IsText(text), NEW a \in 1..Len(text) + 1, NEW e, e = DoubleEnd(a), e <= Len(text) + 1
  PROVE  /\ e \in a..Len(text) + 1 /\ At(e) \in {"\"", Nul}
         /\ Paired(a, e, "\\") /\ Escaped(a, e, "\\", "\"")
<1> DEFINE n == Len(text) + 2
           turn(k) == CASE At(k) = "\\"          -> k + 2
                        [] At(k) \in {"\"", Nul} -> k
                        [] OTHER                 -> k + 1
           next == [k \in 1..n |-> turn(k)]
<1>1. n \in Nat /\ n - 1 = Len(text) + 1 /\ a \in 1..n /\ Len(text) \in Nat
  BY DEF IsText
<1>2. ASSUME NEW k \in 1..n
      PROVE  /\ turn(k) \in 1..n /\ turn(k) \in {k, k + 1, k + 2}
             /\ turn(k) = k + 1 => At(k) # "\\" /\ At(k) \notin {"\"", Nul}
             /\ turn(k) = k + 2 => At(k) = "\\"
             /\ turn(k) = k => At(k) \in {"\"", Nul}
  <2>1. k \in Nat /\ k # k + 1 /\ k # k + 2 /\ k + 1 # k + 2
    OBVIOUS
  <2>2. At(k) # Nul => k <= Len(text)
    BY <1>1, <2>1, InText
  <2>3. CASE At(k) = "\\"
    <3>1. turn(k) = k + 2 /\ At(k) # Nul
      BY <2>3 DEF Nul
    <3> HIDE DEF turn
    <3>2. turn(k) \in 1..n /\ turn(k) \in {k, k + 1, k + 2} /\ turn(k) # k + 1 /\ turn(k) # k
      BY <1>1, <2>2, <3>1
    <3> QED BY <2>3, <3>2, Zenon
  <2>4. CASE At(k) \in {"\"", Nul}
    <3>1. turn(k) = k
      BY <2>4 DEF Nul
    <3> HIDE DEF turn
    <3>2. turn(k) \in 1..n /\ turn(k) \in {k, k + 1, k + 2} /\ turn(k) # k + 1 /\ turn(k) # k + 2
      BY <3>1
    <3> QED BY <2>4, <3>2, Zenon
  <2>5. CASE At(k) # "\\" /\ At(k) \notin {"\"", Nul}
    <3>1. turn(k) = k + 1 /\ At(k) # Nul
      BY <2>5
    <3> HIDE DEF turn
    <3>2. turn(k) \in 1..n /\ turn(k) \in {k, k + 1, k + 2} /\ turn(k) # k /\ turn(k) # k + 2
      BY <1>1, <2>2, <3>1
    <3> QED BY <2>5, <3>2, Zenon
  <2> QED BY <2>3, <2>4, <2>5
<1>3. e = Follow(next, a)
  BY DEF DoubleEnd
<1> HIDE DEF turn
<1>4. /\ next \in [1..n -> 1..n]
      /\ \A k \in 1..n : next[k] = turn(k)
  BY <1>2
<1>5. \A k \in 1..n : next[k] \in {k, k + 1, k + 2}
  BY <1>2, <1>4, Zenon
<1>6. \A k \in 1..n : next[k] = k + 1 => At(k) # "\\" /\ At(k) # "\""
  BY <1>2, <1>4, Zenon
<1>7. \A k \in 1..n : next[k] = k + 2 => At(k) = "\\"
  BY <1>2, <1>4, Zenon
<1>8. e # n
  BY <1>1
<1>9. "\"" # "\\"
  BY Zenon
<1>10. e \in a..n - 1 /\ next[e] = e /\ Paired(a, e, "\\") /\ Escaped(a, e, "\\", "\"")
  <2> DEFINE esc == "\\"
             quo == "\""
  <2>1. quo # esc
    BY <1>9
  <2>2. TurnsOver(next, n, esc, quo)
    <3> HIDE DEF next, n
    <3> QED BY <1>4, <1>5, <1>6, <1>7 DEF TurnsOver
  <2> HIDE DEF next, n, esc, quo
  <2>3. e \in a..n - 1 /\ next[e] = e /\ Paired(a, e, esc) /\ Escaped(a, e, esc, quo)
    BY <1>1, <1>3, <1>8, <2>1, <2>2, DoubleLoop, Zenon
  <2> QED BY <2>3 DEF esc, quo
<1>11. e \in 1..n
  <2>1. e \in a..n - 1
    BY <1>10, Zenon
  <2> HIDE DEF n, next
  <2> QED BY <1>1, <2>1
<1>12. At(e) \in {"\"", Nul}
  <2>1. turn(e) = e
    BY <1>4, <1>10, <1>11, Zenon
  <2> QED BY <1>2, <1>11, <2>1, Zenon
<1>13. e \in a..Len(text) + 1
  <2>1. e \in a..n - 1
    BY <1>10
  <2> HIDE DEF n
  <2> QED BY <1>1, <2>1, Zenon
<1> QED BY <1>10, <1>12, <1>13, Zenon

(* The loop over a single-quoted scalar. *)
LEMMA SingleQuotes ==
  ASSUME IsText(text), NEW a \in 1..Len(text) + 1
  PROVE  LET e == SingleEnd(a)
         IN /\ At(e) = Nul \/ (At(e) = "'" /\ At(e + 1) # "'")
            /\ \A j \in a..e : j = e \/ At(j) # "'" => Paired(a, j, "'")
<1> DEFINE n == Len(text) + 1
           turn(k) == CASE At(k) = "'" /\ At(k + 1) = "'" -> k + 2
                        [] At(k) = "'" /\ At(k + 1) # "'" -> k
                        [] At(k) = Nul                    -> k
                        [] OTHER                          -> k + 1
           next == [k \in 1..n |-> turn(k)]
           S == {k \in a..n : \A j \in a..k : j = k \/ At(j) # "'" => Paired(a, j, "'")}
           e == SingleEnd(a)
<1>1. n \in Nat /\ a \in Nat \ {0} /\ Len(text) \in Nat
  BY DEF IsText
<1>2. ASSUME NEW k \in 1..n
      PROVE  /\ At(k) = "'" /\ At(k + 1) = "'" => turn(k) = k + 2 /\ k + 2 <= n
             /\ At(k) = "'" /\ At(k + 1) # "'" => turn(k) = k
             /\ At(k) = Nul => turn(k) = k
             /\ At(k) # "'" /\ At(k) # Nul => turn(k) = k + 1 /\ k + 1 <= n
  <2>1. k \in Nat /\ k + 1 \in Nat
    OBVIOUS
  <2>2. At(k) # Nul => k + 1 <= n
    BY <1>1, <2>1, InText
  <2>3. At(k + 1) # Nul => k + 2 <= n
    BY <1>1, <2>1, InText
  <2>4. At(k + 1) = "'" => At(k + 1) # Nul
    BY DEF Nul
  <2>5. At(k) = Nul => At(k) # "'"
    BY DEF Nul
  <2>6. CASE At(k) = "'" /\ At(k + 1) = "'"
    <3>1. turn(k) = k + 2
      BY <2>6 DEF Nul
    <3> HIDE DEF turn
    <3> QED BY <2>3, <2>4, <2>5, <2>6, <3>1
  <2>7. CASE At(k) = "'" /\ At(k + 1) # "'"
    <3>1. turn(k) = k
      BY <2>7 DEF Nul
    <3> HIDE DEF turn
    <3> QED BY <2>5, <2>7, <3>1
  <2>8. CASE At(k) = Nul
    <3>1. turn(k) = k
      BY <2>8 DEF Nul
    <3> HIDE DEF turn
    <3> QED BY <2>5, <2>8, <3>1
  <2>9. CASE At(k) # "'" /\ At(k) # Nul
    <3>1. turn(k) = k + 1
      BY <2>9
    <3> HIDE DEF turn
    <3> QED BY <2>2, <2>9, <3>1
  <2> QED BY <2>6, <2>7, <2>8, <2>9
<1>3. SingleEnd(a) = Follow(next, a)
  BY DEF SingleEnd
<1> HIDE DEF turn
<1>4. \A k \in 1..n : turn(k) \in k..n
  BY <1>1, <1>2
<1>5. a \in S
  <2>1. a \in a..n /\ \A j \in a..a : j = a
    BY <1>1
  <2>2. Paired(a, a, "'")
    BY <1>1, PairedFirst
  <2> QED BY <2>1, <2>2
<1>6. ASSUME NEW k \in S PROVE turn(k) \in S
  <2>1. /\ k \in a..n /\ k \in 1..n /\ k \in Nat /\ Paired(a, k, "'")
        /\ \A j \in a..k : j = k \/ At(j) # "'" => Paired(a, j, "'")
    BY <1>1
  <2> HIDE DEF S
  <2>2. CASE At(k) = "'" /\ At(k + 1) = "'"
    <3>1. turn(k) = k + 2 /\ k + 2 \in a..n
      BY <1>1, <1>2, <2>1, <2>2
    <3>2. Paired(a, k + 2, "'")
      BY <1>1, <2>1, <2>2, PairedTwo
    <3>3. \A j \in a..k + 2 : j = k + 2 \/ At(j) # "'" => Paired(a, j, "'")
      <4> TAKE j \in a..k + 2
      <4> HAVE j = k + 2 \/ At(j) # "'"
      <4>1. j \in a..k \/ j = k + 1 \/ j = k + 2
        BY <2>1
      <4> QED BY <2>1, <2>2, <3>2, <4>1
    <3> QED BY <3>1, <3>3 DEF S
  <2>3. CASE (At(k) = "'" /\ At(k + 1) # "'") \/ At(k) = Nul
    <3>1. turn(k) = k
      BY <1>2, <2>1, <2>3
    <3> QED BY <1>6, <3>1
  <2>4. CASE At(k) # "'" /\ At(k) # Nul
    <3>1. turn(k) = k + 1 /\ k + 1 \in a..n /\ (k + 1) - 1 = k
      BY <1>1, <1>2, <2>1, <2>4
    <3>2. Paired(a, k + 1, "'")
      <4>1. k + 1 \in Nat /\ a < k + 1 /\ At((k + 1) - 1) # "'"
        BY <1>1, <2>1, <2>4, <3>1
      <4> QED BY <1>1, <4>1, PairedOther
    <3>3. \A j \in a..k + 1 : j = k + 1 \/ At(j) # "'" => Paired(a, j, "'")
      <4> TAKE j \in a..k + 1
      <4> HAVE j = k + 1 \/ At(j) # "'"
      <4>1. j \in a..k \/ j = k + 1
        BY <2>1
      <4> QED BY <2>1, <3>2, <4>1
    <3> QED BY <3>1, <3>3 DEF S
  <2> QED BY <2>2, <2>3, <2>4
<1>7. /\ next \in [1..n -> 1..n] /\ \A k \in 1..n : next[k] >= k
      /\ S \in SUBSET 1..n /\ \A k \in S : k \in 1..n
  BY <1>1, <1>4
<1>8. \A k \in S : next[k] \in S
  BY <1>6, <1>7
<1>9. Follow(next, a) \in S /\ next[Follow(next, a)] = Follow(next, a)
  <2> HIDE DEF next, S, n
  <2> QED BY <1>1, <1>5, <1>7, <1>8, FollowKeeps
<1>10. e \in S /\ e \in 1..n /\ turn(e) = e
  BY <1>3, <1>7, <1>9
<1>11. At(e) = Nul \/ (At(e) = "'" /\ At(e + 1) # "'")
  <2>1. e \in Nat /\ turn(e) # e + 1 /\ turn(e) # e + 2
    <3> HIDE DEF e, S
    <3> QED BY <1>10
  <2> HIDE DEF e
  <2> QED BY <1>2, <1>10, <2>1
<1> QED BY <1>10, <1>11

(* What a value read by one of the loops looks like to QuotesClose. *)
LEMMA ValueAt ==
  ASSUME IsText(text), NEW a \in Nat \ {0}, NEW e \in a..Len(text) + 1
  PROVE  LET v == SubSeq(text, a, e - 1)
         IN /\ Len(v) = e - a /\ DOMAIN v = 1..e - a
            /\ \A i \in 1..e - a : v[i] = At((a + i) - 1)
<1> DEFINE v == SubSeq(text, a, e - 1)
<1>1. e - 1 \in Nat /\ a <= (e - 1) + 1 /\ (e - 1) + 1 - a = e - a
  BY DEF IsText
<1>2. Len(v) = e - a /\ IsSeq(v) /\ \A i \in 1..e - a : v[i] = text[(a + i) - 1]
  <2>1. /\ Len(v) = (e - 1) + 1 - a /\ IsSeq(v)
        /\ \A i \in 1..(e - 1) + 1 - a : v[i] = text[(a + i) - 1]
    BY <1>1, PartFacts, Zenon
  <2> HIDE DEF v
  <2> QED BY <1>1, <2>1
<1> HIDE DEF v
<1>3. \A i \in 1..e - a : (a + i) - 1 \in DOMAIN text
  BY DEF IsText
<1>4. DOMAIN v = 1..e - a
  BY <1>2, SeqDomain
<1>5. \A i \in 1..e - a : v[i] = At((a + i) - 1)
  BY <1>2, <1>3, Zenon DEF At, CharAt
<1> QED BY <1>2, <1>4, <1>5, Zenon DEF v

LEMMA DoubleRuns ==
  ASSUME IsText(text), NEW a \in Nat \ {0}, NEW e \in a..Len(text) + 1, NEW esc, NEW quo,
         Paired(a, e, esc), Escaped(a, e, esc, quo), NEW v, v = SubSeq(text, a, e - 1)
  PROVE  /\ \A i \in DOMAIN v : v[i] = quo => RunBefore(v, i, esc) % 2 = 1
         /\ RunBefore(v, Len(v) + 1, esc) % 2 = 0
<1>1. Len(v) = e - a /\ DOMAIN v = 1..e - a /\ \A i \in 1..e - a : v[i] = At((a + i) - 1)
  BY ValueAt
<1>2. e \in Nat /\ a <= e /\ e <= Len(text) + 1 /\ e \in a..e
  BY DEF IsText
<1>3. RunBefore(v, Len(v) + 1, esc) % 2 = 0
  BY <1>1, <1>2, PairedRun
<1>4. ASSUME NEW i \in DOMAIN v, v[i] = quo
      PROVE  RunBefore(v, i, esc) % 2 = 1
  <2> DEFINE j == (a + i) - 1
             k == j - 1
  <2>1. i \in 1..e - a
    BY <1>1
  <2>2. j \in a..e - 1 /\ At(j) = quo
    <3>1. v[i] = At(j)
      BY <1>1, <2>1
    <3>2. j \in a..e - 1
      BY <1>2, <2>1
    <3> QED BY <1>4, <3>1, <3>2, Zenon
  <2>3. j > a /\ At(k) = esc /\ Paired(a, k, esc)
    BY <2>2 DEF Escaped
  <2>4. k \in a..e /\ k < e /\ (k - a) + 2 = i
    BY <1>2, <2>1, <2>3
  <2> HIDE DEF k, j
  <2>5. RunBefore(v, (k - a) + 2, esc) % 2 = 1
    BY <1>2, <2>3, <2>4, PairedRun
  <2> QED BY <2>4, <2>5
<1> QED BY <1>3, <1>4

LEMMA SingleRuns ==
  ASSUME IsText(text), NEW a \in Nat \ {0}, NEW e \in a..Len(text) + 1, NEW c,
         \A j \in a..e : j = e \/ At(j) # c => Paired(a, j, c),
         NEW v, v = SubSeq(text, a, e - 1)
  PROVE  \A i \in 1..Len(v) + 1 : CharAt(v, i) # c => RunBefore(v, i, c) % 2 = 0
<1>1. Len(v) = e - a /\ DOMAIN v = 1..e - a /\ \A i \in 1..e - a : v[i] = At((a + i) - 1)
  BY ValueAt
<1>2. e \in Nat /\ a <= e /\ e <= Len(text) + 1
  BY DEF IsText
<1> SUFFICES ASSUME NEW i \in 1..Len(v) + 1, CharAt(v, i) # c
             PROVE  RunBefore(v, i, c) % 2 = 0
  OBVIOUS
<1> DEFINE j == (a + i) - 1
<1>3. i \in 1..(e - a) + 1 /\ j \in a..e /\ (j - a) + 1 = i /\ (j = e \/ i \in 1..e - a)
  BY <1>1, <1>2
<1>4. j = e \/ At(j) # c
  <2>1. i \in 1..e - a => CharAt(v, i) = At(j)
    BY <1>1 DEF CharAt
  <2> HIDE DEF j
  <2> QED BY <1>3, <2>1
<1> HIDE DEF j
<1>5. Paired(a, j, c)
  BY <1>3, <1>4
<1>6. RunBefore(v, (j - a) + 1, c) % 2 = 0
  BY <1>2, <1>3, <1>5, PairedRun
<1> QED BY <1>3, <1>6

(***************************************************************************)
(* QuotesClose, token by token.                                            *)
(***************************************************************************)
Closed(tok) == tok.to = tok.at + Len(tok.val) + 2
DoubleIn(tok) ==
  /\ \A i \in DOMAIN tok.val : tok.val[i] = "\"" => RunBefore(tok.val, i, "\\") % 2 = 1
  /\ Closed(tok) => RunBefore(tok.val, Len(tok.val) + 1, "\\") % 2 = 0
SingleIn(tok, t) == Closed(tok) => QuotesPaired(tok.val) /\ CharAt(t, tok.to) # "'"
QuoteIn(tok, t, strayed) ==
  /\ tok.style = "double" /\ ~strayed => DoubleIn(tok)
  /\ tok.style = "single" => SingleIn(tok, t)
  /\ tok.style \in {"single", "double"} /\ ~Closed(tok) /\ ~strayed => tok.to = Len(t) + 1

QuoteInv == \A k \in 1..Len(tokens) : QuoteIn(tokens[k], text, pc = "astray")

LEMMA NoQuote ==
  ASSUME NEW tok, tok.style \notin {"single", "double"}, NEW b
  PROVE  QuoteIn(tok, text, b)
<1>1. tok.style # "single" /\ tok.style # "double"
  OBVIOUS
<1> QED BY <1>1, Zenon DEF QuoteIn

LEMMA QuotesStay ==
  ASSUME QuoteInv, UNCHANGED <<tokens, text>>, pc = "astray" => pc' = "astray"
  PROVE  QuoteInv'
<1> SUFFICES ASSUME NEW k \in 1..Len(tokens) PROVE QuoteIn(tokens[k], text, pc' = "astray")
  BY DEF QuoteInv
<1>1. QuoteIn(tokens[k], text, pc = "astray")
  BY DEF QuoteInv
<1> QED BY <1>1, Zenon DEF QuoteIn

LEMMA QuotesOn ==
  ASSUME IInv, QuoteInv, pc # "astray", NEW tok, text' = text,
         tokens' \in {tokens, Append(tokens, tok)}, QuoteIn(tok, text, pc' = "astray")
  PROVE  QuoteInv'
<1> SUFFICES ASSUME tokens' = Append(tokens, tok) PROVE QuoteInv'
  BY QuotesStay
<1>1. /\ Len(tokens') = Len(tokens) + 1 /\ Len(tokens) \in Nat
      /\ \A i \in 1..Len(tokens) : tokens'[i] = tokens[i]
      /\ tokens'[Len(tokens) + 1] = tok
  BY SeqAppend, SeqDomain DEF IInv
<1> SUFFICES ASSUME NEW k \in 1..Len(tokens') PROVE QuoteIn(tokens'[k], text', pc' = "astray")
  BY DEF QuoteInv
<1>2. CASE k = Len(tokens) + 1
  BY <1>1, <1>2, Zenon
<1>3. CASE k # Len(tokens) + 1
  <2>1. k \in 1..Len(tokens)
    BY <1>1, <1>3
  <2>2. QuoteIn(tokens[k], text, pc = "astray")
    BY <2>1 DEF QuoteInv
  <2>3. QuoteIn(tokens[k], text, pc' = "astray")
    BY <2>2, Zenon DEF QuoteIn
  <2> QED BY <1>1, <2>1, <2>3, Zenon
<1> QED BY <1>2, <1>3

(* A token in another style. *)
LEMMA LexedQuotes ==
  ASSUME IInv, QuoteInv, pc = "scan", NEW type, NEW s, NEW i, NEW val,
         Lexed(type, s, i, val, "plain")
  PROVE  QuoteInv'
<1> DEFINE tok == Token(type, PlaceAt(s), s, i, val, "plain", FALSE)
<1>1. tokens' \in {tokens, Append(tokens, tok)} /\ text' = text /\ tok.style = "plain"
  BY PushLeaves DEF Lexed, Token
<1> HIDE DEF tok
<1>2. QuoteIn(tok, text, pc' = "astray")
  <2>1. tok.style \notin {"single", "double"}
    BY <1>1
  <2> QED BY <2>1, NoQuote
<1>3. pc # "astray"
  OBVIOUS
<1> QED BY <1>1, <1>2, <1>3, QuotesOn

LEMMA MarkQuotes ==
  ASSUME IInv, QuoteInv, pc = "scan", NEW type, NEW s, NEW n, Mark(type, s, n)
  PROVE  QuoteInv'
BY LexedQuotes DEF Mark

LEMMA PlainTokensQuotes ==
  IInv /\ QuoteInv /\ (Marks \/ lex_anchor_alias \/ lex_tag \/ lex_plain) => QuoteInv'
<1> SUFFICES ASSUME IInv, QuoteInv, Marks \/ lex_anchor_alias \/ lex_tag \/ lex_plain
             PROVE  QuoteInv'
  OBVIOUS
<1>1. CASE LexMarker
  BY <1>1, MarkQuotes DEF LexMarker
<1>2. CASE LexOpen
  BY <1>2, MarkQuotes DEF LexOpen
<1>3. CASE LexClose
  BY <1>3, MarkQuotes DEF LexClose
<1>4. CASE LexIndicator
  BY <1>4, MarkQuotes DEF LexIndicator
<1>5. CASE lex_anchor_alias
  BY <1>5, LexedQuotes DEF lex_anchor_alias
<1>6. CASE lex_tag
  BY <1>6, LexedQuotes DEF lex_tag
<1>7. CASE lex_plain
  <2>1. \/ UNCHANGED vars
        \/ /\ pc = "scan"
           /\ Lexed("SCALAR", Start, PlainEnd(Start), Trimmed(Slice(Start, PlainEnd(Start))), "plain")
    BY <1>7, Zenon DEF lex_plain
  <2>2. UNCHANGED vars => QuoteInv'
    BY QuotesStay DEF vars
  <2> QED BY <2>1, <2>2, LexedQuotes, Zenon
<1> QED BY <1>1, <1>2, <1>3, <1>4, <1>5, <1>6, <1>7 DEF Marks

(* A quoted scalar ends in its text's quote, or with the text. *)
LEMMA QuotedToken ==
  ASSUME IsText(text), \A x \in 1..Len(text) : text[x] # Nul,
         NEW s \in 1..Len(text), NEW i \in s + 1..Len(text) + 1, NEW q,
         At(i) \in {q, Nul},
         NEW tok, tok.at = s, tok.to = PastQuote(i, q), tok.val = Slice(s + 1, i)
  PROVE  /\ tok.val = SubSeq(text, s + 1, i - 1) /\ Len(tok.val) = i - (s + 1)
         /\ Closed(tok) => tok.to = i + 1
         /\ ~Closed(tok) => tok.to = Len(text) + 1
<1>1. Len(text) \in Nat /\ DOMAIN text = 1..Len(text)
  BY DEF IsText
<1>2. tok.val = SubSeq(text, s + 1, i - 1) /\ Len(tok.val) = i - (s + 1)
  <2>1. s + 1 \in Nat \ {0} /\ i \in Nat /\ s + 1 <= i /\ i <= Len(text) + 1
    BY <1>1
  <2> QED BY <2>1, SliceFacts
<1>3. Closed(tok) <=> tok.to = i + 1
  <2> DEFINE m == Len(tok.val)
  <2>1. m = i - (s + 1)
    BY <1>2
  <2> HIDE DEF m
  <2>2. (s + m) + 2 = i + 1
    BY <1>1, <2>1
  <2> QED BY <2>2 DEF Closed, m
<1>4. ASSUME tok.to # i + 1 PROVE tok.to = Len(text) + 1
  <2>1. At(i) # q /\ tok.to = i
    BY <1>4 DEF PastQuote
  <2>2. At(i) = Nul
    BY <2>1
  <2>3. i \in 1..Len(text) => At(i) = text[i]
    BY <1>1 DEF At, CharAt
  <2>4. i \notin 1..Len(text)
    BY <2>2, <2>3
  <2>5. i = Len(text) + 1
    BY <1>1, <2>4
  <2> QED BY <2>1, <2>5
<1> QED BY <1>2, <1>3, <1>4

LEMMA LexSingleQuotes == IInv /\ ReadInv /\ QuoteInv /\ lex_single_quoted => QuoteInv'
<1> SUFFICES ASSUME IInv, ReadInv, QuoteInv, lex_single_quoted PROVE QuoteInv'
  OBVIOUS
<1> DEFINE s == Start
           i == SingleEnd(s + 1)
           tok == Token("SCALAR", PlaceAt(s), s, PastQuote(i, "'"), Slice(s + 1, i), "single", FALSE)
<1>1. /\ pc = "scan" /\ pc' = "scan" /\ At(s) = "'"
      /\ tokens' \in {tokens, Append(tokens, tok)} /\ text' = text
  BY PushLeaves DEF lex_single_quoted, Lexed
<1>2. /\ tok.at = s /\ tok.to = PastQuote(i, "'") /\ tok.val = Slice(s + 1, i)
      /\ tok.style = "single"
  BY DEF Token
<1> HIDE DEF tok
<1>3. IsText(text) /\ s \in 1..Len(text) /\ Len(text) \in Nat
  <2>1. At(s) # Nul
    BY <1>1 DEF Nul
  <2> QED BY <1>1, <2>1, StartInText
<1>4. s + 1 \in 1..Len(text) + 1 /\ s + 1 \in Nat \ {0}
  <2> HIDE DEF s
  <2> QED BY <1>3
<1>5. i \in s + 1..Len(text) + 1
  <2> HIDE DEF s
  <2> QED BY <1>3, <1>4, SingleEndFacts
<1>6. /\ At(i) = Nul \/ (At(i) = "'" /\ At(i + 1) # "'")
      /\ \A j \in s + 1..i : j = i \/ At(j) # "'" => Paired(s + 1, j, "'")
  BY <1>3, <1>4, SingleQuotes, Zenon
<1> HIDE DEF s, i
<1>7. \A x \in 1..Len(text) : text[x] # Nul
  BY DEF ReadInv
<1>8. At(i) \in {"'", Nul}
  BY <1>6, Zenon
<1>9. /\ tok.val = SubSeq(text, s + 1, i - 1)
      /\ Closed(tok) => tok.to = i + 1
      /\ ~Closed(tok) => tok.to = Len(text) + 1
  BY <1>2, <1>3, <1>5, <1>7, <1>8, QuotedToken
<1>10. QuotesPaired(tok.val)
  <2>1. \A x \in 1..Len(tok.val) + 1 :
          CharAt(tok.val, x) # "'" => RunBefore(tok.val, x, "'") % 2 = 0
    BY <1>3, <1>4, <1>5, <1>6, <1>9, SingleRuns
  <2> QED BY <2>1, Zenon DEF QuotesPaired
<1>11. Closed(tok) => CharAt(text, tok.to) # "'"
  <2> SUFFICES ASSUME Closed(tok) PROVE At(i + 1) # "'"
    BY <1>9, Zenon DEF At
  <2>1. (i \in Nat /\ i + 1 <= Len(text) + 1) \/ At(i + 1) # "'"
    <3>1. i + 1 \in Nat /\ i \in Nat
      BY <1>3, <1>5
    <3>2. At(i + 1) # Nul => i + 1 \in 1..Len(text)
      BY <1>3, <3>1, InText
    <3>3. At(i + 1) = Nul => At(i + 1) # "'"
      BY DEF Nul
    <3>4. i + 1 \in 1..Len(text) => i + 1 <= Len(text) + 1
      BY <1>3
    <3> QED BY <3>1, <3>2, <3>3, <3>4, Zenon
  <2>2. At(i) = "'" => At(i + 1) # "'"
    <3>1. At(i) = Nul => At(i) # "'"
      BY DEF Nul
    <3> QED BY <1>6, <3>1, Zenon
  <2>3. At(i) = Nul => tok.to = i
    <3>1. At(i) = Nul => At(i) # "'"
      BY DEF Nul
    <3> QED BY <1>2, <3>1, Zenon DEF PastQuote
  <2>4. tok.to = i + 1 /\ i + 1 # i
    <3>1. i + 1 # i
      BY <1>3, <1>5
    <3> QED BY <1>9, <3>1, Zenon
  <2> QED BY <1>8, <2>2, <2>3, <2>4, Zenon
<1>12. QuoteIn(tok, text, pc' = "astray")
  <2>1. tok.style # "double"
    BY <1>2
  <2> QED BY <1>9, <1>10, <1>11, <2>1, Zenon DEF QuoteIn, SingleIn
<1>13. pc # "astray"
  BY <1>1
<1> QED BY <1>1, <1>12, <1>13, QuotesOn

LEMMA LexDoubleQuotes == IInv /\ ReadInv /\ QuoteInv /\ lex_double_quoted => QuoteInv'
<1> SUFFICES ASSUME IInv, ReadInv, QuoteInv, lex_double_quoted PROVE QuoteInv'
  OBVIOUS
<1> DEFINE s == Start
           i == DoubleEnd(s + 1)
           tok == Token("SCALAR", PlaceAt(s), s, PastQuote(i, "\""), Slice(s + 1, i), "double", FALSE)
<1>1. /\ pc = "scan" /\ At(s) = "\""
      /\ tokens' \in {tokens, Append(tokens, tok)} /\ text' = text
      /\ i > Len(text) + 1 => pc' = "astray"
  BY PushLeaves DEF lex_double_quoted, Lexed
<1>2. /\ tok.at = s /\ tok.to = PastQuote(i, "\"") /\ tok.val = Slice(s + 1, i)
      /\ tok.style = "double"
  BY DEF Token
<1> HIDE DEF tok
<1>3. tok.style # "single"
  BY <1>2
<1>4. CASE pc' = "astray"
  <2>1. QuoteIn(tok, text, pc' = "astray")
    BY <1>3, <1>4, Zenon DEF QuoteIn
  <2>2. pc # "astray"
    BY <1>1
  <2> QED BY <1>1, <2>1, <2>2, QuotesOn
<1>5. CASE pc' # "astray"
  <2>1. IsText(text) /\ s \in 1..Len(text) /\ Len(text) \in Nat
    <3>1. At(s) # Nul
      BY <1>1 DEF Nul
    <3> QED BY <1>1, <3>1, StartInText
  <2>2. s + 1 \in 1..Len(text) + 1 /\ s + 1 \in Nat \ {0}
    <3> HIDE DEF s
    <3> QED BY <2>1
  <2>3. i \in s + 1..Len(text) + 2
    <3> HIDE DEF s
    <3> QED BY <2>1, <2>2, DoubleEndFacts
  <2>4. i <= Len(text) + 1
    <3>1. ~ (i > Len(text) + 1)
      BY <1>1, <1>5, Zenon
    <3> HIDE DEF i, s
    <3> QED BY <2>1, <2>3, <3>1
  <2>5. /\ i \in s + 1..Len(text) + 1 /\ At(i) \in {"\"", Nul}
        /\ Paired(s + 1, i, "\\") /\ Escaped(s + 1, i, "\\", "\"")
    <3>1. /\ i \in s + 1..Len(text) + 1 /\ At(i) \in {"\"", Nul}
          /\ Paired(s + 1, i, "\\") /\ Escaped(s + 1, i, "\\", "\"")
      BY <2>1, <2>2, <2>4, DoubleQuotes, Zenon
    <3> QED BY <3>1, Zenon
  <2> HIDE DEF s, i
  <2>6. \A x \in 1..Len(text) : text[x] # Nul
    BY DEF ReadInv
  <2>7. /\ tok.val = SubSeq(text, s + 1, i - 1)
        /\ ~Closed(tok) => tok.to = Len(text) + 1
    <3>1. PICK q : q = "\""
      OBVIOUS
    <3>2. i \in s + 1..Len(text) + 1 /\ At(i) \in {q, Nul}
      BY <2>5, <3>1, Zenon
    <3>3. tok.at = s /\ tok.to = PastQuote(i, q) /\ tok.val = Slice(s + 1, i)
      BY <1>2, <3>1, Zenon
    <3> QED BY <2>1, <2>6, <3>2, <3>3, QuotedToken
  <2>8. DoubleIn(tok)
    <3>1. /\ \A x \in DOMAIN tok.val :
               tok.val[x] = "\"" => RunBefore(tok.val, x, "\\") % 2 = 1
          /\ RunBefore(tok.val, Len(tok.val) + 1, "\\") % 2 = 0
      BY <2>1, <2>2, <2>5, <2>7, DoubleRuns, Zenon
    <3> QED BY <3>1, Zenon DEF DoubleIn
  <2>9. QuoteIn(tok, text, pc' = "astray")
    BY <1>3, <2>7, <2>8, Zenon DEF QuoteIn
  <2>10. pc # "astray"
    BY <1>1
  <2> QED BY <1>1, <2>9, <2>10, QuotesOn
<1> QED BY <1>4, <1>5

(* A block scalar's token, whole or given up. *)
LEMMA BlockQuotes ==
  ASSUME IInv, QuoteInv, pc # "astray", pc' # "astray", text' = text, NEW tok,
         tok.style \in {"literal", "folded"}, tokens' \in {tokens, Append(tokens, tok)}
  PROVE  QuoteInv'
<1>1. tok.style \notin {"single", "double"}
  OBVIOUS
<1>2. QuoteIn(tok, text, pc' = "astray")
  BY <1>1, NoQuote
<1> QED BY <1>2, QuotesOn

LEMMA BlockHeaderQuotes == IInv /\ QuoteInv /\ BlockHeader => QuoteInv'
<1> SUFFICES ASSUME IInv, QuoteInv, BlockHeader PROVE QuoteInv'
  OBVIOUS
<1> DEFINE s == Start
           tok == Token("SCALAR", PlaceAt(s), s, HeaderEnd(s).to, <<>>, BlockStyle(s), FALSE)
<1>1. /\ pc = "scan" /\ text' = text /\ pc' \in {"block", "scan"}
      /\ tokens' \in {tokens, Append(tokens, tok)}
  BY PushLeaves DEF BlockHeader, NoPush
<1>2. tok.style \in {"literal", "folded"}
  BY DEF Token, BlockStyle
<1> HIDE DEF tok
<1>3. pc # "astray" /\ pc' # "astray"
  BY <1>1
<1> QED BY <1>1, <1>2, <1>3, BlockQuotes

LEMMA AppendedQuotes ==
  ASSUME IInv, QuoteInv, pc \in {"block", "text"}, Body,
         NEW cs, NEW n, NEW q, NEW i, NEW l \in {"block", "text"}, Appended(cs, n, q, i, l)
  PROVE  QuoteInv'
<1> DEFINE tok == Token("SCALAR", [line |-> blk.line, col |-> blk.col], blk.at, p', <<>>,
                        blk.style, FALSE)
<1>1. text' = text /\ pc # "astray" /\ pc' # "astray" /\ tokens' \in {tokens, Append(tokens, tok)}
  BY PushLeaves DEF Body, Appended, GiveUp, NoPush
<1>2. tok.style \in {"literal", "folded"}
  <2>1. blk.style \in {"literal", "folded"}
    BY BlockFacts DEF BlockOK
  <2> QED BY <2>1 DEF Token
<1> HIDE DEF tok
<1> QED BY <1>1, <1>2, BlockQuotes

LEMMA BlockStepQuotes ==
  IInv /\ QuoteInv /\ (BlockBlank \/ BlockIndent \/ BlockChar \/ BlockNewline) => QuoteInv'
<1> SUFFICES ASSUME IInv, QuoteInv, BlockBlank \/ BlockIndent \/ BlockChar \/ BlockNewline
             PROVE  QuoteInv'
  OBVIOUS
<1>1. Body /\ pc \in {"block", "text"}
  BY DEF BlockBlank, BlockIndent, BlockChar, BlockNewline
<1>2. CASE BlockBlank
  <2> DEFINE q == p + Spaces(p)
  <2>1. Appended(<<"\n">>, 1, q, PastBreak(q), "block")
    BY <1>2 DEF BlockBlank
  <2> QED BY <1>1, <2>1, AppendedQuotes
<1>3. CASE BlockIndent
  <2> DEFINE q == p + Spaces(p)
             extra == Spaces(p) - blk.base
  <2>1. Appended([k \in 1..extra |-> " "], extra + 1, q, q, "text")
    BY <1>3 DEF BlockIndent
  <2> QED BY <1>1, <2>1, AppendedQuotes
<1>4. CASE BlockChar
  <2>1. Appended(<<At(p)>>, 1, p, p + 1, "text")
    BY <1>4 DEF BlockChar
  <2> QED BY <1>1, <2>1, AppendedQuotes
<1>5. CASE BlockNewline
  <2>1. Appended(<<"\n">>, 1, p, PastBreak(p), "block")
    BY <1>5 DEF BlockNewline
  <2> QED BY <1>1, <2>1, AppendedQuotes
<1> QED BY <1>2, <1>3, <1>4, <1>5

LEMMA BlockEndQuotes == IInv /\ QuoteInv /\ BlockEnd => QuoteInv'
<1> SUFFICES ASSUME IInv, QuoteInv, BlockEnd PROVE QuoteInv'
  OBVIOUS
<1> DEFINE tok == Token("SCALAR", [line |-> blk.line, col |-> blk.col], blk.at, p,
                        Chomped(blk.buf, blk.chomp), blk.style, TRUE)
<1>1. /\ pc = "block" /\ text' = text /\ pc' = "scan"
      /\ tokens' \in {tokens, Append(tokens, tok)}
  BY PushLeaves DEF BlockEnd, Body
<1>2. tok.style \in {"literal", "folded"}
  <2>1. blk.style \in {"literal", "folded"}
    BY <1>1, BlockFacts DEF BlockOK
  <2> QED BY <2>1 DEF Token
<1> HIDE DEF tok
<1>3. pc # "astray" /\ pc' # "astray"
  BY <1>1
<1> QED BY <1>1, <1>2, <1>3, BlockQuotes

LEMMA NoTokenQuotes == tokens = <<>> => QuoteInv
<1>1. Len(<<>>) = 0 /\ 1..0 = {}
  OBVIOUS
<1> QED BY <1>1 DEF QuoteInv

LEMMA LexEndQuotes == IInv /\ QuoteInv /\ LexEnd => QuoteInv'
<1> SUFFICES ASSUME IInv, QuoteInv, LexEnd PROVE QuoteInv'
  OBVIOUS
<1> DEFINE s == Start
           tok == Token("EOF", PlaceAt(s), s, s, <<>>, "plain", FALSE)
<1>1. /\ pc = "scan" /\ text' = text
      /\ tokens' = <<>> \/ tokens' \in {tokens, Append(tokens, tok)}
  BY PushLeaves DEF LexEnd
<1>2. tok.style \notin {"single", "double"} /\ pc # "astray"
  BY <1>1 DEF Token
<1> HIDE DEF tok
<1>3. CASE tokens' = <<>>
  <2>1. Len(<<>>) = 0 /\ 1..0 = {}
    OBVIOUS
  <2> QED BY <1>3, <2>1 DEF QuoteInv
<1>4. CASE tokens' \in {tokens, Append(tokens, tok)}
  <2>1. QuoteIn(tok, text, pc' = "astray")
    BY <1>2, NoQuote
  <2> QED BY <1>1, <1>2, <1>4, <2>1, QuotesOn
<1> QED BY <1>1, <1>3, <1>4

LEMMA LexStartQuotes == IInv /\ LexStart => QuoteInv'
<1> SUFFICES ASSUME IInv, LexStart PROVE QuoteInv'
  OBVIOUS
<1>1. tokens' = <<>>
  BY DEF LexStart, NoPush, IInv
<1>2. Len(<<>>) = 0 /\ 1..0 = {}
  OBVIOUS
<1> QED BY <1>1, <1>2 DEF QuoteInv

LEMMA NextQuotes == IInv /\ ReadInv /\ QuoteInv /\ [Next]_vars => QuoteInv'
<1>1. QuoteInv /\ UNCHANGED vars => QuoteInv'
  BY QuotesStay DEF vars
<1>2. QuoteInv /\ GrowCrash => QuoteInv'
  BY QuotesStay DEF GrowCrash, NoPush
<1> QED BY <1>1, <1>2, LexStartQuotes, PlainTokensQuotes, LexSingleQuotes, LexDoubleQuotes,
           BlockHeaderQuotes, BlockStepQuotes, BlockEndQuotes, LexEndQuotes
           DEF Next, Scalars, Blocks, Stop

(* QuotesClose: a double-quoted scalar ends at the first quote an even     *)
(* number of backslashes stands before, a single-quoted one at the first   *)
(* that is not one of a pair, and one that no quote ends with the text     *)
(* (lex_single_quoted, lex_double_quoted).                                 *)
THEOREM QuotesClosed == Spec => []QuotesClose
<1>1. Init => ReadInv /\ QuoteInv
  BY InitRead, NoTokenQuotes DEF Init
<1>2. IInv /\ ReadInv /\ QuoteInv /\ [Next]_vars => ReadInv' /\ QuoteInv'
  BY NextRead, NextQuotes
<1>3. IInv /\ QuoteInv => QuotesClose
  <2> SUFFICES ASSUME IInv, QuoteInv PROVE QuotesClose
    OBVIOUS
  <2>1. \A k \in DOMAIN tokens : QuoteIn(tokens[k], text, pc = "astray")
    BY SeqDomain DEF IInv, QuoteInv
  <2> QED BY <2>1, Zenon DEF QuotesClose, QuoteIn, DoubleIn, SingleIn, Closed, At
<1> QED BY <1>1, <1>2, <1>3, InductiveInvariant, PTL DEF Spec

(***************************************************************************)
(* The tokens fit the parser: what holds of those before the cursor, of    *)
(* the last of them and what stands behind it, and of a block scalar that  *)
(* is still being read.                                                    *)
(***************************************************************************)
DepthOf(d, type) ==
  CASE type \in {"FLOW_SEQ_START", "FLOW_MAP_START"}       -> d + 1
    [] type \in {"FLOW_SEQ_END", "FLOW_MAP_END"} /\ d > 0  -> d - 1
    [] OTHER                                               -> d
Markers        == {"DOC_START", "DOC_END"}
Delimiters     == {"FLOW_ENTRY", "FLOW_SEQ_END", "FLOW_MAP_END"}
Joins(d, type) == type = "MAP_VAL" \/ (d > 0 /\ type \in Delimiters)
IsPlain(tok)   == tok.type = "SCALAR" /\ tok.style = "plain"

IndentIn(t, s) ==
  LET h == While(t, s + 1, ChompChars \cup Nonzero)
      k == {j \in s + 1..h - 1 : CharAt(t, j) \in Nonzero}
  IN IF k = {} THEN 0 ELSE DigitOf(CharAt(t, Max(k)))
HeadIn(t, s) ==
  LET h == While(t, s + 1, ChompChars \cup Nonzero)
      b == While(t, h, Blank)
      e == Until(t, b, {"\n"})
      c == IF CharAt(t, b) = "#" THEN (IF CharAt(t, e) = "\n" THEN e + 1 ELSE e) ELSE b
  IN IF CharAt(t, c) = "\n" THEN c + 1 ELSE c
GoesOn(t, s)    == IndentIn(t, s) > 0 /\ CharAt(t, HeadIn(t, s) - 1) # "\n"
Broken(t, i, j) == \E k \in i..j - 1 : CharAt(t, k) = "\n"

(* What can stand behind a plain scalar. *)
Delimits(t, i, n) ==
  \/ CharAt(t, i) \in Breaks \cup {"#", Nul}
  \/ CharAt(t, i) = ":" /\ (n > 0 \/ CharAt(t, i + 1) \in BlankOrEnd)
  \/ CharAt(t, i) \in {",", "]", "}"} /\ n > 0

Fits(tok, d) ==
  /\ tok.type # "EOF"
  /\ tok.type = "SEQ_ENTRY" => d = 0
  /\ tok.type = "FLOW_ENTRY" => d > 0
  /\ tok.type \in Markers => tok.col = 0
Follows(l, type, ln, d, t) ==
  l.line = ln => /\ type \notin Markers
                 /\ l.owned => GoesOn(t, l.at)
                 /\ IsPlain(l) => Joins(d, type)
Depths(d, T) == /\ d \in [0..Len(T) -> Nat] /\ d[0] = 0
                /\ \A k \in 1..Len(T) : d[k] = DepthOf(d[k - 1], T[k].type)
Fitted(d, T, t) ==
  \A k \in 1..Len(T) :
    /\ Fits(T[k], d[k - 1])
    /\ k > 1 => Follows(T[k - 1], T[k].type, T[k].line, d[k - 1], t)
FitSeq(T, t, n) == \E d : Depths(d, T) /\ d[Len(T)] = n /\ Fitted(d, T, t)

LastIn(l, t, i, n) ==
  /\ l.at < i
  /\ IsPlain(l) => Delimits(t, i, n)
  /\ l.owned => CharAt(t, i) = Nul \/ Broken(t, l.at, i) \/ GoesOn(t, l.at)
LastFits(T, t, i, n) == Len(T) > 0 => LastIn(T[Len(T)], t, i, n)
BlockFits(T, t, b, i, n) ==
  /\ b.at < i
  /\ b.base # 0 => Broken(t, b.at, i) \/ GoesOn(t, b.at)
  /\ Len(T) > 0 => Follows(T[Len(T)], "SCALAR", b.line, n, t)

(* At a lone carriage return lex stays for ever. *)
Stuck == pc = "scan" /\ At(p) = "\r" /\ At(p + 1) # "\n"

(* A token that was dropped leaves its neighbours unfit.  *)
FitInv ==
  \/ error /\ pc # "done"
  \/ dropped # 0
  \/ pc = "call" /\ flow_depth = 0
  \/ pc \in {"refused", "astray", "crashed"}
  \/ Stuck
  \/ /\ pc = "scan" /\ FitSeq(tokens, text, flow_depth)
     /\ LastFits(tokens, text, p, flow_depth)
  \/ /\ pc \in {"block", "text"} /\ FitSeq(tokens, text, flow_depth)
     /\ BlockFits(tokens, text, blk, p, flow_depth)
  \/ /\ pc = "done"
     /\ \E T, e : /\ IsSeq(T) /\ tokens = Append(T, e) /\ e.type = "EOF"
                  /\ FitSeq(T, text, flow_depth)

(* A header, where its text is a parameter. *)
LEMMA HeaderSame ==
  ASSUME NEW s
  PROVE  HeaderEnd(s).indent = IndentIn(text, s) /\ HeaderEnd(s).to = HeadIn(text, s)
BY DEF HeaderEnd, IndentIn, HeadIn, At

LEMMA HangingSame == ASSUME NEW tok PROVE Hanging(tok) <=> tok.owned /\ GoesOn(text, tok.at)
<1>1. Hanging(tok) <=> /\ tok.owned /\ HeaderEnd(tok.at).indent > 0
                       /\ At(HeaderEnd(tok.at).to - 1) # "\n"
  BY DEF Hanging
<1> QED BY <1>1, HeaderSame DEF GoesOn, At

(* Two places on a line have no line break between them, and the first     *)
(* column has one before it.                                               *)
LEMMA SameLineFacts ==
  ASSUME NEW t, NEW a \in Nat \ {0}, NEW b \in Nat, a < b
  PROVE  /\ LineIn(t, a) = LineIn(t, b) => ~Broken(t, a, b)
         /\ ColIn(t, b) = 0 => Broken(t, a, b)
<1>1. ASSUME LineIn(t, a) = LineIn(t, b) PROVE ~Broken(t, a, b)
  <2> DEFINE B == BreaksIn(t, a, b)
  <2>1. LineIn(t, b) = LineIn(t, a) + Cardinality(B) /\ LineIn(t, a) \in Nat
    BY PlaceMoves, PlaceType
  <2>2. IsFiniteSet(B) /\ Cardinality(B) \in Nat
    BY BreaksFacts
  <2>3. Cardinality(B) = 0
    <3> HIDE DEF B
    <3> QED BY <1>1, <2>1, <2>2
  <2>4. B = {}
    <3> HIDE DEF B
    <3> QED BY <2>2, <2>3, FS_EmptySet
  <2> QED BY <2>4 DEF Broken, BreaksIn
<1>2. ASSUME ColIn(t, b) = 0 PROVE Broken(t, a, b)
  <2> DEFINE m == Max(BreaksIn(t, 1, b) \cup {0})
  <2>1. m \in 0..b - 1 /\ m \in BreaksIn(t, 1, b) \cup {0}
    <3>1. b \in Nat \ {0}
      OBVIOUS
    <3> QED BY <3>1, LastBreak
  <2>2. (b - 1) - m = 0
    BY <1>2 DEF ColIn
  <2> HIDE DEF m
  <2>3. m = b - 1 /\ m \in a..b - 1 /\ m # 0
    BY <2>1, <2>2
  <2>4. CharAt(t, m) = "\n"
    BY <2>1, <2>3 DEF BreaksIn
  <2> QED BY <2>3, <2>4 DEF Broken
<1> QED BY <1>1, <1>2

LEMMA DepthType ==
  ASSUME NEW d \in Nat, NEW type
  PROVE  DepthOf(d, type) \in Nat
<1>1. CASE type \in {"FLOW_SEQ_START", "FLOW_MAP_START"}
  BY <1>1 DEF DepthOf
<1>2. CASE type \notin {"FLOW_SEQ_START", "FLOW_MAP_START"}
  <2>1. \/ DepthOf(d, type) = d
        \/ d > 0 /\ DepthOf(d, type) = d - 1
    BY <1>2, Zenon DEF DepthOf
  <2> QED BY <2>1
<1> QED BY <1>1, <1>2

(* One more token that fits. *)
LEMMA FitOn ==
  ASSUME NEW T, IsSeq(T), NEW t, NEW n \in Nat, FitSeq(T, t, n),
         NEW tok, Fits(tok, n),
         Len(T) > 0 => Follows(T[Len(T)], tok.type, tok.line, n, t)
  PROVE  FitSeq(Append(T, tok), t, DepthOf(n, tok.type))
<1> DEFINE U == Append(T, tok)
           m == Len(T)
<1>1. /\ Len(U) = m + 1 /\ m \in Nat
      /\ \A k \in 1..m : U[k] = T[k]
      /\ U[m + 1] = tok
  BY SeqAppend, SeqDomain
<1>2. PICK d : Depths(d, T) /\ d[m] = n /\ Fitted(d, T, t)
  BY DEF FitSeq
<1> DEFINE x == DepthOf(n, tok.type)
           u == [k \in 0..m + 1 |-> IF k = m + 1 THEN x ELSE d[k]]
<1>3. x \in Nat
  BY DepthType
<1> HIDE DEF x, U, m
<1>4. /\ u \in [0..m + 1 -> Nat]
      /\ u[m + 1] = x
      /\ \A k \in 0..m : u[k] = d[k]
  <2>1. d \in [0..m -> Nat]
    BY <1>2 DEF Depths, m
  <2> QED BY <1>1, <1>3, <2>1
<1> HIDE DEF u
<1>5. Depths(u, U)
  <2>1. u[0] = 0
    BY <1>1, <1>2, <1>4 DEF Depths
  <2>2. ASSUME NEW k \in 1..m + 1 PROVE u[k] = DepthOf(u[k - 1], U[k].type)
    <3>1. k - 1 \in 0..m /\ u[k - 1] = d[k - 1]
      BY <1>1, <1>4
    <3>2. CASE k = m + 1
      <4>1. (m + 1) - 1 = m
        BY <1>1
      <4> QED BY <1>1, <1>2, <1>4, <3>1, <3>2, <4>1 DEF x
    <3>3. CASE k # m + 1
      <4>1. k \in 1..m /\ k \in 0..m
        BY <1>1, <3>3
      <4>2. d[k] = DepthOf(d[k - 1], T[k].type)
        BY <1>2, <4>1 DEF Depths, m
      <4> QED BY <1>1, <1>4, <3>1, <4>1, <4>2
    <3> QED BY <3>2, <3>3
  <2> QED BY <1>1, <1>4, <2>1, <2>2 DEF Depths
<1>6. Fitted(u, U, t)
  <2> SUFFICES ASSUME NEW k \in 1..m + 1
               PROVE  /\ Fits(U[k], u[k - 1])
                      /\ k > 1 => Follows(U[k - 1], U[k].type, U[k].line, u[k - 1], t)
    BY <1>1 DEF Fitted
  <2>1. k - 1 \in 0..m /\ u[k - 1] = d[k - 1] /\ (k > 1 => k - 1 \in 1..m /\ U[k - 1] = T[k - 1])
    BY <1>1, <1>4
  <2>2. CASE k = m + 1
    <3>1. (m + 1) - 1 = m /\ (k > 1 => m > 0)
      BY <1>1, <2>2
    <3>2. U[k] = tok /\ u[k - 1] = n /\ k - 1 = m
      BY <1>1, <1>2, <2>1, <2>2, <3>1
    <3>3. k > 1 => U[k - 1] = T[m]
      BY <2>1, <3>2
    <3> QED BY <3>1, <3>2, <3>3 DEF m
  <2>3. CASE k # m + 1
    <3>1. k \in 1..m /\ U[k] = T[k]
      BY <1>1, <2>3
    <3>2. /\ Fits(T[k], d[k - 1])
          /\ k > 1 => Follows(T[k - 1], T[k].type, T[k].line, d[k - 1], t)
      BY <1>2, <3>1 DEF Fitted, m
    <3> QED BY <2>1, <3>1, <3>2
  <2> QED BY <2>2, <2>3
<1>7. u[Len(U)] = x
  BY <1>1, <1>4
<1>8. FitSeq(U, t, x)
  BY <1>5, <1>6, <1>7 DEF FitSeq
<1> QED BY <1>8 DEF x, U

LEMMA NoTokenFits == ASSUME NEW t PROVE FitSeq(<<>>, t, 0)
<1> DEFINE d == [k \in 0..0 |-> 0]
<1>1. Len(<<>>) = 0 /\ 1..0 = {}
  OBVIOUS
<1>2. d \in [0..0 -> Nat] /\ d[0] = 0
  OBVIOUS
<1> HIDE DEF d
<1>3. Depths(d, <<>>) /\ d[Len(<<>>)] = 0 /\ Fitted(d, <<>>, t)
  BY <1>1, <1>2 DEF Depths, Fitted
<1> QED BY <1>3 DEF FitSeq

(***************************************************************************)
(* From the last token on: what is a token stands where the cursor is, or  *)
(* behind what skip_ws takes.                                              *)
(***************************************************************************)
LEMMA NotSkipped ==
  ASSUME IsText(text), p \in 1..Len(text) + 1, At(p) \notin Blank \cup Breaks \cup {"#"}
  PROVE  Start = p
<1> DEFINE s == Start
<1>1. s \in p..Len(text) + 1 /\ Skipped(p, s)
  BY StartFacts
<1> HIDE DEF s
<1>2. ASSUME s # p PROVE FALSE
  <2>1. p \in p..s - 1 /\ p \in Nat
    BY <1>1, <1>2 DEF IsText
  <2>2. \/ At(p) \in Blank \cup Breaks
        \/ \E h \in p..p : At(h) = "#"
    BY <1>1, <2>1, Zenon DEF Skipped
  <2>3. \A h \in p..p : h = p
    BY <2>1
  <2> QED BY <2>2, <2>3
<1> QED BY <1>2 DEF s

(* The text does not end behind the cursor but where skip_ws stops. *)
LEMMA SomethingLeft ==
  ASSUME IInv, ReadInv, pc = "scan", At(Start) # Nul
  PROVE  /\ Start \in 1..Len(text) /\ Start \in Nat
         /\ p \in Nat /\ p \in 1..Start /\ p \in 1..Len(text)
         /\ IsText(text) /\ Len(text) \in Nat
         /\ \A i \in p..Start : At(i) # Nul
<1> DEFINE s == Start
<1>1. s \in 1..Len(text) /\ s \in Nat /\ IsText(text) /\ Len(text) \in Nat
  BY SomethingThere
<1>2. s \in p..Len(text) + 1 /\ p \in 1..Len(text) + 1
  BY ScanFacts
<1> HIDE DEF s
<1>3. p \in Nat /\ p \in 1..s /\ p \in 1..Len(text)
  BY <1>1, <1>2
<1>4. ASSUME NEW i \in p..s PROVE At(i) # Nul
  <2>1. i \in 1..Len(text)
    BY <1>1, <1>3
  <2>2. At(i) = text[i]
    BY <1>1, <2>1 DEF At, CharAt, IsText
  <2> QED BY <2>1, <2>2 DEF ReadInv
<1> QED BY <1>1, <1>3, <1>4 DEF s

Stops == \/ At(Start) = ":" /\ (is_flow \/ At(Start + 1) \in BlankOrEnd)
         \/ At(Start) \in {",", "]", "}"} /\ is_flow

LEMMA Resumes ==
  ASSUME IInv, ReadInv, pc = "scan", ~Stuck, At(Start) # Nul,
         NEW l, TokenIn(l, text), LastIn(l, text, p, flow_depth),
         l.line = LineIn(text, Start)
  PROVE  /\ ColIn(text, Start) # 0
         /\ l.owned => GoesOn(text, l.at)
         /\ IsPlain(l) => Stops
<1> DEFINE s == Start
           a == l.at
<1>1. /\ s \in 1..Len(text) /\ s \in Nat
      /\ p \in Nat /\ p \in 1..s /\ p \in 1..Len(text)
      /\ IsText(text) /\ Len(text) \in Nat
      /\ \A i \in p..s : At(i) # Nul
  BY SomethingLeft
<1>2. a \in Nat \ {0} /\ a < p /\ LineIn(text, a) = LineIn(text, s)
  BY <1>1 DEF TokenIn, LastIn
<1>3. /\ At(s) \notin Blank \cup {"\n", "#"}
      /\ At(s) = "\r" => At(s + 1) # "\n"
      /\ At(p) = "#" => s >= Until(text, p, {"\n"})
  <2>1. p \in 1..Len(text) + 1
    BY <1>1
  <2> QED BY <1>1, <2>1, StartFacts
<1> HIDE DEF s, a
<1>4. ~Broken(text, a, s) /\ ColIn(text, s) # 0
  <2>1. a < s
    BY <1>1, <1>2
  <2> QED BY <1>1, <1>2, <2>1, SameLineFacts
<1>5. \A i \in Nat : a <= i /\ i < s => At(i) # "\n"
  BY <1>1, <1>2, <1>4 DEF Broken, At
<1>6. At(p) # Nul
  BY <1>1
<1>7. ASSUME l.owned PROVE GoesOn(text, a)
  <2>1. ~Broken(text, a, p)
    BY <1>1, <1>2, <1>5 DEF Broken, At
  <2>2. CharAt(text, p) # Nul
    BY <1>6 DEF At
  <2> QED BY <1>7, <2>1, <2>2 DEF LastIn, a
<1>8. ASSUME IsPlain(l) PROVE Stops
  <2>1. Delimits(text, p, flow_depth)
    BY <1>8 DEF LastIn
  <2>2. At(p) # "\n"
    BY <1>1, <1>2, <1>3, <1>5
  <2>3. At(p) # "\r"
    <3> SUFFICES ASSUME At(p) = "\r" PROVE FALSE
      OBVIOUS
    <3>1. At(p + 1) = "\n"
      BY DEF Stuck
    <3>2. s # p /\ s # p + 1
      BY <1>3, <3>1
    <3>3. p + 1 \in Nat /\ a <= p + 1 /\ p + 1 < s
      BY <1>1, <1>2, <3>2
    <3> QED BY <1>5, <3>1, <3>3
  <2>4. At(p) # "#"
    <3> SUFFICES ASSUME At(p) = "#" PROVE FALSE
      OBVIOUS
    <3> DEFINE u == Until(text, p, {"\n"})
    <3>1. s >= u /\ p \in Nat \ {0}
      BY <1>1, <1>3
    <3>2. u \in Nat /\ u >= p /\ (u <= Len(text) => text[u] \in {"\n"})
      BY <1>1, <3>1, UntilFacts DEF IsText
    <3> HIDE DEF u
    <3>3. u <= Len(text) /\ u \in 1..Len(text) /\ a <= u
      BY <1>1, <1>2, <3>1, <3>2
    <3>4. At(u) = "\n"
      BY <1>1, <3>2, <3>3 DEF At, CharAt, IsText
    <3>5. u # s
      BY <1>3, <3>4
    <3> QED BY <1>1, <1>5, <3>1, <3>2, <3>3, <3>4, <3>5
  <2>5. \/ At(p) = ":" /\ (flow_depth > 0 \/ At(p + 1) \in BlankOrEnd)
        \/ At(p) \in {",", "]", "}"} /\ flow_depth > 0
    BY <1>6, <2>1, <2>2, <2>3, <2>4 DEF Delimits, At, Breaks
  <2>6. At(p) \notin Blank \cup Breaks \cup {"#"}
    <3>1. At(p) \in {":", ",", "]", "}"}
      BY <2>5
    <3>2. \A c \in {":", ",", "]", "}"} : c \notin Blank \cup Breaks \cup {"#"}
      BY Zenon DEF Blank, Breaks
    <3> QED BY <3>1, <3>2
  <2>7. Start = p
    <3>1. p \in 1..Len(text) + 1
      BY <1>1
    <3> QED BY <1>1, <2>6, <3>1, NotSkipped
  <2> QED BY <2>5, <2>7, Zenon DEF Stops, is_flow
<1> QED BY <1>4, <1>7, <1>8 DEF s, a

(***************************************************************************)
(* One step of the main loop.                                              *)
(***************************************************************************)
Scanning == /\ pc = "scan" /\ ~Stuck
            /\ FitSeq(tokens, text, flow_depth)
            /\ LastFits(tokens, text, p, flow_depth)

(* What a branch of the main loop makes of the character it finds. *)
Placed(type) ==
  /\ type # "EOF"
  /\ type = "SEQ_ENTRY" => ~is_flow
  /\ type = "FLOW_ENTRY" => is_flow
  /\ type \in Markers => ColTo(Start) = 0
  /\ Stops => Joins(flow_depth, type)

(* The token follows the last one as the parser supposes. *)
LEMMA FollowsLast ==
  ASSUME IInv, ReadInv, Scanning, At(Start) # Nul,
         NEW type, type \in Markers => ColTo(Start) = 0, Stops => Joins(flow_depth, type)
  PROVE  Len(tokens) > 0 =>
           Follows(tokens[Len(tokens)], type, LineIn(text, Start), flow_depth, text)
<1> SUFFICES ASSUME Len(tokens) > 0
             PROVE  Follows(tokens[Len(tokens)], type, LineIn(text, Start), flow_depth, text)
  OBVIOUS
<1> DEFINE m == Len(tokens)
           l == tokens[m]
<1>1. m \in 1..m
  <2>1. m \in Nat
    BY SeqDomain DEF IInv
  <2> QED BY <2>1
<1>2. TokenIn(l, text)
  BY <1>1 DEF IInv
<1>3. LastIn(l, text, p, flow_depth) /\ pc = "scan" /\ ~Stuck
  BY DEF Scanning, LastFits
<1>4. ColTo(Start) = ColIn(text, Start)
  <2>1. Start \in Nat /\ p <= Start
    BY <1>3, ScanFacts
  <2> QED BY <1>3, <2>1, ScanFacts
<1> HIDE DEF l, m
<1>5. ASSUME l.line = LineIn(text, Start)
      PROVE  /\ type \notin Markers
             /\ l.owned => GoesOn(text, l.at)
             /\ IsPlain(l) => Joins(flow_depth, type)
  <2>1. /\ ColIn(text, Start) # 0
        /\ l.owned => GoesOn(text, l.at)
        /\ IsPlain(l) => Stops
    BY <1>2, <1>3, <1>5, Resumes
  <2> QED BY <1>4, <2>1
<1> QED BY <1>5 DEF Follows, l, m

LEMMA PushFits ==
  ASSUME IInv, ReadInv, Scanning, At(Start) # Nul,
         NEW type, NEW style, NEW val, NEW i \in Nat, Start < i,
         Lexed(type, Start, i, val, style), Placed(type),
         flow_depth' = DepthOf(flow_depth, type), pc' = "scan",
         type = "SCALAR" /\ style = "plain" => Delimits(text, i, flow_depth')
  PROVE  FitInv'
<1> DEFINE tok == Token(type, PlaceAt(Start), Start, i, val, style, FALSE)
           x == DepthOf(flow_depth, type)
           U == Append(tokens, tok)
<1> SUFFICES ASSUME dropped' = 0 PROVE FitInv'
  BY DEF FitInv
<1>1. tokens' = U /\ text' = text /\ p' = i
  BY PushLeaves DEF Lexed, AdvanceTo
<1>2. pc = "scan" /\ Start \in Nat /\ ColTo(Start) = ColIn(text, Start)
      /\ PlaceAt(Start) = Here(text, Start)
  <2>1. pc = "scan"
    BY DEF Scanning
  <2>2. Start \in Nat /\ p <= Start
    BY <2>1, ScanFacts
  <2> QED BY <2>1, <2>2, ScanFacts
<1>3. /\ tok.type = type /\ tok.at = Start /\ ~tok.owned /\ tok.style = style
      /\ tok.line = LineIn(text, Start) /\ tok.col = ColTo(Start)
  BY <1>2 DEF Token, Here
<1>4. Fits(tok, flow_depth)
  <2>1. ~ (flow_depth > 0) => flow_depth = 0
    BY DEF IInv
  <2> HIDE DEF tok
  <2> QED BY <1>3, <2>1, Zenon DEF Placed, Fits, is_flow
<1>5. Len(tokens) > 0 => Follows(tokens[Len(tokens)], tok.type, tok.line, flow_depth, text)
  BY <1>3, FollowsLast DEF Placed
<1>6. IsSeq(tokens) /\ flow_depth \in Nat /\ FitSeq(tokens, text, flow_depth)
  BY DEF IInv, Scanning
<1>7. FitSeq(U, text, x)
  <2> HIDE DEF tok
  <2> QED BY <1>3, <1>4, <1>5, <1>6, FitOn
<1>8. Len(U) = Len(tokens) + 1 /\ U[Len(tokens) + 1] = tok
  <2> HIDE DEF tok
  <2> QED BY <1>6, SeqAppend
<1>9. LastIn(tok, text, i, x)
  BY <1>3 DEF LastIn, IsPlain
<1> HIDE DEF tok, U, x
<1>10. FitSeq(tokens', text', flow_depth') /\ LastFits(tokens', text', p', flow_depth')
  BY <1>1, <1>7, <1>8, <1>9 DEF x, LastFits
<1> QED BY <1>10, Zenon DEF FitInv

(* At a character that ends no plain scalar. *)
LEMMA PlacedHere ==
  ASSUME NEW type, type \notin {"EOF", "SEQ_ENTRY", "FLOW_ENTRY"} \cup Markers,
         At(Start) \notin {":", ",", "]", "}"}
  PROVE  Placed(type)
BY DEF Placed, Stops

LEMMA SameDepth ==
  ASSUME NEW d, NEW type, type \notin {"FLOW_SEQ_START", "FLOW_MAP_START", "FLOW_SEQ_END",
                                       "FLOW_MAP_END"}
  PROVE  DepthOf(d, type) = d
BY DEF DepthOf

LEMMA LexMarkerFits == IInv /\ ReadInv /\ Scanning /\ LexMarker => FitInv'
<1> SUFFICES ASSUME IInv, ReadInv, Scanning, LexMarker PROVE FitInv'
  OBVIOUS
<1>1. pc = "scan" /\ pc' = "scan" /\ flow_depth' = flow_depth
  BY DEF LexMarker
<1>2. PICK c \in {"-", "."}, type \in Markers : IsMarker(Start, c) /\ Mark(type, Start, 3)
  BY DEF LexMarker, Markers
<1>3. At(Start) = c /\ ColTo(Start) = 0 /\ Start \in Nat
  <2>1. 0 \in 0..2 /\ Start \in Nat
    BY <1>1, ScanFacts
  <2>2. At(Start + 0) = c /\ ColTo(Start) = 0
    BY <1>2, <2>1, Zenon DEF IsMarker
  <2>3. Start + 0 = Start
    BY <2>1
  <2> QED BY <2>1, <2>2, <2>3
<1>4. Start + 3 \in Nat /\ Start < Start + 3
  BY <1>3
<1>5. Lexed(type, Start, Start + 3, <<>>, "plain")
  BY <1>2 DEF Mark
<1>6. type \in {"DOC_START", "DOC_END"}
  BY DEF Markers
<1>7. Placed(type) /\ At(Start) # Nul /\ type # "SCALAR"
  BY <1>3, <1>6 DEF Placed, Stops, Nul
<1>8. flow_depth' = DepthOf(flow_depth, type)
  BY <1>1, <1>6, SameDepth
<1> QED BY <1>1, <1>4, <1>5, <1>7, <1>8, PushFits

(* A mark of one character. *)
LEMMA MarkFits ==
  ASSUME IInv, ReadInv, Scanning, At(Start) # Nul, NEW type, type # "SCALAR",
         Mark(type, Start, 1), Placed(type), flow_depth' = DepthOf(flow_depth, type), pc' = pc
  PROVE  FitInv'
<1>1. pc = "scan" /\ pc' = "scan" /\ Start \in Nat
  <2>1. pc = "scan"
    BY DEF Scanning
  <2> QED BY <2>1, ScanFacts
<1>2. Start + 1 \in Nat /\ Start < Start + 1
  BY <1>1
<1>3. Lexed(type, Start, Start + 1, <<>>, "plain")
  BY DEF Mark
<1> QED BY <1>1, <1>2, <1>3, PushFits

LEMMA LexOpenFits == IInv /\ ReadInv /\ Scanning /\ LexOpen => FitInv'
<1> SUFFICES ASSUME IInv, ReadInv, Scanning, LexOpen PROVE FitInv'
  OBVIOUS
<1> DEFINE type == Opening[At(Start)]
<1>1. /\ pc' = pc /\ At(Start) \in {"[", "{"} /\ Mark(type, Start, 1)
      /\ flow_depth' = flow_depth + 1
  BY DEF LexOpen, Opening
<1>2. type \in {"FLOW_SEQ_START", "FLOW_MAP_START"}
  BY <1>1 DEF Opening
<1> HIDE DEF type
<1>3. At(Start) # Nul /\ type # "SCALAR" /\ Placed(type)
  BY <1>1, <1>2, PlacedHere DEF Nul, Markers
<1>4. flow_depth' = DepthOf(flow_depth, type)
  BY <1>1, <1>2 DEF DepthOf
<1> QED BY <1>1, <1>3, <1>4, MarkFits

LEMMA LexCloseFits == IInv /\ ReadInv /\ Scanning /\ LexClose => FitInv'
<1> SUFFICES ASSUME IInv, ReadInv, Scanning, LexClose PROVE FitInv'
  OBVIOUS
<1> DEFINE type == Closing[At(Start)]
<1>1. /\ pc' = pc /\ At(Start) \in {"]", "}"} /\ Mark(type, Start, 1)
      /\ flow_depth' = IF flow_depth > 0 THEN flow_depth - 1 ELSE 0
  BY DEF LexClose, Closing, is_flow
<1>2. type \in {"FLOW_SEQ_END", "FLOW_MAP_END"}
  BY <1>1 DEF Closing
<1> HIDE DEF type
<1>3. At(Start) # Nul /\ type # "SCALAR"
  BY <1>1, <1>2 DEF Nul
<1>4. Placed(type)
  BY <1>1, <1>2 DEF Placed, Stops, Joins, Delimiters, Markers, is_flow
<1>5. flow_depth' = DepthOf(flow_depth, type)
  <2>1. flow_depth \in Nat /\ type \notin {"FLOW_SEQ_START", "FLOW_MAP_START"}
    BY <1>2 DEF IInv
  <2>2. CASE flow_depth > 0
    <3>1. DepthOf(flow_depth, type) = flow_depth - 1
      BY <1>2, <2>1, <2>2 DEF DepthOf
    <3> QED BY <1>1, <2>2, <3>1
  <2>3. CASE ~ (flow_depth > 0)
    <3>1. DepthOf(flow_depth, type) = flow_depth
      BY <2>1, <2>3, Zenon DEF DepthOf
    <3>2. flow_depth' = 0
      BY <1>1, <2>3, Zenon
    <3>3. flow_depth = 0
      BY <2>1, <2>3
    <3> QED BY <3>1, <3>2, <3>3
  <2> QED BY <2>2, <2>3
<1> QED BY <1>1, <1>3, <1>4, <1>5, MarkFits

LEMMA LexIndicatorFits == IInv /\ ReadInv /\ Scanning /\ LexIndicator => FitInv'
<1> SUFFICES ASSUME IInv, ReadInv, Scanning, LexIndicator PROVE FitInv'
  OBVIOUS
<1> DEFINE type == Indicator(Start)
<1>1. pc' = pc /\ type # "none" /\ Mark(type, Start, 1) /\ flow_depth' = flow_depth
  BY DEF LexIndicator
<1>2. \/ type = "FLOW_ENTRY" /\ At(Start) = "," /\ is_flow
      \/ type = "SEQ_ENTRY" /\ At(Start) = "-" /\ ~is_flow
      \/ type = "MAP_KEY" /\ At(Start) = "?"
      \/ type = "MAP_VAL" /\ At(Start) = ":"
  BY <1>1, Zenon DEF Indicator
<1> HIDE DEF type
<1>3. At(Start) # Nul /\ type # "SCALAR"
  BY <1>2 DEF Nul
<1>4. Placed(type)
  BY <1>2 DEF Placed, Stops, Joins, Delimiters, Markers, is_flow
<1>5. flow_depth' = DepthOf(flow_depth, type)
  BY <1>1, <1>2, SameDepth
<1> QED BY <1>1, <1>3, <1>4, <1>5, MarkFits

LEMMA LexNamesFits == IInv /\ ReadInv /\ Scanning /\ (lex_anchor_alias \/ lex_tag) => FitInv'
<1> SUFFICES ASSUME IInv, ReadInv, Scanning, lex_anchor_alias \/ lex_tag PROVE FitInv'
  OBVIOUS
<1>1. pc = "scan" /\ pc' = "scan" /\ flow_depth' = flow_depth
  BY DEF lex_anchor_alias, lex_tag
<1>2. PICK i \in {NameEnd(Start), TagEnd(Start)}, type \in {"ANCHOR", "ALIAS", "TAG"} :
        /\ At(Start) \in {"&", "*", "!"}
        /\ \E val : Lexed(type, Start, i, val, "plain")
  BY DEF lex_anchor_alias, lex_tag
<1>3. At(Start) # Nul
  BY <1>2 DEF Nul
<1>4. Start \in 1..Len(text) /\ Start \in Nat /\ IsText(text) /\ Len(text) \in Nat
  BY <1>1, <1>3, SomethingThere
<1>5. i \in Nat /\ Start < i
  <2>1. NameEnd(Start) \in Start + 1..Len(text) + 1 /\ TagEnd(Start) \in Start + 1..Len(text) + 1
    BY <1>4, NameEndFacts, TagEndFacts
  <2> QED BY <1>2, <1>4, <2>1
<1>6. Placed(type)
  BY <1>2, PlacedHere DEF Markers
<1>7. flow_depth' = DepthOf(flow_depth, type) /\ type # "SCALAR"
  BY <1>1, SameDepth
<1> QED BY <1>1, <1>2, <1>3, <1>5, <1>6, <1>7, PushFits

LEMMA LexQuotedFits ==
  IInv /\ ReadInv /\ Scanning /\ (lex_single_quoted \/ lex_double_quoted) => FitInv'
<1> SUFFICES ASSUME IInv, ReadInv, Scanning, lex_single_quoted \/ lex_double_quoted
             PROVE  FitInv'
  OBVIOUS
<1>1. /\ pc = "scan" /\ pc' \in {"scan", "astray"} /\ flow_depth' = flow_depth
      /\ At(Start) # Nul
  BY DEF lex_single_quoted, lex_double_quoted, Nul
<1>2. Start \in 1..Len(text) /\ Start \in Nat /\ IsText(text) /\ Len(text) \in Nat
  BY <1>1, SomethingThere
<1> DEFINE i == SingleEnd(Start + 1)
           j == DoubleEnd(Start + 1)
<1>3. i \in Nat /\ i > Start /\ j \in Nat /\ j > Start
  <2>1. Start + 1 \in 1..Len(text) + 1
    BY <1>2
  <2>2. i \in Start + 1..Len(text) + 1 /\ j \in Start + 1..Len(text) + 2
    BY <1>2, <2>1, SingleEndFacts, DoubleEndFacts
  <2> HIDE DEF i, j
  <2> QED BY <1>2, <2>2
<1> HIDE DEF i, j
<1>4. PICK e \in {i, j}, q \in {"'", "\""}, style \in {"single", "double"} :
        /\ At(Start) = q
        /\ \E val : Lexed("SCALAR", Start, PastQuote(e, q), val, style)
  BY DEF lex_single_quoted, lex_double_quoted, i, j
<1>5. PastQuote(e, q) \in Nat /\ Start < PastQuote(e, q)
  <2>1. e \in Nat /\ e > Start /\ q # Nul
    BY <1>3, <1>4 DEF Nul
  <2>2. PastQuote(e, q) \in Nat /\ PastQuote(e, q) >= e
    BY <1>2, <2>1, PastQuoteFacts
  <2>3. Start \in Nat
    BY <1>2
  <2> QED BY <2>1, <2>2, <2>3, BeyondBoth
<1>6. Placed("SCALAR")
  BY <1>4, PlacedHere DEF Markers
<1>7. flow_depth' = DepthOf(flow_depth, "SCALAR") /\ style # "plain"
  BY <1>1, SameDepth
<1>8. CASE pc' = "scan"
  BY <1>1, <1>4, <1>5, <1>6, <1>7, <1>8, PushFits
<1>9. CASE pc' = "astray"
  BY <1>9 DEF FitInv
<1> QED BY <1>1, <1>8, <1>9

(* Where a plain scalar ends. *)
LEMMA PlainEndStops ==
  ASSUME IsText(text), NEW s \in 1..Len(text)
  PROVE  \/ PlainEnd(s) = Len(text) + 1
         \/ PlainStop(s, PlainEnd(s))
<1> DEFINE R == {i \in s..Len(text) : PlainStop(s, i)} \cup {Len(text) + 1}
<1>1. R \in SUBSET Nat /\ R # {} /\ \A i \in R : i = Len(text) + 1 \/ PlainStop(s, i)
  BY DEF IsText
<1>2. PlainEnd(s) = Min(R)
  BY DEF PlainEnd
<1> HIDE DEF R
<1>3. Min(R) \in R
  BY <1>1, LeastOf
<1> QED BY <1>1, <1>2, <1>3

LEMMA StopDelimits ==
  ASSUME NEW s, NEW i, PlainStop(s, i)
  PROVE  Delimits(text, i, flow_depth)
<1>1. \/ At(i) \in Breaks
      \/ At(i) = "#"
      \/ At(i) = ":" /\ (is_flow \/ At(i + 1) \in BlankOrEnd)
      \/ At(i) \in {",", "]", "}"} /\ is_flow
  BY Zenon DEF PlainStop
<1> QED BY <1>1, Zenon DEF Delimits, At, is_flow

LEMMA LexPlainFits == IInv /\ ReadInv /\ Scanning /\ lex_plain => FitInv'
<1> SUFFICES ASSUME IInv, ReadInv, Scanning, lex_plain PROVE FitInv'
  OBVIOUS
<1> DEFINE i == PlainEnd(Start)
           val == Trimmed(Slice(Start, i))
<1>1. /\ pc = "scan" /\ At(Start) \notin Special /\ Indicator(Start) = "none"
      /\ UNCHANGED vars \/ (Lexed("SCALAR", Start, i, val, "plain")
                            /\ UNCHANGED <<flow_depth, pc>>)
  BY DEF lex_plain
<1>2. At(Start) # Nul
  BY <1>1 DEF Special
<1>3. Start \in 1..Len(text) /\ Start \in Nat /\ IsText(text) /\ Len(text) \in Nat
  BY <1>1, <1>2, SomethingThere
<1>4. i \in Start..Len(text) + 1 /\ (i = Len(text) + 1 \/ PlainStop(Start, i))
  <2>1. Start \in 1..Len(text) + 1
    BY <1>3
  <2> QED BY <1>3, <2>1, PlainEndFacts, PlainEndStops
<1> HIDE DEF i, val
<1>5. CASE UNCHANGED vars
  <2>1. FitSeq(tokens', text', flow_depth') /\ LastFits(tokens', text', p', flow_depth')
        /\ pc' = "scan"
    BY <1>1, <1>5 DEF vars, Scanning
  <2> QED BY <2>1, Zenon DEF FitInv
<1>6. CASE /\ Lexed("SCALAR", Start, i, val, "plain") /\ UNCHANGED <<flow_depth, pc>>
           /\ i # Start
  <2>1. i \in Nat /\ Start < i
    BY <1>3, <1>4, <1>6
  <2>2. Delimits(text, i, flow_depth)
    <3>1. CASE i = Len(text) + 1
      <4>1. i \notin 1..Len(text) /\ i \in Nat
        BY <1>3, <3>1
      <4>2. CharAt(text, i) = Nul
        BY <1>3, <3>1, <4>1 DEF CharAt
      <4> QED BY <4>2 DEF Delimits
    <3> QED BY <1>4, <3>1, StopDelimits
  <2>3. Placed("SCALAR")
    <3>1. ~Stops
      <4>1. At(Start) # "]" /\ At(Start) # "}"
        BY <1>1 DEF Special
      <4>2. ASSUME At(Start) = ":", is_flow \/ At(Start + 1) \in BlankOrEnd PROVE FALSE
        <5>1. Indicator(Start) = "MAP_VAL"
          BY <4>2, Zenon DEF Indicator
        <5> QED BY <1>1, <5>1
      <4>3. ASSUME At(Start) = ",", is_flow PROVE FALSE
        <5>1. Indicator(Start) = "FLOW_ENTRY"
          BY <4>3, Zenon DEF Indicator
        <5> QED BY <1>1, <5>1
      <4> QED BY <4>1, <4>2, <4>3 DEF Stops
    <3> QED BY <3>1 DEF Placed, Markers
  <2>4. flow_depth' = DepthOf(flow_depth, "SCALAR") /\ pc' = "scan"
        /\ flow_depth' = flow_depth
    BY <1>1, <1>6, SameDepth
  <2> QED BY <1>2, <1>6, <2>1, <2>2, <2>3, <2>4, PushFits
<1>7. CASE /\ Lexed("SCALAR", Start, i, val, "plain") /\ UNCHANGED <<flow_depth, pc>>
           /\ i = Start
  <2>1. PlainStop(Start, Start)
    <3>1. Start # Len(text) + 1
      BY <1>3
    <3> QED BY <1>4, <1>7, <3>1
  <2>2. At(Start) = "\r"
    BY <1>1, <2>1, PlainStarts
  <2>3. At(Start + 1) # "\n"
    <3>1. p \in 1..Len(text) + 1
      BY <1>1, ScanFacts
    <3> QED BY <1>3, <2>2, <3>1, StartFacts
  <2>4. p' = i /\ text' = text /\ pc' = "scan"
    BY <1>1, <1>7 DEF Lexed, AdvanceTo
  <2> HIDE DEF Start
  <2>5. Stuck'
    BY <1>7, <2>2, <2>3, <2>4 DEF Stuck, At
  <2> QED BY <2>5, Zenon DEF FitInv
<1> QED BY <1>1, <1>5, <1>6, <1>7

Looping == \/ LexMarker \/ LexOpen \/ LexClose \/ LexIndicator \/ lex_anchor_alias \/ lex_tag
           \/ lex_single_quoted \/ lex_double_quoted \/ lex_plain \/ BlockHeader \/ LexEnd
Copies  == \/ BlockBlank \/ BlockIndent \/ BlockChar \/ BlockNewline \/ BlockEnd

(* At a lone carriage return only lex_plain goes on, and stays there. *)
LEMMA StuckStays == IInv /\ ReadInv /\ Stuck /\ Looping => Stuck'
<1> SUFFICES ASSUME IInv, ReadInv, Stuck, Looping PROVE Stuck'
  OBVIOUS
<1>1. pc = "scan" /\ At(p) = "\r" /\ At(p + 1) # "\n"
  BY DEF Stuck
<1>2. IsText(text) /\ Len(text) \in Nat /\ p \in 1..Len(text) + 1 /\ p \in Nat
  BY <1>1, ScanFacts
<1>3. At(p) # Nul
  BY <1>1 DEF Nul
<1>4. p \in 1..Len(text)
  BY <1>2, <1>3, InText
<1>5. Start = p
  BY <1>1, <1>2, StartFacts
<1>6. PlainStop(p, p)
  BY <1>1 DEF PlainStop, Breaks
<1>7. PlainEnd(p) = p
  <2> DEFINE R == {i \in p..Len(text) : PlainStop(p, i)} \cup {Len(text) + 1}
  <2>1. R \in SUBSET Nat /\ p \in R /\ \A x \in R : x >= p
    BY <1>2, <1>4, <1>6
  <2>2. PlainEnd(p) = Min(R)
    BY DEF PlainEnd
  <2> HIDE DEF R
  <2>3. Min(R) \in R /\ \A x \in R : Min(R) <= x
    BY <2>1, LeastOf
  <2>4. Min(R) \in Nat /\ Min(R) <= p /\ Min(R) >= p
    BY <2>1, <2>3
  <2> QED BY <1>2, <2>2, <2>4
<1>8. lex_plain
  <2>1. At(Start) = "\r"
    BY <1>1, <1>5
  <2> HIDE DEF Start
  <2>3. ~LexOpen /\ ~LexClose /\ ~BlockHeader /\ ~LexEnd
    BY <2>1 DEF LexOpen, LexClose, Opening, Closing, BlockHeader, LexEnd, Nul
  <2>4. ~lex_anchor_alias /\ ~lex_tag /\ ~lex_single_quoted /\ ~lex_double_quoted
    BY <2>1 DEF lex_anchor_alias, lex_tag, lex_single_quoted, lex_double_quoted
  <2>5. ~LexIndicator
    <3>1. Indicator(Start) # "none" => FALSE
      BY <2>1, IndicatorFacts
    <3> QED BY <3>1 DEF LexIndicator
  <2>6. ~LexMarker
    <3> SUFFICES ASSUME NEW c \in {"-", "."}, IsMarker(Start, c) PROVE FALSE
      BY DEF LexMarker
    <3>1. 0 \in 0..2 /\ Start + 0 = Start
      BY <1>2, <1>5
    <3>2. At(Start + 0) = c
      BY <3>1, Zenon DEF IsMarker
    <3> QED BY <2>1, <3>1, <3>2
  <2> QED BY <2>3, <2>4, <2>5, <2>6 DEF Looping
<1>9. Stuck'
  <2>1. text' = text /\ pc' = pc /\ p' = p
    <3>1. UNCHANGED vars \/ (AdvanceTo(PlainEnd(Start)) /\ UNCHANGED <<text, pc>>)
      BY <1>8 DEF lex_plain, Lexed
    <3> QED BY <1>5, <1>7, <3>1 DEF vars, AdvanceTo
  <2> QED BY <1>1, <2>1 DEF Stuck, At
<1> QED BY <1>9

(***************************************************************************)
(* Block scalars.                                                          *)
(***************************************************************************)
LEMMA HeaderBase ==
  ASSUME IsText(text), NEW s \in 1..Len(text), NEW i, i = HeaderEnd(s).to,
         HeaderEnd(s).indent # 0 \/ Spaces(i) # 0
  PROVE  Broken(text, s, i) \/ GoesOn(text, s)
<1>1. i \in s + 1..Len(text) + 1 /\ HeaderEnd(s).indent \in Nat
  BY HeaderFacts
<1>2. i \in Nat /\ s \in Nat /\ Len(text) \in Nat /\ i - 1 \in s..i - 1 /\ i \in 1..Len(text) + 1
  BY <1>1 DEF IsText
<1>3. ASSUME At(i - 1) = "\n" PROVE Broken(text, s, i)
  BY <1>2, <1>3 DEF Broken, At
<1>4. CASE HeaderEnd(s).indent # 0
  <2>1. IndentIn(text, s) > 0
    <3>1. HeaderEnd(s).indent = IndentIn(text, s)
      BY HeaderSame
    <3> QED BY <1>1, <1>4, <3>1
  <2>2. HeadIn(text, s) = i
    BY HeaderSame
  <2> QED BY <1>3, <2>1, <2>2 DEF GoesOn, At
<1>5. CASE Spaces(i) # 0
  <2>1. At(i) \in Blank
    <3>1. Spaces(i) \in Nat /\ \A j \in i..(i + Spaces(i)) - 1 : At(j) \in Blank
      BY <1>2, SpacesFacts, Zenon DEF Blank
    <3>2. i \in i..(i + Spaces(i)) - 1
      BY <1>2, <1>5, <3>1
    <3> QED BY <3>1, <3>2
  <2>2. At(i - 1) = "\n"
    BY <2>1, HeaderSpaces
  <2> QED BY <1>3, <2>2
<1> QED BY <1>4, <1>5

LEMMA BlockHeaderFits == IInv /\ ReadInv /\ Scanning /\ BlockHeader => FitInv'
<1> SUFFICES ASSUME IInv, ReadInv, Scanning, BlockHeader PROVE FitInv'
  OBVIOUS
<1> DEFINE s == Start
           h == HeaderEnd(s)
           i == h.to
           base == IF h.indent = 0 THEN Spaces(i) ELSE h.indent
<1>1. pc = "scan" /\ At(s) \in {"|", ">"} /\ p' = i
      /\ UNCHANGED <<text, flow_depth>>
  BY DEF BlockHeader, AdvanceTo
<1>2. PICK f \in FailAt(1) :
        /\ error' = (error \/ f = 1)
        /\ blk' = IF f = 1 THEN blk
                  ELSE [style |-> BlockStyle(s),
                        at |-> s, line |-> LineTo(s), col |-> ColTo(s),
                        chomp |-> h.chomp, base |-> base,
                        buf |-> <<>>, cap |-> BlockCap]
        /\ f = 0 => tokens' = tokens
        /\ pc' = IF f = 0 THEN "block" ELSE "scan"
  BY DEF BlockHeader, NoPush
<1>3. f = 0 \/ f = 1
  BY DEF FailAt
<1>4. At(s) # Nul
  BY <1>1 DEF Nul
<1>5. s \in 1..Len(text) /\ s \in Nat /\ IsText(text) /\ Len(text) \in Nat
  BY <1>1, <1>4, SomethingThere
<1>6. LineTo(s) = LineIn(text, s)
  <2>1. p <= s
    BY <1>1, ScanFacts
  <2> QED BY <1>1, <1>5, <2>1, ScanFacts
<1>7. Len(tokens) > 0 =>
        Follows(tokens[Len(tokens)], "SCALAR", LineIn(text, s), flow_depth, text)
  <2>1. ~Stops /\ "SCALAR" \notin Markers
    BY <1>1 DEF Stops, Markers
  <2> QED BY <1>4, <2>1, FollowsLast
<1> HIDE DEF s
<1>8. i \in Nat /\ s < i
  <2>1. i \in s + 1..Len(text) + 1
    BY <1>5, HeaderFacts
  <2> HIDE DEF i
  <2> QED BY <1>5, <2>1
<1>9. base # 0 => Broken(text, s, i) \/ GoesOn(text, s)
  BY <1>5, HeaderBase
<1> HIDE DEF h, i, base
<1>10. CASE f = 1
  <2>1. error'
    BY <1>2, <1>10, Zenon
  <2>2. pc' = "scan"
    BY <1>2, <1>10
  <2>3. pc' # "done"
    BY <2>2
  <2> QED BY <2>1, <2>3 DEF FitInv
<1>11. CASE f = 0
  <2>1. blk'.at = s /\ blk'.base = base /\ blk'.line = LineIn(text, s)
    BY <1>2, <1>6, <1>11
  <2>2. tokens' = tokens /\ pc' = "block"
    BY <1>2, <1>11
  <2>3. BlockFits(tokens', text', blk', p', flow_depth')
    BY <1>1, <1>7, <1>8, <1>9, <2>1, <2>2 DEF BlockFits
  <2>4. FitSeq(tokens', text', flow_depth')
    BY <1>1, <2>2 DEF Scanning
  <2> QED BY <2>2, <2>3, <2>4, Zenon DEF FitInv
<1> QED BY <1>3, <1>10, <1>11

Copying == /\ pc \in {"block", "text"}
           /\ FitSeq(tokens, text, flow_depth)
           /\ BlockFits(tokens, text, blk, p, flow_depth)

LEMMA AppendedFits ==
  ASSUME IInv, Copying, Body, NEW cs, NEW n, NEW q, NEW i \in Nat, p <= i,
         NEW l \in {"block", "text"}, Appended(cs, n, q, i, l)
  PROVE  FitInv'
<1>1. text' = text /\ flow_depth' = flow_depth
  BY DEF Body
<1>2. CASE /\ blk' = [blk EXCEPT !.buf = @ \o cs, !.cap = Capacity(n)]
           /\ AdvanceTo(i)
           /\ pc' = l
           /\ UNCHANGED <<error, tokens>>
  <2>1. blk'.at = blk.at /\ blk'.base = blk.base /\ blk'.line = blk.line
    <3>1. DOMAIN blk = DOMAIN NoBlock
      BY DEF IInv, BlockOK, Copying
    <3>2. {"at", "base", "line"} \subseteq DOMAIN blk
      BY <3>1 DEF NoBlock
    <3> QED BY <1>2, <3>2
  <2>2. p' = i /\ tokens' = tokens
    BY <1>2 DEF AdvanceTo
  <2>3. p \in Nat /\ blk.at \in Nat
    BY BlockFacts DEF Copying, BlockOK
  <2>4. Broken(text, blk.at, p) => Broken(text, blk.at, i)
    BY <2>3 DEF Broken
  <2>5. blk.at < p /\ blk.at < i
    BY <2>3 DEF Copying, BlockFits
  <2>6. BlockFits(tokens', text', blk', p', flow_depth')
    BY <1>1, <2>1, <2>2, <2>4, <2>5 DEF Copying, BlockFits
  <2>7. FitSeq(tokens', text', flow_depth')
    BY <1>1, <2>2 DEF Copying
  <2>8. pc' \in {"block", "text"}
    BY <1>2
  <2> QED BY <2>6, <2>7, <2>8, Zenon DEF FitInv
<1>3. CASE GiveUp
  <2>1. error' /\ pc' = "scan"
    BY <1>3 DEF GiveUp
  <2>2. pc' # "done"
    BY <2>1
  <2> QED BY <2>1, <2>2 DEF FitInv
<1> QED BY <1>2, <1>3 DEF Appended, NoPush

LEMMA BlockStepFits ==
  IInv /\ Copying /\ (BlockBlank \/ BlockIndent \/ BlockChar \/ BlockNewline) => FitInv'
<1> SUFFICES ASSUME IInv, Copying, BlockBlank \/ BlockIndent \/ BlockChar \/ BlockNewline
             PROVE  FitInv'
  OBVIOUS
<1> DEFINE q == p + Spaces(p)
<1>1. Body /\ pc \in {"block", "text"}
  BY DEF BlockBlank, BlockIndent, BlockChar, BlockNewline
<1>2. IsText(text) /\ Len(text) \in Nat /\ p \in 1..Len(text) + 1 /\ p \in Nat
  BY <1>1, BlockFacts
<1>3. q \in p..Len(text) + 1
  BY <1>2, SpacesFacts
<1> HIDE DEF q
<1>4. q \in Nat /\ p <= q /\ q \in 1..Len(text) + 1
  BY <1>2, <1>3
<1>5. PastBreak(q) \in q..Len(text) + 1 /\ PastBreak(p) \in p..Len(text) + 1
  BY <1>2, <1>4, PastBreakFacts
<1>6. PastBreak(q) \in Nat /\ p <= PastBreak(q) /\ PastBreak(p) \in Nat /\ p <= PastBreak(p)
  BY <1>2, <1>4, <1>5
<1>7. CASE BlockBlank
  <2>1. Appended(<<"\n">>, 1, q, PastBreak(q), "block")
    BY <1>7 DEF BlockBlank, q
  <2> QED BY <1>1, <1>6, <2>1, AppendedFits
<1>8. CASE BlockIndent
  <2> DEFINE extra == Spaces(p) - blk.base
  <2>1. Appended([k \in 1..extra |-> " "], extra + 1, q, q, "text")
    BY <1>8 DEF BlockIndent, q
  <2> QED BY <1>1, <1>4, <2>1, AppendedFits
<1>9. CASE BlockChar
  <2>1. Appended(<<At(p)>>, 1, p, p + 1, "text")
    BY <1>9 DEF BlockChar
  <2>2. p + 1 \in Nat /\ p <= p + 1
    BY <1>2
  <2> QED BY <1>1, <2>1, <2>2, AppendedFits
<1>10. CASE BlockNewline
  <2>1. Appended(<<"\n">>, 1, p, PastBreak(p), "block")
    BY <1>10 DEF BlockNewline
  <2> QED BY <1>1, <1>6, <2>1, AppendedFits
<1> QED BY <1>7, <1>8, <1>9, <1>10

LEMMA BlockEndFits == IInv /\ Copying /\ BlockEnd => FitInv'
<1> SUFFICES ASSUME IInv, Copying, BlockEnd PROVE FitInv'
  OBVIOUS
<1> DEFINE tok == Token("SCALAR", [line |-> blk.line, col |-> blk.col], blk.at, p,
                        Chomped(blk.buf, blk.chomp), blk.style, TRUE)
           U == Append(tokens, tok)
<1> SUFFICES ASSUME dropped' = 0 PROVE FitInv'
  BY DEF FitInv
<1>1. /\ pc = "block" /\ pc' = "scan" /\ tokens' = U
      /\ UNCHANGED <<text, p, flow_depth>>
      /\ At(p) = Nul \/ Spaces(p) < blk.base
  BY PushLeaves DEF BlockEnd, Body
<1>2. tok.type = "SCALAR" /\ tok.line = blk.line /\ tok.at = blk.at /\ tok.style = blk.style
  BY DEF Token
<1>3. IsText(text) /\ p \in 1..Len(text) + 1 /\ BlockOK(blk, text, p)
  BY <1>1, BlockFacts
<1> HIDE DEF tok
<1>4. ~IsPlain(tok)
  BY <1>2, <1>3 DEF IsPlain, BlockOK
<1>5. Spaces(p) \in Nat
  BY <1>3, SpacesFacts
<1>6. CharAt(text, p) = Nul \/ Broken(text, blk.at, p) \/ GoesOn(text, blk.at)
  <2>1. CASE At(p) = Nul
    BY <2>1 DEF At
  <2>2. CASE Spaces(p) < blk.base
    <3>1. blk.base # 0
      BY <1>3, <1>5, <2>2 DEF BlockOK
    <3> QED BY <3>1 DEF Copying, BlockFits
  <2> QED BY <1>1, <2>1, <2>2
<1>7. LastIn(tok, text, p, flow_depth)
  BY <1>2, <1>4, <1>6 DEF LastIn, Copying, BlockFits
<1>8. Fits(tok, flow_depth)
  BY <1>2 DEF Fits, Markers
<1>9. Len(tokens) > 0 => Follows(tokens[Len(tokens)], tok.type, tok.line, flow_depth, text)
  BY <1>2 DEF Copying, BlockFits
<1>10. IsSeq(tokens) /\ flow_depth \in Nat /\ FitSeq(tokens, text, flow_depth)
  BY DEF IInv, Copying
<1>11. FitSeq(U, text, DepthOf(flow_depth, tok.type))
  BY <1>8, <1>9, <1>10, FitOn
<1>12. DepthOf(flow_depth, tok.type) = flow_depth
  BY <1>2, SameDepth
<1>13. Len(U) = Len(tokens) + 1 /\ U[Len(tokens) + 1] = tok
  BY <1>10, SeqAppend
<1> HIDE DEF U
<1>14. FitSeq(tokens', text', flow_depth') /\ LastFits(tokens', text', p', flow_depth')
  BY <1>1, <1>7, <1>11, <1>12, <1>13 DEF LastFits
<1> QED BY <1>1, <1>14, Zenon DEF FitInv

(***************************************************************************)
(* The start and the end of the call, and the theorem.                     *)
(***************************************************************************)
LEMMA LexStartFits == IInv /\ LexStart /\ flow_depth = 0 => FitInv'
<1> SUFFICES ASSUME IInv, LexStart, flow_depth = 0 PROVE FitInv'
  OBVIOUS
<1>1. pc' \in {"astray", "scan", "refused"} /\ tokens' = <<>> /\ flow_depth' = 0
  BY DEF LexStart, NoPush, IInv
<1>2. FitSeq(tokens', text', flow_depth') /\ LastFits(tokens', text', p', flow_depth')
  <2>1. Len(<<>>) = 0
    OBVIOUS
  <2> QED BY <1>1, <2>1, NoTokenFits DEF LastFits
<1> QED BY <1>1, <1>2, Zenon DEF FitInv

LEMMA LexEndFits == IInv /\ Scanning /\ LexEnd => FitInv'
<1> SUFFICES ASSUME IInv, Scanning, LexEnd PROVE FitInv'
  OBVIOUS
<1> DEFINE tok == Token("EOF", PlaceAt(Start), Start, Start, <<>>, "plain", FALSE)
<1> SUFFICES ASSUME dropped' = 0 PROVE FitInv'
  BY DEF FitInv
<1>1. /\ ~error => tokens' = Append(tokens, tok)
      /\ pc' = IF error THEN "refused" ELSE "done"
      /\ UNCHANGED <<text, flow_depth>>
  BY PushLeaves DEF LexEnd, Refused
<1>2. tok.type = "EOF"
  BY DEF Token
<1> HIDE DEF tok
<1>3. CASE error
  <2>1. pc' = "refused"
    BY <1>1, <1>3, Zenon
  <2> QED BY <2>1 DEF FitInv
<1>4. CASE ~error
  <2>1. pc' = "done" /\ tokens' = Append(tokens, tok)
    BY <1>1, <1>4, Zenon
  <2>2. IsSeq(tokens) /\ FitSeq(tokens, text', flow_depth')
    BY <1>1 DEF IInv, Scanning
  <2> QED BY <1>2, <2>1, <2>2, Zenon DEF FitInv
<1> QED BY <1>3, <1>4

LEMMA Branches ==
  Next => \/ LexStart /\ pc = "call"
          \/ Looping /\ pc = "scan"
          \/ Copies /\ pc \in {"block", "text"}
          \/ GrowCrash
          \/ UNCHANGED vars
<1>1. LexStart => pc = "call"
  BY DEF LexStart
<1>2. Looping => pc = "scan"
  BY Zenon DEF Looping, LexMarker, LexOpen, LexClose, LexIndicator, lex_anchor_alias, lex_tag,
     lex_single_quoted, lex_double_quoted, lex_plain, BlockHeader, LexEnd
<1>3. Copies => pc \in {"block", "text"}
  BY DEF Copies, BlockBlank, BlockIndent, BlockChar, BlockNewline, BlockEnd
<1>4. Next => LexStart \/ Looping \/ Copies \/ GrowCrash \/ UNCHANGED vars
  BY Zenon DEF Next, Marks, Scalars, Blocks, Stop, Looping, Copies
<1> QED BY <1>1, <1>2, <1>3, <1>4, Zenon

(* A token once dropped stays so counted, and an error once noted. *)
LEMMA OnlyGrows == IInv /\ Next => (error => error') /\ (dropped' = 0 => dropped = 0)
<1> SUFFICES ASSUME IInv, Next PROVE (error => error') /\ (dropped' = 0 => dropped = 0)
  OBVIOUS
<1>1. LexStart \/ GrowCrash \/ UNCHANGED vars
        => (error => error') /\ (dropped' = 0 => dropped = 0)
  BY DEF LexStart, GrowCrash, NoPush, vars
<1>2. \A type, s, i, val, style :
        Lexed(type, s, i, val, style) => error' = error /\ (dropped' = 0 => dropped = 0)
  BY PushLeaves DEF Lexed
<1>3. Looping => (error => error') /\ (dropped' = 0 => dropped = 0)
  <2>1. BlockHeader => (error => error') /\ (dropped' = 0 => dropped = 0)
    BY PushLeaves DEF BlockHeader, NoPush
  <2>2. LexEnd => (error => error') /\ (dropped' = 0 => dropped = 0)
    <3>1. LexEnd => error' = error
      BY DEF LexEnd
    <3>2. LexEnd => \/ dropped' = dropped
                    \/ Push(Token("EOF", PlaceAt(Start), Start, Start, <<>>, "plain", FALSE), 0)
      BY Zenon DEF LexEnd
    <3> QED BY <3>1, <3>2, PushLeaves, Zenon
  <2>3. lex_plain => (error => error') /\ (dropped' = 0 => dropped = 0)
    BY <1>1, <1>2, Zenon DEF lex_plain
  <2> QED BY <1>2, <2>1, <2>2, <2>3, Zenon DEF Looping, LexMarker, LexOpen, LexClose,
      LexIndicator, Mark, lex_anchor_alias, lex_tag, lex_single_quoted, lex_double_quoted
<1>4. Copies => (error => error') /\ (dropped' = 0 => dropped = 0)
  <2>1. BlockEnd => error' = error /\ (dropped' = 0 => dropped = 0)
    BY PushLeaves DEF BlockEnd
  <2>2. GiveUp => error' /\ (dropped' = 0 => dropped = 0)
    BY PushLeaves, Zenon DEF GiveUp
  <2>3. \A cs, n, q, i, l : Appended(cs, n, q, i, l) => UNCHANGED <<error, dropped>> \/ GiveUp
    BY Zenon DEF Appended, NoPush
  <2>4. UNCHANGED <<error, dropped>> => (error => error') /\ (dropped' = 0 => dropped = 0)
    OBVIOUS
  <2>5. \A cs, n, q, i, l :
          Appended(cs, n, q, i, l) => (error => error') /\ (dropped' = 0 => dropped = 0)
    BY <2>2, <2>3, <2>4, Zenon
  <2>6. BlockBlank \/ BlockIndent \/ BlockChar \/ BlockNewline
          => (error => error') /\ (dropped' = 0 => dropped = 0)
    BY <2>5, Zenon DEF BlockBlank, BlockIndent, BlockChar, BlockNewline
  <2> QED BY <2>1, <2>6, Zenon DEF Copies
<1> QED BY <1>1, <1>3, <1>4, Branches, Zenon

LEMMA FitsStay == FitInv /\ UNCHANGED vars => FitInv'
<1> SUFFICES ASSUME FitInv, UNCHANGED vars PROVE FitInv'
  OBVIOUS
<1>1. UNCHANGED <<pc, error, flow_depth, text, p, tokens, dropped, blk>>
  BY DEF vars
<1>2. Stuck <=> Stuck'
  BY <1>1 DEF Stuck, At
<1> QED BY <1>1, <1>2 DEF FitInv

LEMMA ErrorFits == IInv /\ ReadInv' /\ error /\ Next => FitInv'
<1> SUFFICES ASSUME IInv, ReadInv', error, Next PROVE FitInv'
  OBVIOUS
<1>1. error'
  BY OnlyGrows
<1>2. pc' # "done"
  BY <1>1 DEF ReadInv
<1> QED BY <1>1, <1>2 DEF FitInv

LEMMA NextFits == IInv /\ ReadInv /\ FitInv /\ [Next]_vars => FitInv'
<1> SUFFICES ASSUME IInv, ReadInv, FitInv, Next PROVE FitInv'
  BY FitsStay
<1> SUFFICES ASSUME dropped' = 0 PROVE FitInv'
  BY DEF FitInv
<1>0. dropped = 0
  BY OnlyGrows
<1>1. CASE error
  BY <1>1, NextRead, ErrorFits
<1>2. CASE UNCHANGED vars
  BY <1>2, FitsStay
<1>3. CASE LexStart /\ pc = "call" /\ ~error
  <2>1. flow_depth = 0
    BY <1>0, <1>3 DEF FitInv, Stuck
  <2> QED BY <1>3, <2>1, LexStartFits
<1>4. CASE Looping /\ pc = "scan" /\ ~error
  <2>1. CASE Stuck
    <3>1. Stuck'
      BY <1>4, <2>1, StuckStays
    <3> QED BY <3>1, Zenon DEF FitInv
  <2>2. CASE ~Stuck
    <3>1. Scanning
      BY <1>0, <1>4, <2>2 DEF FitInv, Scanning
    <3> QED BY <1>4, <3>1, LexMarkerFits, LexOpenFits, LexCloseFits, LexIndicatorFits,
               LexNamesFits, LexQuotedFits, LexPlainFits, BlockHeaderFits, LexEndFits
               DEF Looping
  <2> QED BY <2>1, <2>2
<1>5. CASE Copies /\ pc \in {"block", "text"} /\ ~error
  <2>1. Copying
    BY <1>0, <1>5 DEF FitInv, Copying, Stuck
  <2> QED BY <1>5, <2>1, BlockStepFits, BlockEndFits DEF Copies
<1>6. CASE GrowCrash
  BY <1>6 DEF GrowCrash, FitInv
<1> QED BY <1>1, <1>2, <1>3, <1>4, <1>5, <1>6, Branches

LEMMA InitFits == Init => FitInv
BY DEF Init, FitInv

(* What the parser's texts call a token, and its flow depth. *)
LEMMA LexemeFacts ==
  ASSUME NEW tok
  PROVE  /\ AsLexeme(tok).type = tok.type
         /\ AsLexeme(tok).kind = "block" => tok.owned
         /\ tok.owned /\ GoesOn(text, tok.at) => AsLexeme(tok).val = ""
         /\ AsLexeme(tok).plain <=> IsPlain(tok)
         /\ \A d : YML!Depth(d, AsLexeme(tok)) = DepthOf(d, tok.type)
<1> DEFINE x == AsLexeme(tok)
<1>1. x = [type |-> tok.type, kind |-> IF tok.owned THEN "block" ELSE "none",
           val |-> IF Hanging(tok) THEN "" ELSE "text", width |-> 0,
           plain |-> tok.type = "SCALAR" /\ tok.style = "plain"]
  BY DEF AsLexeme, YML!Lexeme
<1> HIDE DEF x
<1>0. \A a, b, c, e : LET r == [type |-> a, kind |-> b, val |-> c, width |-> 0, plain |-> e]
                      IN r.type = a /\ r.kind = b /\ r.val = c /\ r.plain = e
  OBVIOUS
<1>2. /\ x.type = tok.type
      /\ x.kind = IF tok.owned THEN "block" ELSE "none"
      /\ x.val = IF Hanging(tok) THEN "" ELSE "text"
  BY <1>0, <1>1, Zenon
<1>3. x.plain <=> IsPlain(tok)
  BY <1>0, <1>1, Zenon DEF IsPlain
<1>4. x.kind = "block" => tok.owned
  BY <1>2
<1>5. tok.owned /\ GoesOn(text, tok.at) => x.val = ""
  BY <1>2, HangingSame
<1>6. \A d : YML!Depth(d, x) = DepthOf(d, tok.type)
  BY <1>2, Zenon DEF YML!Depth, DepthOf
<1> QED BY <1>2, <1>3, <1>4, <1>5, <1>6 DEF x

LEMMA DepthsAre ==
  ASSUME Len(tokens) \in Nat, NEW u, Depths(u, tokens)
  PROVE  \A k \in 0..Len(tokens) : DepthAfter[k] = u[k]
<1> DEFINE L == Len(tokens)
           next(e, n) == YML!Depth(e[n - 1], AsLexeme(tokens[n]))
<1>1. /\ L \in Nat /\ u \in [0..L -> Nat] /\ u[0] = 0
      /\ \A k \in 1..L : u[k] = next(u, k)
  BY LexemeFacts DEF Depths
<1>2. u = [n \in 0..L |-> IF n = 0 THEN 0 ELSE next(u, n)]
  <2>1. \A n \in 0..L : n = 0 \/ n \in 1..L
    BY <1>1
  <2> HIDE DEF next, L
  <2> QED BY <1>1, <2>1
<1> DEFINE e == DepthAfter
<1>3. e = [n \in 0..L |-> IF n = 0 THEN 0 ELSE next(e, n)]
  BY <1>2 DEF DepthAfter
<1> HIDE DEF e, L
<1>4. 0 \in 0..L /\ \A n \in 1..L : n \in 0..L /\ n # 0
  BY <1>1
<1>5. e[0] = 0 /\ \A n \in 1..L : e[n] = next(e, n)
  <2> HIDE DEF next
  <2> QED BY <1>3, <1>4
<1> DEFINE V == {n \in Nat : n <= L => e[n] = u[n]}
<1>6. 0 \in V
  BY <1>1, <1>5
<1>7. ASSUME NEW n \in V PROVE n + 1 \in V
  <2>1. CASE n + 1 <= L
    <3>1. n <= L /\ n + 1 \in 1..L /\ (n + 1) - 1 = n
      BY <1>1, <2>1
    <3>2. e[n + 1] = next(e, n + 1) /\ u[n + 1] = next(u, n + 1)
      BY <1>1, <1>5, <3>1
    <3>3. next(e, n + 1) = next(u, n + 1)
      BY <3>1
    <3> QED BY <3>2, <3>3
  <2> QED BY <2>1
<1>8. V = Nat
  <2>1. V \in SUBSET Nat /\ \A n \in V : n + 1 \in V
    BY <1>7
  <2> HIDE DEF V
  <2> QED BY <1>6, <2>1, SetInduction
<1>9. ASSUME NEW k \in 0..L PROVE e[k] = u[k]
  <2>1. k \in Nat /\ k <= L
    BY <1>1
  <2>2. k \in V
    <3> HIDE DEF V
    <3> QED BY <1>8, <2>1
  <2> QED BY <2>1, <2>2
<1> QED BY <1>9 DEF e, L

LEMMA FitDone == IInv /\ FitInv => TokensFitParser
<1> SUFFICES ASSUME IInv, FitInv, pc = "done", dropped = 0 PROVE TokensFitParser
  BY DEF TokensFitParser
<1>1. PICK T, eof : /\ IsSeq(T) /\ tokens = Append(T, eof) /\ eof.type = "EOF"
                    /\ FitSeq(T, text, flow_depth)
  BY DEF FitInv, Stuck
<1>2. PICK d : Depths(d, T) /\ Fitted(d, T, text)
  BY <1>1 DEF FitSeq
<1> DEFINE m == Len(T)
           u == [k \in 0..m + 1 |-> IF k = m + 1 THEN d[m] ELSE d[k]]
<1>3. /\ m \in Nat /\ Len(tokens) = m + 1 /\ DOMAIN tokens = 1..m + 1
      /\ tokens[m + 1] = eof /\ \A k \in 1..m : tokens[k] = T[k]
  <2>1. DOMAIN tokens = 1..Len(tokens)
    BY SeqDomain DEF IInv
  <2> QED BY <1>1, <2>1, SeqAppend, SeqDomain
<1>4. d \in [0..m -> Nat] /\ d[0] = 0 /\ \A k \in 1..m : d[k] = DepthOf(d[k - 1], T[k].type)
  BY <1>2 DEF Depths
<1> HIDE DEF m
<1>5. u \in [0..m + 1 -> Nat] /\ u[m + 1] = d[m] /\ \A k \in 0..m : u[k] = d[k]
  BY <1>3, <1>4
<1> HIDE DEF u
<1>6. Depths(u, tokens)
  <2>1. u[0] = 0
    BY <1>3, <1>4, <1>5
  <2>2. ASSUME NEW k \in 1..m + 1 PROVE u[k] = DepthOf(u[k - 1], tokens[k].type)
    <3>1. k - 1 \in 0..m /\ u[k - 1] = d[k - 1]
      BY <1>3, <1>5
    <3>2. CASE k = m + 1
      <4>1. k - 1 = m /\ tokens[k].type = "EOF" /\ u[k] = d[m]
        BY <1>1, <1>3, <1>5, <3>2
      <4> QED BY <3>1, <4>1, SameDepth
    <3>3. CASE k # m + 1
      <4>1. k \in 1..m /\ k \in 0..m
        BY <1>3, <3>3
      <4> QED BY <1>3, <1>4, <1>5, <3>1, <4>1
    <3> QED BY <3>2, <3>3
  <2> QED BY <1>3, <1>5, <2>1, <2>2 DEF Depths
<1>7. ASSUME NEW k \in 1..m + 1 PROVE DepthBefore(k) = d[k - 1]
  <2>1. k - 1 \in 0..m /\ k - 1 \in 0..Len(tokens) /\ Len(tokens) \in Nat
    BY <1>3
  <2> QED BY <1>5, <1>6, <2>1, DepthsAre DEF DepthBefore
<1>8. ASSUME NEW k \in 1..m + 1
      PROVE  LET t == tokens[k]
             IN /\ t.type = "EOF" <=> k = Len(tokens)
                /\ YML!InContext(d[k - 1], AsLexeme(t))
                /\ YML!NewLine(AsLexeme(t), t.col)
                /\ k > 1 /\ tokens[k - 1].line = t.line /\ t.type # "EOF"
                     => YML!SameLine(d[k - 1], AsLexeme(tokens[k - 1]), AsLexeme(t))
  <2> DEFINE t == tokens[k]
             x == AsLexeme(t)
  <2>1. x.type = t.type
    BY LexemeFacts
  <2>2. CASE k = m + 1
    <3>1. t.type = "EOF" /\ k = Len(tokens)
      BY <1>1, <1>3, <2>2
    <3> HIDE DEF t, x
    <3>2. YML!InContext(d[k - 1], x) /\ YML!NewLine(x, t.col)
      BY <2>1, <3>1 DEF YML!InContext, YML!NewLine
    <3> QED BY <3>1, <3>2 DEF t, x
  <2>3. CASE k # m + 1
    <3>1. k \in 1..m /\ k # Len(tokens) /\ t = T[k]
      BY <1>3, <2>3
    <3>2. /\ Fits(T[k], d[k - 1])
          /\ k > 1 => Follows(T[k - 1], T[k].type, T[k].line, d[k - 1], text)
      BY <1>2, <3>1 DEF Fitted, m
    <3> HIDE DEF t, x
    <3>3. t.type # "EOF" /\ YML!InContext(d[k - 1], x) /\ YML!NewLine(x, t.col)
      BY <2>1, <3>1, <3>2 DEF Fits, Markers, YML!InContext, YML!NewLine
    <3>4. ASSUME k > 1, tokens[k - 1].line = t.line
          PROVE  YML!SameLine(d[k - 1], AsLexeme(tokens[k - 1]), x)
      <4> DEFINE l == tokens[k - 1]
                 y == AsLexeme(l)
      <4>1. l = T[k - 1]
        <5>1. k - 1 \in 1..m
          BY <1>3, <3>1, <3>4
        <5> QED BY <1>3, <5>1
      <4>2. /\ y.kind = "block" => l.owned
            /\ l.owned /\ GoesOn(text, l.at) => y.val = ""
            /\ y.plain <=> IsPlain(l)
        BY LexemeFacts
      <4> HIDE DEF l, y
      <4>3. /\ t.type \notin Markers
            /\ l.owned => GoesOn(text, l.at)
            /\ IsPlain(l) => Joins(d[k - 1], t.type)
        BY <3>1, <3>2, <3>4, <4>1 DEF Follows, l
      <4>4. YML!SameLine(d[k - 1], y, x)
        BY <2>1, <4>2, <4>3, Zenon DEF YML!SameLine, Markers, Joins, Delimiters
      <4> QED BY <4>4 DEF l, y
    <3> QED BY <3>1, <3>3, <3>4 DEF t, x
  <2> QED BY <2>2, <2>3
<1> QED BY <1>3, <1>7, <1>8 DEF TokensFitParser

(* TokensFitParser: what lex returns, when the array of tokens could grow  *)
(* whenever it was full, is what the parser supposes of it: one EOF, at    *)
(* the end; '-' only in block and ',' only in flow context; document       *)
(* markers in the first column; behind a plain scalar on its line nothing  *)
(* but a ':' or, in flow context, a delimiter; and nothing behind a block  *)
(* scalar but for one whose header goes on (the branches of lex, lex_plain *)
(* and lex_block_scalar).                                                  *)
THEOREM TokensFit == Spec => []TokensFitParser
<1>1. Init => ReadInv /\ FitInv
  BY InitRead, InitFits
<1>2. IInv /\ ReadInv /\ FitInv /\ [Next]_vars => ReadInv' /\ FitInv'
  BY NextRead, NextFits
<1>3. IInv /\ FitInv => TokensFitParser
  BY FitDone
<1> QED BY <1>1, <1>2, <1>3, InductiveInvariant, PTL DEF Spec
=============================================================================
