---------------------------- MODULE ParserProofs ----------------------------
(***************************************************************************)
(* The parser's control, proved for every set of token arrays: the types,  *)
(* the bound on the C stack, the nesting of indentations, the scope of     *)
(* anchors and the unwinding after an error.  One inductive invariant,     *)
(* IInv, carries all five.                                                 *)
(***************************************************************************)
EXTENDS ParserProps, Facts

(***************************************************************************)
(* The inductive invariant.                                                *)
(***************************************************************************)
Fns      == {"node"} \cup Flow \cup Block
Fields   == DOMAIN Frame("node", 0, 1)
Brackets == {"FLOW_SEQ_START", "FLOW_MAP_START"}
Markers  == {"DOC_START", "DOC_END"}
Waiting  == {"tail", "elem", "put"}    \* where a caller waits for its callee

(* Frame f, the i-th of n, while the cursor is at p, p->ok is k and the    *)
(* tokens are T.  The call was made at a token of its own: a collection's  *)
(* frame at least at token i/2, a node's at (i+1)/2; a flow collection has *)
(* read its bracket by the time it loops; and after an error only frames   *)
(* that unwind are left.                                                   *)
Good(f, i, n, p, k, T) ==
  /\ DOMAIN f = Fields
  /\ f.fn \in Fns
  /\ f.lc \in Labels(f.fn)
  /\ f.col \in Nat
  /\ f.at \in 1..p
  /\ i + (IF f.fn = "node" THEN 1 ELSE 0) <= 2 * f.at
  /\ f.fn \in Flow => IF f.lc = "enter" THEN f.at = p /\ T[p].type \in Brackets
                                        ELSE f.at < p
  /\ i < n => f.lc \in Waiting
  /\ i = n /\ k # 0 => f.lc \in Waiting \cup {"close"}

(* A caller f and its callee g: the columns. *)
Link(f, g) ==
  /\ f.fn \in Block => g.fn = "node" /\ g.col = f.col + 1
  /\ f.fn = "node" /\ g.fn \in Block => g.col >= f.col

Shape(s, p, k, T) ==
  /\ IsSeq(s)
  /\ \A i \in 1..Len(s) : Good(s[i], i, Len(s), p, k, T)
  /\ \A i \in 1..Len(s) - 1 : Link(s[i], s[i + 1])

Scoped(table, p, T) ==
  /\ IsSeq(table)
  /\ \A e \in 1..Len(table) :
       /\ table[e].at \in 1..p
       /\ \A j \in table[e].at .. p - 1 : T[j].type \notin Markers

IInv ==
  /\ tokens \in Inputs
  /\ pos \in 1..Len(tokens)
  /\ pc \in {"call", "loop", "parsing", "done", "end", "refused", "crashed"}
  /\ mode \in Modes
  /\ alloc \in Allocators
  /\ ok \in {0, 1}
  /\ pc \in {"call", "loop"} => ok = 0 /\ stack = <<>>
  /\ pc = "call" => anchors = <<>>
  /\ Shape(stack, pos, ok, tokens)
  /\ Scoped(anchors, pos, tokens)
  /\ IsSeq(docs)

(***************************************************************************)
(* The three things a step does to the stack keep its shape.               *)
(***************************************************************************)
Alike(f, g) == DOMAIN f = Fields /\ f.fn = g.fn /\ f.col = g.col /\ f.at = g.at

(* A frame that waits stays good while the cursor moves on, whatever       *)
(* becomes of the frames above it.                                         *)
LEMMA GoodWaits ==
  ASSUME NEW f, NEW i \in Nat, NEW n, NEW l, NEW p \in Nat, NEW q \in Nat,
         NEW k, NEW m, NEW T, Good(f, i, n, p, k, T), f.lc \in Waiting, p <= q
  PROVE  Good(f, i, l, q, m, T)
BY DEF Good, Waiting

(* SetTop: the cursor moves forward and the top frame is good where it     *)
(* arrives.                                                                *)
LEMMA ShapeSetTop ==
  ASSUME NEW s, NEW p \in Nat, NEW k, NEW T, Shape(s, p, k, T), s # <<>>,
         NEW q \in Nat, p <= q, NEW m, NEW f, Alike(f, s[Len(s)]),
         Good(f, Len(s), Len(s), q, m, T)
  PROVE  Shape([s EXCEPT ![Len(s)] = f], q, m, T)
<1> DEFINE n == Len(s)
           t == [s EXCEPT ![n] = f]
<1>1. IsSeq(s) /\ n \in Nat /\ n > 0  BY SeqDomain DEF Shape
<1>2. /\ IsSeq(t)
      /\ Len(t) = n
      /\ \A i \in 1..n - 1 : t[i] = s[i]
      /\ t[n] = f
  BY <1>1, SeqSetTop
<1> HIDE DEF t
<1>3. ASSUME NEW i \in 1..n PROVE Good(t[i], i, n, q, m, T)
  <2>1. CASE i = n  BY <2>1, <1>2
  <2>2. CASE i # n
    <3>1. Good(s[i], i, n, p, k, T) /\ t[i] = s[i] /\ i < n
      BY <2>2, <1>1, <1>2 DEF Shape
    <3> QED BY <3>1, <1>1 DEF Good, Waiting
  <2> QED BY <2>1, <2>2
<1>4. ASSUME NEW i \in 1..n - 1 PROVE Link(t[i], t[i + 1])
  <2>1. Link(s[i], s[i + 1]) /\ t[i] = s[i]  BY <1>1, <1>2 DEF Shape
  <2>2. CASE i + 1 = n  BY <2>1, <2>2, <1>2 DEF Link, Alike
  <2>3. CASE i + 1 # n  BY <2>1, <2>3, <1>1, <1>2
  <2> QED BY <2>2, <2>3
<1> QED BY <1>2, <1>3, <1>4 DEF Shape, t

(* Call: the caller waits, and the callee is good and linked to it. *)
LEMMA ShapeCall ==
  ASSUME NEW s, NEW p \in Nat, NEW k, NEW T, Shape(s, p, k, T), s # <<>>,
         NEW q \in Nat, p <= q, NEW m, NEW f, NEW g, Alike(f, s[Len(s)]),
         Good(f, Len(s), Len(s) + 1, q, m, T),
         Good(g, Len(s) + 1, Len(s) + 1, q, m, T), Link(f, g)
  PROVE  Shape(Append([s EXCEPT ![Len(s)] = f], g), q, m, T)
<1> DEFINE n == Len(s)
           r == [s EXCEPT ![n] = f]
           t == Append(r, g)
<1>1. IsSeq(s) /\ n \in Nat /\ n > 0  BY SeqDomain DEF Shape
<1>2. /\ IsSeq(r)
      /\ Len(r) = n
      /\ \A i \in 1..n - 1 : r[i] = s[i]
      /\ r[n] = f
  BY <1>1, SeqSetTop
<1> HIDE DEF r
<1>3. /\ IsSeq(t)
      /\ Len(t) = n + 1
      /\ \A i \in 1..n : t[i] = r[i]
      /\ t[n + 1] = g
  BY <1>2, SeqAppend
<1> HIDE DEF t
<1>4. ASSUME NEW i \in 1..n + 1 PROVE Good(t[i], i, n + 1, q, m, T)
  <2>1. CASE i = n + 1  BY <2>1, <1>3
  <2>2. CASE i = n  BY <2>2, <1>1, <1>2, <1>3
  <2>3. CASE i # n /\ i # n + 1
    <3>1. Good(s[i], i, n, p, k, T) /\ t[i] = s[i] /\ i < n
      BY <2>3, <1>1, <1>2, <1>3 DEF Shape
    <3>2. s[i].lc \in Waiting  BY <3>1 DEF Good
    <3> QED BY <3>1, <3>2, <1>1, GoodWaits
  <2> QED BY <2>1, <2>2, <2>3
<1>5. ASSUME NEW i \in 1..n PROVE Link(t[i], t[i + 1])
  <2>1. CASE i = n  BY <2>1, <1>1, <1>2, <1>3
  <2>2. CASE i # n
    <3>1. Link(s[i], s[i + 1]) /\ t[i] = s[i]
      BY <2>2, <1>1, <1>2, <1>3 DEF Shape
    <3>2. CASE i + 1 = n  BY <3>1, <3>2, <1>1, <1>2, <1>3 DEF Link, Alike
    <3>3. CASE i + 1 # n  BY <2>2, <3>1, <3>3, <1>1, <1>2, <1>3
    <3> QED BY <3>2, <3>3
  <2> QED BY <2>1, <2>2
<1> QED BY <1>3, <1>4, <1>5, <1>1 DEF Shape, t, r

(* Return: the caller was waiting. *)
LEMMA ShapeReturn ==
  ASSUME NEW s, NEW p \in Nat, NEW k, NEW T, Shape(s, p, k, T), s # <<>>,
         NEW q \in Nat, p <= q, NEW m
  PROVE  Shape(SubSeq(s, 1, Len(s) - 1), q, m, T)
<1> DEFINE n == Len(s)
           t == SubSeq(s, 1, n - 1)
<1>1. IsSeq(s) /\ n \in Nat /\ n > 0  BY SeqDomain DEF Shape
<1>2. /\ IsSeq(t)
      /\ Len(t) = n - 1
      /\ \A i \in 1..n - 1 : t[i] = s[i]
  BY <1>1, SeqReturn
<1> HIDE DEF t
<1>3. ASSUME NEW i \in 1..n - 1 PROVE Good(t[i], i, n - 1, q, m, T)
  <2>1. Good(s[i], i, n, p, k, T) /\ t[i] = s[i] /\ i < n
    BY <1>1, <1>2 DEF Shape
  <2> QED BY <2>1, <1>1 DEF Good, Waiting
<1>4. ASSUME NEW i \in 1..(n - 1) - 1 PROVE Link(t[i], t[i + 1])
  <2>1. i \in 1..n - 1 /\ i + 1 \in 1..n - 1
    BY <1>1
  <2>2. t[i] = s[i] /\ t[i + 1] = s[i + 1]
    BY <1>2, <2>1
  <2>3. Link(s[i], s[i + 1])
    BY <2>1 DEF Shape
  <2> QED BY <2>2, <2>3, Zenon
<1> QED BY <1>2, <1>3, <1>4, <1>1 DEF Shape, t

(***************************************************************************)
(* Tokens, anchors and the step lemmas.                                    *)
(***************************************************************************)
(* What InputsAssumption says of one array: a token that is not EOF has    *)
(* one behind it.                                                          *)
LEMMA Tokens ==
  ASSUME NEW T \in Inputs
  PROVE  /\ Len(T) \in Nat
         /\ Len(T) > 0
         /\ DOMAIN T = 1..Len(T)
         /\ \A i \in 1..Len(T) :
              /\ T[i].col \in Nat
              /\ T[i].type # "EOF" => i + 1 \in 1..Len(T)
              /\ T[i].type = "EOF" <=> i = Len(T)
<1> DEFINE R == [type : TokenTypes, line : Nat, col : Nat, kind : Kinds,
                 val : STRING]
<1>1. /\ T \in Seq(R)
      /\ Len(T) > 0
      /\ \A i \in 1..Len(T) : T[i].type = "EOF" <=> i = Len(T)
  BY InputsAssumption
<1> HIDE DEF R
<1>2. Len(T) \in Nat /\ DOMAIN T = 1..Len(T)  BY <1>1
<1>3. ASSUME NEW i \in 1..Len(T) PROVE T[i].col \in Nat
  <2>1. T[i] \in R  BY <1>1
  <2> QED BY <2>1 DEF R
<1>4. ASSUME NEW i \in 1..Len(T), T[i].type # "EOF"
      PROVE  i + 1 \in 1..Len(T)
  <2>1. i # Len(T)  BY <1>1, <1>4
  <2>2. \A n \in Nat : \A k \in 1..n : k # n => k + 1 \in 1..n  OBVIOUS
  <2> QED BY <2>1, <2>2, <1>2
<1> QED BY <1>1, <1>2, <1>3, <1>4

(* The anchors' scope while the cursor passes no marker. *)
LEMMA ScopedMoves ==
  ASSUME NEW table, NEW p \in Nat, NEW q \in Nat, NEW T, Scoped(table, p, T),
         p <= q, \A j \in p .. q - 1 : T[j].type \notin Markers
  PROVE  Scoped(table, q, T)
<1>1. IsSeq(table)  BY DEF Scoped
<1>2. ASSUME NEW e \in 1..Len(table), NEW j \in table[e].at .. q - 1
      PROVE  T[j].type \notin Markers
  <2>1. CASE j < p  BY <2>1, <1>1, SeqDomain DEF Scoped
  <2>2. CASE j >= p  BY <2>2, <1>1, SeqDomain DEF Scoped
  <2> QED BY <2>1, <2>2, <1>1, SeqDomain DEF Scoped
<1>3. ASSUME NEW e \in 1..Len(table) PROVE table[e].at \in 1..q
  BY <1>1, SeqDomain DEF Scoped
<1> QED BY <1>1, <1>2, <1>3 DEF Scoped

(* An empty table, and a new entry at the cursor. *)
LEMMA ScopedEmpty == ASSUME NEW p, NEW T PROVE Scoped(<<>>, p, T)
<1>1. <<>> \in Seq({}) /\ Len(<<>>) = 0  OBVIOUS
<1>2. IsSeq(<<>>)  BY <1>1, SeqIntro
<1> QED BY <1>1, <1>2 DEF Scoped

LEMMA ScopedAppend ==
  ASSUME NEW table, NEW p \in Nat \ {0}, NEW T, Scoped(table, p, T),
         NEW e, e.at = p
  PROVE  Scoped(Append(table, e), p, T)
<1> DEFINE t == Append(table, e)
           l == Len(table)
<1>1. IsSeq(table) /\ l \in Nat  BY SeqDomain DEF Scoped
<1>2. /\ IsSeq(t)
      /\ Len(t) = l + 1
      /\ \A i \in 1..l : t[i] = table[i]
      /\ t[l + 1] = e
  BY <1>1, SeqAppend
<1> HIDE DEF t
<1>3. ASSUME NEW i \in 1..l + 1
      PROVE  /\ t[i].at \in 1..p
             /\ \A j \in t[i].at .. p - 1 : T[j].type \notin Markers
  <2>1. CASE i = l + 1  BY <2>1, <1>2
  <2>2. CASE i # l + 1
    <3>1. i \in 1..l /\ t[i] = table[i]  BY <2>2, <1>1, <1>2
    <3> QED BY <3>1 DEF Scoped
  <2> QED BY <2>1, <2>2
<1> QED BY <1>2, <1>3 DEF Scoped, t

(* The top frame is good. *)
LEMMA TopGood ==
  ASSUME IInv, stack # <<>>
  PROVE  /\ Len(stack) \in Nat \ {0}
         /\ Good(Top, Len(stack), Len(stack), pos, ok, tokens)
         /\ pos \in Nat \ {0}
         /\ tokens \in Inputs
BY SeqDomain, Tokens DEF IInv, Shape, Top

(* A step inside the descent that leaves the anchors alone. *)
LEMMA DescentStep ==
  ASSUME IInv, Keep, pc = "parsing", anchors' = anchors, ok' \in {0, 1},
         pos' \in pos..Len(tokens),
         \A j \in pos .. pos' - 1 : tokens[j].type \notin Markers,
         Shape(stack', pos', ok', tokens')
  PROVE  IInv'
<1>1. pos \in Nat /\ pos' \in Nat /\ pos <= pos' /\ pos' \in 1..Len(tokens)
  BY Tokens DEF IInv
<1>2. Scoped(anchors', pos', tokens')
  BY <1>1, ScopedMoves DEF IInv, Keep
<1> QED BY <1>1, <1>2 DEF IInv, Keep

(* Its effect on the stack: the top frame takes a new label, ... *)
LEMMA SetTopStep ==
  ASSUME IInv, stack # <<>>, tokens' = tokens, pos' \in pos..Len(tokens),
         NEW f, SetTop(f), Alike(f, Top),
         f.lc \in Labels(f.fn), f.lc # "enter",
         Top.fn \in Flow => Top.at < pos',
         ok' # 0 => f.lc \in Waiting \cup {"close"}
  PROVE  Shape(stack', pos', ok', tokens')
<1>1. /\ Len(stack) \in Nat \ {0}
      /\ Good(Top, Len(stack), Len(stack), pos, ok, tokens)
      /\ pos \in Nat /\ pos' \in Nat /\ pos <= pos'
  BY TopGood, Tokens DEF IInv
<1>2. Good(f, Len(stack), Len(stack), pos', ok', tokens)
  BY <1>1 DEF Good, Alike
<1>3. Shape(stack, pos, ok, tokens)  BY DEF IInv
<1> QED BY <1>1, <1>2, <1>3, ShapeSetTop DEF SetTop, Top

(* ... waits for a new frame, ... *)
LEMMA CallStep ==
  ASSUME IInv, stack # <<>>, tokens' = tokens, pos' \in pos..Len(tokens),
         NEW f, NEW fn \in Fns, NEW col \in Nat, NEW at \in 1..pos',
         Call(f, fn, col, at), Alike(f, Top),
         f.lc \in Labels(f.fn) \cap Waiting,
         Top.fn \in Flow => Top.at < pos',
         ok' = 0,
         fn = "node" => Top.fn # "node" /\ Top.at < at,
         fn # "node" => Top.fn = "node" /\ Top.at <= at,
         fn \in Flow => at = pos' /\ tokens[at].type \in Brackets,
         Link(Top, Frame(fn, col, at))
  PROVE  Shape(stack', pos', ok', tokens')
<1> DEFINE g == Frame(fn, col, at)
<1>1. /\ Len(stack) \in Nat \ {0}
      /\ Good(Top, Len(stack), Len(stack), pos, ok, tokens)
      /\ pos \in Nat /\ pos' \in Nat /\ pos <= pos'
  BY TopGood, Tokens DEF IInv
<1>2. Good(f, Len(stack), Len(stack) + 1, pos', ok', tokens)
  BY <1>1 DEF Good, Alike, Waiting
<1>3. /\ DOMAIN g = Fields /\ g.fn = fn /\ g.lc = "enter"
      /\ g.col = col /\ g.at = at /\ "enter" \in Labels(fn)
  BY DEF Frame, Fields, Labels, Fns, Flow, Block
<1>4. Len(stack) + 1 + (IF fn = "node" THEN 1 ELSE 0) <= 2 * at
  BY <1>1 DEF Good
<1>5. Good(g, Len(stack) + 1, Len(stack) + 1, pos', ok', tokens)
  BY <1>1, <1>3, <1>4 DEF Good
<1>6. Link(f, g)  BY DEF Link, Alike
<1>7. Shape(stack, pos, ok, tokens)  BY DEF IInv
<1> HIDE DEF g
<1>8. Shape(Append([stack EXCEPT ![Len(stack)] = f], g), pos', ok', tokens)
  BY <1>1, <1>2, <1>5, <1>6, <1>7, ShapeCall DEF Top
<1> QED BY <1>8 DEF Call, g

(* ... or is gone. *)
LEMMA ReturnStep ==
  ASSUME IInv, stack # <<>>, tokens' = tokens, pos' \in pos..Len(tokens),
         NEW v, Return(v)
  PROVE  Shape(stack', pos', ok', tokens')
<1>1. pos \in Nat /\ pos' \in Nat /\ pos <= pos'
  BY Tokens DEF IInv
<1>2. Shape(stack, pos, ok, tokens)  BY DEF IInv
<1> QED BY <1>1, <1>2, ShapeReturn DEF Return

(***************************************************************************)
(* parse_node.                                                             *)
(***************************************************************************)
(* What every action inside the descent may count on. *)
LEMMA InDescent ==
  ASSUME IInv, NEW fn, NEW lc, At(fn, lc)
  PROVE  /\ pc = "parsing" /\ stack # <<>>
         /\ Top.fn = fn /\ Top.lc = lc
         /\ DOMAIN Top = Fields
         /\ Top.col \in Nat /\ Top.at \in 1..pos
         /\ Len(stack) \in Nat \ {0}
         /\ pos \in Nat /\ pos \in 1..Len(tokens)
         /\ tokens \in Inputs /\ Len(tokens) \in Nat
         /\ ok \in {0, 1}
         /\ ok # 0 => lc \in Waiting \cup {"close"}
         /\ fn \in Flow /\ lc # "enter" => Top.at < pos
         /\ fn \in Flow /\ lc = "enter" => Top.at = pos /\ Cur.type \in Brackets
BY TopGood, Tokens DEF At, IInv, Good, Cur

(* The cursor steps over k tokens, none a marker and none the last. *)
LEMMA Past ==
  ASSUME IInv, NEW k \in 0..3, pos' = pos + k,
         \A j \in 0 .. k - 1 : tokens[pos + j].type \notin Markers \cup {"EOF"}
  PROVE  /\ pos' \in pos..Len(tokens)
         /\ \A j \in pos .. pos' - 1 : tokens[j].type \notin Markers
<1>1. /\ pos \in Nat /\ pos \in 1..Len(tokens) /\ Len(tokens) \in Nat
      /\ tokens \in Inputs
  BY Tokens DEF IInv
<1>2. \A i \in 1..Len(tokens) :
        tokens[i].type # "EOF" => i + 1 \in 1..Len(tokens)
  BY <1>1, Tokens
<1>3. k >= 1 => pos + 1 \in 1..Len(tokens)
  <2> SUFFICES ASSUME k >= 1 PROVE pos + 1 \in 1..Len(tokens)  OBVIOUS
  <2>1. tokens[pos + 0].type # "EOF" /\ pos + 0 = pos  BY <1>1
  <2> QED BY <2>1, <1>1, <1>2
<1>4. k >= 2 => pos + 2 \in 1..Len(tokens)
  <2> SUFFICES ASSUME k >= 2 PROVE pos + 2 \in 1..Len(tokens)  OBVIOUS
  <2>1. tokens[pos + 1].type # "EOF"  BY <1>1
  <2> QED BY <2>1, <1>1, <1>2, <1>3
<1>5. k >= 3 => pos + 3 \in 1..Len(tokens)
  <2> SUFFICES ASSUME k >= 3 PROVE pos + 3 \in 1..Len(tokens)  OBVIOUS
  <2>1. tokens[pos + 2].type # "EOF"  BY <1>1
  <2> QED BY <2>1, <1>1, <1>2, <1>4
<1>6. ASSUME NEW j \in pos .. pos' - 1 PROVE tokens[j].type \notin Markers
  <2>1. j - pos \in 0 .. k - 1 /\ pos + (j - pos) = j  BY <1>1
  <2> QED BY <2>1
<1> QED BY <1>1, <1>3, <1>4, <1>5, <1>6

(* A step that only moves the top frame to another label. *)
LEMMA GotoStep ==
  ASSUME IInv, stack # <<>>, tokens' = tokens, pos' \in pos..Len(tokens),
         NEW l, SetTop(Goto(l)), l \in Labels(Top.fn), l # "enter",
         Top.fn \in Flow => Top.at < pos',
         ok' # 0 => l \in Waiting \cup {"close"}
  PROVE  Shape(stack', pos', ok', tokens')
<1>1. DOMAIN Top = Fields  BY TopGood DEF Good
<1>2. Alike(Goto(l), Top) /\ Goto(l).lc = l
  BY <1>1 DEF Goto, Alike, Fields, Frame
<1> QED BY <1>2, SetTopStep DEF Alike

(* A step that leaves the whole stack alone. *)
LEMMA StayStep ==
  ASSUME IInv, stack # <<>>, tokens' = tokens, pos' \in pos..Len(tokens),
         stack' = stack, Top.lc # "enter", Top.fn \in Flow => Top.at < pos',
         ok' = ok
  PROVE  Shape(stack', pos', ok', tokens')
<1> DEFINE n == Len(stack)
<1>1. /\ n \in Nat \ {0}
      /\ Good(Top, n, n, pos, ok, tokens)
      /\ pos \in Nat /\ pos' \in Nat /\ pos <= pos'
  BY TopGood, Tokens DEF IInv
<1>2. IsSeq(stack) /\ Shape(stack, pos, ok, tokens)  BY DEF IInv, Shape
<1>3. Good(Top, n, n, pos', ok', tokens) /\ Alike(Top, Top)
  BY <1>1 DEF Good, Alike
<1>4. Shape([stack EXCEPT ![n] = Top], pos', ok', tokens)
  BY <1>1, <1>2, <1>3, ShapeSetTop DEF Top
<1>5. stack = [stack EXCEPT ![n] = Top]
  BY <1>2, SeqDomain DEF Top, IsSeq
<1> QED BY <1>4, <1>5

LEMMA NodePropsInv == IInv /\ NodeProps => IInv'
<1> SUFFICES ASSUME IInv, NodeProps PROVE IInv'  OBVIOUS
<1> DEFINE p1 == IF Cur.type = "TAG" THEN pos + 1 ELSE pos
           p2 == IF tokens[p1].type = "ANCHOR" THEN p1 + 1 ELSE p1
           f  == [Top EXCEPT !.lc = "dispatch",
                    !.tag    = IF p1 > pos THEN Cur.val ELSE None,
                    !.anchor = IF p2 > p1 THEN tokens[p1].val ELSE None]
<1>1. At("node", "enter") /\ ok = 0
  <2>1. At("node", "enter")  BY DEF NodeProps
  <2> QED BY <2>1, InDescent DEF Waiting
<1>1a. /\ pos' = p2 /\ SetTop(f)
      /\ Keep /\ ok' = ok /\ anchors' = anchors
  BY <1>1 DEF NodeProps, Quiet, NoError
<1>2. /\ pc = "parsing" /\ stack # <<>>
      /\ Top.fn = "node" /\ DOMAIN Top = Fields
      /\ ok \in {0, 1} /\ ok = 0
      /\ pos \in Nat /\ pos \in 1..Len(tokens) /\ Len(tokens) \in Nat
      /\ tokens \in Inputs
  BY <1>1, InDescent DEF Waiting
<1>3. \A i \in 1..Len(tokens) :
        tokens[i].type # "EOF" => i + 1 \in 1..Len(tokens)
  <2> HIDE DEF p1, p2, f
  <2> QED BY <1>2, Tokens
<1>4. /\ p1 \in pos..Len(tokens)
      /\ \A j \in pos .. p1 - 1 : tokens[j].type = "TAG"
  BY <1>2, <1>3 DEF Cur
<1>5. /\ p2 \in p1..Len(tokens)
      /\ \A j \in p1 .. p2 - 1 : tokens[j].type = "ANCHOR"
  <2> HIDE DEF p1
  <2> QED BY <1>2, <1>3, <1>4
<1>6. /\ pos' \in pos..Len(tokens)
      /\ \A j \in pos .. pos' - 1 : tokens[j].type \notin Markers
  <2> HIDE DEF p1, p2
  <2> QED BY <1>1a, <1>2, <1>4, <1>5 DEF Markers
<1>7. Alike(f, Top) /\ f.lc = "dispatch"
  <2> HIDE DEF p1, p2
  <2> QED BY <1>2 DEF Alike, Fields, Frame
<1> HIDE DEF p1, p2, f
<1>8. Shape(stack', pos', ok', tokens')
  BY <1>1a, <1>2, <1>6, <1>7, SetTopStep DEF Keep, Labels, Alike, Flow
<1> QED BY <1>1a, <1>2, <1>6, <1>8, DescentStep

LEMMA NodeAliasInv == IInv /\ NodeAlias => IInv'
<1> SUFFICES ASSUME IInv, NodeAlias PROVE IInv'  OBVIOUS
<1>1. /\ At("node", "dispatch") /\ Cur.type = "ALIAS"
      /\ SetTop(Goto("tail")) /\ pos' = pos + 1
      /\ Keep /\ NoError /\ anchors' = anchors
  BY DEF NodeAlias, Leaf
<1>2. /\ pc = "parsing" /\ stack # <<>> /\ Top.fn = "node"
      /\ ok \in {0, 1} /\ pos \in Nat
  BY <1>1, InDescent
<1>3. /\ pos' \in pos..Len(tokens)
      /\ \A j \in pos .. pos' - 1 : tokens[j].type \notin Markers
  BY <1>1, <1>2, Past DEF Cur, Markers
<1>4. Shape(stack', pos', ok', tokens')
  BY <1>1, <1>2, <1>3, GotoStep DEF Keep, Labels, Flow, Waiting
<1> QED BY <1>1, <1>2, <1>3, <1>4, DescentStep DEF NoError

LEMMA NodeUnknownAliasInv == IInv /\ NodeUnknownAlias => IInv'
<1> SUFFICES ASSUME IInv, NodeUnknownAlias PROVE IInv'  OBVIOUS
<1>1. /\ At("node", "dispatch") /\ Return(Nil) /\ ok' = 1
      /\ Keep /\ pos' = pos /\ anchors' = anchors
  BY DEF NodeUnknownAlias, parse_error
<1>2. /\ pc = "parsing" /\ stack # <<>> /\ pos \in Nat
      /\ pos' \in pos..Len(tokens)
  BY <1>1, InDescent
<1>3. Shape(stack', pos', ok', tokens')
  BY <1>1, <1>2, ReturnStep DEF Keep
<1> QED BY <1>1, <1>2, <1>3, DescentStep

LEMMA NodeScalarInv == IInv /\ NodeScalar => IInv'
<1> SUFFICES ASSUME IInv, NodeScalar PROVE IInv'  OBVIOUS
<1>1. /\ At("node", "dispatch") /\ Cur.type = "SCALAR"
      /\ SetTop(Goto("tail")) /\ pos' = pos + 1
      /\ Keep /\ ok' \in {1, ok} /\ anchors' = anchors
  BY DEF NodeScalar, Leaf, NoError, parse_error
<1>2. /\ pc = "parsing" /\ stack # <<>> /\ Top.fn = "node"
      /\ ok \in {0, 1} /\ pos \in Nat
  BY <1>1, InDescent
<1>3. /\ pos' \in pos..Len(tokens)
      /\ \A j \in pos .. pos' - 1 : tokens[j].type \notin Markers
  BY <1>1, <1>2, Past DEF Cur, Markers
<1>4. Shape(stack', pos', ok', tokens')
  BY <1>1, <1>2, <1>3, GotoStep DEF Keep, Labels, Flow, Waiting
<1> QED BY <1>1, <1>2, <1>3, <1>4, DescentStep

LEMMA NodeEmptyInv == IInv /\ NodeEmpty => IInv'
<1> SUFFICES ASSUME IInv, NodeEmpty PROVE IInv'  OBVIOUS
<1>1. /\ At("node", "dispatch") /\ SetTop(Goto("tail")) /\ pos' = pos
      /\ Keep /\ NoError /\ anchors' = anchors
  BY DEF NodeEmpty, Leaf
<1>2. /\ pc = "parsing" /\ stack # <<>> /\ Top.fn = "node"
      /\ ok \in {0, 1} /\ pos \in Nat /\ pos' \in pos..Len(tokens)
  BY <1>1, InDescent
<1>3. Shape(stack', pos', ok', tokens')
  BY <1>1, <1>2, GotoStep DEF Keep, Labels, Flow, Waiting
<1> QED BY <1>1, <1>2, <1>3, DescentStep DEF NoError

LEMMA NodeNoValueInv == IInv /\ NodeNoValue => IInv'
<1> SUFFICES ASSUME IInv, NodeNoValue PROVE IInv'  OBVIOUS
<1>1. /\ At("node", "tail") /\ Return(Nil) /\ ok' = 1
      /\ Keep /\ pos' = pos /\ anchors' = anchors
  BY DEF NodeNoValue, parse_error
<1>2. /\ pc = "parsing" /\ stack # <<>> /\ pos \in Nat
      /\ pos' \in pos..Len(tokens)
  BY <1>1, InDescent
<1>3. Shape(stack', pos', ok', tokens')
  BY <1>1, <1>2, ReturnStep DEF Keep
<1> QED BY <1>1, <1>2, <1>3, DescentStep

(* The four collections a node may be; a block collection is no shallower. *)
LEMMA NodeCollectionInv == IInv /\ NodeCollection => IInv'
<1> SUFFICES ASSUME IInv, NodeCollection PROVE IInv'  OBVIOUS
<1>1. /\ At("node", "dispatch") /\ pos' = pos /\ Idle
      /\ \E fn \in Flow \cup Block, col \in {0, Cur.col} :
           /\ Call(Goto("tail"), fn, col, pos)
           /\ fn \in Flow => Cur.type \in Brackets
           /\ col \in Nat
           /\ fn \in Block => col >= Top.col
  <2>1. Cur.col \in Nat /\ 0 \in Nat
    BY InDescent, Tokens DEF NodeCollection, Cur
  <2> QED BY <2>1 DEF NodeCollection, Flow, Block, Brackets
<1>2. /\ pc = "parsing" /\ stack # <<>> /\ Top.fn = "node"
      /\ DOMAIN Top = Fields /\ Top.at \in 1..pos
      /\ ok \in {0, 1} /\ ok = 0 /\ pos \in Nat /\ pos \in 1..Len(tokens)
      /\ pos' \in pos..Len(tokens)
  BY <1>1, InDescent DEF Waiting
<1>3. PICK fn \in Flow \cup Block, col \in {0, Cur.col} :
           /\ Call(Goto("tail"), fn, col, pos)
           /\ fn \in Flow => Cur.type \in Brackets
           /\ col \in Nat
           /\ fn \in Block => col >= Top.col
  BY <1>1
<1>4. Shape(stack', pos', ok', tokens')
  <2>1. Alike(Goto("tail"), Top) /\ Goto("tail").lc = "tail"
    BY <1>2 DEF Goto, Alike, Fields, Frame
  <2>2. fn \in Fns /\ fn # "node"  BY DEF Fns, Flow, Block
  <2>3. Link(Top, Frame(fn, col, pos))
    BY <1>2, <1>3 DEF Link, Frame, Block
  <2>4. Goto("tail").lc \in Labels(Goto("tail").fn) \cap Waiting
    BY <1>2, <2>1 DEF Labels, Waiting, Alike
  <2>5. tokens' = tokens /\ ok' = 0 /\ pos \in 1..pos'
    BY <1>1, <1>2 DEF Idle, Quiet, Keep, NoError
  <2>6. Top.fn \notin Flow  BY <1>2 DEF Flow
  <2> QED BY <1>1, <1>2, <1>3, <2>1, <2>2, <2>3, <2>4, <2>5, <2>6, CallStep
          DEF Cur
<1> QED BY <1>1, <1>2, <1>4, DescentStep DEF Idle, Quiet, Keep, NoError

(* The exit may add an anchor, at the cursor. *)
LEMMA NodeTailInv == IInv /\ NodeTail => IInv'
<1> SUFFICES ASSUME IInv, NodeTail PROVE IInv'  OBVIOUS
<1>1. /\ At("node", "tail") /\ pos' = pos /\ Keep /\ NoError
      /\ \E v : Return(v)
      /\ \/ anchors' = anchors
         \/ \E e : anchors' = Append(anchors, e) /\ e.at = pos
  BY DEF NodeTail
<1>2. /\ pc = "parsing" /\ stack # <<>> /\ pos \in Nat \ {0}
      /\ pos' \in pos..Len(tokens)
  BY <1>1, InDescent
<1>3. Shape(stack', pos', ok', tokens')
  BY <1>1, <1>2, ReturnStep DEF Keep
<1>4. Scoped(anchors', pos', tokens')
  BY <1>1, <1>2, ScopedAppend DEF IInv, Keep
<1> QED BY <1>1, <1>2, <1>3, <1>4 DEF IInv, Keep, NoError

(* The process dies where it stands. *)
LEMMA CrashInv == IInv /\ Crash => IInv'
BY DEF IInv, Crash

(***************************************************************************)
(* The collection functions.                                               *)
(***************************************************************************)
LEMMA EnterInv == ASSUME NEW fn \in Flow \cup Block PROVE IInv /\ Enter(fn) => IInv'
<1> SUFFICES ASSUME IInv, Enter(fn) PROVE IInv'  OBVIOUS
<1> DEFINE f == [Top EXCEPT !.lc = "loop", !.v = Empty(fn)]
<1>1. /\ At(fn, "enter") /\ Keep /\ anchors' = anchors
      /\ pos' = IF fn \in Flow THEN Advance(pos) ELSE pos
      /\ \/ SetTop(f) /\ NoError
         \/ Return(Nil) /\ ok' = 1
  BY DEF Enter, parse_error
<1>2. /\ pc = "parsing" /\ stack # <<>> /\ Top.fn = fn
      /\ DOMAIN Top = Fields /\ Top.at \in 1..pos
      /\ ok \in {0, 1} /\ ok = 0 /\ pos \in Nat /\ pos \in 1..Len(tokens)
      /\ fn \in Flow => Top.at = pos /\ Cur.type \in Brackets
  BY <1>1, InDescent DEF Waiting
<1>3. /\ pos' \in pos..Len(tokens)
      /\ \A j \in pos .. pos' - 1 : tokens[j].type \notin Markers
      /\ fn \in Flow => Top.at < pos'
  <2>1. CASE fn \in Flow
    <3>1. pos' = pos + 1 /\ Cur.type \notin Markers \cup {"EOF"}
      BY <1>1, <1>2, <2>1 DEF Advance, Cur, Brackets, Markers
    <3> QED BY <1>2, <3>1, Past DEF Cur
  <2>2. CASE fn \notin Flow  BY <1>1, <1>2, <2>2
  <2> QED BY <2>1, <2>2
<1>4. Shape(stack', pos', ok', tokens')
  <2>1. CASE SetTop(f) /\ NoError
    <3>1. Alike(f, Top) /\ f.lc = "loop"  BY <1>2 DEF Alike, Fields, Frame
    <3>2. "loop" \in Labels(fn)  BY DEF Labels, Flow, Block
    <3> HIDE DEF f
    <3> QED BY <1>1, <1>2, <1>3, <2>1, <3>1, <3>2, SetTopStep
            DEF Keep, NoError, Alike
  <2>2. CASE Return(Nil)  BY <1>1, <1>2, <1>3, <2>2, ReturnStep DEF Keep
  <2> QED BY <1>1, <2>1, <2>2
<1> QED BY <1>1, <1>2, <1>3, <1>4, DescentStep DEF NoError

LEMMA PushElemInv ==
  ASSUME NEW fn \in {"fseq", "bseq"} PROVE IInv /\ PushElem(fn) => IInv'
<1> SUFFICES ASSUME IInv, PushElem(fn) PROVE IInv'  OBVIOUS
<1> DEFINE f == [Top EXCEPT !.lc = "loop", !.v = Push(@, ret)]
<1>1. /\ At(fn, "elem") /\ Keep /\ NoError /\ pos' = pos /\ anchors' = anchors
      /\ \/ SetTop(Goto("close"))
         \/ ok = 0 /\ SetTop(f)
  BY DEF PushElem, Quiet, Failed, Break
<1>2. /\ pc = "parsing" /\ stack # <<>> /\ Top.fn = fn
      /\ DOMAIN Top = Fields
      /\ ok \in {0, 1} /\ pos \in Nat /\ pos' \in pos..Len(tokens)
      /\ fn \in Flow => Top.at < pos
  BY <1>1, InDescent
<1>3. {"close", "loop"} \subseteq Labels(fn)  BY DEF Labels
<1>4. Shape(stack', pos', ok', tokens')
  <2>1. CASE SetTop(Goto("close"))
    BY <1>1, <1>2, <1>3, <2>1, GotoStep DEF Keep
  <2>2. CASE ok = 0 /\ SetTop(f)
    <3>1. Alike(f, Top) /\ f.lc = "loop"  BY <1>2 DEF Alike, Fields, Frame
    <3> HIDE DEF f
    <3> QED BY <1>1, <1>2, <1>3, <2>2, <3>1, SetTopStep DEF Keep, NoError, Alike
  <2> QED BY <1>1, <2>1, <2>2
<1> QED BY <1>1, <1>2, <1>4, DescentStep DEF NoError

LEMMA PutPairInv ==
  ASSUME NEW fn \in {"fmap", "bmap"} PROVE IInv /\ PutPair(fn) => IInv'
<1> SUFFICES ASSUME IInv, PutPair(fn) PROVE IInv'  OBVIOUS
<1>1. /\ At(fn, "put") /\ Keep /\ NoError /\ pos' = pos /\ anchors' = anchors
  BY DEF PutPair
<1>2. /\ pc = "parsing" /\ stack # <<>> /\ Top.fn = fn
      /\ DOMAIN Top = Fields
      /\ ok \in {0, 1} /\ pos \in Nat /\ pos' \in pos..Len(tokens)
      /\ fn \in Flow => Top.at < pos
  BY <1>1, InDescent
<1>3. {"close", "loop"} \subseteq Labels(fn)  BY DEF Labels
<1>4. Shape(stack', pos', ok', tokens')
  <2>1. CASE SetTop(Goto("close"))
    BY <1>1, <1>2, <1>3, <2>1, GotoStep DEF Keep
  <2>2. ASSUME ok = 0, NEW m, SetTop([Top EXCEPT !.lc = "loop", !.v = m])
        PROVE  Shape(stack', pos', ok', tokens')
    <3> DEFINE f == [Top EXCEPT !.lc = "loop", !.v = m]
    <3>1. Alike(f, Top) /\ f.lc = "loop"  BY <1>2 DEF Alike, Fields, Frame
    <3>2. SetTop(f)  BY <2>2
    <3> HIDE DEF f
    <3> QED BY <1>1, <1>2, <1>3, <2>2, <3>1, <3>2, SetTopStep
            DEF Keep, NoError, Alike
  <2>3. \/ SetTop(Goto("close"))
        \/ ok = 0 /\ \E m : SetTop([Top EXCEPT !.lc = "loop", !.v = m])
    BY DEF PutPair, Failed, Break
  <2> QED BY <2>1, <2>2, <2>3
<1> QED BY <1>1, <1>2, <1>4, DescentStep DEF NoError

(***************************************************************************)
(* Flow style.                                                             *)
(***************************************************************************)
LEMMA FlowCommaInv == IInv /\ FlowComma => IInv'
<1> SUFFICES ASSUME IInv, FlowComma PROVE IInv'  OBVIOUS
<1>1. PICK fn \in Flow : At(fn, "loop")  BY DEF FlowComma, InLoop
<1>2. Cur.type = "FLOW_ENTRY" /\ pos' = pos + 1 /\ Idle /\ stack' = stack
  BY DEF FlowComma
<1>3. /\ pc = "parsing" /\ stack # <<>> /\ Top.fn = fn /\ Top.lc = "loop"
      /\ ok \in {0, 1} /\ ok = 0 /\ pos \in Nat /\ Top.at < pos
      /\ DOMAIN Top = Fields /\ Len(stack) \in Nat \ {0}
  BY <1>1, InDescent DEF Waiting
<1>4. /\ pos' \in pos..Len(tokens)
      /\ \A j \in pos .. pos' - 1 : tokens[j].type \notin Markers
  BY <1>2, <1>3, Past DEF Cur, Markers
<1>5. Top.at < pos' /\ tokens' = tokens /\ ok' = ok /\ Top.lc # "enter"
  <2>1. Top.at \in Nat  BY <1>1, InDescent
  <2> QED BY <1>2, <1>3, <2>1 DEF Idle, Quiet, Keep, NoError
<1>6. Shape(stack', pos', ok', tokens')
  BY <1>2, <1>3, <1>4, <1>5, StayStep
<1> QED BY <1>2, <1>3, <1>4, <1>6, DescentStep DEF Idle, Quiet, Keep, NoError

LEMMA FseqElemInv == IInv /\ FseqElem => IInv'
<1> SUFFICES ASSUME IInv, FseqElem PROVE IInv'  OBVIOUS
<1>1. At("fseq", "loop") /\ pos' = pos /\ Call(Goto("elem"), "node", 0, pos)
  BY DEF FseqElem, InLoop
<1>2. Keep /\ ok' = ok /\ anchors' = anchors
  BY DEF FseqElem, Idle, Quiet, NoError
<1>3. /\ pc = "parsing" /\ stack # <<>> /\ Top.fn = "fseq"
      /\ DOMAIN Top = Fields
      /\ ok \in {0, 1} /\ ok = 0 /\ pos \in Nat /\ pos \in 1..Len(tokens)
      /\ Top.at < pos /\ pos' \in pos..Len(tokens)
  BY <1>1, InDescent DEF Waiting, Flow
<1>4. Alike(Goto("elem"), Top) /\ Goto("elem").lc = "elem"
  BY <1>3 DEF Goto, Alike, Fields, Frame
<1>5. Goto("elem").lc \in Labels(Goto("elem").fn) \cap Waiting
  BY <1>3, <1>4 DEF Labels, Waiting, Alike
<1>6. Link(Top, Frame("node", 0, pos))  BY <1>3 DEF Link, Frame, Block
<1>7. Shape(stack', pos', ok', tokens')
  <2>1. pos' \in 1..pos' /\ 0 \in Nat /\ "node" \in Fns /\ "node" \notin Flow
    BY <1>1, <1>3 DEF Fns, Flow
  <2>2. tokens' = tokens /\ ok' = 0 /\ Top.at < pos' /\ Top.fn # "node"
    BY <1>1, <1>2, <1>3 DEF Keep
  <2>3. /\ Call(Goto("elem"), "node", 0, pos')
        /\ Link(Top, Frame("node", 0, pos'))
    BY <1>1, <1>6
  <2> QED BY <1>3, <1>4, <1>5, <2>1, <2>2, <2>3, CallStep
<1> QED BY <1>1, <1>2, <1>3, <1>7, DescentStep

(* The key in front of the cursor, and what it is read with. *)
LEMMA FmapNoKeyInv == IInv /\ FmapNoKey => IInv'
<1> SUFFICES ASSUME IInv, FmapNoKey PROVE IInv'  OBVIOUS
<1>1. /\ At("fmap", "loop") /\ SetTop(Goto("close")) /\ ok' = 1
      /\ Keep /\ anchors' = anchors
      /\ \/ pos' = FlowKeyPos
         \/ pos' = FlowKeyPos + 1 /\ FlowKey.type = "SCALAR"
  BY DEF FmapNoKey, InLoop, parse_error, Break
<1>2. /\ pc = "parsing" /\ stack # <<>> /\ Top.fn = "fmap"
      /\ ok \in {0, 1} /\ pos \in Nat /\ Top.at < pos
  BY <1>1, InDescent DEF Flow
<1>3. PICK k \in 0..2 : /\ pos' = pos + k
                        /\ \A j \in 0 .. k - 1 :
                             tokens[pos + j].type \notin Markers \cup {"EOF"}
  <2>1. CASE Cur.type # "MAP_KEY" /\ pos' = FlowKeyPos
    BY <1>2, <2>1 DEF FlowKeyPos
  <2>2. CASE Cur.type # "MAP_KEY" /\ pos' = FlowKeyPos + 1 /\ FlowKey.type = "SCALAR"
    BY <1>2, <2>2 DEF FlowKeyPos, FlowKey, Markers
  <2>3. CASE Cur.type = "MAP_KEY" /\ pos' = FlowKeyPos
    BY <1>2, <2>3 DEF FlowKeyPos, Cur, Markers
  <2>4. CASE Cur.type = "MAP_KEY" /\ pos' = FlowKeyPos + 1 /\ FlowKey.type = "SCALAR"
    BY <1>2, <2>4 DEF FlowKeyPos, FlowKey, Cur, Markers
  <2> QED BY <1>1, <2>1, <2>2, <2>3, <2>4
<1>4. /\ pos' \in pos..Len(tokens)
      /\ \A j \in pos .. pos' - 1 : tokens[j].type \notin Markers
  <2>1. k \in 0..3
    OBVIOUS
  <2> QED BY <1>3, <2>1, Past
<1>5. Top.at < pos' /\ "close" \in Labels(Top.fn)
  <2>1. Top.at \in Nat  BY <1>1, InDescent
  <2> QED BY <1>2, <1>3, <2>1 DEF Labels
<1>6. Shape(stack', pos', ok', tokens')
  BY <1>1, <1>2, <1>4, <1>5, GotoStep DEF Keep
<1> QED BY <1>1, <1>2, <1>4, <1>6, DescentStep

LEMMA FmapKeyInv == IInv /\ FmapKey => IInv'
<1> SUFFICES ASSUME IInv, FmapKey PROVE IInv'  OBVIOUS
<1>1. /\ At("fmap", "loop") /\ pos' = FlowKeyPos + 2
      /\ FlowKey.type = "SCALAR" /\ tokens[FlowKeyPos + 1].type = "MAP_VAL"
      /\ Keep /\ ok' = ok /\ anchors' = anchors
  BY DEF FmapKey, InLoop, NoError
<1>2. /\ pc = "parsing" /\ stack # <<>> /\ Top.fn = "fmap"
      /\ DOMAIN Top = Fields
      /\ ok \in {0, 1} /\ ok = 0 /\ pos \in Nat /\ Top.at < pos
      /\ pos \in 1..Len(tokens)
  BY <1>1, InDescent DEF Flow, Waiting
<1>3. PICK k \in 2..3 : /\ pos' = pos + k
                        /\ \A j \in 0 .. k - 1 :
                             tokens[pos + j].type \notin Markers \cup {"EOF"}
  <2>1. CASE Cur.type # "MAP_KEY"
    <3>1. /\ pos' = pos + 2 /\ pos + 0 = pos
          /\ tokens[pos + 0].type = "SCALAR" /\ tokens[pos + 1].type = "MAP_VAL"
      BY <1>1, <1>2, <2>1 DEF FlowKeyPos, FlowKey
    <3>2. \A j \in 0..1 : tokens[pos + j].type \notin Markers \cup {"EOF"}
      BY <3>1 DEF Markers
    <3> QED BY <3>1, <3>2
  <2>2. CASE Cur.type = "MAP_KEY"
    <3>1. /\ pos' = pos + 3 /\ tokens[pos + 0].type = "MAP_KEY"
          /\ tokens[pos + 1].type = "SCALAR" /\ tokens[pos + 2].type = "MAP_VAL"
      BY <1>1, <1>2, <2>2 DEF FlowKeyPos, FlowKey, Cur
    <3>2. \A j \in 0..2 : tokens[pos + j].type \notin Markers \cup {"EOF"}
      BY <3>1 DEF Markers
    <3> QED BY <3>1, <3>2
  <2> QED BY <2>1, <2>2
<1>4. /\ pos' \in pos..Len(tokens)
      /\ \A j \in pos .. pos' - 1 : tokens[j].type \notin Markers
  BY <1>2, <1>3, Past
<1>5. ASSUME NEW key,
             Call([Top EXCEPT !.lc = "put", !.key = key], "node", 0, pos')
      PROVE  Shape(stack', pos', ok', tokens')
  <2> DEFINE f == [Top EXCEPT !.lc = "put", !.key = key]
  <2>1. Alike(f, Top) /\ f.lc = "put"  BY <1>2 DEF Alike, Fields, Frame
  <2>2. Call(f, "node", 0, pos')  BY <1>5
  <2> HIDE DEF f
  <2>3. f.lc \in Labels(f.fn) \cap Waiting
    BY <1>2, <2>1 DEF Labels, Waiting, Alike
  <2>4. Link(Top, Frame("node", 0, pos'))  BY <1>2 DEF Link, Frame, Block
  <2>5. pos' \in 1..pos' /\ Top.at < pos'  BY <1>2, <1>3, TopGood DEF Good
  <2> QED BY <1>1, <1>2, <1>4, <2>1, <2>2, <2>3, <2>4, <2>5, CallStep
          DEF Fns, Flow, Block, Keep
<1>6. \E key : Call([Top EXCEPT !.lc = "put", !.key = key], "node", 0, pos')
  BY DEF FmapKey
<1> QED BY <1>1, <1>2, <1>4, <1>5, <1>6, DescentStep

LEMMA FlowCloseInv == IInv /\ FlowClose => IInv'
<1> SUFFICES ASSUME IInv, FlowClose PROVE IInv'  OBVIOUS
<1>1. PICK fn \in Flow : At(fn, "close") \/ At(fn, "loop")
  BY DEF FlowClose
<1>2. /\ Return(Top.v) /\ Keep /\ anchors' = anchors
      /\ \/ Cur.type = Closer(Top.fn) /\ pos' = pos + 1 /\ ok' = ok
         \/ pos' = pos /\ ok' = 1
  BY DEF FlowClose, NoError, parse_error
<1>3. /\ pc = "parsing" /\ stack # <<>> /\ Top.fn = fn
      /\ ok \in {0, 1} /\ pos \in Nat /\ pos \in 1..Len(tokens)
  BY <1>1, InDescent
<1>4. /\ pos' \in pos..Len(tokens)
      /\ \A j \in pos .. pos' - 1 : tokens[j].type \notin Markers
  <2>1. CASE Cur.type = Closer(Top.fn) /\ pos' = pos + 1
    BY <1>3, <2>1, Past DEF Cur, Closer, Markers
  <2>2. CASE pos' = pos  BY <1>3, <2>2
  <2> QED BY <1>2, <2>1, <2>2
<1>5. Shape(stack', pos', ok', tokens')
  BY <1>2, <1>3, <1>4, ReturnStep DEF Keep
<1> QED BY <1>2, <1>3, <1>4, <1>5, DescentStep

(***************************************************************************)
(* Block style.                                                            *)
(***************************************************************************)
(* The node under a block collection is one column deeper. *)
LEMMA BlockCallStep ==
  ASSUME IInv, stack # <<>>, tokens' = tokens, ok' = 0,
         pos' \in pos..Len(tokens), pos < pos', Top.fn \in Block,
         NEW f, Alike(f, Top), f.lc \in Labels(f.fn) \cap Waiting,
         Call(f, "node", Top.col + 1, pos')
  PROVE  Shape(stack', pos', ok', tokens')
<1>1. /\ Top.at \in 1..pos /\ pos \in Nat /\ Top.col \in Nat
      /\ pos' \in Nat
  BY TopGood, Tokens DEF Good, IInv
<1>2. pos' \in 1..pos' /\ Top.at < pos' /\ Top.col + 1 \in Nat
  BY <1>1
<1>3. "node" \in Fns /\ "node" \notin Flow /\ Top.fn \notin Flow /\ Top.fn # "node"
  BY DEF Fns, Flow, Block
<1>4. Link(Top, Frame("node", Top.col + 1, pos'))
  BY DEF Link, Frame, Block
<1> QED BY <1>2, <1>3, <1>4, CallStep

LEMMA BseqElemInv == IInv /\ BseqElem => IInv'
<1> SUFFICES ASSUME IInv, BseqElem PROVE IInv'  OBVIOUS
<1>1. /\ At("bseq", "loop") /\ Cur.type = "SEQ_ENTRY" /\ pos' = pos + 1
      /\ Keep /\ ok' = ok /\ anchors' = anchors
  BY DEF BseqElem, AtDash, AfterDash, Idle, Quiet, NoError
<1>2. /\ pc = "parsing" /\ stack # <<>> /\ Top.fn = "bseq" /\ Top.lc = "loop"
      /\ DOMAIN Top = Fields /\ ok \in {0, 1} /\ ok = 0 /\ pos \in Nat
  BY <1>1, InDescent DEF Waiting
<1>3. /\ pos' \in pos..Len(tokens)
      /\ \A j \in pos .. pos' - 1 : tokens[j].type \notin Markers
  BY <1>1, <1>2, Past DEF Cur, Markers
<1>4. CASE SetTop([Top EXCEPT !.v = Push(@, NullValue)])
  <2> DEFINE f == [Top EXCEPT !.v = Push(@, NullValue)]
  <2>1. Alike(f, Top) /\ f.lc = "loop"  BY <1>2 DEF Alike, Fields, Frame
  <2>2. SetTop(f)  BY <1>4
  <2> HIDE DEF f
  <2>3. Shape(stack', pos', ok', tokens')
    BY <1>1, <1>2, <1>3, <2>1, <2>2, SetTopStep DEF Keep, Alike, Labels, Flow
  <2> QED BY <1>1, <1>2, <1>3, <2>3, DescentStep
<1>5. CASE Call(Goto("elem"), "node", Top.col + 1, pos')
  <2>1. Alike(Goto("elem"), Top) /\ Goto("elem").lc = "elem"
    BY <1>2 DEF Goto, Alike, Fields, Frame
  <2>2. Goto("elem").lc \in Labels(Goto("elem").fn) \cap Waiting
    BY <1>2, <2>1 DEF Labels, Waiting, Alike
  <2>3. Shape(stack', pos', ok', tokens')
    BY <1>1, <1>2, <1>3, <1>5, <2>1, <2>2, BlockCallStep DEF Keep, Block
  <2> QED BY <1>1, <1>2, <1>3, <2>3, DescentStep
<1> QED BY <1>4, <1>5 DEF BseqElem, KidIndent

LEMMA BseqDoneInv == IInv /\ BseqDone => IInv'
<1> SUFFICES ASSUME IInv, BseqDone PROVE IInv'  OBVIOUS
<1>1. /\ At("bseq", "close") \/ At("bseq", "loop")
      /\ Return(Top.v) /\ Keep /\ ok' = ok /\ anchors' = anchors /\ pos' = pos
  BY DEF BseqDone, Quiet, NoError
<1>2. /\ pc = "parsing" /\ stack # <<>> /\ ok \in {0, 1} /\ pos \in Nat
      /\ pos' \in pos..Len(tokens)
  BY <1>1, InDescent
<1>3. Shape(stack', pos', ok', tokens')
  BY <1>1, <1>2, ReturnStep DEF Keep
<1> QED BY <1>1, <1>2, <1>3, DescentStep

LEMMA BmapDoneInv == IInv /\ BmapDone => IInv'
<1> SUFFICES ASSUME IInv, BmapDone PROVE IInv'  OBVIOUS
<1>1. /\ At("bmap", "close") \/ At("bmap", "loop")
      /\ Return(Top.v) /\ Keep /\ ok' = ok /\ anchors' = anchors /\ pos' = pos
  BY DEF BmapDone, Quiet, NoError
<1>2. /\ pc = "parsing" /\ stack # <<>> /\ ok \in {0, 1} /\ pos \in Nat
      /\ pos' \in pos..Len(tokens)
  BY <1>1, InDescent
<1>3. Shape(stack', pos', ok', tokens')
  BY <1>1, <1>2, ReturnStep DEF Keep
<1> QED BY <1>1, <1>2, <1>3, DescentStep

(* At a key: the cursor may pass its '?', itself and its ':'. *)
LEMMA KeySteps ==
  ASSUME IInv, AtKey
  PROVE  /\ pc = "parsing" /\ stack # <<>> /\ Top.fn = "bmap" /\ Top.lc = "loop"
         /\ DOMAIN Top = Fields /\ ok = 0
         /\ pos \in Nat /\ KeyPos \in pos..Len(tokens)
         /\ \A j \in pos .. KeyPos - 1 : tokens[j].type \notin Markers
         /\ Key.type = "SCALAR" =>
              /\ KeyPos + 1 \in pos + 1..Len(tokens)
              /\ \A j \in pos .. KeyPos : tokens[j].type \notin Markers
         /\ Key.type = "SCALAR" /\ Colon =>
              /\ KeyPos + 2 \in pos + 1..Len(tokens)
              /\ \A j \in pos .. KeyPos + 1 : tokens[j].type \notin Markers
<1>1. /\ pc = "parsing" /\ stack # <<>> /\ Top.fn = "bmap" /\ Top.lc = "loop"
      /\ DOMAIN Top = Fields /\ ok \in {0, 1} /\ ok = 0
      /\ pos \in Nat /\ pos \in 1..Len(tokens)
      /\ tokens \in Inputs /\ Len(tokens) \in Nat
  BY InDescent DEF AtKey, Waiting
<1>2. \A i \in 1..Len(tokens) :
        tokens[i].type # "EOF" => i + 1 \in 1..Len(tokens)
  BY <1>1, Tokens
<1>3. /\ KeyPos \in pos..Len(tokens) /\ KeyPos <= pos + 1
      /\ KeyPos # pos => tokens[pos].type = "MAP_KEY"
  BY <1>1, <1>2 DEF KeyPos, Cur
<1>4. \A j \in pos .. KeyPos - 1 : tokens[j].type \notin Markers
  BY <1>1, <1>3 DEF Markers
<1>5. ASSUME Key.type = "SCALAR"
      PROVE  /\ KeyPos + 1 \in pos + 1..Len(tokens)
             /\ \A j \in pos .. KeyPos : tokens[j].type \notin Markers
  <2>1. KeyPos + 1 \in 1..Len(tokens)  BY <1>1, <1>2, <1>3, <1>5 DEF Key
  <2>2. \A j \in pos .. KeyPos : j = KeyPos \/ j \in pos .. KeyPos - 1
    BY <1>1, <1>3
  <2> QED BY <1>1, <1>3, <1>4, <1>5, <2>1, <2>2 DEF Key, Markers
<1>6. ASSUME Key.type = "SCALAR", Colon
      PROVE  /\ KeyPos + 2 \in pos + 1..Len(tokens)
             /\ \A j \in pos .. KeyPos + 1 : tokens[j].type \notin Markers
  <2>1. KeyPos + 2 \in 1..Len(tokens)
    BY <1>1, <1>2, <1>3, <1>5, <1>6 DEF Colon
  <2>2. \A j \in pos .. KeyPos + 1 : j = KeyPos + 1 \/ j \in pos .. KeyPos
    BY <1>1, <1>3
  <2> QED BY <1>1, <1>3, <1>5, <1>6, <2>1, <2>2 DEF Colon, Markers
<1> QED BY <1>1, <1>3, <1>4, <1>5, <1>6

LEMMA BmapNoKeyInv == IInv /\ BmapNoKey => IInv'
<1> SUFFICES ASSUME IInv, BmapNoKey PROVE IInv'  OBVIOUS
<1>1. /\ AtKey /\ pos' = KeyPos /\ SetTop(Goto("close")) /\ ok' = 1
      /\ Keep /\ anchors' = anchors
  BY DEF BmapNoKey, parse_error, Break
<1>2. /\ pc = "parsing" /\ stack # <<>> /\ Top.fn = "bmap"
      /\ pos' \in pos..Len(tokens)
      /\ \A j \in pos .. pos' - 1 : tokens[j].type \notin Markers
  BY <1>1, KeySteps
<1>3. Shape(stack', pos', ok', tokens')
  BY <1>1, <1>2, GotoStep DEF Keep, Labels, Flow
<1> QED BY <1>1, <1>2, <1>3, DescentStep

LEMMA BmapBareKeyInv == IInv /\ BmapBareKey => IInv'
<1> SUFFICES ASSUME IInv, BmapBareKey PROVE IInv'  OBVIOUS
<1>1. /\ AtKey /\ Key.type = "SCALAR" /\ pos' = KeyPos + 1
      /\ Keep /\ ok' = ok /\ anchors' = anchors
  BY DEF BmapBareKey, NoError
<1>2. /\ pc = "parsing" /\ stack # <<>> /\ Top.fn = "bmap" /\ Top.lc = "loop"
      /\ DOMAIN Top = Fields /\ ok = 0 /\ pos \in Nat
      /\ pos' \in pos..Len(tokens)
      /\ \A j \in pos .. pos' - 1 : tokens[j].type \notin Markers
  <2> HIDE DEF AtKey
  <2>1. KeyPos \in Nat  BY <1>1, KeySteps
  <2>2. KeyPos + 1 - 1 = KeyPos  BY <2>1
  <2> QED BY <1>1, <2>2, KeySteps
<1>3. ASSUME NEW m, SetTop([Top EXCEPT !.v = m])
      PROVE  Shape(stack', pos', ok', tokens')
  <2> DEFINE f == [Top EXCEPT !.v = m]
  <2>1. Alike(f, Top) /\ f.lc = "loop"  BY <1>2 DEF Alike, Fields, Frame
  <2>2. SetTop(f)  BY <1>3
  <2> HIDE DEF f
  <2> QED BY <1>1, <1>2, <2>1, <2>2, SetTopStep DEF Keep, Alike, Labels, Flow
<1>4. ASSUME stack' = stack PROVE Shape(stack', pos', ok', tokens')
  BY <1>1, <1>2, <1>4, StayStep DEF Keep, Flow
<1>5. stack' = stack \/ \E m : SetTop([Top EXCEPT !.v = m])
  BY DEF BmapBareKey
<1>6. Shape(stack', pos', ok', tokens')  BY <1>3, <1>4, <1>5
<1> QED BY <1>1, <1>2, <1>6, DescentStep

LEMMA BmapKeyInv == IInv /\ BmapKey => IInv'
<1> SUFFICES ASSUME IInv, BmapKey PROVE IInv'  OBVIOUS
<1> DEFINE f == [Top EXCEPT !.lc = "put", !.key = Key.val]
<1>1. /\ AtKey /\ Key.type = "SCALAR" /\ Colon /\ pos' = KeyPos + 2
      /\ Keep /\ ok' = ok /\ anchors' = anchors
      /\ SetTop(f) \/ Call(f, "node", Top.col + 1, pos')
  BY DEF BmapKey, KidIndent, NoError
<1>2. /\ pc = "parsing" /\ stack # <<>> /\ Top.fn = "bmap" /\ Top.lc = "loop"
      /\ DOMAIN Top = Fields /\ ok = 0 /\ pos \in Nat
      /\ pos' \in pos..Len(tokens) /\ pos < pos'
      /\ \A j \in pos .. pos' - 1 : tokens[j].type \notin Markers
  <2>1. KeyPos \in Nat  BY <1>1, KeySteps
  <2>2. KeyPos + 2 - 1 = KeyPos + 1  BY <2>1
  <2>3. pos \in Nat /\ KeyPos + 2 \in pos + 1..Len(tokens)  BY <1>1, KeySteps
  <2>4. KeyPos + 2 \in pos..Len(tokens) /\ pos < KeyPos + 2
    BY <2>1, <2>3, Tokens DEF IInv
  <2> QED BY <1>1, <2>2, <2>4, KeySteps
<1>3. Alike(f, Top) /\ f.lc = "put"  BY <1>2 DEF Alike, Fields, Frame
<1>4. Shape(stack', pos', ok', tokens')
  <2> HIDE DEF f
  <2>1. CASE SetTop(f)
    BY <1>1, <1>2, <1>3, <2>1, SetTopStep DEF Keep, Alike, Labels, Flow
  <2>2. CASE Call(f, "node", Top.col + 1, pos')
    <3>1. f.lc \in Labels(f.fn) \cap Waiting
      BY <1>2, <1>3 DEF Labels, Waiting, Alike
    <3> QED BY <1>1, <1>2, <1>3, <2>2, <3>1, BlockCallStep DEF Keep, Block
  <2> QED BY <1>1, <2>1, <2>2
<1> HIDE DEF f
<1> QED BY <1>1, <1>2, <1>4, DescentStep

(* A step of apply_merge, or up to and away from it: only the top frame. *)
LEMMA MergeInv == IInv /\ Merge => IInv'
<1> SUFFICES ASSUME IInv, Merge PROVE IInv'  OBVIOUS
<1>1. /\ (At("bmap", "put") /\ ok = 0) \/ At("bmap", "merge")
      /\ Keep /\ ok' = ok /\ anchors' = anchors /\ pos' = pos
  BY DEF Merge, MergeStart, MergePair, MergeElement, MergeNext, MergeDone,
         Merging, Failed, Idle, Quiet, NoError
<1>2. /\ pc = "parsing" /\ stack # <<>> /\ Top.fn = "bmap"
      /\ Top.lc \in {"put", "merge"}
      /\ DOMAIN Top = Fields /\ ok \in {0, 1} /\ ok = 0 /\ pos \in Nat
      /\ pos' \in pos..Len(tokens)
  BY <1>1, InDescent DEF Waiting
<1>3. PICK f : SetTop(f) /\ Alike(f, Top) /\ f.lc \in {"merge", "loop"}
  <2>1. CASE MergeStart
    <3> DEFINE g == [Top EXCEPT !.lc = "merge", !.work = <<ret>>]
    <3>1. SetTop(g)  BY <2>1 DEF MergeStart
    <3>2. Alike(g, Top) /\ g.lc = "merge"  BY <1>2 DEF Alike, Fields, Frame
    <3> HIDE DEF g
    <3> QED BY <3>1, <3>2
  <2>2. CASE MergePair
    <3>1. Top.lc = "merge"  BY <2>2 DEF MergePair, Merging, At
    <3>2. PICK w, m : SetTop([Top EXCEPT !.work = w, !.v = m])
      BY <2>2 DEF MergePair
    <3> DEFINE g == [Top EXCEPT !.work = w, !.v = m]
    <3>3. Alike(g, Top) /\ g.lc = "merge"
      BY <1>2, <3>1 DEF Alike, Fields, Frame
    <3>4. SetTop(g)  BY <3>2
    <3> HIDE DEF g
    <3> QED BY <3>3, <3>4
  <2>3. CASE MergeElement \/ MergeNext
    <3>1. Top.lc = "merge"  BY <2>3 DEF MergeElement, MergeNext, Merging, At
    <3>2. PICK w : SetTop([Top EXCEPT !.work = w])
      BY <2>3 DEF MergeElement, MergeNext
    <3> DEFINE g == [Top EXCEPT !.work = w]
    <3>3. Alike(g, Top) /\ g.lc = "merge"
      BY <1>2, <3>1 DEF Alike, Fields, Frame
    <3>4. SetTop(g)  BY <3>2
    <3> HIDE DEF g
    <3> QED BY <3>3, <3>4
  <2>4. CASE MergeDone
    BY <1>2, <2>4 DEF MergeDone, Goto, Alike, Fields, Frame
  <2> QED BY <2>1, <2>2, <2>3, <2>4 DEF Merge
<1>4. Shape(stack', pos', ok', tokens')
  BY <1>1, <1>2, <1>3, SetTopStep DEF Keep, Alike, Labels, Flow
<1> QED BY <1>1, <1>2, <1>4, DescentStep

(***************************************************************************)
(* The drivers.                                                            *)
(***************************************************************************)
(* A first activation of parse_node, with nothing in error. *)
LEMMA FirstFrame ==
  ASSUME NEW T, NEW p \in Nat \ {0}
  PROVE  Shape(<<Frame("node", 0, p)>>, p, 0, T)
<1> DEFINE g == Frame("node", 0, p)
           s == <<g>>
<1>1. s \in Seq({g}) /\ Len(s) = 1 /\ s[1] = g  OBVIOUS
<1>2. IsSeq(s)  BY <1>1, SeqIntro
<1>3. /\ DOMAIN g = Fields /\ g.fn = "node" /\ g.lc = "enter" /\ g.col = 0
      /\ g.at = p
  BY DEF Frame, Fields
<1> HIDE DEF g
<1>4. Good(g, 1, 1, p, 0, T)
  BY <1>3 DEF Good, Fns, Flow, Block, Labels
<1> HIDE DEF s
<1>5. \A i \in 1..Len(s) : Good(s[i], i, Len(s), p, 0, T)
  BY <1>1, <1>4
<1>6. \A i \in 1..Len(s) - 1 : Link(s[i], s[i + 1])
  BY <1>1
<1>7. Shape(s, p, 0, T)  BY <1>2, <1>5, <1>6 DEF Shape
<1> QED BY <1>7 DEF s, g

(* The cursor after an optional "---". *)
LEMMA AfterMarkerIn == IInv => AfterMarker \in pos..Len(tokens)
BY Tokens DEF AfterMarker, IInv, Cur

LEMMA ShapeEmpty == ASSUME NEW p, NEW k, NEW T PROVE Shape(<<>>, p, k, T)
<1>1. Len(<<>>) = 0  OBVIOUS
<1> QED BY <1>1, EmptyIsSeq DEF Shape

LEMMA InitInv == Init => IInv
<1> SUFFICES ASSUME Init PROVE IInv  OBVIOUS
<1>1. pos \in 1..Len(tokens)
  <2>1. Len(tokens) \in Nat /\ Len(tokens) > 0 /\ pos = 1
    BY Tokens DEF Init
  <2>2. \A n \in Nat : n > 0 => 1 \in 1..n  OBVIOUS
  <2> QED BY <2>1, <2>2
<1> QED BY <1>1, EmptyIsSeq, ShapeEmpty, ScopedEmpty DEF Init, IInv

LEMMA LexFailsInv == IInv /\ LexFails => IInv'
<1> SUFFICES ASSUME IInv, LexFails PROVE IInv'  OBVIOUS
<1>1. /\ stack = <<>> /\ ok' = 1 /\ pc' = "refused"
      /\ UNCHANGED <<tokens, pos, stack, anchors, docs, mode, alloc>>
  BY DEF LexFails, IInv, parse_error
<1>2. Shape(stack', pos', ok', tokens')  BY <1>1, ShapeEmpty
<1> QED BY <1>1, <1>2 DEF IInv

LEMMA ParseStartInv == IInv /\ ParseStart => IInv'
<1> SUFFICES ASSUME IInv, ParseStart PROVE IInv'  OBVIOUS
<1>1. /\ ok = 0 /\ anchors = <<>> /\ pos' = AfterMarker /\ pc' = "parsing"
      /\ stack' = <<Frame("node", 0, pos')>> /\ ok' = ok
      /\ UNCHANGED <<tokens, anchors, docs, mode, alloc>>
  BY DEF ParseStart, IInv, NoError
<1>2. pos' \in 1..Len(tokens) /\ pos' \in Nat \ {0}
  BY <1>1, AfterMarkerIn, Tokens DEF IInv
<1>3. Shape(stack', pos', ok', tokens')  BY <1>1, <1>2, FirstFrame
<1>4. Scoped(anchors', pos', tokens')  BY <1>1, ScopedEmpty
<1> QED BY <1>1, <1>2, <1>3, <1>4 DEF IInv

LEMMA StreamDocInv == IInv /\ StreamDoc => IInv'
<1> SUFFICES ASSUME IInv, StreamDoc PROVE IInv'  OBVIOUS
<1>1. /\ ok = 0 /\ pos' = AfterMarker /\ pc' = "parsing"
      /\ stack' = <<Frame("node", 0, pos')>> /\ ok' = ok
      /\ UNCHANGED <<tokens, docs, mode, alloc>>
      /\ anchors' = IF Cur.type = "DOC_START" THEN <<>> ELSE anchors
  BY DEF StreamDoc, anchors_clear, IInv, NoError
<1>2. pos' \in 1..Len(tokens) /\ pos' \in Nat \ {0}
  BY <1>1, AfterMarkerIn, Tokens DEF IInv
<1>3. Shape(stack', pos', ok', tokens')  BY <1>1, <1>2, FirstFrame
<1>4. Scoped(anchors', pos', tokens')
  <2>1. CASE Cur.type = "DOC_START"  BY <1>1, <2>1, ScopedEmpty
  <2>2. CASE Cur.type # "DOC_START"
    BY <1>1, <2>2 DEF AfterMarker, IInv
  <2> QED BY <2>1, <2>2
<1> QED BY <1>1, <1>2, <1>3, <1>4 DEF IInv

(* Between the drivers' calls the stack is empty, whatever the cursor does. *)
LEMMA StreamStoreInv == IInv /\ StreamStore => IInv'
<1> SUFFICES ASSUME IInv, StreamStore PROVE IInv'  OBVIOUS
<1>1. /\ stack = <<>> /\ ok = 0 /\ pc' = "loop" /\ ok' = ok
      /\ UNCHANGED <<tokens, stack, mode, alloc>>
      /\ docs' = docs \/ docs' = Append(docs, ret)
  BY DEF StreamStore, NoError
<1>2. pos' \in 1..Len(tokens) /\ Scoped(anchors', pos', tokens')
  <2>1. CASE Cur.type = "DOC_END"
    <3>1. anchors' = <<>> /\ pos' = pos + 1
      BY <2>1 DEF StreamStore, anchors_clear
    <3>2. pos + 1 \in 1..Len(tokens)  BY <2>1, Tokens DEF IInv, Cur
    <3> QED BY <3>1, <3>2, ScopedEmpty
  <2>2. CASE Cur.type # "DOC_END"
    BY <1>1, <2>2 DEF StreamStore, IInv
  <2> QED BY <2>1, <2>2
<1>3. Shape(stack', pos', ok', tokens')  BY <1>1, ShapeEmpty
<1>4. IsSeq(docs')
  <2>1. IsSeq(docs)  BY DEF IInv
  <2>2. IsSeq(Append(docs, ret))  BY <2>1, SeqAppend
  <2> QED BY <1>1, <2>1, <2>2
<1> QED BY <1>1, <1>2, <1>3, <1>4 DEF IInv

LEMMA ParseEndInv == IInv /\ ParseEnd => IInv'
<1> SUFFICES ASSUME IInv, ParseEnd PROVE IInv'  OBVIOUS
<1>1. /\ anchors' = <<>> /\ pc' = "done" /\ ok' = ok
      /\ UNCHANGED <<tokens, pos, stack, mode, alloc>>
      /\ docs' = <<ret>> \/ docs' = <<>>
  BY DEF ParseEnd, NoError
<1>2. IsSeq(docs')
  <2>1. <<ret>> \in Seq({ret})  OBVIOUS
  <2> QED BY <1>1, <2>1, SeqIntro, EmptyIsSeq
<1> QED BY <1>1, <1>2, ScopedEmpty DEF IInv

LEMMA StreamStartInv == IInv /\ StreamStart => IInv'
BY DEF IInv, StreamStart, NoError

LEMMA StreamEndInv == IInv /\ StreamEnd => IInv'
<1> SUFFICES ASSUME IInv, StreamEnd PROVE IInv'  OBVIOUS
<1>1. /\ anchors' = <<>> /\ pc' = "done" /\ ok' = ok
      /\ UNCHANGED <<tokens, stack, docs, mode, alloc>>
      /\ stack = <<>>
      /\ pos' = pos \/ pos' = AfterMarker
  BY DEF StreamEnd, NoError, IInv
<1>2. pos' \in 1..Len(tokens)  BY <1>1, AfterMarkerIn, Tokens DEF IInv
<1>3. Shape(stack', pos', ok', tokens')  BY <1>1, ShapeEmpty
<1> QED BY <1>1, <1>2, <1>3, ScopedEmpty DEF IInv

LEMMA DestroyInv == IInv /\ Destroy => IInv'
BY EmptyIsSeq DEF IInv, Destroy, NoError

(***************************************************************************)
(* Every step.                                                             *)
(***************************************************************************)
LEMMA NextInv == IInv /\ [Next]_vars => IInv'
<1> SUFFICES ASSUME IInv, [Next]_vars PROVE IInv'  OBVIOUS
<1>1. CASE ParseNode
  BY <1>1, NodePropsInv, NodeAliasInv, NodeUnknownAliasInv,
     NodeCollectionInv, NodeScalarInv, NodeEmptyInv, NodeNoValueInv,
     NodeTailInv, CrashInv DEF ParseNode, TagCrash
<1>2. CASE Collections
  BY <1>2, EnterInv, PushElemInv, PutPairInv DEF Collections
<1>3. CASE FlowStyle
  BY <1>3, FlowCommaInv, FseqElemInv, FmapNoKeyInv, FmapKeyInv, CrashInv,
     FlowCloseInv DEF FlowStyle, FmapCrash
<1>4. CASE BlockStyle
  BY <1>4, BseqElemInv, BseqDoneInv, BmapNoKeyInv, BmapBareKeyInv,
     BmapKeyInv, BmapDoneInv DEF BlockStyle
<1>5. CASE Merge
  BY <1>5, MergeInv
<1>6. CASE Driver
  BY <1>6, LexFailsInv, ParseStartInv, ParseEndInv, StreamStartInv,
     StreamDocInv, StreamStoreInv, StreamEndInv, DestroyInv DEF Driver
<1>7. CASE UNCHANGED vars
  BY <1>7 DEF IInv, vars
<1> QED BY <1>1, <1>2, <1>3, <1>4, <1>5, <1>6, <1>7 DEF Next, Stop

THEOREM Invariance == Spec => []IInv
BY InitInv, NextInv, PTL DEF Spec

(***************************************************************************)
(* What it implies.                                                        *)
(***************************************************************************)
(* The control state has its type: the cursor never leaves the tokens lex  *)
(* produced (advance, and every lookahead of YMLParser.c, which check no   *)
(* bound), and only the collection functions' own labels occur.            *)
LEMMA TypeOKInv == IInv => TypeOK
<1> SUFFICES ASSUME IInv PROVE TypeOK  OBVIOUS
<1>1. /\ tokens \in Inputs /\ pos \in 1..Len(tokens)
      /\ Len(tokens) \in Nat /\ DOMAIN tokens = 1..Len(tokens)
      /\ \A i \in 1..Len(tokens) : tokens[i].type = "EOF" <=> i = Len(tokens)
  BY Tokens DEF IInv
<1>2. ASSUME NEW i \in DOMAIN stack PROVE FrameOK(stack[i])
  <2>1. Good(stack[i], i, Len(stack), pos, ok, tokens)
    BY SeqDomain DEF IInv, Shape
  <2>2. \A n \in Nat : \A k \in 1..n : 1..k \subseteq 1..n  OBVIOUS
  <2>3. 1..pos \subseteq 1..Len(tokens)  BY <1>1, <2>2
  <2> QED BY <2>1, <2>3 DEF Good, FrameOK, Fns
<1>3. ASSUME NEW e \in DOMAIN anchors PROVE anchors[e].at \in 1..Len(tokens)
  <2>1. anchors[e].at \in 1..pos  BY SeqDomain DEF IInv, Scoped
  <2>2. \A n \in Nat : \A k \in 1..n : 1..k \subseteq 1..n  OBVIOUS
  <2>3. 1..pos \subseteq 1..Len(tokens)  BY <1>1, <2>2
  <2> QED BY <2>1, <2>3
<1> QED BY <1>1, <1>2, <1>3 DEF IInv, TypeOK

THEOREM TypeCorrect == Spec => []TypeOK
BY Invariance, TypeOKInv, PTL

(* The C stack is bounded by the tokens read, two frames for each, for     *)
(* every text: parse_node and the collection functions recurse only after  *)
(* reading a token of their own.                                           *)
LEMMA CallDepthInv == IInv => CallDepth
<1> SUFFICES ASSUME IInv PROVE CallDepth  OBVIOUS
<1>1. CASE stack = <<>>
  <2>1. Len(stack) = 0  BY <1>1
  <2>2. pos \in Nat  BY Tokens DEF IInv
  <2> QED BY <2>1, <2>2 DEF CallDepth
<1>2. CASE stack # <<>>
  <2>1. /\ Len(stack) \in Nat /\ pos \in Nat
        /\ Good(Top, Len(stack), Len(stack), pos, ok, tokens)
    BY <1>2, TopGood
  <2>2. Top.at \in 1..pos /\ Len(stack) <= 2 * Top.at  BY <2>1 DEF Good
  <2> QED BY <2>1, <2>2 DEF CallDepth
<1> QED BY <1>1, <1>2

THEOREM DepthBounded == Spec => []CallDepth
BY Invariance, CallDepthInv, PTL

(* Block collections nest by strictly growing indentation, through the one *)
(* parse_node between a collection and the one it contains.                *)
LEMMA IndentNestsInv == IInv => IndentNests
<1> SUFFICES ASSUME IInv, NEW i \in DOMAIN stack, NEW j \in DOMAIN stack,
                    j = i + 2, stack[i].fn \in Block, stack[j].fn \in Block
             PROVE  stack[j].col > stack[i].col
  BY DEF IndentNests
<1>1. Len(stack) \in Nat /\ DOMAIN stack = 1..Len(stack)
  BY SeqDomain DEF IInv, Shape
<1>2. i \in 1..Len(stack) - 1 /\ i + 1 \in 1..Len(stack) - 1 /\ i + 1 + 1 = j
  BY <1>1
<1>3. Link(stack[i], stack[i + 1]) /\ Link(stack[i + 1], stack[j])
  <2>1. \A x \in 1..Len(stack) - 1 : Link(stack[x], stack[x + 1])
    BY DEF IInv, Shape
  <2> QED BY <2>1, <1>2
<1>4. stack[i].col \in Nat /\ stack[j].col \in Nat
  BY <1>1 DEF IInv, Shape, Good
<1> QED BY <1>3, <1>4 DEF Link

THEOREM IndentationNests == Spec => []IndentNests
BY Invariance, IndentNestsInv, PTL

(* No alias reaches an anchor of an earlier document: anchors_clear at     *)
(* "---" and at "..." in _YMLParseStream, and the only cursor movement     *)
(* across such a token being there.                                        *)
LEMMA AnchorScopeInv == IInv => AnchorScope
<1> SUFFICES ASSUME IInv, NEW e \in DOMAIN anchors,
                    NEW i \in anchors[e].at .. pos - 1
             PROVE  tokens[i].type \notin {"DOC_START", "DOC_END"}
  BY DEF AnchorScope
<1>1. e \in 1..Len(anchors)  BY SeqDomain DEF IInv, Scoped
<1> QED BY <1>1 DEF IInv, Scoped, Markers

THEOREM AnchorsScoped == Spec => []AnchorScope
BY Invariance, AnchorScopeInv, PTL

(* After an error the parser only unwinds, from wherever the error was met *)
(* and whatever activations were waiting.                                  *)
Unwinds == /\ ok' # 0
           /\ Len(stack') <= Len(stack)
           /\ pos' # pos => Len(stack') < Len(stack)
           /\ Len(docs') <= Len(docs)

LEMMA Unwinding == IInv /\ [Next]_vars /\ ok # 0 => Unwinds
<1> SUFFICES ASSUME IInv, [Next]_vars, ok # 0 PROVE Unwinds  OBVIOUS
<1>1. /\ pc \notin {"call", "loop"}
      /\ Len(docs) \in Nat /\ Len(stack) \in Nat
  BY SeqDomain DEF IInv, Shape
<1>2. ASSUME NEW fn, NEW lc, At(fn, lc)
      PROVE  stack # <<>> /\ lc \in Waiting \cup {"close"}
  BY <1>2, TopGood DEF At, Good
<1>3. ASSUME stack # <<>>, Keep, ok' # 0, NEW v, Return(v) PROVE Unwinds
  <2>1. Len(stack') = Len(stack) - 1
    BY <1>3, SeqReturn DEF Return, IInv, Shape
  <2> QED BY <1>1, <1>3, <2>1 DEF Keep, Unwinds
<1>4. ASSUME stack # <<>>, Keep, ok' # 0, pos' = pos, NEW f, SetTop(f)
      PROVE  Unwinds
  <2>1. Len(stack') = Len(stack)
    BY <1>4, SeqSetTop DEF SetTop, IInv, Shape
  <2> QED BY <1>1, <1>4, <2>1 DEF Keep, Unwinds
<1>5. ASSUME UNCHANGED <<ok, stack, pos, docs>> PROVE Unwinds
  BY <1>1, <1>5 DEF Unwinds
<1>6. CASE ParseNode
  <2>1. ~At("node", "enter") /\ ~At("node", "dispatch")
    BY <1>2 DEF Waiting
  <2>2. NodeNoValue \/ NodeTail \/ TagCrash
    BY <1>6, <2>1 DEF ParseNode, NodeProps, NodeAlias, NodeUnknownAlias,
                      NodeCollection, NodeScalar, NodeEmpty
  <2>3. stack # <<>>
    BY <1>2, <2>2 DEF NodeNoValue, NodeTail, TagCrash
  <2>4. CASE NodeNoValue
    BY <1>3, <2>3, <2>4 DEF NodeNoValue, parse_error
  <2>5. CASE NodeTail
    <3>1. PICK v : Return(v)  BY <2>5 DEF NodeTail
    <3> QED BY <1>3, <2>3, <2>5, <3>1 DEF NodeTail, NoError
  <2>6. CASE TagCrash
    BY <1>5, <2>6 DEF TagCrash, Crash
  <2> QED BY <2>2, <2>4, <2>5, <2>6
<1>7. CASE Collections
  <2>1. ASSUME NEW fn, Enter(fn) PROVE FALSE
    BY <1>2, <2>1 DEF Enter, Waiting
  <2>2. ASSUME NEW fn, PushElem(fn) PROVE Unwinds
    BY <1>2, <1>4, <2>2 DEF PushElem, Failed, Break, Quiet, NoError
  <2>3. ASSUME NEW fn, PutPair(fn) PROVE Unwinds
    BY <1>2, <1>4, <2>3 DEF PutPair, Failed, Break, NoError
  <2> QED BY <1>7, <2>1, <2>2, <2>3 DEF Collections
<1>8. CASE FlowStyle
  <2>1. \A fn \in Flow : ~At(fn, "loop")  BY <1>2 DEF Waiting
  <2>2. FmapCrash \/ FlowClose
    BY <1>8, <2>1 DEF FlowStyle, FlowComma, FseqElem, FmapNoKey, FmapKey,
                      InLoop, Flow
  <2>3. CASE FmapCrash
    BY <1>5, <2>3 DEF FmapCrash, Crash
  <2>4. CASE FlowClose
    <3>1. PICK v : Return(v)  BY <2>4 DEF FlowClose
    <3>2. stack # <<>>  BY <1>2, <2>4 DEF FlowClose
    <3>3. ok' = ok \/ ok' = 1
      <4>1. CASE Cur.type = Closer(Top.fn)
        BY <2>4, <4>1 DEF FlowClose, NoError
      <4>2. CASE Cur.type # Closer(Top.fn)
        BY <2>4, <4>2 DEF FlowClose, parse_error
      <4> QED BY <4>1, <4>2
    <3>4. Keep  BY <2>4 DEF FlowClose
    <3> QED BY <1>3, <3>1, <3>2, <3>3, <3>4
  <2> QED BY <2>2, <2>3, <2>4
<1>9. CASE BlockStyle
  <2>1. ~At("bseq", "loop") /\ ~At("bmap", "loop")  BY <1>2 DEF Waiting
  <2>2. BseqDone \/ BmapDone
    BY <1>9, <2>1 DEF BlockStyle, BseqElem, BmapNoKey, BmapBareKey, BmapKey,
                      AtKey
  <2>3. stack # <<>>  BY <1>2, <2>1, <2>2 DEF BseqDone, BmapDone
  <2> QED BY <1>3, <2>2, <2>3 DEF BseqDone, BmapDone, Quiet, NoError
<1>10. CASE Merge
  <2>1. ~At("bmap", "merge")  BY <1>2 DEF Waiting
  <2> QED BY <1>10, <2>1 DEF Merge, MergeStart, MergePair, MergeElement,
                             MergeNext, MergeDone, Merging, Failed
<1>11. CASE Driver
  <2>1. ParseEnd \/ StreamEnd \/ Destroy
    BY <1>1, <1>11 DEF Driver, LexFails, ParseStart, StreamStart, StreamDoc,
                       StreamStore
  <2>2. /\ ok' = ok /\ stack' = stack /\ pos' = pos
        /\ docs' = docs \/ docs' = <<>>
    BY <1>1, <2>1 DEF ParseEnd, StreamEnd, Destroy, NoError
  <2>3. Len(<<>>) = 0  OBVIOUS
  <2> QED BY <1>1, <2>2, <2>3 DEF Unwinds
<1>12. CASE UNCHANGED vars
  BY <1>5, <1>12 DEF vars
<1> QED BY <1>6, <1>7, <1>8, <1>9, <1>10, <1>11, <1>12 DEF Next, Stop

THEOREM ErrorsUnwind == Spec => ErrorUnwinds
<1>1. IInv /\ [Next]_vars
        => [ok # 0 => /\ ok' # 0
                      /\ Len(stack') <= Len(stack)
                      /\ pos' # pos => Len(stack') < Len(stack)
                      /\ Len(docs') <= Len(docs)]_vars
  BY Unwinding DEF Unwinds
<1> QED BY <1>1, Invariance, PTL DEF Spec, ErrorUnwinds
=============================================================================
