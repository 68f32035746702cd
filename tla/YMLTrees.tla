------------------------------ MODULE YMLTrees ------------------------------
(***************************************************************************)
(* Well-formed documents for checking Parser: a bounded set of trees, each *)
(* written the way YAML writes it, and what the parser must make of it.    *)
(*                                                                         *)
(* A tree is [form, x, kids, anchor]: form "leaf" with its lexeme x,       *)
(* "alias" with the tree it stands for in kids, or "seq", "map" (block     *)
(* style), "fseq", "fmap" (flow style) with kids [key, tree].              *)
(***************************************************************************)
EXTENDS YMLTexts, FiniteSets

Leaf0(x)         == [form |-> "leaf", x |-> x, kids |-> <<>>, anchor |-> "none"]
Node(form, kids) == [form |-> form, x |-> Dash, kids |-> kids, anchor |-> "none"]
Kid(key, tree)   == [key |-> key, tree |-> tree]
Anchored(t, n)   == [t EXCEPT !.anchor = n]
AliasOf(t, n)    == [form |-> "alias", x |-> Alias(n),
                     kids |-> <<Kid("", t)>>, anchor |-> "none"]

(***************************************************************************)
(* Writing: a sequence of [x, place], place being Here or a column on the  *)
(* next line; the caller decides where the first lexeme goes.              *)
(***************************************************************************)
At0(x)          == <<[x |-> x, place |-> Here]>>
StartAt(s, c)   == [s EXCEPT ![1].place = c]
KeyLexeme(k)    == IF k = "<<" THEN MergeKey ELSE Plain("str", k)
IsBlock(t)      == t.form \in {"seq", "map"}

(* Kids one below the other: the first where the collection stands. *)
RECURSIVE Write(_, _)
Write(t, c) ==
  LET entry(i) ==
        LET k == t.kids[i]
            v == Write(k.tree, c + 2)
        IN CASE t.form = "seq" -> At0(Dash) \o v
             [] t.form = "map" -> At0(KeyLexeme(k.key)) \o At0(ColonTok)
                   \o (IF IsBlock(k.tree) /\ k.tree.anchor = "none"
                       THEN StartAt(v, c + 2) ELSE v)
             [] t.form = "fseq" -> v
             [] t.form = "fmap" -> At0(KeyLexeme(k.key)) \o At0(ColonTok) \o v
      placed(i) == CASE i = 1     -> entry(i)
                     [] IsBlock(t) -> StartAt(entry(i), c)
                     [] OTHER      -> At0(Comma) \o entry(i)
      body == FoldLeft(\o, <<>>, [i \in DOMAIN t.kids |-> placed(i)])
      bare == CASE t.form \in {"leaf", "alias"} -> At0(t.x)
                [] IsBlock(t)                   -> body
                [] t.form = "fseq" -> At0(LBracket) \o body \o At0(RBracket)
                [] t.form = "fmap" -> At0(LBrace) \o body \o At0(RBrace)
  IN IF t.anchor = "none" THEN bare
     ELSE At0(Anchor(t.anchor)) \o (IF IsBlock(t) THEN StartAt(bare, c) ELSE bare)

(* Lines and columns of the lexemes, and EOF. *)
Put(toks, l, width) ==
  Append(toks, IF toks = <<>>        THEN Token(l.x, 1, 0)
               ELSE IF l.place = Here THEN Token(l.x, Last(toks).line,
                                                 Last(toks).col + width)
               ELSE Token(l.x, Last(toks).line + 1, l.place))
Lay(s) ==
  Close(FoldLeft(LAMBDA r, l : [toks  |-> Put(r.toks, l, r.width),
                                width |-> l.x.width],
                 [toks |-> <<>>, width |-> 0], s).toks)

(***************************************************************************)
(* What a tree says, aliases and merge keys resolved.                      *)
(***************************************************************************)
Target(t) == IF t.form = "alias" THEN t.kids[1].tree ELSE t

(* The pairs of a mapping: its own keys, the last of two alike, and those  *)
(* "<<" brings along that it does not have itself.                         *)
RECURSIVE Pairs(_)
Pairs(t) ==
  LET own    == {i \in DOMAIN t.kids : t.kids[i].key # "<<"}
      keys   == {t.kids[i].key : i \in own}
      last(k) == CHOOSE i \in own : /\ t.kids[i].key = k
                                    /\ \A j \in own : t.kids[j].key = k => j <= i
      merged == {t.kids[i].tree : i \in DOMAIN t.kids \ own}
      sources(m) == IF m.form \in {"seq", "fseq"}
                    THEN {Target(m.kids[i].tree) : i \in DOMAIN m.kids}
                    ELSE {m}
      more   == UNION {Pairs(s) : s \in UNION {sources(Target(m)) : m \in merged}}
  IN {[key |-> k, tree |-> t.kids[last(k)].tree] : k \in keys}
     \cup {p \in more : p.key \notin keys}

(***************************************************************************)
(* The trees.                                                              *)
(***************************************************************************)
Leaves == {Leaf0(a), Leaf0(one), Leaf0(Quoted("q"))}
Texts0 == {Leaf0(BlockText("t"))}

SeqsOf(form, S)  == {Node(form, <<Kid("", t)>>) : t \in S}
PairsOf(form, S) == {Node(form, <<Kid("", t[1]), Kid("", t[2])>>) : t \in S \X S}
MapsOf(form, S)  == {Node(form, <<Kid("k", t)>>) : t \in S}
Maps2Of(form, S) == {Node(form, <<Kid("k", t[1]), Kid("l", t[2])>>) : t \in S \X S}
AllOf(form, S)   == IF form \in {"seq", "fseq"} THEN SeqsOf(form, S) \cup PairsOf(form, S)
                                                ELSE MapsOf(form, S) \cup Maps2Of(form, S)

Empties == {Node("fseq", <<>>), Node("fmap", <<>>)}
Flat1   == UNION {AllOf(f, {Leaf0(a), Leaf0(one)}) : f \in {"fseq", "fmap"}} \cup Empties
Block1  == UNION {AllOf(f, {Leaf0(a), Leaf0(BlockText("t"))}) : f \in {"seq", "map"}}
Inner   == {Leaf0(Quoted("q"))} \cup Texts0 \cup Flat1 \cup Block1

Trees == Leaves \cup Texts0 \cup Inner
         \cup UNION {AllOf(f, Inner) : f \in {"seq", "map"}}
         \cup UNION {AllOf(f, Flat1) : f \in {"fseq", "fmap"}}

(* Anchors and merge keys: T anchored and used again; M merged, before and *)
(* after a key of the child that M may have too, alone or in a list.       *)
Map(kids)  == Node("map", kids)
Reuse(T)   == Map(<<Kid("p", Anchored(T, "x")), Kid("q", AliasOf(T, "x"))>>)
Merging0(M, child) == Map(<<Kid("p", Anchored(M, "x")), Kid("q", Map(child))>>)
Own(l)     == Kid("k", Leaf0(l))
Children(M) ==
  LET m == Kid("<<", AliasOf(M, "x"))
  IN {<<m>>, <<m, Own(b)>>, <<Own(b), m>>, <<Kid("<<", M), Own(b)>>,
      <<Kid("<<", Node("fseq", <<Kid("", AliasOf(M, "x")),
                                 Kid("", Node("fmap", <<Kid("n", Leaf0(a))>>))>>)),
        Own(b)>>}
Mappings == {t \in Inner : t.form \in {"map", "fmap"}}

(* Documents, in the order of the text; a tree after "---" is written from *)
(* a new line on.                                                          *)
Mixed == {Leaf0(a), Node("fseq", <<>>),
          Node("map", <<Kid("k", Leaf0(BlockText("t")))>>),
          Node("seq", <<Kid("", Leaf0(one))>>), Reuse(Leaf0(a))}
OnLine(t)  == StartAt(Write(t, 0), 0)
Mark0(x)   == <<[x |-> x, place |-> 0]>>

Docs ==
  {[toks |-> Lay(Write(t, 0)), trees |-> <<t>>] : t \in Trees}
  \cup {[toks |-> Lay(Write(Reuse(t), 0)), trees |-> <<Reuse(t)>>] : t \in Inner}
  \cup UNION {{LET t == Merging0(m, c) IN [toks |-> Lay(Write(t, 0)), trees |-> <<t>>] :
               c \in Children(m)} : m \in Mappings}
  \cup {[toks  |-> Lay(OnLine(g[1]) \o Mark0(DocStart) \o OnLine(g[2])),
         trees |-> <<g[1], g[2]>>] : g \in Mixed \X Mixed}
  \cup {[toks  |-> Lay(Mark0(DocStart) \o OnLine(g[1]) \o Mark0(DocEnd)
                       \o OnLine(g[2]) \o Mark0(DocEnd)),
         trees |-> <<g[1], g[2]>>] : g \in Mixed \X Mixed}

=============================================================================
