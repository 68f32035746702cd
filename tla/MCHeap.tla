------------------------------- MODULE MCHeap -------------------------------
(* Parser's ledger, with and without a failing allocation: a few texts of  *)
(* each construct, and every short text of tokens it may stumble over.     *)
EXTENDS ParserProps, YMLTrees

Simple == {Leaf0(a), Leaf0(Quoted("q")), Leaf0(BlockText("t")),
           Node("fseq", <<Kid("", Leaf0(one))>>),
           Node("fmap", <<Kid("k", Leaf0(a))>>),
           Node("seq",  <<Kid("", Leaf0(a)), Kid("", Leaf0(one))>>),
           Node("map",  <<Kid("k", Node("seq", <<Kid("", Leaf0(a))>>))>>)}
Base   == Node("map", <<Kid("k", Leaf0(a))>>)
Merges == {Merging0(m, c) : m \in {Base, Node("fmap", <<Kid("k", Leaf0(one))>>)},
             c \in {<<Kid("<<", AliasOf(Base, "x"))>>,
                    <<Own(b), Kid("<<", AliasOf(Base, "x"))>>,
                    <<Kid("<<", Leaf0(a))>>,
                    <<Kid("<<", Node("fseq", <<
                        Kid("", AliasOf(Base, "x")), Kid("", Leaf0(one)),
                        Kid("", Node("fmap", <<Kid("n", Leaf0(a))>>))>>))>>}}

(* Every tag on every type of value, plain, quoted or block, and on a flow *)
(* collection; on one that an anchor keeps a copy of.                      *)
Line(xs) == Lay([i \in DOMAIN xs |-> [x |-> xs[i], place |-> Here]])
Tags    == {"str", "int", "float", "bool", "null"}
Scalars == {<<Plain(t, "v")>> : t \in {"str", "int", "float", "bool", "null"}}
           \cup {<<Quoted("q")>>, <<BlockText("t")>>}
Flows   == {<<LBracket, RBracket>>, <<LBracket, a, RBracket>>,
            <<LBrace, Quoted("q"), ColonTok, a, RBrace>>}
Tagged  == {Line(<<Tag(t)>> \o v) : t \in Tags, v \in Scalars \cup Flows}
           \cup {Line(<<LBracket, Tag(t), Anchor("x")>> \o v \o <<Comma, Alias("x"), RBracket>>) :
                   t \in Tags, v \in Flows \cup {<<Quoted("q")>>}}

(* A key set again, to a string, a list or nothing: in the text, or after  *)
(* a merge brought it.                                                     *)
Pair(v)  == Kid("k", v)
Again    == {Leaf0(a), Leaf0(one), Node("fseq", <<Kid("", Leaf0(a))>>)}
SetTwice == {Node(f, <<Pair(u), Pair(v)>>) : f \in {"map", "fmap"}, u \in Again, v \in Again}
            \cup {Merging0(Base, <<Kid("<<", AliasOf(Base, "x")), Pair(v)>>) : v \in Again}

(* A block scalar as a key, or behind the end of the document.             *)
Below(x, c) == <<[x |-> x, place |-> c]>>
Unread  == {Lay(At0(Question) \o At0(BlockText("t")) \o Below(ColonTok, 0) \o At0(a)),
            Lay(At0(Question) \o At0(BlockText("t")) \o Below(Question, 0) \o At0(a)),
            Lay(At0(LBrace) \o At0(BlockText("t")) \o Below(ColonTok, 1) \o At0(a)
                \o At0(RBrace)),
            Lay(At0(Quoted("q")) \o At0(BlockText("t"))),
            Lay(At0(DocStart) \o At0(Anchor("x")) \o At0(a) \o Mark0(DocStart)
                \o At0(Anchor("y")) \o At0(BlockText("t")))}

Written == {Lay(Write(t, 0)) : t \in Simple \cup Merges \cup SetTwice
                                   \cup {Reuse(t) : t \in Simple}}

Texts == Written \cup Tagged \cup Unread
          \cup Arrays({Dash, Question, ColonTok, LBracket, RBrace, a}, {0}, 3)
          \cup Arrays({LBrace, ColonTok, Quoted("q"), Alias("x"), DocEnd, MergeKey}, {0}, 3)
=============================================================================
