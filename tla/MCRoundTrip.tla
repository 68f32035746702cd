----------------------------- MODULE MCRoundTrip -----------------------------
(* RoundTrip on strings, keys and shapes, and on buffers that are too small. *)
EXTENDS RoundTripProps

S(t)      == Leaf("str", t)
Elem(v)   == Pair(<<>>, v)
Job(t, i, s, c) == [tree |-> t, indent |-> i, start |-> s, cap |-> c]
UpTo(A, n) == UNION {[1..k -> A] : k \in 0..n}

Strings == UNION {UpTo({"a", "1", ":", " ", "#", "-", "]", "\"", "\\", "\n", ".", "e"}, 2),
                  UpTo({".", " ", "a"}, 4),
                  {<<"T", "r", "u", "e">>, <<"N", "u", "l", "l">>, <<"~">>, <<"n", "u", "l", "l">>,
                   <<"0", "x", "1">>, <<"<", "<">>, <<"+", ".", "i", "n", "f">>, <<"}">>,
                   <<"a", "\t", "\r">>, <<".", "n", "a", "n">>, <<".", "N", "A", "N">>}}
Numbers == {Leaf("float", <<"1", ".", "5">>), Leaf("float", <<"1">>), Leaf("float", <<"-", "0">>),
            Leaf("float", <<"1", "e", "+", "2", "0">>), Leaf("float", <<".", "n", "a", "n">>),
            Leaf("float", <<"-", ".", "i", "n", "f">>), Leaf("int", <<"-", "1", "2">>),
            Leaf("bool", <<"t", "r", "u", "e">>), Leaf("null", <<>>)}

Spots(v) == {v, Node("arr", <<Elem(v), Elem(S(<<"b">>))>>),
             Node("obj", <<Pair(<<"k">>, v), Pair(<<"l">>, S(<<"b">>))>>)}
Keyed(k) == {Node("obj", <<Pair(k, S(<<"b">>))>>),
             Node("arr", <<Elem(Node("obj", <<Pair(k, S(<<"b">>))>>))>>)}

Small  == {S(<<"a">>), Leaf("null", <<>>), Node("arr", <<>>), Node("obj", <<>>)}
Around(V) == UNION {{Node("arr", <<Elem(v)>>), Node("arr", <<Elem(v), Elem(w)>>),
                    Node("obj", <<Pair(<<"k">>, v)>>),
                    Node("obj", <<Pair(<<"k">>, v), Pair(<<"l">>, w)>>)} : v \in V, w \in V}
Nested == Around({S(<<"a">>), Node("arr", <<>>)})
Shapes == UNION {Small, Around(Small), Around(UNION {Nested, {S(<<"a">>)}})}

ValueTexts == {Job(t, 2, FALSE, Stream) : t \in UNION {Spots(S(s)) : s \in Strings}}
KeyTexts == {Job(t, 2, FALSE, Stream) : t \in UNION {Keyed(s) : s \in Strings}}
NumberTexts == {Job(t, 0, TRUE, Stream) : t \in UNION {Spots(v) : v \in Numbers}}
ShapeTexts == {Job(t, i, s, Stream) : t \in Shapes, i \in {1, 4}, s \in BOOLEAN}
Buffers == {Job(t, 2, s, c) : t \in UNION {Small, Around(Small), Spots(S(<<"a", ":">>))},
                              s \in BOOLEAN, c \in 0..14}
Calls == {ValueTexts, KeyTexts, NumberTexts, ShapeTexts, Buffers}
=============================================================================
