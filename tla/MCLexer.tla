------------------------------- MODULE MCLexer -------------------------------
(* Lexer on every short text over a few alphabets, one for each construct, *)
(* and on texts written in every encoding.                                 *)
EXTENDS LexerProps

Utf8     == [unit |-> "utf8", mark |-> FALSE]
Plainly(t) == Client(Utf8, [k \in DOMAIN t |-> Codes[t[k]]], <<0, 0>>)
UpTo(S, n) == UNION {[1..k -> S] : k \in 1..n}

Flow     == UpTo({"[", "}", ",", ":", "-", " ", "a"}, 4)
Lines0   == UpTo({"-", ".", " ", "\n", "#", "a"}, 4)
Breaks0  == UpTo({"\r", "\n", "#", "'", "a"}, 4)
Quotes   == UpTo({"'", "\"", "\\", "a", "\n"}, 5)
Names    == UpTo({"&", "*", "!", "<", ">", " ", "]", "a"}, 3)
Body0    == UpTo({" ", "\n", "a"}, 5)
Headers  == {<<"|">>, <<">">>, <<"|", "-">>, <<"|", "+">>, <<">", "1">>, <<"|", "#">>}
BlockTexts == {<<"-", " ">> \o h \o <<"\n">> \o t : h \in Headers, t \in Body0}
                \cup {<<"|">> \o t : t \in UpTo({"1", "\r", "\n", " ", "a"}, 4)}
Numbers  == UpTo({"0", "1", ".", "e", "-", "x"}, 4)
Words    == {<<"n", "u", "l", "l">>, <<"T", "r", "u", "e">>, <<"~">>, <<"0", "o", "7">>,
             <<".", "i", "n", "f">>, <<"n", "a", "n", "(", "e", ")">>}

Encoded ==
  {Client(form, cps, behind) :
     form \in Forms,
     cps \in UpTo({97, 127, 128, 2047, 2048, 65535, 65536, 1114111}, 2)
              \cup [1..3 -> {97, 8364, 57344, 55295}],
     behind \in {<<0, 0>>, <<65, 65>>, <<65, 0>>}}
Utf16Texts == {{s \in Encoded : s.form = [unit |-> "utf16le", mark |-> TRUE]}}

Plain(S) == {Plainly(t) : t \in S}
Texts == {Plain(Flow), Plain(Lines0), Plain(Breaks0), Plain(Quotes), Plain(Names),
          Plain(BlockTexts), Plain(Numbers), Plain(Words), Encoded}
=============================================================================
