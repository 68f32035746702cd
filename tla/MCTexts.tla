------------------------------ MODULE MCTexts -------------------------------
(* Parser on every short text, well-formed or not, of block collections,   *)
(* of flow collections, and of documents with an anchor and an alias.      *)
EXTENDS ParserProps, YMLTexts

Brackets    == {LBracket, RBracket, LBrace, RBrace}
InFlow      == {Comma, ColonTok, a}
BlockTexts  == Arrays({Dash, Question, ColonTok, a}, {0, 2}, 4)
               \cup Arrays({Dash, ColonTok, a, BlockText("")}, {0, 2}, 3)
FlowTexts   == Arrays({LBracket, RBracket} \cup InFlow, {0}, 4)
               \cup Arrays({LBrace, RBrace} \cup InFlow, {0}, 4)
               \cup Arrays(Brackets \cup InFlow, {0}, 3)
StreamTexts == Arrays({DocStart, DocEnd, Anchor("x"), Alias("x"), Dash, a},
                      {0}, 4)

Texts == BlockTexts \cup FlowTexts \cup StreamTexts
=============================================================================
