------------------------------ MODULE YMLTexts ------------------------------
(***************************************************************************)
(* Token arrays for checking Parser: every array of up to n tokens over an *)
(* alphabet that lex could return for some text.  A token has the column   *)
(* its text would have; a line break puts the next token in one of a few   *)
(* columns.                                                                *)
(***************************************************************************)
EXTENDS Integers, Sequences, SequencesExt

(* One lexeme: what the lexer makes of it, its width with the blank that   *)
(* must follow, and whether it is a plain scalar.                          *)
Lexeme(type, kind, val, width, plain) ==
  [type |-> type, kind |-> kind, val |-> val, width |-> width, plain |-> plain]

Mark(type, width)  == Lexeme(type, "none", "", width, FALSE)
Plain(kind, val)   == Lexeme("SCALAR", kind, val, 1, TRUE)
Quoted(val)        == Lexeme("SCALAR", "str", val, 3, FALSE)
BlockText(val)     == Lexeme("SCALAR", "block", val, 1, FALSE)
Dash     == Mark("SEQ_ENTRY", 2)
Question == Mark("MAP_KEY", 2)
ColonTok == Mark("MAP_VAL", 2)
LBracket == Mark("FLOW_SEQ_START", 1)
RBracket == Mark("FLOW_SEQ_END", 1)
LBrace   == Mark("FLOW_MAP_START", 1)
RBrace   == Mark("FLOW_MAP_END", 1)
Comma    == Mark("FLOW_ENTRY", 1)
DocStart == Mark("DOC_START", 4)
DocEnd   == Mark("DOC_END", 4)
Anchor(name) == Lexeme("ANCHOR", "none", name, 3, FALSE)
Alias(name)  == Lexeme("ALIAS", "none", name, 3, FALSE)
Tag(name)    == Lexeme("TAG", "none", name, 6, FALSE)
MergeKey     == Lexeme("SCALAR", "str", "<<", 2, TRUE)

Token(x, line, col) ==
  [type |-> x.type, line |-> line, col |-> col, kind |-> x.kind, val |-> x.val]

(* flow_depth after x. *)
Depth(d, x) ==
  CASE x.type \in {"FLOW_SEQ_START", "FLOW_MAP_START"}         -> d + 1
    [] x.type \in {"FLOW_SEQ_END", "FLOW_MAP_END"} /\ d > 0    -> d - 1
    [] OTHER                                                   -> d

(* What lex can produce at flow depth d, whatever stands before it. *)
InContext(d, x) ==
  /\ x.type = "SEQ_ENTRY" => d = 0
  /\ x.type = "FLOW_ENTRY" => d > 0

(* What can follow p on the same line: a plain scalar runs on to a ':', or *)
(* in flow context to a delimiter; a block scalar eats whole lines, but    *)
(* for one that has no text because its header's line goes on ("|1 a"),    *)
(* which says how far in its text would be; and a document marker starts   *)
(* its line.                                                               *)
SameLine(d, p, x) ==
  /\ x.type \notin {"DOC_START", "DOC_END"}
  /\ p.kind = "block" => p.val = ""
  /\ p.plain => \/ x.type = "MAP_VAL"
                \/ d > 0 /\ x.type \in {"FLOW_ENTRY", "FLOW_SEQ_END",
                                        "FLOW_MAP_END"}

NewLine(x, c) == x.type \in {"DOC_START", "DOC_END"} => c = 0

(* Texts grow by a lexeme, on the same line or on a new one at a column.   *)
Here == -1

Longer(texts, alphabet, columns) ==
  {LET s == g[1]  x == g[2]  t == Last(s.toks)
       line == IF g[3] = Here THEN t.line ELSE t.line + 1
       col  == IF g[3] = Here THEN t.col + s.last.width ELSE g[3]
   IN [toks  |-> Append(s.toks, Token(x, line, col)),
       depth |-> Depth(s.depth, x), last |-> x]
   : g \in {h \in texts \X alphabet \X (columns \cup {Here}) :
             /\ InContext(h[1].depth, h[2])
             /\ IF h[3] = Here THEN SameLine(h[1].depth, h[1].last, h[2])
                               ELSE NewLine(h[2], h[3])}}

Close(toks) == Append(toks, Token(Mark("EOF", 0), Last(toks).line + 1, 0))

Arrays(alphabet, columns, n) ==
  LET T[k \in 1..n] ==
        IF k = 1
        THEN {[toks |-> <<Token(x, 1, 0)>>, depth |-> Depth(0, x), last |-> x] :
                x \in {y \in alphabet : InContext(0, y)}}
        ELSE Longer(T[k - 1], alphabet, columns)
  IN {Close(SubSeq(s.toks, 1, k)) : s \in T[n], k \in 1..n}

a == Plain("str", "a")
b == Plain("str", "b")
one == Plain("int", "1")
=============================================================================
