----------------------------- MODULE LexerProps -----------------------------
(***************************************************************************)
(* What lex promises, and what the parser takes for granted of its tokens. *)
(***************************************************************************)
EXTENDS Lexer, Scalars

YML == INSTANCE YMLTexts

TokenTypes == {"DOC_START", "DOC_END", "SEQ_ENTRY", "MAP_KEY", "MAP_VAL",
               "FLOW_SEQ_START", "FLOW_SEQ_END", "FLOW_MAP_START", "FLOW_MAP_END",
               "FLOW_ENTRY", "SCALAR", "ANCHOR", "ALIAS", "TAG", "EOF"}
Styles     == {"plain", "single", "double", "literal", "folded"}
TokenOK(t) ==
  /\ t.type \in TokenTypes /\ t.style \in Styles
  /\ t.line \in Nat /\ t.col \in Nat
  /\ t.owned => t.style \in {"literal", "folded"}
  /\ t.at <= t.to

(* The cursor stays in the text; it leaves it only with a '\' that is the  *)
(* last character, or when the caller's bytes have no end of their kind    *)
(* (lex_double_quoted and normalize_encoding read on behind them).  A      *)
(* block scalar's buffer has room for the '\0' its end puts there.         *)
TypeOK ==
  /\ pc \in {"call", "scan", "block", "text", "done", "refused", "astray", "crashed"}
  /\ storage \in {"caller", "copy", "freed"}
  /\ flow_depth \in Nat
  /\ line \in Nat /\ col \in Nat
  /\ \A i \in DOMAIN tokens : TokenOK(tokens[i])
  /\ dropped \in Nat /\ Len(tokens) <= room
  /\ pc # "astray" => p \in 1..Len(text) + 1
  /\ pc = "astray" => text = <<>> \/ Last(text) = "\\"
  /\ pc \in {"block", "text"} => Len(blk.buf) < blk.cap

(* Line and column are those of the text, however the cursor got there:    *)
(* over escapes, comments, a block scalar's body, and back over the spaces *)
(* of the line that ends one (ladvance; the parser's whole notion of       *)
(* nesting is Token.col).                                                  *)
LineOf(i) == 1 + Cardinality({k \in 1..i - 1 : At(k) = "\n"})
ColOf(i)  == i - 1 - Max({k \in 1..i - 1 : At(k) = "\n"} \cup {0})

Places ==
  /\ line = LineOf(p) /\ col = ColOf(p)
  /\ \A i \in DOMAIN tokens :
       tokens[i].line = LineOf(tokens[i].at) /\ tokens[i].col = ColOf(tokens[i].at)

(* Nothing of the text is lost and nothing is read twice: the tokens stand *)
(* in order and apart, what is between them is blank or a comment that     *)
(* starts outside every token, and a token is its value but for its quotes *)
(* or sign and, if it is plain, the blanks behind it.  So it is as long as *)
(* the array of tokens could grow whenever it was full.                    *)
Covered(i) == \E k \in DOMAIN tokens : i \in tokens[k].at .. tokens[k].to - 1
Comment(i) == \E h \in 1..i : /\ At(h) = "#" /\ ~Covered(h)
                              /\ \A k \in h..i : At(k) # "\n"
Frame(t) == IF t.type = "SCALAR" /\ t.style = "plain" THEN Blank ELSE {At(t.at)}
Whole(t) == LET first == IF At(t.at) \in {"'", "\"", "&", "*"} THEN 1 ELSE 0
                value == t.at + first .. t.at + first + Len(t.val) - 1
            IN /\ t.val = SubSeq(text, t.at + first, t.at + first + Len(t.val) - 1)
               /\ \A i \in (t.at .. t.to - 1) \ value : At(i) \in Frame(t)
LosesNothing ==
  pc = "done" /\ dropped = 0 =>
    /\ \A k \in DOMAIN tokens : tokens[k].owned \/ Whole(tokens[k])
    /\ \A k \in 1..Len(tokens) - 1 : tokens[k].to <= tokens[k + 1].at
    /\ \A i \in DOMAIN text : \/ Covered(i)
                              \/ At(i) \in Blank \cup Breaks
                              \/ Comment(i)

(* What comes out is what Parser and its texts suppose: one EOF, at the    *)
(* end; '-' only in block, ',' only in flow context; document markers at   *)
(* the start of a line; and after a plain or block scalar on its line only *)
(* what YMLTexts lets stand there.  A block scalar whose header names its  *)
(* indentation and goes on ("|1 a") is one that leaves its line unread.    *)
(* Again only as long as no token was dropped.                             *)
Hanging(t) == LET h == HeaderEnd(t.at)
              IN t.owned /\ h.indent > 0 /\ At(h.to - 1) # "\n"
AsLexeme(t) == YML!Lexeme(t.type, IF t.owned THEN "block" ELSE "none",
                          IF Hanging(t) THEN "" ELSE "text", 0,
                          t.type = "SCALAR" /\ t.style = "plain")
DepthAfter ==
  LET d[n \in 0..Len(tokens)] ==
        IF n = 0 THEN 0 ELSE YML!Depth(d[n - 1], AsLexeme(tokens[n]))
  IN d
DepthBefore(k) == DepthAfter[k - 1]

TokensFitParser ==
  pc = "done" /\ dropped = 0 => \A k \in DOMAIN tokens :
    LET t == tokens[k]
        d == DepthBefore(k)
    IN /\ t.type = "EOF" <=> k = Len(tokens)
       /\ YML!InContext(d, AsLexeme(t))
       /\ YML!NewLine(AsLexeme(t), t.col)
       /\ k > 1 /\ tokens[k - 1].line = t.line /\ t.type # "EOF"
            => YML!SameLine(d, AsLexeme(tokens[k - 1]), AsLexeme(t))

(* A quoted scalar ends at the first quote that is not escaped: an odd run *)
(* of '\' stands before every '"' inside and an even one before the last,  *)
(* and inside single quotes quotes come in pairs.  One that no quote ends  *)
(* runs to the end of the text (lex_single_quoted, lex_double_quoted).     *)
RunBefore(t, i, c) == i - 1 - Max({k \in 1..i - 1 : t[k] # c} \cup {0})
QuotesPaired(t) ==
  \A i \in 1..Len(t) + 1 :
    CharAt(t, i) # "'" => RunBefore(t, i, "'") % 2 = 0
QuotesClose ==
  \A k \in DOMAIN tokens :
    LET t == tokens[k]
        closed == t.to = t.at + Len(t.val) + 2
    IN /\ t.style = "double" /\ pc # "astray" =>
            /\ \A i \in DOMAIN t.val : t.val[i] = "\"" => RunBefore(t.val, i, "\\") % 2 = 1
            /\ closed => RunBefore(t.val, Len(t.val) + 1, "\\") % 2 = 0
       /\ t.style = "single" =>
            /\ closed => QuotesPaired(t.val) /\ At(t.to) # "'"
       /\ t.style \in {"single", "double"} /\ ~closed /\ pc # "astray"
            => t.to = Len(text) + 1

(* A block scalar is its lines: those from the header on, each without its *)
(* first base columns, up to the first that is not blank and stands less   *)
(* far in; blank ones are empty, and the chomping indicator says how many  *)
(* line breaks stay at the end (lex_block_scalar).                         *)
Lines(i, j) ==      \* the lines that start in i..j-1, as their first places
  {k \in i..j - 1 : k = i \/ At(k - 1) = "\n" \/ (At(k - 1) = "\r" /\ At(k) # "\n")}
LineEnd(i)  == Until(text, i, Breaks)
LineText(i, base) ==
  LET blank == Spaces(i) = LineEnd(i) - i
  IN (IF blank THEN <<>> ELSE SubSeq(text, i + base, LineEnd(i) - 1)) \o <<"\n">>
EndBreaks(t) == Len(t) - Max({k \in DOMAIN t : t[k] # "\n"} \cup {0})

BlockBody ==
  \A k \in DOMAIN tokens : tokens[k].owned =>
    LET t == tokens[k]
        h == HeaderEnd(t.at)
        base == IF h.indent = 0 THEN Spaces(h.to) ELSE h.indent
        at == SetToSortSeq(Lines(h.to, t.to), <)
        all == FlattenSeq([i \in DOMAIN at |-> LineText(at[i], base)])
        cut == Len(all) - Len(t.val)
    IN /\ SubSeq(all, 1, Len(t.val)) = t.val
       /\ cut >= 0
       /\ \A i \in Len(t.val) + 1 .. Len(all) : all[i] = "\n"
       /\ h.chomp = "-" => EndBreaks(t.val) = 0
       /\ h.chomp = "c" => EndBreaks(t.val) = Min({1, EndBreaks(all)})
       /\ h.chomp = "+" => cut = 0
       /\ \A i \in DOMAIN at : \/ Spaces(at[i]) = LineEnd(at[i]) - at[i]
                               \/ Spaces(at[i]) >= base
       /\ t.to <= Len(text) => /\ Spaces(t.to) < base
                               /\ At(t.to + Spaces(t.to)) \notin Breaks

(* The type of a plain scalar is that of the table above infer_scalar      *)
(* (YMLParser.c:104-113), with .NaN and .NAN beside .nan as                *)
(* tests/test_scalars.c has them, and but for what strtod takes beyond it: *)
(* hexadecimal numbers with a point, a sign or an exponent, and annotated  *)
(* nans.                                                                   *)
Fraction(t)    == \E k \in 0..Len(t) : /\ All(SubSeq(t, 1, k), Digits)
                                       /\ k < Len(t) => t[k + 1] = "."
                                       /\ All(Rest(t, k + 1), Digits)
                                       /\ k = 0 => Len(t) > 1
Exponent(t)    == t = <<>> \/ Power(t, {"e", "E"})
Documented(t) ==
  CASE IsOne(t, Nulls) -> "null"
    [] IsOne(t, Trues \cup Falses) -> "bool"
    [] \/ /\ \E k \in 1..Len(t) : All(Rest(t, k), Digits) /\ k < Len(t)
                                  /\ k = 1 /\ t[1] \in {"+", "-"}
       \/ t # <<>> /\ All(t, Digits)
       \/ \E c \in {"x", "o"} : Prefixed(t, c, IF c = "x" THEN HexDigits ELSE OctDigits)
         -> "int"
    [] OTHER ->
         IF \/ IsOne(t, Infs \cup NaNs)
            \/ \E k \in 1..Len(Unsigned(t)) : /\ Fraction(SubSeq(Unsigned(t), 1, k))
                                              /\ Exponent(Rest(Unsigned(t), k))
         THEN "float" ELSE "str"

InferAsDocumented ==
  \A k \in DOMAIN tokens :
    LET t == tokens[k]
    IN t.type = "SCALAR" /\ t.style = "plain" =>
         \/ Kind(t) = Documented(t.val)
         \/ Kind(t) = "float" /\ (HexFloat(t.val) \/ NoteNaN(t.val))

(* Folding counts: a line break between two lines of text is a space, n of *)
(* them are n - 1 breaks, and only a single one at the end stays           *)
(* (fold_scalar).                                                          *)
Breaks1(t, i) == While(t, i, {"\n"}) - i
Joined(t, i)  == CASE i > 1 /\ t[i - 1] = "\n" -> <<>>
                   [] t[i] # "\n"              -> <<t[i]>>
                   [] Breaks1(t, i) = 1 -> IF i = Len(t) THEN <<"\n">> ELSE <<" ">>
                   [] OTHER -> [k \in 1..Breaks1(t, i) - 1 |-> "\n"]
FoldByRuns ==
  \A k \in DOMAIN tokens : tokens[k].style = "folded" =>
    LET t == tokens[k].val
        f == [i \in DOMAIN t |-> IF t[i] # "\n" THEN <<t[i]>> ELSE Joined(t, i)]
    IN fold_scalar(t) = FlattenSeq(f)

(* A text is lexed as the code points it was written with, whatever the    *)
(* encoding, with or without a byte order mark, and whatever lies behind   *)
(* it in memory (normalize_encoding; YAML 1.2.2, 5.2).  Left out are the   *)
(* texts that cannot be told or found: those shorter than the four bytes   *)
(* that are looked at; one behind a mark of big-endian UTF-32, whose       *)
(* length is taken with strlen; and without a mark one whose first         *)
(* character, in UTF-16 one of whose first two, is beyond Latin-1.         *)
Tellable ==
  LET form == source.form
      cps  == source.cps
  IN /\ cps # <<>>
     /\ form.unit = "utf8" => form.mark \/ Len(source.bytes) >= 4
     /\ form # [unit |-> "utf32be", mark |-> TRUE]
     /\ form.unit # "utf8" /\ ~form.mark => cps[1] < 256
     /\ form.unit \in {"utf16le", "utf16be"} /\ ~form.mark =>
          Len(cps) > 1 /\ cps[2] < 256

DecodesWhatIsEncoded ==
  pc \notin {"call", "refused"} /\ Tellable =>
    /\ pc # "astray" \/ text # <<>>
    /\ text = FlattenSeq([k \in DOMAIN source.cps |-> encode_utf8(source.cps[k])])

(* An allocation that fails inside lex fails the call, so that no token    *)
(* with a value that was lost reaches the parser, but for one: where the   *)
(* array of tokens is full and cannot grow lex goes on (da_push does       *)
(* nothing for a NULL).  Such a failure costs one token and nothing else,  *)
(* and never one of the first TokenCap.                                    *)
FailureReported ==
  pc = "done" => faults = dropped /\ (dropped > 0 => Len(tokens) >= TokenCap)

(* lex comes back: every step moves the cursor on, or leaves it and has    *)
(* fewer such steps left, so that a run that never deadlocks ends.  At a   *)
(* carriage return outside a line end lex_plain pushes empty scalars for   *)
(* ever, so texts with one are left out.                                   *)
LoneReturn == \E k \in DOMAIN text : text[k] = "\r" /\ At(k + 1) # "\n"
Left == CASE pc = "call"  -> 5
          [] pc = "text"  -> IF At(p) = Nul THEN 4 ELSE 2
          [] pc = "block" -> 3
          [] pc = "scan"  -> IF At(p) = Nul THEN 2 ELSE 1
          [] OTHER        -> 0
Advances == [][~LoneReturn => p' > p \/ (p' = p /\ Left' < Left)]_vars

(* The tokens point "into the source string" (_lexer.h:62): what they      *)
(* point to is there when lex has returned.                                *)
TokensPointIntoText ==
  pc = "done" /\ (\E k \in DOMAIN tokens : tokens[k].val # <<>> /\ ~tokens[k].owned)
    => storage # "freed"
=============================================================================
