------------------------------- MODULE Scalars -------------------------------
(***************************************************************************)
(* What parse_scalar makes of a scalar token's text: infer_scalar for a    *)
(* plain one, the unescape functions for a quoted one, fold_scalar for     *)
(* '>' (YMLParser.c).                                                      *)
(***************************************************************************)
EXTENDS Encoding

All(t, S)    == \A i \in DOMAIN t : t[i] \in S
IsOne(t, S)  == Str(t) \in S
Rest(t, n)   == SubSeq(t, n + 1, Len(t))
Signed(t)    == t # <<>> /\ t[1] \in {"+", "-"}
Unsigned(t)  == IF Signed(t) THEN Tail(t) ELSE t

(***************************************************************************)
(* infer_scalar.  It converts the first 63 characters; texts here are      *)
(* shorter.                                                                *)
(***************************************************************************)
SignIsDecimal(t) == All(Unsigned(t), Digits)                     \* mutant
is_decimal(t)    == Unsigned(t) # <<>> /\ All(Unsigned(t), Digits)
Prefixed(t, c, S) == /\ Len(t) > 2
                     /\ t[1] = "0" /\ t[2] = c
                     /\ All(Rest(t, 2), S)
is_hex(t)     == Prefixed(t, "x", HexDigits)
is_octal(t)   == Prefixed(t, "o", OctDigits)

(* strtod of the C library takes all of t: a decimal or hexadecimal number *)
(* with at most one point, an exponent, or nan with a note in parentheses  *)
(* (what has neither '.' nor an 'e' never gets here).                      *)
Number(t, D)   == /\ \E i \in DOMAIN t : t[i] \in D
                  /\ All(t, D \cup {"."})
                  /\ \A i, j \in DOMAIN t : t[i] = "." /\ t[j] = "." => i = j
Power(t, E)    == /\ t # <<>>
                  /\ t[1] \in E
                  /\ is_decimal(Tail(t))
Scaled(t, D, E) == \E k \in 1..Len(t) : /\ Number(SubSeq(t, 1, k), D)
                                        /\ k = Len(t) \/ Power(Rest(t, k), E)
HexFloat(t)    == LET u == Unsigned(t)
                  IN /\ Len(u) > 2 /\ u[1] = "0" /\ u[2] \in {"x", "X"}
                     /\ Scaled(Rest(u, 2), HexDigits, {"p", "P"})
NoteNaN(t)     == LET u == Unsigned(t)
                  IN /\ Len(u) > 4 /\ Str(SubSeq(u, 1, 4)) = "nan(" /\ u[Len(u)] = ")"
                     /\ \A i \in 5..Len(u) - 1 : u[i] \notin {"(", ")", ".", "+", "-"}
strtod(t)      == \/ Scaled(Unsigned(t), Digits, {"e", "E"})
                  \/ HexFloat(t)
                  \/ NoteNaN(t)

Nulls  == {"", "~", "null", "Null", "NULL"}
Trues  == {"true", "True", "TRUE"}
Falses == {"false", "False", "FALSE"}
Infs   == {".inf", "+.inf", "-.inf"}
NaNs   == {".nan", ".NaN", ".NAN"}

infer_scalar(t) ==
  CASE IsOne(t, Nulls)                                     -> "null"
    [] IsOne(t, Trues \cup Falses)                         -> "bool"
    [] IsOne(t, Infs \cup NaNs)                            -> "float"
    [] is_decimal(t) \/ is_hex(t) \/ is_octal(t)           -> "int"
    [] /\ ~is_decimal(t) /\ ~is_hex(t)
       /\ \E i \in DOMAIN Unsigned(t) : Unsigned(t)[i] \in {".", "e", "E"}
       /\ strtod(t)                                        -> "float"
    [] OTHER                                               -> "str"

(***************************************************************************)
(* The escapes of a double-quoted scalar.                                  *)
(***************************************************************************)
Escapes ==
  [c \in {"0", "a", "b", "t", "\t", "n", "v", "f", "r", "e", "\"", "/", "\\"} |->
     CASE c = "0" -> Chr(0)   [] c = "a" -> Chr(7)   [] c = "b" -> Chr(8)
       [] c \in {"t", "\t"} -> "\t"                  [] c = "n" -> "\n"
       [] c = "v" -> Chr(11)  [] c = "f" -> Chr(12)  [] c = "r" -> "\r"
       [] c = "e" -> Chr(27)  [] OTHER -> c]

Hex(c) == IF c \notin HexDigits THEN 0
          ELSE (CHOOSE k \in 1..22 :
                  <<"0", "1", "2", "3", "4", "5", "6", "7", "8", "9", "a", "b", "c",
                    "d", "e", "f", "A", "B", "C", "D", "E", "F">>[k] = c) - 1
HexDigit(c)  == IF Hex(c) > 15 THEN Hex(c) - 6 ELSE Hex(c)
parse_hex_n(t) == FoldLeft(LAMBDA n, c : 16 * n + HexDigit(c), 0, t)
encode_utf8(cp) == [k \in DOMAIN enc_utf8(cp) |-> Chr(enc_utf8(cp)[k])]

(* \x gives a byte, \u and \U a code point; cut short they give nothing.   *)
Wide == [c \in {"x", "u", "U"} |-> CASE c = "x" -> 2 [] c = "u" -> 4 [] c = "U" -> 8]
Decoded(c, h) == IF c = "x" THEN <<Chr(parse_hex_n(h))>> ELSE encode_utf8(parse_hex_n(h))

unescape_double_quoted(t) ==
  LET n == Len(t)
      from[i \in 1..n + 1] ==
        CASE i > n                    -> <<>>
          [] i <= n /\ t[i] # "\\"    -> <<t[i]>> \o from[i + 1]
          [] i = n /\ t[i] = "\\"     -> <<>>
          [] OTHER ->
               LET c == t[i + 1]
                   j == i + 2
               IN CASE c \in DOMAIN Escapes -> <<Escapes[c]>> \o from[j]
                    [] c \in DOMAIN Wide ->
                         IF i + 1 + Wide[c] <= n
                         THEN Decoded(c, SubSeq(t, j, j + Wide[c] - 1)) \o from[j + Wide[c]]
                         ELSE from[j]
                    [] c = "\n" -> from[While(t, j, Blank \cup Breaks)]
                    [] OTHER    -> <<c>> \o from[j]
  IN from[1]

unescape_single_quoted(t) ==
  LET from[i \in 1..Len(t) + 1] ==
        CASE i > Len(t) -> <<>>
          [] i < Len(t) /\ t[i] = "'" /\ t[i + 1] = "'" -> <<"'">> \o from[i + 2]
          [] OTHER -> <<t[i]>> \o from[i + 1]
  IN from[1]

(***************************************************************************)
(* fold_scalar.                                                            *)
(***************************************************************************)
FoldEachBreak(t) == [i \in DOMAIN t |-> IF t[i] = "\n" /\ i < Len(t)  \* mutant
                                        THEN " " ELSE t[i]]
fold_scalar(t) ==
  LET n == Len(t)
      from[i \in 1..n + 1] ==
        CASE i > n                              -> <<>>
          [] i <= n /\ t[i] # "\n"              -> <<t[i]>> \o from[i + 1]
          [] i = n /\ t[i] = "\n"               -> <<"\n">>
          [] i < n /\ t[i] = "\n" /\ t[i + 1] # "\n" -> <<" ">> \o from[i + 1]
          [] OTHER -> LET j == While(t, i + 1, {"\n"})
                      IN SubSeq(t, i + 1, j - 1) \o from[j]
  IN from[1]

(* The value is a C string: it ends where a byte of it is zero.            *)
CString(t) == SubSeq(t, 1, Until(t, 1, {Chr(0)}) - 1)

(***************************************************************************)
(* parse_scalar and token_strdup: the token the parser works with.         *)
(***************************************************************************)
Cooked(tok) ==
  CASE tok.style = "single" -> unescape_single_quoted(tok.val)
    [] tok.style = "double" -> CString(unescape_double_quoted(tok.val))
    [] tok.style = "folded" -> fold_scalar(tok.val)
    [] OTHER                -> tok.val

Kind(tok) ==
  CASE tok.type # "SCALAR"                 -> "none"
    [] tok.type = "SCALAR" /\ tok.style = "plain" -> infer_scalar(tok.val)
    [] tok.type = "SCALAR" /\ tok.style \in {"literal", "folded"} -> "block"
    [] OTHER                               -> "str"
=============================================================================
