-------------------------------- MODULE Chars --------------------------------
(***************************************************************************)
(* C strings.  A text is a sequence of characters, a character a string of *)
(* length one; the byte that ends a text reads as Nul.  A byte outside     *)
(* ASCII, a control character and the backquote go by their numbers.       *)
(***************************************************************************)
EXTENDS Integers, Sequences, SequencesExt, FiniteSetsExt

Nul == ""

Printable ==
  <<" ", "!", "\"", "#", "$", "%", "&", "'", "(", ")", "*", "+", ",", "-", ".", "/",
    "0", "1", "2", "3", "4", "5", "6", "7", "8", "9", ":", ";", "<", "=", ">", "?",
    "@", "A", "B", "C", "D", "E", "F", "G", "H", "I", "J", "K", "L", "M", "N", "O",
    "P", "Q", "R", "S", "T", "U", "V", "W", "X", "Y", "Z", "[", "\\", "]", "^", "_",
    "\\x96", "a", "b", "c", "d", "e", "f", "g", "h", "i", "j", "k", "l", "m", "n", "o",
    "p", "q", "r", "s", "t", "u", "v", "w", "x", "y", "z", "{", "|", "}", "~">>

Control == [i \in {9, 10, 13} |-> CASE i = 9 -> "\t" [] i = 10 -> "\n" [] i = 13 -> "\r"]

Chr(b) == CASE b \in DOMAIN Control -> Control[b]
            [] b \in 32..126        -> Printable[b - 31]
            [] OTHER                -> "\\x" \o ToString(b)

(* A byte that is not zero does not end a text. *)
ASSUME CharsAssumption == \A b \in 1..255 : Chr(b) # Nul

Codes == [c \in Range(Printable) \cup Range(Control) |->
            IF c \in Range(Control)
            THEN CHOOSE i \in DOMAIN Control : Control[i] = c
            ELSE 31 + CHOOSE i \in DOMAIN Printable : Printable[i] = c]

(* A text as one string; and back, for the texts a model is given. *)
Str(t)      == FoldLeft(LAMBDA r, c : r \o c, "", t)
Digits      == {"0", "1", "2", "3", "4", "5", "6", "7", "8", "9"}
OctDigits   == {"0", "1", "2", "3", "4", "5", "6", "7"}
HexDigits   == Digits \cup {"a", "b", "c", "d", "e", "f", "A", "B", "C", "D", "E", "F"}
Blank       == {" ", "\t"}
Breaks      == {"\n", "\r"}
BlankOrEnd  == Blank \cup Breaks \cup {Nul}

(* The character at i, and the first place from i on with one of S, at the *)
(* latest the end.                                                         *)
CharAt(t, i)   == IF i \in DOMAIN t THEN t[i] ELSE Nul
Until(t, i, S) == Min({j \in i..Len(t) : t[j] \in S} \cup {Max({i, Len(t) + 1})})
While(t, i, S) == Min({j \in i..Len(t) : t[j] \notin S} \cup {Max({i, Len(t) + 1})})

(* Where a loop ends that goes from place k on to next[k] until it stays.  *)
Ends(next)      == LET end[k \in DOMAIN next] == IF next[k] = k THEN k ELSE end[next[k]]
                   IN end
Follow(next, i) == Ends(next)[i]
=============================================================================
