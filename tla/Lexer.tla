-------------------------------- MODULE Lexer --------------------------------
(***************************************************************************)
(* lex of _lexer.c: one pass over a C string that leaves an array of       *)
(* tokens.  A step is one turn of the main loop (skip_ws and the branch it *)
(* takes), except that the body of a block scalar is copied step by step   *)
(* into its buffer, which has to grow.                                     *)
(***************************************************************************)
EXTENDS Encoding

CONSTANTS
  Sources,    \* families of what callers pass, memories as Encoding's Client
              \* writes them
  TokenCap,   \* first capacity of the array of tokens (64 in the code)
  BlockCap,   \* first capacity of a block scalar's buffer (256 in the code)
  MaxFaults,  \* bound: allocations that fail during the call
  MaxTokens   \* bound: empty tokens are pushed only so far

ASSUME TokenCapAssumption == TokenCap \in Nat \ {0}
ASSUME BlockCapAssumption == BlockCap \in Nat /\ BlockCap > 1
ASSUME MaxFaultsAssumption == MaxFaults \in Nat
ASSUME SourcesAssumption == \A S \in Sources : \A m \in S : Memory(m)

VARIABLES
  source,      \* the caller's string
  text,        \* what l.p runs over
  storage,     \* where that is: "caller", "copy" (transcoded), "freed"
  p,           \* l.p, 1-based
  line, col,   \* l.line, l.col
  flow_depth,  \* l.flow_depth
  tokens,      \* the array; .at and .to say where in the text a token stood
  room,        \* its capacity
  dropped,     \* history: tokens the array could not grow for
  blk,         \* the locals of lex_block_scalar
  error,       \* l.error
  faults,
  pc

vars == <<source, text, storage, p, line, col, flow_depth, tokens, room, dropped,
          blk, error, faults, pc>>

NoBlock == [style |-> "plain", at |-> 1, line |-> 1, col |-> 0, chomp |-> "c",
            base |-> 0, buf |-> <<>>, cap |-> 0]

At(i)         == CharAt(text, i)
Slice(i, j)   == SubSeq(text, i, Min({j - 1, Len(text)}))
FailAt(n)     == IF faults < MaxFaults THEN 0..n ELSE {0}
Fault(f)      == faults' = IF f = 0 THEN faults ELSE faults + 1

(***************************************************************************)
(* The cursor: ladvance, from p up to i.                                   *)
(***************************************************************************)
LinesTo(i)   == {k \in p..i - 1 : At(k) = "\n"}
LineTo(i)    == line + Cardinality(LinesTo(i))
ColTo(i)     == IF LinesTo(i) = {} THEN col + i - p ELSE i - 1 - Max(LinesTo(i))
AdvanceTo(i) == p' = i /\ line' = LineTo(i) /\ col' = ColTo(i)

(* skip_ws: blanks, line breaks and comments; a '\r' only before a '\n'.   *)
Start ==
  Follow([i \in 1..Len(text) + 1 |->
            CASE At(i) \in Blank \cup {"\n"}      -> i + 1
              [] At(i) = "\r" /\ At(i + 1) = "\n" -> i + 2
              [] At(i) = "#"                      -> Until(text, i, {"\n"})
              [] OTHER                            -> i], p)

is_flow    == flow_depth > 0
PlaceAt(s) == [line |-> LineTo(s), col |-> ColTo(s)]

Token(type, place, s, to, val, style, owned) ==
  [type |-> type, line |-> place.line, col |-> place.col, val |-> val,
   style |-> style, owned |-> owned, at |-> s, to |-> to]

(* da_push, f allocations having failed in this step before: a full array  *)
(* is doubled, or cannot be, and then the token is dropped and lex goes on.*)
Push(t, f) ==
  \/ /\ tokens' = Append(tokens, t)
     /\ room' = IF Len(tokens) = room THEN 2 * room ELSE room
     /\ faults' = faults + f
     /\ UNCHANGED dropped
  \/ /\ Len(tokens) = room /\ faults + f < MaxFaults
     /\ faults' = faults + f + 1
     /\ dropped' = dropped + 1
     /\ UNCHANGED <<tokens, room>>
NoPush == UNCHANGED <<tokens, room, dropped>>

(* A token from s up to i, its value where it stands in the text.          *)
Lexed(type, s, i, val, style) ==
  /\ Push(Token(type, PlaceAt(s), s, i, val, style, FALSE), 0)
  /\ AdvanceTo(i)
  /\ UNCHANGED <<source, text, storage, blk, error>>

Mark(type, s, n) == Lexed(type, s, s + n, <<>>, "plain")

(***************************************************************************)
(* The branches that push a token without a value.                         *)
(***************************************************************************)
IsMarker(s, c) == /\ ColTo(s) = 0
                  /\ \A k \in 0..2 : At(s + k) = c
                  /\ At(s + 3) \in {" ", "\n", "\r", Nul}

LexMarker ==
  /\ pc = "scan"
  /\ LET s == Start
     IN \/ IsMarker(s, "-") /\ Mark("DOC_START", s, 3)
        \/ IsMarker(s, ".") /\ Mark("DOC_END", s, 3)
  /\ UNCHANGED <<flow_depth, pc>>

Opening == [c \in {"[", "{"} |-> IF c = "[" THEN "FLOW_SEQ_START" ELSE "FLOW_MAP_START"]
Closing == [c \in {"]", "}"} |-> IF c = "]" THEN "FLOW_SEQ_END" ELSE "FLOW_MAP_END"]

LexOpen ==
  /\ pc = "scan"
  /\ LET s == Start
     IN At(s) \in DOMAIN Opening /\ Mark(Opening[At(s)], s, 1)
  /\ flow_depth' = flow_depth + 1
  /\ UNCHANGED pc

LexClose ==
  /\ pc = "scan"
  /\ LET s == Start
     IN At(s) \in DOMAIN Closing /\ Mark(Closing[At(s)], s, 1)
  /\ flow_depth' = IF is_flow THEN flow_depth - 1 ELSE 0
  /\ UNCHANGED pc

(* ',', '-', '?' and ':' where they are indicators, "none" elsewhere.      *)
DashAnywhere(s) ==                                               \* mutant
  IF At(s) = "-" /\ At(s + 1) \in BlankOrEnd THEN "SEQ_ENTRY"
  ELSE IF At(s) = "," /\ is_flow THEN "FLOW_ENTRY"
  ELSE IF At(s) = ":" /\ (is_flow \/ At(s + 1) \in BlankOrEnd) THEN "MAP_VAL"
  ELSE "none"
Indicator(s) ==
  LET c == At(s)
      n == At(s + 1)
  IN CASE c = "," /\ is_flow                          -> "FLOW_ENTRY"
       [] c = "-" /\ ~is_flow /\ n \in BlankOrEnd      -> "SEQ_ENTRY"
       [] c = "?" /\ n \in {" ", "\n"}                 -> "MAP_KEY"
       [] c = ":" /\ (is_flow \/ n \in BlankOrEnd)     -> "MAP_VAL"
       [] OTHER                                        -> "none"

LexIndicator ==
  /\ pc = "scan"
  /\ LET s == Start
     IN Indicator(s) # "none" /\ Mark(Indicator(s), s, 1)
  /\ UNCHANGED <<flow_depth, pc>>

(***************************************************************************)
(* Anchors, aliases and tags.                                              *)
(***************************************************************************)
NameEnd(s) == Until(text, s + 1, Blank \cup Breaks \cup {",", "[", "]", "{", "}"})

lex_anchor_alias ==
  /\ pc = "scan"
  /\ LET s == Start
         i == NameEnd(s)
     IN \/ At(s) = "&" /\ Lexed("ANCHOR", s, i, Slice(s + 1, i), "plain")
        \/ At(s) = "*" /\ Lexed("ALIAS", s, i, Slice(s + 1, i), "plain")
  /\ UNCHANGED <<flow_depth, pc>>

(* "!<uri>" may hold blanks; what follows does not. *)
TagEnd(s) ==
  LET g == Until(text, s + 1, {">"})
      i == CASE At(s + 1) = "!" -> s + 2
             [] At(s + 1) = "<" -> IF At(g) = ">" THEN g + 1 ELSE g
             [] OTHER           -> s + 1
  IN Until(text, i, Blank \cup Breaks)

lex_tag ==
  /\ pc = "scan"
  /\ LET s == Start
     IN At(s) = "!" /\ Lexed("TAG", s, TagEnd(s), Slice(s, TagEnd(s)), "plain")
  /\ UNCHANGED <<flow_depth, pc>>

(***************************************************************************)
(* Quoted and plain scalars.                                               *)
(***************************************************************************)
FirstQuote(i) == Until(text, i, {"'"})                            \* mutant
SingleEnd(i) ==
  Follow([k \in 1..Len(text) + 1 |->
            CASE At(k) = "'" /\ At(k + 1) = "'" -> k + 2
              [] At(k) = "'" /\ At(k + 1) # "'" -> k
              [] At(k) = Nul                    -> k
              [] OTHER                          -> k + 1], i)

(* A '\' takes the next character along, also the one that ends the text.  *)
FirstDoubleQuote(i) == Until(text, i, {"\""})                      \* mutant
DoubleEnd(i) ==
  Follow([k \in 1..Len(text) + 2 |->
            CASE At(k) = "\\"          -> k + 2
              [] At(k) \in {"\"", Nul} -> k
              [] OTHER                 -> k + 1], i)

PastQuote(i, q) == IF At(i) = q THEN i + 1 ELSE i

lex_single_quoted ==
  /\ pc = "scan"
  /\ LET s == Start
         i == SingleEnd(s + 1)
     IN At(s) = "'" /\ Lexed("SCALAR", s, PastQuote(i, "'"), Slice(s + 1, i), "single")
  /\ UNCHANGED <<flow_depth, pc>>

(* Behind the text's end the loop reads what happens to be there.          *)
lex_double_quoted ==
  /\ pc = "scan"
  /\ LET s == Start
         i == DoubleEnd(s + 1)
     IN /\ At(s) = "\""
        /\ Lexed("SCALAR", s, PastQuote(i, "\""), Slice(s + 1, i), "double")
        /\ pc' = IF i > Len(text) + 1 THEN "astray" ELSE "scan"
  /\ UNCHANGED flow_depth

CommaAnywhere(s, i) ==                                            \* mutant
  LET c == At(i)
  IN \/ c \in Breaks \cup {",", "]", "}"}
     \/ c = "#" /\ i > s /\ At(i - 1) = " "
     \/ c = ":" /\ (is_flow \/ At(i + 1) \in BlankOrEnd)
PlainStop(s, i) ==
  LET c == At(i)
      n == At(i + 1)
  IN \/ c \in Breaks
     \/ c = "#" /\ i > s /\ At(i - 1) = " "
     \/ c = ":" /\ (is_flow \/ n \in BlankOrEnd)
     \/ c \in {",", "]", "}"} /\ is_flow

PlainEnd(s) == Min({i \in s..Len(text) : PlainStop(s, i)} \cup {Len(text) + 1})
OneTooFew(t) == SubSeq(t, 1, Max({i \in DOMAIN t : t[i] \notin Blank} \cup {1}) - 1)  \* mutant
Trimmed(t)  == SubSeq(t, 1, Max({i \in DOMAIN t : t[i] \notin Blank} \cup {0}))

Special == {"[", "]", "{", "}", "&", "*", "!", "|", ">", "'", "\"", Nul}

(* At a '\r' that no '\n' follows the scalar is empty and nothing moves.   *)
lex_plain ==
  /\ pc = "scan"
  /\ LET s == Start
         i == PlainEnd(s)
     IN /\ At(s) \notin Special
        /\ Indicator(s) = "none" /\ ~IsMarker(s, "-") /\ ~IsMarker(s, ".")
        /\ IF i = p /\ Len(tokens) >= MaxTokens THEN UNCHANGED vars
           ELSE /\ Lexed("SCALAR", s, i, Trimmed(Slice(s, i)), "plain")
                /\ UNCHANGED <<flow_depth, pc>>

(***************************************************************************)
(* lex_block_scalar.                                                       *)
(***************************************************************************)
ChompChars == {"-", "+"}
Nonzero    == Digits \ {"0"}
DigitOf(c) == CHOOSE n \in 1..9 : <<"1", "2", "3", "4", "5", "6", "7", "8", "9">>[n] = c

(* The last of several indicators counts; a comment takes its line's end   *)
(* along, so that an empty line behind it goes with the header.            *)
HeaderEnd(s) ==
  LET h == While(text, s + 1, ChompChars \cup Nonzero)
      b == While(text, h, Blank)
      e == Until(text, b, {"\n"})
      c == IF At(b) = "#" THEN (IF At(e) = "\n" THEN e + 1 ELSE e) ELSE b
  IN [chomp |-> LET k == {j \in s + 1..h - 1 : At(j) \in ChompChars}
                IN IF k = {} THEN "c" ELSE At(Max(k)),
      indent |-> LET k == {j \in s + 1..h - 1 : At(j) \in Nonzero}
                 IN IF k = {} THEN 0 ELSE DigitOf(At(Max(k))),
      to |-> IF At(c) = "\n" THEN c + 1 ELSE c]

BlockStyle(s) == IF At(s) = "|" THEN "literal" ELSE "folded"
Spaces(i) == While(text, i, {" "}) - i

BlockHeader ==
  /\ pc = "scan"
  /\ LET s == Start
         h == HeaderEnd(s)
     IN /\ At(s) \in {"|", ">"}
        /\ \E f \in FailAt(1) :
             /\ error' = (error \/ f = 1)
             /\ blk' = IF f = 1 THEN blk
                       ELSE [style |-> BlockStyle(s),
                             at |-> s, line |-> LineTo(s), col |-> ColTo(s),
                             chomp |-> h.chomp,
                             base |-> IF h.indent = 0 THEN Spaces(h.to) ELSE h.indent,
                             buf |-> <<>>, cap |-> BlockCap]
             /\ IF f = 0 THEN NoPush /\ UNCHANGED faults
                ELSE Push(Token("SCALAR", PlaceAt(s), s, h.to, <<>>, BlockStyle(s), FALSE), 1)
             /\ pc' = IF f = 0 THEN "block" ELSE "scan"
        /\ AdvanceTo(h.to)
  /\ UNCHANGED <<source, text, storage, flow_depth>>

(* n more characters and the '\0' at the end: the capacity is doubled as   *)
(* often as it takes, or realloc fails and the scalar is given up.         *)
NoRoomForNul(n) ==                                               \* mutant
  Follow([c \in 1..2 * (blk.cap + n) |->
            IF Len(blk.buf) + n > c THEN 2 * c ELSE c], blk.cap)
Capacity(n) ==
  Follow([c \in 1..2 * (blk.cap + n) |->
            IF Len(blk.buf) + n >= c THEN 2 * c ELSE c], blk.cap)

GiveUp == /\ error' = TRUE
          /\ blk' = NoBlock
          /\ Push(Token("SCALAR", [line |-> blk.line, col |-> blk.col], blk.at, p', <<>>,
                        blk.style, FALSE), 1)
          /\ pc' = "scan"

(* cs appended, with room for n, the cursor set on i, on at label l; or    *)
(* given up on the way at q.                                               *)
Appended(cs, n, q, i, l) ==
  \/ /\ blk' = [blk EXCEPT !.buf = @ \o cs, !.cap = Capacity(n)]
     /\ AdvanceTo(i)
     /\ pc' = l
     /\ NoPush /\ UNCHANGED <<error, faults>>
  \/ /\ Capacity(n) # blk.cap /\ faults < MaxFaults
     /\ AdvanceTo(q)
     /\ GiveUp

PastBreak(i) ==
  LET j == IF At(i) = "\r" THEN i + 1 ELSE i
  IN IF At(j) = "\n" THEN j + 1 ELSE j

BlankLine == At(p + Spaces(p)) \in Breaks \cup {Nul}
Body      == UNCHANGED <<source, text, storage, flow_depth>>

BlockBlank ==
  /\ pc = "block" /\ At(p) # Nul /\ BlankLine
  /\ LET q == p + Spaces(p) IN Appended(<<"\n">>, 1, q, PastBreak(q), "block")
  /\ Body

BlockIndent ==
  /\ pc = "block" /\ At(p) # Nul /\ ~BlankLine
  /\ Spaces(p) >= blk.base
  /\ LET q == p + Spaces(p)
         extra == Spaces(p) - blk.base
     IN Appended([k \in 1..extra |-> " "], extra + 1, q, q, "text")
  /\ Body

BlockChar ==
  /\ pc = "text" /\ At(p) \notin Breaks \cup {Nul}
  /\ Appended(<<At(p)>>, 1, p, p + 1, "text")
  /\ Body

BlockNewline ==
  /\ pc = "text" /\ At(p) \in Breaks \cup {Nul}
  /\ Appended(<<"\n">>, 1, p, PastBreak(p), "block")
  /\ Body

ClipsAll(buf, chomp) ==                                           \* mutant
  IF chomp = "+" THEN buf
  ELSE SubSeq(buf, 1, Max({k \in DOMAIN buf : buf[k] # "\n"} \cup {0}))
Chomped(buf, chomp) ==
  LET content == Max({k \in DOMAIN buf : buf[k] # "\n"} \cup {0})
  IN CASE chomp = "-" -> SubSeq(buf, 1, content)
       [] chomp = "c" -> SubSeq(buf, 1, Min({Len(buf), content + 1}))
       [] chomp = "+" -> buf

(* The spaces of the line that ends the block are given back. *)
SpacesKept(q) == ColTo(q)                                         \* mutant
ColBack(q) == ColTo(q) - (q - p)

BlockEnd ==
  /\ pc = "block"
  /\ At(p) = Nul \/ (~BlankLine /\ Spaces(p) < blk.base)
  /\ Push(Token("SCALAR", [line |-> blk.line, col |-> blk.col], blk.at, p,
                Chomped(blk.buf, blk.chomp), blk.style, TRUE), 0)
  /\ col' = ColBack(p + Spaces(p))
  /\ blk' = NoBlock
  /\ pc' = "scan"
  /\ UNCHANGED <<p, line, error>>
  /\ Body

(***************************************************************************)
(* The call and its end.                                                   *)
(***************************************************************************)
Init ==
  /\ \E S \in Sources : source \in S
  /\ text = <<>>
  /\ storage = "caller"
  /\ p = 1 /\ line = 1 /\ col = 0 /\ flow_depth = 0
  /\ tokens = <<>> /\ room = TokenCap /\ dropped = 0
  /\ blk = NoBlock
  /\ error = FALSE
  /\ faults = 0
  /\ pc = "call"

(* The transcoded copy and the array of tokens are allocated. *)
LexStart ==
  /\ pc = "call"
  /\ LET r == normalize_encoding(source)
     IN \E f \in FailAt(IF r.copied THEN 2 ELSE 1) :
          /\ Fault(f)
          /\ text' = [k \in DOMAIN r.bytes |-> Chr(r.bytes[k])]
          /\ storage' = IF ~r.copied THEN "caller" ELSE IF f = 0 THEN "copy" ELSE "freed"
          /\ pc' = IF r.astray THEN "astray" ELSE IF f = 0 THEN "scan" ELSE "refused"
  /\ NoPush /\ UNCHANGED <<source, p, line, col, flow_depth, blk, error>>

(* The copy is freed here, and the tokens when a scalar ran out of memory; *)
(* what became of the push of the EOF is then all one.                     *)
ErrorForgotten(s) == FALSE                                        \* mutant
Refused(s) == error

LexEnd ==
  /\ pc = "scan"
  /\ LET s == Start
     IN /\ At(s) = Nul
        /\ IF Refused(s) THEN tokens' = <<>> /\ UNCHANGED <<room, dropped, faults>>
           ELSE Push(Token("EOF", PlaceAt(s), s, s, <<>>, "plain", FALSE), 0)
        /\ AdvanceTo(s)
        /\ pc' = IF Refused(s) THEN "refused" ELSE "done"
  /\ storage' = IF storage = "copy" THEN "freed" ELSE storage
  /\ UNCHANGED <<source, text, flow_depth, blk, error>>

(* When the next push makes the array grow and realloc moves it, _da_push  *)
(* reads the allocator from the header that is gone.                       *)
GrowCrash ==
  /\ pc \in {"scan", "block", "text"} /\ Len(tokens) = room
  /\ pc' = "crashed"
  /\ NoPush /\ UNCHANGED <<source, text, storage, p, line, col, flow_depth, blk, error, faults>>

Finished == pc \in {"done", "refused", "astray", "crashed"}
Stop     == Finished /\ UNCHANGED vars

Marks   == LexMarker \/ LexOpen \/ LexClose \/ LexIndicator
Scalars == lex_single_quoted \/ lex_double_quoted \/ lex_plain
Blocks  == \/ BlockHeader \/ BlockBlank \/ BlockIndent \/ BlockChar
           \/ BlockNewline \/ BlockEnd

Next == \/ LexStart \/ Marks \/ lex_anchor_alias \/ lex_tag \/ Scalars \/ Blocks
        \/ LexEnd \/ GrowCrash \/ Stop

Spec == Init /\ [][Next]_vars
=============================================================================
