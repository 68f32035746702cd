------------------------------ MODULE Encoding ------------------------------
(***************************************************************************)
(* normalize_encoding of _lexer.c and the decoders it calls, over bytes.   *)
(* A memory is the bytes of the caller's string with its terminator; what  *)
(* lies behind them is two bytes, over and over.                           *)
(***************************************************************************)
EXTENDS Chars

(* enc_utf8.  The first byte is an "or" of 0xF0 and what is above bit 17. *)
Tail6(n) == 128 + (n % 64)
enc_utf8(cp) ==
  CASE cp < 128 -> <<cp>>
    [] 128 <= cp /\ cp < 2048 -> <<192 + (cp \div 64), Tail6(cp)>>
    [] 2048 <= cp /\ cp < 65536 -> <<224 + (cp \div 4096), Tail6(cp \div 64), Tail6(cp)>>
    [] OTHER -> <<240 + ((cp \div 262144) % 16), Tail6(cp \div 4096), Tail6(cp \div 64),
                  Tail6(cp)>>

Memory(m)  == m.bytes \in Seq(0..255) /\ m.behind \in [1..2 -> 0..255]
Byte(m, i) == IF i <= Len(m.bytes) THEN m.bytes[i] ELSE m.behind[1 + (i % 2)]

(* The number whose w bytes start at i, big-endian or little-endian. *)
Unit(m, i, w, be) ==
  LET b(k) == Byte(m, IF be THEN i + k - 1 ELSE i + w - k)
      pair(k) == 256 * b(k) + b(k + 1)
  IN IF w = 2 THEN pair(1) ELSE 65536 * pair(1) + pair(3)

(* Units before the first that is zero; none when the search runs away.    *)
Zero(m, i, w) == \A k \in 0..w - 1 : Byte(m, i + k) = 0
Units(m, i, w) ==
  {n \in 0..Len(m.bytes) : /\ Zero(m, i + n * w, w)
                           /\ \A k \in 0..n - 1 : ~Zero(m, i + k * w, w)}

High == 55296..56319      \* D800..DBFF
Low  == 56320..57343      \* DC00..DFFF

(* decode_utf16 of n units from i on: a high surrogate without its low one *)
(* ends the text there.                                                    *)
decode_utf16(m, i, n, be) ==
  LET u(k)    == Unit(m, i + 2 * (k - 1), 2, be)
      pair(k) == k \in 1..n - 1 /\ u(k) \in High /\ u(k + 1) \in Low
      lone    == {k \in 1..n : u(k) \in High /\ ~pair(k)}
  IN FlattenSeq([k \in 1..Min(lone \cup {n + 1}) - 1 |->
       CASE pair(k)     -> enc_utf8(65536 + (u(k) - 55296) * 1024 + u(k + 1) - 56320)
         [] pair(k - 1) -> <<>>
         [] OTHER       -> enc_utf8(u(k))])

decode_utf32(m, i, n, be) ==
  FlattenSeq([k \in 1..n |-> enc_utf8(Unit(m, i + 4 * (k - 1), 4, be))])

(* What the first bytes announce: the width of a unit, its order, and how  *)
(* many bytes to skip.  The tests run in this order.                       *)
Utf16First(m) ==                                                  \* mutant
  LET b(i) == Byte(m, i)
      is(w, be, skip) == [width |-> w, be |-> be, skip |-> skip]
  IN IF b(1) = 254 /\ b(2) = 255                           THEN is(2, TRUE, 2)
     ELSE IF b(1) = 255 /\ b(2) = 254                      THEN is(2, FALSE, 2)
     ELSE IF b(1) = 239 /\ b(2) = 187 /\ b(3) = 191        THEN is(1, FALSE, 3)
     ELSE IF b(1) = 0 /\ b(2) = 0 /\ b(3) = 0              THEN is(4, TRUE, 0)
     ELSE IF b(2) = 0 /\ b(3) = 0 /\ b(4) = 0              THEN is(4, FALSE, 0)
     ELSE IF b(1) = 0 /\ b(3) = 0                          THEN is(2, TRUE, 0)
     ELSE IF b(2) = 0 /\ b(4) = 0                          THEN is(2, FALSE, 0)
     ELSE is(1, FALSE, 0)
Announced(m) ==
  LET b(i) == Byte(m, i)
      is(w, be, skip) == [width |-> w, be |-> be, skip |-> skip]
  IN IF b(1) = 0 /\ b(2) = 0 /\ b(3) = 254 /\ b(4) = 255   THEN is(4, TRUE, 4)
     ELSE IF b(1) = 255 /\ b(2) = 254 /\ b(3) = 0 /\ b(4) = 0 THEN is(4, FALSE, 4)
     ELSE IF b(1) = 254 /\ b(2) = 255                    THEN is(2, TRUE, 2)
     ELSE IF b(1) = 255 /\ b(2) = 254                    THEN is(2, FALSE, 2)
     ELSE IF b(1) = 239 /\ b(2) = 187 /\ b(3) = 191      THEN is(1, FALSE, 3)
     ELSE IF b(1) = 0 /\ b(2) = 0 /\ b(3) = 0            THEN is(4, TRUE, 0)
     ELSE IF b(2) = 0 /\ b(3) = 0 /\ b(4) = 0            THEN is(4, FALSE, 0)
     ELSE IF b(1) = 0 /\ b(3) = 0                        THEN is(2, TRUE, 0)
     ELSE IF b(2) = 0 /\ b(4) = 0                        THEN is(2, FALSE, 0)
     ELSE is(1, FALSE, 0)

(* normalize_encoding: the bytes lex is to read, whether they are a copy,  *)
(* and whether the search for their end left the memory for good.  The     *)
(* length behind a big-endian UTF-32 mark is taken with strlen.            *)
normalize_encoding(m) ==
  LET a     == Announced(m)
      i     == a.skip + 1
      marked == a.width = 4 /\ a.be /\ a.skip > 0
      ends  == IF marked THEN {n \div 4 : n \in Units(m, i, 1)}
                         ELSE Units(m, i, a.width)
      n     == Min(ends)
  IN CASE ends = {}   -> [bytes |-> <<>>, copied |-> FALSE, astray |-> TRUE]
       [] ends # {} /\ a.width = 1 ->
            [bytes |-> [k \in 1..n |-> Byte(m, i + k - 1)], copied |-> FALSE,
             astray |-> FALSE]
       [] OTHER ->
            [bytes |-> IF a.width = 2 THEN decode_utf16(m, i, n, a.be)
                                      ELSE decode_utf32(m, i, n, a.be),
             copied |-> TRUE, astray |-> FALSE]

(***************************************************************************)
(* The other side: how a client writes code points, with or without a      *)
(* byte order mark.                                                        *)
(***************************************************************************)
Forms == [unit : {"utf8", "utf16le", "utf16be", "utf32le", "utf32be"}, mark : BOOLEAN]

Split(n, w, be) ==
  LET d == [k \in 1..w |-> (n \div 256 ^ (k - 1)) % 256]
  IN IF be THEN Reverse(d) ELSE d

Encode(form, cp) ==
  CASE form.unit = "utf8"    -> enc_utf8(cp)
    [] form.unit \in {"utf16le", "utf16be"} ->
         LET be == form.unit = "utf16be"
         IN IF cp < 65536 THEN Split(cp, 2, be)
            ELSE Split(55296 + ((cp - 65536) \div 1024), 2, be)
                 \o Split(56320 + ((cp - 65536) % 1024), 2, be)
    [] form.unit = "utf32le" -> Split(cp, 4, FALSE)
    [] form.unit = "utf32be" -> Split(cp, 4, TRUE)

Terminator(form) == CASE form.unit = "utf8"                   -> <<0>>
                      [] form.unit \in {"utf16le", "utf16be"} -> <<0, 0>>
                      [] OTHER                                -> <<0, 0, 0, 0>>

Written(form, cps) ==
  (IF form.mark THEN Encode(form, 65279) ELSE <<>>)
  \o FlattenSeq([k \in DOMAIN cps |-> Encode(form, cps[k])]) \o Terminator(form)

Client(form, cps, behind) ==
  [form |-> form, cps |-> cps, bytes |-> Written(form, cps), behind |-> behind]
=============================================================================
