------------------------------ MODULE RoundTrip ------------------------------
(***************************************************************************)
(* README.md's "Round-trip example": a tree is written into a buffer, the  *)
(* text is given to YMLParse, lexed and parsed.  Writer, Lexer and Parser  *)
(* composed: one thread runs them one after the other, and each takes what *)
(* the one before left.                                                    *)
(***************************************************************************)
EXTENDS Writer, Scalars

CONSTANTS BlockCap, MaxTokens, MaxKids

VARIABLES
  source, text, storage, p, line, col, flow_depth, lexed, room, dropped, blk, error,
  lfaults, lpc,                                                        \* Lexer
  tokens, pos, stack, ret, ok, err, anchors, docs, mode, alloc, pfaults, live,
  ppc                                                         \* Parser

lvars == <<source, text, storage, p, line, col, flow_depth, lexed, room, dropped, blk,
           error, lfaults, lpc>>
pvars == <<tokens, pos, stack, ret, ok, err, anchors, docs, mode, alloc,
           pfaults, live, ppc>>
vars  == <<wvars, lvars, pvars>>

(* What stands where nothing has been handed over yet. *)
Utf8      == [unit |-> "utf8", mark |-> FALSE]
Caller(t) == Client(Utf8, [k \in DOMAIN t |-> Codes[t[k]]], <<0, 0>>)
NoTokens  == <<[type |-> "EOF", line |-> 1, col |-> 0, kind |-> "none", val |-> ""]>>

Lex == INSTANCE Lexer WITH
         Sources <- {{Caller(<<>>)}}, TokenCap <- 64, MaxFaults <- 0,
         tokens <- lexed, faults <- lfaults, pc <- lpc
YML == INSTANCE Parser WITH
         Inputs <- {NoTokens}, Modes <- {"parse"}, Allocators <- {"malloc"},
         MaxDocs <- 1, MaxFaults <- 0, faults <- pfaults, pc <- ppc

Init == WInit /\ Lex!Init /\ YML!Init

Write == WNext /\ UNCHANGED <<lvars, pvars>>

(* YMLParse(buf), once all of the tree is in it. *)
HandText ==
  /\ pc = "written" /\ result # -1
  /\ source' = Caller(ctx.buf)
  /\ pc' = "lex"
  /\ UNCHANGED <<tree, ctx, work, result, text, storage, p, line, col,
                 flow_depth, lexed, room, dropped, blk, error, lfaults, lpc, pvars>>

LexText == pc = "lex" /\ lpc # "done" /\ Lex!Next /\ UNCHANGED <<wvars, pvars>>

(* Parser's view of the tokens.  A scalar before a ':' on its line is a    *)
(* key, and a key is taken as it stands in the text (token_strdup); any    *)
(* other goes through parse_scalar.                                        *)
AsKey(k) == /\ lexed[k + 1].type = "MAP_VAL"
            /\ lexed[k + 1].line = lexed[k].line
Taken(k) == LET t == lexed[k]
            IN [type |-> t.type, line |-> t.line, col |-> t.col, kind |-> Kind(t),
                val  |-> Str(IF t.type = "EOF" \/ AsKey(k) THEN t.val ELSE Cooked(t))]

HandTokens ==
  /\ pc = "lex" /\ lpc = "done"
  /\ tokens' = [k \in DOMAIN lexed |-> Taken(k)]
  /\ pc' = "parse"
  /\ UNCHANGED <<tree, ctx, work, result, lvars, pos, stack, ret, ok, err, anchors,
                 docs, mode, alloc, pfaults, live, ppc>>

ParseTokens == pc = "parse" /\ ppc # "done" /\ YML!Next /\ UNCHANGED <<wvars, lvars>>

Over == \/ pc = "written" /\ result = -1
        \/ pc = "lex" /\ lpc \in {"refused", "astray", "crashed"}
        \/ pc = "parse" /\ ppc \in {"done", "crashed"}
Stop == Over /\ UNCHANGED vars

Next == Write \/ HandText \/ LexText \/ HandTokens \/ ParseTokens \/ Stop
Spec == Init /\ [][Next]_vars
=============================================================================
