--------------------------- MODULE RoundTripProps ---------------------------
(***************************************************************************)
(* Which trees come back from a round trip, and which do not.              *)
(***************************************************************************)
EXTENDS RoundTrip, WriterProps

(* Does the value that was read say what the tree says. *)
RECURSIVE Same(_, _)
Same(v, t) ==
  /\ v.type = t.type
  /\ v.type \notin {"null", "arr", "obj"} => v.text = Str(t.text)
  /\ Len(v.kids) = Len(t.kids)
  /\ v.type = "arr" => \A i \in DOMAIN t.kids : Same(v.kids[i].node, t.kids[i].node)
  /\ v.type = "obj" => \A i \in DOMAIN t.kids :
       \E k \in DOMAIN v.kids : /\ v.kids[k].key = Str(t.kids[i].key)
                                /\ Same(v.kids[k].node, t.kids[i].node)

(* What does not come back: plain strings that are read as another type,   *)
(* or as a bracket, or without their last blanks; numbers without a        *)
(* fraction that were floats; an empty collection behind a key; keys that  *)
(* need an escape, and the merge key.                                      *)
Opens(s) == s[1] \in {"]", "}"}
LostText(s) == /\ ~_yml_needs_quotes(s)
               /\ \/ Opens(s)
                  \/ s[Len(s)] = " "
                  \/ infer_scalar(s) # "str"
LostKey(s) == IF _yml_needs_quotes(s)
              THEN \E i \in DOMAIN s : s[i] \in DOMAIN Escape
              ELSE Opens(s) \/ s[Len(s)] = " " \/ Str(s) = "<<"
(* At the start of a line "..." ends the document. *)
Dots(s) == /\ Len(s) > 2 /\ \A i \in 1..3 : s[i] = "."
           /\ Len(s) = 3 \/ s[4] = " "
RECURSIVE Lost(_)
Lost(t) ==
  \/ t.type = "str" /\ LostText(t.text)
  \/ t.type = "float" /\ infer_scalar(t.text) # "float"
  \/ \E i \in DOMAIN t.kids : Lost(t.kids[i].node)
  \/ t.type = "obj" /\ \E i \in DOMAIN t.kids : \/ LostKey(t.kids[i].key)
                                               \/ IsEmpty(t.kids[i].node)
Lossy == \/ Lost(tree)
         \/ tree.type = "str" /\ ~_yml_needs_quotes(tree.text) /\ Dots(tree.text)
         \/ tree.type = "obj" /\ \E i \in DOMAIN tree.kids :
              LET k == tree.kids[i].key IN Dots(k) /\ Len(k) > 3

(* A tree is read back as it was written, unless it is one of those above, *)
(* and those never are (_yml_needs_quotes against infer_scalar,            *)
(* _yml_write_string against unescape_double_quoted, the indentation of    *)
(* _yml_write_node against parse_node's).                                  *)
RoundTrips ==
  ppc = "done" => (ok = 0 /\ Same(docs[1], tree)) <=> ~Lossy
=============================================================================
