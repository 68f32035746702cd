------------------------------ MODULE MCTrees -------------------------------
(* Parser on well-formed documents. *)
EXTENDS ParserProps, YMLTrees

Texts == {d.toks : d \in Docs}

(* Does the value v say what the tree t says. *)
RECURSIVE Says(_, _)
Says(v, t0) ==
  LET t == Target(t0)
  IN CASE t.form = "leaf" ->
            /\ v.type = IF t.x.kind = "block" THEN "str" ELSE t.x.kind
            /\ v.text = t.x.val
            /\ v.kids = <<>>
       [] t.form \in {"seq", "fseq"} ->
            /\ v.type = "arr"
            /\ Len(v.kids) = Len(t.kids)
            /\ \A i \in DOMAIN v.kids : Says(v.kids[i].node, t.kids[i].tree)
       [] OTHER ->
            /\ v.type = "obj"
            /\ Cardinality(Pairs(t)) = Len(v.kids)
            /\ \A p \in Pairs(t) : Has(v, p.key) /\ Says(Get(v, p.key), p.tree)

(* A well-formed text is read as what it says, without an error: every     *)
(* tree, alias and merge, and in a stream every document of it; YMLParse   *)
(* reads the first.                                                        *)
ReadsWhatIsWritten ==
  pc = "done" =>
    /\ ok = 0
    /\ \A d \in Docs : d.toks = tokens =>
         /\ Len(docs) = IF mode = "stream" THEN Len(d.trees) ELSE 1
         /\ \A i \in DOMAIN docs : Says(docs[i], d.trees[i])
=============================================================================
