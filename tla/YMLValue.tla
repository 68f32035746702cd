------------------------------ MODULE YMLValue ------------------------------
(***************************************************************************)
(* The value tree of the library (YMLValue, YMLParser.h) and the pure      *)
(* operations the parser applies to it.                                    *)
(*                                                                         *)
(* A value is a record:                                                    *)
(*   type  what YMLValueType says ("nil" is the C NULL pointer);           *)
(*   text  the scalar's content, abstract;                                 *)
(*   kids  the elements of an array, or the pairs of an object: a sequence *)
(*         of [key, node] whose order means nothing for an object;         *)
(*   own   how many heap blocks hang off the value, its own shell not      *)
(*         counted: 1 for a string, 1 for an array's storage, 2 for a hash *)
(*         map (_hm and its entries), 1 for each key copy, and the blocks  *)
(*         of every kid.  It is what yml_value_free_impl gives back.       *)
(***************************************************************************)
EXTENDS Integers, Sequences

CONSTANT MaxKids        \* bound: a collection never grows past MaxKids kids

ASSUME MaxKidsAssumption == MaxKids \in Nat

(* The NULL pointer. *)
Nil == [type |-> "nil", text |-> "", kids |-> <<>>, own |-> 0]

(* A string owns its copy; every other scalar lives inside the union. *)
Scalar(type, text) ==
  [type |-> type, text |-> text, kids |-> <<>>,
   own  |-> IF type = "str" THEN 1 ELSE 0]

NullValue  == Scalar("null", "")
EmptyArray == [type |-> "arr", text |-> "", kids |-> <<>>, own |-> 1]
EmptyMap   == [type |-> "obj", text |-> "", kids |-> <<>>, own |-> 2]

(* Heap blocks behind a YMLValue pointer: the shell and what hangs off it. *)
Blocks(v) == IF v = Nil THEN 0 ELSE 1 + v.own

(* Where the saturated collections stop growing (a bound of the model). *)
Full(v) == Len(v.kids) >= MaxKids

(* da_push of an element into an array's storage. *)
Push(v, e) ==
  IF Full(v) THEN v
  ELSE [v EXCEPT !.kids = Append(@, [key |-> "", node |-> e]),
                 !.own  = @ + e.own]

(* hm_get: does the object hold the key, and with which value. *)
Has(m, k) == \E i \in DOMAIN m.kids : m.kids[i].key = k
Get(m, k) == m.kids[CHOOSE i \in DOMAIN m.kids : m.kids[i].key = k].node

(* hm_set: overwrite the value in its slot, or take a slot and copy the key. *)
HmSet(m, k, e) ==
  CASE Has(m, k) ->
         [m EXCEPT !.kids = [i \in DOMAIN @ |->
                               IF @[i].key = k THEN [key |-> k, node |-> e]
                                               ELSE @[i]],
                   !.own  = @ - Get(m, k).own + e.own]
    [] ~Has(m, k) /\ Full(m) -> m
    [] OTHER ->
         [m EXCEPT !.kids = Append(@, [key |-> k, node |-> e]),
                   !.own  = @ + 1 + e.own]

(* Blocks taken on top of the stored value: the copy of a new key.  A kid  *)
(* that finds the collection at the bound is given back instead.           *)
PushCost(v, e) == IF Full(v) THEN -e.own ELSE 0
SetCost(m, k, e) ==
  CASE Has(m, k)             -> 0
    [] ~Has(m, k) /\ Full(m) -> -e.own
    [] OTHER                 -> 1

(* A string whose copy could not be allocated: the pointer is NULL. *)
NullString    == [Scalar("str", "NULL") EXCEPT !.own = 0]
IsNullString(v) == v.type = "str" /\ v.own = 0

(***************************************************************************)
(* apply_tag: the value after the tag, and the blocks it took or gave back *)
(* on the way.  "null" and "float" overwrite the type whatever the value   *)
(* owned, and a float made so reads the union's raw bits; "str" throws the *)
(* content of a collection away.                                           *)
(***************************************************************************)
ApplyTag(v, tag) ==
  CASE tag = "null"                                     -> NullValue
    [] tag = "float" /\ v.type # "float"                -> Scalar("float", "bits")
    [] tag = "str" /\ v.type = "null"                   -> Scalar("str", "null")
    [] tag = "str" /\ v.type \notin {"str", "null"}     -> Scalar("str", v.text)
    [] tag = "int" /\ v.type \in {"str", "float"}       -> Scalar("int", v.text)
    [] tag = "bool" /\ v.type # "bool"                  -> Scalar("bool", v.text)
    [] OTHER                                            -> v

StringKept(v, tag) == IF tag = "str" /\ v.type # "str" THEN 1 ELSE 0  \* mutant
TagCost(v, tag) ==
  CASE tag = "str" /\ v.type # "str"              -> 1
    [] tag \in {"int", "bool"} /\ v.type = "str"  -> -1
    [] OTHER                                      -> 0
=============================================================================
