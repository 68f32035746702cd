------------------------------ MODULE MCHashMap ------------------------------
(***************************************************************************)
(* Four keys: two share a hash, a third collides with them in a table of   *)
(* four slots and no longer in one of eight, and the chain of all of them  *)
(* runs over the end of the table.  A table of four grows at its fourth    *)
(* set, also when that set only overwrites.                                *)
(***************************************************************************)
EXTENDS HashMapProps

CONSTANTS k1, k2, k3, k4

MCKeys    == {k1, k2, k3, k4}
MCHash(k) == CASE k = k1 -> 7 [] k = k2 -> 7 [] k = k3 -> 3 [] k = k4 -> 14
=============================================================================
