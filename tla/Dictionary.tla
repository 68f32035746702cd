----------------------------- MODULE Dictionary ------------------------------
(***************************************************************************)
(* What _hm.h promises: a finite map from strings to values.  A call names *)
(* its key, takes effect at once and answers; a call that cannot have the  *)
(* memory it wants answers FALSE and changes nothing.                      *)
(***************************************************************************)
CONSTANTS Keys, Values, NoValue

VARIABLES
  dict,     \* the pairs
  call,     \* the call under way: [fn, key, val], or Idle
  answer    \* of the last call

vars == <<dict, call, answer>>

Idle   == [fn |-> "idle"]
Set(k, v) == [fn |-> "set", key |-> k, val |-> v]
Get(k)    == [fn |-> "get", key |-> k]

Empty == [k \in {} |-> NoValue]

Init == dict = Empty /\ call = Idle /\ answer = NoValue

Begin == /\ call = Idle
         /\ \/ \E k \in Keys, v \in Values : call' = Set(k, v)
            \/ \E k \in Keys : call' = Get(k)
         /\ answer' = NoValue
         /\ dict' = dict

With(k, v) == [l \in DOMAIN dict \cup {k} |-> IF l = k THEN v ELSE dict[l]]

DoSet == /\ call.fn = "set"
         /\ \/ dict' = With(call.key, call.val) /\ answer' = TRUE
            \/ dict' = dict /\ answer' = FALSE
         /\ call' = Idle

DoGet == /\ call.fn = "get"
         /\ answer' = IF call.key \in DOMAIN dict THEN dict[call.key] ELSE NoValue
         /\ call' = Idle
         /\ dict' = dict

Free == /\ call = Idle
        /\ dict' = Empty
        /\ UNCHANGED <<call, answer>>

Next == Begin \/ DoSet \/ DoGet \/ Free

Spec == Init /\ [][Next]_vars
=============================================================================
