------------------------------- MODULE Totals -------------------------------
(* The sum of a sequence of numbers, as a recursive function. *)
EXTENDS Integers, Sequences

Total(w) == LET sum[n \in 0..Len(w)] == IF n = 0 THEN 0 ELSE sum[n - 1] + w[n]
            IN sum[Len(w)]
=============================================================================
