------------------------------ MODULE Filtered ------------------------------
(* What a comprehension with a condition leaves of a list.                 *)
EXTENDS Naturals, Sequences

(* The elements of s that are in S, in their order.                        *)
Among(s, S) ==
  LET kept[n \in 0..Len(s)] ==
        IF n = 0 THEN <<>> ELSE IF s[n] \in S THEN Append(kept[n - 1], s[n]) ELSE kept[n - 1]
  IN kept[Len(s)]
=============================================================================
