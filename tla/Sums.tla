--------------------------------- MODULE Sums ---------------------------------
(* The sum of a sequence, as a recursive function.                           *)
EXTENDS Integers, Sequences

Total(w) ==
    LET upTo[i \in 0 .. Len(w)] == IF i = 0 THEN 0 ELSE upTo[i - 1] + w[i]
    IN  upTo[Len(w)]
=============================================================================
