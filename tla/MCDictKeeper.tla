---------------------------- MODULE MCDictKeeper ----------------------------
(* The sizes of the lines for TLC. *)
EXTENDS DictKeeper

MCSize == [a |-> 1, b |-> 2, c |-> 2, d |-> 3, e |-> 3]
=============================================================================
