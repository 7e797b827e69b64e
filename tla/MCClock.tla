------------------------------- MODULE MCClock -------------------------------
(* The wall clock with its constants given small values: 5 and 6 tell one    *)
(* false story, -6 another.                                                 *)
EXTENDS Clock

LiveStamps == {-1, 0}
FalseStamps == {-6, 5, 6}
Lowest == -8
=============================================================================
