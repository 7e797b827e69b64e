------------------------------- MODULE MCTxGate -------------------------------
(* The transmit gate with its constants given small values.                 *)
EXTENDS TxGate

MCOneHold == {1}
=============================================================================
