------------------------------ MODULE MCPoller ------------------------------
(* The poller with its queue bounded for TLC: the loop is a line behind, but *)
(* for a prompt without an echo on its line, where it may be behind by the   *)
(* echo and a bare prompt as well: a whole answer.                           *)
EXTENDS Poller

OneBehind(q, line) ==
    \/ q = <<>>
    \/ Len(q) = 1 /\ IsPrompt(Head(q)) /\ Head(q).of = None /\ line.kind = "echo"
    \/ Len(q) = 2 /\ q[2].kind = "echo" /\ line = Line("prompt", None)
=============================================================================
