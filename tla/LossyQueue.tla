------------------------------ MODULE LossyQueue ------------------------------
(***************************************************************************)
(* What the event queue between the capture task and the loop task         *)
(* promises: records come out in the order they went in, none twice; a      *)
(* record may be refused at the door or cut out of the queue, and what is   *)
(* lost stays owed to the log until it is told.  Records are numbered as    *)
(* they are offered, so the oldest inside is the one with the least number. *)
(* mbb_uart.cpp implements it over a byte stream without record             *)
(* boundaries; see EventQueue.                                              *)
(***************************************************************************)
EXTENDS Naturals

VARIABLES
    queue,   \* the records inside
    next,    \* the number the next record offered will have
    last,    \* the last record delivered, 0 for none
    owed     \* records lost and not yet told of

vars == <<queue, next, last, owed>>

Init == queue = {} /\ next = 1 /\ last = 0 /\ owed = {}

Send ==
    /\ queue' = queue \cup {next}
    /\ next' = next + 1
    /\ UNCHANGED <<last, owed>>

\* A line refused is owed to the log; an edge or a blank line is not, and
\* only counted.
Refuse ==
    /\ next' = next + 1
    /\ owed' \in {owed, owed \cup {next}}
    /\ UNCHANGED <<queue, last>>

\* The oldest; what is delivered is newer than all that was before.
Deliver ==
    /\ \E r \in queue :
          /\ r > last /\ \A q \in queue : r <= q
          /\ last' = r
          /\ queue' = queue \ {r}
    /\ UNCHANGED <<next, owed>>

\* The oldest, up to record n, are thrown away together.
Cut(n) ==
    /\ queue' = {q \in queue : q > n}
    /\ owed' = owed \cup {q \in queue : q <= n}
    /\ UNCHANGED <<next, last>>

Tell ==
    /\ owed' \in SUBSET owed
    /\ UNCHANGED <<queue, next, last>>

Next == Send \/ Refuse \/ Deliver \/ (\E n \in 1 .. next : Cut(n)) \/ Tell

Spec == Init /\ [][Next]_vars
=============================================================================
