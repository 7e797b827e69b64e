------------------------------- MODULE Console -------------------------------
(***************************************************************************)
(* The console server, src/firmware/src/console.cpp: what the capture task  *)
(* pushes goes to every client of port 6638, what a client types goes to    *)
(* the MBB, and nobody waits for a client.                                  *)
(*                                                                          *)
(* Output is counted, not spelt: an item is a byte of the MBB or a text of  *)
(* the dongle's own, hello, note or marker, as long as a byte.  An item in  *)
(* pend is its place in what the client was offered, counted from what the  *)
(* client has accounted for; -k is the marker that says k are missing.      *)
(* consolePushRaw(), on the capture task, comes between any two steps of    *)
(* consoleTick().  How CR and delete are translated is left out.            *)
(***************************************************************************)
EXTENDS Integers, Sequences, Sums

CONSTANTS
    CLIENTS,      \* CONSOLE_CLIENTS
    RAW,          \* the size of rawBuf
    CHUNK,        \* what consoleTick() takes from it at a time
    PEND,         \* the size of pend
    SOCK,         \* what a client's socket holds until the client reads
    MAX_DROPPED,  \* bound: what is dropped before rawBuf in one pass
    MAX_LOST      \* bound: what two clients have lost when more is pushed or typed

ASSUME ConsoleAssumption ==
    /\ CLIENTS \in Nat \ {0} /\ RAW \in Nat \ {0}
    /\ CHUNK \in Nat \ {0} /\ PEND \in Nat \ {0} /\ CHUNK <= PEND
    /\ SOCK \in Nat \ {0} /\ MAX_DROPPED \in Nat /\ MAX_LOST \in Nat

Clients == 0 .. CLIENTS - 1

VARIABLES
    raw,          \* how much rawBuf holds
    rawDropped,   \* rawDropped
    up,           \* up
    waiting,      \* a connection in the listener's backlog
    slot,         \* clients and cstate, the room in the socket (-1: it has
                  \* failed), and top, history: offered and not accounted for
    typed,        \* the clients whose socket has input
    inputCursor,  \* inputCursor
    pc            \* where consoleTick() is

vars == <<raw, rawDropped, up, waiting, slot, typed, inputCursor, pc>>

Free == [conn |-> FALSE, pend |-> <<>>, lost |-> 0, room |-> 0, top |-> 0]
Fresh == [conn |-> TRUE, pend |-> <<>>, lost |-> 0, room |-> SOCK, top |-> 0]
Connected == {c \in Clients : slot[c].conn}

Init ==
    /\ raw = 0 /\ rawDropped = 0
    /\ up = FALSE /\ waiting = FALSE
    /\ slot = [c \in Clients |-> Free] /\ typed = {}
    /\ inputCursor = 0 /\ pc = "idle"

-----------------------------------------------------------------------------
(* consoleSend().                                                           *)

\* Mutant of Marker: the client is not told what it missed.
MarkerNever(s) == <<>>

\* What the client missed is said when its backlog is out, and not before.
Marker(s) == IF s.pend # <<>> /\ s.lost > 0 THEN <<-s.lost>> ELSE <<>>

New(s, n) == [i \in 1 .. n |-> s.top + i]

\* All that goes out to a socket that takes everything, in order.
Due(s, n) == s.pend \o Marker(s) \o New(s, n)

\* What a client that has received items accounts for.
Weights(items) == [i \in DOMAIN items |-> IF items[i] > 0 THEN 1 ELSE -items[i]]
Accounts(items) == Total(Weights(items))

\* What is left to the client once it has accounted for k.
Rest(items, k) == [i \in DOMAIN items |-> IF items[i] > 0 THEN items[i] - k ELSE items[i]]

\* pend holds no more.
Kept(left) == IF Len(left) > PEND THEN PEND ELSE Len(left)

\* n items offered to a client whose socket takes the first r of what is due:
\* what did not fit waits in pend; behind a backlog or a marker that is stuck
\* the new items are counted as lost.
Taken(s, n, r) ==
    LET due == Due(s, n)
        k == Accounts(SubSeq(due, 1, r))
        left == Rest(SubSeq(due, r + 1, Len(due)), k)
        base == [s EXCEPT !.room = s.room - r, !.top = s.top + n - k]
    IN  IF r < Len(s.pend)
        THEN [base EXCEPT !.pend = SubSeq(left, 1, Len(s.pend) - r), !.lost = s.lost + n]
        ELSE IF r < Len(s.pend \o Marker(s))
        THEN [base EXCEPT !.pend = Marker(s), !.lost = n]
        ELSE [base EXCEPT !.pend = SubSeq(left, 1, Kept(left)),
                          !.lost = (IF s.pend # <<>> THEN 0 ELSE s.lost) + Len(left) - Kept(left)]

\* A socket takes what it has room for; one that has failed is stopped.
ConsoleSend(s, n) ==
    LET due == Len(Due(s, n))
    IN  IF due = 0 THEN s
        ELSE IF s.room = -1 THEN Free
        ELSE Taken(s, n, IF s.room < due THEN s.room ELSE due)

\* n items for each client of C.
SendTo(C, n) == [c \in Clients |-> IF c \in C THEN ConsoleSend(slot[c], n) ELSE slot[c]]

\* The bound MAX_LOST.
FewLost ==
    \A c, d \in Clients :
        /\ slot[c].lost <= MAX_LOST
        /\ c # d => slot[c].lost + slot[d].lost <= MAX_LOST

-----------------------------------------------------------------------------
(* The capture task.                                                        *)

Fits(n) == IF n <= RAW - raw THEN n ELSE RAW - raw

\* n bytes more; what does not fit is dropped and counted.
ConsolePushRaw(n) ==
    /\ rawDropped + n - Fits(n) <= MAX_DROPPED
    /\ FewLost
    /\ raw' = raw + Fits(n) /\ rawDropped' = rawDropped + n - Fits(n)
    /\ UNCHANGED <<up, waiting, slot, typed, inputCursor, pc>>

-----------------------------------------------------------------------------
(* consoleTick().                                                           *)

\* Input of a client that has been stopped is gone.
StillTyped == typed \cap {c \in Clients : slot'[c].conn}

\* Clients found gone are stopped; one that waits gets the first free slot
\* and the hello, or is told there is none.
BeginTick ==
    LET kept == [c \in Clients |-> IF slot[c].room = -1 THEN Free ELSE slot[c]]
        places == {c \in Clients : ~kept[c].conn}
        first == CHOOSE c \in places : \A d \in places : c <= d
    IN  /\ pc = "idle"
        /\ slot' = IF up /\ waiting /\ places # {}
                   THEN [kept EXCEPT ![first] = ConsoleSend(Fresh, 1)]
                   ELSE kept
        /\ waiting' = FALSE
        /\ typed' = {c \in typed : slot[c].room # -1}
        /\ pc' = IF \E c \in Clients : slot'[c].conn THEN "upstream" ELSE "drain"
        /\ UNCHANGED <<raw, rawDropped, up, inputCursor>>

\* discardRaw(): the buffer, then the count.
Drain ==
    /\ pc = "drain" /\ pc' = "forget"
    /\ raw' = 0
    /\ UNCHANGED <<rawDropped, up, waiting, slot, typed, inputCursor>>

Forget ==
    /\ pc = "forget" /\ pc' = "idle"
    /\ rawDropped' = 0
    /\ UNCHANGED <<raw, up, waiting, slot, typed, inputCursor>>

\* Bytes dropped before rawBuf are told to everybody.
TellUpstream ==
    /\ pc = "upstream" /\ pc' = "backlog"
    /\ rawDropped' = 0
    /\ slot' = IF rawDropped > 0 THEN SendTo(Connected, 1) ELSE slot
    /\ typed' = StillTyped
    /\ UNCHANGED <<raw, up, waiting, inputCursor>>

Backlogged == {c \in Connected : slot[c].pend # <<>>}

Backlog ==
    /\ pc = "backlog" /\ pc' = "output"
    /\ slot' = SendTo(Backlogged, 0)
    /\ typed' = StillTyped
    /\ UNCHANGED <<raw, rawDropped, up, waiting, inputCursor>>

\* Whatever the MBB said, a chunk at a time.
Output ==
    /\ pc = "output" /\ raw > 0
    /\ LET n == IF raw < CHUNK THEN raw ELSE CHUNK
       IN  raw' = raw - n /\ slot' = SendTo(Connected, n)
    /\ typed' = StillTyped
    /\ UNCHANGED <<rawDropped, up, waiting, inputCursor, pc>>

OutputDone ==
    /\ pc = "output" /\ raw = 0 /\ pc' = "input"
    /\ UNCHANGED <<raw, rawDropped, up, waiting, slot, typed, inputCursor>>

\* Mutant of CursorAfter: the search begins at the first slot every time.
CursorAfterNone(c) == 0

CursorAfter(c) == (c + 1) % CLIENTS

\* The first client with input, from the cursor on.  It has a note if not all
\* was sent, or the MBB sleeps and a second has passed since the last note.
Input ==
    /\ pc = "input" /\ pc' = "idle"
    /\ IF typed = {}
       THEN UNCHANGED <<slot, typed, inputCursor>>
       ELSE LET at(k) == (inputCursor + k) % CLIENTS
                k1 == CHOOSE k \in Clients : at(k) \in typed /\ \A j \in 0 .. k - 1 : at(j) \notin typed
                c == at(k1)
            IN  /\ inputCursor' = CursorAfter(c)
                /\ slot' \in {slot, SendTo({c}, 1)}
                /\ typed' = StillTyped \ {c}
    /\ UNCHANGED <<raw, rawDropped, up, waiting>>

-----------------------------------------------------------------------------
(* The WiFi owner, and clients.                                             *)

ConsoleStart ==
    /\ pc = "idle" /\ ~up /\ up' = TRUE
    /\ UNCHANGED <<raw, rawDropped, waiting, slot, typed, inputCursor, pc>>

ConsoleStop ==
    /\ pc = "idle" /\ up /\ up' = FALSE
    /\ waiting' = FALSE /\ slot' = [c \in Clients |-> Free] /\ typed' = {}
    /\ UNCHANGED <<raw, rawDropped, inputCursor, pc>>

\* Connections and input are looked at once a pass, and come between passes.
Connects ==
    /\ pc = "idle" /\ up /\ ~waiting /\ waiting' = TRUE
    /\ UNCHANGED <<raw, rawDropped, up, slot, typed, inputCursor, pc>>

Types(c) ==
    /\ pc = "idle" /\ c \in Connected \ typed /\ FewLost
    /\ typed' = typed \cup {c}
    /\ UNCHANGED <<raw, rawDropped, up, waiting, slot, inputCursor, pc>>

\* The client reads what its socket holds, or goes; a slot so found is stopped.
Reads(c) ==
    /\ slot[c].conn /\ slot[c].room \in 0 .. SOCK - 1
    /\ slot' = [slot EXCEPT ![c].room = SOCK]
    /\ UNCHANGED <<raw, rawDropped, up, waiting, typed, inputCursor, pc>>

Goes(c) ==
    /\ slot[c].conn /\ slot[c].room # -1
    /\ slot' = [slot EXCEPT ![c].room = -1]
    /\ UNCHANGED <<raw, rawDropped, up, waiting, typed, inputCursor, pc>>

Push == \E n \in 1 .. RAW : ConsolePushRaw(n)

ConsoleTick == BeginTick \/ Drain \/ Forget \/ TellUpstream \/ Backlog \/ Output \/ OutputDone \/ Input

Next ==
    \/ ConsoleTick \/ Push
    \/ ConsoleStart \/ ConsoleStop \/ Connects
    \/ \E c \in Clients : Types(c) \/ Reads(c) \/ Goes(c)

Spec == Init /\ [][Next]_vars

\* The loop comes round for ever, since the UART is slower than the output
\* that empties rawBuf: this is weak fairness of ConsoleTick and strong of
\* OutputDone, said of the program counter.  A client in the end reads what its
\* socket holds.
ComesRound == []<>(pc = "idle") /\ []<>(pc # "idle")

Fairness == ComesRound /\ \A c \in Clients : WF_vars(Reads(c))

FairSpec == Spec /\ Fairness

-----------------------------------------------------------------------------
(* Properties.                                                              *)

TypeOK ==
    /\ raw \in 0 .. RAW /\ rawDropped \in 0 .. MAX_DROPPED
    /\ up \in BOOLEAN /\ waiting \in BOOLEAN
    /\ \A c \in Clients :
          /\ slot[c].conn \in BOOLEAN /\ slot[c].lost \in Nat /\ slot[c].room \in -1 .. SOCK /\ slot[c].top \in Nat
          /\ slot[c].pend \in Seq(Int) /\ Len(slot[c].pend) <= PEND
          /\ ~slot[c].conn => slot[c] = Free /\ c \notin typed
    /\ typed \subseteq Clients /\ inputCursor \in Clients
    /\ pc \in {"idle", "drain", "forget", "upstream", "backlog", "output", "input"}

\* What a client accounts for on receiving items, or 0 if one is not the next
\* it may expect.
Follows(items) ==
    \A i \in DOMAIN items : items[i] > 0 => items[i] = Accounts(SubSeq(items, 1, i - 1)) + 1

\* However its socket stalls, a client receives everything it was offered in
\* order, except for gaps, and at every gap a marker with the very number that
\* is missing: pend, the marker still due and what follows add up.
OutputAccounted ==
    /\ TypeOK
    /\ \A c \in Clients :
          /\ Follows(slot[c].pend)
          /\ Accounts(slot[c].pend) + slot[c].lost = slot[c].top

\* A client that takes anything at all is told of its losses, even while the
\* MBB goes on talking: the count does not wait for ever.
LossTold ==
    \A c \in Clients :
        slot[c].lost > 0 ~>
            (slot[c].lost = 0 \/ (slot[c].pend # <<>> /\ Head(slot[c].pend) < 0))

\* A client's input is read, however much the others type.
InputServed == \A c \in Clients : c \in typed ~> c \notin typed

\* Both directions, in one: no client waits for ever.
ClientsServed == LossTold /\ InputServed
=============================================================================
