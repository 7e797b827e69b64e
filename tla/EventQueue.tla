------------------------------ MODULE EventQueue ------------------------------
(***************************************************************************)
(* The event queue of src/firmware/src/mbb_uart.cpp: a FreeRTOS stream     *)
(* buffer that the capture task fills with records and the loop task        *)
(* empties in mbbTick().  A record is a 3-byte header and a payload, sent   *)
(* one after the other, so the reader can find a header whose payload has   *)
(* not come; after 40 empty reads it drains what is buffered and starts     *)
(* clean, and the rest of a record it cut arrives in the emptied buffer.    *)
(*                                                                          *)
(* A byte in the stream is the pair <<record, position>>, positions 1 to 3  *)
(* being the header.  Any three bytes that are not one whole header read as *)
(* a bad one: a text byte is above 4 as a type and makes a length above     *)
(* 1099.  A "line" stands for a framed line and for a loss marker, which    *)
(* takes the same path; a line of length 0 is a blank one.                  *)
(***************************************************************************)
EXTENDS Integers, Sequences, SequencesExt, FiniteSets

CONSTANTS
    EVENT_BUF,    \* the stream's capacity in bytes
    HEADROOM,     \* bytes a record with a payload leaves free: 16
    Lengths,      \* the lengths a line may have
    MAX_POSTS     \* bound: records offered

ASSUME QueueAssumption ==
    /\ EVENT_BUF \in Nat \ {0} /\ HEADROOM \in Nat /\ MAX_POSTS \in Nat
    /\ Lengths \subseteq Nat

VARIABLES
    events,                       \* the stream buffer
    wpc, wrec,                    \* capture task: where post() is, its record
    queueDrops, edgeDrops, awakeEdges,
    rpc, hdr, got,                \* loop task: where mbbTick() is, what it holds
    avail, discarded, streamResets,
    awakeCount,                   \* store.cpp's count of awake edges delivered
    recs,                         \* history: every record offered, by number
    last,                         \* history: the last record delivered
    dropsOwed, cutOwed            \* history: lines lost, not yet told

writer == <<wpc, wrec, queueDrops, edgeDrops, awakeEdges, recs>>
reader == <<rpc, hdr, got, avail, discarded, streamResets, awakeCount, last>>
vars == <<events, writer, reader, dropsOwed, cutOwed>>

Records == [kind : {"line"}, len : Lengths] \cup [kind : {"awake", "asleep"}, len : {0}]
None == [kind |-> "none", len |-> 0]
Ids == 1 .. Len(recs)
Byte(id, i) == <<id, i>>
HeaderOf(id) == [i \in 1 .. 3 |-> Byte(id, i)]
PayloadOf(id) == [i \in 1 .. recs[id].len |-> Byte(id, 3 + i)]

Init ==
    /\ events = <<>>
    /\ wpc = "idle" /\ wrec = None
    /\ queueDrops = 0 /\ edgeDrops = 0 /\ awakeEdges = 0
    /\ rpc = "idle" /\ hdr = <<>> /\ got = <<>>
    /\ avail = 0 /\ discarded = 0 /\ streamResets = 0
    /\ awakeCount = 0
    /\ recs = <<>> /\ last = 0
    /\ dropsOwed = {} /\ cutOwed = {}

-----------------------------------------------------------------------------
(* The capture task: post().                                                *)

\* xStreamBufferSend without a timeout: as many of the bytes as fit.
Sent(bytes) ==
    events \o SubSeq(bytes, 1, IF Len(bytes) < EVENT_BUF - Len(events)
                                 THEN Len(bytes) ELSE EVENT_BUF - Len(events))

\* Mutant of Need: room for the header alone is asked for.
NeedHeader(r) == 3

Need(r) == 3 + r.len + (IF r.len > 0 THEN HEADROOM ELSE 0)

\* A record without a payload counts as an edge, a blank line's included.
Refuse(r) ==
    /\ EVENT_BUF - Len(events) < Need(r)
    /\ recs' = Append(recs, r)
    /\ IF r.len > 0
         THEN /\ queueDrops' = queueDrops + 1
              /\ dropsOwed' = dropsOwed \cup {Len(recs')}
              /\ UNCHANGED edgeDrops
         ELSE /\ edgeDrops' = edgeDrops + 1
              /\ UNCHANGED <<queueDrops, dropsOwed>>
    /\ UNCHANGED <<events, wpc, wrec, awakeEdges, reader, cutOwed>>

Accept(r) ==
    /\ EVENT_BUF - Len(events) >= Need(r)
    /\ wpc' = "header" /\ wrec' = r
    /\ UNCHANGED <<events, queueDrops, edgeDrops, awakeEdges, recs,
                   reader, dropsOwed, cutOwed>>

Post(r) == wpc = "idle" /\ Len(recs) < MAX_POSTS /\ (Refuse(r) \/ Accept(r))

SendHeader ==
    /\ wpc = "header"
    /\ recs' = Append(recs, wrec)
    /\ events' = Sent(HeaderOf(Len(recs')))
    /\ wpc' = IF wrec.len > 0 THEN "payload"
              ELSE IF wrec.kind = "awake" THEN "count" ELSE "idle"
    /\ UNCHANGED <<wrec, queueDrops, edgeDrops, awakeEdges, reader,
                   dropsOwed, cutOwed>>

SendPayload ==
    /\ wpc = "payload"
    /\ events' = Sent(PayloadOf(Len(recs)))
    /\ wpc' = "idle"
    /\ UNCHANGED <<wrec, queueDrops, edgeDrops, awakeEdges, recs,
                   reader, dropsOwed, cutOwed>>

\* Mutant of CountEdge: every awake edge is counted, the refused ones too, as
\* the comment on edgeDrops says they once were.
CountEdgeWithDrops ==
    /\ wpc = "count"
    /\ awakeEdges' = Cardinality({id \in Ids : recs[id].kind = "awake"})
    /\ wpc' = "idle"
    /\ UNCHANGED <<events, wrec, queueDrops, edgeDrops, recs, reader,
                   dropsOwed, cutOwed>>

\* The capture task counts an awake edge once post() has returned true.
CountEdge ==
    /\ wpc = "count"
    /\ awakeEdges' = awakeEdges + 1
    /\ wpc' = "idle"
    /\ UNCHANGED <<events, wrec, queueDrops, edgeDrops, recs, reader,
                   dropsOwed, cutOwed>>

Writer == (\E r \in Records : Post(r)) \/ SendHeader \/ SendPayload \/ CountEdge

-----------------------------------------------------------------------------
(* The loop task: mbbTick().                                                *)

BeginTick ==
    /\ rpc = "idle"
    /\ discarded' = 0
    /\ rpc' = "loop"
    /\ UNCHANGED <<events, writer, hdr, got, avail, streamResets, awakeCount, last,
                   dropsOwed, cutOwed>>

\* The bytes are one record's header.
Good(h) == \E id \in Ids : h = HeaderOf(id)

RecordOf(h) == h[1][1]

HeaderThere == Len(events) >= 3

ReadHeader ==
    /\ rpc = "loop"
    /\ HeaderThere
    /\ hdr' = SubSeq(events, 1, 3) /\ got' = <<>>
    /\ events' = SubSeq(events, 4, Len(events))
    /\ rpc' = IF ~Good(hdr') THEN "bad"
              ELSE IF recs[RecordOf(hdr')].len = 0 THEN "deliver" ELSE "payload"
    /\ UNCHANGED <<writer, avail, discarded, streamResets, awakeCount, last,
                   dropsOwed, cutOwed>>

ReadPayload ==
    /\ rpc = "payload"
    /\ events # <<>>
    /\ LET want == recs[RecordOf(hdr)].len - Len(got)
           k == IF want < Len(events) THEN want ELSE Len(events)
       IN  /\ got' = got \o SubSeq(events, 1, k)
           /\ events' = SubSeq(events, k + 1, Len(events))
           /\ rpc' = IF k = want THEN "deliver" ELSE "payload"
    /\ UNCHANGED <<writer, hdr, avail, discarded, streamResets, awakeCount, last,
                   dropsOwed, cutOwed>>

\* 40 reads of 5 ms and the payload has not all come: nobody is writing it,
\* or the writer was held up for 200 ms between its two sends.
PayloadTimeout ==
    /\ rpc = "payload"
    /\ rpc' = "bad"
    /\ UNCHANGED <<events, writer, hdr, got, avail, discarded, streamResets,
                   awakeCount, last, dropsOwed, cutOwed>>

Deliver ==
    /\ rpc = "deliver"
    /\ last' = RecordOf(hdr)
    /\ awakeCount' = awakeCount + (IF recs[RecordOf(hdr)].kind = "awake" THEN 1 ELSE 0)
    /\ hdr' = <<>> /\ got' = <<>>
    /\ rpc' = "loop"
    /\ UNCHANGED <<events, writer, avail, discarded, streamResets, dropsOwed, cutOwed>>

\* The records that begin in a run of the stream.
Starts(bytes) == {id \in Ids : Byte(id, 1) \in Range(bytes)}

\* Mutant of HeldBytes: the bytes already taken are not counted as lost.
HeldBytesForgotten == 0

HeldBytes == 3 + Len(got)

\* The header and what came after it are thrown away, and the drain is
\* bounded by what is buffered now.
Snapshot ==
    /\ rpc = "bad"
    /\ streamResets' = streamResets + 1
    /\ discarded' = discarded + HeldBytes
    /\ avail' = Len(events)
    /\ cutOwed' = cutOwed \cup Starts(hdr)
    /\ hdr' = <<>> /\ got' = <<>>
    /\ rpc' = "drain"
    /\ UNCHANGED <<events, writer, awakeCount, last, dropsOwed>>

\* Mutant of Drained: xStreamBufferReset, which empties all there is.
DrainedAll == Len(events)

Drained == avail

Drain ==
    /\ rpc = "drain"
    /\ discarded' = discarded + avail
    /\ cutOwed' = cutOwed \cup Starts(SubSeq(events, 1, avail))
    /\ events' = SubSeq(events, Drained + 1, Len(events))
    /\ avail' = 0
    /\ rpc' = "tell"
    /\ UNCHANGED <<writer, hdr, got, streamResets, awakeCount, last, dropsOwed>>

EndLoop ==
    /\ rpc = "loop"
    /\ ~HeaderThere
    /\ rpc' = "tell"
    /\ UNCHANGED <<events, writer, hdr, got, avail, discarded, streamResets,
                   awakeCount, last, dropsOwed, cutOwed>>

\* queueDrops.exchange(0)
DropsLeft == 0

\* The lines refused are told once the queue has been emptied ...
TellDrops ==
    /\ rpc = "tell"
    /\ queueDrops' = DropsLeft
    /\ dropsOwed' = IF queueDrops > 0 THEN {} ELSE dropsOwed
    /\ rpc' = "tellCut"
    /\ UNCHANGED <<events, wpc, wrec, edgeDrops, awakeEdges, recs,
                   hdr, got, avail, discarded, streamResets, awakeCount, last, cutOwed>>

\* ... and the bytes discarded where they were lost.
TellCut ==
    /\ rpc = "tellCut"
    /\ cutOwed' = IF discarded > 0 THEN {} ELSE cutOwed
    /\ rpc' = "idle"
    /\ UNCHANGED <<events, writer, hdr, got, avail, discarded, streamResets,
                   awakeCount, last, dropsOwed>>

Reader ==
    \/ BeginTick \/ ReadHeader \/ ReadPayload \/ PayloadTimeout \/ Deliver
    \/ Snapshot \/ Drain \/ EndLoop \/ TellDrops \/ TellCut

Next == Writer \/ Reader

Spec == Init /\ [][Next]_vars

\* post() runs to its end and loop() comes round; a line need not be offered.
Fairness ==
    /\ WF_vars(SendHeader \/ SendPayload \/ CountEdge)
    /\ WF_vars(Reader)

FairSpec == Spec /\ Fairness

-----------------------------------------------------------------------------
(* Properties                                                               *)

Bytes == (Nat \ {0}) \X (Nat \ {0})

TypeOK ==
    /\ events \in Seq(Bytes)
    /\ wpc \in {"idle", "header", "payload", "count"}
    /\ wrec \in Records \cup {None}
    /\ queueDrops \in Nat /\ edgeDrops \in Nat /\ awakeEdges \in Nat /\ awakeCount \in Nat
    /\ rpc \in {"idle", "loop", "payload", "deliver", "bad", "drain", "tell", "tellCut"}
    /\ hdr \in Seq(Bytes) /\ got \in Seq(Bytes)
    /\ avail \in Nat /\ discarded \in Nat /\ streamResets \in Nat
    /\ recs \in Seq(Records)
    /\ last \in 0 .. Len(recs)
    /\ dropsOwed \subseteq Ids /\ cutOwed \subseteq Ids

\* Whatever has been drained and whatever arrives in the emptied buffer, the
\* loop task never hands on a record pieced together from two: what is
\* delivered is one whole header and exactly its own payload.
DeliveredWhole == rpc = "deliver" => got = PayloadOf(RecordOf(hdr))

\* The records whole or begun in the stream, or in the reader's hands.
InQueue == Starts(hdr) \cup Starts(events)

\* Awake edges posted less awake edges delivered are those still queued,
\* plus the one posted and not yet counted, plus those a reset discarded: a
\* gap with nothing under way and no reset is impossible.
EdgesAccounted ==
    streamResets = 0 =>
        awakeEdges + (IF wpc = "count" THEN 1 ELSE 0)
            = awakeCount + Cardinality({id \in InQueue : recs[id].kind = "awake"})

\* The queue is the lossy queue: in order, nothing twice, nothing lost that
\* is not owed to the log (a refused edge or blank line apart).
Lossy == INSTANCE LossyQueue WITH
    queue <- InQueue,
    next <- Len(recs) + 1,
    last <- last,
    owed <- (dropsOwed \cup cutOwed)

IsLossyQueue == Lossy!Spec

\* Every record lost is told of in the log: a pass of mbbTick() that finds a
\* loss ends by saying so.
LossTold == (dropsOwed \cup cutOwed # {}) ~> (dropsOwed \cup cutOwed = {})

\* However the reader fell off the record boundary, it gets back onto it: a
\* queue nobody adds to is emptied but for the two bytes of a cut record.
ComesEmpty == <>[](wpc = "idle") => <>[](Len(events) < 3)

\* In one: the queue gets over a loss.
Recovers == LossTold /\ ComesEmpty

=============================================================================
