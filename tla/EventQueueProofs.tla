-------------------------- MODULE EventQueueProofs --------------------------
(***************************************************************************)
(* What keeps the event queue in order, proved for every buffer size, every *)
(* headroom and every set of line lengths.  The invariant is about the      *)
(* bytes: those the reader holds and those in the buffer are one stream, and *)
(* the argument is where a record may be broken off in it.  From it: the     *)
(* queue is a LossyQueue, what it delivers is whole, and its edges add up.  *)
(***************************************************************************)
EXTENDS EventQueue, SequenceTheorems, FiniteSetTheorems, TLAPS

\* The bytes the reader holds and those in the buffer, as one stream: its length
\* and its bytes.
Size == Len(hdr) + Len(got) + Len(events)

At(i) == IF i <= Len(hdr) THEN hdr[i]
         ELSE IF i <= Len(hdr) + Len(got) THEN got[i - Len(hdr)]
         ELSE events[i - Len(hdr) - Len(got)]

\* How many bytes of b's record come after b.
Left(b) == 3 + recs[b[1]].len - b[2]

\* Records ascend in the stream and none of them has been delivered.  One cut
\* off in front is still there to its end, in one piece; only the last lacks its
\* payload, while the writer stands between its two sends.
StreamInv ==
    /\ \A i \in 1 .. Size :
          At(i)[1] \in Ids /\ At(i)[1] > last /\ At(i)[2] <= 3 + recs[At(i)[1]].len
    /\ \A i, j \in 1 .. Size : i < j =>
          IF j - i <= Left(At(i)) THEN At(j) = Byte(At(i)[1], At(i)[2] + (j - i))
                                  ELSE At(j)[1] > At(i)[1]
    /\ \A i \in 1 .. Size :
          IF wpc = "payload" /\ At(i)[1] = Len(recs) THEN At(i)[2] + (Size - i) = 3
                                                     ELSE Size - i >= Left(At(i))

\* What post() found room for is still free when it is sent.
WriterInv ==
    /\ wpc # "idle" => wrec \in Records
    /\ wpc = "header" => EVENT_BUF - Len(events) >= Need(wrec)
    /\ wpc = "payload" =>
          /\ wrec.len > 0 /\ Len(recs) > last /\ recs[Len(recs)] = wrec
          /\ EVENT_BUF - Len(events) >= wrec.len

\* What mbbTick() holds in each of its states.
ReaderInv ==
    /\ rpc \in {"payload", "deliver"} =>
          RecordOf(hdr) \in Ids /\ hdr = HeaderOf(RecordOf(hdr))
    /\ rpc = "payload" => Len(got) < recs[RecordOf(hdr)].len
    /\ rpc = "deliver" => Len(got) = recs[RecordOf(hdr)].len
    /\ rpc = "bad" => Len(hdr) = 3
    /\ \A i \in 1 .. Len(got) : got[i][2] > 3
    /\ rpc \notin {"payload", "deliver", "bad"} => hdr = <<>> /\ got = <<>>
    /\ rpc = "drain" => avail <= Len(events) /\ streamResets > 0

\* The inductive invariant.
IInv == TypeOK /\ StreamInv /\ WriterInv /\ ReaderInv

-----------------------------------------------------------------------------
\* A record's length is a number.
LEMMA RecordLen ==
  ASSUME NEW r \in Records
  PROVE  r.len \in Nat
<1>1. CASE r \in [kind : {"line"}, len : Lengths]
  BY <1>1, QueueAssumption
<1>2. CASE r \in [kind : {"awake", "asleep"}, len : {0}]
  BY <1>2
<1> QED
  BY <1>1, <1>2 DEF Records

\* So it is for every record offered.
LEMMA RecsTyped ==
  ASSUME recs \in Seq(Records), NEW id \in Ids
  PROVE  /\ Len(recs) \in Nat /\ id \in Nat \ {0}
         /\ recs[id] \in Records /\ recs[id].len \in Nat
<1>1. Len(recs) \in Nat /\ id \in 1 .. Len(recs)
  BY DEF Ids
<1>2. recs[id] \in Records
  BY <1>1
<1> QED
  BY <1>1, <1>2, RecordLen

\* A header is three bytes of the stream.
LEMMA HeaderTyped ==
  ASSUME NEW id \in Nat \ {0}
  PROVE  /\ HeaderOf(id) \in Seq(Bytes) /\ Len(HeaderOf(id)) = 3
         /\ \A i \in 1 .. 3 : HeaderOf(id)[i] = Byte(id, i)
<1>1. \A i \in 1 .. 3 : Byte(id, i) \in Bytes
  BY DEF Byte, Bytes
<1> QED
  BY <1>1 DEF HeaderOf

\* With room for all of it, all of it is sent.
LEMMA SentWhole ==
  ASSUME events \in Seq(Bytes), NEW s \in Seq(Bytes),
         EVENT_BUF - Len(events) >= Len(s)
  PROVE  /\ Sent(s) \in Seq(Bytes)
         /\ Len(Sent(s)) = Len(events) + Len(s)
         /\ \A i \in 1 .. Len(events) : Sent(s)[i] = events[i]
         /\ \A i \in 1 .. Len(s) : Sent(s)[Len(events) + i] = s[i]
<1>1. Len(s) \in Nat /\ Len(events) \in Nat
  OBVIOUS
<1>2. Sent(s) = events \o s
  <2>1. SubSeq(s, 1, Len(s)) = s
    BY SubSeqFull
  <2>2. (IF Len(s) < EVENT_BUF - Len(events) THEN Len(s) ELSE EVENT_BUF - Len(events)) = Len(s)
    BY <1>1, QueueAssumption
  <2> QED
    BY <2>1, <2>2 DEF Sent
<1> QED
  BY <1>1, <1>2, ConcatProperties

\* What stands behind the first k.
LEMMA Behind ==
  ASSUME NEW S, NEW s \in Seq(S), NEW k \in 0 .. Len(s)
  PROVE  /\ SubSeq(s, k + 1, Len(s)) \in Seq(S)
         /\ Len(SubSeq(s, k + 1, Len(s))) = Len(s) - k
         /\ \A i \in 1 .. Len(s) - k : SubSeq(s, k + 1, Len(s))[i] = s[k + i]
         /\ SubSeq(s, 1, k) \in Seq(S)
         /\ Len(SubSeq(s, 1, k)) = k
         /\ \A i \in 1 .. k : SubSeq(s, 1, k)[i] = s[i]
<1>1. Len(s) \in Nat /\ \A i \in 1 .. Len(s) : s[i] \in S
  OBVIOUS
<1>2. /\ SubSeq(s, k + 1, Len(s)) \in Seq(S)
      /\ Len(SubSeq(s, k + 1, Len(s))) = IF k + 1 <= Len(s) THEN Len(s) - (k + 1) + 1 ELSE 0
      /\ \A i \in 1 .. Len(s) - (k + 1) + 1 : SubSeq(s, k + 1, Len(s))[i] = s[(k + 1) + i - 1]
  BY <1>1, SubSeqProperties
<1>3. /\ SubSeq(s, 1, k) \in Seq(S)
      /\ Len(SubSeq(s, 1, k)) = IF 1 <= k THEN k - 1 + 1 ELSE 0
      /\ \A i \in 1 .. k - 1 + 1 : SubSeq(s, 1, k)[i] = s[1 + i - 1]
  BY <1>1, SubSeqProperties
<1> QED
  BY <1>1, <1>2, <1>3

\* An empty queue is in order.
LEMMA Initially == Init => IInv
<1> SUFFICES ASSUME Init PROVE IInv
  OBVIOUS
<1>1. TypeOK
  BY DEF Init, TypeOK, None, Records, Ids
<1>2. Size = 0
  BY DEF Init, Size
<1>3. StreamInv
  BY <1>2 DEF StreamInv
<1>4. WriterInv /\ ReaderInv
  BY DEF Init, WriterInv, ReaderInv
<1> QED
  BY <1>1, <1>3, <1>4 DEF IInv

\* Nothing that the invariant of the stream reads has changed.
LEMMA StreamSame ==
  ASSUME IInv, UNCHANGED <<events, hdr, got, recs, last>>,
         (wpc' = "payload") = (wpc = "payload")
  PROVE  StreamInv'
<1>1. Size' = Size /\ \A i \in 1 .. Size : At(i)' = At(i) /\ Left(At(i))' = Left(At(i))
  BY DEF Size, At, Left
<1> QED
  BY <1>1 DEF IInv, StreamInv, Ids, Byte

\* A record refused changes only the counts.
LEMMA RefuseInv ==
  ASSUME IInv, NEW r \in Records, Post(r), Refuse(r)
  PROVE  IInv'
<1> USE DEF IInv
<1>1. /\ Len(recs) \in Nat /\ recs' \in Seq(Records) /\ Len(recs') = Len(recs) + 1
      /\ \A i \in 1 .. Len(recs) : recs'[i] = recs[i]
  BY DEF Refuse, TypeOK
<1>2. TypeOK'
  <2>1. Ids \subseteq Ids' /\ Len(recs') \in Ids'
    BY <1>1 DEF Ids
  <2>2. queueDrops' \in Nat /\ edgeDrops' \in Nat /\ dropsOwed' \subseteq Ids'
    BY <2>1 DEF Refuse, TypeOK
  <2> QED
    BY <1>1, <2>1, <2>2 DEF Refuse, TypeOK, reader
<1>3. wpc = "idle" /\ wpc' = "idle"
  BY DEF Post, Refuse
<1>4. /\ Size' = Size /\ Size \in Nat /\ \A i \in 1 .. Size : At(i)' = At(i)
      /\ \A i \in 1 .. Size : At(i)[1] \in 1 .. Len(recs)
  <2>1. Size' = Size /\ Size \in Nat
    BY DEF Refuse, reader, Size, TypeOK
  <2>2. \A i \in 1 .. Size : At(i)' = At(i)
    BY DEF Refuse, reader, At
  <2>3. \A i \in 1 .. Size : At(i)[1] \in 1 .. Len(recs)
    BY DEF StreamInv, Ids
  <2> QED
    BY <2>1, <2>2, <2>3
<1>5. \A i \in 1 .. Size : Left(At(i))' = Left(At(i))
  BY <1>1, <1>4 DEF Left
<1>6. StreamInv'
  BY <1>1, <1>3, <1>4, <1>5, SMTT(30) DEF StreamInv, Refuse, reader, Ids, Byte
<1>7. WriterInv'
  BY <1>3 DEF WriterInv
<1>8. ReaderInv'
  BY <1>1 DEF ReaderInv, Refuse, reader, RecordOf, HeaderOf, Ids, Byte
<1> QED
  BY <1>2, <1>6, <1>7, <1>8

\* A record accepted has its room.
LEMMA AcceptInv ==
  ASSUME IInv, NEW r \in Records, Post(r), Accept(r)
  PROVE  IInv'
<1> USE DEF IInv
<1>1. TypeOK'
  BY DEF Accept, TypeOK, reader, Ids
<1>2. StreamInv'
  BY StreamSame DEF Accept, Post, reader
<1>3. WriterInv'
  BY DEF WriterInv, Accept
<1>4. ReaderInv'
  BY DEF ReaderInv, Accept, reader, Ids, HeaderOf, RecordOf, Byte
<1> QED
  BY <1>1, <1>2, <1>3, <1>4
\* The stream with n bytes of record id behind it, the writer's next.
LEMMA StreamGrows ==
  ASSUME IInv, events' \in Seq(Bytes), NEW n \in Nat, Len(events') = Len(events) + n,
         \A i \in 1 .. Len(events) : events'[i] = events[i],
         UNCHANGED <<hdr, got, last>>
  PROVE  /\ Size \in Nat /\ Size' = Size + n
         /\ \A i \in 1 .. Size : At(i)' = At(i) /\ At(i) \in Bytes
         /\ \A i \in 1 .. Size + n : i \notin 1 .. Size => At(i)' = events'[Len(events) + (i - Size)]
<1>1. Len(hdr) \in Nat /\ Len(got) \in Nat /\ Len(events) \in Nat
  BY DEF IInv, TypeOK
<1>2. Size \in Nat /\ Size' = Size + n
  BY <1>1 DEF Size
<1>3. ASSUME NEW i \in 1 .. Size
      PROVE  At(i)' = At(i) /\ At(i) \in Bytes
  <2>1. CASE i <= Len(hdr)
    BY <1>1, <2>1 DEF At, IInv, TypeOK
  <2>2. CASE ~(i <= Len(hdr)) /\ i <= Len(hdr) + Len(got)
    <3>1. i - Len(hdr) \in 1 .. Len(got)
      BY <1>1, <2>2
    <3> QED
      BY <2>2, <3>1 DEF At, IInv, TypeOK
  <2>3. CASE ~(i <= Len(hdr)) /\ ~(i <= Len(hdr) + Len(got))
    <3>1. i - Len(hdr) - Len(got) \in 1 .. Len(events)
      BY <1>1, <2>3 DEF Size
    <3> QED
      BY <2>3, <3>1, SMTT(30) DEF At, IInv, TypeOK
  <2> QED
    BY <2>1, <2>2, <2>3
<1>4. \A i \in 1 .. Size + n : i \notin 1 .. Size => At(i)' = events'[Len(events) + (i - Size)]
  BY <1>1 DEF At, Size
<1> QED
  BY <1>2, <1>3, <1>4

\* The header stands behind the stream, under the next number.
LEMMA HeaderSent ==
  ASSUME IInv, SendHeader, NEW new, new = Len(recs) + 1
  PROVE  /\ Len(recs) \in Nat /\ recs' \in Seq(Records) /\ Len(recs') = new
         /\ \A i \in 1 .. Len(recs) : recs'[i] = recs[i]
         /\ recs'[new] = wrec /\ wrec \in Records /\ wrec.len \in Nat
         /\ new \in Nat \ {0}
         /\ EVENT_BUF - Len(events) >= 3 + wrec.len
         /\ events' \in Seq(Bytes) /\ Len(events') = Len(events) + 3
         /\ \A i \in 1 .. Len(events) : events'[i] = events[i]
         /\ \A i \in 1 .. 3 : events'[Len(events) + i] = Byte(new, i)
         /\ Size \in Nat /\ Size' = Size + 3
         /\ \A i \in 1 .. Size : At(i)' = At(i) /\ At(i) \in Bytes
         /\ \A i \in 1 .. Size + 3 : i \notin 1 .. Size =>
               i - Size \in 1 .. 3 /\ At(i)' = Byte(new, i - Size)
<1>1. /\ Len(recs) \in Nat /\ recs' \in Seq(Records) /\ Len(recs') = new
      /\ \A i \in 1 .. Len(recs) : recs'[i] = recs[i]
      /\ recs'[new] = wrec /\ wrec \in Records /\ wrec.len \in Nat
      /\ new \in Nat \ {0}
  <2>1. wrec \in Records /\ Len(recs) \in Nat /\ recs' = Append(recs, wrec)
    BY DEF SendHeader, IInv, WriterInv, TypeOK
  <2>2. recs' \in Seq(Records) /\ Len(recs') = new
        /\ (\A i \in 1 .. Len(recs) : recs'[i] = recs[i]) /\ recs'[new] = wrec
    BY <2>1 DEF IInv, TypeOK
  <2>3. wrec.len \in Nat
    BY <2>1, RecordLen
  <2> QED
    BY <2>1, <2>2, <2>3
<1>2. /\ HeaderOf(new) \in Seq(Bytes) /\ Len(HeaderOf(new)) = 3
      /\ \A i \in 1 .. 3 : HeaderOf(new)[i] = Byte(new, i)
  BY <1>1, HeaderTyped
<1>3. events' = Sent(HeaderOf(new))
  BY <1>1 DEF SendHeader, Sent, HeaderOf
<1>4. EVENT_BUF - Len(events) >= 3 + wrec.len
  BY <1>1, QueueAssumption DEF SendHeader, IInv, WriterInv, Need, TypeOK
<1>5. /\ events' \in Seq(Bytes) /\ Len(events') = Len(events) + 3
      /\ \A i \in 1 .. Len(events) : events'[i] = events[i]
      /\ \A i \in 1 .. 3 : events'[Len(events) + i] = Byte(new, i)
  <2>1. Len(events) \in Nat /\ events \in Seq(Bytes)
    BY DEF IInv, TypeOK
  <2>2. EVENT_BUF - Len(events) >= Len(HeaderOf(new))
    <3>1. wrec.len \in Nat /\ Len(HeaderOf(new)) = 3 /\ EVENT_BUF \in Int
      BY <1>1, <1>2, QueueAssumption
    <3>2. \A m \in Nat : m = 3 => EVENT_BUF - Len(events) >= m
      BY <1>4, <2>1, <3>1
    <3> QED
      BY <3>1, <3>2
  <2>3. /\ Sent(HeaderOf(new)) \in Seq(Bytes)
        /\ Len(Sent(HeaderOf(new))) = Len(events) + Len(HeaderOf(new))
        /\ \A i \in 1 .. Len(events) : Sent(HeaderOf(new))[i] = events[i]
        /\ \A i \in 1 .. Len(HeaderOf(new)) :
              Sent(HeaderOf(new))[Len(events) + i] = HeaderOf(new)[i]
    BY <1>2, <2>1, <2>2, SentWhole
  <2> QED
    BY <1>2, <1>3, <2>3
<1>6. /\ Size \in Nat /\ Size' = Size + 3
      /\ \A i \in 1 .. Size : At(i)' = At(i) /\ At(i) \in Bytes
      /\ \A i \in 1 .. Size + 3 : i \notin 1 .. Size =>
            i - Size \in 1 .. 3 /\ At(i)' = Byte(new, i - Size)
  <2>1. /\ Size \in Nat /\ Size' = Size + 3
        /\ \A i \in 1 .. Size : At(i)' = At(i) /\ At(i) \in Bytes
        /\ \A i \in 1 .. Size + 3 : i \notin 1 .. Size => At(i)' = events'[Len(events) + (i - Size)]
    BY <1>5, StreamGrows DEF SendHeader, reader
  <2>2. \A i \in 1 .. Size + 3 : i \notin 1 .. Size => i - Size \in 1 .. 3
    BY <2>1
  <2> QED
    BY <1>5, <2>1, <2>2
<1> QED
  BY <1>1, <1>4, <1>5, <1>6

\* A header sent leaves a record whose payload is to come.
LEMMA SendHeaderInv ==
  ASSUME IInv, SendHeader
  PROVE  IInv'
<1> DEFINE new == Len(recs) + 1
<1>1. /\ Len(recs) \in Nat /\ recs' \in Seq(Records) /\ Len(recs') = new
      /\ \A i \in 1 .. Len(recs) : recs'[i] = recs[i]
      /\ recs'[new] = wrec /\ wrec \in Records /\ wrec.len \in Nat
      /\ new \in Nat \ {0}
  BY HeaderSent
<1>4. EVENT_BUF - Len(events) >= 3 + wrec.len
  BY HeaderSent
<1>5. /\ events' \in Seq(Bytes) /\ Len(events') = Len(events) + 3
      /\ \A i \in 1 .. Len(events) : events'[i] = events[i]
      /\ \A i \in 1 .. 3 : events'[Len(events) + i] = Byte(new, i)
  BY HeaderSent
<1>6. /\ Size \in Nat /\ Size' = Size + 3
      /\ \A i \in 1 .. Size : At(i)' = At(i) /\ At(i) \in Bytes
      /\ \A i \in 1 .. Size + 3 : i \notin 1 .. Size =>
            i - Size \in 1 .. 3 /\ At(i)' = Byte(new, i - Size)
  BY HeaderSent
<1>7. TypeOK'
  <2>1. Ids \subseteq Ids' /\ last \in 0 .. Len(recs')
    BY <1>1 DEF Ids, IInv, TypeOK
  <2>2. wpc' \in {"idle", "header", "payload", "count"}
    BY DEF SendHeader
  <2> QED
    BY <1>1, <1>5, <2>1, <2>2 DEF SendHeader, TypeOK, reader, IInv
<1>8. \A i \in 1 .. Size : At(i)[1] \in 1 .. Len(recs) /\ Left(At(i))' = Left(At(i))
                          /\ Left(At(i)) \in Int
  <2> SUFFICES ASSUME NEW i \in 1 .. Size
               PROVE  At(i)[1] \in 1 .. Len(recs) /\ Left(At(i))' = Left(At(i))
                      /\ Left(At(i)) \in Int
    OBVIOUS
  <2>1. At(i)[1] \in Ids /\ At(i) \in Bytes
    BY <1>6 DEF IInv, StreamInv
  <2>2. recs[At(i)[1]].len \in Nat
    BY <2>1, RecsTyped DEF IInv, TypeOK
  <2>3. At(i)[1] \in 1 .. Len(recs) /\ At(i)[2] \in Nat
    BY <2>1 DEF Ids, Bytes
  <2>4. At(i)' = At(i)
    BY <1>6
  <2>5. recs'[At(i)[1]] = recs[At(i)[1]]
    BY <1>1, <2>3
  <2> QED
    BY <2>2, <2>3, <2>4, <2>5 DEF Left
<1>9. \A i \in 1 .. Size : Size - i >= Left(At(i))
  BY DEF SendHeader, IInv, StreamInv
<1>10. \A i \in 1 .. Size + 3 : i \notin 1 .. Size => Left(At(i))' = 3 + wrec.len - (i - Size)
  <2> SUFFICES ASSUME NEW i \in 1 .. Size + 3, i \notin 1 .. Size
               PROVE  Left(At(i))' = 3 + wrec.len - (i - Size)
    OBVIOUS
  <2>1. At(i)' = Byte(new, i - Size) /\ recs'[new].len = wrec.len /\ i - Size \in 1 .. 3
    BY <1>1, <1>6
  <2> HIDE DEF new
  <2>2. At(i)'[1] = new /\ At(i)'[2] = i - Size
    BY <2>1 DEF Byte
  <2> QED
    BY <2>1, <2>2 DEF Left
<1>11. StreamInv'
  <2>1. ASSUME NEW i \in 1 .. Size'
        PROVE  At(i)'[1] \in Ids' /\ At(i)'[1] > last' /\ At(i)'[2] <= 3 + recs'[At(i)'[1]].len
    <3>1. CASE i \in 1 .. Size
      BY <1>1, <1>6, <1>8, <3>1 DEF IInv, StreamInv, Ids, SendHeader, reader
    <3>2. CASE i \notin 1 .. Size
      <4>2. At(i)' = Byte(new, i - Size) /\ i - Size \in 1 .. 3
        BY <1>6, <3>2
      <4>3. last' \in 0 .. Len(recs)
        BY DEF IInv, TypeOK, SendHeader, reader
      <4> QED
        BY <1>1, <4>2, <4>3 DEF Byte, Ids
    <3> QED
      BY <3>1, <3>2
  <2>2. ASSUME NEW i \in 1 .. Size', NEW j \in 1 .. Size', i < j
        PROVE  IF j - i <= Left(At(i))' THEN At(j)' = Byte(At(i)'[1], At(i)'[2] + (j - i))
                                        ELSE At(j)'[1] > At(i)'[1]
    <3>1. CASE j \in 1 .. Size
      <4>1. i \in 1 .. Size
        BY <1>6, <2>2, <3>1
      <4>2. IF j - i <= Left(At(i)) THEN At(j) = Byte(At(i)[1], At(i)[2] + (j - i))
                                    ELSE At(j)[1] > At(i)[1]
        BY <2>2, <3>1, <4>1 DEF IInv, StreamInv
      <4> QED
        BY <1>6, <1>8, <3>1, <4>1, <4>2
    <3>2. CASE i \in 1 .. Size /\ j \notin 1 .. Size
      <4>1. j - Size \in 1 .. 3 /\ At(j)'[1] = new
        BY <1>6, <3>2 DEF Byte
      <4>2. ~(j - i <= Left(At(i))) /\ At(i)[1] < new
        BY <1>1, <1>6, <1>8, <1>9, <3>2, <4>1
      <4>3. At(i)'[1] = At(i)[1] /\ Left(At(i))' = Left(At(i))
        BY <1>6, <1>8, <3>2
      <4> QED
        BY <1>1, <1>8, <3>2, <4>1, <4>2, <4>3
    <3>3. CASE i \notin 1 .. Size /\ j \notin 1 .. Size
      <4>1. i - Size \in 1 .. 3 /\ j - Size \in 1 .. 3
        BY <1>6, <3>3
      <4>2. At(i)' = Byte(new, i - Size) /\ At(j)' = Byte(new, j - Size)
            /\ Left(At(i))' = 3 + wrec.len - (i - Size)
        BY <1>6, <1>10, <3>3
      <4>3. j - i <= 3 + wrec.len - (i - Size) /\ (i - Size) + (j - i) = j - Size
        BY <1>1, <1>6, <4>1
      <4> QED
        BY <4>2, <4>3 DEF Byte
    <3> QED
      BY <1>6, <2>2, <3>1, <3>2, <3>3
  <2>3. ASSUME NEW i \in 1 .. Size'
        PROVE  IF wpc' = "payload" /\ At(i)'[1] = Len(recs')
                 THEN At(i)'[2] + (Size' - i) = 3 ELSE Size' - i >= Left(At(i))'
    <3>1. CASE i \in 1 .. Size
      BY <1>1, <1>6, <1>8, <1>9, <3>1
    <3>2. CASE i \notin 1 .. Size
      <4>1. i - Size \in 1 .. 3 /\ At(i)' = Byte(new, i - Size)
            /\ Left(At(i))' = 3 + wrec.len - (i - Size)
        BY <1>6, <1>10, <3>2
      <4>2. wrec.len > 0 <=> wpc' = "payload"
        BY DEF SendHeader
      <4> QED
        BY <1>1, <1>6, <4>1, <4>2 DEF Byte
    <3> QED
      BY <3>1, <3>2
  <2> QED
    BY <2>1, <2>2, <2>3 DEF StreamInv
<1>12. WriterInv'
  <2>1. wrec' = wrec /\ wpc' # "header" /\ (wpc' = "payload" => wrec.len > 0)
    BY DEF SendHeader
  <2>2. Len(recs') > last'
    BY <1>1 DEF IInv, TypeOK, SendHeader, reader
  <2>3. EVENT_BUF - Len(events') >= wrec.len
    <3>1. EVENT_BUF \in Nat /\ Len(events) \in Nat
      BY QueueAssumption DEF IInv, TypeOK
    <3> QED
      BY <1>1, <1>4, <1>5, <3>1
  <2> QED
    BY <1>1, <2>1, <2>2, <2>3 DEF WriterInv
<1>13. ReaderInv'
  <2>1. Len(events') >= Len(events)
    BY <1>5 DEF IInv, TypeOK
  <2>2. \A id \in Ids : id \in Ids' /\ recs'[id] = recs[id] /\ HeaderOf(id)' = HeaderOf(id)
    BY <1>1 DEF Ids, HeaderOf, Byte
  <2>3. RecordOf(hdr)' = RecordOf(hdr) /\ UNCHANGED <<rpc, hdr, got, avail, streamResets>>
    BY DEF SendHeader, reader, RecordOf
  <2>4. avail \in Nat /\ Len(events) \in Nat
    BY DEF IInv, TypeOK
  <2> QED
    BY <1>5, <2>1, <2>2, <2>3, <2>4 DEF ReaderInv, IInv
<1> QED
  BY <1>7, <1>11, <1>12, <1>13 DEF IInv
\* The payload stands behind its header.
LEMMA PayloadSent ==
  ASSUME IInv, SendPayload, NEW id, id = Len(recs), NEW n, n = wrec.len
  PROVE  /\ id \in Nat /\ wrec \in Records /\ n \in Nat /\ n > 0 /\ id > last /\ last \in Nat
         /\ recs[id] = wrec /\ EVENT_BUF - Len(events) >= n
         /\ Len(events) \in Nat /\ wpc = "payload" /\ wpc' = "idle"
         /\ UNCHANGED <<recs, hdr, got, last, wrec, rpc, avail, streamResets>>
         /\ events' \in Seq(Bytes) /\ Len(events') = Len(events) + n
         /\ \A i \in 1 .. Len(events) : events'[i] = events[i]
         /\ \A i \in 1 .. n : events'[Len(events) + i] = Byte(id, 3 + i)
         /\ Size \in Nat /\ Size' = Size + n
         /\ \A i \in 1 .. Size : At(i)' = At(i) /\ At(i) \in Bytes
         /\ \A i \in 1 .. Size + n : i \notin 1 .. Size =>
               i - Size \in 1 .. n /\ At(i)' = Byte(id, 3 + (i - Size))
<1>1. /\ id \in Nat /\ wrec \in Records /\ n \in Nat /\ n > 0 /\ id > last /\ last \in Nat
      /\ recs[id] = wrec /\ EVENT_BUF - Len(events) >= n
      /\ Len(events) \in Nat /\ wpc = "payload" /\ wpc' = "idle"
  BY RecordLen DEF SendPayload, IInv, WriterInv, TypeOK
<1>2. id \in Nat \ {0}
  BY <1>1
<1>3. /\ PayloadOf(id) \in Seq(Bytes) /\ Len(PayloadOf(id)) = n
      /\ \A i \in 1 .. n : PayloadOf(id)[i] = Byte(id, 3 + i)
  <2>1. \A i \in 1 .. n : Byte(id, 3 + i) \in Bytes
    BY <1>1, <1>2 DEF Byte, Bytes
  <2>2. PayloadOf(id) = [i \in 1 .. n |-> Byte(id, 3 + i)]
    BY <1>1 DEF PayloadOf
  <2> QED
    BY <1>1, <2>1, <2>2
<1>4. UNCHANGED <<recs, hdr, got, last, wrec, rpc, avail, streamResets>>
  BY DEF SendPayload, reader
<1>5. /\ events' \in Seq(Bytes) /\ Len(events') = Len(events) + n
      /\ \A i \in 1 .. Len(events) : events'[i] = events[i]
      /\ \A i \in 1 .. n : events'[Len(events) + i] = Byte(id, 3 + i)
  <2>1. events \in Seq(Bytes) /\ EVENT_BUF - Len(events) >= Len(PayloadOf(id))
    BY <1>1, <1>3 DEF IInv, TypeOK
  <2>2. events' = Sent(PayloadOf(id))
    BY DEF SendPayload
  <2> QED
    BY <1>3, <2>1, <2>2, SentWhole, SMTT(30)
<1>6. /\ Size \in Nat /\ Size' = Size + n
      /\ \A i \in 1 .. Size : At(i)' = At(i) /\ At(i) \in Bytes
      /\ \A i \in 1 .. Size + n : i \notin 1 .. Size =>
            i - Size \in 1 .. n /\ At(i)' = Byte(id, 3 + (i - Size))
  <2>1. /\ Size \in Nat /\ Size' = Size + n
        /\ \A i \in 1 .. Size : At(i)' = At(i) /\ At(i) \in Bytes
        /\ \A i \in 1 .. Size + n : i \notin 1 .. Size => At(i)' = events'[Len(events) + (i - Size)]
    BY <1>1, <1>4, <1>5, StreamGrows
  <2>2. \A i \in 1 .. Size + n : i \notin 1 .. Size => i - Size \in 1 .. n
    BY <1>1, <2>1
  <2> QED
    BY <1>5, <2>1, <2>2
<1> QED
  BY <1>1, <1>4, <1>5, <1>6

\* A payload sent makes the last record whole.
LEMMA SendPayloadInv ==
  ASSUME IInv, SendPayload
  PROVE  IInv'
<1> DEFINE id == Len(recs)
           n == wrec.len
<1>1. /\ id \in Nat /\ wrec \in Records /\ n \in Nat /\ n > 0 /\ id > last /\ last \in Nat
      /\ recs[id] = wrec /\ EVENT_BUF - Len(events) >= n
      /\ Len(events) \in Nat /\ wpc = "payload" /\ wpc' = "idle"
  BY PayloadSent
<1>2. id \in Nat \ {0}
  BY <1>1
<1>4. UNCHANGED <<recs, hdr, got, last, wrec, rpc, avail, streamResets>>
  BY PayloadSent
<1>5. /\ events' \in Seq(Bytes) /\ Len(events') = Len(events) + n
      /\ \A i \in 1 .. Len(events) : events'[i] = events[i]
      /\ \A i \in 1 .. n : events'[Len(events) + i] = Byte(id, 3 + i)
  BY PayloadSent
<1>6. /\ Size \in Nat /\ Size' = Size + n
      /\ \A i \in 1 .. Size : At(i)' = At(i) /\ At(i) \in Bytes
      /\ \A i \in 1 .. Size + n : i \notin 1 .. Size =>
            i - Size \in 1 .. n /\ At(i)' = Byte(id, 3 + (i - Size))
  BY PayloadSent
<1>7. TypeOK'
  BY <1>1, <1>4, <1>5 DEF SendPayload, TypeOK, reader, IInv, Ids
<1>8. /\ \A b \in Bytes : Left(b)' = Left(b)
      /\ \A i \in 1 .. Size : At(i)[1] \in 1 .. id /\ Left(At(i)) \in Int
  <2>1. \A i \in 1 .. Size : At(i)[1] \in Ids /\ At(i)[2] \in Int
    BY <1>6 DEF IInv, StreamInv, Bytes
  <2>2. \A i \in 1 .. Size : recs[At(i)[1]].len \in Nat
    BY <2>1, RecsTyped DEF IInv, TypeOK
  <2> QED
    BY <1>4, <2>1, <2>2 DEF Left, Ids
<1>9. \A i \in 1 .. Size :
        IF At(i)[1] = id THEN At(i)[2] + (Size - i) = 3 ELSE Size - i >= Left(At(i))
  BY <1>1 DEF IInv, StreamInv
<1>10. \A i \in 1 .. Size + n : i \notin 1 .. Size => Left(At(i))' = n - (i - Size)
  <2> SUFFICES ASSUME NEW i \in 1 .. Size + n, i \notin 1 .. Size
               PROVE  Left(At(i))' = n - (i - Size)
    OBVIOUS
  <2>1. At(i)' = Byte(id, 3 + (i - Size)) /\ recs'[id].len = n /\ i - Size \in 1 .. n
    BY <1>1, <1>4, <1>6
  <2> QED
    BY <1>1, <2>1 DEF Left, Byte
<1>11. \A i \in 1 .. Size : At(i)[1] = id => Left(At(i)) = n + (Size - i)
  <2> SUFFICES ASSUME NEW i \in 1 .. Size, At(i)[1] = id PROVE Left(At(i)) = n + (Size - i)
    OBVIOUS
  <2>1. At(i)[2] + (Size - i) = 3 /\ At(i)[2] \in Int /\ Size \in Nat
    BY <1>6, <1>9 DEF Bytes
  <2>2. Left(At(i)) = 3 + n - At(i)[2] /\ n \in Nat
    BY <1>1 DEF Left
  <2> HIDE DEF n, id
  <2> QED
    BY <2>1, <2>2
<1>12. StreamInv'
  <2>1. ASSUME NEW i \in 1 .. Size'
        PROVE  At(i)'[1] \in Ids' /\ At(i)'[1] > last' /\ At(i)'[2] <= 3 + recs'[At(i)'[1]].len
    <3>1. CASE i \in 1 .. Size
      BY <1>4, <1>6, <3>1 DEF IInv, StreamInv, Ids
    <3>2. CASE i \notin 1 .. Size
      <4>1. i - Size \in 1 .. n /\ At(i)' = Byte(id, 3 + (i - Size))
        BY <1>1, <1>6, <3>2
      <4> QED
        BY <1>1, <1>2, <1>4, <4>1 DEF Byte, Ids
    <3> QED
      BY <3>1, <3>2
  <2>2. ASSUME NEW i \in 1 .. Size', NEW j \in 1 .. Size', i < j
        PROVE  IF j - i <= Left(At(i))' THEN At(j)' = Byte(At(i)'[1], At(i)'[2] + (j - i))
                                        ELSE At(j)'[1] > At(i)'[1]
    <3>1. CASE j \in 1 .. Size
      <4>1. i \in 1 .. Size
        BY <1>6, <2>2, <3>1
      <4>2. IF j - i <= Left(At(i)) THEN At(j) = Byte(At(i)[1], At(i)[2] + (j - i))
                                    ELSE At(j)[1] > At(i)[1]
        BY <2>2, <3>1, <4>1 DEF IInv, StreamInv
      <4> QED
        BY <1>6, <1>8, <3>1, <4>1, <4>2
    <3>2. CASE i \in 1 .. Size /\ j \notin 1 .. Size
      <4>2. j - Size \in 1 .. n /\ i \in 1 .. Size /\ Size \in Nat /\ j \in Int
        BY <1>1, <1>6, <3>2
      <4>3. At(j)' = Byte(id, 3 + (j - Size)) /\ At(i)' = At(i) /\ Left(At(i))' = Left(At(i))
        BY <1>6, <1>8, <3>2
      <4>4. CASE At(i)[1] = id
        <5>1. Left(At(i)) = n + (Size - i) /\ At(i)[2] + (Size - i) = 3 /\ At(i)[2] \in Int
          BY <1>6, <1>9, <1>11, <3>2, <4>4 DEF Bytes
        <5>2. j - i <= Left(At(i)) /\ At(i)[2] + (j - i) = 3 + (j - Size)
          BY <1>1, <4>2, <5>1, SMTT(30)
        <5> QED
          BY <4>3, <4>4, <5>2
      <4>5. CASE At(i)[1] # id
        <5>1. Size - i >= Left(At(i)) /\ At(i)[1] < id
          BY <1>1, <1>8, <1>9, <3>2, <4>5, SMTT(30)
        <5>2. ~(j - i <= Left(At(i)))
          BY <1>1, <1>6, <1>8, <3>2, <4>2, <5>1
        <5> QED
          BY <1>1, <1>8, <3>2, <4>3, <5>1, <5>2 DEF Byte
      <4> QED
        BY <4>4, <4>5
    <3>3. CASE i \notin 1 .. Size /\ j \notin 1 .. Size
      <4>1. i - Size \in 1 .. n /\ j - Size \in 1 .. n
        BY <1>1, <1>6, <3>3
      <4>2. At(i)' = Byte(id, 3 + (i - Size)) /\ At(j)' = Byte(id, 3 + (j - Size))
            /\ Left(At(i))' = n - (i - Size)
        BY <1>6, <1>10, <3>3
      <4>3. j - i <= n - (i - Size) /\ (3 + (i - Size)) + (j - i) = 3 + (j - Size)
        BY <1>1, <1>6, <4>1, SMTT(30)
      <4> QED
        BY <4>2, <4>3 DEF Byte
    <3> QED
      BY <1>6, <2>2, <3>1, <3>2, <3>3
  <2>3. ASSUME NEW i \in 1 .. Size'
        PROVE  Size' - i >= Left(At(i))'
    <3>1. CASE i \in 1 .. Size
      <4>1. Left(At(i))' = Left(At(i)) /\ Left(At(i)) \in Int
        BY <1>6, <1>8, <3>1
      <4>2. Left(At(i)) = n + (Size - i) \/ Size - i >= Left(At(i))
        BY <1>9, <1>11, <3>1
      <4> QED
        BY <1>1, <1>6, <3>1, <4>1, <4>2, SMTT(30)
    <3>2. CASE i \notin 1 .. Size
      <4>1. i - Size \in 1 .. n /\ Left(At(i))' = n - (i - Size)
        BY <1>1, <1>6, <1>10, <3>2
      <4> QED
        BY <1>1, <1>6, <4>1
    <3> QED
      BY <3>1, <3>2
  <2> QED
    BY <1>1, <2>1, <2>2, <2>3 DEF StreamInv
<1>13. WriterInv'
  BY <1>1 DEF WriterInv
<1>14. ReaderInv'
  BY <1>1, <1>4, <1>5, SMTT(30) DEF ReaderInv, IInv, RecordOf, HeaderOf, Ids, Byte, TypeOK
<1> QED
  BY <1>7, <1>12, <1>13, <1>14 DEF IInv

\* A count touches no byte.
LEMMA CountEdgeInv ==
  ASSUME IInv, CountEdge
  PROVE  IInv'
<1>1. TypeOK'
  BY DEF CountEdge, TypeOK, IInv, reader, Ids
<1>2. StreamInv'
  BY StreamSame DEF CountEdge, reader
<1>3. WriterInv' /\ ReaderInv'
  BY DEF WriterInv, ReaderInv, IInv, CountEdge, reader, Ids, HeaderOf, RecordOf, Byte
<1> QED
  BY <1>1, <1>2, <1>3 DEF IInv

\* The reader's steps that touch no byte.
LEMMA TurnsInv ==
  ASSUME IInv, BeginTick \/ PayloadTimeout \/ EndLoop \/ TellDrops \/ TellCut
  PROVE  IInv'
<1>1. UNCHANGED <<events, hdr, got, recs, last, wpc, wrec, streamResets, avail>>
  BY DEF BeginTick, PayloadTimeout, EndLoop, TellDrops, TellCut, writer
<1>2. TypeOK'
  <2>1. CASE BeginTick
    BY <2>1 DEF BeginTick, TypeOK, IInv, writer, Ids
  <2>2. CASE PayloadTimeout
    BY <2>2 DEF PayloadTimeout, TypeOK, IInv, writer, Ids
  <2>3. CASE EndLoop
    BY <2>3 DEF EndLoop, TypeOK, IInv, writer, Ids
  <2>4. CASE TellDrops
    BY <2>4 DEF TellDrops, DropsLeft, TypeOK, IInv, Ids
  <2>5. CASE TellCut
    BY <2>5 DEF TellCut, TypeOK, IInv, writer, Ids
  <2> QED
    BY <2>1, <2>2, <2>3, <2>4, <2>5
<1>3. StreamInv' /\ WriterInv'
  BY <1>1, StreamSame DEF WriterInv, IInv, Need
<1>4. rpc' \in {"bad", "loop", "tell", "tellCut", "idle"} /\ (rpc' = "bad" => rpc = "payload")
      /\ (rpc' # "bad" => rpc \notin {"payload", "deliver", "bad"})
  BY DEF BeginTick, PayloadTimeout, EndLoop, TellDrops, TellCut
<1>5. rpc = "payload" => Len(hdr) = 3
  <2> SUFFICES ASSUME rpc = "payload" PROVE Len(hdr) = 3
    OBVIOUS
  <2>1. hdr = HeaderOf(RecordOf(hdr))
    BY DEF IInv, ReaderInv
  <2>2. RecordOf(hdr) \in Nat \ {0}
    BY RecsTyped DEF IInv, ReaderInv, TypeOK
  <2> QED
    BY <2>1, <2>2, HeaderTyped
<1>6. ReaderInv'
  BY <1>1, <1>4, <1>5 DEF ReaderInv, IInv
<1> QED
  BY <1>2, <1>3, <1>6 DEF IInv

\* The stream is the header held, the payload held and the buffer, in that order.
LEMMA Lengths3 ==
  ASSUME IInv
  PROVE  /\ Len(hdr) \in Nat /\ Len(got) \in Nat /\ Len(events) \in Nat /\ Size \in Nat
         /\ Size = Len(hdr) + Len(got) + Len(events)
         /\ \A i \in 1 .. Len(hdr) : At(i) = hdr[i]
         /\ \A i \in 1 .. Len(got) : At(Len(hdr) + i) = got[i]
         /\ \A i \in 1 .. Len(events) : At(Len(hdr) + Len(got) + i) = events[i]
         /\ \A i \in 1 .. Size : At(i) \in Bytes
<1>1. Len(hdr) \in Nat /\ Len(got) \in Nat /\ Len(events) \in Nat
  BY DEF IInv, TypeOK
<1>2. /\ \A i \in 1 .. Len(hdr) : At(i) = hdr[i]
      /\ \A i \in 1 .. Len(got) : At(Len(hdr) + i) = got[i]
      /\ \A i \in 1 .. Len(events) : At(Len(hdr) + Len(got) + i) = events[i]
  BY <1>1 DEF At
<1>3. ASSUME NEW i \in 1 .. Size PROVE At(i) \in Bytes
  <2>1. \/ i \in 1 .. Len(hdr) \/ i - Len(hdr) \in 1 .. Len(got)
        \/ i - Len(hdr) - Len(got) \in 1 .. Len(events)
    BY <1>1 DEF Size
  <2> QED
    BY <1>1, <2>1 DEF At, IInv, TypeOK
<1> QED
  BY <1>1, <1>2, <1>3 DEF Size

\* What is left of the stream when its first d bytes are gone.
LEMMA StreamCut ==
  ASSUME IInv, NEW d \in 0 .. Size, Size' = Size - d,
         \A i \in 1 .. Size - d : At(i)' = At(d + i) /\ At(d + i)[1] > last',
         UNCHANGED <<recs, wpc>>
  PROVE  StreamInv'
<1>1. Size \in Nat /\ \A i \in 1 .. Size : At(i) \in Bytes
  BY Lengths3
<1>2. \A i \in 1 .. Size - d : d + i \in 1 .. Size
  BY <1>1
<1>3. \A i \in 1 .. Size - d : Left(At(i))' = Left(At(d + i))
  BY <1>1 DEF Left
<1>4. \A i \in 1 .. Size' :
        At(i)'[1] \in Ids' /\ At(i)'[1] > last' /\ At(i)'[2] <= 3 + recs'[At(i)'[1]].len
  BY <1>1, <1>2 DEF IInv, StreamInv, Ids
<1>5. ASSUME NEW i \in 1 .. Size', NEW j \in 1 .. Size', i < j
      PROVE  IF j - i <= Left(At(i))' THEN At(j)' = Byte(At(i)'[1], At(i)'[2] + (j - i))
                                      ELSE At(j)'[1] > At(i)'[1]
  <2>1. d + i \in 1 .. Size /\ d + j \in 1 .. Size /\ d + i < d + j /\ (d + j) - (d + i) = j - i
    BY <1>1, <1>2, <1>5
  <2>2. IF (d + j) - (d + i) <= Left(At(d + i))
          THEN At(d + j) = Byte(At(d + i)[1], At(d + i)[2] + ((d + j) - (d + i)))
          ELSE At(d + j)[1] > At(d + i)[1]
    BY <2>1 DEF IInv, StreamInv
  <2>3. At(i)' = At(d + i) /\ At(j)' = At(d + j)
    OBVIOUS
  <2> QED
    BY <1>3, <2>1, <2>2, <2>3
<1>6. ASSUME NEW i \in 1 .. Size'
      PROVE  IF wpc' = "payload" /\ At(i)'[1] = Len(recs')
               THEN At(i)'[2] + (Size' - i) = 3 ELSE Size' - i >= Left(At(i))'
  <2>1. d + i \in 1 .. Size /\ Size' - i = Size - (d + i)
    BY <1>1, <1>2
  <2> QED
    BY <1>3, <2>1 DEF IInv, StreamInv
<1> QED
  BY <1>4, <1>5, <1>6 DEF StreamInv

\* While it waits for a payload or has it, the reader is at the beginning of one
\* record; what is behind that record is newer.
LEMMA InHand ==
  ASSUME IInv, rpc \in {"payload", "deliver"}
  PROVE  /\ RecordOf(hdr) \in Ids /\ RecordOf(hdr) > last
         /\ recs[RecordOf(hdr)].len \in Nat /\ Len(hdr) = 3
         /\ \A j \in 1 .. Size :
               IF j <= 3 + recs[RecordOf(hdr)].len THEN At(j) = Byte(RecordOf(hdr), j)
                                                   ELSE At(j)[1] > RecordOf(hdr)
<1> DEFINE id == RecordOf(hdr)
           n == recs[id].len
<1>1. id \in Ids /\ hdr = HeaderOf(id)
  BY DEF IInv, ReaderInv
<1>2. id \in Nat \ {0} /\ n \in Nat
  BY <1>1, RecsTyped DEF IInv, TypeOK
<1>3. Len(hdr) = 3 /\ \A i \in 1 .. 3 : hdr[i] = Byte(id, i)
  BY <1>1, <1>2, HeaderTyped
<1> HIDE DEF id, n
<1>4. At(1) = Byte(id, 1) /\ 1 \in 1 .. Size
  BY <1>3, Lengths3
<1>5. Left(At(1)) = 2 + n
  <2>1. Left(At(1)) = 3 + n - 1
    BY <1>4 DEF Left, Byte, n
  <2> QED
    BY <1>2, <2>1
<1>6. id > last
  BY <1>4 DEF IInv, StreamInv, Byte
<1>7. ASSUME NEW j \in 1 .. Size
      PROVE  IF j <= 3 + n THEN At(j) = Byte(id, j) ELSE At(j)[1] > id
  <2>1. CASE j = 1
    BY <1>2, <1>4, <2>1
  <2>2. CASE 1 < j
    <3>1. IF j - 1 <= Left(At(1)) THEN At(j) = Byte(At(1)[1], At(1)[2] + (j - 1))
                                  ELSE At(j)[1] > At(1)[1]
      BY <1>4, <2>2 DEF IInv, StreamInv
    <3>2. j - 1 <= 2 + n <=> j <= 3 + n
      BY <1>2
    <3>3. 1 + (j - 1) = j
      OBVIOUS
    <3> QED
      BY <1>4, <1>5, <3>1, <3>2, <3>3 DEF Byte
  <2> QED
    BY <2>1, <2>2, Lengths3
<1> QED
  BY <1>1, <1>2, <1>3, <1>6, <1>7 DEF id, n

\* With all of its payload, what the reader holds is that record.
LEMMA WholeInHand ==
  ASSUME IInv, rpc = "deliver"
  PROVE  /\ Len(got) = recs[RecordOf(hdr)].len
         /\ got = PayloadOf(RecordOf(hdr))
         /\ \A i \in 1 .. Len(events) : events[i][1] > RecordOf(hdr)
<1> DEFINE id == RecordOf(hdr)
           n == recs[id].len
<1>1. Len(got) = n
  BY DEF IInv, ReaderInv
<1>2. /\ n \in Nat /\ Len(hdr) = 3
      /\ \A j \in 1 .. Size : IF j <= 3 + n THEN At(j) = Byte(id, j) ELSE At(j)[1] > id
  BY InHand
<1>3. got = [i \in 1 .. Len(got) |-> got[i]]
  BY DEF IInv, TypeOK
<1>4. PayloadOf(id) = [i \in 1 .. n |-> Byte(id, 3 + i)]
  BY DEF PayloadOf
<1> HIDE DEF id, n
<1>5. /\ Len(events) \in Nat /\ Size = 3 + n + Len(events)
      /\ \A i \in 1 .. n : At(3 + i) = got[i]
      /\ \A i \in 1 .. Len(events) : At(3 + n + i) = events[i]
  BY <1>1, <1>2, Lengths3
<1>6. ASSUME NEW i \in 1 .. n PROVE got[i] = Byte(id, 3 + i)
  <2>1. 3 + i \in 1 .. Size /\ 3 + i <= 3 + n
    BY <1>2, <1>5
  <2> QED
    BY <1>2, <1>5, <2>1
<1>7. got = PayloadOf(id)
  BY <1>1, <1>3, <1>4, <1>6
<1>8. ASSUME NEW i \in 1 .. Len(events) PROVE events[i][1] > id
  <2>1. 3 + n + i \in 1 .. Size /\ ~(3 + n + i <= 3 + n)
    BY <1>2, <1>5
  <2> QED
    BY <1>2, <1>5, <2>1
<1> QED
  BY <1>1, <1>7, <1>8 DEF id, n

\* Bytes that pass from the buffer into the reader's hands stay in the stream.
LEMMA StreamMoved ==
  ASSUME IInv, Size' = Size, \A i \in 1 .. Size : At(i)' = At(i),
         UNCHANGED <<recs, last, wpc>>
  PROVE  StreamInv'
<1>1. Size \in Nat /\ 0 \in 0 .. Size /\ Size' = Size - 0
  BY Lengths3
<1>2. ASSUME NEW i \in 1 .. Size - 0
      PROVE  At(i)' = At(0 + i) /\ At(0 + i)[1] > last'
  <2>1. i \in 1 .. Size /\ 0 + i = i
    BY <1>1
  <2> QED
    BY <2>1 DEF IInv, StreamInv
<1> QED
  BY <1>1, <1>2, StreamCut

\* The header passes into the reader's hands.
LEMMA HeaderTaken ==
  ASSUME IInv, ReadHeader
  PROVE  /\ Len(events) \in Nat /\ Len(events) >= 3 /\ events \in Seq(Bytes)
         /\ hdr = <<>> /\ got = <<>> /\ Size = Len(events)
         /\ \A i \in 1 .. Size : At(i) = events[i]
         /\ hdr' \in Seq(Bytes) /\ Len(hdr') = 3 /\ \A i \in 1 .. 3 : hdr'[i] = events[i]
         /\ events' \in Seq(Bytes) /\ Len(events') = Len(events) - 3
         /\ \A i \in 1 .. Len(events) - 3 : events'[i] = events[3 + i]
         /\ got' = <<>> /\ Len(got') = 0
         /\ UNCHANGED <<recs, last, wpc, wrec, avail, streamResets>>
         /\ Size' = Size /\ \A i \in 1 .. Size : At(i)' = At(i)
<1>1. /\ Len(events) \in Nat /\ Len(events) >= 3 /\ events \in Seq(Bytes)
      /\ hdr = <<>> /\ got = <<>> /\ Size = Len(events)
      /\ \A i \in 1 .. Size : At(i) = events[i]
  <2>1. hdr = <<>> /\ got = <<>> /\ Len(hdr) = 0 /\ Len(got) = 0
    BY DEF ReadHeader, IInv, ReaderInv
  <2> QED
    BY <2>1, Lengths3 DEF ReadHeader, HeaderThere, IInv, TypeOK
<1>2. /\ hdr' \in Seq(Bytes) /\ Len(hdr') = 3 /\ \A i \in 1 .. 3 : hdr'[i] = events[i]
      /\ events' \in Seq(Bytes) /\ Len(events') = Len(events) - 3
      /\ \A i \in 1 .. Len(events) - 3 : events'[i] = events[3 + i]
      /\ got' = <<>> /\ Len(got') = 0
  BY <1>1, Behind DEF ReadHeader
<1>3. UNCHANGED <<recs, last, wpc, wrec, avail, streamResets>>
  BY DEF ReadHeader, writer
<1>4. Size' = Size /\ \A i \in 1 .. Size : At(i)' = At(i)
  BY <1>1, <1>2 DEF Size, At
<1> QED
  BY <1>1, <1>2, <1>3, <1>4

\* A header taken is whole or bad.
LEMMA ReadHeaderInv ==
  ASSUME IInv, ReadHeader
  PROVE  IInv'
<1>1. /\ Len(events) \in Nat /\ Len(events) >= 3 /\ events \in Seq(Bytes)
      /\ hdr = <<>> /\ got = <<>> /\ Size = Len(events)
      /\ \A i \in 1 .. Size : At(i) = events[i]
  BY HeaderTaken
<1>2. /\ hdr' \in Seq(Bytes) /\ Len(hdr') = 3 /\ \A i \in 1 .. 3 : hdr'[i] = events[i]
      /\ events' \in Seq(Bytes) /\ Len(events') = Len(events) - 3
      /\ \A i \in 1 .. Len(events) - 3 : events'[i] = events[3 + i]
      /\ got' = <<>> /\ Len(got') = 0
  BY HeaderTaken
<1>3. UNCHANGED <<recs, last, wpc, wrec, avail, streamResets>>
  BY HeaderTaken
<1>4. Size' = Size /\ \A i \in 1 .. Size : At(i)' = At(i)
  BY HeaderTaken
<1>5. StreamInv'
  BY <1>3, <1>4, StreamMoved
<1>6. TypeOK'
  <2>1. rpc' \in {"bad", "deliver", "payload"}
    BY DEF ReadHeader
  <2>2. got' \in Seq(Bytes)
    BY <1>2
  <2> QED
    BY <1>2, <2>1, <2>2 DEF ReadHeader, TypeOK, IInv, writer, Ids
<1>7. WriterInv'
  <2>1. Len(events') <= Len(events)
    BY <1>1, <1>2
  <2>2. \A n \in Nat : EVENT_BUF - Len(events) >= n => EVENT_BUF - Len(events') >= n
    BY <1>1, <1>2, <2>1, QueueAssumption
  <2>3. wrec \in Records => wrec.len \in Nat /\ Need(wrec) \in Nat
    BY RecordLen, QueueAssumption DEF Need
  <2> QED
    BY <1>3, <2>2, <2>3 DEF WriterInv, IInv, Need
<1>8. ReaderInv'
  <2>1. rpc' = IF ~Good(hdr') THEN "bad"
               ELSE IF recs[RecordOf(hdr')].len = 0 THEN "deliver" ELSE "payload"
    BY DEF ReadHeader
  <2>2. CASE ~Good(hdr')
    BY <1>2, <2>1, <2>2 DEF ReaderInv
  <2>3. CASE Good(hdr')
    <3>1. PICK id \in Ids : hdr' = HeaderOf(id)
      BY <2>3 DEF Good
    <3>2. id \in Nat \ {0} /\ recs[id].len \in Nat
      BY RecsTyped DEF IInv, TypeOK
    <3>3. hdr'[1] = Byte(id, 1)
      BY <3>1, <3>2, HeaderTyped
    <3>4. RecordOf(hdr') = id
      BY <3>3 DEF RecordOf, Byte
    <3>5. RecordOf(hdr)' \in Ids' /\ hdr' = HeaderOf(RecordOf(hdr))'
      BY <1>3, <3>1, <3>4 DEF Ids, RecordOf, HeaderOf, Byte
    <3>6. rpc' = IF recs[id].len = 0 THEN "deliver" ELSE "payload"
      BY <2>1, <2>3, <3>4
    <3> QED
      BY <1>2, <1>3, <3>2, <3>4, <3>5, <3>6 DEF ReaderInv, RecordOf
  <2> QED
    BY <2>2, <2>3
<1> QED
  BY <1>5, <1>6, <1>7, <1>8 DEF IInv

\* A read wants what is missing of the payload and takes as much as there is.
Taken(want, k) ==
    /\ want = recs[RecordOf(hdr)].len - Len(got)
    /\ k = IF want < Len(events) THEN want ELSE Len(events)

\* So do the first bytes of a payload.
LEMMA PayloadTaken ==
  ASSUME IInv, ReadPayload, NEW want, NEW k, Taken(want, k)
  PROVE  /\ Len(events) \in Nat /\ events \in Seq(Bytes) /\ got \in Seq(Bytes) /\ Len(got) \in Nat
         /\ Len(hdr) \in Nat /\ want \in Nat /\ want > 0 /\ k \in 0 .. Len(events) /\ k <= want
         /\ got' = got \o SubSeq(events, 1, k)
         /\ events' = SubSeq(events, k + 1, Len(events))
         /\ rpc' = IF k = want THEN "deliver" ELSE "payload"
         /\ UNCHANGED <<recs, last, wpc, wrec, avail, streamResets, hdr>>
         /\ events' \in Seq(Bytes) /\ Len(events') = Len(events) - k
         /\ \A i \in 1 .. Len(events) - k : events'[i] = events[k + i]
         /\ SubSeq(events, 1, k) \in Seq(Bytes) /\ Len(SubSeq(events, 1, k)) = k
         /\ \A i \in 1 .. k : SubSeq(events, 1, k)[i] = events[i]
         /\ got' \in Seq(Bytes) /\ Len(got') = Len(got) + k
         /\ \A i \in 1 .. Len(got) : got'[i] = got[i]
         /\ \A i \in 1 .. k : got'[Len(got) + i] = events[i]
         /\ Size' = Size /\ \A i \in 1 .. Size : At(i)' = At(i)
<1>1. /\ Len(events) \in Nat /\ events \in Seq(Bytes) /\ got \in Seq(Bytes) /\ Len(got) \in Nat
      /\ Len(hdr) \in Nat /\ want \in Nat /\ want > 0 /\ k \in 0 .. Len(events) /\ k <= want
  <2>1. RecordOf(hdr) \in Ids /\ Len(got) < recs[RecordOf(hdr)].len
    BY DEF ReadPayload, IInv, ReaderInv
  <2>2. recs[RecordOf(hdr)].len \in Nat
    BY <2>1, RecsTyped DEF IInv, TypeOK
  <2> QED
    <3>1. /\ Len(events) \in Nat /\ events \in Seq(Bytes) /\ got \in Seq(Bytes)
          /\ Len(got) \in Nat /\ Len(hdr) \in Nat
      BY DEF IInv, TypeOK
    <3>2. want \in Nat /\ want > 0
      BY <2>1, <2>2, <3>1 DEF Taken
    <3> QED
      BY <3>1, <3>2 DEF Taken
<1>2. /\ got' = got \o SubSeq(events, 1, k)
      /\ events' = SubSeq(events, k + 1, Len(events))
      /\ rpc' = IF k = want THEN "deliver" ELSE "payload"
      /\ UNCHANGED <<recs, last, wpc, wrec, avail, streamResets, hdr>>
  BY DEF ReadPayload, writer, Taken
<1>3. /\ events' \in Seq(Bytes) /\ Len(events') = Len(events) - k
      /\ \A i \in 1 .. Len(events) - k : events'[i] = events[k + i]
      /\ SubSeq(events, 1, k) \in Seq(Bytes) /\ Len(SubSeq(events, 1, k)) = k
      /\ \A i \in 1 .. k : SubSeq(events, 1, k)[i] = events[i]
  BY <1>1, <1>2, Behind
<1>4. /\ got' \in Seq(Bytes) /\ Len(got') = Len(got) + k
      /\ \A i \in 1 .. Len(got) : got'[i] = got[i]
      /\ \A i \in 1 .. k : got'[Len(got) + i] = events[i]
  <2> DEFINE some == SubSeq(events, 1, k)
  <2>1. some \in Seq(Bytes) /\ Len(some) = k /\ \A i \in 1 .. k : some[i] = events[i]
    BY <1>3
  <2>2. got' = got \o some /\ got \in Seq(Bytes) /\ Len(got) \in Nat /\ k \in Nat
    BY <1>1, <1>2
  <2> HIDE DEF some
  <2>3. /\ got' \in Seq(Bytes) /\ Len(got') = Len(got) + Len(some)
        /\ \A i \in 1 .. Len(got) + Len(some) :
              got'[i] = IF i <= Len(got) THEN got[i] ELSE some[i - Len(got)]
    BY <2>1, <2>2, ConcatProperties
  <2>4. \A i \in 1 .. Len(got) : got'[i] = got[i]
    BY <2>1, <2>2, <2>3
  <2>5. \A i \in 1 .. k : got'[Len(got) + i] = events[i]
    <3> SUFFICES ASSUME NEW i \in 1 .. k PROVE got'[Len(got) + i] = events[i]
      OBVIOUS
    <3>1. Len(got) + i \in 1 .. Len(got) + Len(some) /\ ~(Len(got) + i <= Len(got))
          /\ (Len(got) + i) - Len(got) = i
      BY <2>1, <2>2
    <3> QED
      BY <2>1, <2>3, <3>1
  <2> QED
    BY <2>1, <2>3, <2>4, <2>5
<1>5. Size' = Size /\ \A i \in 1 .. Size : At(i)' = At(i)
  <2>1. Size' = Size
    <3>1. Len(hdr') = Len(hdr) /\ Len(got') = Len(got) + k /\ Len(events') = Len(events) - k
      BY <1>2, <1>3, <1>4
    <3> QED
      BY <1>1, <3>1 DEF Size
  <2>2. ASSUME NEW i \in 1 .. Size PROVE At(i)' = At(i)
    <3>1. CASE i <= Len(hdr)
      BY <1>2, <3>1 DEF At
    <3>2. CASE ~(i <= Len(hdr)) /\ i <= Len(hdr) + Len(got)
      <4>1. i - Len(hdr) \in 1 .. Len(got) /\ i <= Len(hdr) + Len(got')
        BY <1>1, <1>4, <3>2
      <4> QED
        BY <1>2, <1>4, <3>2, <4>1 DEF At
    <3>3. CASE ~(i <= Len(hdr) + Len(got)) /\ i <= Len(hdr) + Len(got')
      <4> DEFINE m == i - Len(hdr) - Len(got)
      <4>1. m \in 1 .. k
        BY <1>1, <1>4, <3>3
      <4>2. i - Len(hdr) - Len(got) = m /\ i - Len(hdr) = Len(got) + m /\ ~(i <= Len(hdr))
        BY <1>1, <3>3, <4>1
      <4>3. At(i) = events[m] /\ At(i)' = got'[Len(got) + m]
        BY <1>2, <3>3, <4>2 DEF At
      <4>4. got'[Len(got) + m] = events[m]
        BY <1>4, <4>1
      <4> QED
        BY <4>3, <4>4
    <3>4. CASE ~(i <= Len(hdr) + Len(got'))
      <4> DEFINE m == i - Len(hdr) - Len(got) - k
      <4>1. m \in 1 .. Len(events) - k
        BY <1>1, <1>4, <3>4 DEF Size
      <4>2. /\ i - Len(hdr) - Len(got) = k + m /\ i - Len(hdr) - Len(got') = m
            /\ ~(i <= Len(hdr)) /\ ~(i <= Len(hdr) + Len(got))
        BY <1>1, <1>4, <3>4, <4>1
      <4>3. At(i) = events[k + m] /\ At(i)' = events'[m]
        BY <1>2, <3>4, <4>2 DEF At
      <4>4. events'[m] = events[k + m]
        BY <1>3, <4>1
      <4> QED
        BY <4>3, <4>4
    <3> QED
      BY <1>1, <3>1, <3>2, <3>3, <3>4
  <2> QED
    BY <2>1, <2>2
<1> QED
  BY <1>1, <1>2, <1>3, <1>4, <1>5

\* What is taken of a payload belongs to the header held, since nothing can stand
\* between the two.
LEMMA ReadPayloadInv ==
  ASSUME IInv, ReadPayload
  PROVE  IInv'
<1> DEFINE want == recs[RecordOf(hdr)].len - Len(got)
           k == IF want < Len(events) THEN want ELSE Len(events)
<1>0. Taken(want, k)
  BY DEF Taken
<1> HIDE DEF want, k
<1>1. /\ Len(events) \in Nat /\ events \in Seq(Bytes) /\ got \in Seq(Bytes) /\ Len(got) \in Nat
      /\ Len(hdr) \in Nat /\ want \in Nat /\ want > 0 /\ k \in 0 .. Len(events) /\ k <= want
  BY <1>0, PayloadTaken
<1>2. /\ rpc' = IF k = want THEN "deliver" ELSE "payload"
      /\ UNCHANGED <<recs, last, wpc, wrec, avail, streamResets, hdr>>
  BY <1>0, PayloadTaken
<1>3. /\ events' \in Seq(Bytes) /\ Len(events') = Len(events) - k
      /\ \A i \in 1 .. Len(events) - k : events'[i] = events[k + i]
      /\ SubSeq(events, 1, k) \in Seq(Bytes) /\ Len(SubSeq(events, 1, k)) = k
      /\ \A i \in 1 .. k : SubSeq(events, 1, k)[i] = events[i]
  BY <1>0, PayloadTaken, SMTT(30)
<1>4. /\ got' \in Seq(Bytes) /\ Len(got') = Len(got) + k
      /\ \A i \in 1 .. Len(got) : got'[i] = got[i]
      /\ \A i \in 1 .. k : got'[Len(got) + i] = events[i]
  BY <1>0, PayloadTaken
<1>5. Size' = Size /\ \A i \in 1 .. Size : At(i)' = At(i)
  BY <1>0, PayloadTaken
<1>6. StreamInv'
  BY <1>2, <1>5, StreamMoved
<1>7. TypeOK'
  BY <1>2, <1>3, <1>4 DEF ReadPayload, TypeOK, IInv, writer, Ids
<1>8. WriterInv'
  <2>1. \A n \in Nat : EVENT_BUF - Len(events) >= n => EVENT_BUF - Len(events') >= n
    BY <1>1, <1>3, QueueAssumption
  <2>2. wrec \in Records => wrec.len \in Nat /\ Need(wrec) \in Nat
    BY RecordLen, QueueAssumption DEF Need
  <2> QED
    BY <1>2, <2>1, <2>2 DEF WriterInv, IInv, Need
<1>9. ReaderInv'
  <2>1. RecordOf(hdr) \in Ids /\ hdr = HeaderOf(RecordOf(hdr))
    BY DEF ReadPayload, IInv, ReaderInv
  <2>2. RecordOf(hdr)' \in Ids' /\ hdr' = HeaderOf(RecordOf(hdr))' /\ RecordOf(hdr)' = RecordOf(hdr)
    BY <1>2, <2>1 DEF RecordOf, Ids, HeaderOf, Byte
  <2>3. IF k = want THEN Len(got') = recs[RecordOf(hdr)].len ELSE Len(got') < recs[RecordOf(hdr)].len
    <3>1. recs[RecordOf(hdr)].len \in Nat
      BY <2>1, RecsTyped DEF IInv, TypeOK
    <3>2. want = recs[RecordOf(hdr)].len - Len(got)
      BY <1>0 DEF Taken
    <3>3. k \in Nat /\ k <= want /\ Len(got) \in Nat /\ Len(got') = Len(got) + k
      BY <1>1, <1>4
    <3> QED
      BY <3>1, <3>2, <3>3
  <2>4. \A i \in 1 .. k : events[i][2] > 3
    <3>1. /\ recs[RecordOf(hdr)].len \in Nat /\ Len(hdr) = 3 /\ Size \in Nat
          /\ \A j \in 1 .. Size :
                j <= 3 + recs[RecordOf(hdr)].len => At(j) = Byte(RecordOf(hdr), j)
      BY InHand, Lengths3 DEF ReadPayload
    <3> SUFFICES ASSUME NEW i \in 1 .. k PROVE events[i][2] > 3
      OBVIOUS
    <3>2. At(3 + Len(got) + i) = events[i] /\ Size = 3 + Len(got) + Len(events)
      BY <1>1, <3>1, Lengths3
    <3>3. 3 + Len(got) + i \in 1 .. Size /\ 3 + Len(got) + i <= 3 + recs[RecordOf(hdr)].len
          /\ 3 + Len(got) + i > 3
      <4>1. /\ k \in Nat /\ k <= Len(events) /\ k <= want /\ Len(got) \in Nat
            /\ Len(events) \in Nat /\ want = recs[RecordOf(hdr)].len - Len(got)
        BY <1>0, <1>1 DEF Taken
      <4> QED
        BY <3>1, <3>2, <4>1, SMTT(30)
    <3> QED
      BY <3>1, <3>2, <3>3 DEF Byte
  <2>5. ASSUME NEW i \in 1 .. Len(got') PROVE got'[i][2] > 3
    <3>1. CASE i \in 1 .. Len(got)
      BY <1>4, <3>1 DEF IInv, ReaderInv
    <3>2. CASE i \notin 1 .. Len(got)
      <4>1. i - Len(got) \in 1 .. k /\ Len(got) + (i - Len(got)) = i
        BY <1>1, <1>4, <3>2
      <4>2. got'[i] = events[i - Len(got)]
        BY <1>4, <4>1
      <4> QED
        BY <2>4, <4>1, <4>2
    <3> QED
      BY <3>1, <3>2
  <2> QED
    BY <1>2, <2>2, <2>3, <2>5 DEF ReaderInv
<1> QED
  BY <1>6, <1>7, <1>8, <1>9 DEF IInv
\* The reader lets go of what it holds.

\* What the reader lets go is the front of the stream.
LEMMA HandsOff ==
  ASSUME IInv, hdr' = <<>>, got' = <<>>, UNCHANGED events, NEW d, d = Len(hdr) + Len(got)
  PROVE  /\ d \in 0 .. Size /\ Size' = Size - d /\ Len(events) = Size - d /\ Size \in Nat
         /\ \A i \in 1 .. Size - d : At(i)' = At(d + i) /\ At(d + i) = events[i]
<1>1. d \in 0 .. Size /\ Size' = Size - d /\ Len(events) = Size - d /\ Size \in Nat
  BY Lengths3 DEF Size
<1>2. ASSUME NEW i \in 1 .. Size - d
      PROVE  At(i)' = At(d + i) /\ At(d + i) = events[i]
  <2>1. i \in 1 .. Len(events)
    BY <1>1
  <2>2. Len(hdr') = 0 /\ Len(got') = 0
    OBVIOUS
  <2> QED
    BY <2>1, <2>2, Lengths3 DEF At
<1> QED
  BY <1>1, <1>2

\* What is left of it then is in order.
LEMMA HandsEmptied ==
  ASSUME IInv, hdr' = <<>>, got' = <<>>, UNCHANGED <<events, recs, wpc>>,
         \A i \in 1 .. Len(events) : events[i][1] > last'
  PROVE  StreamInv'
<1> DEFINE d == Len(hdr) + Len(got)
<1>1. /\ d \in 0 .. Size /\ Size' = Size - d /\ Len(events) = Size - d /\ Size \in Nat
      /\ \A i \in 1 .. Size - d : At(i)' = At(d + i) /\ At(d + i) = events[i]
  BY HandsOff
<1> QED
  BY <1>1, StreamCut

\* What comes behind a record delivered is newer.
LEMMA DeliverInv ==
  ASSUME IInv, Deliver
  PROVE  IInv'
<1>1. /\ RecordOf(hdr) \in Ids /\ RecordOf(hdr) > last /\ last' = RecordOf(hdr)
      /\ \A i \in 1 .. Len(events) : events[i][1] > RecordOf(hdr)
      /\ Len(hdr) = 3 /\ Len(got) = recs[RecordOf(hdr)].len
      /\ (1 \in 1 .. Size => At(1) = Byte(RecordOf(hdr), 1))
  <2>1. 1 <= 3 + recs[RecordOf(hdr)].len
    BY InHand DEF Deliver
  <2> QED
    BY <2>1, InHand, WholeInHand DEF Deliver
<1>2. UNCHANGED <<events, recs, wpc, wrec, avail, streamResets>> /\ hdr' = <<>> /\ got' = <<>>
      /\ rpc' = "loop"
  BY DEF Deliver, writer
<1>3. StreamInv'
  BY <1>1, <1>2, HandsEmptied
<1>4. TypeOK'
  <2>1. hdr' \in Seq(Bytes) /\ got' \in Seq(Bytes) /\ last' \in 0 .. Len(recs')
    BY <1>1, <1>2 DEF Ids
  <2>2. awakeCount' \in Nat
    BY DEF Deliver, IInv, TypeOK
  <2> QED
    BY <1>2, <2>1, <2>2 DEF Deliver, TypeOK, IInv, writer, Ids
<1>5. WriterInv'
  <2>1. wpc = "payload" => RecordOf(hdr) < Len(recs)
    <3> SUFFICES ASSUME wpc = "payload", RecordOf(hdr) = Len(recs) PROVE FALSE
      BY <1>1 DEF Ids, IInv, TypeOK
    <3>1. At(1) = Byte(Len(recs), 1) /\ 1 \in 1 .. Size
      BY <1>1, Lengths3
    <3>2. 1 + (Size - 1) = 3
      BY <3>1 DEF IInv, StreamInv, Byte
    <3>3. Len(got) > 0
      BY <1>1 DEF IInv, WriterInv
    <3> QED
      BY <1>1, <3>2, <3>3, Lengths3
  <2> QED
    BY <1>1, <1>2, <2>1 DEF WriterInv, IInv, Need
<1>6. ReaderInv'
  BY <1>2 DEF ReaderInv
<1> QED
  BY <1>3, <1>4, <1>5, <1>6 DEF IInv

\* What begins in some of the bytes are records.
LEMMA StartsAreIds == ASSUME NEW s PROVE Starts(s) \subseteq Ids
BY DEF Starts

\* What is left when the reader gives up a record is the buffer.
LEMMA SnapshotInv ==
  ASSUME IInv, Snapshot
  PROVE  IInv'
<1>1. /\ UNCHANGED <<events, recs, wpc, wrec, last, queueDrops, edgeDrops, awakeEdges>>
      /\ hdr' = <<>> /\ got' = <<>> /\ rpc' = "drain"
      /\ avail' = Len(events) /\ streamResets' = streamResets + 1
      /\ cutOwed' = cutOwed \cup Starts(hdr) /\ discarded' = discarded + (3 + Len(got))
  BY DEF Snapshot, writer, HeldBytes
<1>2. \A i \in 1 .. Len(events) : events[i][1] > last'
  <2> SUFFICES ASSUME NEW i \in 1 .. Len(events) PROVE events[i][1] > last
    BY <1>1
  <2>1. events[i] = At(Len(hdr) + Len(got) + i)
    BY Lengths3
  <2>2. Len(hdr) + Len(got) + i \in 1 .. Size
    <3>1. /\ Len(hdr) \in Nat /\ Len(got) \in Nat /\ Len(events) \in Nat
          /\ Size = Len(hdr) + Len(got) + Len(events)
      BY Lengths3
    <3> QED
      BY <3>1
  <2> QED
    BY <2>1, <2>2 DEF IInv, StreamInv
<1>3. StreamInv'
  BY <1>1, <1>2, HandsEmptied
<1>4. TypeOK'
  <2>1. hdr' \in Seq(Bytes) /\ got' \in Seq(Bytes)
    BY <1>1
  <2>2. cutOwed' \subseteq Ids'
    BY <1>1, StartsAreIds DEF IInv, TypeOK, Ids
  <2>3. avail' \in Nat /\ discarded' \in Nat /\ streamResets' \in Nat
    BY <1>1, Lengths3 DEF IInv, TypeOK
  <2> QED
    BY <1>1, <2>1, <2>2, <2>3 DEF Snapshot, TypeOK, IInv, Ids
<1>5. WriterInv'
  BY <1>1 DEF WriterInv, IInv, Need
<1>6. ReaderInv'
  BY <1>1, Lengths3 DEF ReaderInv, IInv, TypeOK
<1> QED
  BY <1>3, <1>4, <1>5, <1>6 DEF IInv

\* What was buffered at the snapshot goes.
LEMMA Drains ==
  ASSUME IInv, Drain
  PROVE  /\ hdr = <<>> /\ got = <<>> /\ Len(hdr) = 0 /\ Len(got) = 0
         /\ avail \in 0 .. Len(events) /\ events \in Seq(Bytes) /\ Len(events) \in Nat
         /\ Size = Len(events) /\ \A i \in 1 .. Size : At(i) = events[i]
         /\ events' \in Seq(Bytes) /\ Len(events') = Len(events) - avail
         /\ \A i \in 1 .. Len(events) - avail : events'[i] = events[avail + i]
         /\ UNCHANGED <<recs, wpc, wrec, last, hdr, got, queueDrops, edgeDrops, awakeEdges>>
         /\ rpc' = "tell"
         /\ Size' = Size - avail /\ Size \in Nat
         /\ \A i \in 1 .. Size - avail : At(i)' = At(avail + i) /\ At(avail + i)[1] > last'
<1>1. /\ hdr = <<>> /\ got = <<>> /\ Len(hdr) = 0 /\ Len(got) = 0
      /\ avail \in 0 .. Len(events) /\ events \in Seq(Bytes) /\ Len(events) \in Nat
      /\ Size = Len(events) /\ \A i \in 1 .. Size : At(i) = events[i]
  <2>1. hdr = <<>> /\ got = <<>> /\ Len(hdr) = 0 /\ Len(got) = 0 /\ avail <= Len(events)
    BY DEF Drain, IInv, ReaderInv
  <2>2. avail \in 0 .. Len(events)
    BY <2>1 DEF IInv, TypeOK
  <2> QED
    BY <2>1, <2>2, Lengths3 DEF IInv, TypeOK
<1>2. /\ events' \in Seq(Bytes) /\ Len(events') = Len(events) - avail
      /\ \A i \in 1 .. Len(events) - avail : events'[i] = events[avail + i]
  <2>1. events' = SubSeq(events, avail + 1, Len(events))
    BY DEF Drain, Drained
  <2> QED
    BY <1>1, <2>1, Behind
<1>3. /\ UNCHANGED <<recs, wpc, wrec, last, hdr, got, queueDrops, edgeDrops, awakeEdges>>
      /\ rpc' = "tell"
  BY DEF Drain, writer
<1>4. Size' = Size - avail /\ Size \in Nat
  BY <1>1, <1>2, <1>3 DEF Size
<1>5. \A i \in 1 .. Size - avail : At(i)' = At(avail + i) /\ At(avail + i)[1] > last'
  <2> SUFFICES ASSUME NEW i \in 1 .. Size - avail
               PROVE  At(i)' = At(avail + i) /\ At(avail + i)[1] > last'
    OBVIOUS
  <2>1. avail + i \in 1 .. Size /\ At(avail + i) = events[avail + i]
    BY <1>1
  <2>2. At(i)' = events'[i]
    BY <1>1, <1>3 DEF At
  <2>3. At(avail + i)[1] > last
    BY <2>1 DEF IInv, StreamInv
  <2> QED
    BY <1>1, <1>2, <1>3, <2>1, <2>2, <2>3
<1> QED
  BY <1>1, <1>2, <1>3, <1>4, <1>5

\* What is left after a drain came in since the snapshot.
LEMMA DrainInv ==
  ASSUME IInv, Drain
  PROVE  IInv'
<1>1. /\ hdr = <<>> /\ got = <<>> /\ Len(hdr) = 0 /\ Len(got) = 0
      /\ avail \in 0 .. Len(events) /\ events \in Seq(Bytes) /\ Len(events) \in Nat
      /\ Size = Len(events) /\ \A i \in 1 .. Size : At(i) = events[i]
  BY Drains
<1>2. /\ events' \in Seq(Bytes) /\ Len(events') = Len(events) - avail
      /\ \A i \in 1 .. Len(events) - avail : events'[i] = events[avail + i]
  BY Drains
<1>3. /\ UNCHANGED <<recs, wpc, wrec, last, hdr, got, queueDrops, edgeDrops, awakeEdges>>
      /\ rpc' = "tell"
  BY Drains
<1>4. StreamInv'
  BY <1>1, <1>3, Drains, StreamCut
<1>5. TypeOK'
  <2>1. cutOwed' \subseteq Ids'
    BY <1>3, StartsAreIds DEF Drain, IInv, TypeOK, Ids
  <2>2. avail' \in Nat /\ discarded' \in Nat
    BY <1>1 DEF Drain, IInv, TypeOK
  <2> QED
    BY <1>2, <1>3, <2>1, <2>2 DEF Drain, TypeOK, IInv, Ids
<1>6. WriterInv'
  <2>1. \A n \in Nat : EVENT_BUF - Len(events) >= n => EVENT_BUF - Len(events') >= n
    BY <1>1, <1>2, QueueAssumption
  <2>2. wrec \in Records => wrec.len \in Nat /\ Need(wrec) \in Nat
    BY RecordLen, QueueAssumption DEF Need
  <2> QED
    BY <1>3, <2>1, <2>2 DEF WriterInv, IInv, Need
<1>7. ReaderInv'
  BY <1>1, <1>3 DEF ReaderInv
<1> QED
  BY <1>4, <1>5, <1>6, <1>7 DEF IInv

\* Nothing happens.
LEMMA StutterInv ==
  ASSUME IInv, UNCHANGED vars
  PROVE  IInv'
<1> USE DEF vars, writer, reader
<1>1. TypeOK'
  BY DEF IInv, TypeOK, Ids
<1>2. StreamInv'
  BY StreamSame
<1>3. WriterInv' /\ ReaderInv'
  BY DEF IInv, WriterInv, ReaderInv, Need, RecordOf, HeaderOf, Ids, Byte
<1> QED
  BY <1>1, <1>2, <1>3 DEF IInv

\* Whatever the two tasks do and in whatever order, the bytes of the queue are in
\* order and the reader never takes a payload that is not its header's.
THEOREM QueueInductive == Spec => []IInv
<1>1. Init => IInv
  BY Initially
<1>2. IInv /\ [Next]_vars => IInv'
  BY RefuseInv, AcceptInv, SendHeaderInv, SendPayloadInv, CountEdgeInv, TurnsInv,
     ReadHeaderInv, ReadPayloadInv, DeliverInv, SnapshotInv, DrainInv, StutterInv
     DEF Next, Writer, Reader, Post
<1> QED
  BY <1>1, <1>2, PTL DEF Spec

-----------------------------------------------------------------------------
(* What is in the queue                                                     *)

\* The records that begin in the stream.
Begun == {id \in Ids : \E i \in 1 .. Size : At(i) = Byte(id, 1)}

\* What begins in the header held, told by positions of the stream.
LEMMA HdrStarts ==
  ASSUME IInv
  PROVE  Starts(hdr) = {id \in Ids : \E i \in 1 .. Len(hdr) : At(i) = Byte(id, 1)}
<1>1. DOMAIN hdr = 1 .. Len(hdr)
  BY DEF IInv, TypeOK
<1> QED
  BY <1>1, Lengths3 DEF Starts, Range

\* The queue is what begins in the stream: a payload held begins nothing.
LEMMA InQueueIsBegun ==
  ASSUME IInv
  PROVE  InQueue = Begun
<1>1. DOMAIN hdr = 1 .. Len(hdr) /\ DOMAIN events = 1 .. Len(events)
  BY DEF IInv, TypeOK
<1>2. InQueue \subseteq Begun
  <2> SUFFICES ASSUME NEW id \in InQueue PROVE id \in Begun
    OBVIOUS
  <2>1. CASE id \in Starts(hdr)
    <3>1. PICK i \in 1 .. Len(hdr) : hdr[i] = Byte(id, 1)
      BY <1>1, <2>1 DEF Starts, Range
    <3>2. i \in 1 .. Size /\ At(i) = hdr[i]
      BY Lengths3
    <3> QED
      BY <2>1, <3>1, <3>2 DEF Begun, Starts
  <2>2. CASE id \in Starts(events)
    <3>1. PICK i \in 1 .. Len(events) : events[i] = Byte(id, 1)
      BY <1>1, <2>2 DEF Starts, Range
    <3>2. At(Len(hdr) + Len(got) + i) = events[i]
      BY Lengths3
    <3>3. Len(hdr) + Len(got) + i \in 1 .. Size
      <4>1. /\ Len(hdr) \in Nat /\ Len(got) \in Nat /\ Len(events) \in Nat
            /\ Size = Len(hdr) + Len(got) + Len(events)
        BY Lengths3
      <4> QED
        BY <4>1
    <3> QED
      BY <2>2, <3>1, <3>2, <3>3 DEF Begun, Starts
  <2> QED
    BY <2>1, <2>2 DEF InQueue
<1>3. Begun \subseteq InQueue
  <2> SUFFICES ASSUME NEW id \in Ids, NEW i \in 1 .. Size, At(i) = Byte(id, 1)
               PROVE  id \in InQueue
    BY DEF Begun
  <2>1. /\ Len(hdr) \in Nat /\ Len(got) \in Nat /\ Len(events) \in Nat
        /\ Size = Len(hdr) + Len(got) + Len(events)
    BY Lengths3
  <2>2. CASE i \in 1 .. Len(hdr)
    BY <1>1, <2>1, <2>2 DEF InQueue, Starts, Range, At
  <2>3. CASE i - Len(hdr) \in 1 .. Len(got)
    <3>1. At(i) = got[i - Len(hdr)]
      BY <2>1, <2>3 DEF At
    <3>2. got[i - Len(hdr)][2] > 3
      BY <2>3 DEF IInv, ReaderInv
    <3> QED
      BY <3>1, <3>2 DEF Byte
  <2>4. CASE i - Len(hdr) - Len(got) \in 1 .. Len(events)
    <3>1. At(i) = events[i - Len(hdr) - Len(got)]
      BY <2>1, <2>4 DEF At
    <3> QED
      BY <1>1, <2>4, <3>1 DEF InQueue, Starts, Range
  <2> QED
    BY <2>1, <2>2, <2>3, <2>4
<1> QED
  BY <1>2, <1>3

\* The same bytes begin the same records.
LEMMA BegunSame ==
  ASSUME IInv, Size' = Size, \A i \in 1 .. Size : At(i)' = At(i),
         Ids \subseteq Ids'
  PROVE  Begun' = Begun
<1>1. \A i \in 1 .. Size : At(i)[1] \in Ids
  BY DEF IInv, StreamInv
<1>2. \A id : (\E i \in 1 .. Size : At(i) = Byte(id, 1)) => id \in Ids
  BY <1>1 DEF Byte
<1>3. Begun' = {id \in Ids' : \E i \in 1 .. Size : At(i) = Byte(id, 1)}
  BY DEF Begun, Byte
<1> QED
  BY <1>2, <1>3 DEF Begun

\* What begins in the first d bytes is what is no newer than the last of them.
LEMMA FrontIsOldest ==
  ASSUME IInv, NEW d \in 1 .. Size
  PROVE  /\ At(d)[1] \in Ids
         /\ {id \in Ids : \E i \in 1 .. d : At(i) = Byte(id, 1)} = {q \in Begun : q <= At(d)[1]}
         /\ {id \in Ids : \E i \in d + 1 .. Size : At(i) = Byte(id, 1)}
               = {q \in Begun : q > At(d)[1]}
<1>1. /\ Size \in Nat /\ \A i \in 1 .. Size : At(i) \in Bytes /\ At(i)[1] \in Ids
      /\ \A i \in 1 .. Size : At(i)[1] \in Nat /\ At(i)[2] \in Nat \ {0}
  BY Lengths3 DEF IInv, StreamInv, Bytes
<1>2. ASSUME NEW i \in 1 .. d PROVE At(i)[1] <= At(d)[1]
  <2>1. CASE i = d
    BY <1>1, <2>1
  <2>2. CASE i < d
    <3>1. IF d - i <= Left(At(i)) THEN At(d) = Byte(At(i)[1], At(i)[2] + (d - i))
                                  ELSE At(d)[1] > At(i)[1]
      BY <1>1, <2>2 DEF IInv, StreamInv
    <3>2. i \in 1 .. Size
      BY <1>1
    <3> QED
      BY <1>1, <3>1, <3>2 DEF Byte
  <2> QED
    BY <1>1, <2>1, <2>2
<1>3. ASSUME NEW i \in d + 1 .. Size, At(i)[2] = 1 PROVE At(i)[1] > At(d)[1]
  <2>1. IF i - d <= Left(At(d)) THEN At(i) = Byte(At(d)[1], At(d)[2] + (i - d))
                                ELSE At(i)[1] > At(d)[1]
    <3>1. d \in 1 .. Size /\ i \in 1 .. Size /\ d < i
      BY <1>1
    <3> QED
      BY <3>1 DEF IInv, StreamInv
  <2>2. At(i) # Byte(At(d)[1], At(d)[2] + (i - d))
    <3>1. At(d)[2] + (i - d) > 1
      BY <1>1
    <3> QED
      BY <1>3, <3>1 DEF Byte
  <2> QED
    BY <2>1, <2>2
<1>4. \A id, b : b = Byte(id, 1) => b[1] = id /\ b[2] = 1
  BY DEF Byte
<1>5. \A i \in 1 .. Size : i \in 1 .. d \/ i \in d + 1 .. Size
  BY <1>1
<1>6. \A i \in 1 .. d : i \in 1 .. Size
  BY <1>1
<1>7. \A i \in d + 1 .. Size : i \in 1 .. Size
  BY <1>1
<1>8. \A id \in Ids : id \in Nat
  BY DEF Ids, IInv, TypeOK
<1>9. ASSUME NEW id \in Ids, NEW i \in 1 .. d, At(i) = Byte(id, 1)
      PROVE  id \in Begun /\ id <= At(d)[1]
  BY <1>2, <1>4, <1>6, <1>9 DEF Begun
<1>10. ASSUME NEW id \in Ids, NEW i \in d + 1 .. Size, At(i) = Byte(id, 1)
       PROVE  id \in Begun /\ id > At(d)[1]
  BY <1>3, <1>4, <1>7, <1>10 DEF Begun
<1>11. ASSUME NEW q \in Begun
       PROVE  /\ q \in Ids
              /\ \/ \E i \in 1 .. d : At(i) = Byte(q, 1)
                 \/ \E i \in d + 1 .. Size : At(i) = Byte(q, 1)
  BY <1>5 DEF Begun
<1>12. d \in 1 .. Size /\ At(d)[1] \in Nat /\ At(d)[1] \in Ids
  BY <1>1
<1>13. \A q, m \in Nat : ~(q <= m /\ q > m)
  OBVIOUS
<1>14. {id \in Ids : \E i \in 1 .. d : At(i) = Byte(id, 1)} = {q \in Begun : q <= At(d)[1]}
  BY <1>8, <1>9, <1>10, <1>11, <1>12, <1>13
<1>15. {id \in Ids : \E i \in d + 1 .. Size : At(i) = Byte(id, 1)} = {q \in Begun : q > At(d)[1]}
  BY <1>8, <1>9, <1>10, <1>11, <1>12, <1>13
<1> QED
  BY <1>12, <1>14, <1>15

\* The first d bytes gone, the records that began in them are.
LEMMA BegunCut ==
  ASSUME IInv, NEW d \in 1 .. Size, Size' = Size - d,
         \A i \in 1 .. Size - d : At(i)' = At(d + i),
         Ids' = Ids
  PROVE  Begun' = {q \in Begun : q > At(d)[1]}
<1>1. Size \in Nat /\ Size' = Size - d
  BY Lengths3
<1>2. ASSUME NEW id \in Ids
      PROVE  (\E i \in 1 .. Size' : At(i)' = Byte(id, 1)')
                <=> (\E i \in d + 1 .. Size : At(i) = Byte(id, 1))
  <2>1. ASSUME NEW i \in 1 .. Size', At(i)' = Byte(id, 1)'
        PROVE  \E k \in d + 1 .. Size : At(k) = Byte(id, 1)
    <3>1. d + i \in d + 1 .. Size /\ At(i)' = At(d + i)
      BY <1>1
    <3> QED
      BY <2>1, <3>1 DEF Byte
  <2>2. ASSUME NEW k \in d + 1 .. Size, At(k) = Byte(id, 1)
        PROVE  \E i \in 1 .. Size' : At(i)' = Byte(id, 1)'
    <3> DEFINE i == k - d
    <3>1. i \in 1 .. Size - d /\ d + i = k
      BY <1>1
    <3> HIDE DEF i
    <3>2. At(i)' = At(d + i)
      BY <3>1
    <3> QED
      BY <1>1, <2>2, <3>1, <3>2 DEF Byte
  <2> QED
    BY <2>1, <2>2
<1>3. Begun' = {id \in Ids : \E i \in d + 1 .. Size : At(i) = Byte(id, 1)}
  BY <1>2 DEF Begun
<1> QED
  BY <1>3, FrontIsOldest

-----------------------------------------------------------------------------
(* The queue in the next state                                              *)

\* The same, here and in the next state.
QueueRight == InQueue = Begun

\* The queue is what begins in the stream, as a formula.
LEMMA QueueIsBegun == IInv => QueueRight
BY InQueueIsBegun DEF QueueRight

\* It holds of the next state as well.
LEMMA QueueIsBegunNext == IInv' => QueueRight'
<1>1. IInv => QueueRight
  BY QueueIsBegun
<1> QED
  BY <1>1, PTL

\* What nobody wrote and nobody read stays in the queue.
LEMMA SameBytes ==
  ASSUME IInv, UNCHANGED <<events, hdr, got>>, Ids \subseteq Ids'
  PROVE  Begun' = Begun
<1>1. Size' = Size /\ \A i \in 1 .. Size : At(i)' = At(i)
  BY DEF Size, At
<1> QED
  BY <1>1, BegunSame

\* A header puts its record into the queue.
LEMMA HeaderBegins ==
  ASSUME IInv, SendHeader
  PROVE  Begun' = Begun \cup {Len(recs) + 1}
<1> DEFINE new == Len(recs) + 1
<1>1. /\ new \in Nat /\ Len(recs) \in Nat /\ Ids = 1 .. Len(recs) /\ Ids' = 1 .. new
      /\ Size \in Nat /\ Size' = Size + 3
      /\ \A i \in 1 .. Size : At(i)' = At(i)
      /\ \A i \in 1 .. Size + 3 : i \notin 1 .. Size =>
            i - Size \in 1 .. 3 /\ At(i)' = Byte(new, i - Size)
  BY HeaderSent DEF Ids
<1> HIDE DEF new
<1>2. \A i \in 1 .. Size : At(i)[1] \in Ids
  BY DEF IInv, StreamInv
<1>3. Begun' = {id \in Ids' : \E i \in 1 .. Size' : At(i)' = Byte(id, 1)}
  BY DEF Begun, Byte
<1>4. ASSUME NEW id \in Begun PROVE id \in Begun'
  <2>1. PICK i \in 1 .. Size : At(i) = Byte(id, 1)
    BY <1>4 DEF Begun
  <2>2. i \in 1 .. Size' /\ At(i)' = Byte(id, 1)
    BY <1>1, <2>1
  <2>3. id \in Ids'
    <3>1. id \in Ids
      BY <1>4 DEF Begun
    <3> QED
      BY <1>1, <3>1 DEF new
  <2> QED
    BY <1>3, <2>2, <2>3
<1>5. new \in Begun'
  <2>1. Size + 1 \in 1 .. Size + 3 /\ Size + 1 \notin 1 .. Size /\ (Size + 1) - Size = 1
    BY <1>1
  <2> DEFINE i == Size + 1
  <2>2. i \in 1 .. Size + 3 /\ i \notin 1 .. Size /\ i - Size = 1
    BY <2>1
  <2>3. \A j \in 1 .. Size + 3 : j \notin 1 .. Size /\ j - Size = 1 => At(j)' = Byte(new, 1)
    BY <1>1
  <2>4. \E j \in 1 .. Size + 3 : At(j)' = Byte(new, 1)
    BY <2>2, <2>3
  <2>5. new \in Ids'
    BY <1>1 DEF new
  <2> QED
    BY <1>1, <1>3, <2>4, <2>5
<1>6. ASSUME NEW id \in Begun', id # new PROVE id \in Begun
  <2>1. PICK i \in 1 .. Size' : At(i)' = Byte(id, 1)
    BY <1>3, <1>6
  <2>2. i \in 1 .. Size
    <3> SUFFICES ASSUME i \notin 1 .. Size PROVE FALSE
      OBVIOUS
    <3>1. At(i)' = Byte(new, i - Size)
      BY <1>1
    <3> QED
      BY <1>6, <2>1, <3>1 DEF Byte
  <2>3. At(i) = Byte(id, 1)
    BY <1>1, <2>1, <2>2
  <2>4. id \in Ids
    BY <1>2, <2>2, <2>3 DEF Byte
  <2> QED
    BY <2>2, <2>3, <2>4 DEF Begun
<1> QED
  BY <1>4, <1>5, <1>6 DEF new

\* A payload begins nothing.
LEMMA PayloadBeginsNothing ==
  ASSUME IInv, SendPayload
  PROVE  Begun' = Begun
<1> DEFINE id == Len(recs)
           n == wrec.len
<1>1. /\ id \in Nat /\ n \in Nat /\ Size \in Nat /\ Size' = Size + n
      /\ \A i \in 1 .. Size : At(i)' = At(i)
      /\ \A i \in 1 .. Size + n : i \notin 1 .. Size =>
            i - Size \in 1 .. n /\ At(i)' = Byte(id, 3 + (i - Size))
  BY PayloadSent
<1>2. Ids' = Ids
  BY DEF SendPayload, Ids
<1> HIDE DEF id, n
<1>3. ASSUME NEW i \in 1 .. Size + n, i \notin 1 .. Size
      PROVE  At(i)'[2] # 1
  <2>1. i - Size \in 1 .. n /\ At(i)' = Byte(id, 3 + (i - Size))
    BY <1>1, <1>3
  <2>2. 3 + (i - Size) # 1
    BY <1>1, <2>1
  <2> QED
    BY <2>1, <2>2 DEF Byte
<1>4. Begun' = {q \in Ids : \E i \in 1 .. Size' : At(i)' = Byte(q, 1)}
  BY <1>2 DEF Begun, Byte
<1>5. \A q \in Ids : (\E i \in 1 .. Size' : At(i)' = Byte(q, 1))
                        <=> (\E i \in 1 .. Size : At(i) = Byte(q, 1))
  <2> SUFFICES ASSUME NEW q \in Ids
               PROVE  (\E i \in 1 .. Size' : At(i)' = Byte(q, 1))
                         <=> (\E i \in 1 .. Size : At(i) = Byte(q, 1))
    OBVIOUS
  <2>1. ASSUME NEW i \in 1 .. Size', At(i)' = Byte(q, 1)
        PROVE  i \in 1 .. Size /\ At(i) = Byte(q, 1)
    <3>1. At(i)'[2] = 1
      BY <2>1 DEF Byte
    <3>2. i \in 1 .. Size
      BY <1>1, <1>3, <3>1
    <3> QED
      BY <1>1, <2>1, <3>2
  <2>2. \A i \in 1 .. Size : i \in 1 .. Size' /\ At(i)' = At(i)
    BY <1>1
  <2> QED
    BY <2>1, <2>2
<1> QED
  BY <1>4, <1>5 DEF Begun

\* The record delivered was the oldest in the queue and newer than the last.
LEMMA OldestDelivered ==
  ASSUME IInv, Deliver
  PROVE  /\ RecordOf(hdr) \in Begun /\ RecordOf(hdr) > last
         /\ \A q \in Begun : RecordOf(hdr) <= q
         /\ Begun' = Begun \ {RecordOf(hdr)}
<1> DEFINE id == RecordOf(hdr)
           d == Len(hdr) + Len(got)
<1>1. /\ id \in Ids /\ id > last /\ recs[id].len \in Nat /\ Len(hdr) = 3
      /\ \A j \in 1 .. Size :
            IF j <= 3 + recs[id].len THEN At(j) = Byte(id, j) ELSE At(j)[1] > id
      /\ Len(got) = recs[id].len
  BY InHand, WholeInHand DEF Deliver
<1>2. /\ d \in 0 .. Size /\ Size' = Size - d /\ Size \in Nat
      /\ \A i \in 1 .. Size - d : At(i)' = At(d + i)
  BY HandsOff DEF Deliver
<1>3. d = 3 + recs[id].len
  BY <1>1
<1> HIDE DEF d, id
<1>4. d \in 1 .. Size /\ At(d) = Byte(id, d) /\ 1 \in 1 .. Size /\ At(1) = Byte(id, 1)
  <2>1. d \in 1 .. Size /\ 1 \in 1 .. Size /\ 1 <= d
    BY <1>1, <1>2, <1>3
  <2>2. At(d) = Byte(id, d)
    BY <1>1, <1>3, <2>1
  <2>3. At(1) = Byte(id, 1)
    BY <1>1, <1>3, <2>1
  <2> QED
    BY <2>1, <2>2, <2>3
<1>5. id \in Begun
  BY <1>1, <1>4 DEF Begun
<1>6. ASSUME NEW q \in Begun PROVE q \in Nat /\ id <= q
  <2>1. PICK i \in 1 .. Size : At(i) = Byte(q, 1)
    BY DEF Begun
  <2>2. At(i)[1] = q
    BY <2>1 DEF Byte
  <2>3. q \in Nat /\ id \in Nat
    BY <1>1 DEF Begun, Ids, IInv, TypeOK
  <2>4. At(i)[1] = id \/ At(i)[1] > id
    BY <1>1, <2>1 DEF Byte
  <2> QED
    BY <2>2, <2>3, <2>4
<1>7. Ids' = Ids
  BY DEF Deliver, writer, Ids
<1>8. Begun' = {q \in Begun : q > At(d)[1]}
  BY <1>2, <1>4, <1>7, BegunCut
<1>9. At(d)[1] = id /\ id \in Nat
  BY <1>1, <1>4 DEF Byte, Ids, IInv, TypeOK
<1>10. Begun' = Begun \ {id}
  BY <1>6, <1>8, <1>9
<1> QED
  BY <1>1, <1>5, <1>6, <1>10 DEF id

\* What the reader throws away of what it holds is the front of the queue.
LEMMA HandsCut ==
  ASSUME IInv, Snapshot
  PROVE  \E n \in Ids :
            /\ Begun' = {q \in Begun : q > n}
            /\ Starts(hdr) = {q \in Begun : q <= n}
<1> DEFINE d == Len(hdr) + Len(got)
<1>1. /\ d \in 0 .. Size /\ Size' = Size - d /\ Size \in Nat
      /\ \A i \in 1 .. Size - d : At(i)' = At(d + i)
  BY HandsOff DEF Snapshot
<1>2. /\ Len(hdr) = 3 /\ Len(got) \in Nat
      /\ \A i \in 1 .. Len(got) : At(3 + i) = got[i] /\ got[i][2] > 3
  BY Lengths3 DEF Snapshot, IInv, ReaderInv
<1>3. d \in 1 .. Size /\ d = 3 + Len(got)
  BY <1>1, <1>2
<1> HIDE DEF d
<1>4. Ids' = Ids
  BY DEF Snapshot, writer, Ids
<1>5. Begun' = {q \in Begun : q > At(d)[1]}
  BY <1>1, <1>3, <1>4, BegunCut
<1>6. /\ At(d)[1] \in Ids
      /\ {id \in Ids : \E i \in 1 .. d : At(i) = Byte(id, 1)} = {q \in Begun : q <= At(d)[1]}
  BY <1>3, FrontIsOldest
<1>7. \A i \in 1 .. d : \A id \in Ids : At(i) = Byte(id, 1) => i \in 1 .. 3
  <2> SUFFICES ASSUME NEW i \in 1 .. d, NEW id \in Ids, At(i) = Byte(id, 1), i \notin 1 .. 3
               PROVE  FALSE
    OBVIOUS
  <2>1. i - 3 \in 1 .. Len(got) /\ 3 + (i - 3) = i
    BY <1>2, <1>3
  <2>2. At(3 + (i - 3))[2] > 3
    BY <1>2, <2>1
  <2>3. At(i)[2] > 3
    BY <2>1, <2>2
  <2> QED
    BY <2>3 DEF Byte
<1>8. \A i \in 1 .. 3 : i \in 1 .. d
  BY <1>2, <1>3
<1>9. Starts(hdr) = {id \in Ids : \E i \in 1 .. d : At(i) = Byte(id, 1)}
  BY <1>2, <1>7, <1>8, HdrStarts
<1> QED
  BY <1>5, <1>6, <1>9

\* What it drains is the front of the queue, or nothing.
LEMMA BufferCut ==
  ASSUME IInv, Drain
  PROVE  \/ Begun' = Begun /\ Starts(SubSeq(events, 1, avail)) = {}
         \/ \E n \in Ids :
               /\ Begun' = {q \in Begun : q > n}
               /\ Starts(SubSeq(events, 1, avail)) = {q \in Begun : q <= n}
<1> DEFINE s == SubSeq(events, 1, avail)
<1>1. /\ avail \in 0 .. Len(events) /\ events \in Seq(Bytes) /\ Len(events) \in Nat
      /\ Size = Len(events) /\ Size' = Size - avail
      /\ \A i \in 1 .. Size : At(i) = events[i]
      /\ \A i \in 1 .. Size - avail : At(i)' = At(avail + i)
      /\ recs' = recs
  BY Drains
<1>2. s \in Seq(Bytes) /\ Len(s) = avail /\ \A i \in 1 .. avail : s[i] = events[i]
  BY <1>1, Behind
<1>3. DOMAIN s = 1 .. avail
  BY <1>2
<1> HIDE DEF s
<1>4. Starts(s) = {id \in Ids : \E i \in 1 .. avail : At(i) = Byte(id, 1)}
  <2>1. \A i \in 1 .. avail : s[i] = At(i)
    BY <1>1, <1>2
  <2> QED
    BY <1>3, <2>1 DEF Starts, Range
<1>5. Ids' = Ids
  BY <1>1 DEF Ids
<1>6. CASE avail = 0
  <2>1. Size' = Size /\ \A i \in 1 .. Size : At(i)' = At(i)
    <3>1. \A i \in 1 .. Size : 0 + i = i
      BY <1>1
    <3> QED
      BY <1>1, <1>6, <3>1
  <2>2. Starts(s) = {}
    BY <1>4, <1>6
  <2> QED
    BY <1>5, <2>1, <2>2, BegunSame DEF s
<1>7. CASE avail # 0
  <2>1. avail \in 1 .. Size
    BY <1>1, <1>7
  <2>2. Begun' = {q \in Begun : q > At(avail)[1]}
    BY <1>1, <1>5, <2>1, BegunCut
  <2>3. /\ At(avail)[1] \in Ids
        /\ Starts(s) = {q \in Begun : q <= At(avail)[1]}
    BY <1>4, <2>1, FrontIsOldest
  <2> QED
    BY <2>2, <2>3 DEF s
<1> QED
  BY <1>6, <1>7

-----------------------------------------------------------------------------
(* The queue is the lossy queue                                             *)

\* What the log is owed.
Owed == dropsOwed \cup cutOwed

\* A refusal refuses, and owes the log a line but no edge.
LEMMA RefuseIsRefuse ==
  ASSUME IInv, InQueue = Begun, InQueue' = Begun', NEW r \in Records, Refuse(r)
  PROVE  Lossy!Refuse
<1>1. Len(recs) \in Nat /\ Len(recs') = Len(recs) + 1
  BY DEF IInv, TypeOK, Refuse
<1>2. Begun' = Begun
  BY <1>1, SameBytes DEF Refuse, reader, Ids
<1>3. Owed' \in {Owed, Owed \cup {Len(recs) + 1}}
  BY <1>1 DEF Refuse, Owed
<1> QED
  BY <1>1, <1>2, <1>3 DEF Lossy!Refuse, Refuse, reader, Owed

\* A header sends its record, whether its payload has come or not.
LEMMA HeaderIsSend ==
  ASSUME IInv, InQueue = Begun, InQueue' = Begun', SendHeader
  PROVE  Lossy!Send
<1>1. Len(recs) \in Nat /\ Len(recs') = Len(recs) + 1
  BY HeaderSent
<1>2. Begun' = Begun \cup {Len(recs) + 1}
  BY HeaderBegins
<1> QED
  BY <1>1, <1>2 DEF Lossy!Send, SendHeader, reader

\* A delivery delivers the oldest.
LEMMA DeliverIsDeliver ==
  ASSUME IInv, InQueue = Begun, InQueue' = Begun', Deliver
  PROVE  Lossy!Deliver
<1>1. UNCHANGED <<recs, dropsOwed, cutOwed>> /\ last' = RecordOf(hdr)
  BY DEF Deliver, writer
<1> QED
  BY <1>1, OldestDelivered DEF Lossy!Deliver

\* Both steps of a reset cut the front of the queue off and owe it to the log.
LEMMA DiscardIsCut ==
  ASSUME IInv, InQueue = Begun, InQueue' = Begun', Snapshot \/ Drain
  PROVE  (\E n \in 1 .. Len(recs) + 1 : Lossy!Cut(n)) \/ UNCHANGED Lossy!vars
<1>1. UNCHANGED <<recs, last, dropsOwed>> /\ Len(recs) \in Nat
  BY DEF Snapshot, Drain, writer, IInv, TypeOK
<1>2. ASSUME NEW n \in Ids, NEW S, S = {q \in Begun : q <= n},
             Begun' = {q \in Begun : q > n}, cutOwed' = cutOwed \cup S
      PROVE  \E m \in 1 .. Len(recs) + 1 : Lossy!Cut(m)
  <2>1. n \in 1 .. Len(recs) + 1
    BY <1>1 DEF Ids
  <2>2. Lossy!Cut(n)
    BY <1>1, <1>2 DEF Lossy!Cut
  <2> QED
    BY <2>1, <2>2
<1>3. CASE Snapshot
  <2>1. cutOwed' = cutOwed \cup Starts(hdr)
    BY <1>3 DEF Snapshot
  <2> QED
    BY <1>2, <1>3, <2>1, HandsCut
<1>4. CASE Drain
  <2>1. cutOwed' = cutOwed \cup Starts(SubSeq(events, 1, avail))
    BY <1>4 DEF Drain
  <2>2. CASE Begun' = Begun /\ Starts(SubSeq(events, 1, avail)) = {}
    BY <1>1, <2>1, <2>2 DEF Lossy!vars
  <2> QED
    BY <1>2, <1>4, <2>1, <2>2, BufferCut
<1> QED
  BY <1>3, <1>4

\* A line in the log tells what is owed.
LEMMA TellIsTell ==
  ASSUME IInv, InQueue = Begun, InQueue' = Begun', TellDrops \/ TellCut
  PROVE  Lossy!Tell
<1>1. UNCHANGED <<events, hdr, got, recs, last>> /\ Owed' \in SUBSET Owed
  BY DEF TellDrops, TellCut, writer, Owed
<1>2. Begun' = Begun
  BY <1>1, SameBytes DEF Ids
<1> QED
  BY <1>1, <1>2 DEF Lossy!Tell, Owed

\* The other steps move bytes about, or none, and the queue stutters.
LEMMA OthersStutter ==
  ASSUME IInv, InQueue = Begun, InQueue' = Begun',
         \/ \E r \in Records : Accept(r)
         \/ SendPayload \/ CountEdge \/ BeginTick \/ ReadHeader \/ ReadPayload
         \/ PayloadTimeout \/ EndLoop \/ UNCHANGED vars
  PROVE  UNCHANGED Lossy!vars
<1>1. UNCHANGED <<recs, last, dropsOwed, cutOwed>>
  BY DEF Accept, SendPayload, CountEdge, BeginTick, ReadHeader, ReadPayload,
         PayloadTimeout, EndLoop, vars, writer, reader
<1>2. CASE SendPayload
  BY <1>2, PayloadBeginsNothing, <1>1 DEF Lossy!vars
<1>3. CASE ReadHeader
  <2>1. Size' = Size /\ \A i \in 1 .. Size : At(i)' = At(i)
    BY <1>3, HeaderTaken
  <2> QED
    BY <1>1, <2>1, BegunSame DEF Lossy!vars, Ids
<1>4. CASE ReadPayload
  <2> DEFINE want == recs[RecordOf(hdr)].len - Len(got)
             k == IF want < Len(events) THEN want ELSE Len(events)
  <2>1. Taken(want, k)
    BY DEF Taken
  <2> HIDE DEF want, k
  <2>2. Size' = Size /\ \A i \in 1 .. Size : At(i)' = At(i)
    BY <1>4, <2>1, PayloadTaken
  <2> QED
    BY <1>1, <2>2, BegunSame DEF Lossy!vars, Ids
<1>5. CASE UNCHANGED <<events, hdr, got>>
  BY <1>1, <1>5, SameBytes DEF Lossy!vars, Ids
<1> QED
  BY <1>2, <1>3, <1>4, <1>5 DEF Accept, CountEdge, BeginTick, PayloadTimeout, EndLoop,
     vars, writer, reader

\* The byte stream of mbb_uart.cpp implements the lossy queue: in order, nothing
\* twice, and nothing lost that is not owed to the log, for every buffer size and
\* every length of line.
THEOREM QueueIsLossy == Spec => IsLossyQueue
<1>1. Init => Lossy!Init
  BY DEF Init, Lossy!Init, InQueue, Starts, Ids
<1>2. IInv /\ IInv' /\ [Next]_vars => [Lossy!Next]_Lossy!vars
  <2> SUFFICES ASSUME IInv, IInv', [Next]_vars
               PROVE  Lossy!Next \/ UNCHANGED Lossy!vars
    OBVIOUS
  <2>1. InQueue = Begun /\ InQueue' = Begun'
    BY QueueIsBegun, QueueIsBegunNext DEF QueueRight
  <2>2. CASE \E r \in Records : Post(r)
    BY <2>1, <2>2, RefuseIsRefuse, OthersStutter DEF Post, Lossy!Next
  <2>3. CASE SendHeader
    BY <2>1, <2>3, HeaderIsSend DEF Lossy!Next
  <2>4. CASE Deliver
    BY <2>1, <2>4, DeliverIsDeliver DEF Lossy!Next
  <2>5. CASE Snapshot \/ Drain
    BY <2>1, <2>5, DiscardIsCut DEF Lossy!Next
  <2>6. CASE TellDrops \/ TellCut
    BY <2>1, <2>6, TellIsTell DEF Lossy!Next
  <2>7. CASE \/ SendPayload \/ CountEdge \/ BeginTick \/ ReadHeader \/ ReadPayload
             \/ PayloadTimeout \/ EndLoop \/ UNCHANGED vars
    BY <2>1, <2>7, OthersStutter
  <2> QED
    BY <2>2, <2>3, <2>4, <2>5, <2>6, <2>7 DEF Next, Writer, Reader
<1>3. Spec => []IInv
  BY QueueInductive
<1> QED
  BY <1>1, <1>2, <1>3, PTL DEF Spec, IsLossyQueue, Lossy!Spec

-----------------------------------------------------------------------------
(* What the invariant gives                                                 *)

\* Every counter, position and set of the queue keeps its type, for any buffer.
THEOREM TypeCorrect == Spec => []TypeOK
<1>1. IInv => TypeOK
  BY DEF IInv
<1> QED
  BY <1>1, QueueInductive, PTL

\* The loop task never hands on a record pieced together from two.
THEOREM DeliversWhole == Spec => []DeliveredWhole
<1>1. IInv => DeliveredWhole
  BY WholeInHand DEF DeliveredWhole
<1> QED
  BY <1>1, QueueInductive, PTL

-----------------------------------------------------------------------------
(* The edges                                                                *)

\* The awake edges among records.
Edges(Q) == {id \in Q : recs[id].kind = "awake"}

\* EdgesAccounted, with the queue as what begins in the stream.
EdgeInv ==
    streamResets = 0 =>
        awakeEdges + (IF wpc = "count" THEN 1 ELSE 0) = awakeCount + Cardinality(Edges(Begun))

\* They can be counted.
LEMMA EdgesFinite ==
  ASSUME IInv
  PROVE  IsFiniteSet(Edges(Begun)) /\ Cardinality(Edges(Begun)) \in Nat
<1>1. Len(recs) \in Nat /\ Edges(Begun) \subseteq 1 .. Len(recs)
  BY DEF IInv, TypeOK, Edges, Begun, Ids
<1>2. IsFiniteSet(1 .. Len(recs))
  BY <1>1, FS_Interval
<1> QED
  BY <1>1, <1>2, FS_Subset, FS_CardinalityType

\* The same records hold the same edges.
LEMMA EdgesSame ==
  ASSUME IInv, Begun' = Begun, \A id \in Ids : recs'[id] = recs[id]
  PROVE  Edges(Begun)' = Edges(Begun)
BY DEF Edges, Begun

\* A header adds an edge to the queue when its record is one, and then the edge
\* waits to be counted.
LEMMA EdgeSent ==
  ASSUME IInv, EdgeInv, SendHeader
  PROVE  EdgeInv'
<1> DEFINE new == Len(recs) + 1
<1>1. /\ Len(recs) \in Nat /\ new \in Nat /\ recs'[new] = wrec /\ wrec \in Records
      /\ \A i \in 1 .. Len(recs) : recs'[i] = recs[i]
  BY HeaderSent
<1>2. Begun' = Begun \cup {new}
  BY HeaderBegins
<1>3. new \notin Begun /\ Begun \subseteq Ids
  BY <1>1 DEF Begun, Ids
<1>4. /\ wpc = "header" /\ UNCHANGED <<streamResets, awakeEdges, awakeCount>>
      /\ (wpc' = "count" <=> wrec.kind = "awake")
  <2>1. wrec.kind = "awake" => wrec.len = 0
    BY <1>1 DEF Records
  <2> QED
    BY <2>1 DEF SendHeader, reader
<1> HIDE DEF new
<1>5. \A id \in Begun : recs'[id] = recs[id]
  BY <1>1, <1>3 DEF Ids
<1>6. Edges(Begun)' = IF wrec.kind = "awake" THEN Edges(Begun) \cup {new} ELSE Edges(Begun)
  <2>1. Edges(Begun)' = {id \in Begun \cup {new} : recs'[id].kind = "awake"}
    BY <1>2 DEF Edges
  <2> QED
    BY <1>1, <1>5, <2>1 DEF Edges
<1>7. new \notin Edges(Begun)
  BY <1>3 DEF Edges
<1>8. Cardinality(Edges(Begun) \cup {new}) = Cardinality(Edges(Begun)) + 1
  BY <1>7, EdgesFinite, FS_AddElement
<1>9. /\ awakeEdges \in Nat /\ awakeCount \in Nat /\ Cardinality(Edges(Begun)) \in Nat
  BY EdgesFinite DEF IInv, TypeOK
<1>10. Cardinality(Edges(Begun)') = Cardinality(Edges(Begun)) + (IF wrec.kind = "awake" THEN 1 ELSE 0)
  BY <1>6, <1>8, <1>9
<1> QED
  BY <1>4, <1>9, <1>10 DEF EdgeInv

\* A delivery takes it out and counts it on the other side.
LEMMA EdgeDelivered ==
  ASSUME IInv, EdgeInv, Deliver
  PROVE  EdgeInv'
<1> DEFINE id == RecordOf(hdr)
<1>1. id \in Begun /\ Begun' = Begun \ {id}
  BY OldestDelivered
<1>2. /\ awakeCount' = awakeCount + (IF recs[id].kind = "awake" THEN 1 ELSE 0)
      /\ UNCHANGED <<recs, wpc, streamResets, awakeEdges>>
  BY DEF Deliver, writer
<1> HIDE DEF id
<1>3. Edges(Begun)' = Edges(Begun) \ {id}
  BY <1>1, <1>2 DEF Edges
<1>4. id \in Edges(Begun) <=> recs[id].kind = "awake"
  BY <1>1 DEF Edges
<1>5. /\ awakeEdges \in Nat /\ awakeCount \in Nat /\ Cardinality(Edges(Begun)) \in Nat
      /\ IsFiniteSet(Edges(Begun))
  BY EdgesFinite DEF IInv, TypeOK
<1>6. Cardinality(Edges(Begun) \ {id})
        = IF id \in Edges(Begun) THEN Cardinality(Edges(Begun)) - 1 ELSE Cardinality(Edges(Begun))
  BY <1>5, FS_RemoveElement
<1>7. Cardinality(Edges(Begun)') = Cardinality(Edges(Begun)) - (IF recs[id].kind = "awake" THEN 1 ELSE 0)
  BY <1>3, <1>4, <1>5, <1>6
<1> QED
  BY <1>2, <1>5, <1>7 DEF EdgeInv

\* The steps that leave the queue and the counters as they are; a count moves an
\* edge from under way to posted.
LEMMA EdgeKept ==
  ASSUME IInv, EdgeInv,
         \/ \E r \in Records : Post(r)
         \/ SendPayload \/ CountEdge \/ BeginTick \/ ReadHeader \/ ReadPayload
         \/ PayloadTimeout \/ EndLoop \/ TellDrops \/ TellCut \/ UNCHANGED vars
  PROVE  EdgeInv'
<1>1. \A id \in Ids : recs'[id] = recs[id]
  <2>1. CASE \E r \in Records : Post(r)
    <3>1. PICK r \in Records : Post(r)
      BY <2>1
    <3>2. recs' = recs \/ recs' = Append(recs, r)
      BY <3>1 DEF Post, Refuse, Accept
    <3> QED
      BY <3>2 DEF IInv, TypeOK, Ids
  <2>2. CASE \/ SendPayload \/ CountEdge \/ BeginTick \/ ReadHeader \/ ReadPayload
             \/ PayloadTimeout \/ EndLoop \/ TellDrops \/ TellCut \/ UNCHANGED vars
    <3>1. recs' = recs
      BY <2>2 DEF SendPayload, CountEdge, BeginTick, ReadHeader, ReadPayload,
                  PayloadTimeout, EndLoop, TellDrops, TellCut, vars, writer
    <3> QED
      BY <3>1
  <2> QED
    BY <2>1, <2>2
<1>2. Begun' = Begun
  <2>1. CASE SendPayload
    BY <2>1, PayloadBeginsNothing
  <2>2. CASE ReadHeader
    BY <2>2, HeaderTaken, BegunSame DEF Ids
  <2>3. CASE ReadPayload
    <3> DEFINE want == recs[RecordOf(hdr)].len - Len(got)
               k == IF want < Len(events) THEN want ELSE Len(events)
    <3>1. Taken(want, k)
      BY DEF Taken
    <3> HIDE DEF want, k
    <3>2. Size' = Size /\ (\A i \in 1 .. Size : At(i)' = At(i)) /\ recs' = recs
      BY <2>3, <3>1, PayloadTaken
    <3> QED
      BY <3>2, BegunSame DEF Ids
  <2>4. CASE UNCHANGED <<events, hdr, got>> /\ Ids \subseteq Ids'
    BY <2>4, SameBytes
  <2>5. ASSUME NEW r \in Records, Refuse(r) PROVE UNCHANGED <<events, hdr, got>> /\ Ids \subseteq Ids'
    BY <2>5 DEF Refuse, reader, Ids, IInv, TypeOK
  <2> QED
    BY <2>1, <2>2, <2>3, <2>4, <2>5 DEF Post, Accept, CountEdge, BeginTick, PayloadTimeout,
       EndLoop, TellDrops, TellCut, vars, writer, reader, Ids
<1>3. Edges(Begun)' = Edges(Begun)
  BY <1>1, <1>2, EdgesSame
<1>4. UNCHANGED <<streamResets, awakeCount>>
  BY DEF Post, Refuse, Accept, SendPayload, CountEdge, BeginTick, ReadHeader, ReadPayload,
         PayloadTimeout, EndLoop, TellDrops, TellCut, vars, writer, reader
<1>5. awakeEdges \in Nat
  BY DEF IInv, TypeOK
<1>6. awakeEdges' + (IF wpc' = "count" THEN 1 ELSE 0) = awakeEdges + (IF wpc = "count" THEN 1 ELSE 0)
  BY <1>5 DEF Post, Refuse, Accept, SendPayload, CountEdge, BeginTick, ReadHeader, ReadPayload,
         PayloadTimeout, EndLoop, TellDrops, TellCut, vars, writer, reader
<1> QED
  BY <1>3, <1>4, <1>6 DEF EdgeInv

\* No edge is missing between the counts of the two tasks unless one is under way
\* or a reset discarded it.
THEOREM EdgesRight == Spec => []EdgesAccounted
<1>1. Init => EdgeInv
  <2> SUFFICES ASSUME Init PROVE Cardinality(Edges(Begun)) = 0
    BY DEF Init, EdgeInv
  <2>1. Edges(Begun) = {}
    BY DEF Init, Edges, Begun, Ids
  <2> QED
    BY <2>1, FS_EmptySet
<1>2. IInv /\ EdgeInv /\ [Next]_vars => EdgeInv'
  <2> SUFFICES ASSUME IInv, EdgeInv, [Next]_vars PROVE EdgeInv'
    OBVIOUS
  <2>1. CASE Snapshot
    BY <2>1 DEF Snapshot, EdgeInv, IInv, TypeOK
  <2>2. CASE Drain
    BY <2>2 DEF Drain, EdgeInv, IInv, ReaderInv
  <2> QED
    BY <2>1, <2>2, EdgeSent, EdgeDelivered, EdgeKept DEF Next, Writer, Reader
<1>3. IInv /\ EdgeInv => EdgesAccounted
  BY InQueueIsBegun DEF EdgeInv, EdgesAccounted, Edges
<1> QED
  BY <1>1, <1>2, <1>3, QueueInductive, PTL DEF Spec
=============================================================================
