---------------------------- MODULE SessionProofs ----------------------------
(***************************************************************************)
(* The session store, whatever the flash answers at any point of any        *)
(* handler, for every size of the buffer and of the files: the lines are    *)
(* accounted for, the parts of a session are numbered without gaps, and a   *)
(* file is of one wake.  The handlers are functions of the store's state,   *)
(* and so are the lemmas: one for each function, that says what it keeps of *)
(* the lines (Sound), and one that says it of names and wakes (Told).       *)
(***************************************************************************)
EXTENDS Session, FiniteSetTheorems, WellFoundedInduction, TLAPS

Stats ==
    [ok : BOOLEAN, streamOpen : BOOLEAN, named : BOOLEAN, endWanted : BOOLEAN,
     pendingHasMbb : BOOLEAN, pendingLines : 0 .. GZ_OUT, active : {NoFile} \cup Nat,
     activeBytes : Nat, seq : Nat, sessionId : Nat, sessionPart : Nat,
     hdrId : Nat, hdrPart : Nat, openFailed : BOOLEAN, droppedLines : Nat,
     wakes : SUBSET Nat, late : BOOLEAN]

FileRecords == [id : Int, part : Nat, wakes : SUBSET Nat, late : BOOLEAN]
Contents == UNION {[D -> FileRecords] : D \in SUBSET Nat}

Wholes ==
    [st : Stats, on : SUBSET Nat, fl : Contents, off : Nat, wr : Nat, torn : Nat, over : BOOLEAN]

\* A state of the store after n wakes: its file is on the flash, a stream that
\* is not there holds nothing, and a line waits under a wake that was.
Good(w, n) ==
    /\ w \in Wholes
    /\ w.on \subseteq DOMAIN w.fl
    /\ w.st.active # NoFile => w.st.active \in w.on
    /\ ~w.st.streamOpen => w.st.active = NoFile /\ w.st.pendingLines = 0
    /\ w.st.wakes \subseteq 1 .. n

\* All the lines are accounted for but k of them.
Sound(w, n, k) ==
    /\ Good(w, n)
    /\ w.off + w.torn = w.wr + w.st.pendingLines + w.st.droppedLines + k

\* What a write says of it: the lines that waited are in the file, or they still
\* wait; those it left in the file before a hole, do both.
Outcome(o, w, n) ==
    /\ Good(o.w, n) /\ o.w.st.streamOpen
    /\ o.w.st.pendingLines = w.st.pendingLines
    /\ o.w.st.droppedLines = w.st.droppedLines /\ o.w.off = w.off
    /\ o.result \in {"WROTE", "NOT_OPENED", "SHORT"}
    /\ o.w.wr + w.torn =
           w.wr + o.w.torn + (IF o.result = "WROTE" THEN w.st.pendingLines ELSE 0)

\* The inductive invariant.
IInv == session \in Nat \ {0} /\ Sound(Whole, session, 0)

-----------------------------------------------------------------------------
\* A name is found.
LEMMA NameFound ==
  ASSUME NEW w \in Wholes
  PROVE  FileNameNow(w) \in Nat
<1> DEFINE s0 == w.st.seq
           last == IF s0 >= SEQ_LIMIT - 1 THEN s0 ELSE SEQ_LIMIT - 1
           free == {n \in s0 .. last : n \notin w.on}
<1>1. s0 \in Nat /\ last \in Nat
  BY StoreAssumption DEF Wholes, Stats
<1>2. free \subseteq Nat
  BY <1>1
<1>3. free # {} => \E n \in free : \A m \in free : n <= m
  <2> SUFFICES ASSUME free # {}
               PROVE  \E n \in free : \A m \in free : n <= m
    OBVIOUS
  <2> HIDE DEF free
  <2>1. PICK n \in free : \A m \in free : ~(<<m, n>> \in OpToRel(<, Nat))
    BY <1>2, NatLessThanWellFounded, WFMin
  <2>2. ASSUME NEW m \in free PROVE n <= m
    <3>1. m \in Nat /\ n \in Nat
      BY <1>2
    <3>2. m < n => <<m, n>> \in OpToRel(<, Nat)
      BY <3>1 DEF OpToRel
    <3>3. ~(m < n)
      BY <2>1, <3>2
    <3> QED
      BY <3>1, <3>3
  <2> QED
    BY <2>2
<1>4. FileNameNow(w) = IF free = {} THEN last ELSE CHOOSE n \in free : \A m \in free : n <= m
  BY DEF FileNameNow
<1> HIDE DEF free, last
<1> QED
  BY <1>1, <1>2, <1>3, <1>4

\* A stream is started, or was there.
LEMMA StreamStartSound ==
  ASSUME NEW w, NEW n \in Nat, NEW k \in Nat, Sound(w, n, k)
  PROVE  Sound(StreamStart(w), n, k) /\ StreamStart(w).st.streamOpen
<1> DEFINE x == StreamStart(w)
           st == [w.st EXCEPT
            !.streamOpen = TRUE, !.named = FALSE, !.endWanted = FALSE,
            !.pendingLines = 0, !.pendingHasMbb = FALSE, !.wakes = {}, !.late = FALSE]
<1>1. CASE w.st.streamOpen
  BY <1>1 DEF StreamStart
<1>2. CASE ~w.st.streamOpen
  <2>1. x = [w EXCEPT !.st = st]
    BY <1>2 DEF StreamStart
  <2> HIDE DEF x
  <2>2. w \in Wholes /\ w.st \in Stats /\ w.st.pendingLines = 0 /\ 0 \in 0 .. GZ_OUT
    BY <1>2, StoreAssumption DEF Sound, Good, Wholes
  <2>3. st \in Stats
    BY <2>2, ZenonT(40) DEF Stats
  <2>4. x \in Wholes /\ x.on = w.on /\ x.fl = w.fl /\ x.off = w.off /\ x.wr = w.wr /\ x.torn = w.torn
    <3> HIDE DEF st
    <3> QED
      BY <2>1, <2>2, <2>3 DEF Wholes
  <2>5. /\ st.streamOpen /\ st.pendingLines = 0 /\ st.wakes = {}
        /\ st.active = w.st.active /\ st.droppedLines = w.st.droppedLines
    BY <2>2 DEF Stats
  <2>6. x.st = st
    BY <2>1, <2>2 DEF Wholes
  <2> HIDE DEF st
  <2> QED
    BY <2>2, <2>4, <2>5, <2>6 DEF x, Sound, Good
<1> QED
  BY <1>1, <1>2

\* A session is named: its header joins the buffer or is counted as dropped.
LEMMA SessionNameSound ==
  ASSUME NEW w, NEW n \in Nat, NEW k \in Nat, Sound(w, n, k), w.st.streamOpen
  PROVE  Sound(SessionName(w), n, k) /\ SessionName(w).st.streamOpen
<1> DEFINE x == SessionName(w)
           s == w.st.seq + 1
           first == w.st.sessionPart = 0
           id == IF first THEN s ELSE w.st.sessionId
           part == IF first THEN 1 ELSE w.st.sessionPart + 1
           room == Fits(w, 1)
           pending == w.st.pendingLines + (IF room THEN 1 ELSE 0)
           dropped == w.st.droppedLines + (IF room THEN 0 ELSE 1)
           st == [w.st EXCEPT
                    !.seq = s, !.sessionId = id, !.sessionPart = part,
                    !.hdrId = id, !.hdrPart = part, !.named = TRUE, !.activeBytes = 0,
                    !.pendingLines = pending, !.droppedLines = dropped]
<1>1. CASE w.st.named
  BY <1>1 DEF SessionName
<1>2. CASE ~w.st.named
  <2>1. x = [w EXCEPT !.off = w.off + 1, !.st = st]
    BY <1>2 DEF SessionName
  <2> HIDE DEF x
  <2>2. /\ w \in Wholes /\ w.st \in Stats /\ 0 \in Nat
        /\ w.st.pendingLines \in 0 .. GZ_OUT /\ w.st.droppedLines \in Nat
        /\ w.off \in Nat /\ w.wr \in Nat /\ w.torn \in Nat
    BY DEF Sound, Good, Wholes, Stats
  <2>3. s \in Nat /\ id \in Nat /\ part \in Nat
    BY <2>2 DEF Stats
  <2>4. pending \in 0 .. GZ_OUT /\ dropped \in Nat
        /\ pending + dropped = w.st.pendingLines + w.st.droppedLines + 1
    BY <2>2, StoreAssumption DEF Fits
  <2> HIDE DEF s, id, part, room, pending, dropped
  <2>5. st \in Stats
    BY <2>2, <2>3, <2>4, Zenon DEF Stats
  <2>6. /\ st.streamOpen = w.st.streamOpen /\ st.wakes = w.st.wakes /\ st.active = w.st.active
        /\ st.pendingLines = pending /\ st.droppedLines = dropped
    BY <2>2 DEF Stats
  <2> HIDE DEF st
  <2>7. /\ x \in Wholes /\ x.on = w.on /\ x.fl = w.fl /\ x.off = w.off + 1 /\ x.wr = w.wr /\ x.torn = w.torn
        /\ x.st = st
    <3>1. w.off + 1 \in Nat
      BY <2>2
    <3> QED
      BY <2>1, <2>2, <2>5, <3>1, Zenon DEF Wholes
  <2>8. x.off + x.torn = x.wr + x.st.pendingLines + x.st.droppedLines + k
    <3>1. w.off + w.torn = w.wr + w.st.pendingLines + w.st.droppedLines + k
      BY DEF Sound
    <3> QED
      BY <2>2, <2>4, <2>6, <2>7, <3>1
  <2>9. Good(x, n) /\ x.st.streamOpen
    BY <2>6, <2>7 DEF Sound, Good
  <2> QED
    BY <2>8, <2>9 DEF x, Sound
<1> QED
  BY <1>1, <1>2

\* The search for a name moves the sequence number, and nothing else.
LEMMA SeqMovedGood ==
  ASSUME NEW w, NEW n \in Nat, Good(w, n)
  PROVE  /\ Good(SeqMoved(w), n)
         /\ SeqMoved(w).st.streamOpen = w.st.streamOpen
         /\ SeqMoved(w).st.pendingLines = w.st.pendingLines
         /\ SeqMoved(w).st.droppedLines = w.st.droppedLines
         /\ SeqMoved(w).on = w.on /\ SeqMoved(w).fl = w.fl
         /\ SeqMoved(w).off = w.off /\ SeqMoved(w).wr = w.wr /\ SeqMoved(w).torn = w.torn
<1> DEFINE x == SeqMoved(w)
           name == FileNameNow(w)
           seq == IF name \in w.on THEN name + 1 ELSE name
           st == [w.st EXCEPT !.seq = seq]
<1>1. w \in Wholes /\ w.st \in Stats /\ w.on \subseteq DOMAIN w.fl
  BY DEF Good, Wholes
<1>2. name \in Nat
  BY <1>1, NameFound
<1>3. x = [w EXCEPT !.st = st]
  BY DEF SeqMoved
<1> HIDE DEF name, x
<1>4. seq \in Nat
  BY <1>2
<1> HIDE DEF seq
<1>5. st \in Stats
  BY <1>1, <1>4, Zenon DEF Stats
<1>6. /\ st.active = w.st.active /\ st.streamOpen = w.st.streamOpen
      /\ st.pendingLines = w.st.pendingLines /\ st.wakes = w.st.wakes
      /\ st.droppedLines = w.st.droppedLines
  BY <1>1 DEF Stats
<1> HIDE DEF st
<1>7. /\ x \in Wholes /\ x.on = w.on /\ x.fl = w.fl /\ x.st = st
      /\ x.off = w.off /\ x.wr = w.wr /\ x.torn = w.torn
  BY <1>1, <1>3, <1>5, Zenon DEF Wholes
<1> QED
  BY <1>6, <1>7 DEF x, Good

\* A file is created: the state is good, and no line of it is counted yet.
LEMMA CreateGood ==
  ASSUME NEW w, NEW n \in Nat, Good(w, n), w.st.streamOpen
  PROVE  /\ Good(Create(w), n)
         /\ Create(w).st.streamOpen
         /\ Create(w).st.pendingLines = w.st.pendingLines
         /\ Create(w).st.droppedLines = w.st.droppedLines
         /\ Create(w).off = w.off /\ Create(w).wr = w.wr /\ Create(w).torn = w.torn
<1> DEFINE x == Create(w)
           v == SeqMoved(w)
           name == FileNameNow(w)
           new == NewFile(w.st)
           fl == [m \in DOMAIN v.fl \cup {name} |-> IF m = name THEN new ELSE v.fl[m]]
           st == [v.st EXCEPT !.active = name]
           over == v.over \/ name \in w.on
<1>1. /\ w \in Wholes /\ w.st \in Stats /\ w.on \subseteq DOMAIN w.fl
      /\ v \in Wholes /\ v.st \in Stats /\ v.on = w.on /\ v.fl = w.fl /\ Good(v, n)
      /\ v.st.streamOpen /\ v.st.pendingLines = w.st.pendingLines
      /\ v.st.droppedLines = w.st.droppedLines
      /\ v.off = w.off /\ v.wr = w.wr /\ v.torn = w.torn
  BY SeqMovedGood DEF Good, Wholes
<1>2. name \in Nat
  BY <1>1, NameFound
<1>3. new \in FileRecords
  BY <1>1 DEF NewFile, FileRecords, Stats
<1>4. PICK D \in SUBSET Nat : v.fl \in [D -> FileRecords]
  BY <1>1 DEF Wholes, Contents
<1>5. x = [v EXCEPT !.over = over, !.on = v.on \cup {name}, !.fl = fl, !.st = st]
  BY DEF Create
<1> HIDE DEF name, new, x, v
<1>6. fl \in [D \cup {name} -> FileRecords] /\ DOMAIN fl = D \cup {name} /\ DOMAIN v.fl = D
  BY <1>3, <1>4
<1>7. fl \in Contents
  BY <1>2, <1>6 DEF Contents
<1>8. name \in {NoFile} \cup Nat /\ over \in BOOLEAN
  BY <1>2
<1> HIDE DEF fl, over
<1>9. st \in Stats
  BY <1>1, <1>8, Zenon DEF Stats
<1>10. /\ st.active = name /\ st.streamOpen = v.st.streamOpen
       /\ st.pendingLines = v.st.pendingLines /\ st.wakes = v.st.wakes
       /\ st.droppedLines = v.st.droppedLines
  BY <1>1 DEF Stats
<1> HIDE DEF st
<1>11. /\ x.on = v.on \cup {name} /\ x.fl = fl /\ x.st = st
       /\ x.off = v.off /\ x.wr = v.wr /\ x.torn = v.torn
  BY <1>1, <1>5 DEF Wholes
<1>12. v.on \cup {name} \in SUBSET Nat
  BY <1>1, <1>2 DEF Wholes
<1>13. x \in Wholes
  BY <1>1, <1>5, <1>7, <1>8, <1>9, <1>12, Zenon DEF Wholes
<1>14. Good(x, n)
  BY <1>1, <1>6, <1>10, <1>11, <1>13 DEF Good
<1> QED
  BY <1>1, <1>10, <1>11, <1>14 DEF x

\* A file that could not be created changes no line.
LEMMA NotCreatedGood ==
  ASSUME NEW w, NEW n \in Nat, Good(w, n)
  PROVE  /\ Good(NotCreated(w), n)
         /\ NotCreated(w).st.streamOpen = w.st.streamOpen
         /\ NotCreated(w).st.pendingLines = w.st.pendingLines
         /\ NotCreated(w).st.droppedLines = w.st.droppedLines
         /\ NotCreated(w).off = w.off /\ NotCreated(w).wr = w.wr
         /\ NotCreated(w).torn = w.torn
<1> DEFINE x == NotCreated(w)
           v == IF w.st.ok THEN SeqMoved(w) ELSE w
           st == [v.st EXCEPT !.openFailed = TRUE]
<1>1. /\ Good(v, n) /\ v.st.streamOpen = w.st.streamOpen
      /\ v.st.pendingLines = w.st.pendingLines /\ v.st.droppedLines = w.st.droppedLines
      /\ v.off = w.off /\ v.wr = w.wr /\ v.torn = w.torn
  BY SeqMovedGood
<1>2. v \in Wholes /\ v.st \in Stats
  BY <1>1 DEF Good, Wholes
<1>3. x = [v EXCEPT !.st = st]
  BY DEF NotCreated
<1> HIDE DEF v, x
<1>4. st \in Stats
  BY <1>2, Zenon DEF Stats
<1>5. /\ st.active = v.st.active /\ st.streamOpen = v.st.streamOpen
      /\ st.pendingLines = v.st.pendingLines /\ st.wakes = v.st.wakes
      /\ st.droppedLines = v.st.droppedLines
  BY <1>2 DEF Stats
<1> HIDE DEF st
<1>6. /\ x \in Wholes /\ x.on = v.on /\ x.fl = v.fl /\ x.st = st
      /\ x.off = v.off /\ x.wr = v.wr /\ x.torn = v.torn
  BY <1>2, <1>3, <1>4, Zenon DEF Wholes
<1> QED
  BY <1>1, <1>5, <1>6 DEF x, Good

\* What waits reaches the file: it is written, and still in the buffer.
LEMMA TakenGood ==
  ASSUME NEW w, NEW n \in Nat, Good(w, n), NEW k \in Nat
  PROVE  /\ Good(Taken(w, k), n)
         /\ Taken(w, k).st.streamOpen = w.st.streamOpen
         /\ Taken(w, k).st.pendingLines = w.st.pendingLines
         /\ Taken(w, k).st.droppedLines = w.st.droppedLines
         /\ Taken(w, k).off = w.off /\ Taken(w, k).wr = w.wr + k /\ Taken(w, k).torn = w.torn
<1> DEFINE x == Taken(w, k)
           a == w.st.active
           rec == [w.fl[a] EXCEPT
                     !.wakes = w.fl[a].wakes \cup w.st.wakes,
                     !.late = w.fl[a].late \/ w.st.late]
           fl == [w.fl EXCEPT ![a] = rec]
           bytes == w.st.activeBytes + k
           st == [w.st EXCEPT !.activeBytes = bytes]
           wr == w.wr + k
<1>1. /\ w \in Wholes /\ w.st \in Stats /\ w.on \subseteq DOMAIN w.fl
      /\ w.wr \in Nat /\ wr \in Nat /\ bytes \in Nat
  BY DEF Good, Wholes, Stats
<1>2. x = [w EXCEPT !.wr = wr, !.fl = fl, !.st = st]
  BY DEF Taken
<1> HIDE DEF x
<1>3. PICK D \in SUBSET Nat : w.fl \in [D -> FileRecords]
  BY <1>1 DEF Wholes, Contents
<1>4. DOMAIN fl = DOMAIN w.fl
  OBVIOUS
<1>5. fl \in [D -> FileRecords]
  <2>1. ASSUME a \in D PROVE rec \in FileRecords
    <3>1. /\ w.fl[a] \in FileRecords /\ w.st.wakes \in SUBSET Nat /\ w.st.late \in BOOLEAN
          /\ w.fl[a].wakes \in SUBSET Nat
      BY <1>1, <1>3, <2>1 DEF Stats, FileRecords
    <3>2. /\ w.fl[a].wakes \cup w.st.wakes \in SUBSET Nat
          /\ (w.fl[a].late \/ w.st.late) \in BOOLEAN
      BY <1>1, <3>1
    <3> QED
      BY <3>1, <3>2, Zenon DEF FileRecords
  <2> HIDE DEF rec
  <2> QED
    BY <1>3, <2>1
<1>6. fl \in Contents
  BY <1>1, <1>5 DEF Contents
<1> HIDE DEF fl, bytes
<1>7. st \in Stats
  BY <1>1, Zenon DEF Stats
<1>8. /\ st.active = w.st.active /\ st.streamOpen = w.st.streamOpen
      /\ st.pendingLines = w.st.pendingLines /\ st.wakes = w.st.wakes
      /\ st.droppedLines = w.st.droppedLines
  BY <1>1 DEF Stats
<1> HIDE DEF st, wr
<1>9. /\ x \in Wholes /\ x.on = w.on /\ x.fl = fl /\ x.st = st
      /\ x.off = w.off /\ x.wr = wr /\ x.torn = w.torn
  BY <1>1, <1>2, <1>6, <1>7, Zenon DEF Wholes
<1>10. Good(x, n)
  BY <1>4, <1>8, <1>9 DEF Good
<1> QED
  BY <1>8, <1>9, <1>10 DEF x, wr

\* Lines that are torn are told, and nothing else.
LEMMA TornGood ==
  ASSUME NEW w, NEW n \in Nat, Good(w, n), NEW k \in Nat
  PROVE  LET x == [w EXCEPT !.torn = @ + k]
         IN  /\ Good(x, n) /\ x.st = w.st /\ x.fl = w.fl /\ x.over = w.over
             /\ x.off = w.off /\ x.wr = w.wr /\ x.torn = w.torn + k
<1> DEFINE torns == w.torn + k
           x == [w EXCEPT !.torn = torns]
<1>1. w \in Wholes /\ torns \in Nat
  BY DEF Good, Wholes
<1> HIDE DEF torns
<1>2. /\ x \in Wholes /\ x.on = w.on /\ x.fl = w.fl /\ x.st = w.st /\ x.over = w.over
      /\ x.off = w.off /\ x.wr = w.wr /\ x.torn = torns
  BY <1>1, Zenon DEF Wholes
<1> HIDE DEF x
<1>3. Good(x, n)
  BY <1>2 DEF Good
<1> QED
  BY <1>2, <1>3 DEF x, torns

\* A write is taken whole, or leaves some of what waits.
LEMMA WrittenCases ==
  ASSUME NEW w, NEW n \in Nat, Good(w, n), NEW e \in Answers
  PROVE  \/ Written(w, e) = [w |-> Taken(w, w.st.pendingLines), result |-> "WROTE"]
         \/ \E k \in Nat : Written(w, e) =
                [w |-> [Taken(w, k) EXCEPT !.torn = @ + k], result |-> "SHORT"]
<1> DEFINE k == IF e.kept <= w.st.pendingLines THEN e.kept ELSE w.st.pendingLines
<1>1. k \in Nat
  <2>1. e.kept \in Nat
    BY StoreAssumption DEF Answers
  <2>2. w.st.pendingLines \in Nat
    BY StoreAssumption DEF Good, Wholes, Stats
  <2> QED
    BY <2>1, <2>2
<1>2. \/ Written(w, e) = [w |-> Taken(w, w.st.pendingLines), result |-> "WROTE"]
      \/ Written(w, e) = [w |-> [Taken(w, k) EXCEPT !.torn = @ + k], result |-> "SHORT"]
  BY DEF Written
<1> HIDE DEF k
<1> QED
  BY <1>1, <1>2

LEMMA WrittenGood ==
  ASSUME NEW w, NEW n \in Nat, Good(w, n), w.st.streamOpen, NEW e \in Answers
  PROVE  Outcome(Written(w, e), w, n)
<1> DEFINE o == Written(w, e)
<1> SUFFICES Outcome(o, w, n)
  OBVIOUS
<1>1. w.st.pendingLines \in Nat /\ w.wr \in Nat /\ w.torn \in Nat
  BY StoreAssumption DEF Good, Wholes, Stats
<1>2. \/ o = [w |-> Taken(w, w.st.pendingLines), result |-> "WROTE"]
      \/ \E k \in Nat : o = [w |-> [Taken(w, k) EXCEPT !.torn = @ + k], result |-> "SHORT"]
  BY WrittenCases
<1> HIDE DEF o
<1>3. CASE o = [w |-> Taken(w, w.st.pendingLines), result |-> "WROTE"]
  <2> DEFINE t == Taken(w, w.st.pendingLines)
  <2>1. /\ Good(t, n) /\ t.st.streamOpen /\ t.st.pendingLines = w.st.pendingLines
        /\ t.st.droppedLines = w.st.droppedLines /\ t.off = w.off
        /\ t.wr = w.wr + w.st.pendingLines /\ t.torn = w.torn
    BY <1>1, TakenGood
  <2>2. o.w = t /\ o.result = "WROTE"
    BY <1>3
  <2> HIDE DEF t
  <2> QED
    BY <1>1, <2>1, <2>2 DEF Outcome
<1>4. ASSUME NEW k \in Nat, o = [w |-> [Taken(w, k) EXCEPT !.torn = @ + k], result |-> "SHORT"]
      PROVE  Outcome(o, w, n)
  <2> DEFINE t == Taken(w, k)
  <2>1. /\ Good(t, n) /\ t.st.streamOpen /\ t.st.pendingLines = w.st.pendingLines
        /\ t.st.droppedLines = w.st.droppedLines /\ t.off = w.off
        /\ t.wr = w.wr + k /\ t.torn = w.torn
    BY TakenGood
  <2>2. o.w = [t EXCEPT !.torn = @ + k] /\ o.result = "SHORT"
    BY <1>4
  <2> HIDE DEF t
  <2>3. Good(o.w, n) /\ o.w.st = t.st /\ o.w.off = t.off /\ o.w.wr = t.wr /\ o.w.torn = t.torn + k
    BY <2>1, <2>2, TornGood
  <2> QED
    BY <1>1, <2>1, <2>2, <2>3 DEF Outcome
<1> QED
  BY <1>2, <1>3, <1>4

\* A write says so.
LEMMA WriteOutGood ==
  ASSUME NEW w, NEW n \in Nat, NEW k \in Nat, Sound(w, n, k), w.st.streamOpen,
         NEW retryNow \in BOOLEAN, NEW e \in Answers
  PROVE  Outcome(WriteOut(w, retryNow, e), w, n)
<1> DEFINE o == WriteOut(w, retryNow, e)
<1>1. Good(w, n) /\ w.wr \in Nat /\ w.torn \in Nat
  BY DEF Sound, Good, Wholes
<1>2. \/ o \in {[w |-> w, result |-> "NOT_OPENED"], [w |-> NotCreated(w), result |-> "NOT_OPENED"]}
      \/ o \in {Written(w, e), Written(Create(w), e)}
  BY DEF WriteOut
<1> SUFFICES Outcome(o, w, n)
  OBVIOUS
<1> HIDE DEF o
<1>3. CASE o = [w |-> w, result |-> "NOT_OPENED"]
  BY <1>1, <1>3 DEF Outcome
<1>4. CASE o = [w |-> NotCreated(w), result |-> "NOT_OPENED"]
  <2>1. /\ Good(o.w, n) /\ o.w.st.streamOpen /\ o.w.st.pendingLines = w.st.pendingLines
        /\ o.w.st.droppedLines = w.st.droppedLines
        /\ o.w.off = w.off /\ o.w.wr = w.wr /\ o.w.torn = w.torn /\ o.result = "NOT_OPENED"
    BY <1>1, <1>4, NotCreatedGood
  <2> QED
    BY <1>1, <2>1 DEF Outcome
<1>5. CASE o = Written(w, e)
  BY <1>1, <1>5, WrittenGood
<1>6. CASE o = Written(Create(w), e)
  <2> DEFINE c == Create(w)
  <2>1. /\ Good(c, n) /\ c.st.streamOpen /\ c.st.pendingLines = w.st.pendingLines
        /\ c.st.droppedLines = w.st.droppedLines
        /\ c.off = w.off /\ c.wr = w.wr /\ c.torn = w.torn
    BY <1>1, CreateGood
  <2>2. o = Written(c, e)
    BY <1>6
  <2> HIDE DEF c
  <2>3. Outcome(o, c, n)
    BY <2>1, <2>2, WrittenGood
  <2> QED
    BY <2>1, <2>3 DEF Outcome
<1> QED
  BY <1>2, <1>3, <1>4, <1>5, <1>6

\* So the books are right after it, but for what is to be emptied or dropped.
LEMMA OutcomeBooks ==
  ASSUME NEW w, NEW o, NEW n \in Nat, NEW k \in Nat, Sound(w, n, k), Outcome(o, w, n)
  PROVE  /\ o.result = "WROTE" => o.w.off + o.w.torn = o.w.wr + o.w.st.droppedLines + k
         /\ o.result # "WROTE" => Sound(o.w, n, k)
<1>1. /\ w.off + w.torn = w.wr + w.st.pendingLines + w.st.droppedLines + k
      /\ w.wr \in Nat /\ w.torn \in Nat /\ w.off \in Nat
      /\ w.st.pendingLines \in Nat /\ w.st.droppedLines \in Nat
  BY StoreAssumption DEF Sound, Good, Wholes, Stats
<1>2. /\ Good(o.w, n) /\ o.w.off = w.off
      /\ o.w.st.pendingLines = w.st.pendingLines /\ o.w.st.droppedLines = w.st.droppedLines
      /\ o.w.wr + w.torn =
             w.wr + o.w.torn + (IF o.result = "WROTE" THEN w.st.pendingLines ELSE 0)
  BY DEF Outcome
<1>3. o.w.wr \in Nat /\ o.w.torn \in Nat
  BY <1>2 DEF Good, Wholes
<1>4. o.result = "WROTE" => o.w.off + o.w.torn = o.w.wr + o.w.st.droppedLines + k
  BY <1>1, <1>2, <1>3
<1>5. o.result # "WROTE" =>
        o.w.off + o.w.torn = o.w.wr + o.w.st.pendingLines + o.w.st.droppedLines + k
  BY <1>1, <1>2, <1>3
<1> QED
  BY <1>2, <1>4, <1>5 DEF Sound

\* A stream that goes takes what it held with it.
LEMMA StreamDiscardGood ==
  ASSUME NEW w, NEW n \in Nat, Good(w, n)
  PROVE  LET x == StreamDiscard(w)
         IN  /\ Good(x, n) /\ ~x.st.streamOpen /\ x.st.pendingLines = 0
             /\ x.st.droppedLines = w.st.droppedLines /\ x.off = w.off /\ x.wr = w.wr /\ x.torn = w.torn
<1> DEFINE x == StreamDiscard(w)
           st == [w.st EXCEPT
                   !.active = NoFile, !.streamOpen = FALSE, !.named = FALSE, !.endWanted = FALSE,
                   !.pendingLines = 0, !.pendingHasMbb = FALSE, !.wakes = {}, !.late = FALSE,
                   !.hdrId = 0, !.hdrPart = 0]
<1>1. /\ w \in Wholes /\ w.st \in Stats /\ 0 \in 0 .. GZ_OUT /\ NoFile \in {NoFile} \cup Nat
      /\ 0 \in Nat
  BY StoreAssumption DEF Good, Wholes
<1>2. x = [w EXCEPT !.st = st]
  BY DEF StreamDiscard
<1> HIDE DEF x
<1>3. st \in Stats
  BY <1>1, Zenon DEF Stats
<1>4. /\ st.active = NoFile /\ ~st.streamOpen /\ st.pendingLines = 0 /\ st.wakes = {}
      /\ st.droppedLines = w.st.droppedLines
  BY <1>1 DEF Stats
<1> HIDE DEF st
<1>5. /\ x \in Wholes /\ x.on = w.on /\ x.fl = w.fl /\ x.st = st
      /\ x.off = w.off /\ x.wr = w.wr /\ x.torn = w.torn
  BY <1>1, <1>2, <1>3, Zenon DEF Wholes
<1>6. Good(x, n)
  BY <1>4, <1>5 DEF Good
<1> QED
  BY <1>4, <1>5, <1>6 DEF x

\* With all but what waits accounted for, a stream may go.
LEMMA DiscardSound ==
  ASSUME NEW w, NEW n \in Nat, NEW k \in Nat, Good(w, n),
         w.off + w.torn = w.wr + w.st.droppedLines + k
  PROVE  Sound(StreamDiscard(w), n, k)
<1> DEFINE y == StreamDiscard(w)
<1>1. /\ Good(y, n) /\ y.st.pendingLines = 0 /\ y.st.droppedLines = w.st.droppedLines
      /\ y.off = w.off /\ y.wr = w.wr /\ y.torn = w.torn
  BY StreamDiscardGood
<1> HIDE DEF y
<1>2. w.wr \in Nat /\ w.torn \in Nat /\ w.st.droppedLines \in Nat
  BY DEF Good, Wholes, Stats
<1>3. y.off + y.torn = y.wr + y.st.pendingLines + y.st.droppedLines + k
  BY <1>1, <1>2
<1> QED
  BY <1>1, <1>3 DEF y, Sound

\* What waited is dropped with its stream, and counted.
LEMMA DropSound ==
  ASSUME NEW w, NEW n \in Nat, NEW k \in Nat, Sound(w, n, k)
  PROVE  /\ Sound(StreamDiscard(Dropped(w)), n, k)
         /\ Good(Dropped(w), n)
         /\ Dropped(w).off + Dropped(w).torn = Dropped(w).wr + Dropped(w).st.droppedLines + k
<1> DEFINE x == Dropped(w)
           dropped == w.st.droppedLines + w.st.pendingLines
           st == [w.st EXCEPT !.droppedLines = dropped]
<1>1. /\ w \in Wholes /\ w.st \in Stats /\ w.wr \in Nat /\ w.torn \in Nat
      /\ w.st.droppedLines \in Nat /\ w.st.pendingLines \in Nat
  BY StoreAssumption DEF Sound, Good, Wholes, Stats
<1>2. x = [w EXCEPT !.st = st]
  BY DEF Dropped
<1> HIDE DEF x
<1>3. dropped \in Nat
  BY <1>1
<1> HIDE DEF dropped
<1>4. st \in Stats
  BY <1>1, <1>3, Zenon DEF Stats
<1>5. /\ st.active = w.st.active /\ st.streamOpen = w.st.streamOpen
      /\ st.pendingLines = w.st.pendingLines /\ st.wakes = w.st.wakes
      /\ st.droppedLines = dropped
  BY <1>1 DEF Stats
<1> HIDE DEF st
<1>6. /\ x \in Wholes /\ x.on = w.on /\ x.fl = w.fl /\ x.st = st
      /\ x.off = w.off /\ x.wr = w.wr /\ x.torn = w.torn
  BY <1>1, <1>2, <1>4, Zenon DEF Wholes
<1>7. Good(x, n)
  BY <1>5, <1>6 DEF Sound, Good
<1>8. x.off + x.torn = x.wr + x.st.droppedLines + k
  BY <1>1, <1>5, <1>6 DEF dropped, Sound
<1>9. Sound(StreamDiscard(x), n, k)
  BY <1>7, <1>8, DiscardSound
<1> QED
  BY <1>7, <1>8, <1>9 DEF x

\* A written buffer is emptied.
LEMMA EmptiedSound ==
  ASSUME NEW w, NEW n \in Nat, NEW k \in Nat, Good(w, n),
         w.off + w.torn = w.wr + w.st.droppedLines + k
  PROVE  /\ Sound(Emptied(w), n, k) /\ Emptied(w).st.pendingLines = 0
         /\ Emptied(w).st.streamOpen = w.st.streamOpen
<1> DEFINE x == Emptied(w)
           st == [w.st EXCEPT !.pendingLines = 0, !.wakes = {}]
<1>1. /\ w \in Wholes /\ w.st \in Stats /\ 0 \in 0 .. GZ_OUT
      /\ w.wr \in Nat /\ w.torn \in Nat /\ w.st.droppedLines \in Nat
  BY StoreAssumption DEF Good, Wholes, Stats
<1>2. x = [w EXCEPT !.st = st]
  BY <1>1 DEF Emptied, Wholes
<1> HIDE DEF x
<1>3. st \in Stats
  BY <1>1, Zenon DEF Stats
<1>4. /\ st.active = w.st.active /\ st.streamOpen = w.st.streamOpen
      /\ st.pendingLines = 0 /\ st.wakes = {}
      /\ st.droppedLines = w.st.droppedLines
  BY <1>1 DEF Stats
<1> HIDE DEF st
<1>5. /\ x \in Wholes /\ x.on = w.on /\ x.fl = w.fl /\ x.st = st
      /\ x.off = w.off /\ x.wr = w.wr /\ x.torn = w.torn
  BY <1>1, <1>2, <1>3, Zenon DEF Wholes
<1>6. Good(x, n)
  BY <1>4, <1>5 DEF Good
<1>7. x.off + x.torn = x.wr + x.st.pendingLines + x.st.droppedLines + k
  BY <1>1, <1>4, <1>5
<1> QED
  BY <1>4, <1>5, <1>6, <1>7 DEF x, Sound

\* The closing line is in the file or dropped, or both, and the stream is over.
LEMMA CloseSound ==
  ASSUME NEW w, NEW n \in Nat, NEW k \in Nat, Sound(w, n, k), w.st.pendingLines = 0,
         NEW e \in Answers
  PROVE  Sound(Close(w, e), n, k)
<1> DEFINE off == w.off + 1
           counted == [w EXCEPT !.off = off]
           wr == w.wr + 1
           there == [counted EXCEPT !.wr = wr]
           dropped == w.st.droppedLines + 1
           st == [w.st EXCEPT !.droppedLines = dropped]
           lost == [counted EXCEPT !.st = st]
           torns == w.torn + 1
           both == [[there EXCEPT !.torn = torns] EXCEPT !.st = st]
           Out(x) == x = there \/ x = lost \/ x = both
<1>1. /\ w \in Wholes /\ w.st \in Stats /\ w.wr \in Nat /\ w.off \in Nat /\ w.torn \in Nat
      /\ w.st.droppedLines \in Nat /\ Good(w, n)
      /\ w.off + w.torn = w.wr + w.st.droppedLines + k
  BY DEF Sound, Good, Wholes, Stats
<1>2. off \in Nat /\ wr \in Nat /\ dropped \in Nat /\ torns \in Nat
  BY <1>1
<1>3. /\ off + w.torn = wr + w.st.droppedLines + k /\ off + w.torn = w.wr + dropped + k
      /\ off + torns = wr + dropped + k
  BY <1>1
<1>4. PICK x : Out(x) /\ Close(w, e) = StreamDiscard(x)
  <2>1. [there EXCEPT !.torn = torns] = [there EXCEPT !.torn = @ + 1]
    BY <1>1 DEF Wholes
  <2> QED
    BY <1>1, <2>1 DEF Close, Wholes
<1> HIDE DEF off, wr, dropped, torns
<1>5. st \in Stats
  BY <1>1, <1>2, Zenon DEF Stats
<1>6. /\ st.active = w.st.active /\ st.streamOpen = w.st.streamOpen
      /\ st.pendingLines = w.st.pendingLines /\ st.wakes = w.st.wakes
      /\ st.droppedLines = dropped
  BY <1>1 DEF Stats
<1> HIDE DEF st
<1>7. /\ x \in Wholes /\ x.on = w.on /\ x.fl = w.fl /\ x.off = off
      /\ x.st \in {w.st, st}
      /\ x.off + x.torn = x.wr + x.st.droppedLines + k
  <2>1. CASE x = there
    <3>1. /\ x \in Wholes /\ x.on = w.on /\ x.fl = w.fl /\ x.off = off
          /\ x.st = w.st /\ x.wr = wr /\ x.torn = w.torn
      BY <1>1, <1>2, <2>1, Zenon DEF Wholes
    <3> QED
      BY <1>3, <3>1
  <2>2. CASE x = lost
    <3>1. /\ x \in Wholes /\ x.on = w.on /\ x.fl = w.fl /\ x.off = off
          /\ x.st = st /\ x.wr = w.wr /\ x.torn = w.torn
      BY <1>1, <1>2, <1>5, <2>2, Zenon DEF Wholes
    <3> QED
      BY <1>3, <1>6, <3>1
  <2>3. CASE x = both
    <3>1. /\ x \in Wholes /\ x.on = w.on /\ x.fl = w.fl /\ x.off = off
          /\ x.st = st /\ x.wr = wr /\ x.torn = torns
      BY <1>1, <1>2, <1>5, <2>3, Zenon DEF Wholes
    <3> QED
      BY <1>3, <1>6, <3>1
  <2> QED
    BY <1>4, <2>1, <2>2, <2>3
<1> HIDE DEF Out
<1>8. Good(x, n)
  BY <1>1, <1>6, <1>7 DEF Good
<1> QED
  BY <1>4, <1>7, <1>8, DiscardSound

\* An end that waits changes no line.
LEMMA EndLaterSound ==
  ASSUME NEW w, NEW n \in Nat, NEW k \in Nat, Sound(w, n, k)
  PROVE  Sound(EndLater(w), n, k)
<1> DEFINE x == EndLater(w)
           st == [w.st EXCEPT !.endWanted = TRUE, !.late = TRUE]
<1>1. w \in Wholes /\ w.st \in Stats
  BY DEF Sound, Good, Wholes
<1>2. x = [w EXCEPT !.st = st]
  BY <1>1 DEF EndLater, Wholes
<1> HIDE DEF x
<1>3. st \in Stats
  BY <1>1, Zenon DEF Stats
<1>4. /\ st.active = w.st.active /\ st.streamOpen = w.st.streamOpen
      /\ st.pendingLines = w.st.pendingLines /\ st.wakes = w.st.wakes
      /\ st.droppedLines = w.st.droppedLines
  BY <1>1 DEF Stats
<1> HIDE DEF st
<1>5. /\ x \in Wholes /\ x.on = w.on /\ x.fl = w.fl /\ x.st = st
      /\ x.off = w.off /\ x.wr = w.wr /\ x.torn = w.torn
  BY <1>1, <1>2, <1>3, Zenon DEF Wholes
<1> QED
  BY <1>4, <1>5 DEF x, Sound, Good

\* The end of a session loses no line without counting it.
LEMMA SessionEndSound ==
  ASSUME NEW w, NEW n \in Nat, NEW k \in Nat, Sound(w, n, k), NEW e \in Answers
  PROVE  Sound(SessionEnd(w, e), n, k)
<1> DEFINE o == WriteOut(w, TRUE, e)
<1>1. CASE ~w.st.streamOpen \/ ~w.st.named
  BY <1>1 DEF SessionEnd
<1>2. CASE w.st.streamOpen /\ w.st.named
  <2>1. Outcome(o, w, n)
    <3>1. PICK retryNow \in BOOLEAN : retryNow = TRUE
      OBVIOUS
    <3>2. Outcome(WriteOut(w, retryNow, e), w, n)
      BY <1>2, WriteOutGood
    <3> QED
      BY <3>1, <3>2
  <2>2. SessionEnd(w, e) =
          CASE o.result = "WROTE" -> Close(Emptied(o.w), e)
            [] o.result = "NOT_OPENED" -> EndLater(o.w)
            [] o.result = "SHORT" -> StreamDiscard(Dropped(o.w))
    BY <1>2 DEF SessionEnd
  <2> HIDE DEF o
  <2>4. CASE o.result = "WROTE"
    <3>1. o.w.off + o.w.torn = o.w.wr + o.w.st.droppedLines + k
      BY <2>1, <2>4, OutcomeBooks
    <3>2. Sound(Emptied(o.w), n, k) /\ Emptied(o.w).st.pendingLines = 0
      BY <2>1, <3>1, EmptiedSound DEF Outcome
    <3> QED
      BY <2>2, <2>4, <3>2, CloseSound
  <2>5. CASE o.result # "WROTE"
    <3>1. Sound(o.w, n, k)
      BY <2>1, <2>5, OutcomeBooks
    <3> QED
      BY <2>1, <2>2, <2>5, <3>1, EndLaterSound, DropSound DEF Outcome
  <2> QED
    BY <2>4, <2>5
<1> QED
  BY <1>1, <1>2

\* A part that never was changes no line.
LEMMA PartNeverWasGood ==
  ASSUME NEW w, NEW n \in Nat, Good(w, n)
  PROVE  LET x == PartNeverWas(w)
         IN  /\ Good(x, n) /\ x.st.droppedLines = w.st.droppedLines
             /\ x.off = w.off /\ x.wr = w.wr /\ x.torn = w.torn
<1> DEFINE x == PartNeverWas(w)
           none == [w.st EXCEPT !.sessionId = 0, !.sessionPart = 0]
           part == w.st.sessionPart - 1
           back == [w.st EXCEPT !.sessionPart = part]
           st == IF w.st.sessionPart <= 1 THEN none ELSE back
<1>1. w \in Wholes /\ w.st \in Stats /\ w.st.sessionPart \in Nat /\ 0 \in Nat
  BY DEF Good, Wholes, Stats
<1>2. x = [w EXCEPT !.st = st]
  BY <1>1 DEF PartNeverWas, Wholes
<1> HIDE DEF x
<1>3. none \in Stats
  BY <1>1, Zenon DEF Stats
<1>4. w.st.sessionPart > 1 => part \in Nat
  BY <1>1
<1>5. /\ none.active = w.st.active /\ none.streamOpen = w.st.streamOpen
      /\ none.pendingLines = w.st.pendingLines /\ none.wakes = w.st.wakes
      /\ none.droppedLines = w.st.droppedLines
  BY <1>1 DEF Stats
<1>6. /\ back.active = w.st.active /\ back.streamOpen = w.st.streamOpen
      /\ back.pendingLines = w.st.pendingLines /\ back.wakes = w.st.wakes
      /\ back.droppedLines = w.st.droppedLines
  BY <1>1 DEF Stats
<1> HIDE DEF none, part
<1>7. part \in Nat => back \in Stats
  BY <1>1, Zenon DEF Stats
<1> HIDE DEF back
<1>8. /\ st \in Stats /\ st.active = w.st.active /\ st.streamOpen = w.st.streamOpen
      /\ st.pendingLines = w.st.pendingLines /\ st.wakes = w.st.wakes
      /\ st.droppedLines = w.st.droppedLines
  BY <1>1, <1>3, <1>4, <1>5, <1>6, <1>7
<1> HIDE DEF st
<1>9. /\ x \in Wholes /\ x.on = w.on /\ x.fl = w.fl /\ x.st = st
      /\ x.off = w.off /\ x.wr = w.wr /\ x.torn = w.torn
  BY <1>1, <1>2, <1>8, Zenon DEF Wholes
<1> QED
  BY <1>8, <1>9 DEF x, Good

\* A committed buffer is an emptied one.
LEMMA CommittedSound ==
  ASSUME NEW w, NEW n \in Nat, NEW k \in Nat, Good(w, n),
         w.off + w.torn = w.wr + w.st.droppedLines + k
  PROVE  Sound(Committed(w), n, k)
<1> DEFINE v == Emptied(w)
           x == Committed(w)
           st == [v.st EXCEPT !.pendingHasMbb = FALSE]
<1>1. Sound(v, n, k)
  BY EmptiedSound
<1>2. x = [v EXCEPT !.st = st]
  BY DEF Committed
<1> HIDE DEF v, x
<1>3. v \in Wholes /\ v.st \in Stats
  BY <1>1 DEF Sound, Good, Wholes
<1>4. st \in Stats
  BY <1>3, Zenon DEF Stats
<1>5. /\ st.active = v.st.active /\ st.streamOpen = v.st.streamOpen
      /\ st.pendingLines = v.st.pendingLines /\ st.wakes = v.st.wakes
      /\ st.droppedLines = v.st.droppedLines
  BY <1>3 DEF Stats
<1> HIDE DEF st
<1>6. /\ x \in Wholes /\ x.on = v.on /\ x.fl = v.fl /\ x.st = st
      /\ x.off = v.off /\ x.wr = v.wr /\ x.torn = v.torn
  BY <1>2, <1>3, <1>4, Zenon DEF Wholes
<1> QED
  BY <1>1, <1>5, <1>6 DEF x, Sound, Good

\* Whatever comes of the write, no line goes without being counted.
LEMMA AfterWriteSound ==
  ASSUME NEW v, NEW o, NEW n \in Nat, NEW k \in Nat, Sound(v, n, k), Outcome(o, v, n),
         NEW force \in BOOLEAN, NEW e \in Answers
  PROVE  Sound(AfterWrite(o, force, e), n, k)
<1>1. /\ o.result = "WROTE" => o.w.off + o.w.torn = o.w.wr + o.w.st.droppedLines + k
      /\ o.result # "WROTE" => Sound(o.w, n, k)
  BY OutcomeBooks
<1>2. CASE o.result = "WROTE"
  <2> DEFINE done == Committed(o.w)
  <2>1. AfterWrite(o, force, e) = IF EndDue(done) THEN SessionEnd(done, e) ELSE done
    BY <1>2 DEF AfterWrite
  <2>2. o.w.off + o.w.torn = o.w.wr + o.w.st.droppedLines + k
    BY <1>1, <1>2
  <2>3. Sound(done, n, k)
    BY <2>2, CommittedSound DEF Outcome
  <2> HIDE DEF done
  <2>4. Sound(SessionEnd(done, e), n, k)
    BY <2>3, SessionEndSound
  <2> QED
    BY <2>1, <2>3, <2>4
<1>3. CASE o.result # "WROTE"
  <2>1. AfterWrite(o, force, e) \in
            {o.w, StreamDiscard(PartNeverWas(Dropped(o.w))), StreamDiscard(Dropped(o.w))}
    BY <1>3 DEF AfterWrite, Outcome
  <2>2. Sound(o.w, n, k)
    BY <1>1, <1>3
  <2>3. Sound(StreamDiscard(Dropped(o.w)), n, k)
    BY <2>2, DropSound
  <2>4. Sound(StreamDiscard(PartNeverWas(Dropped(o.w))), n, k)
    <3>1. Good(Dropped(o.w), n)
          /\ Dropped(o.w).off + Dropped(o.w).torn = Dropped(o.w).wr + Dropped(o.w).st.droppedLines + k
      BY <2>2, DropSound
    <3> QED
      BY <3>1, PartNeverWasGood, DiscardSound
  <2> QED
    BY <2>1, <2>2, <2>3, <2>4
<1> QED
  BY <1>2, <1>3

\* A commit, whatever the flash says, loses no line without counting it.
LEMMA CommitPendingSound ==
  ASSUME NEW w, NEW n \in Nat, NEW k \in Nat, Sound(w, n, k),
         NEW force \in BOOLEAN, NEW e \in Answers
  PROVE  Sound(CommitPending(w, force, e), n, k)
<1> DEFINE notesOnly == ~w.st.pendingHasMbb /\ w.st.active = NoFile
           v == IF notesOnly THEN SessionName(w) ELSE w
           o == WriteOut(v, force, e)
           idle == ~w.st.streamOpen \/ w.st.pendingLines = 0 \/ (notesOnly /\ ~force)
<1>1. CommitPending(w, force, e) = IF idle THEN w
                                   ELSE IF ~w.st.ok THEN StreamDiscard(Dropped(v))
                                   ELSE AfterWrite(o, force, e)
  BY Zenon DEF CommitPending
<1>2. CASE ~idle
  <2>1. Sound(v, n, k) /\ v.st.streamOpen
    BY <1>2, SessionNameSound
  <2> HIDE DEF v, idle
  <2>2. Outcome(o, v, n)
    BY <2>1, WriteOutGood
  <2> HIDE DEF o
  <2>3. Sound(StreamDiscard(Dropped(v)), n, k)
    BY <2>1, DropSound
  <2>4. Sound(AfterWrite(o, force, e), n, k)
    BY <2>1, <2>2, AfterWriteSound
  <2> QED
    BY <1>1, <1>2, <2>3, <2>4
<1> HIDE DEF idle, v, o
<1> QED
  BY <1>1, <1>2

\* A line that fits joins the stream.
LEMMA AddSound ==
  ASSUME NEW w, session \in Nat \ {0}, Sound(w, session, 1), w.st.streamOpen, Fits(w, 1),
         NEW fromMbb \in BOOLEAN
  PROVE  Sound(Add(w, fromMbb), session, 0)
<1> DEFINE x == Add(w, fromMbb)
           pending == w.st.pendingLines + 1
           hasMbb == w.st.pendingHasMbb \/ fromMbb
           wakes == IF fromMbb THEN w.st.wakes \cup {session} ELSE w.st.wakes
           st == [w.st EXCEPT !.pendingLines = pending, !.pendingHasMbb = hasMbb, !.wakes = wakes]
<1>1. /\ w \in Wholes /\ w.st \in Stats /\ w.wr \in Nat /\ w.torn \in Nat /\ w.st.droppedLines \in Nat
      /\ w.st.pendingLines \in Nat /\ w.st.wakes \in SUBSET Nat /\ w.st.wakes \subseteq 1 .. session
  BY StoreAssumption DEF Sound, Good, Wholes, Stats
<1>2. x = [w EXCEPT !.st = st]
  BY <1>1 DEF Add, Wholes, Stats
<1> HIDE DEF x
<1>3. pending \in 0 .. GZ_OUT /\ pending = w.st.pendingLines + 1
  BY <1>1, StoreAssumption DEF Fits
<1>4. hasMbb \in BOOLEAN
  BY <1>1
<1>5. wakes \in SUBSET Nat /\ wakes \subseteq 1 .. session
  BY <1>1
<1> HIDE DEF pending, hasMbb, wakes
<1>6. st \in Stats
  BY <1>1, <1>3, <1>4, <1>5, Zenon DEF Stats
<1>7. /\ st.active = w.st.active /\ st.streamOpen = w.st.streamOpen
      /\ st.pendingLines = pending /\ st.wakes = wakes
      /\ st.droppedLines = w.st.droppedLines
  BY <1>1 DEF Stats
<1> HIDE DEF st
<1>8. /\ x \in Wholes /\ x.on = w.on /\ x.fl = w.fl /\ x.st = st
      /\ x.off = w.off /\ x.wr = w.wr /\ x.torn = w.torn
  BY <1>1, <1>2, <1>6, Zenon DEF Wholes
<1>9. Good(x, session)
  BY <1>5, <1>7, <1>8 DEF Sound, Good
<1>10. x.off + x.torn = x.wr + x.st.pendingLines + x.st.droppedLines + 0
  BY <1>1, <1>3, <1>7, <1>8 DEF Sound
<1> QED
  BY <1>9, <1>10 DEF x, Sound

\* A line is given to the store: one more to account for.
LEMMA OfferedSound ==
  ASSUME NEW w, NEW n \in Nat, Sound(w, n, 0)
  PROVE  Sound([w EXCEPT !.off = @ + 1], n, 1)
<1> DEFINE off == w.off + 1
           x == [w EXCEPT !.off = off]
<1>1. w \in Wholes /\ w.wr \in Nat /\ w.torn \in Nat /\ w.st.pendingLines \in Nat /\ w.st.droppedLines \in Nat
      /\ w.off \in Nat
  BY StoreAssumption DEF Sound, Good, Wholes, Stats
<1>2. off \in Nat /\ off + w.torn = w.wr + w.st.pendingLines + w.st.droppedLines + 1
  BY <1>1 DEF Sound
<1> HIDE DEF off
<1>3. /\ x \in Wholes /\ x.on = w.on /\ x.fl = w.fl /\ x.st = w.st
      /\ x.off = off /\ x.wr = w.wr /\ x.torn = w.torn
  BY <1>1, <1>2, Zenon DEF Wholes
<1> HIDE DEF x
<1>4. Sound(x, n, 1)
  BY <1>2, <1>3 DEF Sound, Good
<1> QED
  BY <1>4 DEF x, off

\* A line the store takes no more is counted.
LEMMA DropOneSound ==
  ASSUME NEW w, NEW n \in Nat, Sound(w, n, 1)
  PROVE  Sound([w EXCEPT !.st.droppedLines = @ + 1], n, 0)
<1> DEFINE dropped == w.st.droppedLines + 1
           st == [w.st EXCEPT !.droppedLines = dropped]
           x == [w EXCEPT !.st = st]
<1>1. w \in Wholes /\ w.st \in Stats /\ w.wr \in Nat /\ w.torn \in Nat /\ w.st.pendingLines \in Nat
      /\ w.st.droppedLines \in Nat
  BY StoreAssumption DEF Sound, Good, Wholes, Stats
<1>2. dropped \in Nat /\ w.off + w.torn = w.wr + w.st.pendingLines + dropped + 0
  BY <1>1 DEF Sound
<1> HIDE DEF dropped
<1>3. st \in Stats
  BY <1>1, <1>2, Zenon DEF Stats
<1>4. /\ st.active = w.st.active /\ st.streamOpen = w.st.streamOpen
      /\ st.pendingLines = w.st.pendingLines /\ st.wakes = w.st.wakes
      /\ st.droppedLines = dropped
  BY <1>1 DEF Stats
<1> HIDE DEF st
<1>5. /\ x \in Wholes /\ x.on = w.on /\ x.fl = w.fl /\ x.st = st
      /\ x.off = w.off /\ x.wr = w.wr /\ x.torn = w.torn
  BY <1>1, <1>3, Zenon DEF Wholes
<1> HIDE DEF x
<1>6. Sound(x, n, 0)
  BY <1>2, <1>4, <1>5 DEF Sound, Good
<1> QED
  BY <1>6 DEF x, st, dropped

\* A line given to the store is accounted for.
LEMMA AppendSound ==
  ASSUME NEW w, session \in Nat \ {0}, Sound(w, session, 0),
         NEW fromMbb \in BOOLEAN, NEW e \in Answers
  PROVE  Sound(Append(w, fromMbb, e), session, 0)
<1> DEFINE started == StreamStart([w EXCEPT !.off = @ + 1])
           roomy == IF ~started.st.named /\ ~Fits(started, 2)
                      THEN StreamStart(CommitPending(started, TRUE, e)) ELSE started
           name(v) == IF fromMbb THEN SessionName(v) ELSE v
           ready == name(roomy)
           again == name(StreamStart(CommitPending(ready, TRUE, e)))
           OpenAndSound(v) == Sound(v, session, 1) /\ v.st.streamOpen
<1>1. session \in Nat
  OBVIOUS
<1>2. OpenAndSound(started)
  BY <1>1, OfferedSound, StreamStartSound
<1> HIDE DEF started
<1>3. ASSUME NEW v, OpenAndSound(v)
      PROVE  OpenAndSound(StreamStart(CommitPending(v, TRUE, e)))
  <2>1. PICK force \in BOOLEAN : force = TRUE
    OBVIOUS
  <2>2. Sound(CommitPending(v, force, e), session, 1)
    BY <1>1, <1>3, CommitPendingSound
  <2> QED
    BY <1>1, <2>1, <2>2, StreamStartSound
<1>4. ASSUME NEW v, OpenAndSound(v)
      PROVE  OpenAndSound(name(v))
  BY <1>1, <1>4, SessionNameSound
<1>5. OpenAndSound(roomy)
  BY <1>2, <1>3
<1> HIDE DEF roomy
<1>6. OpenAndSound(ready)
  BY <1>4, <1>5
<1> HIDE DEF ready
<1>7. OpenAndSound(again)
  BY <1>3, <1>4, <1>6
<1> HIDE DEF again
<1>8. Append(w, fromMbb, e) =
        CASE Fits(ready, 1) -> Add(ready, fromMbb)
          [] ~Fits(ready, 1) /\ Fits(again, 1) -> Add(again, fromMbb)
          [] ~Fits(ready, 1) /\ ~Fits(again, 1) -> [again EXCEPT !.st.droppedLines = @ + 1]
  BY DEF Append, started, roomy, ready, again
<1>9. Sound([again EXCEPT !.st.droppedLines = @ + 1], session, 0)
  BY <1>1, <1>7, DropOneSound
<1>10. CASE Fits(ready, 1)
  BY <1>6, <1>8, <1>10, AddSound
<1>11. CASE ~Fits(ready, 1) /\ Fits(again, 1)
  BY <1>7, <1>8, <1>11, AddSound
<1>12. CASE ~Fits(ready, 1) /\ ~Fits(again, 1)
  BY <1>8, <1>9, <1>12
<1> QED
  BY <1>10, <1>11, <1>12

\* The identity goes: nothing of the lines changes.
LEMMA IdentityGoes ==
  ASSUME NEW w, NEW n \in Nat, NEW k \in Nat, Sound(w, n, k)
  PROVE  Sound([w EXCEPT !.st.sessionId = 0, !.st.sessionPart = 0], n, k)
<1> DEFINE st == [w.st EXCEPT !.sessionId = 0, !.sessionPart = 0]
           x == [w EXCEPT !.st = st]
<1>1. w \in Wholes /\ w.st \in Stats /\ 0 \in Nat
  BY DEF Sound, Good, Wholes
<1>2. [w EXCEPT !.st.sessionId = 0, !.st.sessionPart = 0] = x
  BY <1>1 DEF Wholes
<1>3. st \in Stats
  BY <1>1, Zenon DEF Stats
<1>4. /\ st.active = w.st.active /\ st.streamOpen = w.st.streamOpen
      /\ st.pendingLines = w.st.pendingLines /\ st.wakes = w.st.wakes
      /\ st.droppedLines = w.st.droppedLines
  BY <1>1 DEF Stats
<1> HIDE DEF st
<1>5. /\ x \in Wholes /\ x.on = w.on /\ x.fl = w.fl /\ x.st = st
      /\ x.off = w.off /\ x.wr = w.wr /\ x.torn = w.torn
  BY <1>1, <1>3, Zenon DEF Wholes
<1> HIDE DEF x
<1>6. Sound(x, n, k)
  BY <1>4, <1>5 DEF Sound, Good
<1> QED
  BY <1>2, <1>6

-----------------------------------------------------------------------------
\* The state that a handler leaves is the one it computed.
LEMMA Became ==
  ASSUME NEW w, w \in Wholes, Become(w)
  PROVE  Whole' = w
BY DEF Become, Whole, Wholes

\* All is in order when the store starts.
LEMMA Initially == Init => IInv
<1> SUFFICES ASSUME Init PROVE IInv
  OBVIOUS
<1>1. store \in
        [ok : BOOLEAN, streamOpen : {FALSE}, named : {FALSE}, endWanted : {FALSE},
         pendingHasMbb : {FALSE}, pendingLines : {0}, active : {NoFile},
         activeBytes : {0}, seq : {0}, sessionId : {0}, sessionPart : {0},
         hdrId : {0}, hdrPart : {0}, openFailed : {FALSE}, droppedLines : {0},
         wakes : {{}}, late : {FALSE}]
  BY DEF Init
<1>2. /\ session = 1 /\ offered = 0 /\ written = 0 /\ torn = 0 /\ overwritten = FALSE
      /\ onFlash = LeftOver
      /\ files = [n \in LeftOver |->
                    [id |-> -n, part |-> 1, wakes |-> {0}, late |-> FALSE]]
  BY DEF Init
<1>3. /\ store.active = NoFile /\ store.pendingLines = 0 /\ store.droppedLines = 0
      /\ store.wakes = {} /\ store.ok \in BOOLEAN
  BY <1>1
<1>4. store \in Stats
  <2>1. 0 \in 0 .. GZ_OUT /\ {} \in SUBSET Nat /\ 0 \in Nat /\ NoFile \in {NoFile} \cup Nat
    BY StoreAssumption
  <2>2. store = [ok |-> store.ok, streamOpen |-> FALSE, named |-> FALSE, endWanted |-> FALSE,
                 pendingHasMbb |-> FALSE, pendingLines |-> 0, active |-> NoFile,
                 activeBytes |-> 0, seq |-> 0, sessionId |-> 0, sessionPart |-> 0,
                 hdrId |-> 0, hdrPart |-> 0, openFailed |-> FALSE, droppedLines |-> 0,
                 wakes |-> {}, late |-> FALSE]
    BY <1>1
  <2>3. [ok |-> store.ok, streamOpen |-> FALSE, named |-> FALSE, endWanted |-> FALSE,
                 pendingHasMbb |-> FALSE, pendingLines |-> 0, active |-> NoFile,
                 activeBytes |-> 0, seq |-> 0, sessionId |-> 0, sessionPart |-> 0,
                 hdrId |-> 0, hdrPart |-> 0, openFailed |-> FALSE, droppedLines |-> 0,
                 wakes |-> {}, late |-> FALSE] \in Stats
    BY <1>3, <2>1, Zenon DEF Stats
  <2> QED
    BY <2>2, <2>3
<1>5. files \in Contents /\ DOMAIN files = LeftOver /\ LeftOver \in SUBSET Nat
  <2>1. LeftOver \in SUBSET Nat
    BY StoreAssumption
  <2>2. \A n \in LeftOver :
          [id |-> -n, part |-> 1, wakes |-> {0}, late |-> FALSE] \in FileRecords
    BY <2>1 DEF FileRecords
  <2>3. files \in [LeftOver -> FileRecords]
    BY <1>2, <2>2
  <2> QED
    BY <2>1, <2>3 DEF Contents
<1>6. Whole \in Wholes
  BY <1>2, <1>4, <1>5 DEF Whole, Wholes
<1>7. /\ Whole.st = store /\ Whole.on = onFlash /\ Whole.fl = files
      /\ Whole.off = 0 /\ Whole.wr = 0 /\ Whole.torn = 0
  BY <1>2 DEF Whole
<1>8. Good(Whole, session)
  BY <1>2, <1>3, <1>5, <1>6, <1>7 DEF Good
<1> QED
  BY <1>2, <1>3, <1>7, <1>8 DEF IInv, Sound

\* A handler that leaves a sound state keeps the invariant.
LEMMA HandlerInv ==
  ASSUME session \in Nat \ {0}, NEW w, Become(w), UNCHANGED session, Sound(w, session, 0)
  PROVE  IInv'
<1>1. Whole' = w
  BY Became DEF Sound, Good
<1>2. Sound(Whole', session', 0)
  BY <1>1
<1> QED
  BY <1>2 DEF IInv

\* Every step keeps it.
LEMMA NextInv ==
  ASSUME IInv, [Next]_vars
  PROVE  IInv'
<1>0. /\ session \in Nat \ {0} /\ session \in Nat /\ Sound(Whole, session, 0)
      /\ Whole \in Wholes /\ store \in Stats
      /\ Whole.st = store /\ Whole.on = onFlash /\ Whole.fl = files
      /\ Whole.off = offered /\ Whole.wr = written /\ Whole.torn = torn
  BY DEF IInv, Sound, Good, Wholes, Whole
<1>1. ASSUME NEW fromMbb \in BOOLEAN, NEW e \in Answers, StoreAppend(fromMbb, e)
      PROVE  IInv'
  <2>1. Sound(Append(Whole, fromMbb, e), session, 0)
    BY <1>0, AppendSound
  <2> QED
    BY <1>0, <1>1, <2>1, HandlerInv DEF StoreAppend
<1>2. CASE StoreAppendTooLong
  <2> DEFINE v == [Whole EXCEPT !.off = @ + 1]
             x == [v EXCEPT !.st.droppedLines = @ + 1]
  <2>1. Sound(v, session, 1)
    BY <1>0, OfferedSound
  <2> HIDE DEF v
  <2>2. Sound(x, session, 0)
    BY <1>0, <2>1, DropOneSound
  <2>3. Become(x) /\ UNCHANGED session
    BY <1>0, <1>2 DEF StoreAppendTooLong, Wholes, v
  <2> QED
    BY <1>0, <2>2, <2>3, HandlerInv
<1>3. ASSUME NEW e \in Answers, StoreTick(e)
      PROVE  IInv'
  <2> DEFINE x == IF store.pendingLines > 0 /\ store.pendingHasMbb
                    THEN CommitPending(Whole, FALSE, e) ELSE Whole
  <2>1. PICK force \in BOOLEAN : force = FALSE
    OBVIOUS
  <2>2. Sound(CommitPending(Whole, force, e), session, 0)
    BY <1>0, CommitPendingSound
  <2>3. Sound(x, session, 0)
    BY <1>0, <2>1, <2>2
  <2>4. Become(x) /\ UNCHANGED session
    BY <1>3 DEF StoreTick
  <2> HIDE DEF x
  <2> QED
    BY <1>0, <2>3, <2>4, HandlerInv
<1>5. ASSUME NEW e \in Answers, StoreSessionClose(e)
      PROVE  IInv'
  <2> DEFINE w == [Whole EXCEPT !.st.sessionId = 0, !.st.sessionPart = 0]
             x == IF OnlyNotes(w.st) THEN w ELSE SessionEnd(w, e)
  <2>1. Sound(w, session, 0)
    BY <1>0, IdentityGoes
  <2> HIDE DEF w
  <2>2. Sound(x, session, 0)
    BY <1>0, <2>1, SessionEndSound
  <2>3. Become(x) /\ session' = session + 1
    BY <1>5 DEF StoreSessionClose, w
  <2> HIDE DEF x
  <2>4. Sound(x, session + 1, 0)
    <3>1. x.st.wakes \subseteq 1 .. session /\ session + 1 \in Nat
      BY <1>0, <2>2 DEF Sound, Good
    <3>2. x.st.wakes \subseteq 1 .. (session + 1)
      BY <1>0, <3>1
    <3> QED
      BY <2>2, <3>2 DEF Sound, Good
  <2>5. Whole' = x
    BY <2>2, <2>3, Became DEF Sound, Good
  <2>6. Sound(Whole', session', 0) /\ session' \in Nat \ {0}
    BY <1>0, <2>3, <2>4, <2>5
  <2> QED
    BY <2>6 DEF IInv
<1>6. ASSUME NEW e \in Answers, StoreShutdown(e)
      PROVE  IInv'
  <2> DEFINE w == IF store.streamOpen /\ store.named THEN SessionEnd(Whole, e)
                  ELSE IF store.streamOpen THEN StreamDiscard(Dropped(Whole)) ELSE Whole
             x == [w EXCEPT !.st.sessionId = 0, !.st.sessionPart = 0]
  <2>1. Sound(w, session, 0)
    BY <1>0, SessionEndSound, DropSound
  <2>2. Become(x) /\ UNCHANGED session
    BY <1>6 DEF StoreShutdown
  <2> HIDE DEF w
  <2>3. Sound(x, session, 0)
    BY <1>0, <2>1, IdentityGoes
  <2> HIDE DEF x
  <2> QED
    BY <1>0, <2>2, <2>3, HandlerInv
<1>7. CASE GapOver
  <2>1. /\ store' = [store EXCEPT !.openFailed = FALSE]
        /\ UNCHANGED <<onFlash, files, session, offered, written, torn, overwritten>>
    BY <1>7 DEF GapOver
  <2>2. store' \in Stats
    BY <1>0, <2>1, Zenon DEF Stats
  <2>3. /\ store'.active = store.active /\ store'.streamOpen = store.streamOpen
        /\ store'.pendingLines = store.pendingLines /\ store'.wakes = store.wakes
        /\ store'.droppedLines = store.droppedLines
    BY <1>0, <2>1 DEF Stats
  <2>4. /\ Whole'.st = store' /\ Whole'.on = onFlash /\ Whole'.fl = files
        /\ Whole'.off = offered /\ Whole'.wr = written /\ Whole'.torn = torn
    BY <2>1 DEF Whole
  <2>5. Whole' \in Wholes
    <3>1. /\ onFlash \in SUBSET Nat /\ files \in Contents /\ offered \in Nat
          /\ written \in Nat /\ torn \in Nat /\ overwritten \in BOOLEAN
      BY <1>0 DEF Whole, Wholes
    <3> QED
      BY <2>1, <2>2, <3>1 DEF Whole, Wholes
  <2>6. Sound(Whole', session, 0)
    BY <1>0, <2>3, <2>4, <2>5 DEF Sound, Good
  <2> QED
    BY <1>0, <2>1, <2>6 DEF IInv
<1>8. ASSUME NEW n \in onFlash, Removed(n)
      PROVE  IInv'
  <2>1. /\ n # store.active /\ onFlash' = onFlash \ {n}
        /\ UNCHANGED <<store, files, session, offered, written, torn, overwritten>>
    BY <1>8 DEF Removed
  <2>2. /\ Whole'.st = store /\ Whole'.on = onFlash \ {n} /\ Whole'.fl = files
        /\ Whole'.off = offered /\ Whole'.wr = written /\ Whole'.torn = torn
    BY <2>1 DEF Whole
  <2>3. Whole' \in Wholes
    <3>1. Whole' = [Whole EXCEPT !.on = onFlash \ {n}]
      BY <2>1 DEF Whole
    <3>2. onFlash \ {n} \in SUBSET Nat
      BY <1>0 DEF Wholes
    <3> QED
      BY <1>0, <3>1, <3>2, Zenon DEF Wholes
  <2>4. Sound(Whole', session, 0)
    BY <1>0, <2>1, <2>2, <2>3 DEF Sound, Good
  <2> QED
    BY <1>0, <2>1, <2>4 DEF IInv
<1>9. CASE UNCHANGED vars
  BY <1>9 DEF vars, IInv, Whole
<1> QED
  BY <1>1, <1>2, <1>3, <1>5, <1>6, <1>7, <1>8, <1>9 DEF Next

\* Whatever the flash answers, and however often the MBB sleeps, every line is
\* accounted for after every handler.
THEOREM SessionInductive == Spec => []IInv
<1>1. Init => IInv
  BY Initially
<1>2. IInv /\ [Next]_vars => IInv'
  BY NextInv
<1> QED
  BY <1>1, <1>2, PTL DEF Spec

\* The store's statics keep their types, and the file it writes is on the flash.
THEOREM TypeCorrect == Spec => []TypeOK
<1>1. IInv => TypeOK
  <2> SUFFICES ASSUME IInv PROVE TypeOK
    OBVIOUS
  <2>1. /\ session \in Nat /\ Whole \in Wholes /\ store \in Stats
        /\ onFlash \subseteq DOMAIN files /\ store.wakes \subseteq 1 .. session
        /\ (store.active # NoFile => store.active \in onFlash)
        /\ offered \in Nat /\ written \in Nat /\ torn \in Nat /\ overwritten \in BOOLEAN /\ files \in Contents
    BY DEF IInv, Sound, Good, Whole, Wholes
  <2>2. DOMAIN files \subseteq Nat
    BY <2>1 DEF Contents
  <2>3. store.wakes \in SUBSET (1 .. session)
    BY <2>1
  <2>4. store \in
        [ok : BOOLEAN, streamOpen : BOOLEAN, named : BOOLEAN, endWanted : BOOLEAN,
         pendingHasMbb : BOOLEAN, pendingLines : 0 .. GZ_OUT, active : {NoFile} \cup Nat,
         activeBytes : Nat, seq : Nat, sessionId : Nat, sessionPart : Nat,
         hdrId : Nat, hdrPart : Nat, openFailed : BOOLEAN, droppedLines : Nat,
         wakes : SUBSET (1 .. session), late : BOOLEAN]
    BY <2>1, <2>3, Zenon DEF Stats
  <2> QED
    BY <2>1, <2>2, <2>4 DEF TypeOK
<1> QED
  BY <1>1, SessionInductive, PTL

\* store.cpp: no failure of the flash loses a line without counting it, and the
\* count is too high by just the lines that can be read at the torn end of a part.
THEOREM LinesAreAccounted == Spec => []LinesAccounted
<1>1. IInv => LinesAccounted
  <2> SUFFICES ASSUME IInv PROVE LinesAccounted
    OBVIOUS
  <2>1. /\ Whole.st = store /\ Whole.off = offered /\ Whole.wr = written /\ Whole.torn = torn
        /\ written \in Nat /\ store.pendingLines \in Nat /\ store.droppedLines \in Nat
    BY StoreAssumption DEF IInv, Sound, Good, Whole, Wholes, Stats
  <2> QED
    BY <2>1 DEF IInv, Sound, LinesAccounted
<1> QED
  BY <1>1, SessionInductive, PTL

-----------------------------------------------------------------------------
\* The names left over end before the search for a free one does.
SearchFinds == \A n \in LeftOver : n < SEQ_LIMIT - 1

\* The files of a session, and that its parts so far are 1 to k.
PartsOf(fl, id) == {m \in DOMAIN fl : fl[m].id = id}
HasParts(fl, id, k) ==
    /\ {fl[m].part : m \in PartsOf(fl, id)} = 1 .. k
    /\ \A m, n \in PartsOf(fl, id) : fl[m].part = fl[n].part => m = n

\* A stream with a file, or with lines of the MBB, has a name; only lines of the
\* MBB come under a wake.
StreamRight(w) ==
    /\ w.st.named => w.st.streamOpen /\ w.st.seq >= 1
    /\ w.st.active # NoFile => w.st.named
    /\ w.st.pendingHasMbb => w.st.named
    /\ w.st.wakes # {} => w.st.pendingHasMbb

\* What waits, and what the open file holds, is of the wake that is, or late;
\* every file is of one wake, or late.
WakesRight(w, n) ==
    /\ w.st.late \/ w.st.wakes \subseteq {n}
    /\ w.st.active # NoFile =>
           w.fl[w.st.active].late \/ w.fl[w.st.active].wakes \subseteq {n}
    /\ \A m \in DOMAIN w.fl : w.fl[m].late \/ \E k \in Nat : w.fl[m].wakes \subseteq {k}

\* What is late has its end still to come, in the buffer or in the open file.
EndsRight(w) ==
    /\ w.st.late => w.st.endWanted
    /\ w.st.active # NoFile /\ w.fl[w.st.active].late => w.st.endWanted

\* Between handlers, no end waits for a file that is there.
NoEndWaits(w) == w.st.active # NoFile => ~w.st.endWanted

\* A name that is to become a file's.
Unfiled(w) == w.st.named /\ w.st.active = NoFile

\* The files are those left over, and those made since, whose names and
\* identities are numbers given out; the last is not used up before its file.
NamesRight(w) ==
    SearchFinds =>
      /\ ~w.over
      /\ w.st.named => w.st.hdrId \in 1 .. w.st.seq
      /\ w.st.sessionPart # 0 => w.st.sessionId \in 1 .. w.st.seq
      /\ \A m \in DOMAIN w.fl :
            \/ m \in LeftOver /\ w.fl[m].id = -m /\ w.fl[m].part = 1
            \/ /\ w.fl[m].id \in 1 .. w.st.seq /\ m \in 1 .. w.st.seq
               /\ Unfiled(w) => m # w.st.seq

\* Parts are consecutive; the name of a stream is that of the next part, or of
\* the last once it has its file.
PartsRight(w) ==
    SearchFinds =>
      /\ \A id \in Nat \ {0} : \E k \in Nat : HasParts(w.fl, id, k)
      /\ w.st.named => w.st.hdrPart >= 1
      /\ w.st.ok /\ w.st.named =>
             HasParts(w.fl, w.st.hdrId, IF w.st.active = NoFile THEN w.st.hdrPart - 1 ELSE w.st.hdrPart)
      /\ w.st.sessionPart # 0 /\ w.st.named =>
             w.st.sessionId = w.st.hdrId /\ w.st.sessionPart = w.st.hdrPart
      /\ w.st.ok /\ w.st.sessionPart # 0 /\ ~w.st.named =>
             HasParts(w.fl, w.st.sessionId, w.st.sessionPart)

Told(w, n) ==
    StreamRight(w) /\ WakesRight(w, n) /\ EndsRight(w) /\ NamesRight(w) /\ PartsRight(w)

\* The same but for what the properties do not see, or less of what waits.
Within(x, w) ==
    /\ x.fl = w.fl /\ x.over = w.over
    /\ x.st.ok = w.st.ok /\ x.st.streamOpen = w.st.streamOpen /\ x.st.named = w.st.named
    /\ x.st.active = w.st.active /\ x.st.seq = w.st.seq
    /\ x.st.hdrId = w.st.hdrId /\ x.st.hdrPart = w.st.hdrPart
    /\ x.st.sessionPart \in {0, w.st.sessionPart}
    /\ x.st.sessionPart # 0 => x.st.sessionId = w.st.sessionId
    /\ w.st.late => x.st.late
    /\ w.st.endWanted => x.st.endWanted
    /\ x.st.late => w.st.late \/ x.st.endWanted
    /\ x.st.wakes \subseteq w.st.wakes
    /\ x.st.pendingHasMbb => w.st.pendingHasMbb
    /\ x.st.wakes # {} => x.st.pendingHasMbb

LEMMA WithinTold ==
  ASSUME NEW w, NEW x, NEW n, Told(w, n), Within(x, w)
  PROVE  Told(x, n)
<1>1. StreamRight(x)
  BY DEF Told, StreamRight, Within
<1>2. WakesRight(x, n)
  BY DEF Told, WakesRight, Within
<1>3. NamesRight(x)
  BY DEF Told, NamesRight, Within, Unfiled
<1>4. PartsRight(x)
  BY DEF Told, PartsRight, Within
<1>5. EndsRight(x)
  BY DEF Told, EndsRight, Within
<1> QED BY <1>1, <1>2, <1>3, <1>4, <1>5 DEF Told

\* The same files.
SameFiles(f, g) ==
    /\ DOMAIN f = DOMAIN g
    /\ \A m \in DOMAIN f :
          /\ f[m].id = g[m].id /\ f[m].part = g[m].part
          /\ f[m].wakes = g[m].wakes /\ f[m].late = g[m].late

LEMMA SamePartsKept ==
  ASSUME NEW f, NEW g, SameFiles(f, g), NEW id, NEW k, HasParts(g, id, k)
  PROVE  HasParts(f, id, k)
<1>1. PartsOf(f, id) = PartsOf(g, id) /\ PartsOf(f, id) \subseteq DOMAIN f
  BY DEF SameFiles, PartsOf
<1>2. \A m \in PartsOf(f, id) : f[m].part = g[m].part
  BY <1>1 DEF SameFiles
<1>3. {f[m].part : m \in PartsOf(f, id)} = {g[m].part : m \in PartsOf(g, id)}
  BY <1>1, <1>2
<1> QED BY <1>1, <1>2, <1>3 DEF HasParts

\* There is no stream.
Gone(x) ==
    /\ x.st.active = NoFile /\ ~x.st.named /\ ~x.st.streamOpen
    /\ ~x.st.pendingHasMbb /\ x.st.wakes = {} /\ ~x.st.late

\* A stream that goes leaves all in order, when its part has a file.
LEMMA GoneTold ==
  ASSUME NEW w, NEW x, NEW n, Told(w, n), Gone(x), SameFiles(x.fl, w.fl),
         x.over = w.over, x.st.ok = w.st.ok, x.st.seq = w.st.seq,
         x.st.sessionPart = w.st.sessionPart, x.st.sessionId = w.st.sessionId,
         w.st.ok /\ w.st.named => w.st.active # NoFile
  PROVE  Told(x, n)
<1>1. StreamRight(x)
  BY DEF StreamRight, Gone
<1>2. WakesRight(x, n)
  BY DEF Told, WakesRight, Gone, SameFiles
<1>3. NamesRight(x)
  <2> SUFFICES ASSUME SearchFinds, NEW m \in DOMAIN x.fl
               PROVE  \/ m \in LeftOver /\ x.fl[m].id = -m /\ x.fl[m].part = 1
                      \/ x.fl[m].id \in 1 .. x.st.seq /\ m \in 1 .. x.st.seq
    BY DEF Told, NamesRight, Gone, Unfiled
  <2>1. m \in DOMAIN w.fl /\ x.fl[m].id = w.fl[m].id /\ x.fl[m].part = w.fl[m].part
    BY DEF SameFiles
  <2> QED BY <2>1 DEF Told, NamesRight
<1>4. PartsRight(x)
  <2> SUFFICES ASSUME SearchFinds PROVE PartsRight(x)
    BY DEF PartsRight
  <2>1. \A id \in Nat \ {0} : \E k \in Nat : HasParts(x.fl, id, k)
    BY SamePartsKept DEF Told, PartsRight
  <2>2. ASSUME x.st.ok, x.st.sessionPart # 0
        PROVE  HasParts(x.fl, x.st.sessionId, x.st.sessionPart)
    <3>1. HasParts(w.fl, w.st.sessionId, w.st.sessionPart)
      BY <2>2 DEF Told, PartsRight
    <3> QED BY <3>1, SamePartsKept
  <2> QED BY <2>1, <2>2 DEF PartsRight, Gone
<1>5. EndsRight(x)
  BY DEF EndsRight, Gone
<1> QED BY <1>1, <1>2, <1>3, <1>4, <1>5 DEF Told

\* So does one whose part never was.
LEMMA NeverWasTold ==
  ASSUME NEW w, NEW n \in Nat, Good(w, n), Told(w, n), Unfiled(w)
  PROVE  Told(StreamDiscard(PartNeverWas(w)), n) /\ Gone(StreamDiscard(PartNeverWas(w)))
<1> DEFINE p == PartNeverWas(w)
           x == StreamDiscard(p)
<1>1. /\ w \in Wholes /\ w.st.sessionPart \in Nat /\ w.st.hdrPart \in Nat /\ w.st.sessionId \in Nat
  BY DEF Good, Wholes, Stats
<1>2. /\ p.fl = w.fl /\ p.over = w.over /\ p.st.ok = w.st.ok /\ p.st.seq = w.st.seq
      /\ p.st.sessionPart = IF w.st.sessionPart <= 1 THEN 0 ELSE w.st.sessionPart - 1
      /\ p.st.sessionId = IF w.st.sessionPart <= 1 THEN 0 ELSE w.st.sessionId
  BY <1>1 DEF PartNeverWas, Wholes, Stats
<1>3. p \in Wholes
  BY PartNeverWasGood DEF Good
<1> HIDE DEF p
<1>4. /\ x.fl = w.fl /\ x.over = w.over /\ x.st.ok = w.st.ok /\ x.st.seq = w.st.seq
      /\ x.st.sessionPart = p.st.sessionPart /\ x.st.sessionId = p.st.sessionId
      /\ Gone(x)
  BY <1>2, <1>3 DEF StreamDiscard, Wholes, Stats, Gone
<1> HIDE DEF x
<1>5. StreamRight(x)
  BY <1>4 DEF StreamRight, Gone
<1>6. WakesRight(x, n)
  BY <1>4 DEF Told, WakesRight, Gone
<1>7. NamesRight(x)
  BY <1>1, <1>2, <1>4 DEF Told, NamesRight, Gone, Unfiled
<1>8. PartsRight(x)
  <2> SUFFICES ASSUME SearchFinds PROVE PartsRight(x)
    BY DEF PartsRight
  <2>1. ASSUME x.st.ok, x.st.sessionPart # 0
        PROVE  HasParts(x.fl, x.st.sessionId, x.st.sessionPart)
    BY <1>1, <1>2, <1>4, <2>1 DEF Told, PartsRight, Unfiled
  <2> QED BY <1>4, <2>1 DEF Told, PartsRight, Gone
<1>9. EndsRight(x)
  BY <1>4 DEF EndsRight, Gone
<1> QED BY <1>4, <1>5, <1>6, <1>7, <1>8, <1>9 DEF Told, x, p

\* A name is given: the next part of the session there is, or the first of one.
LEMMA SessionNameTold ==
  ASSUME NEW w, NEW n \in Nat, Good(w, n), Told(w, n), w.st.streamOpen
  PROVE  Told(SessionName(w), n) /\ SessionName(w).st.named
         /\ SessionName(w).st.ok = w.st.ok
         /\ SessionName(w).st.active = w.st.active
         /\ SessionName(w).st.endWanted = w.st.endWanted
<1>1. CASE w.st.named
  BY <1>1 DEF SessionName
<1>2. CASE ~w.st.named
  <2> DEFINE x == SessionName(w)
             first == w.st.sessionPart = 0
  <2>1. w \in Wholes /\ w.st.seq \in Nat /\ w.st.sessionPart \in Nat /\ w.st.sessionId \in Nat
    BY DEF Good, Wholes, Stats
  <2>2. /\ x.fl = w.fl /\ x.over = w.over /\ x.st.ok = w.st.ok /\ x.st.seq = w.st.seq + 1
        /\ x.st.named /\ x.st.streamOpen = w.st.streamOpen /\ x.st.active = w.st.active
        /\ x.st.late = w.st.late /\ x.st.wakes = w.st.wakes
        /\ x.st.endWanted = w.st.endWanted
        /\ x.st.pendingHasMbb = w.st.pendingHasMbb
        /\ x.st.hdrId = (IF first THEN w.st.seq + 1 ELSE w.st.sessionId)
        /\ x.st.hdrPart = (IF first THEN 1 ELSE w.st.sessionPart + 1)
        /\ x.st.sessionId = x.st.hdrId /\ x.st.sessionPart = x.st.hdrPart
    BY <1>2, <2>1 DEF SessionName, Wholes, Stats
  <2> HIDE DEF x
  <2>3. w.st.active = NoFile
    BY <1>2 DEF Told, StreamRight
  <2>4. StreamRight(x) /\ WakesRight(x, n)
    BY <2>1, <2>2, <2>3 DEF Told, StreamRight, WakesRight
  <2>7. EndsRight(x)
    BY <2>2, <2>3 DEF Told, EndsRight
  <2>5. NamesRight(x)
    <3> SUFFICES ASSUME SearchFinds PROVE NamesRight(x)
      BY DEF NamesRight
    <3>1. x.st.hdrId \in 1 .. x.st.seq
      BY <2>1, <2>2 DEF Told, NamesRight
    <3>2. ASSUME NEW m \in DOMAIN x.fl
          PROVE  \/ m \in LeftOver /\ x.fl[m].id = -m /\ x.fl[m].part = 1
                 \/ /\ x.fl[m].id \in 1 .. x.st.seq /\ m \in 1 .. x.st.seq
                    /\ m # x.st.seq
      BY <2>1, <2>2 DEF Told, NamesRight
    <3> QED BY <2>2, <3>1, <3>2 DEF Told, NamesRight
  <2>6. PartsRight(x)
    <3> SUFFICES ASSUME SearchFinds PROVE PartsRight(x)
      BY DEF PartsRight
    <3>1. x.st.hdrPart >= 1 /\ x.st.hdrPart - 1 = w.st.sessionPart
      BY <2>1, <2>2
    <3>2. ASSUME x.st.ok PROVE HasParts(x.fl, x.st.hdrId, x.st.hdrPart - 1)
      <4>1. CASE first
        <5>1. PartsOf(x.fl, x.st.hdrId) = {}
          <6> SUFFICES ASSUME NEW m \in DOMAIN w.fl, w.fl[m].id = w.st.seq + 1 PROVE FALSE
            BY <2>2, <4>1 DEF PartsOf
          <6>1. CASE m \in LeftOver /\ w.fl[m].id = -m
            <7>1. m \in Nat
              BY <6>1, StoreAssumption
            <7> QED BY <2>1, <6>1, <7>1
          <6>2. CASE w.fl[m].id \in 1 .. w.st.seq
            BY <2>1, <6>2
          <6> QED BY <6>1, <6>2 DEF Told, NamesRight
        <5>2. x.st.hdrPart - 1 = 0 /\ 1 .. 0 = {}
          BY <3>1, <4>1
        <5> QED BY <5>1, <5>2 DEF HasParts
      <4>2. CASE ~first
        BY <1>2, <2>2, <3>1, <3>2, <4>2 DEF Told, PartsRight
      <4> QED BY <4>1, <4>2
    <3>3. \A id \in Nat \ {0} : \E k \in Nat : HasParts(x.fl, id, k)
      BY <2>2 DEF Told, PartsRight
    <3> QED BY <2>2, <2>3, <3>1, <3>2, <3>3 DEF PartsRight
  <2> QED BY <2>2, <2>4, <2>5, <2>6, <2>7 DEF Told, x
<1> QED BY <1>1, <1>2

\* The name found is a file's for the first time: names given out are below it,
\* and the search does not end at one left over.
LEMMA NameIsNew ==
  ASSUME NEW w, NEW n \in Nat, Good(w, n), Told(w, n), Unfiled(w)
  PROVE  /\ FileNameNow(w) \in Nat /\ FileNameNow(w) >= w.st.seq /\ w.st.seq >= 1
         /\ SearchFinds => FileNameNow(w) \notin w.on
<1> DEFINE s0 == w.st.seq
           last == IF s0 >= SEQ_LIMIT - 1 THEN s0 ELSE SEQ_LIMIT - 1
           free == {m \in s0 .. last : m \notin w.on}
<1>1. w \in Wholes /\ s0 \in Nat /\ SEQ_LIMIT \in Nat /\ w.on \subseteq DOMAIN w.fl
  BY StoreAssumption DEF Good, Wholes, Stats
<1>2. s0 >= 1
  BY <1>1 DEF Told, StreamRight, Unfiled
<1>3. last \in Nat /\ last >= s0 /\ last >= SEQ_LIMIT - 1
  BY <1>1
<1>4. ASSUME SearchFinds PROVE last \notin w.on
  <2> SUFFICES ASSUME last \in DOMAIN w.fl PROVE FALSE
    BY <1>1
  <2>1. CASE last \in LeftOver
    BY <1>1, <1>3, <1>4, <2>1 DEF SearchFinds
  <2>2. CASE last \in 1 .. s0 /\ last # s0
    BY <1>1, <1>3, <2>2
  <2> QED BY <1>4, <2>1, <2>2 DEF Told, NamesRight
<1>5. (SearchFinds => last \in free) /\ free \subseteq s0 .. last /\ free \cap w.on = {}
  BY <1>1, <1>3, <1>4
<1>6. free # {} => \E k \in free : \A m \in free : k <= m
  <2> SUFFICES ASSUME free # {} PROVE \E k \in free : \A m \in free : k <= m
    OBVIOUS
  <2>0. free \subseteq Nat
    BY <1>1, <1>3
  <2> HIDE DEF free
  <2>1. PICK k \in free : \A m \in free : ~(<<m, k>> \in OpToRel(<, Nat))
    BY <2>0, NatLessThanWellFounded, WFMin
  <2>2. ASSUME NEW m \in free PROVE k <= m
    <3>1. m \in Nat /\ k \in Nat
      BY <2>0
    <3>2. m < k => <<m, k>> \in OpToRel(<, Nat)
      BY <3>1 DEF OpToRel
    <3>3. ~(m < k)
      BY <2>1, <3>2
    <3> QED BY <3>1, <3>3
  <2> QED BY <2>2
<1>7. FileNameNow(w) = IF free = {} THEN last ELSE CHOOSE k \in free : \A m \in free : k <= m
  BY DEF FileNameNow
<1>8. IF free = {} THEN FileNameNow(w) = last ELSE FileNameNow(w) \in free
  <2> HIDE DEF free, last
  <2> QED BY <1>6, <1>7
<1> HIDE DEF free, last
<1>9. FileNameNow(w) \in s0 .. last
  <2>1. last \in s0 .. last
    BY <1>1, <1>3
  <2> QED BY <1>5, <1>8, <2>1
<1>10. SearchFinds => FileNameNow(w) \notin w.on
  BY <1>5, <1>8
<1> QED BY <1>1, <1>2, <1>9, <1>10

\* The search leaves all in order: the number it ends at is not a file's of this
\* boot.
LEMMA SeqMovedTold ==
  ASSUME NEW w, NEW n \in Nat, Good(w, n), Told(w, n), Unfiled(w)
  PROVE  Told(SeqMoved(w), n)
<1> DEFINE x == SeqMoved(w)
           name == FileNameNow(w)
<1>1. w \in Wholes /\ w.st \in Stats /\ w.st.seq \in Nat
  BY DEF Good, Wholes, Stats
<1>2. name \in Nat /\ name >= w.st.seq /\ w.st.seq >= 1 /\ (SearchFinds => name \notin w.on)
  BY NameIsNew
<1> HIDE DEF name
<1>3. /\ x.fl = w.fl /\ x.over = w.over
      /\ x.st.seq = IF name \in w.on THEN name + 1 ELSE name
      /\ x.st.ok = w.st.ok /\ x.st.streamOpen = w.st.streamOpen /\ x.st.named = w.st.named
      /\ x.st.pendingHasMbb = w.st.pendingHasMbb /\ x.st.active = w.st.active
      /\ x.st.hdrId = w.st.hdrId /\ x.st.hdrPart = w.st.hdrPart
      /\ x.st.sessionPart = w.st.sessionPart /\ x.st.sessionId = w.st.sessionId
      /\ x.st.late = w.st.late /\ x.st.wakes = w.st.wakes /\ x.st.endWanted = w.st.endWanted
  BY <1>1, <1>2 DEF SeqMoved, Wholes, Stats, name
<1> HIDE DEF x
<1>4. StreamRight(x) /\ WakesRight(x, n) /\ EndsRight(x)
  BY <1>1, <1>2, <1>3 DEF Told, StreamRight, WakesRight, EndsRight
<1>5. NamesRight(x)
  <2> SUFFICES ASSUME SearchFinds PROVE NamesRight(x)
    BY DEF NamesRight
  <2>1. x.st.seq = name /\ x.st.seq >= w.st.seq
    BY <1>1, <1>2, <1>3
  <2>2. ASSUME NEW m \in DOMAIN x.fl
        PROVE  \/ m \in LeftOver /\ x.fl[m].id = -m /\ x.fl[m].part = 1
               \/ /\ x.fl[m].id \in 1 .. x.st.seq /\ m \in 1 .. x.st.seq
                  /\ m # x.st.seq
    BY <1>1, <1>2, <1>3, <2>1 DEF Told, NamesRight
  <2>3. x.st.hdrId \in 1 .. x.st.seq
    BY <1>1, <1>2, <1>3, <2>1 DEF Told, NamesRight, Unfiled
  <2>4. x.st.sessionPart # 0 => x.st.sessionId \in 1 .. x.st.seq
    BY <1>1, <1>2, <1>3, <2>1 DEF Told, NamesRight
  <2> QED BY <1>3, <2>2, <2>3, <2>4 DEF Told, NamesRight
<1>6. PartsRight(x)
  BY <1>3 DEF Told, PartsRight
<1> QED BY <1>4, <1>5, <1>6 DEF Told, x

\* A file that could not be created leaves all in order.
LEMMA NotCreatedTold ==
  ASSUME NEW w, NEW n \in Nat, Good(w, n), Told(w, n), Unfiled(w)
  PROVE  LET x == NotCreated(w)
         IN  /\ Told(x, n) /\ x.st.ok = w.st.ok /\ x.st.named = w.st.named
             /\ x.st.active = w.st.active
<1> DEFINE v == IF w.st.ok THEN SeqMoved(w) ELSE w
           x == NotCreated(w)
<1>1. Good(v, n) /\ Told(v, n)
  BY SeqMovedGood, SeqMovedTold
<1>2. v.st.ok = w.st.ok /\ v.st.named = w.st.named /\ v.st.active = w.st.active
  BY DEF SeqMoved, Good, Wholes, Stats
<1>3. x = [v EXCEPT !.st.openFailed = TRUE]
  BY DEF NotCreated
<1> HIDE DEF v, x
<1>4. Within(x, v)
  BY <1>1, <1>3 DEF Good, Within, Wholes, Stats, Told, StreamRight
<1>5. Told(x, n)
  BY <1>1, <1>4, WithinTold
<1> QED BY <1>2, <1>4, <1>5 DEF x, Within

\* A file is created: of the next part of its session, under a name of its own.
LEMMA CreateTold ==
  ASSUME NEW w, NEW n \in Nat, Good(w, n), Told(w, n), Unfiled(w), w.st.ok
  PROVE  Told(Create(w), n) /\ Create(w).st.active # NoFile
<1> DEFINE x == Create(w)
           name == FileNameNow(w)
           id == w.st.hdrId
           p == w.st.hdrPart
<1>1. /\ w \in Wholes /\ w.st \in Stats /\ id \in Nat /\ p \in Nat /\ w.st.seq \in Nat
      /\ w.st.sessionId \in Nat
  BY DEF Good, Wholes, Stats
<1>2. name \in Nat /\ name >= w.st.seq /\ w.st.seq >= 1 /\ (SearchFinds => name \notin w.on)
  BY NameIsNew
<1> HIDE DEF name
<1>3. /\ x.fl = [m \in DOMAIN w.fl \cup {name} |-> IF m = name THEN NewFile(w.st) ELSE w.fl[m]]
      /\ x.over = (w.over \/ name \in w.on) /\ x.st.active = name
      /\ x.st.seq = IF name \in w.on THEN name + 1 ELSE name
      /\ x.st.ok = w.st.ok /\ x.st.streamOpen = w.st.streamOpen /\ x.st.named = w.st.named
      /\ x.st.pendingHasMbb = w.st.pendingHasMbb
      /\ x.st.hdrId = id /\ x.st.hdrPart = p
      /\ x.st.sessionPart = w.st.sessionPart /\ x.st.sessionId = w.st.sessionId
      /\ x.st.late = w.st.late /\ x.st.wakes = w.st.wakes /\ x.st.endWanted = w.st.endWanted
  BY <1>1, <1>2 DEF Create, SeqMoved, Wholes, Stats, name
<1> HIDE DEF x
<1>4. /\ DOMAIN x.fl = DOMAIN w.fl \cup {name}
      /\ x.fl[name].id = id /\ x.fl[name].part = p
      /\ x.fl[name].wakes = {} /\ x.fl[name].late = FALSE
      /\ \A m \in DOMAIN w.fl : m # name => x.fl[m] = w.fl[m]
  BY <1>3 DEF NewFile
<1>5. w.st.named /\ w.st.active = NoFile /\ name # NoFile
  BY <1>1, <1>2 DEF Unfiled, NoFile
<1>6. ASSUME SearchFinds, name \in DOMAIN w.fl PROVE name \in LeftOver /\ w.fl[name].id = -name
  BY <1>1, <1>2, <1>6 DEF Told, NamesRight, Unfiled
<1>7. StreamRight(x)
  BY <1>1, <1>2, <1>3, <1>5 DEF Told, StreamRight
<1>8. WakesRight(x, n)
  <2>1. ASSUME NEW m \in DOMAIN x.fl
        PROVE  x.fl[m].late \/ \E k \in Nat : x.fl[m].wakes \subseteq {k}
    <3>1. CASE m = name
      BY <1>4, <3>1
    <3>2. CASE m # name
      BY <1>4, <3>2 DEF Told, WakesRight
    <3> QED BY <3>1, <3>2
  <2> QED BY <1>3, <1>4, <2>1 DEF Told, WakesRight
<1>9. NamesRight(x)
  <2> SUFFICES ASSUME SearchFinds PROVE NamesRight(x)
    BY DEF NamesRight
  <2>1. ASSUME NEW m \in DOMAIN x.fl
        PROVE  \/ m \in LeftOver /\ x.fl[m].id = -m /\ x.fl[m].part = 1
               \/ x.fl[m].id \in 1 .. x.st.seq /\ m \in 1 .. x.st.seq
    <3>1. CASE m = name
      BY <1>1, <1>2, <1>3, <1>4, <1>5, <3>1 DEF Told, NamesRight
    <3>2. CASE m # name
      BY <1>1, <1>2, <1>3, <1>4, <3>2 DEF Told, NamesRight
    <3> QED BY <3>1, <3>2
  <2>2. ~Unfiled(x)
    BY <1>3, <1>5 DEF Unfiled
  <2>3. x.st.hdrId \in 1 .. x.st.seq
    BY <1>1, <1>2, <1>3, <1>5 DEF Told, NamesRight
  <2>4. x.st.sessionPart # 0 => x.st.sessionId \in 1 .. x.st.seq
    BY <1>1, <1>2, <1>3 DEF Told, NamesRight
  <2>5. ~x.over
    BY <1>2, <1>3 DEF Told, NamesRight
  <2> QED BY <2>1, <2>2, <2>3, <2>4, <2>5 DEF NamesRight
<1>10. PartsRight(x)
  <2> SUFFICES ASSUME SearchFinds PROVE PartsRight(x)
    BY DEF PartsRight
  <2>1. id # 0 /\ p >= 1 /\ HasParts(w.fl, id, p - 1)
    BY <1>1, <1>5 DEF Told, NamesRight, PartsRight
  <2>2. name \notin PartsOf(w.fl, id)
    BY <1>1, <1>2, <1>6 DEF PartsOf
  <2>3. PartsOf(x.fl, id) = PartsOf(w.fl, id) \cup {name}
    BY <1>4 DEF PartsOf
  <2>4. HasParts(x.fl, id, p)
    <3>1. \A m \in PartsOf(w.fl, id) : x.fl[m].part = w.fl[m].part /\ w.fl[m].part \in 1 .. (p - 1)
      BY <1>4, <2>1, <2>2 DEF HasParts, PartsOf
    <3>2. {x.fl[m].part : m \in PartsOf(x.fl, id)} = {w.fl[m].part : m \in PartsOf(w.fl, id)} \cup {p}
      BY <1>4, <2>3, <3>1
    <3>3. 1 .. p = (1 .. (p - 1)) \cup {p} /\ p \notin 1 .. (p - 1)
      BY <1>1, <2>1
    <3>4. {w.fl[m].part : m \in PartsOf(w.fl, id)} = 1 .. (p - 1)
      BY <2>1 DEF HasParts
    <3>5. ASSUME NEW m \in PartsOf(x.fl, id), NEW k \in PartsOf(x.fl, id), x.fl[m].part = x.fl[k].part
          PROVE  m = k
      BY <1>4, <2>1, <2>3, <3>1, <3>3, <3>5 DEF HasParts
    <3> QED BY <3>2, <3>3, <3>4, <3>5 DEF HasParts
  <2>5. ASSUME NEW i \in Nat \ {0}, i # id
        PROVE  \E k \in Nat : HasParts(x.fl, i, k)
    <3>1. PartsOf(x.fl, i) = PartsOf(w.fl, i) /\ name \notin PartsOf(w.fl, i)
      BY <1>2, <1>4, <1>6, <2>5 DEF PartsOf
    <3>2. \A m \in PartsOf(w.fl, i) : x.fl[m] = w.fl[m]
      BY <1>4, <3>1 DEF PartsOf
    <3>3. PICK k \in Nat : HasParts(w.fl, i, k)
      BY DEF Told, PartsRight
    <3>4. {x.fl[m].part : m \in PartsOf(x.fl, i)} = {w.fl[m].part : m \in PartsOf(w.fl, i)}
      BY <3>1, <3>2
    <3>5. HasParts(x.fl, i, k)
      BY <3>1, <3>2, <3>3, <3>4 DEF HasParts
    <3> QED BY <3>5
  <2>6. \A i \in Nat \ {0} : \E k \in Nat : HasParts(x.fl, i, k)
    BY <1>1, <2>4, <2>5
  <2> QED BY <1>3, <1>5, <2>1, <2>4, <2>6 DEF Told, PartsRight
<1>11. EndsRight(x)
  BY <1>3, <1>4 DEF Told, EndsRight
<1> QED BY <1>3, <1>5, <1>7, <1>8, <1>9, <1>10, <1>11 DEF Told, x

\* What waits reaches the open file, which is of the same wake, or late.
LEMMA TakenTold ==
  ASSUME NEW w, NEW n \in Nat, Good(w, n), Told(w, n), w.st.active # NoFile, NEW lines \in Nat
  PROVE  Told(Taken(w, lines), n) /\ Taken(w, lines).st.active # NoFile
         /\ Taken(w, lines).st.ok = w.st.ok /\ Taken(w, lines).st.named = w.st.named
<1> DEFINE x == Taken(w, lines)
           a == w.st.active
           rec == [w.fl[a] EXCEPT
                     !.wakes = w.fl[a].wakes \cup w.st.wakes,
                     !.late = w.fl[a].late \/ w.st.late]
<1>1. w \in Wholes /\ w.st \in Stats /\ a \in DOMAIN w.fl
  BY DEF Good, Wholes
<1>2. PICK D \in SUBSET Nat : w.fl \in [D -> FileRecords]
  BY <1>1 DEF Wholes, Contents
<1>3. /\ x.fl = [w.fl EXCEPT ![a] = rec] /\ x.over = w.over
      /\ x.st.ok = w.st.ok /\ x.st.streamOpen = w.st.streamOpen /\ x.st.named = w.st.named
      /\ x.st.active = a /\ x.st.seq = w.st.seq
      /\ x.st.pendingHasMbb = w.st.pendingHasMbb
      /\ x.st.hdrId = w.st.hdrId /\ x.st.hdrPart = w.st.hdrPart
      /\ x.st.sessionPart = w.st.sessionPart /\ x.st.sessionId = w.st.sessionId
      /\ x.st.late = w.st.late /\ x.st.wakes = w.st.wakes /\ x.st.endWanted = w.st.endWanted
  BY <1>1 DEF Taken, Wholes, Stats
<1> HIDE DEF x
<1>4. w.fl[a] \in FileRecords
  BY <1>1, <1>2
<1>5. /\ rec.id = w.fl[a].id /\ rec.part = w.fl[a].part
      /\ rec.wakes = w.fl[a].wakes \cup w.st.wakes /\ rec.late = (w.fl[a].late \/ w.st.late)
  BY <1>4 DEF FileRecords
<1> HIDE DEF rec
<1>6. /\ DOMAIN x.fl = DOMAIN w.fl /\ x.fl[a] = rec
      /\ \A m \in DOMAIN w.fl : m # a => x.fl[m] = w.fl[m]
      /\ \A m \in DOMAIN w.fl : x.fl[m].id = w.fl[m].id /\ x.fl[m].part = w.fl[m].part
  BY <1>1, <1>2, <1>3, <1>5
<1>7. StreamRight(x)
  BY <1>3 DEF Told, StreamRight
<1>8. WakesRight(x, n)
  <2>1. rec.late \/ rec.wakes \subseteq {n}
    BY <1>5 DEF Told, WakesRight
  <2>2. ASSUME NEW m \in DOMAIN x.fl
        PROVE  x.fl[m].late \/ \E k \in Nat : x.fl[m].wakes \subseteq {k}
    BY <1>6, <2>1 DEF Told, WakesRight
  <2> QED BY <1>3, <1>6, <2>1, <2>2 DEF Told, WakesRight
<1>9. NamesRight(x)
  BY <1>3, <1>6 DEF Told, NamesRight, Unfiled
<1>10. PartsRight(x)
  <2> SUFFICES ASSUME SearchFinds PROVE PartsRight(x)
    BY DEF PartsRight
  <2>1. ASSUME NEW id, NEW k, HasParts(w.fl, id, k) PROVE HasParts(x.fl, id, k)
    <3>1. PartsOf(x.fl, id) = PartsOf(w.fl, id) /\ PartsOf(w.fl, id) \subseteq DOMAIN w.fl
      BY <1>6 DEF PartsOf
    <3>2. {x.fl[m].part : m \in PartsOf(x.fl, id)} = {w.fl[m].part : m \in PartsOf(w.fl, id)}
      BY <1>6, <3>1
    <3> QED BY <1>6, <2>1, <3>1, <3>2 DEF HasParts
  <2>2. \A id \in Nat \ {0} : \E k \in Nat : HasParts(x.fl, id, k)
    BY <2>1 DEF Told, PartsRight
  <2> QED BY <1>3, <2>1, <2>2 DEF Told, PartsRight
<1>11. EndsRight(x)
  BY <1>3, <1>5, <1>6 DEF Told, EndsRight
<1> QED BY <1>3, <1>7, <1>8, <1>9, <1>10, <1>11 DEF Told, x

\* A write says whether the stream has a file now.
Wrote(o, w, n) ==
    /\ Told(o.w, n) /\ o.w.st.ok = w.st.ok /\ o.w.st.named = w.st.named
    /\ w.st.named => (o.result = "NOT_OPENED" <=> o.w.st.active = NoFile)

LEMMA WrittenTold ==
  ASSUME NEW w, NEW n \in Nat, Good(w, n), Told(w, n), w.st.active # NoFile, NEW e \in Answers
  PROVE  LET o == Written(w, e)
         IN  /\ Told(o.w, n) /\ o.w.st.active # NoFile
             /\ o.w.st.ok = w.st.ok /\ o.w.st.named = w.st.named
             /\ o.result \in {"WROTE", "SHORT"}
<1> DEFINE o == Written(w, e)
<1>1. w.st.pendingLines \in Nat
  BY StoreAssumption DEF Good, Wholes, Stats
<1>2. \/ o = [w |-> Taken(w, w.st.pendingLines), result |-> "WROTE"]
      \/ \E k \in Nat : o = [w |-> [Taken(w, k) EXCEPT !.torn = @ + k], result |-> "SHORT"]
  BY WrittenCases
<1> HIDE DEF o
<1>3. CASE o = [w |-> Taken(w, w.st.pendingLines), result |-> "WROTE"]
  BY <1>1, <1>3, TakenTold DEF o
<1>4. ASSUME NEW k \in Nat, o = [w |-> [Taken(w, k) EXCEPT !.torn = @ + k], result |-> "SHORT"]
      PROVE  /\ Told(o.w, n) /\ o.w.st.active # NoFile
             /\ o.w.st.ok = w.st.ok /\ o.w.st.named = w.st.named
             /\ o.result \in {"WROTE", "SHORT"}
  <2> DEFINE t == Taken(w, k)
  <2>1. /\ Good(t, n) /\ Told(t, n) /\ t.st.active # NoFile
        /\ t.st.ok = w.st.ok /\ t.st.named = w.st.named
    BY TakenGood, TakenTold
  <2>2. o.w = [t EXCEPT !.torn = @ + k] /\ o.result = "SHORT"
    BY <1>4
  <2> HIDE DEF t
  <2>3. Good(o.w, n) /\ o.w.st = t.st /\ o.w.fl = t.fl /\ o.w.over = t.over
    BY <2>1, <2>2, TornGood
  <2>4. Within(o.w, t)
    BY <2>1, <2>3 DEF Within, Told, StreamRight
  <2> QED BY <2>1, <2>2, <2>3, <2>4, WithinTold
<1> QED BY <1>2, <1>3, <1>4 DEF o

LEMMA WriteOutTold ==
  ASSUME NEW w, NEW n \in Nat, Good(w, n), Told(w, n), w.st.streamOpen,
         NEW retryNow \in BOOLEAN, NEW e \in Answers
  PROVE  Wrote(WriteOut(w, retryNow, e), w, n)
<1> DEFINE o == WriteOut(w, retryNow, e)
<1> SUFFICES Wrote(o, w, n)
  OBVIOUS
<1>1. w \in Wholes
  BY DEF Good
<1>2. CASE ~w.st.named
  <2>1. o = [w |-> w, result |-> "NOT_OPENED"]
    BY <1>2 DEF WriteOut
  <2> QED BY <1>2, <2>1 DEF Wrote
<1>3. CASE w.st.named /\ w.st.active # NoFile
  <2>1. o = Written(w, e)
    BY <1>3 DEF WriteOut
  <2> HIDE DEF o
  <2>2. /\ Told(o.w, n) /\ o.w.st.active # NoFile
        /\ o.w.st.ok = w.st.ok /\ o.w.st.named = w.st.named
        /\ o.result \in {"WROTE", "SHORT"}
    BY <1>3, <2>1, WrittenTold
  <2> QED BY <2>2 DEF Wrote
<1>4. CASE Unfiled(w) /\ o = [w |-> w, result |-> "NOT_OPENED"]
  <2> HIDE DEF o
  <2> QED BY <1>4 DEF Wrote, Unfiled
<1>5. CASE Unfiled(w) /\ o = [w |-> NotCreated(w), result |-> "NOT_OPENED"]
  <2> DEFINE x == NotCreated(w)
  <2>1. /\ Told(x, n) /\ x.st.ok = w.st.ok /\ x.st.named = w.st.named
        /\ x.st.active = w.st.active
    BY <1>5, NotCreatedTold
  <2> HIDE DEF x
  <2>2. o = [w |-> x, result |-> "NOT_OPENED"]
    BY <1>5 DEF x
  <2> HIDE DEF o
  <2>3. o.w = x /\ o.result = "NOT_OPENED"
    BY <2>2
  <2> QED BY <1>5, <2>1, <2>3 DEF Wrote, Unfiled
<1>6. CASE Unfiled(w) /\ w.st.ok /\ o = Written(Create(w), e)
  <2> DEFINE c == Create(w)
  <2>1. Good(c, n) /\ Told(c, n) /\ c.st.active # NoFile
    BY <1>6, CreateGood, CreateTold
  <2>2. c.st.ok = w.st.ok /\ c.st.named = w.st.named
    BY <1>1 DEF Create, SeqMoved, Wholes, Stats
  <2>3. o = Written(c, e)
    BY <1>6
  <2> HIDE DEF c, o
  <2>4. /\ Told(o.w, n) /\ o.w.st.active # NoFile
        /\ o.w.st.ok = c.st.ok /\ o.w.st.named = c.st.named
        /\ o.result \in {"WROTE", "SHORT"}
    BY <2>1, <2>3, WrittenTold
  <2> QED BY <2>2, <2>4 DEF Wrote
<1>7. \/ ~w.st.named
      \/ w.st.named /\ w.st.active # NoFile
      \/ Unfiled(w) /\ o = [w |-> w, result |-> "NOT_OPENED"]
      \/ Unfiled(w) /\ o = [w |-> NotCreated(w), result |-> "NOT_OPENED"]
      \/ Unfiled(w) /\ w.st.ok /\ o = Written(Create(w), e)
  BY DEF WriteOut, Unfiled
<1> QED BY <1>2, <1>3, <1>4, <1>5, <1>6, <1>7

\* A stream is dropped, counted or not, when its part has a file, or none can be.
LEMMA DropTold ==
  ASSUME NEW w, NEW n \in Nat, Good(w, n), Told(w, n),
         w.st.ok /\ w.st.named => w.st.active # NoFile
  PROVE  LET x == StreamDiscard(Dropped(w)) IN Told(x, n) /\ Gone(x)
<1> DEFINE x == StreamDiscard(Dropped(w))
<1>1. w \in Wholes
  BY DEF Good
<1>2. /\ Gone(x) /\ x.fl = w.fl /\ x.over = w.over
      /\ x.st.ok = w.st.ok /\ x.st.seq = w.st.seq
      /\ x.st.sessionPart = w.st.sessionPart /\ x.st.sessionId = w.st.sessionId
  BY <1>1 DEF StreamDiscard, Dropped, Wholes, Stats, Gone
<1> HIDE DEF x
<1>3. SameFiles(x.fl, w.fl)
  BY <1>2 DEF SameFiles
<1> QED BY <1>2, <1>3, GoneTold DEF x

\* A buffer that was written is empty.
LEMMA EmptiedTold ==
  ASSUME NEW w, NEW n \in Nat, Good(w, n), Told(w, n)
  PROVE  /\ Told(Emptied(w), n) /\ Within(Emptied(w), w)
         /\ Told(Committed(w), n) /\ Within(Committed(w), w)
<1>1. w \in Wholes
  BY DEF Good
<1>2. Within(Emptied(w), w)
  BY <1>1 DEF Emptied, Wholes, Stats, Within
<1>3. Within(Committed(w), w)
  BY <1>1 DEF Committed, Emptied, Wholes, Stats, Within
<1> QED BY <1>2, <1>3, WithinTold

\* A file is closed, and its stream over.
LEMMA CloseTold ==
  ASSUME NEW w, NEW n \in Nat, Good(w, n), Told(w, n), w.st.active # NoFile,
         NEW e \in Answers
  PROVE  Told(Close(w, e), n) /\ Gone(Close(w, e))
<1> DEFINE x == Close(w, e)
<1>1. w \in Wholes
  BY DEF Good
<1>2. /\ x.fl = w.fl
      /\ x.over = w.over /\ x.st.ok = w.st.ok /\ x.st.seq = w.st.seq
      /\ x.st.sessionPart = w.st.sessionPart /\ x.st.sessionId = w.st.sessionId
      /\ Gone(x)
  <2> DEFINE counted == [w EXCEPT !.off = @ + 1]
             there == [counted EXCEPT !.wr = @ + 1]
             both == [there EXCEPT !.torn = @ + 1]
             Lost(v) == [v EXCEPT !.st.droppedLines = @ + 1]
  <2>1. x \in {StreamDiscard(there), StreamDiscard(Lost(counted)), StreamDiscard(Lost(both))}
    BY DEF Close
  <2> HIDE DEF x
  <2>2. CASE x = StreamDiscard(there)
    BY <1>1, <2>2 DEF StreamDiscard, Wholes, Stats, Gone
  <2>3. CASE x = StreamDiscard(Lost(counted))
    BY <1>1, <2>3 DEF StreamDiscard, Wholes, Stats, Gone
  <2>4. CASE x = StreamDiscard(Lost(both))
    <3> DEFINE b == Lost(both)
    <3>1. /\ b \in Wholes /\ b.fl = w.fl /\ b.over = w.over /\ b.st.ok = w.st.ok
          /\ b.st.seq = w.st.seq /\ b.st.sessionPart = w.st.sessionPart
          /\ b.st.sessionId = w.st.sessionId
      <4>1. /\ both \in Wholes /\ both.fl = w.fl /\ both.over = w.over /\ both.st = w.st
        <5>1. /\ counted \in Wholes /\ counted.fl = w.fl /\ counted.over = w.over
              /\ counted.st = w.st
          BY <1>1 DEF Wholes
        <5> HIDE DEF counted
        <5>2. /\ there \in Wholes /\ there.fl = w.fl /\ there.over = w.over
              /\ there.st = w.st
          BY <5>1 DEF Wholes
        <5> HIDE DEF there
        <5> QED
          BY <5>2 DEF Wholes
      <4> HIDE DEF both
      <4> QED
        BY <4>1 DEF Wholes, Stats
    <3>2. x = StreamDiscard(b)
      BY <2>4
    <3> HIDE DEF b
    <3> QED
      BY <3>1, <3>2 DEF StreamDiscard, Wholes, Stats, Gone
  <2> QED
    BY <2>1, <2>2, <2>3, <2>4
<1> HIDE DEF x
<1>3. SameFiles(x.fl, w.fl)
  BY <1>2 DEF SameFiles
<1> QED BY <1>2, <1>3, GoneTold DEF x

\* A session ends: its stream is gone, or late.
LEMMA SessionEndTold ==
  ASSUME NEW w, NEW n \in Nat, NEW k \in Nat, Sound(w, n, k), Told(w, n),
         NEW e \in Answers
  PROVE  LET x == SessionEnd(w, e)
         IN  Told(x, n) /\ x.st.active = NoFile /\ (x.st.late \/ x.st.wakes = {})
<1> DEFINE o == WriteOut(w, TRUE, e)
<1>0. Good(w, n)
  BY DEF Sound
<1>1. CASE ~w.st.streamOpen \/ ~w.st.named
  <2>1. SessionEnd(w, e) = w
    BY <1>1 DEF SessionEnd
  <2> QED BY <1>1, <2>1 DEF Told, StreamRight
<1>2. CASE w.st.streamOpen /\ w.st.named
  <2>1. Outcome(o, w, n) /\ Wrote(o, w, n)
    <3>1. PICK retryNow \in BOOLEAN : retryNow = TRUE
      OBVIOUS
    <3>2. Outcome(WriteOut(w, retryNow, e), w, n)
      BY <1>0, <1>2, WriteOutGood
    <3>3. Wrote(WriteOut(w, retryNow, e), w, n)
      BY <1>0, <1>2, WriteOutTold
    <3> QED BY <3>1, <3>2, <3>3
  <2>2. SessionEnd(w, e) =
          CASE o.result = "WROTE" -> Close(Emptied(o.w), e)
            [] o.result = "NOT_OPENED" -> EndLater(o.w)
            [] o.result = "SHORT" -> StreamDiscard(Dropped(o.w))
    BY <1>2 DEF SessionEnd
  <2> HIDE DEF o
  <2>3. Good(o.w, n) /\ Told(o.w, n) /\ o.result \in {"WROTE", "NOT_OPENED", "SHORT"}
        /\ (o.result = "NOT_OPENED" <=> o.w.st.active = NoFile)
    BY <1>2, <2>1 DEF Outcome, Wrote
  <2>4. CASE o.result = "WROTE"
    <3> DEFINE v == Emptied(o.w)
    <3>1. Told(v, n) /\ v.st.active # NoFile
      BY <2>3, <2>4, EmptiedTold DEF Within
    <3>2. Good(v, n)
      <4>1. o.w.off + o.w.torn = o.w.wr + o.w.st.droppedLines + k
        BY <2>1, <2>4, OutcomeBooks
      <4> QED BY <2>3, <4>1, EmptiedSound DEF Sound
    <3> HIDE DEF v
    <3>3. Told(Close(v, e), n) /\ Gone(Close(v, e))
      BY <1>0, <3>1, <3>2, CloseTold
    <3> QED BY <2>2, <2>4, <3>3 DEF Gone, v
  <2>5. CASE o.result = "NOT_OPENED"
    <3> DEFINE x == EndLater(o.w)
    <3>1. o.w \in Wholes
      BY <2>3 DEF Good
    <3>2. Within(x, o.w) /\ x.st.late /\ x.st.active = o.w.st.active
      BY <2>3, <3>1 DEF EndLater, Wholes, Stats, Within, Told, StreamRight
    <3> HIDE DEF x
    <3>3. Told(x, n)
      BY <2>3, <3>2, WithinTold
    <3> QED BY <2>2, <2>3, <2>5, <3>2, <3>3 DEF x
  <2>6. CASE o.result = "SHORT"
    <3>1. Told(StreamDiscard(Dropped(o.w)), n) /\ Gone(StreamDiscard(Dropped(o.w)))
      BY <2>3, <2>6, DropTold
    <3> QED BY <2>2, <2>6, <3>1 DEF Gone
  <2> QED BY <2>3, <2>4, <2>5, <2>6
<1> QED BY <1>1, <1>2

\* What comes of a write leaves all in order: a part that never was takes its
\* number back, and one whose file is full, or whose end waited, ends.
LEMMA AfterWriteTold ==
  ASSUME NEW v, NEW o, NEW n \in Nat, NEW k \in Nat,
         Sound(v, n, k), Outcome(o, v, n), v.st.named, Wrote(o, v, n),
         NEW force \in BOOLEAN, NEW e \in Answers
  PROVE  Told(AfterWrite(o, force, e), n) /\ NoEndWaits(AfterWrite(o, force, e))
<1>1. /\ o.result = "WROTE" => o.w.off + o.w.torn = o.w.wr + o.w.st.droppedLines + k
      /\ o.result # "WROTE" => Sound(o.w, n, k)
  BY OutcomeBooks
<1>2. Good(o.w, n) /\ Told(o.w, n) /\ o.w.st.named
      /\ (o.result = "NOT_OPENED" <=> o.w.st.active = NoFile)
  BY DEF Outcome, Wrote
<1>3. CASE o.result = "WROTE"
  <2> DEFINE done == Committed(o.w)
  <2>1. AfterWrite(o, force, e) = IF EndDue(done) THEN SessionEnd(done, e) ELSE done
    BY <1>3 DEF AfterWrite
  <2>2. o.w.off + o.w.torn = o.w.wr + o.w.st.droppedLines + k
    BY <1>1, <1>3
  <2>3. Sound(done, n, k)
    BY <1>2, <2>2, CommittedSound
  <2>4. Told(done, n)
    BY <1>2, EmptiedTold
  <2> HIDE DEF done
  <2>5. Told(SessionEnd(done, e), n) /\ SessionEnd(done, e).st.active = NoFile
    BY <2>3, <2>4, SessionEndTold
  <2> QED BY <2>1, <2>4, <2>5 DEF EndDue, NoEndWaits
<1>4. CASE o.result = "NOT_OPENED"
  <2>1. AfterWrite(o, force, e) \in {o.w, StreamDiscard(PartNeverWas(Dropped(o.w)))}
    BY <1>4 DEF AfterWrite
  <2>2. /\ Told(StreamDiscard(PartNeverWas(Dropped(o.w))), n)
        /\ Gone(StreamDiscard(PartNeverWas(Dropped(o.w))))
    <3> DEFINE d == Dropped(o.w)
    <3>1. o.w \in Wholes
      BY <1>2 DEF Good
    <3>2. Within(d, o.w)
      BY <1>2, <3>1 DEF Dropped, Wholes, Stats, Within, Told, StreamRight
    <3>3. Sound(o.w, n, k)
      BY <1>1, <1>4
    <3>4. Good(d, n)
      BY <3>3, DropSound
    <3> HIDE DEF d
    <3>5. Told(d, n) /\ Unfiled(d)
      BY <1>2, <1>4, <3>2, WithinTold DEF Within, Unfiled
    <3> QED BY <3>4, <3>5, NeverWasTold DEF d
  <2> QED BY <1>2, <1>4, <2>1, <2>2 DEF NoEndWaits, Gone
<1>5. CASE o.result = "SHORT"
  <2>1. AfterWrite(o, force, e) = StreamDiscard(Dropped(o.w))
    BY <1>5 DEF AfterWrite
  <2>2. Told(StreamDiscard(Dropped(o.w)), n) /\ Gone(StreamDiscard(Dropped(o.w)))
    BY <1>2, <1>5, DropTold
  <2> QED BY <2>1, <2>2 DEF NoEndWaits, Gone
<1> QED BY <1>3, <1>4, <1>5 DEF Outcome

LEMMA CommitPendingTold ==
  ASSUME NEW w, NEW n \in Nat, NEW k \in Nat, Sound(w, n, k), Told(w, n),
         NEW force \in BOOLEAN, NEW e \in Answers
  PROVE  /\ Told(CommitPending(w, force, e), n)
         /\ NoEndWaits(w) => NoEndWaits(CommitPending(w, force, e))
<1> DEFINE notesOnly == ~w.st.pendingHasMbb /\ w.st.active = NoFile
           v == IF notesOnly THEN SessionName(w) ELSE w
           o == WriteOut(v, force, e)
           idle == ~w.st.streamOpen \/ w.st.pendingLines = 0 \/ (notesOnly /\ ~force)
<1>1. CommitPending(w, force, e) = IF idle THEN w
                                   ELSE IF ~w.st.ok THEN StreamDiscard(Dropped(v))
                                   ELSE AfterWrite(o, force, e)
  BY Zenon DEF CommitPending
<1>2. CASE ~idle
  <2>1. Sound(v, n, k) /\ v.st.streamOpen
    BY <1>2, SessionNameSound
  <2>2. Told(v, n) /\ v.st.named /\ v.st.ok = w.st.ok
    <3>1. CASE notesOnly
      BY <1>2, <3>1, SessionNameTold DEF Sound
    <3>2. CASE ~notesOnly
      BY <3>2 DEF Told, StreamRight
    <3> QED BY <3>1, <3>2
  <2> HIDE DEF v, idle
  <2>3. Outcome(o, v, n) /\ Wrote(o, v, n)
    <3>1. Good(v, n)
      BY <2>1 DEF Sound
    <3> QED BY <2>1, <2>2, <3>1, WriteOutGood, WriteOutTold
  <2> HIDE DEF o
  <2>4. ~w.st.ok => Told(StreamDiscard(Dropped(v)), n) /\ NoEndWaits(StreamDiscard(Dropped(v)))
    BY <2>1, <2>2, DropTold DEF Sound, Gone, NoEndWaits
  <2>5. Told(AfterWrite(o, force, e), n) /\ NoEndWaits(AfterWrite(o, force, e))
    BY <2>1, <2>2, <2>3, AfterWriteTold
  <2> QED BY <1>1, <1>2, <2>4, <2>5
<1> HIDE DEF idle, v, o
<1> QED BY <1>1, <1>2

\* A new stream is under no name yet.
LEMMA StreamStartTold ==
  ASSUME NEW w, NEW n \in Nat, Good(w, n), Told(w, n)
  PROVE  Told(StreamStart(w), n) /\ (NoEndWaits(w) => NoEndWaits(StreamStart(w)))
<1> DEFINE x == StreamStart(w)
<1>1. CASE w.st.streamOpen
  BY <1>1 DEF StreamStart
<1>2. CASE ~w.st.streamOpen
  <2>1. w \in Wholes /\ ~w.st.named /\ w.st.active = NoFile
    BY <1>2 DEF Good, Told, StreamRight
  <2>2. /\ x.fl = w.fl /\ x.over = w.over /\ x.st.ok = w.st.ok /\ x.st.seq = w.st.seq
        /\ x.st.sessionPart = w.st.sessionPart /\ x.st.sessionId = w.st.sessionId
        /\ x.st.active = w.st.active /\ ~x.st.named /\ ~x.st.pendingHasMbb /\ x.st.wakes = {}
        /\ ~x.st.late
    BY <1>2, <2>1 DEF StreamStart, Wholes, Stats
  <2> HIDE DEF x
  <2>3. StreamRight(x) /\ WakesRight(x, n) /\ EndsRight(x) /\ NoEndWaits(x)
    BY <2>1, <2>2 DEF Told, StreamRight, WakesRight, EndsRight, NoEndWaits
  <2>4. NamesRight(x)
    BY <2>1, <2>2 DEF Told, NamesRight, Unfiled
  <2>5. PartsRight(x)
    BY <2>1, <2>2 DEF Told, PartsRight
  <2> QED BY <2>3, <2>4, <2>5 DEF Told, x
<1> QED BY <1>1, <1>2

\* A line joins a stream, and one of the MBB's has it named before.
LEMMA AddTold ==
  ASSUME session \in Nat, NEW w, Good(w, session), Told(w, session), w.st.streamOpen,
         NEW fromMbb \in BOOLEAN, fromMbb => w.st.named
  PROVE  Told(Add(w, fromMbb), session) /\ (NoEndWaits(w) => NoEndWaits(Add(w, fromMbb)))
<1> DEFINE x == Add(w, fromMbb)
<1>1. w \in Wholes
  BY DEF Good
<1>2. /\ x.fl = w.fl /\ x.over = w.over /\ x.st.ok = w.st.ok /\ x.st.seq = w.st.seq
      /\ x.st.streamOpen = w.st.streamOpen /\ x.st.named = w.st.named
      /\ x.st.active = w.st.active /\ x.st.late = w.st.late /\ x.st.endWanted = w.st.endWanted
      /\ x.st.hdrId = w.st.hdrId /\ x.st.hdrPart = w.st.hdrPart
      /\ x.st.sessionPart = w.st.sessionPart /\ x.st.sessionId = w.st.sessionId
      /\ x.st.pendingHasMbb = (w.st.pendingHasMbb \/ fromMbb)
      /\ x.st.wakes = IF fromMbb THEN w.st.wakes \cup {session} ELSE w.st.wakes
  BY <1>1 DEF Add, Wholes, Stats
<1> HIDE DEF x
<1>3. StreamRight(x) /\ EndsRight(x) /\ (NoEndWaits(w) => NoEndWaits(x))
  BY <1>2 DEF Told, StreamRight, EndsRight, NoEndWaits
<1>4. WakesRight(x, session)
  BY <1>2 DEF Told, WakesRight
<1>5. NamesRight(x)
  BY <1>2 DEF Told, NamesRight, Unfiled
<1>6. PartsRight(x)
  BY <1>2 DEF Told, PartsRight
<1> QED BY <1>3, <1>4, <1>5, <1>6 DEF Told, x

LEMMA AppendTold ==
  ASSUME NEW w, session \in Nat \ {0}, Sound(w, session, 0), Told(w, session), NoEndWaits(w),
         NEW fromMbb \in BOOLEAN, NEW e \in Answers
  PROVE  Told(Append(w, fromMbb, e), session) /\ NoEndWaits(Append(w, fromMbb, e))
<1> DEFINE given == [w EXCEPT !.off = @ + 1]
           started == StreamStart(given)
           roomy == IF ~started.st.named /\ ~Fits(started, 2)
                      THEN StreamStart(CommitPending(started, TRUE, e)) ELSE started
           name(v) == IF fromMbb THEN SessionName(v) ELSE v
           ready == name(roomy)
           again == name(StreamStart(CommitPending(ready, TRUE, e)))
           Ready(v) == Sound(v, session, 1) /\ v.st.streamOpen /\ Told(v, session) /\ NoEndWaits(v)
<1>1. session \in Nat
  OBVIOUS
<1>2. Ready(started)
  <2>1. Sound(given, session, 1) /\ Good(given, session)
    BY <1>1, OfferedSound DEF Sound
  <2>2. Within(given, w)
    BY DEF Sound, Good, Wholes, Within, Told, StreamRight
  <2>3. Told(given, session) /\ NoEndWaits(given)
    BY <2>2, WithinTold DEF NoEndWaits, Sound, Good, Wholes
  <2> HIDE DEF given
  <2> QED BY <1>1, <2>1, <2>3, StreamStartSound, StreamStartTold
<1> HIDE DEF started, given
<1>3. ASSUME NEW v, Ready(v)
      PROVE  Ready(StreamStart(CommitPending(v, TRUE, e)))
  <2>1. PICK force \in BOOLEAN : force = TRUE
    OBVIOUS
  <2>2. /\ Sound(CommitPending(v, force, e), session, 1) /\ Told(CommitPending(v, force, e), session)
        /\ NoEndWaits(CommitPending(v, force, e))
    BY <1>1, <1>3, CommitPendingSound, CommitPendingTold
  <2> DEFINE c == CommitPending(v, TRUE, e)
  <2>3. Sound(c, session, 1) /\ Good(c, session) /\ Told(c, session) /\ NoEndWaits(c)
    BY <2>1, <2>2 DEF Sound
  <2> HIDE DEF c
  <2>4. Sound(StreamStart(c), session, 1) /\ StreamStart(c).st.streamOpen
    BY <1>1, <2>3, StreamStartSound
  <2>5. Told(StreamStart(c), session) /\ NoEndWaits(StreamStart(c))
    BY <1>1, <2>3, StreamStartTold
  <2> QED BY <2>4, <2>5 DEF c
<1>4. ASSUME NEW v, Ready(v)
      PROVE  Ready(name(v)) /\ (fromMbb => name(v).st.named)
  BY <1>1, <1>4, SessionNameSound, SessionNameTold DEF Sound, NoEndWaits
<1>5. Ready(roomy)
  BY <1>2, <1>3
<1> HIDE DEF roomy
<1>6. Ready(ready) /\ (fromMbb => ready.st.named)
  BY <1>4, <1>5
<1> HIDE DEF ready
<1>7. Ready(again) /\ (fromMbb => again.st.named)
  BY <1>3, <1>4, <1>6
<1> HIDE DEF again
<1>8. Append(w, fromMbb, e) =
        CASE Fits(ready, 1) -> Add(ready, fromMbb)
          [] ~Fits(ready, 1) /\ Fits(again, 1) -> Add(again, fromMbb)
          [] ~Fits(ready, 1) /\ ~Fits(again, 1) -> [again EXCEPT !.st.droppedLines = @ + 1]
  BY DEF Append, given, started, roomy, ready, again
<1>9. /\ Told([again EXCEPT !.st.droppedLines = @ + 1], session)
      /\ NoEndWaits([again EXCEPT !.st.droppedLines = @ + 1])
  <2> DEFINE x == [again EXCEPT !.st.droppedLines = @ + 1]
  <2>1. Within(x, again)
    BY <1>7 DEF Sound, Good, Wholes, Stats, Within, Told, StreamRight
  <2>2. NoEndWaits(x)
    BY <1>7 DEF Sound, Good, Wholes, Stats, NoEndWaits
  <2> HIDE DEF x
  <2>3. Told(x, session)
    BY <1>7, <2>1, WithinTold
  <2> QED BY <2>2, <2>3 DEF x
<1>10. CASE Fits(ready, 1)
  BY <1>1, <1>6, <1>8, <1>10, AddTold DEF Sound
<1>11. CASE ~Fits(ready, 1) /\ Fits(again, 1)
  BY <1>1, <1>7, <1>8, <1>11, AddTold DEF Sound
<1>12. CASE ~Fits(ready, 1) /\ ~Fits(again, 1)
  BY <1>8, <1>9, <1>12
<1> QED BY <1>10, <1>11, <1>12

-----------------------------------------------------------------------------
\* With the lines accounted for, all else is in order too.
ToldInv == IInv /\ Told(Whole, session) /\ NoEndWaits(Whole)

LEMMA InitiallyTold == Init => Told(Whole, session) /\ NoEndWaits(Whole)
<1> SUFFICES ASSUME Init PROVE Told(Whole, session) /\ NoEndWaits(Whole)
  OBVIOUS
<1>1. /\ session = 1 /\ overwritten = FALSE
      /\ files = [n \in LeftOver |->
                    [id |-> -n, part |-> 1, wakes |-> {0}, late |-> FALSE]]
      /\ ~store.named /\ store.active = NoFile /\ store.wakes = {} /\ store.sessionPart = 0
      /\ ~store.pendingHasMbb /\ ~store.late
  BY DEF Init
<1>2. Whole.st = store /\ Whole.fl = files /\ Whole.over = FALSE
  BY <1>1 DEF Whole
<1>3. LeftOver \subseteq Nat \ {0}
  BY StoreAssumption
<1>4. \A m \in DOMAIN files : m \in LeftOver /\ files[m].id = -m /\ files[m].part = 1
                              /\ files[m].wakes = {0}
  BY <1>1
<1>5. StreamRight(Whole)
  BY <1>1, <1>2 DEF StreamRight
<1>6. WakesRight(Whole, session)
  <2>1. \A m \in DOMAIN files : files[m].late \/ \E k \in Nat : files[m].wakes \subseteq {k}
    <3>1. 0 \in Nat /\ {0} \subseteq {0}
      OBVIOUS
    <3> QED BY <1>4, <3>1
  <2> QED BY <1>1, <1>2, <2>1 DEF WakesRight
<1>7. NamesRight(Whole)
  BY <1>1, <1>2, <1>4 DEF NamesRight
<1>8. PartsRight(Whole)
  <2>1. ASSUME NEW id \in Nat \ {0} PROVE HasParts(files, id, 0)
    <3>1. PartsOf(files, id) = {}
      <4> SUFFICES ASSUME NEW m \in DOMAIN files, files[m].id = id PROVE FALSE
        BY DEF PartsOf
      <4>1. -m = id /\ m \in Nat \ {0}
        BY <1>3, <1>4
      <4> QED BY <4>1
    <3>2. 1 .. 0 = {}
      OBVIOUS
    <3> QED BY <3>1, <3>2 DEF HasParts
  <2>2. \A id \in Nat \ {0} : \E k \in Nat : HasParts(files, id, k)
    BY <2>1
  <2> QED BY <1>1, <1>2, <2>2 DEF PartsRight
<1>9. EndsRight(Whole) /\ NoEndWaits(Whole)
  BY <1>1, <1>2 DEF EndsRight, NoEndWaits
<1> QED BY <1>5, <1>6, <1>7, <1>8, <1>9 DEF Told

\* A wake ends: what has no file yet is late, or has no line of the wake.
LEMMA NextWakeTold ==
  ASSUME NEW w, NEW n \in Nat, Told(w, n), w.st.active = NoFile, w.st.late \/ w.st.wakes = {}
  PROVE  Told(w, n + 1) /\ NoEndWaits(w)
BY DEF Told, WakesRight, NoEndWaits

LEMMA NextTold ==
  ASSUME ToldInv, [Next]_vars, IInv'
  PROVE  Told(Whole, session)' /\ NoEndWaits(Whole)'
<1>0. /\ session \in Nat \ {0} /\ session \in Nat /\ Sound(Whole, session, 0)
      /\ Whole \in Wholes /\ Good(Whole, session) /\ Told(Whole, session)
      /\ NoEndWaits(Whole)
      /\ Whole.st = store /\ Whole.on = onFlash /\ Whole.fl = files
      /\ Whole.off = offered /\ Whole.wr = written /\ Whole.torn = torn
  BY DEF ToldInv, IInv, Sound, Good, Wholes, Whole
<1>1. ASSUME NEW x, Become(x), UNCHANGED session, x \in Wholes, Told(x, session), NoEndWaits(x)
      PROVE  Told(Whole, session)' /\ NoEndWaits(Whole)'
  BY <1>1, Became
<1>2. ASSUME NEW fromMbb \in BOOLEAN, NEW e \in Answers, StoreAppend(fromMbb, e)
      PROVE  Told(Whole, session)' /\ NoEndWaits(Whole)'
  <2>1. /\ Sound(Append(Whole, fromMbb, e), session, 0)
        /\ Told(Append(Whole, fromMbb, e), session) /\ NoEndWaits(Append(Whole, fromMbb, e))
    BY <1>0, AppendSound, AppendTold
  <2> QED BY <1>1, <1>2, <2>1 DEF StoreAppend, Sound, Good
<1>3. CASE StoreAppendTooLong
  <2> DEFINE x == [Whole EXCEPT !.off = @ + 1, !.st.droppedLines = @ + 1]
  <2>1. x \in Wholes
    <3>1. Sound([Whole EXCEPT !.off = @ + 1], session, 1)
      BY <1>0, OfferedSound
    <3>2. Sound([[Whole EXCEPT !.off = @ + 1] EXCEPT !.st.droppedLines = @ + 1], session, 0)
      BY <1>0, <3>1, DropOneSound
    <3> QED BY <1>0, <3>2 DEF Sound, Good
  <2>2. Within(x, Whole)
    BY <1>0 DEF Wholes, Stats, Within, Told, StreamRight
  <2>3. Become(x) /\ UNCHANGED session
    BY <1>3 DEF StoreAppendTooLong
  <2>4. NoEndWaits(x)
    BY <1>0 DEF Wholes, Stats, NoEndWaits
  <2> HIDE DEF x
  <2>5. Told(x, session)
    BY <1>0, <2>2, WithinTold
  <2> QED BY <1>1, <2>1, <2>3, <2>4, <2>5
<1>4. ASSUME NEW e \in Answers, StoreTick(e)
      PROVE  Told(Whole, session)' /\ NoEndWaits(Whole)'
  <2> DEFINE x == IF store.pendingLines > 0 /\ store.pendingHasMbb
                    THEN CommitPending(Whole, FALSE, e) ELSE Whole
  <2>1. PICK force \in BOOLEAN : force = FALSE
    OBVIOUS
  <2>2. /\ Sound(CommitPending(Whole, force, e), session, 0)
        /\ Told(CommitPending(Whole, force, e), session)
        /\ NoEndWaits(CommitPending(Whole, force, e))
    BY <1>0, CommitPendingSound, CommitPendingTold
  <2>3. x \in Wholes /\ Told(x, session) /\ NoEndWaits(x)
    BY <1>0, <2>1, <2>2 DEF Sound, Good
  <2>4. Become(x) /\ UNCHANGED session
    BY <1>4 DEF StoreTick
  <2> HIDE DEF x
  <2> QED BY <1>1, <2>3, <2>4
\* The identity goes.
<1>5. ASSUME NEW w, Sound(w, session, 0), Told(w, session), NoEndWaits(w)
      PROVE  LET x == [w EXCEPT !.st.sessionId = 0, !.st.sessionPart = 0]
             IN  Sound(x, session, 0) /\ Told(x, session) /\ NoEndWaits(x)
  <2> DEFINE x == [w EXCEPT !.st.sessionId = 0, !.st.sessionPart = 0]
  <2>1. w \in Wholes
    BY <1>5 DEF Sound, Good
  <2>2. Within(x, w)
    BY <1>5, <2>1 DEF Wholes, Stats, Within, Told, StreamRight
  <2>3. Told(x, session)
    BY <1>5, <2>2, WithinTold
  <2>4. Sound(x, session, 0)
    BY <1>0, <1>5, IdentityGoes
  <2>5. NoEndWaits(x)
    BY <1>5, <2>1 DEF Wholes, Stats, NoEndWaits
  <2> QED BY <2>3, <2>4, <2>5
<1>6. ASSUME NEW e \in Answers, StoreSessionClose(e)
      PROVE  Told(Whole, session)' /\ NoEndWaits(Whole)'
  <2> DEFINE w == [Whole EXCEPT !.st.sessionId = 0, !.st.sessionPart = 0]
             x == IF OnlyNotes(w.st) THEN w ELSE SessionEnd(w, e)
  <2>1. Sound(w, session, 0) /\ Told(w, session)
    BY <1>0, <1>5
  <2>2. Become(x) /\ session' = session + 1
    BY <1>6 DEF StoreSessionClose
  <2> HIDE DEF w
  <2>3. Sound(x, session, 0)
    BY <1>0, <2>1, SessionEndSound
  <2>4. Told(x, session) /\ x.st.active = NoFile /\ (x.st.late \/ x.st.wakes = {})
    <3>1. CASE OnlyNotes(w.st)
      BY <2>1, <3>1 DEF OnlyNotes, Told, StreamRight
    <3>2. CASE ~OnlyNotes(w.st)
      BY <1>0, <2>1, <3>2, SessionEndTold
    <3> QED BY <3>1, <3>2
  <2> HIDE DEF x
  <2>5. Told(x, session + 1) /\ NoEndWaits(x) /\ Whole' = x
    BY <1>0, <2>2, <2>3, <2>4, NextWakeTold, Became DEF Sound, Good
  <2> QED BY <2>2, <2>5
<1>7. ASSUME NEW e \in Answers, StoreShutdown(e)
      PROVE  Told(Whole, session)' /\ NoEndWaits(Whole)'
  <2> DEFINE w == IF store.streamOpen /\ store.named THEN SessionEnd(Whole, e)
                  ELSE IF store.streamOpen THEN StreamDiscard(Dropped(Whole)) ELSE Whole
             x == [w EXCEPT !.st.sessionId = 0, !.st.sessionPart = 0]
  <2>1. Sound(w, session, 0)
    BY <1>0, SessionEndSound, DropSound
  <2>2. Told(w, session) /\ NoEndWaits(w)
    BY <1>0, SessionEndTold, DropTold DEF NoEndWaits, Gone
  <2>3. Become(x) /\ UNCHANGED session
    BY <1>7 DEF StoreShutdown
  <2> HIDE DEF w
  <2>4. Sound(x, session, 0) /\ Told(x, session) /\ NoEndWaits(x)
    BY <1>5, <2>1, <2>2
  <2> HIDE DEF x
  <2> QED BY <1>1, <2>3, <2>4 DEF Sound, Good
<1>8. CASE GapOver
  <2>1. /\ store' = [store EXCEPT !.openFailed = FALSE]
        /\ UNCHANGED <<onFlash, files, session, offered, written, torn, overwritten>>
    BY <1>8 DEF GapOver
  <2>2. Whole'.st = store' /\ Whole'.fl = files /\ Whole'.over = Whole.over
    BY <2>1 DEF Whole
  <2>3. Within(Whole', Whole)
    BY <1>0, <2>1, <2>2 DEF Wholes, Stats, Within, Told, StreamRight
  <2>4. Told(Whole', session)
    BY <1>0, <2>3, WithinTold
  <2>5. NoEndWaits(Whole')
    BY <1>0, <2>1, <2>2 DEF Wholes, Stats, NoEndWaits
  <2>6. NoEndWaits(Whole)'
    BY <2>5 DEF NoEndWaits
  <2> QED BY <2>1, <2>4, <2>6
<1>9. ASSUME NEW n \in onFlash, Removed(n)
      PROVE  Told(Whole, session)' /\ NoEndWaits(Whole)'
  <2>1. UNCHANGED <<store, files, session, offered, written, torn, overwritten>>
    BY <1>9 DEF Removed
  <2>2. Whole'.st = store /\ Whole'.fl = files /\ Whole'.over = Whole.over
    BY <2>1 DEF Whole
  <2>3. Within(Whole', Whole)
    BY <1>0, <2>2 DEF Within, Told, StreamRight
  <2>4. Told(Whole', session)
    BY <1>0, <2>3, WithinTold
  <2>5. NoEndWaits(Whole)'
    BY <1>0, <2>2 DEF NoEndWaits
  <2> QED BY <2>1, <2>4, <2>5
<1>10. CASE UNCHANGED vars
  BY <1>0, <1>10 DEF vars, Whole
<1> QED BY <1>2, <1>3, <1>4, <1>6, <1>7, <1>8, <1>9, <1>10 DEF Next

\* Names, parts and wakes are in order after every handler.
THEOREM ToldInductive == Spec => []ToldInv
<1>1. Init => ToldInv
  BY Initially, InitiallyTold DEF ToldInv
<1>2. ToldInv /\ [Next]_vars => ToldInv'
  <2> SUFFICES ASSUME ToldInv, [Next]_vars PROVE ToldInv'
    OBVIOUS
  <2>1. IInv'
    BY NextInv DEF ToldInv
  <2>2. Told(Whole, session)' /\ NoEndWaits(Whole)'
    BY <2>1, NextTold
  <2> QED BY <2>1, <2>2 DEF ToldInv
<1> QED BY <1>1, <1>2, PTL DEF Spec

\* store.cpp: the parts of a session are numbered without gaps or repeats, and no
\* file is created over another, as long as the search of fileNameNow() does not
\* end at a name left over from another boot.
THEOREM PartsAreTold ==
  ASSUME SearchFinds
  PROVE  Spec => []NamesTellTheParts
<1>1. ToldInv => NamesTellTheParts
  <2> SUFFICES ASSUME ToldInv PROVE PartsConsecutive /\ NeverOverwritten
    BY DEF NamesTellTheParts
  <2>0. Whole.fl = files /\ Whole.over = overwritten /\ NamesRight(Whole) /\ PartsRight(Whole)
        /\ Whole \in Wholes
    BY DEF ToldInv, Told, IInv, Sound, Good, Whole
  <2>1. NeverOverwritten
    BY <2>0 DEF NamesRight, NeverOverwritten
  <2> DEFINE parts(id) == {files[n].part : n \in {m \in DOMAIN files : files[m].id = id}}
             ids == {files[n].id : n \in DOMAIN files}
  <2>2. ASSUME NEW id \in ids
        PROVE  \E k \in Nat : HasParts(files, id, k)
    <3>1. PICK m \in DOMAIN files : files[m].id = id
      OBVIOUS
    <3>2. CASE id \in Nat \ {0}
      BY <2>0, <3>2 DEF PartsRight
    <3>3. CASE m \in LeftOver /\ files[m].id = -m /\ files[m].part = 1
      <4>1. ASSUME NEW j \in DOMAIN files, files[j].id = id PROVE j = m
        <5>1. m \in Nat \ {0} /\ id = -m
          BY <3>1, <3>3, StoreAssumption
        <5>2. j \in LeftOver /\ files[j].id = -j
          BY <2>0, <4>1, <5>1 DEF NamesRight, Wholes, Stats
        <5>3. j \in Nat
          BY <5>2, StoreAssumption
        <5> QED BY <4>1, <5>1, <5>2, <5>3
      <4>2. PartsOf(files, id) = {m}
        BY <3>1, <4>1 DEF PartsOf
      <4>3. HasParts(files, id, 1)
        BY <3>3, <4>2 DEF HasParts
      <4> QED BY <4>3
    <3> QED BY <2>0, <3>1, <3>2, <3>3 DEF NamesRight, Wholes, Stats
  <2>3. ASSUME NEW id \in ids
        PROVE  /\ parts(id) = 1 .. Cardinality(parts(id))
               /\ \A m, n \in DOMAIN files :
                   files[m].id = id /\ files[n].id = id /\ files[m].part = files[n].part => m = n
    <3>1. PICK k \in Nat : HasParts(files, id, k)
      BY <2>2
    <3>2. parts(id) = 1 .. k
      BY <3>1 DEF HasParts, PartsOf
    <3>3. Cardinality(1 .. k) = k
      BY FS_Interval
    <3> QED BY <3>1, <3>2, <3>3 DEF HasParts, PartsOf
  <2>4. PartsConsecutive
    BY <2>3 DEF PartsConsecutive
  <2> QED BY <2>1, <2>4
<1> QED BY <1>1, ToldInductive, PTL

\* store.cpp: a file holds the lines of one wake of the MBB; one whose session
\* ended before it could be created may hold what waited beside it, and is closed
\* by the commit that makes it, so it is never the file that lines go to.
THEOREM WakesAreApart == Spec => []OneWakePerFile
<1>1. ToldInv => OneWakePerFile
  <2> SUFFICES ASSUME ToldInv PROVE OneWakePerFile
    OBVIOUS
  <2>1. ASSUME NEW m \in DOMAIN files, Cardinality(files[m].wakes) > 1, ~files[m].late
        PROVE  FALSE
    <3>1. PICK k \in Nat : files[m].wakes \subseteq {k}
      BY <2>1 DEF ToldInv, Told, WakesRight, Whole
    <3>2. files[m].wakes = {} \/ files[m].wakes = {k}
      BY <3>1
    <3>3. Cardinality({}) = 0 /\ Cardinality({k}) = 1
      BY FS_EmptySet, FS_Singleton
    <3> QED
      BY <2>1, <3>2, <3>3
  <2>2. store.active # NoFile => ~files[store.active].late /\ ~store.endWanted
    BY DEF ToldInv, Told, EndsRight, NoEndWaits, Whole
  <2> QED
    BY <2>1, <2>2 DEF OneWakePerFile
<1> QED
  BY <1>1, ToldInductive, PTL
=============================================================================
