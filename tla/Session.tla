-------------------------------- MODULE Session --------------------------------
(***************************************************************************)
(* The life of a session in src/firmware/src/store.cpp.  A session is a    *)
(* compressed stream in RAM that earns a file at its first commit; it may   *)
(* roll over several files, its parts; it ends with the MBB's sleep.  The   *)
(* flash can refuse a file, or take only some of a write, at any of these   *)
(* points, and lines keep coming.                                           *)
(*                                                                          *)
(* The handlers run to their end under the store's mutex on the loop task,  *)
(* so each is one step here, built from the functions it calls: an operator *)
(* takes the store's state s and what the flash will answer, e, and yields  *)
(* the next state.  A line is one unit of the stream's buffer; the time in  *)
(* a file name and its dictionary do not tell the properties anything and   *)
(* are left out, so a file is named by its sequence number.                 *)
(***************************************************************************)
EXTENDS Integers, FiniteSets

CONSTANTS
    GZ_OUT,          \* lines the stream's buffer holds, the header's included
    SESSION_MAX,     \* SESSION_MAX_BYTES, in lines
    SEQ_LIMIT,       \* 1000: where fileNameNow() stops looking
    LeftOver,        \* names on the flash from a boot whose count was not saved
    Kept,            \* how many lines a write cut short may leave to be read
    MAX_LINES,       \* bound: lines and notes appended
    MAX_CLOSES       \* bound: sleeps of the MBB

ASSUME StoreAssumption ==
    /\ GZ_OUT \in Nat /\ GZ_OUT >= 2
    /\ SESSION_MAX \in Nat \ {0} /\ SEQ_LIMIT \in Nat
    /\ IsFiniteSet(LeftOver) /\ LeftOver \subseteq Nat \ {0}
    /\ Kept \subseteq Nat /\ 0 \in Kept
    /\ MAX_LINES \in Nat /\ MAX_CLOSES \in Nat

VARIABLES
    store,       \* the statics of store.cpp
    onFlash,     \* the names on the flash now
    files,       \* history: name -> what the file created last under it holds
    session,     \* history: the MBB's wakes so far
    offered,     \* history: lines given to the store, its own included
    written,     \* history: lines that reached a file
    torn,        \* history: those of them that came with a write not taken whole
    overwritten  \* history: a file was opened over another

vars == <<store, onFlash, files, session, offered, written, torn, overwritten>>

NoFile == 0
Names == LeftOver \cup 1 .. (SEQ_LIMIT + MAX_LINES)

\* What the flash answers in one handler: whether a file can be created,
\* whether each of the two writes a handler may make is taken whole, and how
\* many lines of one that is not can be read in the file.
Answers == [creates : BOOLEAN, first : BOOLEAN, closing : BOOLEAN, kept : Kept]

\* One handler's state: the statics, the flash, and the counts it adds to.
Whole == [st |-> store, on |-> onFlash, fl |-> files, off |-> offered, wr |-> written,
          torn |-> torn, over |-> overwritten]

Become(w) ==
    /\ store' = w.st
    /\ onFlash' = w.on
    /\ files' = w.fl
    /\ offered' = w.off
    /\ written' = w.wr
    /\ torn' = w.torn
    /\ overwritten' = w.over

\* A file as it is created: the identity in its header, and no lines yet.
NewFile(st) == [id |-> st.hdrId, part |-> st.hdrPart, wakes |-> {}, late |-> FALSE]

Init ==
    /\ store \in
        [ok : BOOLEAN, streamOpen : {FALSE}, named : {FALSE}, endWanted : {FALSE},
         pendingHasMbb : {FALSE}, pendingLines : {0}, active : {NoFile},
         activeBytes : {0}, seq : {0}, sessionId : {0}, sessionPart : {0},
         hdrId : {0}, hdrPart : {0}, openFailed : {FALSE}, droppedLines : {0},
         wakes : {{}}, late : {FALSE}]
    /\ onFlash = LeftOver
    /\ files = [n \in LeftOver |->
                  [id |-> -n, part |-> 1, wakes |-> {0}, late |-> FALSE]]
    /\ session = 1 /\ offered = 0 /\ written = 0 /\ torn = 0 /\ overwritten = FALSE

-----------------------------------------------------------------------------
(* The functions the handlers are made of.                                  *)

\* streamStart(): a stream, if there is none.
StreamStart(w) ==
    IF w.st.streamOpen THEN w
    ELSE [w EXCEPT !.st = [@ EXCEPT
            !.streamOpen = TRUE, !.named = FALSE, !.endWanted = FALSE,
            !.pendingLines = 0, !.pendingHasMbb = FALSE, !.wakes = {}, !.late = FALSE]]

\* ZStream::fits(), for n more lines.
Fits(w, n) == w.st.pendingLines + n <= GZ_OUT

\* sessionName(): the identity, and the header line that carries it.
SessionName(w) ==
    IF w.st.named THEN w
    ELSE LET s == w.st.seq + 1
             first == w.st.sessionPart = 0
             id == IF first THEN s ELSE w.st.sessionId
             part == IF first THEN 1 ELSE w.st.sessionPart + 1
             room == Fits(w, 1)
         IN  [w EXCEPT
                !.off = @ + 1,
                !.st = [@ EXCEPT
                    !.seq = s, !.sessionId = id, !.sessionPart = part,
                    !.hdrId = id, !.hdrPart = part, !.named = TRUE, !.activeBytes = 0,
                    !.pendingLines = w.st.pendingLines + (IF room THEN 1 ELSE 0),
                    !.droppedLines = w.st.droppedLines + (IF room THEN 0 ELSE 1)]]

\* fileNameNow(): the first sequence number from this one whose name is free.
\* The search gives up at SEQ_LIMIT with the last name it looked at.
FileNameNow(w) ==
    LET s0 == w.st.seq
        last == IF s0 >= SEQ_LIMIT - 1 THEN s0 ELSE SEQ_LIMIT - 1
        free == {n \in s0 .. last : n \notin w.on}
    IN  IF free = {} THEN last ELSE CHOOSE n \in free : \A m \in free : n <= m

\* The search moves the sequence number on with it.
SeqMoved(w) ==
    LET name == FileNameNow(w)
    IN  [w EXCEPT !.st.seq = IF name \in w.on THEN name + 1 ELSE name]

\* The file of a stream that has none.
Create(w) ==
    LET name == FileNameNow(w)
        new == NewFile(w.st)
    IN  [SeqMoved(w) EXCEPT
       !.over = @ \/ name \in w.on,
       !.on = @ \cup {name},
       !.fl = [n \in DOMAIN @ \cup {name} |-> IF n = name THEN new ELSE @[n]],
       !.st.active = name]

\* The file could not be created: only the search has left its mark, on a flash
\* that can be searched.
NotCreated(w) == [(IF w.st.ok THEN SeqMoved(w) ELSE w) EXCEPT !.st.openFailed = TRUE]

\* The first k lines of what waits in the buffer reach the file.
Taken(w, k) ==
    LET grown == [w.fl[w.st.active] EXCEPT
                    !.wakes = @ \cup w.st.wakes, !.late = @ \/ w.st.late]
    IN  [w EXCEPT !.wr = @ + k,
                  !.fl[w.st.active] = grown,
                  !.st.activeBytes = @ + k]

\* The write to the open file: not taken whole, it leaves lines that can be read
\* before the hole, any number of those that waited, or all.
Written(w, e) ==
    LET k == IF e.kept <= w.st.pendingLines THEN e.kept ELSE w.st.pendingLines
    IN  IF e.first \/ w.st.pendingLines = 0
          THEN [w |-> Taken(w, w.st.pendingLines), result |-> "WROTE"]
          ELSE [w |-> [Taken(w, k) EXCEPT !.torn = @ + k], result |-> "SHORT"]

\* writeOut(): NOT_OPENED leaves the buffer, SHORT has lost some of it; an
\* empty write loses nothing.  A creation that failed a moment ago is tried
\* again only when retryNow.
WriteOut(w, retryNow, e) ==
    IF ~w.st.named THEN [w |-> w, result |-> "NOT_OPENED"]
    ELSE IF w.st.active # NoFile THEN Written(w, e)
    ELSE IF w.st.openFailed /\ ~retryNow THEN [w |-> w, result |-> "NOT_OPENED"]
    ELSE IF ~e.creates \/ ~w.st.ok THEN [w |-> NotCreated(w), result |-> "NOT_OPENED"]
    ELSE Written(Create(w), e)

\* streamDiscard(): the stream goes; its file keeps what reached it.
StreamDiscard(w) ==
    [w EXCEPT !.st = [@ EXCEPT
       !.active = NoFile, !.streamOpen = FALSE, !.named = FALSE, !.endWanted = FALSE,
       !.pendingLines = 0, !.pendingHasMbb = FALSE, !.wakes = {}, !.late = FALSE,
       !.hdrId = 0, !.hdrPart = 0]]

\* Mutant of Dropped: what waited is not counted as lost.
DroppedUncounted(w) == w

\* The lines that waited are counted as lost.
Dropped(w) == [w EXCEPT !.st.droppedLines = @ + w.st.pendingLines]

Emptied(w) == [w EXCEPT !.st.pendingLines = 0, !.st.wakes = {}]

\* The closing line goes with the trailer, and the stream is over.  Of a write
\* not taken whole the line may be there, and is counted as dropped all the same.
Close(w, e) ==
    LET counted == [w EXCEPT !.off = @ + 1]
        there == [counted EXCEPT !.wr = @ + 1]
        dropped(v) == [v EXCEPT !.st.droppedLines = @ + 1]
    IN  StreamDiscard(
          IF e.closing THEN there
          ELSE IF e.kept = 0 THEN dropped(counted)
          ELSE dropped([there EXCEPT !.torn = @ + 1]))

\* The session ended before its file could be created.
EndLater(w) == [w EXCEPT !.st.endWanted = TRUE, !.st.late = TRUE]

\* sessionEnd()
SessionEnd(w, e) ==
    IF ~w.st.streamOpen \/ ~w.st.named THEN w
    ELSE LET o == WriteOut(w, TRUE, e)
         IN  CASE o.result = "WROTE" -> Close(Emptied(o.w), e)
               [] o.result = "NOT_OPENED" -> EndLater(o.w)
               [] o.result = "SHORT" -> StreamDiscard(Dropped(o.w))

\* Mutant of PartNeverWas: the part keeps its number though it has no file.
PartNeverWasKept(w) == w

\* The part that could not be created never existed.
PartNeverWas(w) ==
    IF w.st.sessionPart <= 1
      THEN [w EXCEPT !.st.sessionId = 0, !.st.sessionPart = 0]
      ELSE [w EXCEPT !.st.sessionPart = @ - 1]

\* Mutant of EndDue: a waiting end is not looked for after a commit.
EndDueNever(w) == FALSE

\* After a commit: an end that waited for the file, or a file that is full.
EndDue(w) == w.st.endWanted \/ w.st.activeBytes >= SESSION_MAX

Committed(w) == [Emptied(w) EXCEPT !.st.pendingHasMbb = FALSE]

\* What the outcome of the write brings.
AfterWrite(o, force, e) ==
    LET done == Committed(o.w)
    IN  CASE o.result = "WROTE" -> IF EndDue(done) THEN SessionEnd(done, e) ELSE done
          [] o.result = "NOT_OPENED" /\ ~force -> o.w
          [] o.result = "NOT_OPENED" /\ force -> StreamDiscard(PartNeverWas(Dropped(o.w)))
          [] o.result = "SHORT" -> StreamDiscard(Dropped(o.w))

\* commitPending(): notes alone wait for MBB lines, unless the buffer is full.
CommitPending(w, force, e) ==
    LET notesOnly == ~w.st.pendingHasMbb /\ w.st.active = NoFile
        v == IF notesOnly THEN SessionName(w) ELSE w
    IN  IF ~w.st.streamOpen \/ w.st.pendingLines = 0 \/ (notesOnly /\ ~force) THEN w
        ELSE IF ~w.st.ok THEN StreamDiscard(Dropped(v))
        ELSE AfterWrite(WriteOut(v, force, e), force, e)

\* The line itself joins the stream.
Add(w, fromMbb) ==
    [w EXCEPT !.st.pendingLines = @ + 1,
              !.st.pendingHasMbb = @ \/ fromMbb,
              !.st.wakes = IF fromMbb THEN @ \cup {session} ELSE @]

\* storeAppend(): while the session has no name, room is kept for its header.
Append(w, fromMbb, e) ==
    LET started == StreamStart([w EXCEPT !.off = @ + 1])
        roomy == IF ~started.st.named /\ ~Fits(started, 2)
                   THEN StreamStart(CommitPending(started, TRUE, e)) ELSE started
        name(v) == IF fromMbb THEN SessionName(v) ELSE v
        ready == name(roomy)
        again == name(StreamStart(CommitPending(ready, TRUE, e)))
    IN  CASE Fits(ready, 1) -> Add(ready, fromMbb)
          [] ~Fits(ready, 1) /\ Fits(again, 1) -> Add(again, fromMbb)
          [] ~Fits(ready, 1) /\ ~Fits(again, 1) -> [again EXCEPT !.st.droppedLines = @ + 1]

-----------------------------------------------------------------------------
(* The handlers.                                                            *)

StoreAppend(fromMbb, e) ==
    /\ offered < MAX_LINES
    /\ Become(Append(Whole, fromMbb, e))
    /\ UNCHANGED session

\* A line longer than a line can be.
StoreAppendTooLong ==
    /\ offered < MAX_LINES
    /\ Become([Whole EXCEPT !.off = @ + 1, !.st.droppedLines = @ + 1])
    /\ UNCHANGED session

\* storeTick(): MBB lines are committed when the MBB is quiet, or 15 s after
\* the first of them; that moment comes when it comes.
StoreTick(e) ==
    /\ Become(IF store.pendingLines > 0 /\ store.pendingHasMbb
                THEN CommitPending(Whole, FALSE, e) ELSE Whole)
    /\ UNCHANGED session

\* Mutant of OnlyNotes: a stream whose file is open is left open too.
OnlyNotesFileOrNot(st) == st.streamOpen /\ ~st.pendingHasMbb

OnlyNotes(st) == st.streamOpen /\ st.active = NoFile /\ ~st.pendingHasMbb

\* storeSessionClose(): the session's identity goes whichever way the end
\* goes; a stream of notes without a file waits for the next session.
StoreSessionClose(e) ==
    LET w == [Whole EXCEPT !.st.sessionId = 0, !.st.sessionPart = 0]
    IN  /\ session <= MAX_CLOSES
        /\ session' = session + 1
        /\ Become(IF OnlyNotes(w.st) THEN w ELSE SessionEnd(w, e))

\* storeShutdown(), before a restart or an upload, which may yet fail and
\* leave the store running: notes without a session are lost, and counted.
StoreShutdown(e) ==
    LET w == IF store.streamOpen /\ store.named THEN SessionEnd(Whole, e)
             ELSE IF store.streamOpen THEN StreamDiscard(Dropped(Whole)) ELSE Whole
    IN  /\ Become([w EXCEPT !.st.sessionId = 0, !.st.sessionPart = 0])
        /\ UNCHANGED session

\* RECLAIM_GAP_MS since the failed creation: a retry is allowed again.
GapOver ==
    /\ store.openFailed
    /\ store' = [store EXCEPT !.openFailed = FALSE]
    /\ UNCHANGED <<onFlash, files, session, offered, written, torn, overwritten>>

\* storeDelete(), for the puller, or a reclaim: any file but the stream's own.
Removed(n) ==
    /\ n # store.active
    /\ onFlash' = onFlash \ {n}
    /\ UNCHANGED <<store, files, session, offered, written, torn, overwritten>>

Next ==
    \/ \E fromMbb \in BOOLEAN, e \in Answers : StoreAppend(fromMbb, e)
    \/ StoreAppendTooLong
    \/ \E e \in Answers : StoreTick(e)
    \/ \E e \in Answers : StoreSessionClose(e)
    \/ \E e \in Answers : StoreShutdown(e)
    \/ GapOver
    \/ \E n \in onFlash : Removed(n)

Spec == Init /\ [][Next]_vars

\* loop() calls storeTick() for ever and time passes; a flash with room
\* somewhere is found in the end, since reclaim makes it: of the ticks that
\* try, one finds a flash that takes the whole write.  This is strong
\* fairness of that tick, TickDue being when it would do something.
Willing == [creates |-> TRUE, first |-> TRUE, closing |-> TRUE, kept |-> 0]

TickDue == store.pendingLines > 0 /\ store.pendingHasMbb /\ ~store.openFailed

Fairness ==
    /\ WF_vars(GapOver)
    /\ []<>TickDue => []<><<StoreTick(Willing)>>_vars

FairSpec == Spec /\ Fairness

-----------------------------------------------------------------------------
(* Properties                                                               *)

TypeOK ==
    /\ store \in
        [ok : BOOLEAN, streamOpen : BOOLEAN, named : BOOLEAN, endWanted : BOOLEAN,
         pendingHasMbb : BOOLEAN, pendingLines : 0 .. GZ_OUT, active : {NoFile} \cup Nat,
         activeBytes : Nat, seq : Nat, sessionId : Nat, sessionPart : Nat,
         hdrId : Nat, hdrPart : Nat, openFailed : BOOLEAN, droppedLines : Nat,
         wakes : SUBSET (1 .. session), late : BOOLEAN]
    /\ DOMAIN files \subseteq Nat /\ onFlash \subseteq DOMAIN files
    /\ session \in Nat /\ offered \in Nat /\ written \in Nat /\ torn \in Nat
    /\ overwritten \in BOOLEAN
    /\ store.active # NoFile => store.active \in onFlash

\* No failure of the flash at any point of a handler loses a line without
\* counting it: every line given to the store, its own headers and closing lines
\* included, can be read in a file, waits in the buffer, or is counted as
\* dropped.  The count is too high in one way: writeOut() leaves what a short
\* write put into the file, and its callers count all that waited, so just the
\* lines at the torn end of a part are both there and counted.
LinesAccounted == offered + torn = written + store.pendingLines + store.droppedLines

\* The parts of a session are numbered without gaps or repeats: a part whose
\* file could never be created leaves no hole for the reader of the files.
PartsConsecutive ==
    LET parts(id) == {files[n].part : n \in {m \in DOMAIN files : files[m].id = id}}
        ids == {files[n].id : n \in DOMAIN files}
    IN  \A id \in ids :
            /\ parts(id) = 1 .. Cardinality(parts(id))
            /\ \A m, n \in DOMAIN files :
                   files[m].id = id /\ files[n].id = id /\ files[m].part = files[n].part => m = n

\* A file holds the lines of one wake of the MBB.  Only a session that ended
\* while its file could not be created may share its file with what follows
\* ("a full flash costs a session boundary, not lines"), and with no more than
\* waited beside it: the commit that makes the file ends it too, so an end that
\* was late does not swallow the sessions after it.
OneWakePerFile ==
    /\ \A n \in DOMAIN files : Cardinality(files[n].wakes) > 1 => files[n].late
    /\ store.active # NoFile => ~files[store.active].late /\ ~store.endWanted

\* A file on the flash is never created over, its puller may hold it already.
NeverOverwritten == ~overwritten

\* In one: a file's name is its own, and tells its place in the session.
NamesTellTheParts == PartsConsecutive /\ NeverOverwritten

\* A session that ended without its file is closed once the flash has room,
\* whatever lines follow it.
EndComes == (store.endWanted /\ store.ok) ~> ~store.endWanted

\* MBB lines that wait are committed or counted as dropped.
PendingSettles == (store.pendingHasMbb /\ store.ok) ~> ~store.pendingHasMbb

\* In one: what waits for the flash does not wait for ever.
WaitingSettles == EndComes /\ PendingSettles
=============================================================================
