------------------------------ MODULE FlashProofs ------------------------------
(***************************************************************************)
(* The flash, for any number of dictionaries, sessions, slots and blocks,   *)
(* and whatever the power does; and the puller that empties it.             *)
(*                                                                          *)
(* No dictionary a session file needs is ever deleted: dictCollect() spares *)
(* what file names carry and what is in use; the dictionary in use changes  *)
(* only while no stream is open, and only to one that is on the flash; and  *)
(* a file takes its name from the one in use, which is then the one its     *)
(* stream was begun with.  A reclaim takes the oldest first: what its walks *)
(* have passed cannot go, and what a walk keeps is all there is next.  No   *)
(* block is taken that was not free: the room is a sum over the files, and  *)
(* the laws of that sum come from its definition.  The puller's every step  *)
(* is a step of one of the board's clients, and what it deletes it holds.   *)
(***************************************************************************)
EXTENDS Puller, FiniteSetTheorems, WellFoundedInduction, TLAPS

ReclaimSteps == {"reclaim", "round", "delete"}

\* A stream in RAM was begun with the dictionary still in use.
StreamInv ==
    /\ streamOpen \in BOOLEAN
    /\ streamOpen => streamDict = dictId
    /\ ~streamOpen => streamDict = 0 /\ active = 0

\* A refresh past its first test runs without a stream, a creation with one,
\* and a reclaim comes back to the call it was made from.
CallInv ==
    /\ step \in {"dictTmp", "rename", "put", "load"} => ~streamOpen
    /\ step \in {"create", "createEnd"} => streamOpen
    /\ step \in ReclaimSteps =>
           /\ then \in {"idle", "create", "createEnd", "write", "dictTmp"}
           /\ then = "dictTmp" => ~streamOpen
           /\ then \in {"create", "createEnd"} => streamOpen

\* A dictionary whose id is about to be saved or used is on the flash.
NewInv == step \in {"put", "load"} => new \in dicts

IInv == DictKept /\ StreamInv /\ CallInv /\ NewInv

-----------------------------------------------------------------------------
\* dictCollect() takes no dictionary that a name carries or that is in use.
LEMMA CollectSpares ==
    ASSUME NEW inUse, NEW gone \in Collected(inUse)
    PROVE  /\ \A n \in Numbers : logs[n].dict # 0 => logs[n].dict \notin gone
           /\ inUse \notin gone
BY DEF Collected, Collectable, InUse

\* What is needed stays needed and kept while only session files go.
LEMMA FewerLogsKept ==
    ASSUME DictKept, NEW S, logs' = Without(S),
           dicts' = dicts, dictId' = dictId, streamDict' \in {0, streamDict}
    PROVE  DictKept'
<1>1. DOMAIN logs' \subseteq DOMAIN logs /\ \A n \in DOMAIN logs' : logs'[n] = logs[n]
  BY DEF Without, Numbers
<1> QED BY <1>1 DEF DictKept, Numbers

\* ... and while nothing but RAM changes.
LEMMA SameFlashKept ==
    ASSUME DictKept, logs' = logs, dicts \subseteq dicts',
           dictId' \in {0, dictId}, streamDict' \in {0, dictId, streamDict}
    PROVE  DictKept'
BY DEF DictKept, Numbers

LEMMA InitIInv == Init => IInv
<1> SUFFICES ASSUME Init PROVE IInv OBVIOUS
<1>1. DictKept BY DEF Init, DictKept, Numbers
<1> QED BY <1>1 DEF Init, IInv, StreamInv, CallInv, NewInv, ReclaimSteps

\* dictCollect() and ensureSpace().
LEMMA EnsureSpaceStep == IInv /\ EnsureSpace => IInv'
<1> SUFFICES ASSUME IInv, EnsureSpace PROVE IInv' OBVIOUS
<1> USE DEF IInv
<1>1. CASE EnoughSpace
  <2>1. DictKept' BY <1>1, SameFlashKept DEF EnoughSpace, disk, stream
  <2> QED BY <1>1, <2>1 DEF EnoughSpace, disk, stream, StreamInv, CallInv, NewInv, ReclaimSteps
<1>2. CASE ReclaimStart
  <2>1. PICK gone \in Collected(dictId) : dicts' = dicts \ gone
    BY <1>2 DEF ReclaimStart
  <2>2. DictKept'
    BY <1>2, <2>1, CollectSpares DEF ReclaimStart, stream, DictKept, Numbers, StreamInv
  <2> QED BY <1>2, <2>2 DEF ReclaimStart, stream, StreamInv, CallInv, NewInv, ReclaimSteps
<1>3. CASE RoundOver
  <2>1. DictKept' BY <1>3, SameFlashKept DEF RoundOver, disk, stream
  <2> QED BY <1>3, <2>1 DEF RoundOver, disk, stream, StreamInv, CallInv, NewInv, ReclaimSteps
<1>4. CASE Round
  <2>1. DictKept' BY <1>4, SameFlashKept DEF Round, disk, stream
  <2> QED BY <1>4, <2>1 DEF Round, disk, stream, StreamInv, CallInv, NewInv, ReclaimSteps
<1>5. CASE RoundDone
  <2>1. DictKept' BY <1>5, SameFlashKept DEF RoundDone, disk, stream
  <2> QED BY <1>5, <2>1 DEF RoundDone, disk, stream, StreamInv, CallInv, NewInv, ReclaimSteps
<1>6. CASE ReclaimDelete
  <2>1. DictKept' BY <1>6, FewerLogsKept DEF ReclaimDelete, stream
  <2> QED BY <1>6, <2>1 DEF ReclaimDelete, stream, StreamInv, CallInv, NewInv, ReclaimSteps
<1>7. CASE ReclaimRefused
  <2>1. DictKept' BY <1>7, SameFlashKept DEF ReclaimRefused, disk, stream
  <2> QED BY <1>7, <2>1 DEF ReclaimRefused, disk, stream, StreamInv, CallInv, NewInv, ReclaimSteps
<1> QED BY <1>1, <1>2, <1>3, <1>4, <1>5, <1>6, <1>7 DEF EnsureSpace

\* A file created takes the dictionary in use, which is on the flash.
LEMMA CreatedKept ==
    ASSUME DictKept, StreamInv, streamOpen, logs' = Created,
           dicts' = dicts, dictId' = dictId, streamDict' \in {0, streamDict}
    PROVE  DictKept'
<1>1. \A n \in DOMAIN logs' : logs'[n].dict = dictId \/ (n \in DOMAIN logs /\ logs'[n] = logs[n])
  BY DEF Created, Numbers
<1> QED BY <1>1 DEF DictKept, Numbers, StreamInv

\* A file that grows keeps its name.
LEMMA GrownKept ==
    ASSUME DictKept, NEW k, logs' = [logs EXCEPT ![k].blocks = @ + 1],
           dicts' = dicts, dictId' = dictId, streamDict' = streamDict
    PROVE  DictKept'
<1>1. DOMAIN logs' = DOMAIN logs OBVIOUS
<1>2. \A n \in DOMAIN logs : logs'[n].dict = logs[n].dict
  OBVIOUS
<1> QED BY <1>1, <1>2 DEF DictKept, Numbers

\* The stream and its file.
LEMMA StreamStep ==
    ASSUME IInv,
           \/ StreamStart \/ (\E k \in {"create", "createEnd"} : WantFile(k))
           \/ CreateFile \/ CreateAndEnd \/ CreateFails
           \/ Grow \/ WriteShort \/ PartEnds \/ SessionClose \/ StoreTick
    PROVE  IInv'
<1> USE DEF IInv
<1>1. CASE StreamStart
  <2>1. DictKept' BY <1>1, SameFlashKept DEF StreamStart, disk
  <2> QED BY <1>1, <2>1 DEF StreamStart, disk, StreamInv, CallInv, NewInv, ReclaimSteps
<1>2. CASE \E k \in {"create", "createEnd"} : WantFile(k)
  <2>1. DictKept' BY <1>2, SameFlashKept DEF WantFile, disk, stream
  <2> QED BY <1>2, <2>1 DEF WantFile, Call, disk, stream, StreamInv, CallInv, NewInv, ReclaimSteps
<1>3. CASE CreateFile
  <2>1. DictKept' BY <1>3, CreatedKept DEF CreateFile, CallInv
  <2> QED BY <1>3, <2>1 DEF CreateFile, StreamInv, CallInv, NewInv, ReclaimSteps
<1>4. CASE CreateAndEnd
  <2>1. DictKept' BY <1>4, CreatedKept DEF CreateAndEnd, Close, CallInv
  <2> QED BY <1>4, <2>1 DEF CreateAndEnd, Close, StreamInv, CallInv, NewInv, ReclaimSteps
<1>5. CASE CreateFails
  <2>1. DictKept' BY <1>5, SameFlashKept DEF CreateFails, disk, stream
  <2> QED BY <1>5, <2>1 DEF CreateFails, disk, stream, StreamInv, CallInv, NewInv, ReclaimSteps
<1>6. CASE Grow
  <2>1. DictKept' BY <1>6, GrownKept DEF Grow, stream
  <2> QED BY <1>6, <2>1 DEF Grow, stream, StreamInv, CallInv, NewInv, ReclaimSteps
<1>7. CASE WriteShort
  <2>1. DictKept' BY <1>7, SameFlashKept DEF WriteShort, disk, stream
  <2> QED BY <1>7, <2>1 DEF WriteShort, Call, disk, stream, StreamInv, CallInv, NewInv, ReclaimSteps
<1>8. CASE PartEnds
  <2>1. DictKept' BY <1>8, SameFlashKept DEF PartEnds, Close, disk
  <2> QED BY <1>8, <2>1 DEF PartEnds, Close, disk, StreamInv, CallInv, NewInv, ReclaimSteps
<1>9. CASE SessionClose
  <2>1. DictKept' BY <1>9, SameFlashKept DEF SessionClose, Close, disk
  <2> QED BY <1>9, <2>1 DEF SessionClose, Close, disk, StreamInv, CallInv, NewInv, ReclaimSteps
<1>10. CASE StoreTick
  <2>1. DictKept' BY <1>10, SameFlashKept DEF StoreTick, disk, stream
  <2> QED BY <1>10, <2>1 DEF StoreTick, Call, disk, stream, StreamInv, CallInv, NewInv, ReclaimSteps
<1> QED BY <1>1, <1>2, <1>3, <1>4, <1>5, <1>6, <1>7, <1>8, <1>9, <1>10

\* dictMaybeRefresh(): the one place where the dictionary in use changes.
LEMMA RefreshStep == IInv /\ Refresh => IInv'
<1> SUFFICES ASSUME IInv, Refresh PROVE IInv' OBVIOUS
<1> USE DEF IInv
<1>1. CASE \E d \in Dicts : RefreshDue(d)
  <2>1. DictKept' BY <1>1, SameFlashKept DEF RefreshDue, disk, stream
  <2> QED BY <1>1, <2>1 DEF RefreshDue, Call, MayRefresh, disk, stream, StreamInv, CallInv,
                          NewInv, ReclaimSteps
<1>2. CASE NoRefresh
  <2>1. DictKept' BY <1>2, SameFlashKept DEF NoRefresh, stream
  <2> QED BY <1>2, <2>1 DEF NoRefresh, Refreshed, stream, StreamInv, CallInv, NewInv, ReclaimSteps
<1>3. CASE WriteDict
  <2>1. DictKept' BY <1>3, SameFlashKept DEF WriteDict, stream
  <2> QED BY <1>3, <2>1 DEF WriteDict, stream, StreamInv, CallInv, NewInv, ReclaimSteps
<1>4. CASE RenameDict
  <2>1. DictKept' BY <1>4, SameFlashKept DEF RenameDict, stream
  <2> QED BY <1>4, <2>1 DEF RenameDict, stream, StreamInv, CallInv, NewInv, ReclaimSteps
<1>5. CASE PutDict
  <2>1. DictKept' BY <1>5, SameFlashKept DEF PutDict, stream
  <2> QED BY <1>5, <2>1 DEF PutDict, stream, StreamInv, CallInv, NewInv, ReclaimSteps
<1>6. CASE LoadDict
  <2>1. PICK gone \in Collected(new) : dicts' = dicts \ gone
    BY <1>6 DEF LoadDict
  <2>2. new \in dicts /\ streamDict = 0
    BY <1>6 DEF LoadDict, NewInv, CallInv, StreamInv
  <2>3. DictKept'
    BY <1>6, <2>1, <2>2, CollectSpares DEF LoadDict, stream, DictKept, Numbers
  <2> QED BY <1>6, <2>3 DEF LoadDict, Refreshed, stream, StreamInv, CallInv, NewInv, ReclaimSteps
<1> QED BY <1>1, <1>2, <1>3, <1>4, <1>5, <1>6 DEF Refresh

\* The HTTP side.
LEMMA ClientStep == IInv /\ Client => IInv'
<1> SUFFICES ASSUME IInv, Client PROVE IInv' OBVIOUS
<1> USE DEF IInv
<1>1. CASE \E name : StoreOpenRead(name) \/ StoreReadDone(name)
  <2>1. DictKept' BY <1>1, SameFlashKept DEF StoreOpenRead, StoreReadDone, disk, stream
  <2> QED BY <1>1, <2>1 DEF StoreOpenRead, StoreReadDone, disk, stream,
                            StreamInv, CallInv, NewInv, ReclaimSteps
<1>2. CASE \E n \in Numbers : StoreDelete(n)
  <2>1. DictKept' BY <1>2, FewerLogsKept DEF StoreDelete, stream
  <2> QED BY <1>2, <2>1 DEF StoreDelete, stream, StreamInv, CallInv, NewInv, ReclaimSteps
<1> QED BY <1>1, <1>2 DEF Client

\* A board that starts over uses the saved dictionary only if it is there.
LEMMA RebootStep == ASSUME IInv, NEW formatted \in BOOLEAN, Reboot(formatted) PROVE IInv'
<1> USE DEF IInv
<1>1. dictId' = 0 \/ dictId' \in dicts'
  BY DEF Reboot, BootDict
<1>2. CASE formatted
  <2>1. DictKept' BY <1>1, <1>2 DEF Reboot, DictKept, Numbers
  <2> QED BY <2>1 DEF Reboot, StreamInv, CallInv, NewInv, ReclaimSteps
<1>3. CASE ~formatted
  <2>1. DictKept' BY <1>1, <1>3 DEF Reboot, DictKept, Numbers
  <2> QED BY <2>1 DEF Reboot, StreamInv, CallInv, NewInv, ReclaimSteps
<1> QED BY <1>2, <1>3

LEMMA NextStep == IInv /\ [Next]_vars => IInv'
<1> SUFFICES ASSUME IInv, [Next]_vars PROVE IInv' OBVIOUS
<1>1. CASE EnsureSpace BY <1>1, EnsureSpaceStep
<1>2. CASE Refresh BY <1>2, RefreshStep
<1>3. CASE \/ StreamStart \/ (\E k \in {"create", "createEnd"} : WantFile(k))
           \/ CreateFile \/ CreateAndEnd \/ CreateFails
           \/ Grow \/ WriteShort \/ PartEnds \/ SessionClose \/ StoreTick
  BY <1>3, StreamStep
<1>4. CASE Client BY <1>4, ClientStep
<1>5. CASE \E formatted \in BOOLEAN : Reboot(formatted) BY <1>5, RebootStep
<1>6. CASE UNCHANGED vars
  <2>1. DictKept' BY <1>6, SameFlashKept DEF vars, disk, stream, IInv
  <2> QED BY <1>6, <2>1 DEF vars, disk, stream, IInv, StreamInv, CallInv, NewInv, ReclaimSteps
<1> QED BY <1>1, <1>2, <1>3, <1>4, <1>5, <1>6 DEF Next, Board

-----------------------------------------------------------------------------
\* The inductive invariant holds of every behaviour.
THEOREM FlashInductive == Spec => []IInv
<1> QED BY InitIInv, NextStep, PTL DEF Spec

\* store.cpp dictCollect(), dictMaybeRefresh(), storeBegin(): the dictionary of
\* every session file, of the stream in RAM and of the sessions to come stays
\* on the flash.
THEOREM DictionariesKept == Spec => []DictKept
<1>1. IInv => DictKept BY DEF IInv
<1> QED BY FlashInductive, <1>1, PTL

\* store.cpp fileNameNow(): a file is named for its stream's own dictionary.
THEOREM NamedRight == Spec => NamedForItsStream
<1>1. IInv /\ [Next]_vars => [\A n \in Numbers' \ Numbers : logs'[n].dict = streamDict]_vars
  <2> SUFFICES ASSUME IInv, Next, NEW n \in Numbers' \ Numbers
               PROVE  logs'[n].dict = streamDict
    OBVIOUS
  <2>1. CASE CreateFile \/ CreateAndEnd
    <3>1. streamOpen /\ streamDict = dictId
      BY <2>1 DEF CreateFile, CreateAndEnd, IInv, CallInv, StreamInv
    <3>2. logs' = Created BY <2>1 DEF CreateFile, CreateAndEnd
    <3>3. n = seq /\ n \in DOMAIN Created BY <3>2 DEF Created, Numbers
    <3>4. Created[seq].dict = dictId BY <3>3 DEF Created
    <3> QED BY <3>1, <3>2, <3>3, <3>4
  <2>2. CASE ReclaimDelete \/ (\E k \in Numbers : StoreDelete(k))
    BY <2>2 DEF ReclaimDelete, StoreDelete, Without, Numbers
  <2>3. CASE Grow
    BY <2>3 DEF Grow, Numbers
  <2>4. CASE \E formatted \in BOOLEAN : Reboot(formatted)
    BY <2>4 DEF Reboot, Numbers
  <2>5. CASE logs' = logs
    BY <2>5 DEF Numbers
  <2>6. \/ CreateFile \/ CreateAndEnd \/ ReclaimDelete
        \/ (\E k \in Numbers : StoreDelete(k)) \/ Grow
        \/ (\E formatted \in BOOLEAN : Reboot(formatted)) \/ logs' = logs
    BY DEF Next, Board, Client, EnsureSpace, Refresh, EnoughSpace, ReclaimStart,
           RoundOver, Round, RoundDone, ReclaimRefused, StreamStart, WantFile,
           CreateFails, WriteShort, PartEnds, SessionClose, StoreTick, RefreshDue,
           NoRefresh, WriteDict, RenameDict, PutDict, LoadDict, StoreOpenRead,
           StoreReadDone, disk
  <2> QED BY <2>1, <2>2, <2>3, <2>4, <2>5, <2>6
<1> QED BY FlashInductive, <1>1, PTL DEF Spec, NamedForItsStream

-----------------------------------------------------------------------------
\* The oldest goes first, as long as names sort as they were created: what a
\* walk has passed, or has kept, is all there is before a name.

InOrder == MAX_SEQ <= SEQ_DIGITS_MAX

\* Numbers are given out in order, from one.
NumbersInv ==
    /\ Numbers \subseteq 1 .. MAX_SEQ
    /\ seq \in 0 .. MAX_SEQ
    /\ streamOpen => seq > 0

\* What a reclaim may not, or cannot, take.
Spared(m) == m = active \/ Log(m) \in openForRead \/ m \in Stuck

\* A name passed is there only if it is spared.
FloorInv ==
    step \in {"round", "delete"} =>
        /\ rec.floor \in Nat
        /\ \A m \in Numbers : NameKey(m) <= rec.floor => Spared(m)

\* The names of a walk are those next after the floor.
WalkInv ==
    step = "delete" =>
        /\ rec.oldest \subseteq Deletable(rec.floor)
        /\ \A n \in rec.oldest : \A m \in Deletable(rec.floor) :
               NameKey(m) < NameKey(n) => m \in rec.oldest

\* The reclaim's locals are there.
RecInv == rec = [need |-> rec.need, freed |-> rec.freed, round |-> rec.round,
                 floor |-> rec.floor, refusals |-> rec.refusals, oldest |-> rec.oldest]

OrderInv == NumbersInv /\ RecInv /\ FloorInv /\ WalkInv

\* Of numbers there is a least.
LEMMA Least ==
    ASSUME NEW T, T \subseteq Nat, T # {}
    PROVE  \E x \in T : \A y \in T : x <= y
<1>1. PICK x \in T : \A y \in T : ~(<<y, x>> \in OpToRel(<, Nat))
  BY NatLessThanWellFounded, WFMin
<1>2. \A y \in T : ~(y < x)
  BY <1>1 DEF OpToRel
<1> QED BY <1>2

\* Names sort as their numbers while no number is longer than another.
LEMMA KeysInOrder ==
    ASSUME InOrder, NEW n \in 1 .. MAX_SEQ, NEW m \in 1 .. MAX_SEQ
    PROVE  /\ NameKey(n) \in Nat \ {0}
           /\ n < m <=> NameKey(n) < NameKey(m)
<1> DEFINE b == BASE + 1
<1>1. b \in Nat \ {0} /\ MAX_SEQ \in Nat /\ SEQ_DIGITS_MAX \in Nat
  BY FlashAssumption
<1>2. NameKey(n) = n * b /\ NameKey(m) = m * b
  BY <1>1 DEF NameKey, InOrder
<1> HIDE DEF b
<1>3. n \in Nat \ {0} /\ m \in Nat \ {0}
  BY <1>1
<1>4. n * b \in Nat \ {0} /\ m * b \in Nat \ {0}
  BY <1>1, <1>3
<1>5. (m - n) * b = m * b - n * b /\ (n < m => (m - n) * b >= b) /\ (m < n => (n - m) * b >= b)
  BY <1>1, <1>3
<1>6. (n - m) * b = n * b - m * b
  BY <1>1, <1>3
<1> QED BY <1>1, <1>2, <1>3, <1>4, <1>5, <1>6

\* The next of a walk's names is its smallest.
LEMMA OldestIsLeast ==
    ASSUME InOrder, OrderInv, step = "delete", rec.oldest # {}
    PROVE  /\ Oldest \in rec.oldest /\ Oldest \in Deletable(rec.floor)
           /\ \A m \in rec.oldest : NameKey(Oldest) <= NameKey(m)
<1>1. rec.oldest \subseteq Deletable(rec.floor) /\ rec.oldest \subseteq 1 .. MAX_SEQ
  BY DEF OrderInv, WalkInv, NumbersInv, Deletable
<1>2. PICK x \in rec.oldest : \A y \in rec.oldest : x <= y
  BY <1>1, Least, FlashAssumption
<1>3. \A y \in rec.oldest : NameKey(x) <= NameKey(y)
  <2> SUFFICES ASSUME NEW y \in rec.oldest PROVE NameKey(x) <= NameKey(y)
    OBVIOUS
  <2>1. x \in 1 .. MAX_SEQ /\ y \in 1 .. MAX_SEQ /\ x <= y
    BY <1>1, <1>2
  <2>2. NameKey(x) \in Nat /\ NameKey(y) \in Nat /\ ~(NameKey(y) < NameKey(x))
    BY <2>1, KeysInOrder
  <2> QED BY <2>2
<1>4. /\ Oldest \in rec.oldest
      /\ \A m \in rec.oldest : NameKey(Oldest) <= NameKey(m)
  BY <1>2, <1>3 DEF Oldest
<1> QED BY <1>1, <1>4

\* All before it is spared.
LEMMA BeforeOldest ==
    ASSUME InOrder, OrderInv, step = "delete", rec.oldest # {},
           NEW m \in Numbers, m # Oldest, NameKey(m) <= NameKey(Oldest)
    PROVE  Spared(m)
<1>1. /\ Oldest \in rec.oldest /\ Oldest \in Deletable(rec.floor)
      /\ \A k \in rec.oldest : NameKey(Oldest) <= NameKey(k)
  BY OldestIsLeast
<1>2. m \in 1 .. MAX_SEQ /\ Oldest \in 1 .. MAX_SEQ
  BY <1>1 DEF OrderInv, NumbersInv, Deletable
<1>3. NameKey(m) \in Nat /\ NameKey(Oldest) \in Nat /\ NameKey(m) < NameKey(Oldest)
  <2>1. /\ NameKey(m) \in Nat /\ NameKey(Oldest) \in Nat
        /\ m < Oldest <=> NameKey(m) < NameKey(Oldest)
        /\ Oldest < m <=> NameKey(Oldest) < NameKey(m)
    BY <1>2, KeysInOrder
  <2>2. m < Oldest \/ Oldest < m
    BY <1>2, FlashAssumption
  <2> QED BY <2>1, <2>2
<1>4. m \notin rec.oldest
  BY <1>1, <1>3
<1>5. m \notin Deletable(rec.floor)
  BY <1>1, <1>3, <1>4 DEF OrderInv, WalkInv
<1>6. CASE NameKey(m) <= rec.floor
  BY <1>6 DEF OrderInv, FloorInv
<1>7. CASE ~(NameKey(m) <= rec.floor)
  <2>1. rec.floor \in Nat
    BY DEF OrderInv, FloorInv
  <2>2. NameKey(m) > rec.floor
    BY <1>3, <1>7, <2>1
  <2> QED BY <1>5, <2>2 DEF Deletable, Spared
<1> QED BY <1>6, <1>7

\* A walk goes on past its next name, whether that went or would not.
LEMMA Passed ==
    ASSUME InOrder, OrderInv, step = "delete", rec.oldest # {},
           Numbers' \subseteq Numbers, Oldest \in Numbers' => Oldest \in Stuck,
           \A n \in Numbers \ {Oldest} : n \in Numbers',
           UNCHANGED <<active, openForRead>>,
           rec'.oldest = rec.oldest \ {Oldest}, rec'.floor = NameKey(Oldest)
    PROVE  FloorInv' /\ WalkInv'
<1>1. /\ Oldest \in rec.oldest /\ Oldest \in Deletable(rec.floor)
      /\ \A k \in rec.oldest : NameKey(Oldest) <= NameKey(k)
  BY OldestIsLeast
<1>2. Numbers \subseteq 1 .. MAX_SEQ /\ Oldest \in 1 .. MAX_SEQ /\ rec.floor \in Nat
  BY <1>1 DEF OrderInv, NumbersInv, FloorInv, Deletable
<1>3. NameKey(Oldest) \in Nat /\ NameKey(Oldest) > rec.floor
  BY <1>1, <1>2, KeysInOrder DEF Deletable
<1>4. FloorInv'
  <2>1. ASSUME NEW m \in Numbers', NameKey(m) <= NameKey(Oldest) PROVE Spared(m)'
    <3>1. m \in Numbers OBVIOUS
    <3>2. Spared(m)
      <4>1. CASE m = Oldest BY <2>1, <4>1 DEF Spared
      <4>2. CASE m # Oldest BY <2>1, <3>1, <4>2, BeforeOldest
      <4> QED BY <4>1, <4>2
    <3> QED BY <3>2 DEF Spared, Log
  <2> QED BY <1>3, <2>1 DEF FloorInv
<1>5. \A n \in rec.oldest \ {Oldest} : n \in Numbers /\ NameKey(n) > NameKey(Oldest)
  <2> SUFFICES ASSUME NEW n \in rec.oldest, n # Oldest
               PROVE  n \in Numbers /\ NameKey(n) > NameKey(Oldest)
    OBVIOUS
  <2>1. n \in Numbers /\ n \in 1 .. MAX_SEQ
    BY <1>2 DEF OrderInv, WalkInv, Deletable
  <2>2. /\ NameKey(n) \in Nat
        /\ n < Oldest <=> NameKey(n) < NameKey(Oldest)
        /\ Oldest < n <=> NameKey(Oldest) < NameKey(n)
    BY <1>2, <2>1, KeysInOrder
  <2>3. NameKey(Oldest) <= NameKey(n)
    BY <1>1
  <2>4. n < Oldest \/ Oldest < n
    BY <1>2, <2>1, FlashAssumption
  <2> QED BY <1>3, <2>1, <2>2, <2>3, <2>4
<1>6. Deletable(rec.floor)' \subseteq Deletable(rec.floor) \ {Oldest}
  <2> SUFFICES ASSUME NEW m \in Numbers, m # active, Log(m) \notin openForRead,
                      NameKey(m) > NameKey(Oldest)
               PROVE  m \in Deletable(rec.floor) /\ m # Oldest
    BY DEF Deletable, Log, NameKey
  <2>1. NameKey(m) \in Nat
    BY <1>2, KeysInOrder
  <2> QED BY <1>2, <1>3, <2>1 DEF Deletable
<1>7. rec'.oldest \subseteq Deletable(rec.floor)'
  BY <1>5 DEF OrderInv, WalkInv, Deletable, Log, NameKey
<1>8. ASSUME NEW n \in rec'.oldest, NEW m \in Deletable(rec.floor)', NameKey(m) < NameKey(n)
      PROVE  m \in rec'.oldest
  <2>1. m \in Deletable(rec.floor) /\ m # Oldest
    BY <1>6
  <2> QED BY <1>8, <2>1 DEF OrderInv, WalkInv
<1>9. WalkInv'
  BY <1>7, <1>8 DEF WalkInv, NameKey
<1> QED BY <1>4, <1>9

\* The smallest of the names a walk is offered, and no gap among them.
LEMMA SmallestKept ==
    ASSUME InOrder, NEW S \in SUBSET (1 .. MAX_SEQ), NEW n \in KeepSmallest(S), NEW m \in S,
           NameKey(m) < NameKey(n)
    PROVE  m \in KeepSmallest(S)
<1> DEFINE B(k) == {x \in S : NameKey(x) < NameKey(k)}
<1>1. IsFiniteSet(S)
  <2>1. 1 \in Int /\ MAX_SEQ \in Int
    BY FlashAssumption
  <2>2. IsFiniteSet(1 .. MAX_SEQ)
    BY <2>1, FS_Interval
  <2> QED BY <2>2, FS_Subset
<1>2. B(m) \subseteq B(n)
  <2> SUFFICES ASSUME NEW x \in S, NameKey(x) < NameKey(m) PROVE NameKey(x) < NameKey(n)
    OBVIOUS
  <2>1. n \in S BY DEF KeepSmallest
  <2>2. NameKey(x) \in Nat /\ NameKey(m) \in Nat /\ NameKey(n) \in Nat
    BY <2>1, KeysInOrder
  <2> QED BY <2>2
<1>3. IsFiniteSet(B(n)) /\ IsFiniteSet(B(m))
  BY <1>1, FS_Subset
<1>4. Cardinality(B(m)) <= Cardinality(B(n)) /\ Cardinality(B(m)) \in Nat
      /\ Cardinality(B(n)) \in Nat
  BY <1>2, <1>3, FS_Subset, FS_CardinalityType
<1>5. Cardinality(B(n)) < KEEP
  BY DEF KeepSmallest
<1>6. Cardinality(B(m)) < KEEP
  BY <1>4, <1>5, FlashAssumption
<1> QED BY <1>6 DEF KeepSmallest

\* The steps of a reclaim keep the order.
LEMMA ReclaimOrder ==
    ASSUME InOrder, IInv, OrderInv, EnsureSpace
    PROVE  OrderInv'
<1>0. RecInv /\ InOrder /\ OrderInv
  BY DEF OrderInv
<1>1. UNCHANGED stream /\ UNCHANGED openForRead
  BY DEF EnsureSpace, EnoughSpace, ReclaimStart, RoundOver, Round, RoundDone, ReclaimDelete,
         ReclaimRefused, stream
<1>2. Numbers' \subseteq Numbers
  BY DEF EnsureSpace, EnoughSpace, ReclaimStart, RoundOver, Round, RoundDone, ReclaimDelete,
         ReclaimRefused, disk, Without, Numbers
<1>3. NumbersInv'
  BY <1>1, <1>2 DEF OrderInv, NumbersInv, stream
<1>4. CASE EnoughSpace \/ RoundOver
  <2>1. step' \notin {"round", "delete"}
    BY <1>4 DEF EnoughSpace, RoundOver, IInv, CallInv, ReclaimSteps
  <2>2. RecInv'
    BY <1>0, <1>4 DEF EnoughSpace, RoundOver, RecInv, NoRec
  <2> QED BY <1>3, <2>1, <2>2 DEF OrderInv, FloorInv, WalkInv
<1>5. CASE ReclaimStart
  <2>1. step' = "round" /\ rec'.floor = 0 /\ logs' = logs /\ RecInv'
    BY <1>5 DEF ReclaimStart, NoRec, RecInv
  <2>2. \A m \in Numbers : NameKey(m) \in Nat \ {0}
    BY KeysInOrder DEF OrderInv, NumbersInv
  <2>3. Numbers' = Numbers
    BY <2>1 DEF Numbers
  <2>4. \A m \in Numbers' : ~(NameKey(m) <= rec'.floor)
    BY <2>1, <2>2, <2>3
  <2> QED BY <1>3, <2>1, <2>4 DEF OrderInv, FloorInv, WalkInv, NameKey
<1>6. CASE Round
  <2> DEFINE D == Deletable(rec.floor)
             need == IF rec.freed >= rec.need THEN FS_MIN_FREE - Free ELSE rec.need
             freed == IF rec.freed >= rec.need THEN 0 ELSE rec.freed
  <2>1. /\ step = "round" /\ step' = "delete" /\ UNCHANGED <<disk, stream, openForRead>>
        /\ rec' = [rec EXCEPT !.round = rec.round + 1, !.oldest = KeepSmallest(D),
                              !.need = need, !.freed = freed]
    BY <1>6 DEF Round
  <2>2. RecInv' /\ rec'.floor = rec.floor /\ rec'.oldest = KeepSmallest(D)
    <3> HIDE DEF need, freed, D
    <3>1. rec' = [need |-> need, freed |-> freed, round |-> rec.round + 1, floor |-> rec.floor,
                  refusals |-> rec.refusals, oldest |-> KeepSmallest(D)]
      BY <1>0, <2>1 DEF RecInv
    <3> QED BY <3>1 DEF RecInv
  <2>3. Numbers' = Numbers /\ active' = active /\ openForRead' = openForRead
    BY <2>1 DEF Numbers, disk, stream
  <2>4. FloorInv'
    BY <2>1, <2>2, <2>3 DEF OrderInv, FloorInv, Spared, Log, NameKey
  <2>5. Deletable(rec.floor)' = D
    BY <2>2, <2>3 DEF Deletable, Log, NameKey
  <2>6. D \in SUBSET (1 .. MAX_SEQ) /\ KeepSmallest(D) \subseteq D
    BY DEF OrderInv, NumbersInv, Deletable, KeepSmallest
  <2> HIDE DEF D
  <2>7. \A n \in KeepSmallest(D) : \A m \in D :
            NameKey(m) < NameKey(n) => m \in KeepSmallest(D)
    BY <2>6, SmallestKept
  <2>8. WalkInv'
    BY <2>2, <2>5, <2>6, <2>7 DEF WalkInv, NameKey
  <2> QED BY <1>3, <2>2, <2>4, <2>8 DEF OrderInv
<1>7. CASE RoundDone
  <2>1. step = "delete" /\ step' = "round" /\ UNCHANGED <<disk, stream, openForRead, rec>>
    BY <1>7 DEF RoundDone
  <2>2. FloorInv' /\ WalkInv' /\ RecInv'
    BY <1>0, <2>1 DEF OrderInv, FloorInv, WalkInv, RecInv, Spared, Log, disk, stream, Numbers,
                      NameKey
  <2> QED BY <1>3, <2>2 DEF OrderInv
<1>8. CASE ReclaimDelete
  <2>1. /\ step = "delete" /\ rec.oldest # {} /\ logs' = Without({Oldest})
        /\ rec' = [Picked EXCEPT !.refusals = 0, !.freed = rec.freed + logs[Oldest].blocks]
    BY <1>0, <1>8 DEF ReclaimDelete, Picked, RecInv
  <2>2. RecInv' /\ rec'.floor = NameKey(Oldest) /\ rec'.oldest = rec.oldest \ {Oldest}
    BY <1>0, <2>1 DEF Picked, RecInv
  <2>3. Numbers' = Numbers \ {Oldest} /\ active' = active
    BY <1>1, <2>1 DEF Without, Numbers, stream
  <2>4. FloorInv' /\ WalkInv'
    BY <1>0, <1>1, <2>1, <2>2, <2>3, Passed
  <2> QED BY <1>3, <2>2, <2>4 DEF OrderInv
<1>9. CASE ReclaimRefused
  <2>1. /\ step = "delete" /\ rec.oldest # {} /\ Oldest \in Stuck /\ UNCHANGED <<disk, stream>>
    BY <1>9 DEF ReclaimRefused
  <2>2. CASE GivesUp(rec.refusals + 1)
    <3>1. step' = then /\ rec' = NoRec
      BY <1>9, <2>2 DEF ReclaimRefused
    <3>2. step' \notin {"round", "delete"} /\ RecInv'
      BY <2>1, <3>1 DEF IInv, CallInv, ReclaimSteps, RecInv, NoRec
    <3> QED BY <1>3, <3>2 DEF OrderInv, FloorInv, WalkInv
  <2>3. CASE ~GivesUp(rec.refusals + 1)
    <3>1. rec' = [Picked EXCEPT !.refusals = Picked.refusals + 1]
      BY <1>9, <2>3 DEF ReclaimRefused
    <3>2. RecInv' /\ rec'.floor = NameKey(Oldest) /\ rec'.oldest = rec.oldest \ {Oldest}
      BY <1>0, <3>1 DEF Picked, RecInv
    <3>3. Numbers' = Numbers /\ active' = active
      BY <2>1 DEF Numbers, disk, stream
    <3>4. FloorInv' /\ WalkInv'
      BY <1>0, <1>1, <2>1, <3>2, <3>3, Passed
    <3> QED BY <1>3, <3>2, <3>4 DEF OrderInv
  <2> QED BY <2>2, <2>3
<1> QED BY <1>4, <1>5, <1>6, <1>7, <1>8, <1>9 DEF EnsureSpace

\* Outside a reclaim there is no order to keep, but that of the numbers.
LEMMA OutsideOrder ==
    ASSUME OrderInv, RecInv', NumbersInv', step' \notin {"round", "delete"}
    PROVE  OrderInv'
BY DEF OrderInv, FloorInv, WalkInv

\* The stream and its file, a refresh, the HTTP side and the power.
LEMMA OthersOrder ==
    ASSUME IInv, OrderInv, Board \/ Client \/ (\E formatted \in BOOLEAN : Reboot(formatted)),
           ~EnsureSpace
    PROVE  OrderInv'
<1>1. CASE \/ StreamStart \/ (\E k \in {"create", "createEnd"} : WantFile(k))
           \/ CreateFile \/ CreateAndEnd \/ CreateFails
           \/ Grow \/ WriteShort \/ PartEnds \/ SessionClose \/ StoreTick
  <2>1. rec' = rec /\ step' \notin {"round", "delete"}
    BY <1>1 DEF StreamStart, WantFile, CreateFile, CreateAndEnd, CreateFails, Grow, WriteShort,
                PartEnds, SessionClose, StoreTick, Call
  <2>2. NumbersInv'
    <3>1. CASE StreamStart
      BY <3>1, FlashAssumption DEF StreamStart, OrderInv, NumbersInv, Numbers, disk
    <3>2. CASE CreateFile \/ CreateAndEnd
      <4>1. seq' = seq /\ streamOpen /\ logs' = Created
        BY <3>2 DEF CreateFile, CreateAndEnd, IInv, CallInv
      <4>2. Numbers' = Numbers \cup {seq}
        BY <4>1 DEF Created, Numbers
      <4>3. seq \in 1 .. MAX_SEQ
        BY <4>1, FlashAssumption DEF OrderInv, NumbersInv
      <4>4. streamOpen' => streamOpen
        BY <3>2 DEF CreateFile, CreateAndEnd, Close
      <4> QED BY <4>1, <4>2, <4>3, <4>4 DEF OrderInv, NumbersInv
    <3>3. CASE Grow
      <4>1. Numbers' = Numbers /\ UNCHANGED stream
        BY <3>3 DEF Grow, Numbers
      <4> QED BY <4>1 DEF OrderInv, NumbersInv, stream
    <3>4. CASE \/ (\E k \in {"create", "createEnd"} : WantFile(k)) \/ CreateFails
               \/ WriteShort \/ PartEnds \/ SessionClose \/ StoreTick
      <4>1. logs' = logs /\ seq' = seq /\ (streamOpen' => streamOpen)
        BY <3>4 DEF WantFile, CreateFails, WriteShort, PartEnds, SessionClose, StoreTick, Close,
                    disk, stream
      <4> QED BY <4>1 DEF OrderInv, NumbersInv, Numbers
    <3> QED BY <1>1, <3>1, <3>2, <3>3, <3>4
  <2> QED BY <2>1, <2>2, OutsideOrder DEF OrderInv, RecInv
<1>2. CASE Refresh
  <2>1. rec' = rec /\ step' \notin {"round", "delete"} /\ logs' = logs /\ UNCHANGED stream
    BY <1>2 DEF Refresh, RefreshDue, NoRefresh, WriteDict, RenameDict, PutDict, LoadDict,
                Refreshed, Call, disk
  <2> QED BY <2>1, OutsideOrder DEF OrderInv, RecInv, NumbersInv, Numbers, stream
<1>3. CASE Client
  <2>1. rec' = rec /\ step' \notin {"round", "delete"} /\ UNCHANGED stream
    BY <1>3 DEF Client, StoreOpenRead, StoreReadDone, StoreDelete
  <2>2. Numbers' \subseteq Numbers
    BY <1>3 DEF Client, StoreOpenRead, StoreReadDone, StoreDelete, disk, Without, Numbers
  <2> QED BY <2>1, <2>2, OutsideOrder DEF OrderInv, RecInv, NumbersInv, stream
<1>4. CASE \E formatted \in BOOLEAN : Reboot(formatted)
  <2>1. rec' = NoRec /\ step' = "idle" /\ seq' = seq /\ ~streamOpen'
        /\ (logs' = logs \/ logs' = <<>>)
    BY <1>4 DEF Reboot
  <2>2. Numbers' \subseteq Numbers
    BY <2>1 DEF Numbers
  <2>3. RecInv'
    BY <2>1 DEF RecInv, NoRec
  <2> QED BY <2>1, <2>2, <2>3, OutsideOrder DEF OrderInv, NumbersInv
<1> QED BY <1>1, <1>2, <1>3, <1>4 DEF Board

\* store.cpp ensureSpace(): a reclaim takes no session while an older one could
\* go, as long as the numbers of a boot have one width (pure/names.h).
THEOREM OldestGoesFirst ==
    ASSUME InOrder
    PROVE  Spec => OldestFirst
<1>1. Init => OrderInv
  BY FlashAssumption DEF Init, OrderInv, NumbersInv, RecInv, FloorInv, WalkInv, NoRec, Numbers
<1>2. IInv /\ OrderInv /\ [Next]_vars => OrderInv'
  <2> SUFFICES ASSUME IInv, OrderInv, [Next]_vars PROVE OrderInv'
    OBVIOUS
  <2>1. CASE EnsureSpace BY <2>1, ReclaimOrder
  <2>2. CASE Next /\ ~EnsureSpace BY <2>2, OthersOrder DEF Next
  <2>3. CASE UNCHANGED vars
    BY <2>3 DEF vars, disk, stream, OrderInv, NumbersInv, RecInv, FloorInv, WalkInv, Spared, Log,
                Deletable, Numbers, NameKey
  <2> QED BY <2>1, <2>2, <2>3
<1>3. OrderInv /\ [Next]_vars =>
        [step = "delete" /\ step' = "delete" =>
           \A n \in Numbers \ Numbers' : \A m \in Numbers \ {n} :
               m < n => m = active \/ Log(m) \in openForRead \/ m \in Stuck]_vars
  <2> SUFFICES ASSUME OrderInv, Next, step = "delete", step' = "delete",
                      NEW n \in Numbers \ Numbers', NEW m \in Numbers \ {n}, m < n
               PROVE  Spared(m)
    BY DEF Spared
  <2>1. ReclaimDelete
    BY DEF Next, Board, Client, EnsureSpace, Refresh, EnoughSpace, ReclaimStart, RoundOver, Round,
           RoundDone, ReclaimRefused, StreamStart, WantFile, CreateFile, CreateAndEnd, CreateFails,
           Grow, WriteShort, PartEnds, SessionClose, StoreTick, RefreshDue, NoRefresh, WriteDict,
           RenameDict, PutDict, LoadDict, Refreshed, Call, StoreOpenRead, StoreReadDone,
           StoreDelete, Reboot, disk, Numbers
  <2>2. n = Oldest /\ rec.oldest # {}
    BY <2>1 DEF ReclaimDelete, Without, Numbers
  <2>3. NameKey(m) <= NameKey(n)
    <3>1. m \in 1 .. MAX_SEQ /\ n \in 1 .. MAX_SEQ
      BY DEF OrderInv, NumbersInv
    <3>2. NameKey(m) \in Nat /\ NameKey(n) \in Nat /\ NameKey(m) < NameKey(n)
      BY <3>1, KeysInOrder
    <3> QED BY <3>2
  <2> QED BY <2>2, <2>3, BeforeOldest
<1> QED BY <1>1, <1>2, <1>3, FlashInductive, PTL DEF Spec, OldestFirst

-----------------------------------------------------------------------------
\* Sums over a finite set.  What SumFunctionOnSet adds up is defined by taking
\* one element out; of the sets for which a law fails there would be a smallest.

\* g gives every subset of U the sum of f over it.
IsSum(f, U, g) ==
    g = [T \in SUBSET U |->
           IF T = {} THEN 0
           ELSE f[CHOOSE x \in T : TRUE] + g[T \ {CHOOSE x \in T : TRUE}]]

\* SumFunctionOnSet(f, U) is what one such g gives U.
LEMMA SumIs ==
    ASSUME NEW f, NEW U
    PROVE  SumFunctionOnSet(f, U) = (CHOOSE g : IsSum(f, U, g))[U]
BY Zenon DEF SumFunctionOnSet, FoldFunctionOnSet, MapThenFoldSet, IsSum

\* Of the subsets of a finite set there is a smallest.
LEMMA Smallest ==
    ASSUME NEW U, IsFiniteSet(U), NEW S \in SUBSET SUBSET U, S # {}
    PROVE  \E T \in S : \A W \in S : W \subseteq T => W = T
<1>1. IsWellFoundedOn(StrictSubsetOrdering(U), SUBSET U)
  BY FS_StrictSubsetOrderingWellFounded, FS_FiniteSubsetsOfFinite
<1>2. PICK T \in S : \A W \in S : ~(<<W, T>> \in StrictSubsetOrdering(U))
  BY <1>1, WFMin
<1>3. \A W \in S : W \subseteq T => W = T
  BY <1>2 DEF StrictSubsetOrdering
<1> QED BY <1>3

\* What a sum over a set is made of.
LEMMA SumUnfolds ==
    ASSUME NEW f, NEW U, NEW g, IsSum(f, U, g)
    PROVE  /\ g[{}] = 0
           /\ \A T \in SUBSET U : T # {} =>
                g[T] = f[CHOOSE x \in T : TRUE] + g[T \ {CHOOSE x \in T : TRUE}]
BY DEF IsSum

\* Two that add up the same agree.
LEMMA SumUnique ==
    ASSUME NEW f, NEW h, NEW U, NEW V, NEW g, NEW k, IsFiniteSet(V), V \subseteq U,
           IsSum(f, U, g), IsSum(h, V, k), \A x \in V : f[x] = h[x]
    PROVE  \A T \in SUBSET V : g[T] = k[T]
<1>0. \A T \in SUBSET U : T # {} =>
        g[T] = f[CHOOSE x \in T : TRUE] + g[T \ {CHOOSE x \in T : TRUE}]
  BY SumUnfolds
<1> DEFINE bad == {T \in SUBSET V : g[T] # k[T]}
<1>1. SUFFICES ASSUME bad # {} PROVE FALSE
  OBVIOUS
<1>2. PICK T \in bad : \A W \in bad : W \subseteq T => W = T
  <2>1. bad \in SUBSET SUBSET V
    OBVIOUS
  <2> HIDE DEF bad
  <2> QED BY <1>1, <2>1, Smallest
<1> DEFINE c == CHOOSE x \in T : TRUE
<1>3. T \in SUBSET V /\ T \in SUBSET U /\ g[T] # k[T]
  OBVIOUS
<1>4. T # {}
  <2>1. g[{}] = 0 /\ k[{}] = 0
    BY SumUnfolds
  <2> QED BY <1>3, <2>1
<1>5. c \in T
  BY <1>4
<1>6. g[T \ {c}] = k[T \ {c}]
  BY <1>2, <1>3, <1>5
<1>7. g[T] = f[c] + g[T \ {c}] /\ k[T] = h[c] + k[T \ {c}]
  <2>1. g[T] = f[c] + g[T \ {c}]
    BY <1>0, <1>3, <1>4
  <2>2. k[T] = h[c] + k[T \ {c}]
    BY <1>3, <1>4, SumUnfolds
  <2> QED BY <2>1, <2>2
<1> QED BY <1>3, <1>5, <1>6, <1>7

\* Over a finite set there is one.
LEMMA SumExists ==
    ASSUME NEW f, NEW U, IsFiniteSet(U)
    PROVE  \E g : IsSum(f, U, g)
<1> DEFINE bad == {T \in SUBSET U : ~ \E g : IsSum(f, T, g)}
<1>1. SUFFICES ASSUME bad # {} PROVE FALSE
  OBVIOUS
<1>2. PICK T \in bad : \A W \in bad : W \subseteq T => W = T
  <2>1. bad \in SUBSET SUBSET U
    OBVIOUS
  <2> HIDE DEF bad
  <2> QED BY <1>1, <2>1, Smallest
<1> DEFINE G(W) == (CHOOSE g : IsSum(f, W, g))[W]
           c(W) == CHOOSE x \in W : TRUE
           s == [W \in SUBSET T |-> IF W = {} THEN 0 ELSE f[c(W)] + G(W \ {c(W)})]
<1>3. \A W \in SUBSET T : W # T => IsSum(f, W, CHOOSE g : IsSum(f, W, g))
  BY <1>2
<1>4. ASSUME NEW W \in SUBSET T, W # T PROVE G(W) = s[W]
  <2>1. IsSum(f, W, CHOOSE g : IsSum(f, W, g))
    BY <1>3, <1>4
  <2>2. CASE W = {}
    BY <2>1, <2>2, SumUnfolds
  <2>3. CASE W # {}
    <3> DEFINE V == W \ {c(W)}
    <3>1. c(W) \in W
      BY <2>3
    <3>2. V \in SUBSET T /\ V # T /\ V \subseteq W /\ IsFiniteSet(V)
      BY <1>4, <3>1, FS_Subset
    <3>3. IsSum(f, V, CHOOSE g : IsSum(f, V, g))
      BY <1>3, <3>2
    <3>4. (CHOOSE g : IsSum(f, W, g))[V] = (CHOOSE g : IsSum(f, V, g))[V]
      BY <2>1, <3>2, <3>3, SumUnique
    <3>5. G(W) = f[c(W)] + (CHOOSE g : IsSum(f, W, g))[V]
      BY <2>1, <2>3, SumUnfolds
    <3>6. s[W] = f[c(W)] + G(V)
      BY <2>3
    <3> QED BY <3>4, <3>5, <3>6
  <2> QED BY <2>2, <2>3
<1>5. IsSum(f, T, s)
  <2>1. ASSUME NEW W \in SUBSET T, W # {} PROVE G(W \ {c(W)}) = s[W \ {c(W)}]
    <3>1. W \ {c(W)} \in SUBSET T /\ W \ {c(W)} # T
      BY <2>1
    <3> QED BY <1>4, <3>1
  <2> DEFINE here(W) == IF W = {} THEN 0 ELSE f[c(W)] + G(W \ {c(W)})
             back(W) == IF W = {} THEN 0 ELSE f[c(W)] + s[W \ {c(W)}]
  <2>2. \A W \in SUBSET T : here(W) = back(W)
    <3> HIDE DEF c, G, s
    <3> QED BY <2>1
  <2>3. s = [W \in SUBSET T |-> here(W)]
    OBVIOUS
  <2>4. s = [W \in SUBSET T |-> back(W)]
    <3> HIDE DEF here, back, s
    <3> QED BY <2>2, <2>3
  <2> QED BY <2>4 DEF IsSum
<1> QED BY <1>5

\* What SumFunctionOnSet is: nothing for no element ...
LEMMA SumOfNone ==
    ASSUME NEW f
    PROVE  SumFunctionOnSet(f, {}) = 0
<1>1. IsSum(f, {}, CHOOSE g : IsSum(f, {}, g))
  BY SumExists, FS_EmptySet
<1> QED BY <1>1, SumUnfolds, SumIs

\* ... some element, and the rest.
LEMMA SumOfSome ==
    ASSUME NEW f, NEW T, IsFiniteSet(T), T # {}
    PROVE  \E c \in T : SumFunctionOnSet(f, T) = f[c] + SumFunctionOnSet(f, T \ {c})
<1> DEFINE c == CHOOSE x \in T : TRUE
           V == T \ {c}
<1>1. c \in T /\ IsFiniteSet(V)
  BY FS_Subset
<1>2. IsSum(f, T, CHOOSE g : IsSum(f, T, g)) /\ IsSum(f, V, CHOOSE g : IsSum(f, V, g))
  BY <1>1, SumExists
<1>3. (CHOOSE g : IsSum(f, T, g))[V] = (CHOOSE g : IsSum(f, V, g))[V]
  BY <1>1, <1>2, SumUnique
<1>4. (CHOOSE g : IsSum(f, T, g))[T] = f[c] + (CHOOSE g : IsSum(f, T, g))[V]
  BY <1>2, SumUnfolds
<1>5. SumFunctionOnSet(f, T) = f[c] + SumFunctionOnSet(f, V)
  BY <1>3, <1>4, SumIs
<1> QED BY <1>1, <1>5

\* Only the values on the set matter.
LEMMA SumOfSame ==
    ASSUME NEW f, NEW h, NEW T, IsFiniteSet(T), \A x \in T : f[x] = h[x]
    PROVE  SumFunctionOnSet(f, T) = SumFunctionOnSet(h, T)
<1>1. IsSum(f, T, CHOOSE g : IsSum(f, T, g)) /\ IsSum(h, T, CHOOSE g : IsSum(h, T, g))
  BY SumExists
<1>2. (CHOOSE g : IsSum(f, T, g))[T] = (CHOOSE g : IsSum(h, T, g))[T]
  BY <1>1, SumUnique
<1> QED BY <1>2, SumIs

\* The sum of naturals is one.
LEMMA SumType ==
    ASSUME NEW f, NEW U, IsFiniteSet(U), \A x \in U : f[x] \in Nat
    PROVE  SumFunctionOnSet(f, U) \in Nat
<1> DEFINE bad == {T \in SUBSET U : SumFunctionOnSet(f, T) \notin Nat}
<1>1. SUFFICES ASSUME bad # {} PROVE FALSE
  OBVIOUS
<1>2. PICK T \in bad : \A W \in bad : W \subseteq T => W = T
  <2>1. bad \in SUBSET SUBSET U
    OBVIOUS
  <2> HIDE DEF bad
  <2> QED BY <1>1, <2>1, Smallest
<1>3. T # {}
  BY SumOfNone
<1>4. PICK c \in T : SumFunctionOnSet(f, T) = f[c] + SumFunctionOnSet(f, T \ {c})
  BY <1>3, SumOfSome, FS_Subset
<1>5. SumFunctionOnSet(f, T \ {c}) \in Nat
  BY <1>2
<1> QED BY <1>4, <1>5

\* Any one may be taken out.
LEMMA SumWithout ==
    ASSUME NEW f, NEW U, IsFiniteSet(U), \A x \in U : f[x] \in Nat, NEW y \in U
    PROVE  SumFunctionOnSet(f, U) = f[y] + SumFunctionOnSet(f, U \ {y})
<1> DEFINE S(T) == SumFunctionOnSet(f, T)
           bad == {T \in SUBSET U : \E z \in T : S(T) # f[z] + S(T \ {z})}
<1>1. SUFFICES ASSUME bad # {} PROVE FALSE
  OBVIOUS
<1>2. PICK T \in bad : \A W \in bad : W \subseteq T => W = T
  <2>1. bad \in SUBSET SUBSET U
    OBVIOUS
  <2> HIDE DEF bad
  <2> QED BY <1>1, <2>1, Smallest
<1>3. PICK z \in T : S(T) # f[z] + S(T \ {z})
  OBVIOUS
<1>4. \A W \in SUBSET U : IsFiniteSet(W) /\ S(W) \in Nat
  BY FS_Subset, SumType
<1>5. PICK c \in T : S(T) = f[c] + S(T \ {c})
  BY <1>4, SumOfSome
<1>6. c # z
  BY <1>3, <1>5
<1>7. S(T \ {c}) = f[z] + S((T \ {c}) \ {z}) /\ S(T \ {z}) = f[c] + S((T \ {z}) \ {c})
  <2>1. T \ {c} \notin bad /\ T \ {z} \notin bad
    BY <1>2
  <2>2. T \ {c} \in SUBSET U /\ T \ {z} \in SUBSET U /\ z \in T \ {c} /\ c \in T \ {z}
    BY <1>6
  <2> QED BY <2>1, <2>2
<1>8. (T \ {c}) \ {z} = (T \ {z}) \ {c}
  OBVIOUS
<1>9. /\ S(T \ {c}) \in Nat /\ S((T \ {c}) \ {z}) \in Nat /\ S(T \ {z}) \in Nat
      /\ f[c] \in Nat /\ f[z] \in Nat
  BY <1>4
<1> HIDE DEF S
<1> QED BY <1>3, <1>5, <1>7, <1>8, <1>9

-----------------------------------------------------------------------------
\* The types of the flash, with what carries them from step to step.

\* Session files and dictionaries are what their names and heads say.
FilesInv ==
    /\ \A n \in Numbers : logs[n] \in [dict : Dicts \cup {0}, blocks : Nat]
    /\ dicts \subseteq Dicts /\ tmp \in BOOLEAN
    /\ {nvsDict, dictId, streamDict, new} \subseteq Dicts \cup {0}

Refreshing == {"dictTmp", "rename", "put", "load"}

\* A call is at one of its steps; one that writes a dictionary has one to
\* write, and about to rename it, has written it.
StepInv ==
    /\ step \in {"idle", "reclaim", "round", "delete", "create", "createEnd", "write",
                 "refresh", "dictTmp", "rename", "put", "load"}
    /\ step \in Refreshing \/ (step \in ReclaimSteps /\ then = "dictTmp") => new \in Dicts
    /\ step = "rename" => tmp

\* The stream's file is the last of the numbers given.
ActiveInv == active # 0 => active = seq /\ active \in Numbers /\ streamOpen

\* What is being read is there, and no walk holds it or the active file.
HeldInv ==
    /\ \A name \in openForRead : OnFlash(name)
    /\ step = "delete" =>
           \A n \in rec.oldest : n \in Numbers /\ n # active /\ Log(n) \notin openForRead

StoreInv == NumbersInv /\ RecInv /\ FilesInv /\ StepInv /\ ActiveInv /\ HeldInv /\ Free >= 0

\* A name's place is a number.
LEMMA KeyType == \A n \in Nat : NameKey(n) \in Nat
<1> SUFFICES ASSUME NEW n \in Nat PROVE NameKey(n) \in Nat
  OBVIOUS
<1>1. BASE \in Nat \ {0} /\ SEQ_DIGITS_MAX \in Nat
  BY FlashAssumption
<1>2. n * (BASE + 1) \in Nat
  BY <1>1
<1>3. n \div BASE \in Nat /\ n % BASE \in Nat
  BY <1>1
<1> DEFINE d == n \div BASE
           r == n % BASE
<1>4. (d * (BASE + 1)) + 1 + r \in Nat
  <2> HIDE DEF d, r
  <2>1. d \in Nat /\ r \in Nat
    BY <1>3 DEF d, r
  <2> QED BY <1>1, <2>1
<1> QED BY <1>2, <1>4 DEF NameKey

\* Of the names of some numbers one sorts first.
LEMMA FirstName ==
    ASSUME NEW T, T \subseteq Nat, T # {}
    PROVE  \E n \in T : \A m \in T : NameKey(n) <= NameKey(m)
<1> DEFINE K == {NameKey(n) : n \in T}
<1>1. K \subseteq Nat /\ K # {}
  BY KeyType
<1>2. PICK k \in K : \A j \in K : k <= j
  <2> HIDE DEF K
  <2> QED BY <1>1, Least
<1> QED BY <1>2

-----------------------------------------------------------------------------
\* The room: what a session file takes, and gives back.

Takes(n) == logs[n].blocks + META

\* The dictionaries are no more than there are ids.
LEMMA DictsFinite ==
    ASSUME NEW S \in SUBSET Dicts
    PROVE  IsFiniteSet(S) /\ Cardinality(S) \in Nat
BY FlashAssumption, FS_Subset, FS_CardinalityType

\* ... and the sessions no more than there are numbers.
LEMMA NumbersFinite ==
    ASSUME NEW S \in SUBSET (1 .. MAX_SEQ)
    PROVE  IsFiniteSet(S)
<1>1. 1 \in Int /\ MAX_SEQ \in Int
  BY FlashAssumption
<1> QED BY <1>1, FS_Interval, FS_Subset

\* Each file's room is part of all that is used.
LEMMA UsedType ==
    ASSUME NumbersInv, FilesInv
    PROVE  /\ Used \in Nat
           /\ \A n \in Numbers : Takes(n) \in Nat /\ Takes(n) <= Used
           /\ \A n \in Numbers :
                SumFunctionOnSet([k \in Numbers |-> Takes(k)], Numbers \ {n}) = Used - Takes(n)
<1> DEFINE f == [k \in Numbers |-> Takes(k)]
<1>1. IsFiniteSet(Numbers)
  BY NumbersFinite DEF NumbersInv
<1>2. \A n \in Numbers : f[n] = Takes(n) /\ Takes(n) \in Nat
  BY FlashAssumption DEF FilesInv, Takes
<1>3. Used = SumFunctionOnSet(f, Numbers)
  BY DEF Used, Takes, SumFunction
<1> HIDE DEF f
<1>4. Used \in Nat
  BY <1>1, <1>2, <1>3, SumType
<1>5. ASSUME NEW n \in Numbers
      PROVE  /\ Used = Takes(n) + SumFunctionOnSet(f, Numbers \ {n})
             /\ SumFunctionOnSet(f, Numbers \ {n}) \in Nat
  <2>1. IsFiniteSet(Numbers \ {n})
    BY <1>1, FS_Subset
  <2>2. SumFunctionOnSet(f, Numbers \ {n}) \in Nat
    BY <1>2, <2>1, SumType
  <2>3. Used = f[n] + SumFunctionOnSet(f, Numbers \ {n})
    BY <1>1, <1>2, <1>3, SumWithout
  <2> QED BY <1>2, <2>2, <2>3
<1>6. \A n \in Numbers : Takes(n) <= Used /\ SumFunctionOnSet(f, Numbers \ {n}) = Used - Takes(n)
  BY <1>2, <1>4, <1>5
<1> QED BY <1>2, <1>4, <1>6 DEF f

\* One file goes.
LEMMA UsedLess ==
    ASSUME NumbersInv, FilesInv, NEW n \in Numbers, logs' = Without({n})
    PROVE  Used' = Used - Takes(n)
<1> DEFINE f == [k \in Numbers |-> Takes(k)]
           h == [k \in Numbers' |-> logs'[k].blocks + META]
<1>1. Numbers' = Numbers \ {n} /\ \A k \in Numbers' : logs'[k] = logs[k]
  BY DEF Without, Numbers
<1>2. IsFiniteSet(Numbers')
  BY <1>1, NumbersFinite DEF NumbersInv
<1>3. \A k \in Numbers' : h[k] = f[k]
  BY <1>1 DEF Takes
<1>4. Used' = SumFunctionOnSet(h, Numbers')
  BY DEF Used, SumFunction
<1>5. SumFunctionOnSet(f, Numbers \ {n}) = Used - Takes(n)
  BY UsedType
<1> HIDE DEF f, h
<1>6. SumFunctionOnSet(h, Numbers') = SumFunctionOnSet(f, Numbers')
  BY <1>2, <1>3, SumOfSame
<1> QED BY <1>1, <1>4, <1>5, <1>6

\* One comes, or grows.
LEMMA UsedMore ==
    ASSUME NumbersInv, FilesInv, NumbersInv', FilesInv', NEW n \in Numbers',
           Numbers' = Numbers \cup {n}, \A k \in Numbers' \ {n} : logs'[k] = logs[k]
    PROVE  Used' = Takes(n)' + (IF n \in Numbers THEN Used - Takes(n) ELSE Used)
<1> DEFINE f == [k \in Numbers |-> Takes(k)]
           h == [k \in Numbers' |-> logs'[k].blocks + META]
           rest == Numbers' \ {n}
<1>1. IsFiniteSet(Numbers') /\ IsFiniteSet(rest)
  BY NumbersFinite DEF NumbersInv
<1>2. \A k \in rest : h[k] = f[k]
  BY DEF Takes
<1>3. \A k \in Numbers' : h[k] \in Nat
  BY FlashAssumption DEF FilesInv
<1>4. Used' = SumFunctionOnSet(h, Numbers')
  BY DEF Used, SumFunction
<1>5. h[n] = Takes(n)'
  BY DEF Takes
<1>6. SumFunctionOnSet(f, rest) = IF n \in Numbers THEN Used - Takes(n) ELSE Used
  <2>1. CASE n \in Numbers
    BY <2>1, UsedType
  <2>2. CASE n \notin Numbers
    <3>1. rest = Numbers
      BY <2>2
    <3>2. Used = SumFunctionOnSet(f, Numbers)
      BY DEF Used, Takes, SumFunction
    <3> QED BY <2>2, <3>1, <3>2
  <2> QED BY <2>1, <2>2
<1> HIDE DEF f, h
<1>7. SumFunctionOnSet(h, rest) = SumFunctionOnSet(f, rest)
  BY <1>1, <1>2, SumOfSame
<1>8. SumFunctionOnSet(h, Numbers') = h[n] + SumFunctionOnSet(h, rest)
  BY <1>1, <1>3, SumWithout
<1> QED BY <1>4, <1>5, <1>6, <1>7, <1>8

\* None is left.
LEMMA UsedNone == logs = <<>> => Used = 0
<1> SUFFICES ASSUME logs = <<>> PROVE Used = 0
  OBVIOUS
<1>1. Numbers = {}
  BY DEF Numbers
<1> QED BY <1>1, SumOfNone DEF Used, SumFunction

-----------------------------------------------------------------------------
\* The invariant of the types, step by step.

LEMMA InitStore == Init => StoreInv
<1> SUFFICES ASSUME Init PROVE StoreInv
  OBVIOUS
<1> USE FlashAssumption DEF Init
<1>1. NumbersInv /\ RecInv
  BY DEF NumbersInv, RecInv, NoRec, Numbers
<1>2. FilesInv /\ ActiveInv /\ HeldInv
  <2>1. Numbers = {}
    BY DEF Numbers
  <2>2. FilesInv
    BY <2>1 DEF FilesInv
  <2> QED BY <2>2 DEF ActiveInv, HeldInv
<1>3. StepInv
  BY DEF StepInv, Refreshing, ReclaimSteps
<1>4. Free >= 0
  BY UsedNone, FS_EmptySet DEF Free
<1> QED BY <1>1, <1>2, <1>3, <1>4 DEF StoreInv

\* Nothing on the flash has changed, or only less of it is left.
LEMMA FreeSame ==
    ASSUME StoreInv, logs' = logs, dicts' \subseteq dicts, tmp' \in BOOLEAN, tmp' => tmp
    PROVE  Free' >= Free /\ Free' >= 0
<1>1. Used' = Used /\ Used \in Nat
  BY UsedType DEF StoreInv, Used, Numbers
<1>2. dicts \in SUBSET Dicts /\ dicts' \in SUBSET Dicts /\ dicts' \in SUBSET dicts
  BY DEF StoreInv, FilesInv
<1>3. Cardinality(dicts') <= Cardinality(dicts)
  BY <1>2, DictsFinite, FS_Subset
<1>4. Cardinality(dicts) \in Nat /\ Cardinality(dicts') \in Nat
  BY <1>2, DictsFinite
<1>5. tmp \in BOOLEAN /\ BLOCKS \in Nat /\ Free >= 0
  BY FlashAssumption DEF StoreInv, FilesInv
<1> DEFINE c == Cardinality(dicts)
<1>6. CASE tmp
  BY <1>1, <1>3, <1>4, <1>5, <1>6 DEF Free
<1>7. CASE ~tmp
  BY <1>1, <1>3, <1>4, <1>5, <1>7 DEF Free
<1> QED BY <1>5, <1>6, <1>7

\* A step of RAM alone, a walk apart.
LEMMA SameFlashStore ==
    ASSUME StoreInv, UNCHANGED disk, UNCHANGED <<seq, openForRead>>,
           dictId' \in Dicts \cup {0}, streamDict' \in Dicts \cup {0}, new' \in Dicts \cup {0},
           streamOpen' => streamOpen, RecInv', StepInv',
           active' # 0 => active' = active /\ (streamOpen => streamOpen'),
           step' = "delete" =>
               \A n \in rec'.oldest : n \in Numbers /\ n # active' /\ Log(n) \notin openForRead
    PROVE  StoreInv'
<1>1. Numbers' = Numbers
  BY DEF Numbers, disk
<1>2. NumbersInv'
  BY <1>1 DEF StoreInv, NumbersInv
<1>3. FilesInv'
  BY <1>1 DEF StoreInv, FilesInv, disk
<1>4. ActiveInv'
  BY <1>1 DEF StoreInv, ActiveInv
<1>5. HeldInv'
  BY <1>1 DEF StoreInv, HeldInv, OnFlash, Log, Dict, disk
<1>6. Free' >= 0
  BY FreeSame DEF disk, StoreInv, FilesInv
<1> QED BY <1>2, <1>3, <1>4, <1>5, <1>6 DEF StoreInv

\* The next of a walk is one of it.
LEMMA OldestIsOne ==
    ASSUME StoreInv, step = "delete", rec.oldest # {}
    PROVE  /\ Oldest \in rec.oldest /\ Oldest \in Numbers /\ Oldest \in Nat
           /\ Oldest # active /\ Log(Oldest) \notin openForRead
<1>1. rec.oldest \subseteq Numbers /\ Numbers \subseteq Nat
  BY FlashAssumption DEF StoreInv, HeldInv, NumbersInv
<1>2. \E n \in rec.oldest : \A m \in rec.oldest : NameKey(n) <= NameKey(m)
  BY <1>1, FirstName
<1>3. Oldest \in rec.oldest
  BY <1>2 DEF Oldest
<1> QED BY <1>1, <1>3 DEF StoreInv, HeldInv

\* A file goes that is neither active nor being read.
LEMMA FileGoes ==
    ASSUME StoreInv, NEW n \in Numbers, n # active, Log(n) \notin openForRead,
           logs' = Without({n}), UNCHANGED <<dicts, tmp, nvsDict, dictId, stream, openForRead,
           step, then, new>>, RecInv', rec'.oldest \subseteq rec.oldest,
           step = "delete" => n \notin rec'.oldest
    PROVE  StoreInv'
<1>1. Numbers' = Numbers \ {n} /\ \A k \in Numbers' : logs'[k] = logs[k]
  BY DEF Without, Numbers
<1>2. NumbersInv'
  BY <1>1 DEF StoreInv, NumbersInv, stream
<1>3. FilesInv'
  BY <1>1 DEF StoreInv, FilesInv, stream
<1>4. ActiveInv'
  BY <1>1 DEF StoreInv, ActiveInv, stream
<1>5. HeldInv'
  <2>1. ASSUME NEW name \in openForRead PROVE OnFlash(name)'
    <3>1. OnFlash(name) /\ name # Log(n)
      BY DEF StoreInv, HeldInv
    <3> QED BY <1>1, <3>1 DEF OnFlash, Log, Dict
  <2> QED BY <1>1, <2>1 DEF StoreInv, HeldInv, Log, stream
<1>6. StepInv'
  BY DEF StoreInv, StepInv
<1>7. Free' >= 0
  <2>1. Used' = Used - Takes(n) /\ Used \in Nat /\ Takes(n) \in Nat /\ Takes(n) <= Used
    BY UsedLess, UsedType DEF StoreInv
  <2>2. Cardinality(dicts) \in Nat /\ BLOCKS \in Nat /\ tmp \in BOOLEAN
    BY DictsFinite, FlashAssumption DEF StoreInv, FilesInv
  <2>3. Free >= 0
    BY DEF StoreInv
  <2> QED BY <2>1, <2>2, <2>3 DEF Free
<1> QED BY <1>2, <1>3, <1>4, <1>5, <1>6, <1>7 DEF StoreInv

\* dictCollect() takes nothing that is being read.
LEMMA CollectedStore ==
    ASSUME StoreInv, NEW inUse, NEW gone \in Collected(inUse), dicts' = dicts \ gone,
           tmp' \in BOOLEAN, tmp' => tmp, step' = "rename" => tmp',
           UNCHANGED <<logs, nvsDict, stream, openForRead>>,
           dictId' \in Dicts \cup {0}, new' \in Dicts \cup {0},
           RecInv', StepInv', step' # "delete"
    PROVE  StoreInv'
<1>1. Numbers' = Numbers
  BY DEF Numbers
<1>2. NumbersInv' /\ ActiveInv'
  BY <1>1 DEF StoreInv, NumbersInv, ActiveInv, stream
<1>3. FilesInv'
  BY <1>1 DEF StoreInv, FilesInv, stream
<1>4. \A d \in gone : Dict(d) \notin openForRead
  BY DEF Collected, Collectable
<1>5. HeldInv'
  BY <1>1, <1>4 DEF StoreInv, HeldInv, OnFlash, Log, Dict
<1>6. Free' >= 0
  BY FreeSame
<1> QED BY <1>2, <1>3, <1>5, <1>6 DEF StoreInv

\* dictCollect() and ensureSpace().
LEMMA EnsureSpaceStore == IInv /\ StoreInv /\ EnsureSpace => StoreInv'
<1> SUFFICES ASSUME IInv, StoreInv, EnsureSpace PROVE StoreInv'
  OBVIOUS
<1>0. RecInv /\ StepInv /\ FilesInv /\ HeldInv /\ ActiveInv
  BY DEF StoreInv
<1>1. step \in ReclaimSteps =>
        /\ then \in {"idle", "create", "createEnd", "write", "dictTmp"}
        /\ then = "dictTmp" => new \in Dicts
  BY DEF IInv, CallInv, StoreInv, StepInv
<1>2. CASE EnoughSpace \/ RoundOver
  <2>1. /\ step \in ReclaimSteps /\ step' = then
        /\ UNCHANGED <<disk, dictId, stream, openForRead, then, new>>
    BY <1>2 DEF EnoughSpace, RoundOver, ReclaimSteps
  <2>2. RecInv'
    BY <1>0, <1>2 DEF EnoughSpace, RoundOver, RecInv, NoRec
  <2>3. StepInv'
    BY <1>1, <2>1 DEF StepInv, Refreshing, ReclaimSteps
  <2> QED BY <1>0, <1>1, <2>1, <2>2, <2>3, SameFlashStore DEF FilesInv, stream
<1>3. CASE ReclaimStart
  <2>1. PICK gone \in Collected(dictId), tmpGone \in BOOLEAN :
           dicts' = dicts \ gone /\ tmp' = (tmp /\ ~tmpGone)
    BY <1>3 DEF ReclaimStart
  <2>2. RecInv'
    BY <1>3 DEF ReclaimStart, RecInv, NoRec
  <2>3. StepInv'
    BY <1>0, <1>3 DEF ReclaimStart, StepInv, Refreshing, ReclaimSteps
  <2>4. tmp' \in BOOLEAN /\ (tmp' => tmp) /\ step' = "round"
    BY <1>0, <1>3, <2>1 DEF ReclaimStart, FilesInv
  <2>5. dictId' \in Dicts \cup {0} /\ new' \in Dicts \cup {0}
    BY <1>0, <1>3 DEF ReclaimStart, FilesInv
  <2>6. UNCHANGED <<logs, nvsDict, stream, openForRead>>
    BY <1>3 DEF ReclaimStart
  <2> QED BY <2>1, <2>2, <2>3, <2>4, <2>5, <2>6, CollectedStore
<1>4. CASE Round
  <2> DEFINE D == Deletable(rec.floor)
             need == IF rec.freed >= rec.need THEN FS_MIN_FREE - Free ELSE rec.need
             freed == IF rec.freed >= rec.need THEN 0 ELSE rec.freed
  <2>1. /\ step = "round" /\ step' = "delete"
        /\ UNCHANGED <<disk, dictId, stream, openForRead, then, new>>
        /\ rec' = [rec EXCEPT !.round = rec.round + 1, !.oldest = KeepSmallest(D),
                              !.need = need, !.freed = freed]
    BY <1>4 DEF Round
  <2>2. RecInv' /\ rec'.oldest = KeepSmallest(D)
    <3> HIDE DEF need, freed, D
    <3>1. rec' = [need |-> need, freed |-> freed, round |-> rec.round + 1, floor |-> rec.floor,
                  refusals |-> rec.refusals, oldest |-> KeepSmallest(D)]
      BY <1>0, <2>1 DEF RecInv
    <3> QED BY <3>1 DEF RecInv
  <2>3. \A n \in rec'.oldest : n \in Numbers /\ n # active /\ Log(n) \notin openForRead
    BY <2>2 DEF KeepSmallest, Deletable
  <2>4. StepInv'
    BY <1>0, <2>1 DEF StepInv, Refreshing, ReclaimSteps, disk
  <2> QED BY <1>0, <2>1, <2>2, <2>3, <2>4, SameFlashStore DEF FilesInv, stream
<1>5. CASE RoundDone
  <2>1. /\ step = "delete" /\ step' = "round"
        /\ UNCHANGED <<disk, dictId, stream, openForRead, then, new, rec>>
    BY <1>5 DEF RoundDone
  <2>2. RecInv' /\ StepInv'
    BY <1>0, <2>1 DEF StepInv, RecInv, Refreshing, ReclaimSteps, disk
  <2> QED BY <1>0, <2>1, <2>2, SameFlashStore DEF FilesInv, stream
<1>6. CASE ReclaimDelete
  <2>1. /\ step = "delete" /\ rec.oldest # {} /\ logs' = Without({Oldest})
        /\ rec' = [Picked EXCEPT !.refusals = 0, !.freed = rec.freed + logs[Oldest].blocks]
        /\ UNCHANGED <<dicts, tmp, nvsDict, dictId, stream, openForRead, step, then, new>>
    BY <1>0, <1>6 DEF ReclaimDelete, Picked, RecInv
  <2>2. RecInv' /\ rec'.oldest = rec.oldest \ {Oldest}
    BY <1>0, <2>1 DEF Picked, RecInv
  <2>3. /\ Oldest \in Numbers /\ Oldest # active /\ Log(Oldest) \notin openForRead
    BY <2>1, OldestIsOne
  <2> QED BY <2>1, <2>2, <2>3, FileGoes
<1>7. CASE ReclaimRefused
  <2>1. /\ step = "delete" /\ rec.oldest # {}
        /\ UNCHANGED <<disk, dictId, stream, openForRead, then, new>>
    BY <1>7 DEF ReclaimRefused
  <2>2. CASE GivesUp(rec.refusals + 1)
    <3>1. step' = then /\ rec' = NoRec
      BY <1>7, <2>2 DEF ReclaimRefused
    <3>2. RecInv'
      BY <3>1 DEF RecInv, NoRec
    <3>3. StepInv'
      BY <1>1, <2>1, <3>1 DEF StepInv, Refreshing, ReclaimSteps
    <3> QED BY <1>0, <1>1, <2>1, <3>1, <3>2, <3>3, SameFlashStore
            DEF FilesInv, stream, ReclaimSteps
  <2>3. CASE ~GivesUp(rec.refusals + 1)
    <3>1. step' = step /\ rec' = [Picked EXCEPT !.refusals = Picked.refusals + 1]
      BY <1>7, <2>3 DEF ReclaimRefused
    <3>2. RecInv' /\ rec'.oldest = rec.oldest \ {Oldest}
      BY <1>0, <3>1 DEF Picked, RecInv
    <3>3. StepInv'
      BY <1>0, <2>1, <3>1 DEF StepInv, Refreshing, ReclaimSteps, disk
    <3>4. \A n \in rec'.oldest : n \in Numbers /\ n # active /\ Log(n) \notin openForRead
      BY <1>0, <2>1, <3>2 DEF HeldInv
    <3> QED BY <1>0, <2>1, <3>1, <3>2, <3>3, <3>4, SameFlashStore DEF FilesInv, stream
  <2> QED BY <2>2, <2>3
<1> QED BY <1>2, <1>3, <1>4, <1>5, <1>6, <1>7 DEF EnsureSpace

\* The stream and its file.
LEMMA StreamStore ==
    ASSUME IInv, StoreInv,
           \/ StreamStart \/ (\E k \in {"create", "createEnd"} : WantFile(k))
           \/ CreateFile \/ CreateAndEnd \/ CreateFails
           \/ Grow \/ WriteShort \/ PartEnds \/ SessionClose \/ StoreTick
    PROVE  StoreInv'
<1>0. RecInv /\ StepInv /\ FilesInv /\ HeldInv /\ ActiveInv /\ NumbersInv /\ Free >= 0
  BY DEF StoreInv
<1>1. CASE StreamStart
  <2>1. /\ logs' = logs /\ dicts' = dicts /\ tmp' = tmp /\ nvsDict' = nvsDict
        /\ UNCHANGED <<dictId, active, openForRead, step, then, new, rec>>
        /\ streamDict' = dictId /\ seq' = seq + 1 /\ seq < MAX_SEQ /\ step = "idle" /\ active = 0
    BY <1>1 DEF StreamStart, disk, IInv, StreamInv
  <2>2. NumbersInv'
    BY <1>0, <2>1, FlashAssumption DEF NumbersInv, Numbers
  <2>3. RecInv' /\ FilesInv' /\ ActiveInv'
    BY <1>0, <2>1 DEF RecInv, FilesInv, ActiveInv, Numbers
  <2>4. StepInv' /\ HeldInv'
    BY <1>0, <2>1 DEF StepInv, HeldInv, OnFlash, Log, Dict, Numbers, Refreshing, ReclaimSteps
  <2>5. Free' >= 0
    BY <1>0, <2>1, FreeSame DEF FilesInv
  <2> QED BY <2>2, <2>3, <2>4, <2>5 DEF StoreInv
<1>2. CASE \/ (\E k \in {"create", "createEnd"} : WantFile(k)) \/ CreateFails
           \/ WriteShort \/ PartEnds \/ SessionClose \/ StoreTick
  <2>1. /\ UNCHANGED <<disk, dictId, seq, openForRead, new, rec>>
        /\ streamDict' \in {0, streamDict} /\ (streamOpen' => streamOpen)
        /\ (active' # 0 => active' = active /\ streamOpen' = streamOpen)
        /\ step' \notin Refreshing \cup {"delete"}
    BY <1>2 DEF WantFile, CreateFails, WriteShort, PartEnds, SessionClose, StoreTick, Close, Call,
                stream, Refreshing
  <2>2. StepInv'
    BY <1>0, <1>2, <2>1 DEF WantFile, CreateFails, WriteShort, PartEnds, SessionClose, StoreTick,
                            Close, Call, StepInv, Refreshing, ReclaimSteps
  <2>3. RecInv'
    BY <1>0, <2>1 DEF RecInv
  <2>4. dictId' \in Dicts \cup {0} /\ streamDict' \in Dicts \cup {0} /\ new' \in Dicts \cup {0}
    BY <1>0, <2>1 DEF FilesInv
  <2>5. UNCHANGED <<seq, openForRead>> /\ UNCHANGED disk
    BY <2>1
  <2> QED BY <2>1, <2>2, <2>3, <2>4, <2>5, SameFlashStore
<1>3. CASE CreateFile \/ CreateAndEnd
  <2>1. /\ step \in {"create", "createEnd"} /\ step' \in {"idle", "refresh"}
        /\ Free >= META /\ seq \notin Numbers /\ logs' = Created
        /\ UNCHANGED <<dicts, tmp, nvsDict, dictId, seq, openForRead, then, new, rec>>
        /\ streamDict' \in {0, streamDict}
        /\ (streamOpen' => streamOpen) /\ (active' # 0 => active' = seq /\ streamOpen' = streamOpen)
    BY <1>3 DEF CreateFile, CreateAndEnd, Close
  <2>2. Numbers' = Numbers \cup {seq}
    BY <2>1 DEF Created, Numbers
  <2>3. streamOpen /\ seq \in 1 .. MAX_SEQ
    <3>1. streamOpen
      BY <2>1 DEF IInv, CallInv
    <3> QED BY <1>0, <3>1, FlashAssumption DEF NumbersInv
  <2>4. NumbersInv'
    BY <1>0, <2>1, <2>2, <2>3 DEF NumbersInv
  <2>5. /\ \A k \in Numbers' \ {seq} : logs'[k] = logs[k]
        /\ logs'[seq] = [dict |-> dictId, blocks |-> 0]
    BY <2>1, <2>2 DEF Created
  <2>6. FilesInv'
    <3>1. \A n \in Numbers' : logs'[n] \in [dict : Dicts \cup {0}, blocks : Nat]
      BY <1>0, <2>2, <2>5 DEF FilesInv
    <3> QED BY <1>0, <2>1, <3>1 DEF FilesInv
  <2>7. ActiveInv' /\ RecInv'
    BY <1>0, <2>1, <2>2, <2>3 DEF ActiveInv, RecInv
  <2>8. HeldInv'
    BY <1>0, <2>1, <2>2 DEF HeldInv, OnFlash, Log, Dict
  <2>9. StepInv'
    BY <1>0, <2>1 DEF StepInv, Refreshing, ReclaimSteps
  <2>10. Free' >= 0
    <3>1. Used' = Takes(seq)' + Used
      BY <1>0, <2>1, <2>2, <2>4, <2>5, <2>6, UsedMore
    <3>2. Takes(seq)' = META
      BY <2>1, <2>5, FlashAssumption DEF Takes
    <3>3. Used \in Nat /\ Cardinality(dicts) \in Nat
      BY <1>0, UsedType, DictsFinite DEF FilesInv
    <3> QED BY <1>0, <2>1, <3>1, <3>2, <3>3, FlashAssumption DEF Free, FilesInv
  <2> QED BY <2>4, <2>6, <2>7, <2>8, <2>9, <2>10 DEF StoreInv
<1>4. CASE Grow
  <2>1. /\ step \in {"idle", "write"} /\ step' = "idle" /\ active # 0 /\ Free > 0
        /\ logs' = [logs EXCEPT ![active].blocks = logs[active].blocks + 1]
        /\ UNCHANGED <<dicts, tmp, nvsDict, dictId, stream, openForRead, then, new, rec>>
    BY <1>4 DEF Grow
  <2>2. Numbers' = Numbers /\ active \in Numbers
    BY <1>0, <2>1 DEF Numbers, ActiveInv
  <2>3. \A k \in Numbers' \ {active} : logs'[k] = logs[k]
    BY <2>1, <2>2 DEF Numbers
  <2>4. logs'[active] = [logs[active] EXCEPT !.blocks = logs[active].blocks + 1]
    BY <2>1, <2>2 DEF Numbers
  <2>5. /\ logs'[active] \in [dict : Dicts \cup {0}, blocks : Nat]
        /\ logs'[active].blocks = logs[active].blocks + 1
    BY <1>0, <2>2, <2>4 DEF FilesInv
  <2>6. NumbersInv' /\ ActiveInv' /\ RecInv'
    BY <1>0, <2>1, <2>2 DEF NumbersInv, ActiveInv, RecInv, stream
  <2>7. FilesInv'
    <3>1. \A n \in Numbers' : logs'[n] \in [dict : Dicts \cup {0}, blocks : Nat]
      BY <1>0, <2>2, <2>3, <2>5 DEF FilesInv
    <3> QED BY <1>0, <2>1, <3>1 DEF FilesInv, stream
  <2>8. HeldInv' /\ StepInv'
    BY <1>0, <2>1, <2>2 DEF HeldInv, OnFlash, Log, Dict, StepInv, Refreshing, ReclaimSteps
  <2>9. Free' >= 0
    <3>1. Used' = Takes(active)' + (Used - Takes(active))
      <4>1. active \in Numbers' /\ Numbers' = Numbers \cup {active}
        BY <2>2
      <4>2. active' = active
        BY <2>1 DEF stream
      <4> QED BY <1>0, <2>2, <2>3, <2>6, <2>7, <4>1, <4>2, UsedMore
    <3>2. Takes(active)' = Takes(active) + 1 /\ Takes(active) \in Nat
      <4>1. active' = active
        BY <2>1 DEF stream
      <4>2. logs[active].blocks \in Nat
        BY <1>0, <2>2 DEF FilesInv
      <4> QED BY <2>5, <4>1, <4>2, FlashAssumption DEF Takes
    <3>3. Used \in Nat /\ Cardinality(dicts) \in Nat
      BY <1>0, UsedType, DictsFinite DEF FilesInv
    <3> QED BY <2>1, <3>1, <3>2, <3>3, <1>0, FlashAssumption DEF Free, FilesInv
  <2> QED BY <2>6, <2>7, <2>8, <2>9 DEF StoreInv
<1> QED BY <1>1, <1>2, <1>3, <1>4

\* dictMaybeRefresh().
LEMMA RefreshStore == IInv /\ StoreInv /\ Refresh => StoreInv'
<1> SUFFICES ASSUME IInv, StoreInv, Refresh PROVE StoreInv'
  OBVIOUS
<1>0. RecInv /\ StepInv /\ FilesInv /\ HeldInv /\ ActiveInv /\ NumbersInv /\ Free >= 0
  BY DEF StoreInv
<1>1. CASE (\E d \in Dicts : RefreshDue(d)) \/ PutDict
  <2>1. /\ logs' = logs /\ dicts' = dicts /\ tmp' = tmp /\ nvsDict' \in Dicts \cup {0}
        /\ UNCHANGED <<dictId, stream, openForRead, rec>> /\ step' # "delete"
    BY <1>0, <1>1 DEF RefreshDue, PutDict, Call, disk, FilesInv
  <2>2. new' \in Dicts \cup {0} /\ StepInv'
    BY <1>0, <1>1 DEF RefreshDue, PutDict, Call, disk, FilesInv, StepInv, Refreshing, ReclaimSteps
  <2>3. NumbersInv' /\ ActiveInv' /\ RecInv'
    BY <1>0, <2>1 DEF NumbersInv, ActiveInv, RecInv, stream, Numbers
  <2>4. FilesInv'
    BY <1>0, <2>1, <2>2 DEF FilesInv, Numbers, stream
  <2>5. HeldInv'
    BY <1>0, <2>1 DEF HeldInv, OnFlash, Log, Dict, Numbers
  <2>6. Free' >= 0
    BY <1>0, <2>1, FreeSame DEF FilesInv
  <2> QED BY <2>2, <2>3, <2>4, <2>5, <2>6 DEF StoreInv
<1>2. CASE NoRefresh
  <2>1. /\ logs' = logs /\ dicts' = dicts /\ tmp' \in BOOLEAN /\ (tmp' => tmp)
        /\ UNCHANGED <<nvsDict, dictId, stream, openForRead, then, rec>>
        /\ step' = "idle" /\ new' = 0
    BY <1>0, <1>2, Zenon DEF NoRefresh, Refreshed, FilesInv
  <2>2. NumbersInv' /\ ActiveInv' /\ RecInv'
    BY <1>0, <2>1 DEF NumbersInv, ActiveInv, RecInv, stream, Numbers
  <2>3. FilesInv'
    BY <1>0, <2>1 DEF FilesInv, Numbers, stream
  <2>4. HeldInv' /\ StepInv'
    BY <1>0, <2>1 DEF HeldInv, OnFlash, Log, Dict, Numbers, StepInv, Refreshing, ReclaimSteps
  <2>5. Free' >= 0
    BY <2>1, FreeSame
  <2> QED BY <2>2, <2>3, <2>4, <2>5 DEF StoreInv
<1>3. CASE WriteDict
  <2>1. CASE new \in dicts
    <3>1. /\ UNCHANGED <<disk, dictId, stream, openForRead, then, new, rec>>
          /\ step = "dictTmp" /\ step' = "put"
      BY <1>3, <2>1 DEF WriteDict, disk
    <3>2. RecInv' /\ StepInv'
      BY <1>0, <3>1 DEF RecInv, StepInv, Refreshing, ReclaimSteps
    <3> QED BY <1>0, <3>1, <3>2, SameFlashStore DEF FilesInv, stream
  <2>2. CASE new \notin dicts
    <3>1. /\ UNCHANGED <<logs, dicts, nvsDict, dictId, stream, openForRead, then, new, rec>>
          /\ step = "dictTmp" /\ step' = "rename" /\ tmp' = TRUE /\ (Free > 0 \/ tmp)
      BY <1>3, <2>2 DEF WriteDict
    <3>2. NumbersInv' /\ ActiveInv' /\ RecInv'
      BY <1>0, <3>1 DEF NumbersInv, ActiveInv, RecInv, stream, Numbers
    <3>3. FilesInv'
      BY <1>0, <3>1 DEF FilesInv, Numbers, stream
    <3>4. HeldInv' /\ StepInv'
      BY <1>0, <3>1 DEF HeldInv, OnFlash, Log, Dict, Numbers, StepInv, Refreshing, ReclaimSteps
    <3>5. Free' >= 0
      <4>1. Used' = Used /\ Cardinality(dicts') = Cardinality(dicts)
        BY <3>1 DEF Used, Numbers
      <4>2. Used \in Nat /\ Cardinality(dicts) \in Nat /\ tmp \in BOOLEAN
        BY <1>0, UsedType, DictsFinite DEF FilesInv
      <4> QED BY <1>0, <3>1, <4>1, <4>2, FlashAssumption DEF Free
    <3> QED BY <3>2, <3>3, <3>4, <3>5 DEF StoreInv
  <2> QED BY <2>1, <2>2
<1>4. CASE RenameDict
  <2>1. /\ UNCHANGED <<logs, nvsDict, dictId, stream, openForRead, then, new, rec>>
        /\ step = "rename" /\ step' = "put" /\ tmp' = FALSE /\ dicts' = dicts \cup {new}
    BY <1>4 DEF RenameDict
  <2>2. tmp /\ new \in Dicts
    BY <1>0, <2>1 DEF StepInv, Refreshing
  <2>3. NumbersInv' /\ ActiveInv' /\ RecInv'
    BY <1>0, <2>1 DEF NumbersInv, ActiveInv, RecInv, stream, Numbers
  <2>4. FilesInv'
    BY <1>0, <2>1, <2>2 DEF FilesInv, Numbers, stream
  <2>5. HeldInv' /\ StepInv'
    BY <1>0, <2>1 DEF HeldInv, OnFlash, Log, Dict, Numbers, StepInv, Refreshing, ReclaimSteps
  <2>6. Free' >= 0
    <3>1. Used' = Used
      BY <2>1 DEF Used, Numbers
    <3>2. Used \in Nat /\ Cardinality(dicts) \in Nat /\ IsFiniteSet(dicts)
      BY <1>0, UsedType, DictsFinite DEF FilesInv
    <3>3. Cardinality(dicts') \in Nat /\ Cardinality(dicts') <= Cardinality(dicts) + 1
      BY <2>1, <3>2, FS_AddElement
    <3> QED BY <1>0, <2>1, <2>2, <3>1, <3>2, <3>3, FlashAssumption DEF Free
  <2> QED BY <2>3, <2>4, <2>5, <2>6 DEF StoreInv
<1>5. CASE LoadDict
  <2>1. PICK gone \in Collected(new) : dicts' = dicts \ gone
    BY <1>5 DEF LoadDict
  <2>2. /\ UNCHANGED <<logs, tmp, nvsDict, stream, openForRead, then, rec>>
        /\ step = "load" /\ step' = "idle" /\ new' = 0 /\ dictId' = new
    BY <1>5 DEF LoadDict, Refreshed
  <2>3. RecInv' /\ StepInv'
    BY <1>0, <2>2 DEF RecInv, StepInv, Refreshing, ReclaimSteps
  <2>4. dictId' \in Dicts \cup {0} /\ new' \in Dicts \cup {0} /\ tmp' \in BOOLEAN
    BY <1>0, <2>2 DEF FilesInv
  <2>5. step' # "rename" /\ step' # "delete" /\ (tmp' => tmp)
    BY <2>2
  <2>6. UNCHANGED <<logs, nvsDict, stream, openForRead>>
    BY <2>2
  <2> QED BY <2>1, <2>3, <2>4, <2>5, <2>6, CollectedStore
<1> QED BY <1>1, <1>2, <1>3, <1>4, <1>5 DEF Refresh

\* The HTTP side.
LEMMA ClientStore ==
    ASSUME StoreInv, NEW name,
           \/ StoreOpenRead(name) \/ StoreReadDone(name) \/ (\E n \in Numbers : StoreDelete(n))
    PROVE  StoreInv'
<1>0. RecInv /\ StepInv /\ FilesInv /\ HeldInv /\ ActiveInv /\ NumbersInv /\ Free >= 0
  BY DEF StoreInv
<1>1. CASE StoreOpenRead(name) \/ StoreReadDone(name)
  <2>1. /\ UNCHANGED <<disk, dictId, stream, step, then, new, rec>> /\ step = "idle"
        /\ \A other \in openForRead' : OnFlash(other)
    BY <1>0, <1>1 DEF StoreOpenRead, StoreReadDone, HeldInv
  <2>2. NumbersInv' /\ ActiveInv' /\ RecInv'
    BY <1>0, <2>1 DEF NumbersInv, ActiveInv, RecInv, stream, disk, Numbers
  <2>3. FilesInv'
    BY <1>0, <2>1 DEF FilesInv, Numbers, stream, disk
  <2>4. HeldInv'
    BY <2>1 DEF HeldInv, OnFlash, Log, Dict, Numbers, disk
  <2>5. StepInv'
    BY <1>0, <2>1 DEF StepInv, disk
  <2>6. Free' >= 0
    BY <1>0, <2>1, FreeSame DEF disk, FilesInv
  <2> QED BY <2>2, <2>3, <2>4, <2>5, <2>6 DEF StoreInv
<1>2. CASE \E n \in Numbers : StoreDelete(n)
  <2>1. PICK n \in Numbers : StoreDelete(n)
    BY <1>2
  <2> QED BY <1>0, <2>1, FileGoes DEF StoreDelete, RecInv
<1> QED BY <1>1, <1>2

\* The power.
LEMMA RebootStore == ASSUME StoreInv, NEW formatted \in BOOLEAN, Reboot(formatted) PROVE StoreInv'
<1>0. FilesInv /\ NumbersInv
  BY DEF StoreInv
<1>1. /\ ~streamOpen' /\ streamDict' = 0 /\ active' = 0 /\ openForRead' = {}
      /\ step' = "idle" /\ then' = "idle" /\ new' = 0 /\ rec' = NoRec
      /\ nvsDict' = nvsDict /\ seq' = seq /\ dictId' \in {0, nvsDict} /\ streamOpen' \in BOOLEAN
  BY DEF Reboot, BootDict
<1>2. \/ logs' = <<>> /\ dicts' = {} /\ tmp' = FALSE
      \/ UNCHANGED <<logs, dicts, tmp>>
  BY DEF Reboot
<1>3. Numbers' = {} \/ (Numbers' = Numbers /\ logs' = logs)
  BY <1>2 DEF Numbers
<1>4. NumbersInv' /\ ActiveInv' /\ HeldInv' /\ RecInv'
  BY <1>0, <1>1, <1>3 DEF NumbersInv, ActiveInv, HeldInv, RecInv, NoRec
<1>5. FilesInv'
  BY <1>0, <1>1, <1>2, <1>3 DEF FilesInv
<1>6. StepInv'
  BY <1>1 DEF StepInv, Refreshing, ReclaimSteps
<1>7. Free' >= 0
  <2>1. CASE logs' = <<>> /\ dicts' = {} /\ tmp' = FALSE
    <3>1. Used' = 0
      BY <2>1, SumOfNone DEF Used, SumFunction, Numbers
    <3> QED BY <2>1, <3>1, FS_EmptySet, FlashAssumption DEF Free
  <2>2. CASE UNCHANGED <<logs, dicts, tmp>>
    BY <1>0, <2>2, FreeSame DEF FilesInv
  <2> QED BY <1>2, <2>1, <2>2
<1> QED BY <1>4, <1>5, <1>6, <1>7 DEF StoreInv

LEMMA NextStore == IInv /\ StoreInv /\ [Next]_vars => StoreInv'
<1> SUFFICES ASSUME IInv, StoreInv, [Next]_vars PROVE StoreInv'
  OBVIOUS
<1>1. CASE Board
  BY <1>1, EnsureSpaceStore, RefreshStore, StreamStore DEF Board
<1>2. CASE Client
  BY <1>2, ClientStore DEF Client
<1>3. CASE \E formatted \in BOOLEAN : Reboot(formatted)
  BY <1>3, RebootStore
<1>4. CASE UNCHANGED vars
  <2>1. RecInv' /\ StepInv'
    BY <1>4 DEF StoreInv, RecInv, StepInv, vars, disk
  <2> QED BY <1>4, <2>1, SameFlashStore DEF vars, disk, stream, StoreInv, HeldInv, FilesInv
<1> QED BY <1>1, <1>2, <1>3, <1>4 DEF Next

\* The types are all there.
LEMMA StoreTyped == IInv /\ StoreInv => TypeOK
<1> SUFFICES ASSUME IInv, StoreInv PROVE TypeOK
  OBVIOUS
<1>1. Used \in Nat /\ (\A n \in Numbers : Takes(n) <= Used) /\ Cardinality(dicts) \in Nat
  BY UsedType, DictsFinite DEF StoreInv, FilesInv
<1>2. Free \in 0 .. BLOCKS /\ Used <= BLOCKS
  BY <1>1, FlashAssumption DEF Free, StoreInv, FilesInv
<1>3. \A n \in Numbers : logs[n].dict \in Dicts \cup {0} /\ logs[n].blocks \in 0 .. BLOCKS
  <2> SUFFICES ASSUME NEW n \in Numbers
               PROVE  logs[n].dict \in Dicts \cup {0} /\ logs[n].blocks \in 0 .. BLOCKS
    OBVIOUS
  <2>1. logs[n].dict \in Dicts \cup {0} /\ logs[n].blocks \in Nat
    BY DEF StoreInv, FilesInv
  <2>2. logs[n].blocks <= BLOCKS
    BY <1>1, <1>2, <2>1, FlashAssumption DEF Takes
  <2> QED BY <2>1, <2>2, FlashAssumption
<1> QED BY <1>2, <1>3 DEF TypeOK, StoreInv, NumbersInv, FilesInv, StepInv, ActiveInv, HeldInv,
                          IInv, StreamInv

LEMMA StoreInductive == Spec => [](IInv /\ StoreInv)
<1>1. Init => StoreInv
  BY InitStore
<1>2. IInv /\ StoreInv /\ [Next]_vars => StoreInv'
  BY NextStore
<1> QED BY FlashInductive, <1>1, <1>2, PTL DEF Spec

\* store.cpp, all of it: what is counted is what is there, no block is taken
\* that was not free, and no reader holds a name that is gone.
THEOREM FlashTyped == Spec => []TypeOK
<1> QED BY StoreInductive, StoreTyped, PTL

-----------------------------------------------------------------------------
\* The puller.  What it holds at each step is what its next step rests on: a log
\* it goes on to delete from the board is in its directory with the dictionary
\* that read it, a log that is there is on disk or being stored, or its store was
\* cut off, and the one slot it takes is for the name in transfer.

PullTypes ==
    /\ ppc \in PullerPCs
    /\ todo \subseteq 1 .. MAX_SEQ /\ cur \in 0 .. MAX_SEQ
    /\ ppc \notin {"off", "next"} => cur \in 1 .. MAX_SEQ
    /\ curDict \in Dicts \cup {0} /\ cache \subseteq Dicts
    /\ local \cup raws \subseteq 1 .. MAX_SEQ
    /\ durable \subseteq Entries
    /\ \A d \in deleted : d \in (1 .. MAX_SEQ) \X (Dicts \cup {0})

Storing == ppc \in {"raw", "sync"}

StoredInv ==
    /\ Storing \/ ppc = "delete" => cur \in local
    /\ ppc = "sync" => Names(cur) \subseteq Entries
    /\ ppc = "dictbody" => curDict # 0
    /\ Storing \/ ppc \in {"store", "delete"} => curDict \in cache \cup {0}

LocalInv ==
    \A n \in local : Names(n) \subseteq durable \cup cut \/ (n = cur /\ Storing)

SlotInv == openForRead \subseteq (IF Transfer THEN {Reading} ELSE {})

PullerInv == PullTypes /\ StoredInv /\ LocalInv /\ SlotInv /\ DeletedIsHeld

LEMMA InitPuller == PullerInit => PullerInv
<1> SUFFICES ASSUME PullerInit PROVE PullerInv
  OBVIOUS
<1>1. PullTypes
  BY FlashAssumption DEF PullerInit, PullTypes, PullerPCs, Entries
<1> QED BY <1>1 DEF PullerInit, Init, PullerInv, StoredInv, Storing, LocalInv, SlotInv, DeletedIsHeld

\* A log being read is there, under a number the board has given.
LEMMA ReadIsThere ==
    ASSUME StoreInv, NEW n, Log(n) \in openForRead
    PROVE  n \in Numbers
BY DEF StoreInv, HeldInv, OnFlash, Log, Dict

\* Every step of the two is a step of the flash, or none.
LEMMA PullerIsClient == StoreInv /\ [PullerNext]_allVars => [Next]_vars
<1> SUFFICES ASSUME StoreInv, [PullerNext]_allVars PROVE [Next]_vars
  OBVIOUS
<1>1. ASSUME NEW name, StoreOpenRead(name) \/ StoreReadDone(name) PROVE Next
  <2>1. OnFlash(name)
    BY <1>1 DEF StoreInv, HeldInv, StoreOpenRead, StoreReadDone
  <2> QED BY <1>1, <2>1 DEF Next, Client, OnFlash
<1>2. ASSUME NEW n, StoreDelete(n) PROVE Next
  BY <1>2 DEF Next, Client, StoreDelete
<1>8. EndShort => [Next]_vars
  BY <1>1 DEF EndShort
<1>3. CASE Run
  <2>1. CASE Get BY <1>1, <2>1 DEF Get
  <2>2. CASE GotWhole BY <1>1, <2>2 DEF GotWhole
  <2>3. CASE Delete BY <1>2, <2>3 DEF Delete
  <2>4. CASE List \/ Pick \/ CachedDict \/ StoreLog \/ StoreRaw \/ SyncDir
    BY <2>4 DEF List, Pick, CachedDict, StoreLog, StoreRaw, SyncDir
  <2>5. CASE GetDict BY <1>1, <2>5 DEF GetDict
  <2>6. CASE GotDict BY <1>1, <2>6 DEF GotDict
  <2> QED BY <1>3, <2>1, <2>2, <2>3, <2>4, <2>5, <2>6 DEF Run
<1>4. CASE Fails
  <2>1. CASE GotShort \/ NoDictionary BY <1>8, <2>1 DEF GotShort, NoDictionary
  <2>2. CASE GetFails \/ StoreFails \/ DeleteFails
    BY <2>2 DEF GetFails, StoreFails, DeleteFails
  <2> QED BY <1>4, <2>1, <2>2 DEF Fails
<1>5. CASE Kill
  BY <1>8, <1>5 DEF Kill, HangUp
<1>6. CASE BoardStep
  BY <1>6 DEF BoardStep, Next
<1>7. CASE UNCHANGED allVars
  BY <1>7 DEF allVars
<1> QED BY <1>3, <1>4, <1>5, <1>6, <1>7 DEF PullerNext

\* The board never opens a file for the puller, nor keeps one over a restart.
LEMMA BoardHolds == Board => openForRead' = openForRead
BY DEF Board, EnsureSpace, Refresh, EnoughSpace, ReclaimStart, RoundOver, Round, RoundDone,
       ReclaimDelete, ReclaimRefused, StreamStart, WantFile, CreateFile, CreateAndEnd,
       CreateFails, Grow, WriteShort, PartEnds, SessionClose, StoreTick, RefreshDue, NoRefresh,
       WriteDict, RenameDict, PutDict, LoadDict, Call

\* What is held of the deleted sessions stays held while nothing is lost of it.
LEMMA HeldStays ==
    ASSUME PullTypes, DeletedIsHeld, LocalInv, local \subseteq local', cache \subseteq cache',
           durable \cup cut \subseteq durable' \cup cut', deleted' = deleted
    PROVE  /\ DeletedIsHeld'
           /\ \A n \in local : Names(n) \subseteq durable' \cup cut' \/ (n = cur /\ Storing)
BY DEF DeletedIsHeld, LocalInv, Names, Log, Raw

\* One run, from the listing to the last delete.
LEMMA RunStep == StoreInv /\ PullerInv /\ Run => PullerInv'
<1> SUFFICES ASSUME StoreInv, PullerInv, Run PROVE PullerInv'
  OBVIOUS
<1>0. PullTypes /\ StoredInv /\ LocalInv /\ SlotInv /\ DeletedIsHeld
  BY DEF PullerInv
<1>1. Numbers \subseteq 1 .. MAX_SEQ /\ 0 \in 0 .. MAX_SEQ /\ 1 .. MAX_SEQ \subseteq 0 .. MAX_SEQ
  BY FlashAssumption DEF StoreInv, NumbersInv
\* The steps before anything is stored.
<1>2. ASSUME UNCHANGED <<host, cut, deleted>>, ~Storing, ~Storing',
             PullTypes', StoredInv', SlotInv'
      PROVE  PullerInv'
  <2>1. DeletedIsHeld' /\ LocalInv'
    BY <1>0, <1>2, HeldStays DEF host, LocalInv, Names, Log, Raw
  <2> QED BY <1>2, <2>1 DEF PullerInv
<1>3. CASE List
  <2>1. /\ ppc = "off" /\ ppc' = "next" /\ todo' = Numbers \ {active}
        /\ UNCHANGED <<openForRead, cur, curDict, host, cut, deleted>>
    BY <1>3 DEF List, At, To, vars, history
  <2>2. PullTypes'
    BY <1>0, <1>1, <2>1 DEF PullTypes, PullerPCs, host, Entries, Log, Raw
  <2>3. StoredInv' /\ SlotInv' /\ ~Storing /\ ~Storing'
    BY <1>0, <2>1 DEF StoredInv, SlotInv, Storing, Transfer, At
  <2> QED BY <1>2, <2>1, <2>2, <2>3
<1>4. CASE Pick
  <2>0. ppc = "next" /\ UNCHANGED <<openForRead, host, cut, deleted>>
    BY <1>4 DEF Pick, At, vars, history
  <2>1. CASE todo = {}
    <3>1. ppc' = "off" /\ todo' = {} /\ cur' = 0 /\ curDict' = 0
      BY <1>4, <2>1 DEF Pick, To, Stop
    <3>2. PullTypes'
      BY <1>0, <1>1, <2>0, <3>1 DEF PullTypes, PullerPCs, host, Entries, Log, Raw
    <3>3. StoredInv' /\ SlotInv' /\ ~Storing /\ ~Storing'
      BY <1>0, <2>0, <3>1 DEF StoredInv, SlotInv, Storing, Transfer, At
    <3> QED BY <1>2, <2>0, <3>2, <3>3
  <2>2. CASE todo # {}
    <3>1. todo \subseteq Nat
      BY <1>0 DEF PullTypes
    <3>2. \E n \in todo : \A m \in todo : NameKey(n) <= NameKey(m)
      BY <2>2, <3>1, FirstName
    <3>3. cur' \in todo /\ todo' \subseteq todo /\ ppc' = "get" /\ curDict' = curDict
      BY <1>4, <2>2, <3>2 DEF Pick, To
    <3>4. PullTypes'
      BY <1>0, <1>1, <2>0, <3>3 DEF PullTypes, PullerPCs, host, Entries, Log, Raw
    <3>5. StoredInv' /\ SlotInv' /\ ~Storing /\ ~Storing'
      BY <1>0, <2>0, <3>3 DEF StoredInv, SlotInv, Storing, Transfer, At
    <3> QED BY <1>2, <2>0, <3>4, <3>5
  <2> QED BY <2>1, <2>2
<1>5. CASE Get
  <2>1. /\ ppc = "get" /\ ppc' = "body" /\ openForRead' = openForRead \cup {Log(cur)}
        /\ UNCHANGED <<todo, cur, curDict, host, cut, deleted>>
    BY <1>5 DEF Get, At, To, StoreOpenRead, history
  <2>2. PullTypes'
    BY <1>0, <2>1 DEF PullTypes, PullerPCs, host, Entries, Log, Raw
  <2>3. StoredInv' /\ ~Storing /\ ~Storing'
    BY <2>1 DEF StoredInv, Storing
  <2>4. SlotInv'
    BY <1>0, <2>1 DEF SlotInv, Transfer, Reading, At, Log
  <2> QED BY <1>2, <2>1, <2>2, <2>3, <2>4
<1>6. CASE GotWhole
  <2>1. /\ ppc = "body" /\ ppc' = "dict" /\ openForRead' = openForRead \ {Log(cur)}
        /\ Log(cur) \in openForRead /\ curDict' = logs[cur].dict
        /\ UNCHANGED <<todo, cur, host, cut, deleted>>
    BY <1>6 DEF GotWhole, At, To, StoreReadDone, history
  <2>2. curDict' \in Dicts \cup {0}
    BY <2>1, ReadIsThere DEF StoreInv, FilesInv
  <2>3. PullTypes'
    BY <1>0, <2>1, <2>2 DEF PullTypes, PullerPCs, host, Entries, Log, Raw
  <2>4. StoredInv' /\ SlotInv' /\ ~Storing /\ ~Storing'
    BY <1>0, <2>1 DEF StoredInv, SlotInv, Storing, Transfer, Reading, At
  <2> QED BY <1>2, <2>1, <2>3, <2>4
<1>7. CASE CachedDict
  <2>1. /\ ppc = "dict" /\ ppc' = "store" /\ curDict \in cache \cup {0}
        /\ UNCHANGED <<openForRead, todo, cur, curDict, host, cut, deleted>>
    BY <1>7 DEF CachedDict, At, To, vars, history
  <2>2. PullTypes'
    BY <1>0, <2>1 DEF PullTypes, PullerPCs, host, Entries, Log, Raw
  <2>3. StoredInv' /\ SlotInv' /\ ~Storing /\ ~Storing'
    BY <1>0, <2>1 DEF StoredInv, SlotInv, Storing, Transfer, At, host
  <2> QED BY <1>2, <2>1, <2>2, <2>3
<1>8. CASE GetDict
  <2>1. /\ ppc = "dict" /\ ppc' = "dictbody" /\ curDict # 0
        /\ openForRead' = openForRead \cup {Dict(curDict)}
        /\ UNCHANGED <<todo, cur, curDict, host, cut, deleted>>
    BY <1>8 DEF GetDict, At, To, StoreOpenRead, history
  <2>2. PullTypes'
    BY <1>0, <2>1 DEF PullTypes, PullerPCs, host, Entries, Log, Raw
  <2>3. StoredInv' /\ ~Storing /\ ~Storing'
    BY <2>1 DEF StoredInv, Storing
  <2>4. SlotInv'
    BY <1>0, <2>1 DEF SlotInv, Transfer, Reading, At, Dict
  <2> QED BY <1>2, <2>1, <2>2, <2>3, <2>4
<1>9. CASE GotDict
  <2>1. /\ ppc = "dictbody" /\ ppc' = "store" /\ openForRead' = openForRead \ {Dict(curDict)}
        /\ cache' = cache \cup {curDict}
        /\ UNCHANGED <<todo, cur, curDict, local, raws, durable, cut, deleted>>
    BY <1>9 DEF GotDict, At, To, StoreReadDone, history
  <2>2. PullTypes'
    BY <1>0, <2>1 DEF PullTypes, StoredInv, PullerPCs, Entries, Log, Raw
  <2>3. StoredInv' /\ SlotInv' /\ ~Storing /\ ~Storing'
    BY <1>0, <2>1 DEF StoredInv, SlotInv, Storing, Transfer, Reading, At
  <2>4. DeletedIsHeld' /\ LocalInv'
    BY <1>0, <2>1, <2>3, HeldStays DEF LocalInv, Names, Log, Raw
  <2> QED BY <2>2, <2>3, <2>4 DEF PullerInv
<1>10. CASE StoreLog
  <2>1. /\ ppc = "store"
        /\ \/ ppc' = "delete" /\ cur \in local /\ local' = local
           \/ ppc' = "raw" /\ local' = local \cup {cur}
           \/ ppc' = "sync" /\ cur \notin Damaged /\ local' = local \cup {cur}
        /\ UNCHANGED <<openForRead, todo, cur, curDict, cache, raws, durable, cut, deleted>>
    BY <1>10 DEF StoreLog, At, To, Same, vars, history
  <2>2. PullTypes'
    BY <1>0, <2>1 DEF PullTypes, PullerPCs, Entries, Log, Raw
  <2>3. StoredInv' /\ SlotInv'
    BY <1>0, <2>1 DEF StoredInv, SlotInv, Storing, Transfer, At, Names, Entries, Log, Raw
  <2>4. DeletedIsHeld' /\ LocalInv'
    <3>1. local \subseteq local' /\ ~Storing
      BY <2>1 DEF Storing
    <3>2. DeletedIsHeld' /\ \A n \in local : Names(n) \subseteq durable' \cup cut'
      BY <1>0, <2>1, <3>1, HeldStays
    <3> QED BY <2>1, <3>2 DEF LocalInv, Storing, Names, Log, Raw
  <2> QED BY <2>2, <2>3, <2>4 DEF PullerInv
<1>11. CASE StoreRaw
  <2>1. /\ ppc = "raw" /\ ppc' = "sync" /\ raws' = raws \cup {cur}
        /\ UNCHANGED <<openForRead, todo, cur, curDict, cache, local, durable, cut, deleted>>
    BY <1>11 DEF StoreRaw, At, To, vars, history
  <2>2. PullTypes'
    BY <1>0, <2>1 DEF PullTypes, PullerPCs, Entries, Log, Raw
  <2>3. StoredInv' /\ SlotInv'
    BY <1>0, <2>1 DEF StoredInv, SlotInv, Storing, Transfer, At, Names, Entries, Log, Raw
  <2>4. DeletedIsHeld' /\ LocalInv'
    BY <1>0, <2>1, HeldStays DEF LocalInv, Storing, Names, Log, Raw
  <2> QED BY <2>2, <2>3, <2>4 DEF PullerInv
<1>12. CASE SyncDir
  <2>1. /\ ppc = "sync" /\ ppc' = "delete" /\ durable' = Entries /\ cut' = cut \ Entries
        /\ UNCHANGED <<openForRead, todo, cur, curDict, cache, local, raws, deleted>>
    BY <1>12 DEF SyncDir, At, To, vars
  <2>2. PullTypes'
    BY <1>0, <2>1 DEF PullTypes, PullerPCs, Entries, Log, Raw
  <2>3. StoredInv' /\ SlotInv'
    BY <1>0, <2>1 DEF StoredInv, SlotInv, Storing, Transfer, At
  <2>4. DeletedIsHeld' /\ LocalInv'
    <3>1. durable \cup cut \subseteq durable' \cup cut'
      BY <1>0, <2>1 DEF PullTypes
    <3>2. /\ DeletedIsHeld'
          /\ \A n \in local : Names(n) \subseteq durable' \cup cut' \/ (n = cur /\ Storing)
      BY <1>0, <2>1, <3>1, HeldStays
    <3>3. Names(cur) \subseteq durable'
      BY <1>0, <2>1 DEF StoredInv
    <3> QED BY <2>1, <3>2, <3>3 DEF LocalInv, Names, Log, Raw
  <2> QED BY <2>2, <2>3, <2>4 DEF PullerInv
<1>13. CASE Delete
  <2>1. /\ ppc = "delete" /\ ppc' = "next" /\ cur' = 0 /\ curDict' = 0
        /\ deleted' = deleted \cup {<<cur, curDict>>} /\ openForRead' = openForRead
        /\ UNCHANGED <<todo, host, cut>>
    BY <1>13 DEF Delete, At, To, NextFile, StoreDelete
  <2>2. cur \in 1 .. MAX_SEQ
    BY <1>0, <2>1 DEF PullTypes
  <2>3. PullTypes'
    BY <1>0, <1>1, <2>1, <2>2 DEF PullTypes, PullerPCs, host, Entries, Log, Raw
  <2>4. StoredInv' /\ SlotInv' /\ ~Storing /\ ~Storing'
    BY <1>0, <2>1 DEF StoredInv, SlotInv, Storing, Transfer, At
  <2>5. LocalInv'
    BY <1>0, <2>1, <2>4 DEF host, LocalInv, Names, Log, Raw
  <2>6. cur \in local /\ Names(cur) \subseteq durable \cup cut /\ curDict \in cache \cup {0}
    BY <1>0, <2>1, <2>4 DEF StoredInv, LocalInv
  <2>7. DeletedIsHeld'
    BY <1>0, <2>1, <2>6 DEF DeletedIsHeld, host, Names, Log, Raw
  <2> QED BY <2>3, <2>4, <2>5, <2>7 DEF PullerInv
<1> QED BY <1>3, <1>4, <1>5, <1>6, <1>7, <1>8, <1>9, <1>10, <1>11, <1>12, <1>13 DEF Run

\* A request that fails, a store that is cut off, a run that is killed, and the
\* board's own steps.
LEMMA OtherwiseStep == StoreInv /\ PullerInv /\ (Fails \/ Kill \/ BoardStep) => PullerInv'
<1> SUFFICES ASSUME StoreInv, PullerInv, Fails \/ Kill \/ BoardStep PROVE PullerInv'
  OBVIOUS
<1>0. PullTypes /\ StoredInv /\ LocalInv /\ SlotInv /\ DeletedIsHeld
  BY DEF PullerInv
<1>1. 0 \in 0 .. MAX_SEQ
  BY FlashAssumption
<1>2. CASE Fails \/ Kill
  <2>1. /\ ppc' \in {"off", "next"} /\ cur' = 0 /\ curDict' = 0 /\ todo' \subseteq todo
        /\ UNCHANGED <<cache, local, durable, deleted>>
        /\ raws' = raws \/ (raws' = raws \cup {cur} /\ ppc \in {"dict", "dictbody"})
        /\ CutOff \/ (cut' = cut /\ ~Storing)
    BY <1>2 DEF Fails, GetFails, GotShort, NoDictionary, StoreFails, DeleteFails, Kill, NextFile,
                Stop, To, At, host, history, Storing
  <2>2. cut' = cut \cup (IF Storing THEN Names(cur) ELSE {})
    BY <2>1 DEF CutOff, At, Storing
  <2>3. openForRead' = {}
    <3>1. EndShort /\ Transfer => openForRead' = {}
      BY <1>0 DEF EndShort, SlotInv, StoreReadDone, vars
    <3>2. CASE Transfer
      BY <1>2, <3>1, <3>2 DEF Fails, GetFails, GotShort, NoDictionary, StoreFails, DeleteFails,
                              Kill, HangUp, At, Transfer
    <3>3. CASE ~Transfer
      <4>1. openForRead' = openForRead
        BY <1>2, <3>3 DEF Fails, GetFails, GotShort, NoDictionary, StoreFails, DeleteFails,
                          Kill, HangUp, At, Transfer, vars
      <4> QED BY <1>0, <3>3, <4>1 DEF SlotInv
    <3> QED BY <3>2, <3>3
  <2>4. PullTypes'
    <3>1. raws' \subseteq 1 .. MAX_SEQ
      BY <1>0, <2>1 DEF PullTypes
    <3> QED BY <1>0, <1>1, <2>1, <3>1 DEF PullTypes, PullerPCs, Entries, Log, Raw
  <2>5. StoredInv' /\ SlotInv' /\ ~Storing'
    BY <2>1, <2>3 DEF StoredInv, SlotInv, Storing
  <2>6. /\ DeletedIsHeld'
        /\ \A n \in local : Names(n) \subseteq durable' \cup cut' \/ (n = cur /\ Storing)
    BY <1>0, <2>1, <2>2, HeldStays
  <2>7. LocalInv'
    BY <2>1, <2>2, <2>6 DEF LocalInv, Names, Log, Raw
  <2> QED BY <2>4, <2>5, <2>6, <2>7 DEF PullerInv
<1>3. CASE BoardStep
  <2>1. UNCHANGED <<ppc, todo, cur, curDict, host, cut, deleted>>
    BY <1>3 DEF BoardStep, puller, history
  <2>2. openForRead' \subseteq openForRead
    BY <1>3, BoardHolds DEF BoardStep, Reboot
  <2>3. PullTypes'
    BY <1>0, <2>1 DEF PullTypes, PullerPCs, host, Entries, Log, Raw
  <2>4. StoredInv' /\ SlotInv'
    BY <1>0, <2>1, <2>2 DEF StoredInv, SlotInv, Storing, Transfer, Reading, At, host, Names,
                            Entries, Log, Raw, Dict
  <2>5. LocalInv' /\ DeletedIsHeld'
    BY <1>0, <2>1 DEF LocalInv, DeletedIsHeld, Storing, host, Names, Log, Raw
  <2> QED BY <2>3, <2>4, <2>5 DEF PullerInv
<1> QED BY <1>2, <1>3

LEMMA PullerStep == StoreInv /\ PullerInv /\ [PullerNext]_allVars => PullerInv'
<1>1. ASSUME StoreInv, PullerInv, UNCHANGED allVars PROVE PullerInv'
  BY <1>1 DEF allVars, vars, puller, host, history, PullerInv, PullTypes, PullerPCs, StoredInv,
              Storing, LocalInv, SlotInv, Transfer, Reading, At, DeletedIsHeld, Names, Entries,
              Log, Raw, Dict
<1> QED BY <1>1, RunStep, OtherwiseStep DEF PullerNext

\* tools/pull-logs.py asks of the board only what any client may: whatever is
\* true of the flash under all its clients is true of it under this one.
THEOREM PullerImplementsFlash == PullerSpec => Spec
<1>1. PullerInit => Init
  BY DEF PullerInit
<1>2. IInv /\ StoreInv /\ [PullerNext]_allVars => [Next]_vars /\ (IInv /\ StoreInv)'
  BY PullerIsClient, NextStep, NextStore
<1> QED BY <1>1, <1>2, InitIInv, InitStore, PTL DEF PullerSpec, Spec

LEMMA PullerInductive == PullerSpec => [](IInv /\ StoreInv /\ PullerInv)
<1> QED BY PullerImplementsFlash, StoreInductive, InitPuller, PullerStep, PTL DEF PullerSpec

\* store.cpp storeReadDone() and http.cpp's download: a reader's slot is given
\* back however its transfer ends, and the puller never takes a second.
THEOREM SlotsAreFreed == PullerSpec => []SlotsFreed
<1>1. IInv /\ StoreInv /\ PullerInv => SlotsFreed
  <2> SUFFICES ASSUME IInv, StoreInv, PullerInv PROVE SlotsFreed
    OBVIOUS
  <2>1. PullerTypeOK
    BY StoreTyped DEF PullerTypeOK, PullerInv, PullTypes
  <2> QED BY <2>1 DEF SlotsFreed, PullerInv, SlotInv
<1> QED BY <1>1, PullerInductive, PTL

\* tools/pull-logs.py main(), which stores before it deletes: no session goes from
\* the board through the puller that is not in its directory and on disk, or was
\* cut off on its way there, with the dictionary that read it, wherever a run was
\* killed.
THEOREM NothingLost == PullerSpec => []DeletedIsHeld
<1>1. PullerInv => DeletedIsHeld
  BY DEF PullerInv
<1> QED BY <1>1, PullerInductive, PTL
=============================================================================
