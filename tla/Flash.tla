--------------------------------- MODULE Flash ---------------------------------
(***************************************************************************)
(* The log directory of src/firmware/src/store.cpp: session files, the      *)
(* dictionaries they were compressed with, the reclaim that keeps a reserve *)
(* free, the refresh that replaces the dictionary in use, and the readers   *)
(* whose files both leave alone.                                            *)
(*                                                                          *)
(* A session file is its number, in the order of creation, with the         *)
(* dictionary its name carries and the data blocks it fills; a file small   *)
(* enough to sit in the directory fills none.  Everything runs on the loop  *)
(* task; the steps of one call are apart only where the power may go        *)
(* between two changes of the flash, so nothing but Reboot interrupts them. *)
(***************************************************************************)
EXTENDS Integers, FiniteSets, Functions

CONSTANTS
    Dicts,         \* ids a dictionary may have
    BLOCKS,        \* the partition, in blocks
    FS_MIN_FREE,   \* the reserve, in blocks
    META,          \* what a file takes beside its data, in blocks
    KEEP, ROUNDS,  \* names one walk keeps: 8, and walks in one reclaim: 4
    DICT_SLOTS,    \* ids and dictionary names dictCollect() can hold: 32
    SEQ_DIGITS_MAX, BASE,   \* the last number of full width, and the radix
    Stuck,         \* numbers whose file will not delete
    READERS,       \* slots for names being streamed out: 4
    MAX_SEQ        \* bound: sessions

ASSUME FlashAssumption ==
    /\ Dicts \subseteq Nat \ {0} /\ IsFiniteSet(Dicts)
    /\ {BLOCKS, FS_MIN_FREE, META, DICT_SLOTS, SEQ_DIGITS_MAX, READERS, MAX_SEQ} \subseteq Nat
    /\ {KEEP, ROUNDS} \subseteq Nat \ {0}
    /\ BASE \in Nat /\ BASE > 1
    /\ Stuck \subseteq Nat

VARIABLES
    logs,          \* session files: number -> dictionary, data blocks
    dicts,         \* dictionary files
    tmp,           \* dict-new.tmp is on the flash
    nvsDict,       \* the id saved in NVS
    dictId,        \* the dictionary in use
    seq,           \* the last number given
    streamOpen, streamDict,   \* the stream in RAM, and what it was begun with
    active,        \* the stream's file, 0 for none
    openForRead,   \* names being streamed out
    step,          \* where the loop task is in a call of several changes
    then,          \* where a reclaim returns to
    new,           \* the dictionary being written
    rec            \* ensureSpace()'s locals

disk == <<logs, dicts, tmp, nvsDict>>
stream == <<seq, streamOpen, streamDict, active>>
vars == <<disk, dictId, stream, openForRead, step, then, new, rec>>

Log(n) == <<"log", n>>
Dict(d) == <<"dict", d>>
Numbers == DOMAIN logs

NoRec == [need |-> 0, freed |-> 0, round |-> 0, floor |-> 0, refusals |-> 0, oldest |-> {}]

Used == SumFunction([n \in Numbers |-> logs[n].blocks + META])

Free == BLOCKS - Used - Cardinality(dicts) - (IF tmp THEN 1 ELSE 0)

\* Names sort as their numbers do while the numbers have one width; the
\* character after a shorter number sorts before a digit.
NameKey(n) ==
    IF n <= SEQ_DIGITS_MAX THEN n * (BASE + 1)
    ELSE ((n \div BASE) * (BASE + 1)) + 1 + (n % BASE)

Without(S) == [n \in Numbers \ S |-> logs[n]]

Init ==
    /\ logs = <<>> /\ dicts = {} /\ tmp = FALSE /\ nvsDict = 0
    /\ dictId = 0
    /\ seq = 0 /\ streamOpen = FALSE /\ streamDict = 0 /\ active = 0
    /\ openForRead = {}
    /\ step = "idle" /\ then = "idle" /\ new = 0 /\ rec = NoRec

-----------------------------------------------------------------------------
(* dictCollect() and ensureSpace()                                          *)

\* Mutant of InUse: the ids are read from the stream headers of old, which
\* nothing opens any more.
InUseUnread == {}

\* The ids session file names carry.
InUse == {logs[n].dict : n \in Numbers} \ {0}

\* The dictionary files no name carries, the one in use and the ones being
\* read apart; with more ids in use than fit nothing goes, and beyond its
\* slots a dictionary is not looked at.
Collectable(inUse) ==
    IF Cardinality(InUse) > DICT_SLOTS THEN {}
    ELSE {d \in dicts : d \notin InUse /\ d # inUse /\ Dict(d) \notin openForRead}

\* A walk sees at most DICT_SLOTS dictionary files, and a remove may fail.
Collected(inUse) == {S \in SUBSET Collectable(inUse) : Cardinality(S) <= DICT_SLOTS}

Call(k) == step' = "reclaim" /\ then' = k

\* ensureSpace() above the reserve is a no-op.
EnoughSpace ==
    /\ step = "reclaim" /\ Free >= FS_MIN_FREE
    /\ step' = then
    /\ UNCHANGED <<disk, dictId, stream, openForRead, then, new, rec>>

ReclaimStart ==
    /\ step = "reclaim" /\ Free < FS_MIN_FREE
    /\ \E gone \in Collected(dictId), tmpGone \in BOOLEAN :
           /\ dicts' = dicts \ gone
           /\ tmp' = (tmp /\ ~tmpGone)
           /\ rec' = [NoRec EXCEPT !.need = FS_MIN_FREE - Free, !.freed = Cardinality(gone)]
    /\ step' = "round"
    /\ UNCHANGED <<logs, nvsDict, dictId, stream, openForRead, then, new>>

Deletable(floor) ==
    {n \in Numbers :
        n # active /\ Log(n) \notin openForRead /\ NameKey(n) > floor}

\* Mutant of KeepSmallest: the comparison is the wrong way round.
KeepLargest(S) == {n \in S : Cardinality({m \in S : NameKey(m) > NameKey(n)}) < KEEP}

\* KeepSmallest<8>, offered every name of S.
KeepSmallest(S) == {n \in S : Cardinality({m \in S : NameKey(m) < NameKey(n)}) < KEEP}

\* The deletes so far covered the shortfall and the free space confirms it.
Confirmed == rec.freed >= rec.need /\ Free >= FS_MIN_FREE

RoundOver ==
    /\ step = "round"
    /\ Confirmed \/ rec.round = ROUNDS \/ Deletable(rec.floor) = {}
    /\ step' = then /\ rec' = NoRec
    /\ UNCHANGED <<disk, dictId, stream, openForRead, then, new>>

Round ==
    /\ step = "round"
    /\ ~Confirmed /\ rec.round < ROUNDS /\ Deletable(rec.floor) # {}
    /\ LET covered == rec.freed >= rec.need
       IN  rec' = [rec EXCEPT !.round = @ + 1,
                              !.oldest = KeepSmallest(Deletable(rec.floor)),
                              !.need = IF covered THEN FS_MIN_FREE - Free ELSE @,
                              !.freed = IF covered THEN 0 ELSE @]
    /\ step' = "delete"
    /\ UNCHANGED <<disk, dictId, stream, openForRead, then, new>>

RoundDone ==
    /\ step = "delete"
    /\ rec.oldest = {} \/ rec.freed >= rec.need
    /\ step' = "round"
    /\ UNCHANGED <<disk, dictId, stream, openForRead, then, new, rec>>

\* The next of the round's names.
Oldest == CHOOSE n \in rec.oldest : \A m \in rec.oldest : NameKey(n) <= NameKey(m)

Picked == [rec EXCEPT !.oldest = @ \ {Oldest}, !.floor = NameKey(Oldest)]

ReclaimDelete ==
    /\ step = "delete" /\ rec.oldest # {} /\ rec.freed < rec.need
    /\ Oldest \notin Stuck
    /\ logs' = Without({Oldest})
    /\ rec' = [Picked EXCEPT !.refusals = 0, !.freed = @ + logs[Oldest].blocks]
    /\ UNCHANGED <<dicts, tmp, nvsDict, dictId, stream, openForRead, step, then, new>>

\* Mutant of GivesUp: one refusal ends the attempt.
GivesUpAtOnce(refusals) == refusals >= 1

\* Three refusals in a row end the attempt.
GivesUp(refusals) == refusals >= 3

\* A name that will not delete is skipped from then on.
ReclaimRefused ==
    /\ step = "delete" /\ rec.oldest # {} /\ rec.freed < rec.need
    /\ Oldest \in Stuck
    /\ IF GivesUp(rec.refusals + 1)
         THEN step' = then /\ rec' = NoRec
         ELSE step' = step /\ rec' = [Picked EXCEPT !.refusals = @ + 1]
    /\ UNCHANGED <<disk, dictId, stream, openForRead, then, new>>

EnsureSpace ==
    EnoughSpace \/ ReclaimStart \/ RoundOver \/ Round \/ RoundDone
        \/ ReclaimDelete \/ ReclaimRefused

-----------------------------------------------------------------------------
(* The stream and its file.                                                 *)

StreamStart ==
    /\ step = "idle" /\ ~streamOpen /\ seq < MAX_SEQ
    /\ streamOpen' = TRUE /\ streamDict' = dictId
    /\ seq' = seq + 1
    /\ UNCHANGED <<disk, dictId, active, openForRead, step, then, new, rec>>

\* A commit, or the session's end, finds the stream without a file.
WantFile(k) ==
    /\ step = "idle" /\ streamOpen /\ active = 0
    /\ Call(k)
    /\ UNCHANGED <<disk, dictId, stream, openForRead, new, rec>>

Close == streamOpen' = FALSE /\ streamDict' = 0 /\ active' = 0

\* The file is created under the name that carries the dictionary in use now.
Created == [n \in Numbers \cup {seq} |->
              IF n = seq THEN [dict |-> dictId, blocks |-> 0] ELSE logs[n]]

CreateFile ==
    /\ step = "create" /\ Free >= META /\ seq \notin Numbers
    /\ logs' = Created
    /\ active' = seq
    /\ step' = "idle"
    /\ UNCHANGED <<dicts, tmp, nvsDict, dictId, seq, streamOpen, streamDict,
                   openForRead, then, new, rec>>

\* ... and when the session is ending, closed at once.
CreateAndEnd ==
    /\ step = "createEnd" /\ Free >= META /\ seq \notin Numbers
    /\ logs' = Created
    /\ Close
    /\ step' = "refresh"
    /\ UNCHANGED <<dicts, tmp, nvsDict, dictId, seq, openForRead, then, new, rec>>

CreateFails ==
    /\ step \in {"create", "createEnd"}
    /\ step' = IF step = "create" THEN "idle" ELSE "refresh"
    /\ UNCHANGED <<disk, dictId, stream, openForRead, then, new, rec>>

\* A commit that takes another block, or finds none and reclaims once.
Grow ==
    /\ step \in {"idle", "write"} /\ active # 0 /\ Free > 0
    /\ logs' = [logs EXCEPT ![active].blocks = @ + 1]
    /\ step' = "idle"
    /\ UNCHANGED <<dicts, tmp, nvsDict, dictId, stream, openForRead, then, new, rec>>

WriteShort ==
    /\ step = "idle" /\ active # 0 /\ Free = 0
    /\ Call("write")
    /\ UNCHANGED <<disk, dictId, stream, openForRead, new, rec>>

\* The part ends: on a write the flash would not take, at the size limit, or
\* before a restart.  No dictionary is looked at.
PartEnds ==
    /\ step \in {"idle", "write"} /\ streamOpen
    /\ step = "write" => Free = 0
    /\ Close
    /\ step' = "idle"
    /\ UNCHANGED <<disk, dictId, seq, openForRead, then, new, rec>>

\* The MBB has gone to sleep.  A stream of notes stays; the end of a session
\* without a file goes by WantFile("createEnd").
SessionClose ==
    /\ step = "idle" /\ streamOpen /\ active # 0
    /\ Close
    /\ step' = "refresh"
    /\ UNCHANGED <<disk, dictId, seq, openForRead, then, new, rec>>

StoreTick ==
    /\ step = "idle"
    /\ Call("idle")
    /\ UNCHANGED <<disk, dictId, stream, openForRead, new, rec>>

-----------------------------------------------------------------------------
(* dictMaybeRefresh()                                                       *)

\* Mutant of MayRefresh: the stream that is still open is forgotten.
MayRefreshAlways == TRUE

MayRefresh == ~streamOpen

RefreshDue(d) ==
    /\ step = "refresh" /\ MayRefresh /\ d # dictId
    /\ new' = d
    /\ Call("dictTmp")
    /\ UNCHANGED <<disk, dictId, stream, openForRead, rec>>

Refreshed == step' = "idle" /\ new' = 0

\* Not due, the stream still open, or any of the steps below failing; what
\* was written under the temporary name is removed.
NoRefresh ==
    /\ step \in {"refresh", "dictTmp", "rename", "put"}
    /\ Refreshed
    /\ tmp' = (tmp /\ (step \in {"refresh", "put"} \/ new \in dicts))
    /\ UNCHANGED <<logs, dicts, nvsDict, dictId, stream, openForRead, then, rec>>

\* An id already on the flash is adopted; another is written to one side.
WriteDict ==
    /\ step = "dictTmp"
    /\ IF new \in dicts THEN step' = "put" /\ UNCHANGED tmp
       ELSE (Free > 0 \/ tmp) /\ tmp' = TRUE /\ step' = "rename"
    /\ UNCHANGED <<logs, dicts, nvsDict, dictId, stream, openForRead, then, new, rec>>

RenameDict ==
    /\ step = "rename"
    /\ tmp' = FALSE /\ dicts' = dicts \cup {new}
    /\ step' = "put"
    /\ UNCHANGED <<logs, nvsDict, dictId, stream, openForRead, then, new, rec>>

\* Read back and verified, its id goes to NVS ...
PutDict ==
    /\ step = "put"
    /\ nvsDict' = new
    /\ step' = "load"
    /\ UNCHANGED <<logs, dicts, tmp, dictId, stream, openForRead, then, new, rec>>

\* ... it is used from the next session on, and what it replaces may go.
LoadDict ==
    /\ step = "load"
    /\ dictId' = new
    /\ \E gone \in Collected(new) : dicts' = dicts \ gone
    /\ Refreshed
    /\ UNCHANGED <<logs, tmp, nvsDict, stream, openForRead, then, rec>>

Refresh ==
    (\E d \in Dicts : RefreshDue(d)) \/ NoRefresh \/ WriteDict \/ RenameDict
        \/ PutDict \/ LoadDict

-----------------------------------------------------------------------------
(* What the HTTP side asks, and the power.                                  *)

OnFlash(name) == name \in {Log(n) : n \in Numbers} \cup {Dict(d) : d \in dicts}

StoreOpenRead(name) ==
    /\ step = "idle" /\ OnFlash(name) /\ name # Log(active)
    /\ Cardinality(openForRead) < READERS
    /\ openForRead' = openForRead \cup {name}
    /\ UNCHANGED <<disk, dictId, stream, step, then, new, rec>>

StoreReadDone(name) ==
    /\ step = "idle" /\ name \in openForRead
    /\ openForRead' = openForRead \ {name}
    /\ UNCHANGED <<disk, dictId, stream, step, then, new, rec>>

StoreDelete(n) ==
    /\ step = "idle" /\ n \in Numbers
    /\ n # active /\ Log(n) \notin openForRead /\ n \notin Stuck
    /\ logs' = Without({n})
    /\ UNCHANGED <<dicts, tmp, nvsDict, dictId, stream, openForRead, step, then, new, rec>>

\* Mutant of BootDict: the saved id is trusted without its file.
BootDictTrusted(d) == d

\* storeBegin(): the saved dictionary, if its file is there and matches.
BootDict(d) == IF d \in dicts' THEN d ELSE 0

\* The power goes, or the board restarts, at any step; RAM is lost.  A flash
\* that will not mount is formatted.
Reboot(formatted) ==
    /\ IF formatted THEN logs' = <<>> /\ dicts' = {} /\ tmp' = FALSE
       ELSE UNCHANGED <<logs, dicts, tmp>>
    /\ dictId' \in {0, BootDict(nvsDict)}   \* 0 too when NVS or the file does not read
    /\ streamOpen' = FALSE /\ streamDict' = 0 /\ active' = 0
    /\ openForRead' = {}
    /\ step' = "idle" /\ then' = "idle" /\ new' = 0 /\ rec' = NoRec
    /\ UNCHANGED <<nvsDict, seq>>

Board ==
    \/ EnsureSpace \/ Refresh
    \/ StreamStart \/ (\E k \in {"create", "createEnd"} : WantFile(k))
    \/ CreateFile \/ CreateAndEnd \/ CreateFails
    \/ Grow \/ WriteShort \/ PartEnds \/ SessionClose \/ StoreTick

Client ==
    \/ \E name \in {Log(n) : n \in Numbers} \cup {Dict(d) : d \in dicts} :
           StoreOpenRead(name) \/ StoreReadDone(name)
    \/ \E n \in Numbers : StoreDelete(n)

Next == Board \/ Client \/ (\E formatted \in BOOLEAN : Reboot(formatted))

Spec == Init /\ [][Next]_vars

\* While the power stays, a call that has begun runs to its end, and loop()
\* ticks for ever; between its ticks the MBB falls quiet again and again.
Continue == step # "idle" /\ Board

LiveSpec == Spec /\ WF_vars(Continue) /\ SF_vars(StoreTick)

-----------------------------------------------------------------------------
(* Properties                                                               *)

TypeOK ==
    /\ Numbers \subseteq 1 .. MAX_SEQ
    /\ \A n \in Numbers : logs[n].dict \in Dicts \cup {0} /\ logs[n].blocks \in 0 .. BLOCKS
    /\ dicts \subseteq Dicts /\ tmp \in BOOLEAN
    /\ {nvsDict, dictId, streamDict, new} \subseteq Dicts \cup {0}
    /\ Free \in 0 .. BLOCKS
    /\ seq \in 0 .. MAX_SEQ /\ streamOpen \in BOOLEAN
    /\ active # 0 => active = seq /\ active \in Numbers /\ streamOpen
    /\ \A name \in openForRead : OnFlash(name)
    /\ step \in {"idle", "reclaim", "round", "delete", "create", "createEnd", "write",
                "refresh", "dictTmp", "rename", "put", "load"}

\* Whatever dictCollect() deletes, whenever the power goes in a refresh, and
\* however many dictionaries there are: the dictionary of every session file,
\* of the stream in RAM and of the sessions to come is on the flash.
DictKept ==
    ({logs[n].dict : n \in Numbers} \cup {dictId, streamDict}) \ {0} \subseteq dicts

\* A file is named for the dictionary its stream was begun with, although the
\* name is made at the first commit from the dictionary then in use.
NamedForItsStream ==
    [][\A n \in Numbers' \ Numbers : logs'[n].dict = streamDict]_vars

\* A reclaim takes a session only when every session before it is gone, or is
\* the active one, being read, or will not delete: over several walks of a
\* directory larger than one walk keeps.
OldestFirst ==
    [][step = "delete" /\ step' = "delete" =>
         \A n \in Numbers \ Numbers' : \A m \in Numbers \ {n} :
             m < n => m = active \/ Log(m) \in openForRead \/ m \in Stuck]_vars

\* The reserve comes back, or there is nothing left that could be deleted:
\* one or two files that refuse do not keep the reclaim from the rest.
ReserveReturns ==
    <>[][Board \/ Client]_vars => []<>(Free >= FS_MIN_FREE \/ Deletable(0) \subseteq Stuck)

=============================================================================
