--------------------------------- MODULE Puller ---------------------------------
(***************************************************************************)
(* tools/pull-logs.py against the board's flash: it lists the sessions,    *)
(* downloads each, fetches the dictionary the stream names, writes the      *)
(* decoded log to its own disk, and then deletes the board's copy.  The     *)
(* board goes on between its requests, and during a download, which ticks   *)
(* the capture; either end may stop at any point.                           *)
(*                                                                          *)
(* One request is one step of both: the board answers when its loop task is *)
(* between calls.  A download is two, the reader's slot being held between, *)
(* of a session and of a dictionary alike.                                  *)
(* A session file never grows once closed, so what is downloaded whole is   *)
(* what the listing gave the size of.                                       *)
(***************************************************************************)
EXTENDS Flash

CONSTANTS
    Damaged,        \* numbers whose stream decodes with a note
    MAX_KILLS       \* bound: runs killed half-way

ASSUME PullerAssumption ==
    Damaged \subseteq Nat /\ MAX_KILLS \in Nat

VARIABLES
    ppc,        \* where the run is
    todo,       \* the listing's files still to do
    cur,        \* the file in hand, and the dictionary it names
    curDict,
    cache,      \* dictionaries under dicts/
    local,      \* logs in the destination directory
    raws,       \* streams kept as they came
    durable,    \* names, of either kind, whose directory entry is on disk
    kills,      \* history: runs killed
    cut,        \* history: names whose store was cut off before the directory's fsync
    deleted     \* history: sessions the puller has deleted from the board, each
                \* with the dictionary its stream named

puller == <<ppc, todo, cur, curDict>>
host == <<cache, local, raws, durable>>
history == <<kills, cut, deleted>>
allVars == <<vars, puller, host, history>>

Raw(n) == <<"raw", n>>
Entries == {Log(n) : n \in local} \cup {Raw(n) : n \in raws}

\* What is stored of a session: a damaged stream itself, beside its log.
Names(n) == {Log(n)} \cup (IF n \in Damaged THEN {Raw(n)} ELSE {})

PullerInit ==
    /\ Init
    /\ ppc = "off" /\ todo = {} /\ cur = 0 /\ curDict = 0
    /\ cache = {} /\ local = {} /\ raws = {} /\ durable = {}
    /\ kills = 0 /\ cut = {} /\ deleted = {}

PullerPCs ==
    {"off", "next", "get", "body", "dict", "dictbody", "store", "raw", "sync", "delete"}
At(l) == ppc = l
To(l) == ppc' = l

Stop == To("off") /\ todo' = {} /\ cur' = 0 /\ curDict' = 0
NextFile == To("next") /\ cur' = 0 /\ curDict' = 0 /\ UNCHANGED todo

\* The name in transfer, and the end of a transfer that is not whole: the board
\* rebooted in the middle, or the connection went.
Transfer == At("body") \/ At("dictbody")
Reading == IF At("body") THEN Log(cur) ELSE Dict(curDict)
EndShort == IF Reading \in openForRead THEN StoreReadDone(Reading) ELSE UNCHANGED vars

-----------------------------------------------------------------------------
(* One run.                                                                 *)

\* Mutant of List: the newest file is taken for the active one.
ListAllButNewest ==
    /\ At("off") /\ step = "idle"
    /\ todo' = Numbers \ {seq}
    /\ To("next")
    /\ UNCHANGED <<vars, cur, curDict, host, history>>

\* The listing marks the active file, which is skipped.
List ==
    /\ At("off") /\ step = "idle"
    /\ todo' = Numbers \ {active}
    /\ To("next")
    /\ UNCHANGED <<vars, cur, curDict, host, history>>

Pick ==
    /\ At("next")
    /\ IF todo = {} THEN Stop
       ELSE /\ cur' = CHOOSE n \in todo : \A m \in todo : NameKey(n) <= NameKey(m)
            /\ todo' = todo \ {cur'}
            /\ To("get")
            /\ UNCHANGED curDict
    /\ UNCHANGED <<vars, host, history>>

Get ==
    /\ At("get")
    /\ StoreOpenRead(Log(cur))
    /\ To("body")
    /\ UNCHANGED <<todo, cur, curDict, host, history>>

\* Gone since the listing, or a request that failed twice over.  The client
\* waits far longer than a call of the board's takes, so here and below a
\* request fails when the board could have answered it.
GetFails ==
    /\ At("get") /\ step = "idle"
    /\ NextFile
    /\ UNCHANGED <<vars, host, history>>

GotWhole ==
    /\ At("body")
    /\ StoreReadDone(Log(cur))
    /\ curDict' = logs[cur].dict
    /\ To("dict")
    /\ UNCHANGED <<todo, cur, host, history>>

GotShort ==
    /\ At("body")
    /\ EndShort
    /\ NextFile
    /\ UNCHANGED <<host, history>>

\* dictionary(): from the cache ...
CachedDict ==
    /\ At("dict") /\ curDict \in cache \cup {0}
    /\ To("store")
    /\ UNCHANGED <<vars, todo, cur, curDict, host, history>>

\* ... or from the board ...
GetDict ==
    /\ At("dict") /\ curDict \notin cache \cup {0}
    /\ StoreOpenRead(Dict(curDict))
    /\ To("dictbody")
    /\ UNCHANGED <<todo, cur, curDict, host, history>>

\* ... into the cache.
GotDict ==
    /\ At("dictbody")
    /\ StoreReadDone(Dict(curDict))
    /\ cache' = cache \cup {curDict}
    /\ To("store")
    /\ UNCHANGED <<todo, cur, curDict, local, raws, durable, history>>

\* The raw stream is kept and the board's copy left alone.
NoDictionary ==
    /\ \/ At("dict") /\ curDict \notin cache \cup {0} /\ step = "idle" /\ UNCHANGED vars
       \/ At("dictbody") /\ EndShort
    /\ raws' = raws \cup {cur}
    /\ NextFile
    /\ UNCHANGED <<cache, local, durable, history>>

\* Mutant of Same: that the name exists is taken for the same content.
SameAssumed == TRUE

\* The log is there already, byte for byte, from a run before.
Same == cur \in local

StoreLog ==
    /\ At("store")
    /\ IF Same THEN To("delete") /\ UNCHANGED local
       ELSE local' = local \cup {cur} /\ To(IF cur \in Damaged THEN "raw" ELSE "sync")
    /\ UNCHANGED <<vars, todo, cur, curDict, cache, raws, durable, history>>

StoreRaw ==
    /\ At("raw")
    /\ raws' = raws \cup {cur}
    /\ To("sync")
    /\ UNCHANGED <<vars, todo, cur, curDict, cache, local, durable, history>>

\* fsync of the directory, before the dongle's copy goes.
SyncDir ==
    /\ At("sync")
    /\ durable' = Entries /\ cut' = cut \ Entries
    /\ To("delete")
    /\ UNCHANGED <<vars, todo, cur, curDict, cache, local, raws, kills, deleted>>

\* What is cut off where the run is, if it stops here.
CutOff == cut' = cut \cup (IF At("raw") \/ At("sync") THEN Names(cur) ELSE {})

\* The host's disk refuses the log, the raw stream or the fsync.
StoreFails ==
    /\ At("store") \/ At("raw") \/ At("sync")
    /\ CutOff
    /\ NextFile
    /\ UNCHANGED <<vars, host, kills, deleted>>

\* A lost reply is followed by a 404, which is taken for success.
Delete ==
    /\ At("delete")
    /\ StoreDelete(cur)
    /\ deleted' = deleted \cup {<<cur, curDict>>}
    /\ NextFile
    /\ UNCHANGED <<host, kills, cut>>

DeleteFails ==
    /\ At("delete") /\ step = "idle"
    /\ NextFile
    /\ UNCHANGED <<vars, host, history>>

Run ==
    \/ List \/ Pick \/ Get \/ GotWhole \/ CachedDict \/ GetDict \/ GotDict
    \/ StoreLog \/ StoreRaw \/ SyncDir \/ Delete
Fails == GetFails \/ GotShort \/ NoDictionary \/ StoreFails \/ DeleteFails

-----------------------------------------------------------------------------
(* A run that is killed, and the board.                                     *)

\* Mutant of HangUp: the reader's slot is not given back.
HangUpKept == UNCHANGED vars

\* The board's side of a dropped connection ends with its own timeout.
HangUp == IF Transfer THEN EndShort ELSE UNCHANGED vars

Kill ==
    /\ ppc # "off" /\ kills < MAX_KILLS
    /\ kills' = kills + 1
    /\ HangUp /\ CutOff /\ Stop
    /\ UNCHANGED <<host, deleted>>

BoardStep ==
    /\ Board \/ (\E formatted \in BOOLEAN : Reboot(formatted))
    /\ UNCHANGED <<puller, host, history>>

PullerNext == Run \/ Fails \/ Kill \/ BoardStep

PullerSpec == PullerInit /\ [][PullerNext]_allVars

\* A request that gets through fails only for what the board does not have.
Answered ==
    \/ Run
    \/ GetFails /\ cur \notin Numbers
    \/ GotShort /\ Log(cur) \notin openForRead
    \/ NoDictionary /\ Dict(curDict) \notin openForRead /\ (At("dictbody") \/ curDict \notin dicts)
    \/ DeleteFails /\ cur \notin Numbers

\* What happens while the power, the network and the run all stay.
Calm == Answered \/ (Board /\ UNCHANGED <<puller, host, history>>)

\* The script is run again and again, from cron, and the board's calls run
\* to their end.
PullerLiveSpec ==
    /\ PullerSpec
    /\ WF_allVars(Continue /\ UNCHANGED <<puller, host, history>>)
    /\ SF_allVars(Answered)

-----------------------------------------------------------------------------
(* Properties                                                               *)

PullerTypeOK ==
    /\ TypeOK
    /\ ppc \in PullerPCs
    /\ todo \subseteq 1 .. MAX_SEQ /\ cur \in 0 .. MAX_SEQ
    /\ curDict \in Dicts \cup {0} /\ cache \subseteq Dicts
    /\ local \cup raws \subseteq 1 .. MAX_SEQ
    /\ durable \subseteq Entries
    /\ \A d \in deleted : d \in (1 .. MAX_SEQ) \X (Dicts \cup {0})

\* A reader has its slot for as long as its transfer lasts, however that ends, of
\* a session or of a dictionary: a board that is asked for nothing can reclaim and
\* collect everything.
SlotsFreed == PullerTypeOK /\ openForRead \subseteq (IF Transfer THEN {Reading} ELSE {})

\* A session the puller deleted from the board is in its destination directory,
\* with the stream itself if that was damaged, and would be after the host lost
\* its power, and the dictionary the stream named is in the cache: wherever a run
\* was killed or the disk refused, and whatever the next one found.  But for one
\* way: a store that was cut off before the directory's fsync is found by the
\* next run, which takes what is there for stored whole and for synced.
DeletedIsHeld ==
    \A d \in deleted :
        /\ d[1] \in local
        /\ Names(d[1]) \subseteq durable \cup cut
        /\ d[2] \in cache \cup {0}

\* Every session is pulled or reclaimed in the end, once power and network
\* stay: none remains for want of a dictionary the board no longer has.
PulledInTheEnd ==
    <>[][Calm]_allVars =>
        \A n \in 1 .. MAX_SEQ : n \in Numbers /\ n # active ~> n \notin Numbers
=============================================================================
