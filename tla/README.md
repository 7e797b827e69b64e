# A formal model of the Zero console dongle

The repository is the firmware of an ESP32 dongle on the console UART of a
motorcycle's main board (the MBB), and the scripts that use it. The dongle
listens to pin 8, logs what the MBB prints, types at it over pin 9, serves its
files and a page over WiFi, and sleeps with the bike. This directory holds TLA+
modules of the parts that are hard to test, the TLC configurations that check
them on small instances, and proofs of properties of all of them but one.

Source names are used where TLA+ allows it; `PROJECT.json` maps each definition
to the lines it models. Paths below are relative to `src/firmware/src/`.

## Inventory

Two FreeRTOS tasks run the program: the **capture** task (`captureTask` in
`mbb_uart.cpp`), which reads the UART, and the **loop** task (`loop()` in
`main.cpp`), which runs every owner in turn: queue, WiFi, HTTP, console, poller,
sleep. The WiFi driver and SNTP call back on tasks of their own. Each piece of
state has one owner; what crosses tasks is listed here.

| component | state | operations | interacts through | what is hard | properties that make it correct |
|---|---|---|---|---|---|
| Transmit gate, `mbb_uart.cpp` | `awake`, `lineHigh`, `txAttached`, `txHeld`, the hold and the wake deadline | sample, `checkHold`, `mbbWrite`, `mbbTxHold`, `mbbWake` | both tasks, `txMtx`, volatile reads without it | interleaving, deadlines modulo 2^32, watchdog | pin 9, which is the wake signal too, is driven only when it may be; a hold or a wake is neither cut short nor endless |
| Record queue, `mbb_uart.cpp` | a stream buffer of bytes, counters | `post`, `mbbTick` | capture writes, loop reads | header and payload sent apart, drops, resync | records whole, in order, at most once; every loss told |
| Framing, `pure/framer.h` | a partial line | feed, flush | feeds the queue | sequential | tested by `test_pure` |
| Session store, `store.cpp`, `pure/zstream.h` | the stream in RAM, pending lines, part and sequence numbers | append, commit, end, close, shutdown | called by the loop's owners | a flash that refuses or cuts writes at any point | no line lost uncounted, one wake per file, parts without gaps |
| Flash upkeep, `store.cpp`, `pure/names.h`, `pure/keep.h` | session files, dictionaries, readers' slots, the saved id | reclaim, collect, refresh, read, delete, boot | shares the files with HTTP | power lost between two changes, bounded memory | a needed dictionary stays, oldest first, the reserve returns |
| Puller, `src/tools/pull-logs.py` | files and dictionaries on a host | list, get, decode, store, fsync, delete | HTTP to the board | runs killed half-way, a live board | deleted from the board only if held |
| WiFi owner, `wlan.cpp` | services, setup network, credentials, refusals | `wifiTick`, `wifiJoin`, reset, suspend, resume | events of the driver's task | events between two looks of a tick, retries | joins in the end, reachable, the open setup network comes down |
| Sleep policy, `sleep.cpp`, `pure/hibernate.h` | plan, attendance, storage mode, provoked session, grace | `sleepNoteLine`, `sleepTick`, `doSleep` | lines of the MBB, the WiFi owner, wall clock | lost or mangled announcements, a sleep timer that runs long, dips of pin 8 | up for the MBB, sleeps again |
| Poller, `poller.cpp` | the batch, the watch, answers | `pollerTick`, `pollerConsumeLine`, `pollerRequest` | types through the gate, lines from the queue, console clients | late answers, timeouts, a client typing too | an answer is kept for its own command |
| Answers and readings, `poller.cpp`, `readings.cpp` | the last answer to each command, the figures, `poll.txt` | `keep`, `saveOutputs`, `loadOutputs`, `readingsNoteLine`, `readingsFeed` | lines of the poller, wall clock, HTTP | power lost between two changes of the flash, a full flash, a clock unset or off, `millis()` wrapping | what was saved stays, ages are right, figures are the newest |
| Dictionary keeper, `pure/dictkeeper.h`, `store.cpp` | the lines, used marks, candidates | `note`, `endSession`, `rebuild`, `load` | lines of the store, a session's end | two copies that meet by a count of bytes, three kinds of lines and one room | no line twice, new lines get in, lines that still come stay |
| Wall clock, `clock.cpp` | source, NTP age, two-stamp consensus | NTP callback, MBB stamps | SNTP task | callback between test and step, ages that wrap, old and mangled stamps | a fresh fix is right, one false stamp moves nothing, a wrong clock comes right |
| Console server, `console.cpp` | clients, pending output, loss counts | send, accept, receive | raw bytes from capture | a client that stops reading | every byte sent or told of |
| HTTP, settings, pages | stored values, text | handlers, parsing | all owners | I/O and text | covered by the repository's unit tests |
| Vendored uzlib, bench scripts | none | | | | left out |

## The modules

Each module's header says what one step of it is. The order is the order they
were written in, the most important first.

**TxGate** (with `MCTxGate`, `TxGateProofs`). One step is what one task does
between two points where the other may see or change the shared state, so every
test made without `txMtx` is a step apart from the lock that follows it. The
program counters name these points (`expTest`, `expLock`, `kBody`, `wRecheck`,
...). `millis()` is a counter modulo `2 * HALF`, and deadlines are compared as the
code does, by the sign of a difference. `Tick` is bounded by the watchdog: a
capture task that has gone `WDT` without a pass reboots the board. History
variables hold what is really left of a wake and of a write's hold.

**EventQueue** and **LossyQueue** (with `EventQueueProofs`). The stream buffer byte by byte
at the record boundary: header, payload, the 40 empty reads, the snapshot and the drain, and
the two notes about losses. `LossyQueue` is what the log may rely on: records in order, each
at most once, and what is lost is owed to the log until told. `Lossy!Spec` is a property of
`EventQueue`: the abstract queue is the set of the records that begin in the bytes the
reader holds or in the buffer, so that a record half sent is inside and one half delivered
is not.

**Session** (with `SessionProofs`). A handler of the store runs to its end under the store's
mutex, so it is one step, composed of the functions it calls; the flash's answers to the
file it may create and the two writes it may make are its input, and how many lines a write
cut short leaves in the file to be read (`kept`): the code keeps those bytes
(`store.cpp:425-443`). `torn` is history, how many such lines there are. Capacity is that of
`ZStream::fits()`, so an overflow of the output buffer inside a write cannot happen and is
not a branch.

**Flash** (with `FlashProofs`). Here the steps of one call are apart where the
power may go between two changes of the flash: each deletion, the new
dictionary's file, its rename, the saved id. A file's number is the order of its
creation (boot count, then sequence number). Sessions are sizes in blocks.

**Puller** EXTENDS Flash (its theorems are in `FlashProofs`). The script's run, one request
or file operation at a step, killed at any step; the board goes on in between with all of
Flash. A download, of a session or of a dictionary, is two steps with the reader's slot held
between them. Storing is a step per rename, of the log and of a damaged stream's raw copy,
and one for the fsync of the directory (`pull-logs.py:268-289`). `deleted` and `cut` are
history: what was deleted from the board, with the dictionary it named, and the names whose
store was cut off before that fsync.

**Wlan** (with `LoopProofs`). `wifiTick()` is three steps (joins, status, down), between
which the driver's events come: an address, an authentication that failed or expired, with
the right key too (`wlan.cpp:220-227` takes it in any state), a handshake that was not
finished, a network lost, a station sent off. A saved network is its key; the home network
takes one key, and may change it. Times are flags: due or not. `h` is history: the ways that
are named below.

**Sleep** (with `TimeProofs`). Times run down: what the plan has left on the board's clock, and what
the MBB's timer has left. The two part in a sleep, by the drift of the sleep
timer. `SleepTick` is all of `sleepTick()`, `doSleep()` included; a sleep ends on
the timer, by the MBB, or by a glitch of pin 8, and may be refused. After a glitch the
plan is open (`sleep.cpp:111`, `pure/hibernate.h:86`) and the board sleeps again, by a
clock that is behind by what the timer ran long. `heard` and `adrift` are history: the plan
is the MBB's own, and a glitch has cut a sleep of it that had run long.

**Poller** (with `MCPoller`, `LoopProofs`). A line is what it is and the command it belongs
to, an answer the set of commands its lines belong to. The loop's handlers are whole steps.
The MBB reads in order, echoes what it takes up and ends an answer with a prompt, with the
next command's echo behind it if one waits, or apart from it when the read of the UART ended
between the two. It may be late without a bound: timeouts and starts send on whatever is
unanswered and whatever was posted since `mbbTick()` (`main.cpp:164-166`), and an MBB with
no room left (`AHEAD`) loses what is typed. `adrift` is history: the command last sent in
this batch was sent out of order.

**Answers** (with `AnswersProofs`). What `keep()` takes over from the poller, the figure
the readings table takes from the rows that carry it, and the copy on the flash. A row is
noted when it arrives (`readings.cpp:48`) and its answer kept at the prompt, seconds later
(`poller.cpp:145`), or never: the answer's prompt may not come.
`saveOutputs()` is four steps (open, write, remove, rename), apart where the power may
go between two changes of the flash; everything else is a step. Time is the true time,
the wall clock an error or unset, and an age in this boot the true one modulo the wrap
of `millis()`. `saved` and `stranded` are history: when what a finished save held was
taken, and whether the old save went without the new one in its place.

**DictKeeper** (with `MCDictKeeper`, `Sums`, `SumsProofs`). A line, stripped of its stamps,
is a value with a size, a buffer the sequence of its lines, and an offset the size of what
stands before. `Rebuilt` is `rebuild()`, with the copies that skip by a count of bytes;
`Refresh` and `NoRefresh` are what `dictMaybeRefresh()` makes of it at a session's end.
Flash has the same refresh as changes of the flash, and knows nothing of lines. `Sums` is
the one operator it shares with Console, the sum of a sequence.

**Clock** (with `MCClock`, `TimeProofs`). Times are errors against the true time, so a
clock that runs right does not change and a sleep moves clock and candidate alike. The
SNTP task sets the clock and calls back later; `clockMaybeSetFromMbb()` is three steps,
apart where that task may come between. A stamp is live, or false: that of an old entry
in a dump, or one with a digit mangled. `doubt` is history: the ways in which a
fresh fix may yet be wrong.

**Console** (with `Sums`, `SumsProofs`). `consoleTick()` is a step per section, the capture
task's push comes between any two. Output is counted, not spelt: an item in `pend` is its
place in what the client was offered, or a note that says how many are missing, so that
`OutputAccounted` can be said of what is pending now. `ConsoleSend` is the whole of
`consoleSend()`.

How they meet: `Puller` composes the script with `Flash`. The other interfaces are
narrow and modelled from both sides as free inputs: TxGate's write and hold
requests are what Poller, console and HTTP ask; EventQueue delivers what Session,
Poller and Sleep consume; Sleep's busy flag is TxGate's, Wlan's and Poller's. `Keep`
of Answers is the moment Poller's `output` changes; a refresh of Flash that is put to
use is one of DictKeeper.

## The runs

| run | configuration | distinct states | what it shows |
|---|---|---|---|
| `tx_gate` | TxGate.cfg | 169 443 | a wake holds the pin to its deadline and the deadline does not come back (`WakeExact`); a write's hold is kept and no write is cut (`WriteKeepsPin`); the pin attached only for an awake MBB or by a wake (`AttachOnlyAwakeOrWake`), released with the line, at rest when nobody asks (`PinReleased`) |
| `event_queue` | EventQueue.cfg | 345 566 | whole records only, awake edges accounted for, refinement of LossyQueue, losses told and back on the boundary (`Recovers`) |
| `session` | Session.cfg | 496 591 | lines accounted for, and overcounted only by what a short write left to be read (`LinesAccounted`), parts without gaps and no name written over (`NamesTellTheParts`), one wake per file, and one made late ended at once (`OneWakePerFile`), a waiting end and waiting lines settled (`WaitingSettles`) |
| `flash` | Flash.cfg | 326 824 | dictionaries kept, names right, oldest first, the reserve back although a file will not delete |
| `puller` | Puller.cfg | 365 444 | nothing deleted that is not held, on disk but for the one way named, and its dictionary cached (`DeletedIsHeld`); a reader's slot no longer than its transfer (`SlotsFreed`); every session pulled or reclaimed |
| `wlan` | Wlan.cfg | 230 064 | the home network joined, a saved network means reachable, the setup network down; but for named ways, the setup network up when none is saved, and a right key never erased |
| `sleep` | Sleep.cfg | 205 908 | up for the MBB but for the one way named (`UpForTheMbb`), own wakes not attendance, asleep again |
| `poller` | Poller.cfg | 329 936 | an answer is its own command's, but for the three named ways (`OwnAnswer`); a request gets its batch (`RequestServed`) |
| `answers` | Answers.cfg | 804 172 | a save is never lost but between its removal and its rename (`SavedIsKept`), ages are right up to the clocks' errors (`AgesRight`), no figure is older than the row of an answer kept, but by the file's order (`FigureNewest`), what is kept gets saved (`SavedInTheEnd`) |
| `dict` | DictKeeper.cfg | 72 852 | no line twice and room kept (`NothingTwice`), a refresh that is due always learns (`AlwaysLearns`), a line that still comes goes only for want of room (`RecurringStays`) |
| `clock` | Clock.cfg | 114 163 | a fresh fix is right but for three named ways, one false stamp never moves the clock (`ClockTrusted`), a wrong clock comes right (`ComesRight`) |
| `console` | Console.cfg | 795 044 | all a client is offered is sent, pending or counted, and told of at the gap; losses are told and input is read in the end (`ClientsServed`) |

The type invariant of each module is checked as a conjunct of one of these properties
(`UnprovisionedHasSetup`, `OutputAccounted`, `NothingTwice`, `SlotsFreed`, which includes
Flash's, and `OwnAnswer`), and proved, in the same theorem or one of its own, of every
module.

### Bounds

* **TxGate**: one unit of time is the shortest the properties tell apart; `HALF = 3`
  lets the counter wrap within a wake, a hold and a silence of one unit each, which
  is where signed differences go wrong. The proofs hold for every value.
* **EventQueue**: a buffer of 10 bytes takes two records of 3 + 1 and not three, or
  one of 3 + 3 with the headroom; four records are enough to lose one, cut one,
  and deliver one before and one behind. Lengths 0, 1, 3: blank, shorter than and
  as long as a header, so that a cut payload can look like one.
* **Session**: a buffer of three lines, the header's included, and parts of three
  make every roll-over and short write happen; five lines and two sleeps are two
  sessions and their parts. `Kept = {0, 2}`: a short write leaves nothing, or two of the
  three lines a buffer holds. One name is left over from a boot whose count was lost.
* **Flash**: three sessions, two dictionaries, a walk that keeps two names, one slot
  in the collector, one file that does not delete: each list overflows. Seven
  blocks with a reserve of two fill up with two sessions and a dictionary.
* **Puller**: two sessions, one damaged, one kill (a second run always follows one
  killed, and the second can be undisturbed or not), one dictionary, four blocks, which two
  sessions and the dictionary with the reserve of one fill up.
* **Wlan**: two keys: the right one and the wrong one, which change places when the
  home network is given another.
* **Sleep**: numbers are scaled, keeping their order: margin over drift, the count
  below the sanity bound, the mangled count above it. `Hibs = {6}` is 3600 s. `MAX_LAG = 2`
  is two glitches that cost a unit each, or one sleep that ran two long: the clock is then
  too far behind for the margin of what is left.
* **Poller**: two commands; two with the MBB not yet taken up besides the one it is
  answering (`AHEAD = 2`), so that a timeout or a start sends with none, one, two or three
  unanswered, and what it sends to three is lost; a client types only while none waits
  (`TYPED = 1`). A line in the queue (`OneBehind`); behind a prompt with no echo on its line
  also the echo and a bare prompt, which is a whole answer, enough for the next command to
  be closed with it. `OwnAnswer` was checked once with three commands, `AHEAD = 3` and
  `TYPED = 2` as well.
* **Answers**: two commands that both carry the figure, so that the order of the file and
  that of the answers can differ; a clock that is right or one off; time up to the wrap
  of `millis()`, which is enough to wrap over an answer and to save it late. The proofs
  hold for any of these.
* **DictKeeper**: five lines of sizes 1 to 3, a dictionary of 8 and candidates of 4: proven
  lines fill two thirds and more, one proven line falls behind the cut, and what is new and
  what is proven do not fit together. Marks start over after two sessions.
* **Clock**: a tolerance and a freshness of two units; `millis()` wraps after four, so a fix
  gets old and fresh again. Live stamps are right or one late; two false ones, 5 and 6,
  tell one story and -6 another, each further from a live one than the tolerance and the
  drift of a candidate together. `LOWEST` lets several sleeps add up before a stamp helps.
* **Console**: two clients; the raw buffer, a chunk and the pending buffer hold two and a
  socket one, so that each fills up in one pass. A chunk is no longer than the pending
  buffer, as 512 and 512 are. With `MAX_LOST = 1` the MBB goes on talking while one byte is
  missing, and waits while more are; one pass alone can make every kind of loss.

### Fairness

The loop comes round for ever and the capture task is never starved: the watchdog
reboots the board otherwise, so the steps of both have weak fairness, strong where
the mutex or an alternation of the inputs may disable them. Time passes. Hardware
that is asked again and again in the end complies: a driver that starts
(`Wlan`), a detach that works (`TxGate`), a sleep that is taken (`Sleep`), a flash
that takes a write (`Session`, whose `GapOver` is the wait after a refusal), a flash that
opens, writes and renames a save, with an MBB that wakes and sleeps for ever, its asleep
edges being when it is tried (`Answers`). The
home network takes its own key in the end if it is tried for ever. The MBB stamps
the lines it prints, so live stamps are heard while no fix is fresh (`Clock`); nothing
is asked of NTP. A console client that stays in the end reads what its socket holds, and
the pass that empties the raw buffer ends, since a UART at 115200 baud is slower than
the loop that empties it (`Console`). Nothing else is
assumed of people, of clients, or of the MBB's answers: liveness is stated of a
system left alone from some point on (`<>[][Calm]_vars => ...`), without which a
person could keep it busy. Under `Poller` the MBB need not answer at all.
`CHECK_DEADLOCK` is never turned off.

## What is proved

`tlapm` checks every theorem in `TxGateProofs`, `EventQueueProofs`, `SessionProofs`,
`FlashProofs`, `TimeProofs`, `AnswersProofs`, `LoopProofs` and `SumsProofs`, for all
values of the constants that satisfy the assumptions stated where they are declared.

**TxGateProofs.** `Inductive` proves `IInv`, the conjunction of: the types; the owner of
`txMtx` is the task inside a critical section (`MutexInv`); a write past its second
test has an awake MBB, past the attach a pin (`WriteInv`); a wake that is still
running has its deadline ahead on the wrapping counter and nobody past the decision
to detach (`WakeInv`); the same for a hold (`HoldInv`); and a deadline that is over is
cleared within two passes of the capture task (`LateInv`), which is what bounds the
signed difference and needs the watchdog. None of the safety properties is inductive
alone: that a wake is honoured needs the place of the other task, and that its
deadline is not met again half a wrap later needs `LateInv`. One lemma per part has
one step per action. From it follow `TypeCorrect`, `WakeKept`, `WriteKept`,
and the action property `AttachSafe`. The assumptions used: spans below half the
counter's range, and `2 * WDT < HALF` (two minutes against 24 days).

**EventQueueProofs.** The bytes the reader holds and those in the
buffer are one stream. `QueueInductive` proves where a record may be broken off in it
(`StreamInv`): records ascend; one cut in front is there to its end in one piece; only the
last lacks its payload, while the writer stands between its two sends. With it go that
the room `post()` found is still there when it sends, since only the reader changes it
meanwhile (`WriterInv`), and what the reader holds in each of its states (`ReaderInv`). A
timeout of the payload, which a test hardly meets, is where a piece is cut: the reader
then knows that it may be off a boundary, and drains what a snapshot saw, which is
where records are lost that the log is owed. From it follow `DeliversWhole`, `EdgesRight`
(a count of the awake edges among the records begun) and `QueueIsLossy`: the initial
state and every step of the byte stream map to one of LossyQueue or a stutter. A drain
takes any number of bytes, so it is the abstract `Cut` up to the last record begun in
them.

**SessionProofs.** The handlers are functions of the store's state, and so are the lemmas.
`Sound(w, n, k)` says of a state w after n wakes that all the lines appended are written,
pending or counted as dropped, but for k, and that the lines written and counted besides
are those at torn ends. Each lemma says what one function of `store.cpp`
makes of it (`Outcome`: `WriteOut` moves the pending lines to the file, leaves them, or
leaves some of them there torn; `SessionEnd` counts what it throws away, `Add` takes k from
one to zero), and the handlers are
compositions of them, so the flash may refuse or cut any write at any point.
`LinesAreAccounted` and `TypeCorrect` follow: no line is lost uncounted, and the count is
too high by exactly the lines that can be read at the torn end of a part.
`ToldInductive` is a second invariant, of the names: a part is on flash under the name that
was free when it was made, the parts of a session are numbered without a gap up to the one
that is open, and an end that is owed waits in the buffer only, for the commit that makes
the file also ends it (`NoEndWaits`). From it follow `PartsAreTold` and `WakesAreApart`: a
file made late may hold two wakes, and none after them. The assumption that carries the first,
`SearchFinds`, is about the boot count: of the thousand names that `store.cpp:399` tries at
most, one is free. A search that ends without one uses the last, which may be taken.

**FlashProofs.** `FlashInductive` proves `DictKept` with three facts it needs: what a
session file being created is named after is the stream's dictionary (`StreamInv`),
what the caller of a reclaim still needs is among what the collector spares
(`CallInv`), and a dictionary being put into use is on the flash (`NewInv`). It
covers a power cut at every step, for any number of files, dictionaries and slots.
`DictionariesKept` and `NamedRight` follow. `OldestGoesFirst` has an invariant of its own,
`OrderInv`: a name a reclaim has passed is there only if it may not or cannot be taken
(`FloorInv`), and the names of a walk are those next after it, without a gap (`WalkInv`),
so what `keepSmallest()` cut off for want of slots comes in the next walk and never before
its turn. It assumes `InOrder`: no session's number is longer than the width `names.h:26`
pads to, past which names no longer sort as their numbers do. `FlashTyped` is the types,
with the blocks that files and dictionaries take; these are sums over sets of files.
`PullerImplementsFlash` is a refinement: `Puller` calls the board's own actions, and every
step of the script, and the end of a run that is killed, is to the board a reader that opens
a file, closes it or deletes it, or a stutter. So what is proved of Flash holds of Puller, and
`SlotsAreFreed` and `NothingLost` are proved on top of it. `NothingLost` is `DeletedIsHeld`
for any sessions, dictionaries and number of kills: the log of what is deleted is in the
directory, its name and that of a damaged stream's raw copy are on disk unless the store of
it was cut off before the fsync, and the dictionary its stream named is in the cache. Its
invariant says the same of the session in hand as far as the run has come with it
(`StoredInv`, `LocalInv`).

**TimeProofs**, the wall clock. `ClockInductive` proves `ClockTrusted` with what it needs: a
sync on its way to being promoted is right already, or marked spoilt, and a step past its
look at the flag spoils any sync that comes (`PendingInv`); and a candidate that no false
stamp made is a live one, set back by the sleeps since (`CandidateInv`), without which a
false stamp could be confirmed by a live one. `WhomItBelieves` follows. The assumption that
carries it is `FarApart`: a false stamp is at least the tolerance away from a live one, and
from a live one that sleep has set back. It is about the world: an old entry or a mangled
digit is off by more than the five seconds two stamps may differ. A mangled last digit of
the seconds need not be, and moves the clock by no more than those.

**TimeProofs**, the sleep policy. `SleepInductive` proves that a plan that is the MBB's own
ends no later than the MBB's own timer, or later by no more than the clock is behind once a
glitch has cut a sleep that ran long (`PlanInTime`, which also gives the plan back its time
when the clock is set), that a session the board provoked is marked as one for as long as it
lasts, through a slow boot and dips of pin 8 (`OwnMarked`), and from them `NeverOverslept`
and `OwnNeverCount`. `MarginCoversDrift` is the arithmetic: a sleep of what is left less the
margin, and then as long again as its timer may drift, is shorter than what was left, as
long as the drift in percent is no more than the margin's, `DRIFT_PCT <= MARGIN_PCT`, which
is the assumption the code's margin rests on. It carries the second, third, ... sleep of an
announcement too, as long as no glitch cut one that had run long already: how often pin 8
cuts them does not matter, `MAX_LAG` is any number.

**AnswersProofs.** `AnswersInductive` proves what each copy of an answer may be (`Sound`, in
memory, in the file and in the new file) with how they are ordered (`SaveInv`): no copy is
older than the last finished save, and the new file holds what memory holds when the
old one is removed; and that the row in the output that is going by is the figure shown or
an older one of this boot (`RowNoted`), since it is noted before its answer is kept.
`SavedStays`, `NewestShown` and `AgesAreRight` follow; the last by
the epoch of a saved answer being the moment it was taken up to the error of the clock
that it was first saved by, since a later save copies the epoch.

**LoopProofs**, the WiFi owner. `WlanInductive` proves four facts of the owner in every step
of a tick, each needed for the next action that could break it: what the driver tries or
holds is stored, and what is stored is known (`Own`); a join not seen yet or seen has proved
its key (`JoinProves`); a verdict on the key that is right is an old one, one passed before
that key had joined, or on a network joined (`VerdictRight`), whatever reason the driver
gives and in whatever state; and without a network saved the setup network is up, on its way
down only if a typo was erased meanwhile (`SetupOwed`). One lemma per function says what it
keeps of them, and the steps are compositions. `CanBeToldANetwork` and `RightKeyStays`
follow, with the exceptions they name, for any set of keys.

**LoopProofs**, the poller. `PollerInductive` says whose the lines are that are on their way:
those in the queue, those in the buffer, and those the MBB has still to print. An echo, alone
or behind a prompt, has its own answer behind it (`Heard`), which is what a watch goes by
(`WatchInv`). A batch has no echo to go by until it has sent: its command's answer comes now
(`OwnNow`), or from behind a bare prompt left from before the batch (`OwnStale`), or from
behind the prompt that ends an older answer (`OwnBehind`), or when the MBB has ended that and
takes the command up next (`OwnNext`); in each case the prompt that ends it
is bare, with nothing behind it, unless the batch has the order to finish (`RunInv`): a client
types into a batch only once it has. Each line the MBB prints and each line read moves a batch
from one of the four to another (`RunAdd`, `RunTakesLine`, `RunTakesLate`, `RunTakesStale`);
a prompt that closes a command in order leaves nothing behind it (`ClosesInOrder`), and what
is sent then, or with one command at most before the MBB, is in order again (`SendRun`).
`RunInv` is said of a batch that is not `adrift`; nothing else is assumed: the queue, the
number of commands, how many are unanswered and how late the MBB is are any.
`AnswersAreOwn` follows. That `adrift` is no larger than it must be is TLC's: with any of
its three causes taken out it finds another command's lines kept within seconds.

**SumsProofs**, the sums. `Total` is a recursive function of a sequence, and its laws would
be proved by induction, which the prover does not have for an operator that is a parameter.
They are proved by the least counterexample: the set of places up to which a law fails is
a set of numbers, so it has a least one (`Least`, from the well-foundedness of `<` on them), and the
function's definition takes the law from the place before to that one. In this way the
partial sums exist (`UpToExists`), unfold (`UpToUnfolds`), are numbers (`UpToType`), shift
with a part of the sequence (`UpToShifted`) and ascend where all is positive (`UpToAscends`);
the lines that `Only` keeps are treated the same (`OnlyKeeps`, `OnlyHolds`).

**SumsProofs**, the console. `ConsoleInductive` proves `Sound` of every client: its pending
items follow on from each other, each item's place in the output being what stands before it
accounts for; they and the count add up to what it was offered; and a count waits only behind
a backlog (`lost > 0 => pend # <<>>`), without which new output would go out ahead of its
marker. `consoleSend()` is taken apart as the code is: what is due follows (`DueRight`), the
socket takes a first part of it, the rest follows on from that (`RestFollows`), and what does
not fit is cut at the end, where the sum says how much it was. `OutputIsAccounted` follows,
for any number of clients and any sizes of buffers.

**SumsProofs**, the dictionary. `KeeperInductive` proves `NothingTwice` with two facts of
the marks: a marked line was heard since they last started over, and one heard in this
session is marked. The heart is `NotCopiedIs`: sizes being positive, the sums ascend, so the
byte count by which the third pass skips what the first one copied is met at the very line
where that ended, and at no other. So the rebuilt dictionary is four parts that have no line
in common, and `NoLineTwice` follows. `RebuildLearns` needs `DictAssumption`: any line fits
into the third that proven lines leave (`ShareIs`), so the first candidate always goes in.
`RecurringIsKept` is an action property: if a proven line is left out of the rebuilt
dictionary, the third pass was cut (`RebuiltRight`), and all that stands before the cut is
new or proven.

Only model-checked: liveness everywhere, with the fairness it is stated under (`ENABLED`
and fairness are out of the prover's reach). Every safety invariant and action property
that a run checks is a theorem.

## Ways that are named

Where the code departs from what one would state, the property names the way it does, and
holds in every other. TLC finds the way in seconds when the name is taken out.

* `UnprovisionedHasSetup` but for `h.skipped`: after a join the setup network's end is armed
  20 s ahead. A key mistyped on its page within them is refused and erased, `startSetup()`
  is skipped because the network is still up (`wlan.cpp:280`), and then it goes down:
  neither network, until a restart or a sleep. The firmware's `README.md:92` says it keeps
  raising it until it is provisioned.
* `RightKeyKept` but for three. `h.stale`: `wifiJoin()` clears `refusals` but not `wrongKey`
  (`wlan.cpp:198`). A key typed right after a refused one, before a tick has read the
  verdict, is erased untried at line 276, although the comment at line 31 ties the erasing
  to a refusal of the key typed. `h.early`: `wlan.cpp:220-227` takes an authentication that
  failed, expired or was left for a verdict on the key in any state, so a right key that has
  not joined yet (an answer lost on the air, a busy access point, a station sent off between
  association and address) is erased too; the comment at line 223 takes the
  authentication failures for the key itself. `w.joined`: the board joins, and the access
  point sends it off in words that are read as a refusal, both between the tick's look at
  its joins and that at its connection, so that the key is not proven yet. What is left is
  not little: a key that has joined is never erased as long as none is typed after it, and no
  unfinished handshake erases one.
* `UpForTheMbb` but for `adrift`: a sleep that a glitch of pin 8 cuts leaves the plan open
  (`pure/hibernate.h:61`, `:86`, `sleep.cpp:111`), and the next is planned by a clock that was
  advanced by the sleep timer's count. If the timer had run long by then, the second sleep's
  margin is of a remainder that is too long, and it may land on the MBB or after it: just
  what the comment at `pure/hibernate.h:56` gives as the reason for sleeping once. The clock
  set right in between puts an end to it.
* `LinesAccounted` but for `torn`: `writeOut()` leaves what a short write put into the file
  (`store.cpp:425-443`), where it can be read, and its callers count all that waited as
  dropped (`store.cpp:469`, `:524`). The count is too high by just those lines.
* `DeletedIsHeld` but for `cut`: a run killed, or refused by the disk, between a rename and
  the fsync of the directory (`pull-logs.py:274`, `:283`) leaves a file that the next run
  takes as stored (`same(dest)`), skipping both fsync and raw copy, before it deletes the
  board's. The script's docstring (lines 19-21) says the directory entry is on disk by then.
  A killed script alone loses nothing by it but the raw copy; the host's power has to go as
  well.
* `OwnAnswer` but for three. A prompt whose echo is not in the same read of the UART
  is handed out bare (`mbb_uart.cpp:211`, kind `apart`); the tail before it cleared
  `expectEcho`, so it closes the new command with the old one's tail (`poller.cpp:221`). The
  comment at `poller.cpp:264` says the echo rule covers a late prompt too. A timeout
  (`poller.cpp:252`) or a start (`poller.cpp:279`) sends whatever is unanswered and whatever
  was posted since the queue was last read: with two commands before the MBB, or the end of
  an older answer in the queue, the code's one comparison with the echo
  (`poller.cpp:217`) cannot tell which prompt is whose. And a bare prompt from before the
  batch that is read more than half a second after the send (`poller.cpp:220`) closes that
  command with nothing. Each shifts that answer, and the next ones until a
  command is sent in order (`adrift`): with the MBB idle and no more than bare prompts
  queued, or with one command before it and no prompt queued.
* `SavedIsKept` but for `stranded`: the power goes between `poller.cpp:76`'s remove and its
  rename, or the rename fails: both copies are gone from where `loadOutputs()` looks, the
  new one being in `poll.txt.new`, which nothing reads.
* `FigureNewest` but for the order of the file: after a restart the last answer in the file
  that has a row gives its figure (`poller.cpp:98`), not the newest, so the figure may be
  older than the row of an answer that stands earlier in it; once a row is heard in this
  boot it is the newest again. It is aged by its answer's prompt then, not by its row.
  `AgesRight` but for an answer held over a wrap of `millis()`.
* `ClockTrusted` but for three: see `doubt` in Clock and the list below.

Seen while modelling, and not run:

* `mbb_uart.cpp:125`: blank lines have no payload and leave no headroom; enough of them
  make an edge be refused, which the comment says cannot happen.
* `mbb_uart.cpp:326`: `mbbTxHold(false)` clears the claim before it sets the hold, outside
  the mutex; the capture task may release the pin in between. The next write attaches it.
* `store.cpp:399`: the search for a free name stops at its thousandth try and uses it.
* `pure/names.h:26`: from the thousandth file of a boot names stop sorting as created.
* `pull-logs.py:121`: a dictionary's own directory entry, under `dicts/`, is never synced,
  so `DeletedIsHeld` promises it in the cache for runs that are killed, not for a host that
  loses its power.
* `pull-logs.py:237`: the board may collect a dictionary between the downloads of a
  session, since reclaimed, and of the dictionary.
* `wlan.cpp:275`: a refusal from before a sleep counts against the join after it.
* `wlan.cpp:258`: a join counted late proves the key typed since.
* `poller.cpp:221`: an announcement and a prompt in one drain: one more command is sent.
* `poller.cpp:109`: a request during a batch is answered by it, also if it is cut short.
* `sleep.cpp:143`: attendance not yet saved is lost in a reset, and so is what a provoked
  session was; a clock stepped backwards stretches a plan (`pure/hibernate.h:80`).
* `mbb_uart.cpp:198`: `now - lastActivityMs` wraps after 49.7 silent days.
* `pure/dictkeeper.h:5`: the header gives the order of a rebuild as new lines, used ones, the
  rest; the code (line 101, and the comment on line 97) puts the used ones first, up to two
  thirds. DictKeeper follows the code.
* `wlan.cpp:251`: `now` is taken before `driverStart()` stamps `unjoinedSinceMs` (line 287), so
  the difference at line 292 may wrap, and the setup network come up at once (`wrapped` in
  Wlan).
* `clock.cpp:116`: an NTP fix that comes between the look at its flag and the step, or has
  set the clock and not yet called back, is overwritten by the stamp and then passes for
  fresh. The comment at line 128 says that cannot be.
* `clock.cpp:66`: `clockSlept()` ages a promoted fix only. One still pending when the board
  sleeps (`sleep.cpp:112`) is promoted after it, as if made then.
* `clock.cpp:62`: `millis() - lastNtpSyncMs` wraps after 49.7 days without NTP, and for six
  hours the old fix is fresh again.
* `clock.cpp:6`: two entries of a dump less than five seconds apart agree with each other
  and step the clock, though the comment says a dump cannot. And a candidate is not cleared
  while a fix is fresh, so the two stamps need not be consecutive.
* `console.cpp:161`: the note about bytes dropped upstream, if it does not fit, counts as its
  own length: the number in it is never told. It also goes out before buffered bytes that
  are older than the gap (`console.cpp:156`).
* `poller.cpp:307`: an age across a clock that was stepped back may be negative, and then
  be read as -1 (never) or -2 (the clock is unset); `readings.cpp:66` does the same.
* `http.cpp:196`: the pack's figures go with the age of "status", whatever command they were
  read from.
* `store.cpp:395`: a boot count that was not saved repeats; the search for a free name is
  what keeps names apart then (Session's `LeftOver`).

## What the models leave out

* **TxGate**: bytes. The UART driver's failure is modelled where the code tests for it.
* **EventQueue**: the text. Three bytes that are not a header are refused as one, since a
  text byte is above 4 as a type and makes a length above 1099.
* **Session**: time, names' text, compressed bytes. **Flash**: damaged dictionary files,
  and a boot count that was not saved (that is Session's `LeftOver`).
* **Puller**: HTTP is served by the loop task one request at a time, so there is one
  reader at most. Names are not reused.
* **Wlan**: mDNS; the driver takes a configuration within its twenty tries.
* **Sleep**: the policy is enabled; pin 8 dips only while a wake holds the MBB up, for less
  than the hold; the loop ticks between units of time; the countdown after an
  announcement is shorter than a unit. The clock is stepped forward only.
* **Poller**: no line is lost on its way to the poller: with a prompt or echo gone a tail can
  be kept for the wrong command. Lines the MBB prints on its own are left
  out, and the wait for a quiet line is a free delay.
* **Answers**: the text. A row parses to a valid figure or not, and there is one figure; a
  file is as it was written or not there, so the checks of lengths in `loadOutputs()` never
  fail. `stripStamps()` and lines below 8 bytes are left out of **DictKeeper**, as is a
  dictionary file without a last newline.
* **Clock**: parsing, time zones and daylight saving, a setting changed on the page, and a
  candidate so old that `millis()` has wrapped under it, which would only disagree.
* **Console**: how CR and delete are translated; the dongle's own texts are as long as a
  byte; `typed` says that a client has input, not how much.

Not modelled: framing, parsing and escaping are pure functions
under unit tests; settings, pages and firmware upload are I/O; uzlib is vendored; the
bench scripts keep no state.

## Plan

1. **Composition**: Poller over TxGate (a batch's hold against the capture task), and
   EventQueue feeding Session across a restart.
2. **HTTP**: the firmware upload, the one handler with a state of its own that is not
   modelled.
