-------------------------------- MODULE TxGate --------------------------------
(***************************************************************************)
(* The transmit gate of the console UART, src/firmware/src/mbb_uart.cpp.    *)
(*                                                                          *)
(* Pin 9 of the MBB is both the console's receive line and its wake signal, *)
(* so the dongle drives it only while it sends, for a short hold after, or  *)
(* for a deliberate wake.  Two tasks decide that together: the capture      *)
(* task, which samples pin 8 every 20 ms, and the loop task, which writes,  *)
(* holds, wakes, and checks the hold a second time.  They share txMtx and   *)
(* a handful of volatile variables that are also read without it.           *)
(*                                                                          *)
(* One step of this module is what one task does between two points where   *)
(* the other may see or change the shared state.  millis() is a counter     *)
(* modulo 2 * HALF, so (int32_t)(a - b) is negative exactly when            *)
(* Minus(a, b) >= HALF.  One Tick stands for any span of time; the watchdog *)
(* reboots a board whose capture task has gone WDT of them without a pass.  *)
(***************************************************************************)
EXTENDS Integers

CONSTANTS
    HALF,          \* 2^31: half the range of millis()
    TX_HOLD,       \* TX_HOLD_MS
    SLEEP_AFTER,   \* SLEEP_AFTER_MS
    WDT,           \* LOOP_WDT_S
    LOW_SAMPLES,   \* quiet low samples that mean the line is down: 3
    WakeHolds      \* the holds /api/wake may ask for, 1 s to 900 s

\* The spans the code uses are far below half the range of millis(): 900 s
\* and 2 x 120 s against 24.8 days.
ASSUME ConstantsAssumption ==
    /\ HALF \in Nat
    /\ WDT \in Nat \ {0} /\ 2 * WDT < HALF
    /\ TX_HOLD \in 1 .. (HALF - 1)
    /\ SLEEP_AFTER \in Nat \ {0}
    /\ LOW_SAMPLES \in Nat \ {0}
    /\ WakeHolds \subseteq 1 .. (HALF - 2)

VARIABLES
    now,          \* millis()
    awake, lineHigh, txAttached, txHeld, txHoldUntil, wakeUntil,
    owner,        \* who holds txMtx
    pc,           \* where each task is
    lowSamples,   \* the capture task's local count
    quiet,        \* time since lastActivityMs, capped at SLEEP_AFTER
    nowAwake,     \* the capture task's local verdict
    capAge,       \* time since the capture task fed the watchdog
    wakeLeft,     \* history: what is really left of the last wake's hold
    holdLeft      \* history: what is really left of the last write's hold

gate == <<awake, lineHigh, txAttached, txHeld, txHoldUntil, wakeUntil>>
sampling == <<lowSamples, quiet, nowAwake>>
history == <<wakeLeft, holdLeft>>
vars == <<now, gate, owner, pc, sampling, capAge, history>>

Tasks == {"capture", "loop"}
Time == 0 .. (2 * HALF - 1)

-----------------------------------------------------------------------------
\* uint32_t arithmetic on millis()
Plus(a, b) == IF a + b < 2 * HALF THEN a + b ELSE a + b - 2 * HALF
Minus(a, b) == IF a >= b THEN a - b ELSE a - b + 2 * HALF

WakeOn == wakeUntil # 0 /\ Minus(now, wakeUntil) >= HALF
WakeExpired == wakeUntil # 0 /\ Minus(now, wakeUntil) < HALF

\* Mutant of HoldOver: pin 8 forgotten.
HoldOverTimed ==
    ~WakeOn /\ ~txHeld /\ Minus(now, txHoldUntil) \in 1 .. (HALF - 1)

\* holdOver(): the timed hold is over, or the line is seen down.
HoldOver ==
    /\ ~WakeOn
    /\ \/ ~txHeld /\ Minus(now, txHoldUntil) \in 1 .. (HALF - 1)
       \/ ~lineHigh

\* Where checkHold() hands control back to: the top of the capture task's
\* pass, or whatever the loop task does next.
Rest(t) == IF t = "capture" THEN "read" ELSE "idle"

CheckHoldPCs == {"exp", "expLock", "expBody", "hold", "holdLock", "holdBody", "drain"}
CapturePCs == CheckHoldPCs \cup {"read", "edgeLock", "edgeBody", "edgeDrain"}
LoopPCs == CheckHoldPCs \cup
    {"idle", "wLock", "wRecheck", "wAttach", "wSend", "kLock", "kBody", "offBody"}

\* The program counters at which a task holds txMtx.
Critical == {"expBody", "holdBody", "drain", "edgeBody", "edgeDrain",
             "wRecheck", "wAttach", "wSend", "kBody"}

Goto(t, l) == pc' = [pc EXCEPT ![t] = l]

Take(t, from, to) ==
    /\ pc[t] = from
    /\ owner = "none"
    /\ owner' = t
    /\ Goto(t, to)
    /\ UNCHANGED <<now, gate, sampling, capAge, history>>

Give == owner' = "none"

Init ==
    /\ now = 0
    /\ awake = FALSE /\ lineHigh = FALSE /\ txAttached = FALSE /\ txHeld = FALSE
    /\ txHoldUntil = 0 /\ wakeUntil = 0
    /\ owner = "none"
    /\ pc = [t \in Tasks |-> Rest(t)]
    /\ lowSamples = LOW_SAMPLES /\ quiet = SLEEP_AFTER /\ nowAwake = FALSE
    /\ capAge = 0
    /\ wakeLeft = 0 /\ holdLeft = 0

-----------------------------------------------------------------------------
(* checkHold(), called from both tasks.                                     *)

ExpireTest(t) ==
    /\ pc[t] = "exp"
    /\ Goto(t, IF WakeExpired THEN "expLock" ELSE "hold")
    /\ UNCHANGED <<now, gate, owner, sampling, capAge, history>>

ExpireLock(t) == Take(t, "expLock", "expBody")

\* The test is repeated under the mutex: a new wake may have landed between.
ClearedWake == IF WakeExpired THEN 0 ELSE wakeUntil

ExpireBody(t) ==
    /\ pc[t] = "expBody"
    /\ wakeUntil' = ClearedWake
    /\ Give
    /\ Goto(t, "hold")
    /\ UNCHANGED <<now, awake, lineHigh, txAttached, txHeld, txHoldUntil,
                   sampling, capAge, history>>

HoldTest(t) ==
    /\ pc[t] = "hold"
    /\ Goto(t, IF txAttached /\ HoldOver THEN "holdLock" ELSE Rest(t))
    /\ UNCHANGED <<now, gate, owner, sampling, capAge, history>>

HoldLock(t) == Take(t, "holdLock", "holdBody")

\* Mutant of StillOver: the test before the lock is believed.
StillOverAssumed == TRUE

\* checkHold()'s second test: a write may have landed between.
StillOver == txAttached /\ HoldOver

HoldBody(t) ==
    /\ pc[t] = "holdBody"
    /\ IF StillOver
         THEN Goto(t, "drain") /\ UNCHANGED owner
         ELSE Goto(t, Rest(t)) /\ Give
    /\ UNCHANGED <<now, gate, sampling, capAge, history>>

\* txDetach() behind its waits for the wire: the pad becomes an input, or
\* gpio_config fails and the pin stays attached for another pass to release.
DrainOk(t) ==
    /\ pc[t] = "drain"
    /\ txAttached' = FALSE
    /\ Give
    /\ Goto(t, Rest(t))
    /\ UNCHANGED <<now, awake, lineHigh, txHeld, txHoldUntil, wakeUntil,
                   sampling, capAge, history>>

DrainFail(t) ==
    /\ pc[t] = "drain"
    /\ Give
    /\ Goto(t, Rest(t))
    /\ UNCHANGED <<now, gate, sampling, capAge, history>>

CheckHold(t) ==
    \/ ExpireTest(t) \/ ExpireLock(t) \/ ExpireBody(t)
    \/ HoldTest(t) \/ HoldLock(t) \/ HoldBody(t)
    \/ DrainOk(t) \/ DrainFail(t)

-----------------------------------------------------------------------------
(* The capture task's pass.                                                 *)

\* One pass's read and sample.  "bytes": something other than NUL arrived;
\* "level": pin 8; "sustained": it has been high without bytes for
\* AWAKE_HIGH_MS.  A pass over a line that is down may end a write's promise
\* to hold the pin, so holdLeft goes with lineHigh.
Sample(bytes, level, sustained) ==
    LET active == level /\ (bytes \/ sustained)
        low == IF lowSamples < LOW_SAMPLES THEN lowSamples + 1 ELSE lowSamples
        verdict == active \/ quiet < SLEEP_AFTER
    IN  /\ pc["capture"] = "read"
        /\ capAge' = 0
        /\ quiet' = IF active THEN 0 ELSE quiet
        /\ IF bytes \/ level
             THEN lowSamples' = 0 /\ lineHigh' = TRUE
             ELSE /\ lowSamples' = low
                  /\ lineHigh' = IF lowSamples < LOW_SAMPLES /\ low = LOW_SAMPLES
                                   THEN FALSE ELSE lineHigh
        /\ nowAwake' = verdict
        /\ Goto("capture", IF verdict # awake THEN "edgeLock" ELSE "exp")
        /\ holdLeft' = IF lineHigh' THEN holdLeft ELSE 0
        /\ UNCHANGED <<now, awake, txAttached, txHeld, txHoldUntil, wakeUntil,
                       owner, wakeLeft>>

EdgeLock == Take("capture", "edgeLock", "edgeBody")

\* Mutant of EdgeReleases: the asleep edge releases the pin even in a wake.
EdgeReleasesAlways == ~nowAwake /\ txAttached

\* A wake drives pin 9 precisely while the console block is down, so the
\* asleep edge releases the pin only when no wake is on.
EdgeReleases == ~nowAwake /\ ~WakeOn /\ txAttached

EdgeBody ==
    /\ pc["capture"] = "edgeBody"
    /\ awake' = nowAwake
    /\ holdLeft' = IF nowAwake THEN holdLeft ELSE 0
    /\ IF EdgeReleases
         THEN Goto("capture", "edgeDrain") /\ UNCHANGED owner
         ELSE Goto("capture", "exp") /\ Give
    /\ UNCHANGED <<now, lineHigh, txAttached, txHeld, txHoldUntil, wakeUntil,
                   sampling, capAge, wakeLeft>>

EdgeDrain ==
    /\ pc["capture"] = "edgeDrain"
    /\ txAttached' \in {FALSE, txAttached}   \* kept when gpio_config fails
    /\ Give
    /\ Goto("capture", "exp")
    /\ UNCHANGED <<now, awake, lineHigh, txHeld, txHoldUntil, wakeUntil,
                   sampling, capAge, history>>

AnySample == \E bytes, level, sustained \in BOOLEAN : Sample(bytes, level, sustained)

Capture == AnySample \/ EdgeLock \/ EdgeBody \/ EdgeDrain \/ CheckHold("capture")

-----------------------------------------------------------------------------
(* What the loop task asks of the gate.                                     *)

\* mbbTick() opens with checkHold().
TickCheck ==
    /\ pc["loop"] = "idle"
    /\ Goto("loop", "exp")
    /\ UNCHANGED <<now, gate, owner, sampling, capAge, history>>

\* mbbWrite(): tested, locked, tested again; the hold is set before the
\* bytes go out and again after them.
WriteCheck ==
    /\ pc["loop"] = "idle"
    /\ awake /\ lineHigh
    /\ Goto("loop", "wLock")
    /\ UNCHANGED <<now, gate, owner, sampling, capAge, history>>

WriteLock == Take("loop", "wLock", "wRecheck")

\* Mutant of StillUp: the test before the lock is believed.
StillUpAssumed == TRUE

\* mbbWrite()'s second test: the edge may have landed between.
StillUp == awake /\ lineHigh

WriteRecheck ==
    /\ pc["loop"] = "wRecheck"
    /\ IF StillUp
         THEN Goto("loop", "wAttach") /\ UNCHANGED owner
         ELSE Goto("loop", "idle") /\ Give
    /\ UNCHANGED <<now, gate, sampling, capAge, history>>

WriteAttach ==
    /\ pc["loop"] = "wAttach"
    /\ txHoldUntil' = Plus(now, TX_HOLD)
    /\ txAttached' = TRUE
    /\ holdLeft' = IF lineHigh THEN TX_HOLD ELSE 0
    /\ Goto("loop", "wSend")
    /\ UNCHANGED <<now, awake, lineHigh, txHeld, wakeUntil, owner, sampling,
                   capAge, wakeLeft>>

WriteSent ==
    /\ pc["loop"] = "wSend"
    /\ txHoldUntil' = Plus(now, TX_HOLD)
    /\ holdLeft' = IF lineHigh THEN TX_HOLD ELSE 0
    /\ Give
    /\ Goto("loop", "idle")
    /\ UNCHANGED <<now, awake, lineHigh, txAttached, txHeld, wakeUntil,
                   sampling, capAge, wakeLeft>>

\* /api/wake refuses while the MBB is awake, then calls mbbWake().
WakeCheck ==
    /\ pc["loop"] = "idle"
    /\ ~awake
    /\ Goto("loop", "kLock")
    /\ UNCHANGED <<now, gate, owner, sampling, capAge, history>>

WakeLock == Take("loop", "kLock", "kBody")

\* Mutant of WakeDeadline: the sum is not cut to 32 bits.
WakeDeadlineWide(h) == now + h

\* 0 means no wake, so a deadline that falls on it is moved to 1.
WakeDeadline(h) == IF Plus(now, h) = 0 THEN 1 ELSE Plus(now, h)

WakeBody(h) ==
    /\ pc["loop"] = "kBody"
    /\ wakeUntil' = WakeDeadline(h)
    /\ txHoldUntil' = WakeDeadline(h)
    /\ txAttached' = TRUE
    /\ wakeLeft' = IF Plus(now, h) = 0 THEN h + 1 ELSE h
    /\ Give
    /\ Goto("loop", "idle")
    /\ UNCHANGED <<now, awake, lineHigh, txHeld, sampling, capAge, holdLeft>>

\* mbbTxHold() takes no mutex.
HoldOn ==
    /\ pc["loop"] = "idle"
    /\ txHeld' = TRUE
    /\ UNCHANGED <<now, awake, lineHigh, txAttached, txHoldUntil, wakeUntil,
                   owner, pc, sampling, capAge, history>>

HoldOff ==
    /\ pc["loop"] = "idle"
    /\ txHeld' = FALSE
    /\ Goto("loop", "offBody")
    /\ UNCHANGED <<now, awake, lineHigh, txAttached, txHoldUntil, wakeUntil,
                   owner, sampling, capAge, history>>

HoldOffBody ==
    /\ pc["loop"] = "offBody"
    /\ txHoldUntil' = Plus(now, TX_HOLD)
    /\ Goto("loop", "idle")
    /\ UNCHANGED <<now, awake, lineHigh, txAttached, txHeld, wakeUntil, owner,
                   sampling, capAge, history>>

Request ==
    \/ WriteCheck \/ WakeCheck \/ HoldOn \/ HoldOff \/ TickCheck
Answer ==
    \/ WriteLock \/ WriteRecheck \/ WriteAttach \/ WriteSent
    \/ WakeLock \/ (\E h \in WakeHolds : WakeBody(h))
    \/ HoldOffBody
Loop == Request \/ Answer \/ CheckHold("loop")

-----------------------------------------------------------------------------
(* Time, and the board starting over.                                       *)

LessOne(n) == IF n > 0 THEN n - 1 ELSE 0

Tick ==
    /\ capAge < WDT
    /\ now' = Plus(now, 1)
    /\ capAge' = capAge + 1
    /\ quiet' = IF quiet < SLEEP_AFTER THEN quiet + 1 ELSE quiet
    /\ wakeLeft' = LessOne(wakeLeft)
    /\ holdLeft' = LessOne(holdLeft)
    /\ UNCHANGED <<gate, owner, pc, lowSamples, nowAwake>>

\* A restart of any kind, the watchdog's included: setup() makes the pins
\* safe before anything else and all of this module's state is new.
Reboot ==
    /\ now' = 0
    /\ awake' = FALSE /\ lineHigh' = FALSE /\ txAttached' = FALSE /\ txHeld' = FALSE
    /\ txHoldUntil' = 0 /\ wakeUntil' = 0
    /\ owner' = "none"
    /\ pc' = [t \in Tasks |-> Rest(t)]
    /\ lowSamples' = LOW_SAMPLES /\ quiet' = SLEEP_AFTER /\ nowAwake' = FALSE
    /\ capAge' = 0
    /\ wakeLeft' = 0 /\ holdLeft' = 0

Next == Capture \/ Loop \/ Tick \/ Reboot

Spec == Init /\ [][Next]_vars

\* Both tasks are scheduled for ever and time passes.  The mutex goes to the
\* highest-priority waiter, and the capture task outranks the loop task but
\* sleeps in its read every pass, so neither is passed over for ever: the
\* fairness of a task is strong.  What the loop task asks for is its own
\* affair, so Request is not fair.  gpio_config fails on a bad argument only,
\* so a release that is tried again and again succeeds in the end.
Fairness ==
    /\ WF_vars(Tick)
    /\ SF_vars(Capture)
    /\ SF_vars(Answer \/ CheckHold("loop"))
    /\ \A t \in Tasks : SF_vars(DrainOk(t))

FairSpec == Spec /\ Fairness

-----------------------------------------------------------------------------
(* Properties                                                               *)

TypeOK ==
    /\ now \in Time
    /\ awake \in BOOLEAN /\ lineHigh \in BOOLEAN
    /\ txAttached \in BOOLEAN /\ txHeld \in BOOLEAN
    /\ txHoldUntil \in Time /\ wakeUntil \in Time
    /\ owner \in Tasks \cup {"none"}
    /\ pc \in [Tasks -> CapturePCs \cup LoopPCs]
    /\ pc["capture"] \in CapturePCs /\ pc["loop"] \in LoopPCs
    /\ lowSamples \in 0 .. LOW_SAMPLES
    /\ quiet \in 0 .. SLEEP_AFTER
    /\ nowAwake \in BOOLEAN
    /\ capAge \in 0 .. WDT
    /\ wakeLeft \in 0 .. (HALF - 1)
    /\ holdLeft \in 0 .. TX_HOLD

\* The pin is driven into a MBB the capture task has called asleep only by a
\* deliberate wake: no other step attaches it while awake is false, however
\* the asleep edge falls against a write (mbbWrite's second test).
AttachOnlyAwakeOrWake ==
    [][~txAttached /\ txAttached' => awake \/ wakeUntil' # 0]_vars

\* A deliberate wake drives pin 9 for the whole of its hold: neither pin 8
\* low, nor the asleep edge, nor the end of another hold cuts it short.
WakeHonoured == wakeLeft > 0 => txAttached /\ WakeOn

\* And no longer: a deadline that has passed never reads as a wake again,
\* although millis() wraps past it.
WakeNeverReturns == WakeOn => wakeLeft > 0

\* In one: a wake is on for exactly as long as it was asked for.
WakeExact == WakeHonoured /\ WakeNeverReturns

\* Nothing releases the pin inside the hold a write asked for while the line
\* is up, a release already decided on when the write began included.
WriteHoldKept == holdLeft > 0 => txAttached

\* While bytes are handed to the driver the pin stays attached and the
\* verdict stays awake: neither task's release gets between.
WriteUncut == pc["loop"] = "wSend" => txAttached /\ awake

\* In one: a write keeps the pin from its first byte to the end of its hold.
WriteKeepsPin == WriteHoldKept /\ WriteUncut

\* A line seen down with no wake asked for has its pin released, whatever
\* the loop task does or wherever it has stalled outside the mutex.
LineDownReleases ==
    (txAttached /\ ~lineHigh /\ wakeUntil = 0)
        ~> (~txAttached \/ lineHigh \/ wakeUntil # 0)

\* Once the loop task stops asking, and no batch holds the pin, the pin
\* comes to rest as an input for good.
IdleComesToRest ==
    <>[](~txHeld /\ pc["loop"] \in {"idle"} \cup CheckHoldPCs) => <>[](~txAttached)

\* In one: the pin is released, by the line or by time.
PinReleased == LineDownReleases /\ IdleComesToRest

-----------------------------------------------------------------------------
(* The inductive invariant behind the safety properties, part by part.      *)

\* The holder of txMtx is the task inside a critical section.
MutexInv == \A t \in Tasks : owner = t <=> pc[t] \in Critical

\* A write past its second test has an awake MBB, and past the attach a pin.
WriteInv ==
    /\ pc["loop"] = "wAttach" => awake
    /\ pc["loop"] = "wSend" => awake /\ txAttached

\* A wake still running has its deadline where the clock will reach it, and
\* nobody is past the decision to release the pin.
WakeInv ==
    wakeLeft > 0 =>
        /\ txAttached
        /\ wakeUntil # 0 /\ wakeUntil = Plus(now, wakeLeft)
        /\ \A t \in Tasks : pc[t] \notin {"drain", "edgeDrain"}

\* The same for a write's hold, which a later mbbTxHold(false) may extend.
\* A wake under way was asked for while asleep, when no hold is left.
HoldInv ==
    holdLeft > 0 =>
        /\ txAttached /\ lineHigh /\ awake
        /\ Minus(txHoldUntil, now) \in holdLeft .. TX_HOLD
        /\ pc["loop"] \notin {"kLock", "kBody"}
        /\ \A t \in Tasks : pc[t] \notin {"drain", "edgeDrain"}

\* Where the capture task has yet to test the wake deadline in this pass.
BeforeExpireTest == {"edgeLock", "edgeBody", "edgeDrain", "exp", "expLock", "expBody"}

\* A deadline that has passed is cleared within two passes of the capture
\* task, which the watchdog bounds far below half the range of millis().
LateInv ==
    (wakeUntil # 0 /\ wakeLeft = 0) =>
        Minus(now, wakeUntil) <=
            capAge + (IF pc["capture"] \in BeforeExpireTest THEN WDT ELSE 0)

\* The whole of it: what every reachable state of the gate has.
IInv == TypeOK /\ MutexInv /\ WriteInv /\ WakeInv /\ HoldInv /\ LateInv
=============================================================================
