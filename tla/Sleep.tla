-------------------------------- MODULE Sleep ---------------------------------
(***************************************************************************)
(* The sleep policy, src/firmware/src/sleep.cpp over pure/hibernate.h: when *)
(* the dongle may stop, for how long, and what it takes for attendance.     *)
(*                                                                          *)
(* Times run down: plan.left is what plan.until() would say on the board's  *)
(* clock, mbb.left is what the MBB's own timer has left.  They part in a    *)
(* sleep, which lasts longer than the board's clock is advanced by, and     *)
(* lag is what the board's clock is behind until NTP puts it right.  The    *)
(* days rule asks only whether the last attendance is days old.  The policy  *)
(* is enabled.  A line is delivered while the session that printed it is    *)
(* still seen: the loop task drains the queue many times in the five        *)
(* seconds between a line and the end of its session.                       *)
(***************************************************************************)
EXTENDS Integers

CONSTANTS
    Hibs,         \* counts the MBB may announce
    Mangled,      \* counts a mangled digit may make of them
    FALLBACK,     \* SLEEP_FALLBACK_S, the MBB's usual count
    MARGIN_PCT,   \* SLEEP_MARGIN_PCT
    MIN,          \* SLEEP_MIN_S
    SANE_MAX,     \* SANE_MAX_S, a day
    STALE,        \* the minute an announcement outlives its time
    GRACE,        \* graceMs
    DRIFT_PCT,    \* by how much the sleep timer may run long
    MAX_LAG       \* bound: how far sleeps put the board's clock behind

ASSUME SleepAssumption ==
    /\ Hibs \subseteq Nat \ {0} /\ Mangled \subseteq Nat
    /\ FALLBACK \in Nat \ {0} /\ MIN \in Nat \ {0} /\ SANE_MAX \in Nat
    /\ MARGIN_PCT \in 1 .. 99 /\ DRIFT_PCT \in 0 .. MARGIN_PCT
    /\ STALE \in Nat /\ GRACE \in Nat \ {0} /\ MAX_LAG \in Nat

VARIABLES
    clock,      \* clockValid(), and the seconds the clock is behind
    attended,   \* lastAttendedS, and attendedDirty
    storage,    \* storage > 0, or afterDays = 0
    plan,       \* SleepPlan: haveHib, what is left of it, sleptForHib
    provoked,   \* provoked, provokedWoke, and the wait since provokedAtMs
    wasAwake, up,   \* up: time since asleepSinceMs, no further than the grace
    mbb,        \* the MBB: awake, its timer, and what the dongle sees of it
    hold,       \* mbbWakeHoldS() > 0
    called,     \* history: the MBB has a wake of ours to answer
    ours,       \* history: the MBB's session is one the dongle provoked
    countedOurs,  \* history: a line of such a session counted as attendance
    heard,      \* history: the plan is the MBB's own
    adrift,     \* history: a sleep of this plan ran long before a glitch cut it,
                \* and the clock has not been set since
    overslept   \* history: the MBB came up in a sleep planned to end before it

policy == <<attended, storage, plan, provoked, wasAwake, up>>
history == <<called, ours, countedOurs, heard, adrift, overslept>>
vars == <<clock, policy, mbb, hold, history>>

NoPlan == [haveHib |-> FALSE, left |-> 0, slept |-> FALSE]
NotProvoked == [on |-> FALSE, woke |-> FALSE, waited |-> FALSE]
Ages == {"never", "recent", "old"}

AsBooted ==
    /\ storage = FALSE /\ plan = NoPlan /\ provoked = NotProvoked
    /\ wasAwake = FALSE /\ up = 0 /\ hold = FALSE
    /\ clock = [valid |-> FALSE, lag |-> 0]

Init ==
    /\ AsBooted
    /\ attended \in [at : Ages, dirty : {FALSE}]
    /\ mbb \in [awake : {FALSE}, left : Hibs, seen : {FALSE}]
    /\ called = FALSE /\ ours = FALSE /\ countedOurs = FALSE
    /\ heard = FALSE /\ adrift = FALSE /\ overslept = FALSE

-----------------------------------------------------------------------------
(* pure/hibernate.h                                                         *)

\* sleepSeconds()
SleepSeconds(until) ==
    LET s == (until * (100 - MARGIN_PCT)) \div 100
    IN  IF s >= MIN THEN s ELSE 0

\* Mutant of Forgotten: an announcement the MBB never honours is kept.
ForgottenInsane == plan.haveHib /\ plan.left > SANE_MAX

\* An announcement past its minute, or one the MBB cannot have meant.
Forgotten == plan.haveHib /\ (plan.left < -STALE \/ plan.left > SANE_MAX)

\* What an announcement is on a clock that has gone s on.
Aged(p, s) == IF p.haveHib THEN [p EXCEPT !.left = @ - s] ELSE p

Planned == IF Forgotten THEN NoPlan ELSE plan

\* Mutant of NextSleep: what is left of an announcement is slept again.
NextSleepAgain == SleepSeconds(IF Planned.haveHib THEN Planned.left ELSE FALLBACK)

\* SleepPlan::next(), but for the forgetting.
NextSleep ==
    IF Planned.haveHib /\ Planned.slept THEN 0
    ELSE SleepSeconds(IF Planned.haveHib THEN Planned.left ELSE FALLBACK)

\* SleepPlan::noteHibernate()
NotedPlan(h) == [haveHib |-> TRUE, left |-> h, slept |-> FALSE]

-----------------------------------------------------------------------------
(* sleepNoteLine(), for the lines that say something to it.                 *)

Speaks == mbb.awake /\ mbb.seen

\* The MBB announces its sleep.  The count may come mangled, the line may be
\* lost, and without a clock it is not noted.
Announces(h, heardAs) ==
    LET noted == clock.valid /\ heardAs # 0
    IN  /\ Speaks
        /\ mbb' = [mbb EXCEPT !.left = h]
        /\ plan' = IF noted THEN NotedPlan(heardAs) ELSE plan
        /\ heard' = (noted /\ heardAs = h)
        /\ adrift' = (adrift /\ ~noted)
        /\ UNCHANGED <<clock, attended, storage, provoked, wasAwake, up, hold,
                       called, ours, countedOurs, overslept>>

\* A top-up, a cellular answer or a key-on.
AttendedLine(keyOn) ==
    LET counts == ~provoked.on /\ clock.valid
    IN  /\ Speaks
        /\ attended' = IF counts THEN [attended EXCEPT !.at = "recent", !.dirty = TRUE] ELSE attended
        /\ countedOurs' = (countedOurs \/ (counts /\ ours))
        /\ storage' = IF keyOn THEN FALSE ELSE storage
        /\ UNCHANGED <<clock, plan, provoked, wasAwake, up, mbb, hold,
                       called, ours, heard, adrift, overslept>>

StorageLine(mode) ==
    /\ Speaks
    /\ storage' = mode
    /\ UNCHANGED <<clock, attended, plan, provoked, wasAwake, up, mbb, hold, history>>

-----------------------------------------------------------------------------
(* sleepTick()                                                              *)

\* Mutant of SessionOver: the session ends with the first dip of pin 8.
SessionOverDip == ~mbb.seen /\ (provoked.woke \/ provoked.waited)

\* The provoked session is over, or never came.
SessionOver == ~mbb.seen /\ ~hold /\ (provoked.woke \/ provoked.waited)

TickedProvoked ==
    IF ~provoked.on THEN provoked
    ELSE IF mbb.seen THEN [provoked EXCEPT !.woke = TRUE]
    ELSE IF SessionOver THEN NotProvoked
    ELSE provoked

\* The first fix starts the days rule; what is new is saved while the MBB
\* sleeps.
TickedAttended ==
    LET first == attended.at = "never" /\ clock.valid
        a == IF first THEN [attended EXCEPT !.at = "recent", !.dirty = TRUE] ELSE attended
    IN  IF a.dirty /\ ~mbb.seen THEN [a EXCEPT !.dirty = FALSE] ELSE a

Edge == mbb.seen # wasAwake

TickedUp == IF Edge /\ ~mbb.seen THEN 0 ELSE up

\* unattended(), as the tick finds it.
Unattended ==
    \/ storage
    \/ clock.valid /\ TickedAttended.at = "old"

\* The board is busy while it drives pin 9, and while it is in use.
MaySleep(busy) ==
    /\ ~mbb.seen /\ ~busy /\ ~hold
    /\ Unattended
    /\ TickedUp >= GRACE

\* What every tick does.
Ticked ==
    /\ provoked' = TickedProvoked
    /\ attended' = TickedAttended
    /\ wasAwake' = mbb.seen
    /\ UNCHANGED <<storage, hold, countedOurs>>

Stays(busy) ==
    /\ Ticked
    /\ ~MaySleep(busy) \/ NextSleep = 0
    /\ up' = TickedUp
    /\ plan' = IF MaySleep(busy) THEN Planned ELSE plan
    /\ UNCHANGED <<clock, mbb, called, ours, heard, adrift, overslept>>

\* doSleep() finds pin 8 high, or the timer is refused.
SleepRefused ==
    /\ Ticked
    /\ MaySleep(FALSE) /\ NextSleep # 0
    /\ plan' = Planned /\ up' = 0
    /\ UNCHANGED <<clock, mbb, called, ours, heard, adrift, overslept>>

\* The length of a sleep of s on the sleep timer, by the MBB's.
Reals(s) == s .. s + (s * DRIFT_PCT) \div 100

\* The whole of it slept, on the timer, with the MBB still asleep.
TimedSleep(s, real) ==
    /\ s = NextSleep /\ real < mbb.left
    /\ plan' = [Aged(Planned, s) EXCEPT !.slept = Planned.haveHib]
    /\ mbb' = [mbb EXCEPT !.left = @ - real]
    /\ UNCHANGED <<called, ours, heard, adrift, overslept>>

\* The MBB comes up in the sleep: by its timer, or before by other means.
CutByMbb(s, real) ==
    /\ real <= mbb.left
    /\ plan' = Aged(Planned, s)
    /\ mbb' = [awake |-> TRUE, left |-> 0, seen |-> TRUE]
    /\ overslept' = (overslept \/ (real = mbb.left /\ Planned.haveHib /\ heard /\ ~adrift))
    /\ ours' = called /\ called' = FALSE
    /\ UNCHANGED <<heard, adrift>>

\* Pin 8 rises with no session behind it: the plan stays open, and the clock
\* it is read by has lost what the timer ran long.
CutByGlitch(s, real) ==
    /\ real \in 1 .. mbb.left - 1
    /\ plan' = Aged(Planned, s)
    /\ mbb' = [mbb EXCEPT !.left = @ - real]
    /\ adrift' = (adrift \/ real > s)
    /\ UNCHANGED <<called, ours, heard, overslept>>

\* doSleep()
SleepTaken ==
    /\ Ticked
    /\ MaySleep(FALSE) /\ NextSleep # 0
    /\ up' = 0
    /\ \E s \in 0 .. NextSleep : \E real \in Reals(s) :
        /\ clock.lag + real - s <= MAX_LAG
        /\ clock' = [clock EXCEPT !.lag = @ + real - s]
        /\ TimedSleep(s, real) \/ CutByMbb(s, real) \/ CutByGlitch(s, real)

SleepTick == (\E busy \in BOOLEAN : Stays(busy)) \/ SleepRefused \/ SleepTaken

-----------------------------------------------------------------------------
(* /api/wake, the clock and a reboot.                                       *)

WakeAsked ==
    /\ ~mbb.seen /\ ~hold
    /\ provoked' = [on |-> TRUE, woke |-> FALSE, waited |-> FALSE]
    /\ hold' = TRUE /\ called' = TRUE
    /\ UNCHANGED <<clock, attended, storage, plan, wasAwake, up, mbb,
                   ours, countedOurs, heard, adrift, overslept>>

\* A hold outlasts the dips of pin 8 in it.
HoldEnds ==
    /\ mbb.awake = mbb.seen
    /\ hold /\ hold' = FALSE
    /\ UNCHANGED <<clock, policy, mbb, history>>

\* PROVOKED_WAIT_MS: fifteen times what the MBB takes to come up.
WaitPasses ==
    /\ provoked.on /\ ~provoked.waited
    /\ provoked' = [provoked EXCEPT !.waited = TRUE]
    /\ called' = FALSE
    /\ UNCHANGED <<clock, attended, storage, plan, wasAwake, up, mbb, hold,
                   ours, countedOurs, heard, adrift, overslept>>

\* A first fix, or one that puts the clock forward: the plan is in its time.
ClockSet ==
    /\ ~clock.valid \/ clock.lag > 0
    /\ clock' = [valid |-> TRUE, lag |-> 0]
    /\ plan' = Aged(plan, clock.lag)
    /\ adrift' = FALSE
    /\ UNCHANGED <<attended, storage, provoked, wasAwake, up, mbb, hold,
                   called, ours, countedOurs, heard, overslept>>

\* Pin 9 is released and everything but the saved attendance is gone, which
\* is of any age if a newer one was not saved; the MBB's session, if there is
\* one, is no longer known for ours.
Reboot ==
    /\ storage' = FALSE /\ plan' = NoPlan /\ provoked' = NotProvoked
    /\ wasAwake' = FALSE /\ up' = 0 /\ hold' = FALSE
    /\ clock' = [valid |-> FALSE, lag |-> 0]
    /\ attended' \in [at : IF attended.dirty THEN Ages ELSE {attended.at}, dirty : {FALSE}]
    /\ heard' = FALSE /\ adrift' = FALSE
    /\ called' = FALSE /\ ours' = FALSE
    /\ mbb' = [mbb EXCEPT !.seen = mbb.awake]
    /\ UNCHANGED <<countedOurs, overslept>>

-----------------------------------------------------------------------------
(* The MBB and time.                                                        *)

MbbKept == <<clock, policy, hold, countedOurs, adrift, overslept>>

\* Up: by its timer, by a key or a charger, or by a wake of ours.
MbbWakes(answers) ==
    /\ ~mbb.awake
    /\ answers => called
    /\ mbb' = [awake |-> TRUE, left |-> 0, seen |-> TRUE]
    /\ ours' = answers /\ called' = FALSE
    /\ UNCHANGED <<heard, MbbKept>>

\* Asleep, announced or not.
MbbSleeps ==
    /\ mbb.awake /\ ~hold
    /\ mbb' = [mbb EXCEPT !.awake = FALSE, !.seen = FALSE, !.left = IF @ = 0 THEN FALLBACK ELSE @]
    /\ heard' = (heard /\ mbb.left # 0)
    /\ ours' = FALSE
    /\ UNCHANGED <<called, MbbKept>>

\* Pin 8 dips in a session that a wake holds up, and comes back.
Dips ==
    /\ mbb.seen /\ hold
    /\ mbb' = [mbb EXCEPT !.seen = FALSE]
    /\ UNCHANGED <<heard, ours, called, MbbKept>>

DipEnds ==
    /\ mbb.awake /\ ~mbb.seen
    /\ mbb' = [mbb EXCEPT !.seen = TRUE]
    /\ UNCHANGED <<heard, ours, called, MbbKept>>

\* A key-on inside the countdown keeps the MBB up.
CountdownEnds ==
    /\ mbb.awake /\ mbb.left > 0
    /\ mbb' = [mbb EXCEPT !.left = 0]
    /\ heard' = FALSE
    /\ UNCHANGED <<ours, called, MbbKept>>

\* A wake the dongle never saw: the timer runs anew.
Unseen ==
    /\ ~mbb.awake /\ mbb.left = 0
    /\ \E h \in Hibs : mbb' = [mbb EXCEPT !.left = h]
    /\ heard' = FALSE
    /\ UNCHANGED <<called, ours, MbbKept>>

\* A unit of time with the board up.  An MBB that is due comes up first; a
\* dip and the seconds between an announcement and the sleep are shorter; the
\* loop has ticked meanwhile.
Passes ==
    /\ mbb.awake = mbb.seen /\ wasAwake = mbb.seen
    /\ mbb.awake = (mbb.left = 0)
    /\ mbb' = IF mbb.left > 0 THEN [mbb EXCEPT !.left = @ - 1] ELSE mbb
    /\ plan' = IF plan.left >= -STALE THEN Aged(plan, 1) ELSE plan
    /\ up' = IF up < GRACE THEN up + 1 ELSE up
    /\ UNCHANGED <<clock, attended, storage, provoked, wasAwake, hold, history>>

DaysPass ==
    /\ attended.at = "recent"
    /\ attended' = [attended EXCEPT !.at = "old"]
    /\ UNCHANGED <<clock, storage, plan, provoked, wasAwake, up, mbb, hold, history>>

Announcement == \E h \in Hibs : Announces(h, h) \/ \E as \in Mangled \cup {0} : Announces(h, as)
Wakes == \E answers \in BOOLEAN : MbbWakes(answers)
DueWakes == mbb.left = 0 /\ Wakes

\* What goes on with the bike and the board left alone.
Alone ==
    \/ SleepTick \/ ClockSet \/ HoldEnds \/ WaitPasses
    \/ Announcement \/ DueWakes \/ MbbSleeps \/ DipEnds \/ Unseen
    \/ Passes \/ DaysPass

Next ==
    \/ Alone \/ Wakes \/ CountdownEnds \/ Dips \/ WakeAsked \/ Reboot
    \/ \E keyOn \in BOOLEAN : AttendedLine(keyOn)
    \/ \E mode \in BOOLEAN : StorageLine(mode)

Spec == Init /\ [][Next]_vars

\* loop() ticks, time and days pass, a clock is found, holds, dips and the
\* MBB's sessions end, and an MBB that is due wakes; a sleep tried again and
\* again is taken, and the board is not for ever in use.
LiveSpec ==
    /\ Spec
    /\ WF_vars(Stays(FALSE)) /\ SF_vars(SleepTaken)
    /\ WF_vars(Passes) /\ WF_vars(DaysPass) /\ WF_vars(ClockSet)
    /\ WF_vars(HoldEnds) /\ WF_vars(WaitPasses) /\ WF_vars(DipEnds)
    /\ WF_vars(DueWakes) /\ SF_vars(MbbSleeps)

-----------------------------------------------------------------------------
(* Properties                                                               *)

TypeOK ==
    /\ clock \in [valid : BOOLEAN, lag : 0 .. MAX_LAG]
    /\ attended \in [at : Ages, dirty : BOOLEAN]
    /\ storage \in BOOLEAN
    /\ plan.haveHib \in BOOLEAN /\ plan.slept \in BOOLEAN
    /\ plan.left \in Int /\ (plan.slept => plan.haveHib)
    /\ provoked \in [on : BOOLEAN, woke : BOOLEAN, waited : BOOLEAN]
    /\ wasAwake \in BOOLEAN /\ up \in 0 .. GRACE /\ hold \in BOOLEAN
    /\ mbb.awake \in BOOLEAN /\ mbb.seen \in BOOLEAN /\ mbb.left \in Nat
    /\ mbb.seen => mbb.awake

\* The board is up when the MBB it heard is due, however late in the wait it
\* went to sleep, however often pin 8 cut the sleep short and however long its
\* timer ran, but for one way: a sleep that a glitch cut had run long already,
\* and the next was planned before the clock was set right.
UpForTheMbb == ~overslept

\* A session the dongle provoked never postpones the sleep, whatever dips of
\* pin 8 it has and however long after the hold it goes on.
OwnSessionsDontCount == ~countedOurs

\* With the bike left alone the board sleeps again and again, whether the
\* MBB's announcements are heard, lost or mangled, and after one that the MBB
\* did not honour.
SleepsAgain == <>[][Alone]_vars => []<><<SleepTaken>>_vars
=============================================================================
