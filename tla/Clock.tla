-------------------------------- MODULE Clock --------------------------------
(***************************************************************************)
(* The wall clock, src/firmware/src/clock.cpp over pure/mbb_time.h: NTP     *)
(* owns it while its fix is fresh, two agreeing stamps of the MBB otherwise.*)
(*                                                                          *)
(* Times are errors: off is the board's clock less the true time, a stamp   *)
(* is what the clock would be off by if set to it, and so is the candidate, *)
(* which counts on with millis().  A sleep lasts longer than clock and      *)
(* millis() are advanced by, so both fall behind.  The SNTP task sets the   *)
(* clock and then calls back; clockMaybeSetFromMbb() is three steps, apart  *)
(* where that task may come between.  A candidate older than the 49 days of *)
(* millis() would only disagree, and is not modelled.                       *)
(***************************************************************************)
EXTENDS Integers

CONSTANTS
    TOL,          \* toleranceS: stamps closer than this tell the same story
    FRESH,        \* NTP_FRESH_S
    WRAP,         \* the width of millis()
    Live,         \* stamps on lines as they are printed, and handled a little late
    False,        \* stamps of old entries, or with a digit mangled
    UNSET,        \* what the clock is off by after power-on
    MAX_DRIFT,    \* bound: what the clock loses in sleep under one candidate
    LOWEST        \* bound: how far behind sleep lets the clock fall

ASSUME ClockAssumption ==
    /\ TOL \in Nat \ {0} /\ FRESH \in Nat \ {0} /\ WRAP \in Nat /\ FRESH < WRAP
    /\ Live \subseteq Int /\ False \subseteq Int /\ UNSET \in Int
    /\ MAX_DRIFT \in Nat /\ LOWEST \in Int

\* No false stamp is near a live one, nor near one that sleep has set back.
ASSUME FarApart ==
    \A l \in Live, f \in False, d \in 0 .. MAX_DRIFT :
        f - (l - d) >= TOL \/ (l - d) - f >= TOL

VARIABLES
    off,        \* the system clock
    source,     \* source
    age,        \* millis() - lastNtpSyncMs, if NTP is the source
    pending,    \* ntpSyncPending
    sntp,       \* the SNTP task: "idle", or between the clock and the call
    consensus,  \* StampConsensus; drift is history: lost in sleep since
    pc, stamp,  \* clockMaybeSetFromMbb(): where it is, and with which stamp
    lies,       \* history: false stamps offered in a row, no more than 2
    doubt       \* history: how the last NTP time may have been spoilt

clockVars == <<off, source, age, pending, sntp, consensus, pc, stamp, lies, doubt>>

Near(a, b) == a - b < TOL /\ b - a < TOL
NoCandidate == [have |-> FALSE, story |-> 0, drift |-> 0]
Candidate(o) == [have |-> TRUE, story |-> o, drift |-> 0]

ClockInit ==
    /\ off = UNSET
    /\ source = "none" /\ age = 0 /\ pending = FALSE /\ sntp = "idle"
    /\ consensus = NoCandidate /\ pc = "idle" /\ stamp = 0
    /\ lies = 0 /\ doubt = {}

\* Mutant of NtpFresh: the age of the fix is not asked for.
NtpFreshForEver == source = "ntp"

NtpFresh == source = "ntp" /\ age < FRESH

-----------------------------------------------------------------------------
(* The SNTP task.                                                           *)

\* The fix is set, and is clean unless a step is already past its look.
SntpSets ==
    /\ sntp = "idle" /\ sntp' = "called"
    /\ off' = 0
    /\ doubt' = IF pc = "set" THEN {"overwritten"} ELSE {}
    /\ UNCHANGED <<source, age, pending, consensus, pc, stamp, lies>>

OnSntpSync ==
    /\ sntp = "called" /\ sntp' = "idle"
    /\ pending' = TRUE
    /\ UNCHANGED <<off, source, age, consensus, pc, stamp, lies, doubt>>

-----------------------------------------------------------------------------
(* The loop task.                                                           *)

ClockTick ==
    /\ pc = "idle" /\ pending
    /\ pending' = FALSE /\ source' = "ntp" /\ age' = 0
    /\ UNCHANGED <<off, sntp, consensus, pc, stamp, lies, doubt>>

\* A stamp that agrees with the clock clears the candidate.
Agrees(o) ==
    /\ source # "none" /\ Near(off, o)
    /\ consensus' = NoCandidate /\ lies' = 0
    /\ UNCHANGED <<pc, stamp>>

\* StampConsensus::offer(): the second of two confirms, any other replaces.
Confirms(o) == consensus.have /\ Near(o, consensus.story)

Offer(o) ==
    /\ source = "none" \/ ~Near(off, o)
    /\ lies' = IF o \notin False THEN 0 ELSE IF lies = 0 THEN 1 ELSE 2
    /\ IF Confirms(o)
       THEN consensus' = NoCandidate /\ pc' = "check" /\ stamp' = o
       ELSE consensus' = Candidate(o) /\ UNCHANGED <<pc, stamp>>

\* A line with a stamp; under a fresh fix it is not even looked at.
Hear(o) ==
    /\ pc = "idle" /\ ~NtpFresh
    /\ Agrees(o) \/ Offer(o)
    /\ UNCHANGED <<off, source, age, pending, sntp, doubt>>

\* Mutant of StandsDown: the flag is not looked at.
StandsDownNever == FALSE

StandsDown == pending

\* The look at the flag.  A clock already set by the SNTP task whose call is
\* yet to come passes it.
CheckPending ==
    /\ pc = "check"
    /\ pc' = IF StandsDown THEN "idle" ELSE "set"
    /\ doubt' = IF ~StandsDown /\ sntp = "called" THEN doubt \cup {"overwritten"} ELSE doubt
    /\ UNCHANGED <<off, source, age, pending, sntp, consensus, stamp, lies>>

SetClock ==
    /\ pc = "set" /\ pc' = "idle"
    /\ off' = stamp /\ source' = "mbb" /\ age' = 0
    /\ UNCHANGED <<pending, sntp, consensus, stamp, lies, doubt>>

\* clockSlept(): the fix no longer outranks.
SleptAge == IF source = "ntp" THEN FRESH ELSE age

\* A sleep of doSleep(), in which clock and millis() lose d.
Slept(d) ==
    /\ pc = "idle"
    /\ off - d >= LOWEST /\ off' = off - d
    /\ consensus.have => consensus.drift + d <= MAX_DRIFT
    /\ consensus' = IF consensus.have
                    THEN [consensus EXCEPT !.story = @ - d, !.drift = @ + d]
                    ELSE consensus
    /\ age' = SleptAge
    /\ doubt' = IF pending \/ sntp = "called" THEN doubt \cup {"slept"} ELSE doubt
    /\ UNCHANGED <<source, pending, sntp, pc, stamp, lies>>

-----------------------------------------------------------------------------
(* Time, and resets.                                                        *)

AgeNext == (age + 1) % WRAP

Tick ==
    /\ source = "ntp"
    /\ age' = AgeNext
    /\ doubt' = IF AgeNext = 0 THEN doubt \cup {"wrapped"} ELSE doubt
    /\ UNCHANGED <<off, source, pending, sntp, consensus, pc, stamp, lies>>

\* The system time may outlive a reset; what the owner knew does not.
ClockReboot ==
    /\ off' \in {off, UNSET}
    /\ source' = "none" /\ age' = 0 /\ pending' = FALSE /\ sntp' = "idle"
    /\ consensus' = NoCandidate /\ pc' = "idle" /\ stamp' = 0
    /\ lies' = 0 /\ doubt' = {}

HearLive == \E o \in Live : Hear(o)
HearFalse == \E o \in False : Hear(o)
SleptSome == \E d \in 1 .. MAX_DRIFT : Slept(d)

\* What goes on in any case: NTP or none, live stamps, time.
Calm ==
    \/ SntpSets \/ OnSntpSync
    \/ ClockTick \/ HearLive \/ CheckPending \/ SetClock \/ Tick

ClockNext == Calm \/ HearFalse \/ SleptSome \/ ClockReboot

ClockSpec == ClockInit /\ [][ClockNext]_clockVars

\* The tasks run, a pass of the loop begins with clockTick(), and time passes;
\* nothing is asked of NTP.  The MBB stamps most lines it prints, so that
\* stamps are also heard while no fix is fresh.
Fairness ==
    /\ WF_clockVars(OnSntpSync) /\ SF_clockVars(ClockTick)
    /\ WF_clockVars(CheckPending) /\ WF_clockVars(SetClock)
    /\ WF_clockVars(Tick)
    /\ SF_clockVars(HearLive)

FairSpec == ClockSpec /\ Fairness

-----------------------------------------------------------------------------
(* Properties.                                                              *)

ClockTypeOK ==
    /\ off \in Int /\ stamp \in Int
    /\ source \in {"none", "mbb", "ntp"}
    /\ age \in 0 .. WRAP - 1
    /\ pending \in BOOLEAN /\ sntp \in {"idle", "called"}
    /\ consensus \in [have : BOOLEAN, story : Int, drift : 0 .. MAX_DRIFT]
    /\ pc \in {"idle", "check", "set"} /\ lies \in 0 .. 2
    /\ doubt \subseteq {"overwritten", "slept", "wrapped"}

\* A clock that passes for freshly set by NTP shows the true time, with three
\* ways out and no fourth: the SNTP task came between the look at its flag
\* and the step, the board slept on a fix not yet promoted, or millis() went
\* all the way round since the fix.
FixTrusted == NtpFresh /\ doubt = {} => off = 0

\* One false stamp never moves the clock, whatever stamps, sleeps and NTP
\* fixes come before it: a step to a false time has two in a row behind it,
\* with none between them that agreed with the clock.
StampTrusted == pc # "idle" /\ stamp \in False => lies = 2

\* Who may be believed, in one: the fix and the stamp.
ClockTrusted == FixTrusted /\ StampTrusted

\* Left with live stamps only, with or without NTP, the clock comes to agree
\* with one of them and stays so, however it was put wrong: no fix passes for
\* fresh for ever.
ComesRight == <>[][Calm]_clockVars => <>[](\E l \in Live : Near(off, l))
=============================================================================
