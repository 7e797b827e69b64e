------------------------------ MODULE TimeProofs ------------------------------
(***************************************************************************)
(* The two parts of the board that keep time, and share a sleep: Clock's    *)
(* types and whom it believes, for any tolerance and freshness; and what    *)
(* the sleep policy promises the MBB and the owner, for every margin, every *)
(* drift the margin covers, and every count the MBB may announce.           *)
(***************************************************************************)
EXTENDS Clock, Sleep, TLAPS

-----------------------------------------------------------------------------
(* The wall clock.                                                          *)

\* A sync on its way to being promoted is right too, unless spoilt; a step
\* past its look at the flag spoils any that comes.
PendingInv ==
    /\ (pending \/ sntp = "called") /\ doubt = {} => off = 0
    /\ pc = "set" /\ (pending \/ sntp = "called") => doubt # {}

\* A candidate that no false stamp made is a live one, set back by sleep at
\* most.
CandidateInv ==
    consensus.have /\ lies = 0 =>
        \E l \in Live, d \in 0 .. MAX_DRIFT : consensus.story = l - d /\ consensus.drift = d

ClockInv == ClockTypeOK /\ FixTrusted /\ StampTrusted /\ PendingInv /\ CandidateInv

\* The types of a consensus with and without a candidate.
LEMMA CandidateType ==
    /\ NoCandidate \in [have : BOOLEAN, story : Int, drift : 0 .. MAX_DRIFT]
    /\ \A o \in Int : Candidate(o) \in [have : BOOLEAN, story : Int, drift : 0 .. MAX_DRIFT]
<1>1. 0 \in 0 .. MAX_DRIFT
  BY ClockAssumption
<1> QED
  BY <1>1 DEF NoCandidate, Candidate

\* What the initial state has.
LEMMA ClockInitially == ClockInit => ClockInv
<1> SUFFICES ASSUME ClockInit PROVE ClockInv
  OBVIOUS
<1> USE ClockAssumption
<1>1. 0 \in 0 .. WRAP - 1
  OBVIOUS
<1>2. ClockTypeOK
  <2>1. consensus \in [have : BOOLEAN, story : Int, drift : 0 .. MAX_DRIFT]
    BY CandidateType DEF ClockInit
  <2>2. off \in Int /\ stamp \in Int /\ age \in 0 .. WRAP - 1 /\ lies \in 0 .. 2
    BY <1>1 DEF ClockInit
  <2>3. pending \in BOOLEAN
    BY DEF ClockInit
  <2>4. /\ source \in {"none", "mbb", "ntp"} /\ sntp \in {"idle", "called"}
        /\ pc \in {"idle", "check", "set"} /\ doubt \subseteq {"overwritten", "slept", "wrapped"}
    BY DEF ClockInit
  <2> QED
    BY <1>1, <2>1, <2>2, <2>3, <2>4 DEF ClockTypeOK
<1>3. FixTrusted /\ StampTrusted /\ PendingInv /\ CandidateInv
  BY DEF ClockInit, FixTrusted, NtpFresh, StampTrusted, PendingInv, CandidateInv, NoCandidate
<1> QED
  BY <1>2, <1>3 DEF ClockInv

\* The types.
LEMMA TypeOKStep == ClockInv /\ [ClockNext]_clockVars => ClockTypeOK'
<1> SUFFICES ASSUME ClockInv, [ClockNext]_clockVars PROVE ClockTypeOK'
  OBVIOUS
<1> USE ClockAssumption DEF ClockInv, ClockTypeOK
<1>0. 0 \in 0 .. WRAP - 1 /\ FRESH \in 0 .. WRAP - 1 /\ 0 \in 0 .. MAX_DRIFT
  OBVIOUS
<1>1. CASE SntpSets
  BY <1>1 DEF SntpSets
<1>2. CASE OnSntpSync
  BY <1>2 DEF OnSntpSync
<1>3. CASE ClockTick
  BY <1>0, <1>3 DEF ClockTick
<1>4. ASSUME NEW o \in Live \cup False, Hear(o) PROVE ClockTypeOK'
  <2>1. CASE Agrees(o)
    BY <1>4, <2>1, CandidateType DEF Hear, Agrees
  <2>2. CASE Offer(o)
    <3>1. consensus' \in [have : BOOLEAN, story : Int, drift : 0 .. MAX_DRIFT]
      BY <2>2, CandidateType, o \in Int DEF Offer
    <3> QED
      BY <1>4, <2>2, <3>1 DEF Hear, Offer
  <2> QED
    BY <1>4, <2>1, <2>2 DEF Hear
<1>5. CASE CheckPending
  BY <1>5 DEF CheckPending
<1>6. CASE SetClock
  BY <1>6 DEF SetClock
<1>7. ASSUME NEW d \in 1 .. MAX_DRIFT, Slept(d) PROVE ClockTypeOK'
  <2>1. consensus' \in [have : BOOLEAN, story : Int, drift : 0 .. MAX_DRIFT]
    <3>1. CASE consensus.have
      <4>1. consensus' = [consensus EXCEPT !.story = @ - d, !.drift = @ + d]
        BY <1>7, <3>1 DEF Slept
      <4>2. consensus.story - d \in Int /\ consensus.drift + d \in 0 .. MAX_DRIFT
        BY <1>7, <3>1 DEF Slept
      <4> QED
        BY <4>1, <4>2
    <3>2. CASE ~consensus.have
      BY <1>7, <3>2 DEF Slept
    <3> QED
      BY <3>1, <3>2
  <2> QED
    BY <1>0, <1>7, <2>1 DEF Slept, SleptAge
<1>8. CASE Tick
  BY <1>8 DEF Tick, AgeNext
<1>9. CASE ClockReboot
  <2>1. consensus' \in [have : BOOLEAN, story : Int, drift : 0 .. MAX_DRIFT]
    BY <1>9, CandidateType DEF ClockReboot
  <2>2. off' \in Int /\ stamp' \in Int /\ age' \in 0 .. WRAP - 1 /\ lies' \in 0 .. 2
    BY <1>0, <1>9 DEF ClockReboot
  <2>3. pending' \in BOOLEAN
    BY <1>9 DEF ClockReboot
  <2>4. /\ source' \in {"none", "mbb", "ntp"} /\ sntp' \in {"idle", "called"}
        /\ pc' \in {"idle", "check", "set"} /\ doubt' \subseteq {"overwritten", "slept", "wrapped"}
    BY <1>9 DEF ClockReboot
  <2> QED
    BY <2>1, <2>2, <2>3, <2>4
<1>10. CASE UNCHANGED clockVars
  BY <1>10 DEF clockVars
<1> QED
  BY <1>1, <1>2, <1>3, <1>4, <1>5, <1>6, <1>7, <1>8, <1>9, <1>10
  DEF ClockNext, Calm, HearLive, HearFalse, SleptSome

\* The fix, on its way and promoted: only a promotion makes one fresh, and
\* each way to spoil it leaves its mark.
LEMMA FixStep == ClockInv /\ [ClockNext]_clockVars => FixTrusted' /\ PendingInv'
<1> SUFFICES ASSUME ClockInv, [ClockNext]_clockVars PROVE FixTrusted' /\ PendingInv'
  OBVIOUS
<1> USE ClockAssumption DEF ClockInv, ClockTypeOK, FixTrusted, PendingInv, NtpFresh
<1>1. CASE SntpSets
  BY <1>1 DEF SntpSets
<1>2. CASE OnSntpSync
  BY <1>2 DEF OnSntpSync
<1>3. CASE ClockTick
  BY <1>3 DEF ClockTick
<1>4. ASSUME NEW o \in Live \cup False, Hear(o) PROVE FixTrusted' /\ PendingInv'
  BY <1>4 DEF Hear, Agrees, Offer
<1>5. CASE CheckPending
  BY <1>5 DEF CheckPending, StandsDown
<1>6. CASE SetClock
  BY <1>6 DEF SetClock
<1>7. ASSUME NEW d \in 1 .. MAX_DRIFT, Slept(d) PROVE FixTrusted' /\ PendingInv'
  BY <1>7 DEF Slept, SleptAge
<1>8. CASE Tick
  BY <1>8 DEF Tick, AgeNext
<1>9. CASE ClockReboot
  BY <1>9 DEF ClockReboot
<1>10. CASE UNCHANGED clockVars
  BY <1>10 DEF clockVars
<1> QED
  BY <1>1, <1>2, <1>3, <1>4, <1>5, <1>6, <1>7, <1>8, <1>9, <1>10
  DEF ClockNext, Calm, HearLive, HearFalse, SleptSome

\* The stamp: a false one that is confirmed meets a candidate which only a
\* false one can have made.
LEMMA StampStep == ClockInv /\ [ClockNext]_clockVars => StampTrusted' /\ CandidateInv'
<1> SUFFICES ASSUME ClockInv, [ClockNext]_clockVars PROVE StampTrusted' /\ CandidateInv'
  OBVIOUS
<1> USE ClockAssumption DEF ClockInv, ClockTypeOK, StampTrusted, CandidateInv
<1>1. CASE SntpSets
  BY <1>1 DEF SntpSets
<1>2. CASE OnSntpSync
  BY <1>2 DEF OnSntpSync
<1>3. CASE ClockTick
  BY <1>3 DEF ClockTick
<1>4. ASSUME NEW o \in Live \cup False, Hear(o) PROVE StampTrusted' /\ CandidateInv'
  <2>1. CASE Agrees(o)
    BY <1>4, <2>1 DEF Hear, Agrees, NoCandidate
  <2>2. CASE Offer(o) /\ Confirms(o)
    <3>1. o \in False /\ lies = 0 => FALSE
      BY <2>2, FarApart DEF Confirms, Near
    <3> QED
      BY <1>4, <2>2, <3>1 DEF Hear, Offer, NoCandidate
  <2>3. CASE Offer(o) /\ ~Confirms(o)
    <3>1. pc' = "idle" /\ consensus' = Candidate(o)
      BY <1>4, <2>3 DEF Hear, Offer
    <3>2. lies' = 0 => o \in Live
      BY <2>3 DEF Offer
    <3>3. lies' = 0 => o = o - 0 /\ 0 \in 0 .. MAX_DRIFT
      BY <3>2
    <3> QED
      BY <3>1, <3>2, <3>3 DEF Candidate
  <2> QED
    BY <1>4, <2>1, <2>2, <2>3 DEF Hear
<1>5. CASE CheckPending
  BY <1>5 DEF CheckPending
<1>6. CASE SetClock
  BY <1>6 DEF SetClock
<1>7. ASSUME NEW d \in 1 .. MAX_DRIFT, Slept(d) PROVE StampTrusted' /\ CandidateInv'
  <2>1. StampTrusted'
    BY <1>7 DEF Slept
  <2>2. CASE consensus.have /\ lies = 0
    <3>1. PICK l \in Live, e \in 0 .. MAX_DRIFT :
             consensus.story = l - e /\ consensus.drift = e
      BY <2>2
    <3>2. consensus'.story = l - (e + d) /\ consensus'.drift = e + d /\ e + d \in 0 .. MAX_DRIFT
      BY <1>7, <2>2, <3>1 DEF Slept
    <3> QED
      BY <2>1, <3>2
  <2>3. CASE ~(consensus.have /\ lies = 0)
    BY <1>7, <2>1, <2>3 DEF Slept
  <2> QED
    BY <2>2, <2>3
<1>8. CASE Tick
  BY <1>8 DEF Tick
<1>9. CASE ClockReboot
  BY <1>9 DEF ClockReboot, NoCandidate
<1>10. CASE UNCHANGED clockVars
  BY <1>10 DEF clockVars
<1> QED
  BY <1>1, <1>2, <1>3, <1>4, <1>5, <1>6, <1>7, <1>8, <1>9, <1>10
  DEF ClockNext, Calm, HearLive, HearFalse, SleptSome

\* The inductive invariant of the clock.
THEOREM ClockInductive == ClockSpec => []ClockInv
<1>1. ClockInv /\ [ClockNext]_clockVars => ClockInv'
  BY TypeOKStep, FixStep, StampStep DEF ClockInv
<1> QED
  BY ClockInitially, <1>1, PTL DEF ClockSpec

\* A fix that passes for fresh is right but for the three ways named, and one
\* false stamp never moves the clock, however long the board sleeps, whatever
\* the tolerance and the age at which a fix goes stale.
THEOREM WhomItBelieves == ClockSpec => []ClockTrusted
<1>1. ClockInv => ClockTrusted
  BY DEF ClockInv, ClockTrusted
<1> QED
  BY ClockInductive, <1>1, PTL

-----------------------------------------------------------------------------
(* The sleep policy.                                                        *)

\* A plan is a plan, and one that is marked has an announcement.
PlanOK(p) ==
    /\ p \in [haveHib : BOOLEAN, left : Int, slept : BOOLEAN]
    /\ p.slept => p.haveHib

\* The history is of marks that are set or not.
Marks ==
    /\ called \in BOOLEAN /\ ours \in BOOLEAN /\ countedOurs \in BOOLEAN
    /\ heard \in BOOLEAN /\ adrift \in BOOLEAN /\ overslept \in BOOLEAN

Types ==
    /\ clock \in [valid : BOOLEAN, lag : 0 .. MAX_LAG]
    /\ attended \in [at : Ages, dirty : BOOLEAN]
    /\ storage \in BOOLEAN /\ PlanOK(plan)
    /\ provoked \in [on : BOOLEAN, woke : BOOLEAN, waited : BOOLEAN]
    /\ wasAwake \in BOOLEAN /\ up \in 0 .. GRACE /\ hold \in BOOLEAN
    /\ mbb \in [awake : BOOLEAN, left : Nat, seen : BOOLEAN]
    /\ mbb.seen => mbb.awake
    /\ Marks

\* A plan that is the MBB's own and not slept yet ends no later than the MBB's
\* sleep does; after a glitch it may be late by what the clock is behind.
PlanInTime ==
    heard /\ plan.haveHib /\ ~plan.slept /\ ~(mbb.awake /\ mbb.left = 0)
        => /\ plan.left <= mbb.left + clock.lag
           /\ ~adrift => plan.left <= mbb.left

\* Pin 8 dips only under a hold; a wake that has not been answered is still
\* waited for; and a session of ours is marked as one for as long as it lasts.
OwnMarked ==
    /\ mbb.awake /\ ~mbb.seen => hold
    /\ called => ~mbb.awake /\ provoked = [on |-> TRUE, woke |-> FALSE, waited |-> FALSE]
    /\ ours => mbb.awake /\ provoked.on

\* The inductive invariant.
IInv == Types /\ PlanInTime /\ OwnMarked /\ ~overslept /\ ~countedOurs

-----------------------------------------------------------------------------
\* A sleep that lasts as long as its timer may drift is over before what the
\* margin was taken from.
LEMMA MarginCoversDrift ==
  ASSUME NEW L \in Nat, L > 0, NEW s \in Nat, 100 * s <= L * (100 - MARGIN_PCT)
  PROVE  s + (s * DRIFT_PCT) \div 100 < L
<1> DEFINE q == (s * DRIFT_PCT) \div 100
<1>1. MARGIN_PCT \in 1 .. 99 /\ DRIFT_PCT \in 0 .. MARGIN_PCT
  BY SleepAssumption
<1>2. s * DRIFT_PCT \in Nat /\ s * DRIFT_PCT <= s * MARGIN_PCT
  BY <1>1
<1>3. q \in Nat /\ 100 * q <= s * DRIFT_PCT
  BY <1>2
<1> HIDE DEF q
<1>4. 100 * (s + q) <= s * (100 + MARGIN_PCT)
  BY <1>1, <1>2, <1>3
<1>5. 100 * s * (100 + MARGIN_PCT) <= L * (100 - MARGIN_PCT) * (100 + MARGIN_PCT)
  BY <1>1
<1>6. L * (100 - MARGIN_PCT) * (100 + MARGIN_PCT) < 10000 * L
  BY <1>1
<1>7. 100 * (100 * (s + q)) <= 100 * (s * (100 + MARGIN_PCT))
  BY <1>1, <1>3, <1>4
<1>8. 10000 * (s + q) < 10000 * L
  BY <1>1, <1>3, <1>5, <1>6, <1>7
<1>9. s + q < L
  BY <1>3, <1>8
<1> QED
  BY <1>9 DEF q

\* A sleep is no longer than what the margin leaves of the plan.
LEMMA SleepIsShort ==
  ASSUME NEW until \in Int, SleepSeconds(until) # 0
  PROVE  /\ SleepSeconds(until) \in Nat /\ until > 0
         /\ 100 * SleepSeconds(until) <= until * (100 - MARGIN_PCT)
<1> DEFINE p == until * (100 - MARGIN_PCT)
           s == p \div 100
<1>1. MARGIN_PCT \in 1 .. 99 /\ MIN \in Nat \ {0}
  BY SleepAssumption
<1>2. p \in Int
  BY <1>1
<1>3. SleepSeconds(until) = s /\ s >= MIN
  BY DEF SleepSeconds
<1> HIDE DEF p
<1>4. s \in Int /\ 100 * s <= p
  BY <1>2
<1> HIDE DEF s
<1>5. p > 0
  BY <1>1, <1>2, <1>3, <1>4
<1>6. until > 0
  BY <1>1, <1>5 DEF p
<1> QED
  BY <1>1, <1>3, <1>4, <1>6 DEF p

\* Forgetting and ageing leave a plan a plan.
LEMMA PlansTyped ==
  ASSUME PlanOK(plan)
  PROVE  /\ PlanOK(Planned) /\ Planned \in {plan, NoPlan}
         /\ \A p : PlanOK(p) => \A n \in Int : PlanOK(Aged(p, n))
         /\ \A p : PlanOK(p) => \A n \in Int :
                Aged(p, n).haveHib = p.haveHib /\ Aged(p, n).slept = p.slept
                /\ (p.haveHib => Aged(p, n).left = p.left - n)
<1>1. PlanOK(NoPlan)
  BY DEF PlanOK, NoPlan
<1>2. Planned \in {plan, NoPlan}
  BY DEF Planned
<1>3. ASSUME NEW p, PlanOK(p), NEW n \in Int
      PROVE  /\ PlanOK(Aged(p, n))
             /\ Aged(p, n).haveHib = p.haveHib /\ Aged(p, n).slept = p.slept
             /\ (p.haveHib => Aged(p, n).left = p.left - n)
  BY <1>3 DEF PlanOK, Aged
<1> QED
  BY <1>1, <1>2, <1>3

\* What a tick may not sleep past.
LEMMA NextSleepShort ==
  ASSUME IInv, NextSleep # 0
  PROVE  /\ NextSleep \in Nat
         /\ Planned.haveHib =>
               /\ ~Planned.slept /\ Planned = plan /\ plan.left > 0
               /\ 100 * NextSleep <= plan.left * (100 - MARGIN_PCT)
<1>1. PlanOK(Planned) /\ Planned \in {plan, NoPlan} /\ PlanOK(plan)
  BY PlansTyped DEF IInv, Types
<1>2. CASE Planned.haveHib
  <2>1. ~Planned.slept /\ NextSleep = SleepSeconds(Planned.left)
    BY <1>2 DEF NextSleep
  <2>2. Planned = plan
    BY <1>1, <1>2 DEF NoPlan
  <2>3. plan.left \in Int
    BY <1>1 DEF PlanOK
  <2> QED
    BY <2>1, <2>2, <2>3, SleepIsShort
<1>3. CASE ~Planned.haveHib
  <2>1. NextSleep = SleepSeconds(FALLBACK) /\ FALLBACK \in Int
    BY <1>3, SleepAssumption DEF NextSleep
  <2> QED
    BY <1>3, <2>1, SleepIsShort
<1> QED
  BY <1>2, <1>3

\* What the tick does to the marks.
LEMMA TickedMarks ==
  ASSUME IInv, Ticked
  PROVE  /\ provoked' \in [on : BOOLEAN, woke : BOOLEAN, waited : BOOLEAN]
         /\ attended' \in [at : Ages, dirty : BOOLEAN]
         /\ wasAwake' \in BOOLEAN /\ TickedUp \in 0 .. GRACE
         /\ ours => provoked'.on
         /\ called => provoked' = provoked
<1>1. provoked' \in [on : BOOLEAN, woke : BOOLEAN, waited : BOOLEAN]
  BY DEF IInv, Types, Ticked, TickedProvoked, NotProvoked
<1>2. attended' \in [at : Ages, dirty : BOOLEAN]
  BY DEF IInv, Types, Ticked, TickedAttended, Ages
<1>3. wasAwake' \in BOOLEAN /\ TickedUp \in 0 .. GRACE
  BY SleepAssumption DEF IInv, Types, Ticked, TickedUp
<1>4. ours => provoked'.on
  BY DEF IInv, Types, OwnMarked, Ticked, TickedProvoked, SessionOver
<1>5. called => provoked' = provoked
  BY DEF IInv, Types, OwnMarked, Ticked, TickedProvoked, SessionOver
<1> QED
  BY <1>1, <1>2, <1>3, <1>4, <1>5

\* All is in order when the board starts.
LEMMA Initially == Init => IInv
<1> SUFFICES ASSUME Init PROVE IInv
  OBVIOUS
<1>1. PlanOK(plan) /\ provoked \in [on : BOOLEAN, woke : BOOLEAN, waited : BOOLEAN]
      /\ clock \in [valid : BOOLEAN, lag : 0 .. MAX_LAG] /\ up \in 0 .. GRACE
  BY SleepAssumption DEF Init, AsBooted, NoPlan, NotProvoked, PlanOK
<1>2. /\ storage = FALSE /\ wasAwake = FALSE /\ hold = FALSE /\ called = FALSE /\ ours = FALSE
      /\ countedOurs = FALSE /\ heard = FALSE /\ adrift = FALSE /\ overslept = FALSE
  BY DEF Init, AsBooted
<1>3. /\ attended \in [at : Ages, dirty : BOOLEAN]
      /\ mbb \in [awake : BOOLEAN, left : Nat, seen : BOOLEAN] /\ ~mbb.awake /\ ~mbb.seen
  BY SleepAssumption DEF Init
<1>4. Marks
  BY <1>2 DEF Marks
<1> QED
  BY <1>1, <1>2, <1>3, <1>4 DEF IInv, Types, PlanInTime, OwnMarked

\* Every step sets the marks or leaves them.
LEMMA MarksInv ==
  ASSUME IInv, [Next]_vars
  PROVE  Marks'
<1>1. Marks
  BY DEF IInv, Types
<1>2. CASE Announcement
  <2>1. heard' \in BOOLEAN /\ adrift' \in {adrift, FALSE} /\ UNCHANGED <<called, ours, countedOurs, overslept>>
    BY <1>1, <1>2 DEF Announcement, Announces, Marks
  <2> QED
    BY <1>1, <2>1 DEF Marks
<1>3. CASE \E keyOn \in BOOLEAN : AttendedLine(keyOn)
  <2>1. countedOurs' \in BOOLEAN /\ UNCHANGED <<called, ours, heard, adrift, overslept>>
    BY <1>3 DEF AttendedLine
  <2> QED
    BY <1>1, <2>1 DEF Marks
<1>4. CASE UNCHANGED history
  BY <1>1, <1>4 DEF history, Marks
<1>5. CASE SleepTaken
  <2>1. overslept' \in BOOLEAN /\ ours' \in {ours, called} /\ called' \in {called, FALSE}
        /\ adrift' \in BOOLEAN /\ UNCHANGED <<heard, countedOurs>>
    BY <1>1, <1>5 DEF SleepTaken, Ticked, TimedSleep, CutByMbb, CutByGlitch, Marks
  <2> QED
    BY <1>1, <2>1 DEF Marks
<1>6. CASE Wakes
  <2>1. ours' \in BOOLEAN /\ called' = FALSE /\ UNCHANGED <<countedOurs, heard, adrift, overslept>>
    BY <1>6 DEF Wakes, MbbWakes, MbbKept
  <2> QED
    BY <1>1, <2>1 DEF Marks
<1>7. CASE MbbSleeps
  <2>1. heard' \in BOOLEAN /\ ours' = FALSE /\ UNCHANGED <<called, countedOurs, adrift, overslept>>
    BY <1>7 DEF MbbSleeps, MbbKept
  <2> QED
    BY <1>1, <2>1 DEF Marks
<1>8. CASE WakeAsked \/ WaitPasses \/ Reboot \/ CountdownEnds \/ Unseen \/ ClockSet
  <2>1. /\ called' \in {called, TRUE, FALSE} /\ ours' \in {ours, FALSE} /\ heard' \in {heard, FALSE}
        /\ adrift' \in {adrift, FALSE} /\ UNCHANGED <<countedOurs, overslept>>
    BY <1>8 DEF WakeAsked, WaitPasses, Reboot, CountdownEnds, Unseen, ClockSet, MbbKept
  <2> QED
    BY <1>1, <2>1 DEF Marks
<1>9. CASE (\E busy \in BOOLEAN : Stays(busy)) \/ SleepRefused \/ Dips \/ DipEnds
  <2>1. UNCHANGED <<called, ours, countedOurs, heard, adrift, overslept>>
    BY <1>9 DEF Stays, SleepRefused, Ticked, Dips, DipEnds, MbbKept
  <2> QED
    BY <1>1, <2>1 DEF Marks
<1> QED
  BY <1>2, <1>3, <1>4, <1>5, <1>6, <1>7, <1>8, <1>9
     DEF Next, Alone, SleepTick, DueWakes, StorageLine, HoldEnds, ClockSet, Passes, DaysPass, vars

\* What the MBB says changes the plan only by its own count.
LEMMA LinesInv ==
  ASSUME IInv, Marks', Announcement \/ (\E keyOn \in BOOLEAN : AttendedLine(keyOn))
               \/ (\E mode \in BOOLEAN : StorageLine(mode))
  PROVE  IInv'
<1>1. ASSUME NEW h \in Hibs, NEW as \in Nat, Announces(h, as)
      PROVE  IInv'
  <2>1. h \in Nat
    BY SleepAssumption
  <2>2. PlanOK(plan')
    <3>1. PlanOK(plan) /\ PlanOK(NotedPlan(as))
      BY DEF IInv, Types, PlanOK, NotedPlan
    <3>2. plan' \in {plan, NotedPlan(as)}
      BY <1>1 DEF Announces
    <3> QED
      BY <3>1, <3>2
  <2>3. /\ mbb' \in [awake : BOOLEAN, left : Nat, seen : BOOLEAN]
        /\ mbb'.awake = mbb.awake /\ mbb'.seen = mbb.seen /\ mbb'.left = h
    BY <1>1, <2>1 DEF Announces, IInv, Types
  <2>4. heard' \in BOOLEAN /\ adrift' \in BOOLEAN /\ (heard' => plan'.left = h)
    BY <1>1 DEF Announces, NotedPlan, IInv, Types, Marks
  <2>5. UNCHANGED <<clock, attended, storage, provoked, wasAwake, up, hold,
                    called, ours, countedOurs, overslept>>
    BY <1>1 DEF Announces
  <2>6. Types'
    BY <2>2, <2>3, <2>4, <2>5 DEF IInv, Types
  <2>7. PlanInTime'
    <3>1. clock'.lag \in Nat
      BY <2>5, SleepAssumption DEF IInv, Types
    <3> QED
      BY <2>1, <2>3, <2>4, <3>1 DEF PlanInTime
  <2>8. OwnMarked'
    BY <2>3, <2>5 DEF IInv, OwnMarked
  <2> QED
    BY <2>5, <2>6, <2>7, <2>8 DEF IInv
<1>2. ASSUME NEW keyOn \in BOOLEAN, AttendedLine(keyOn)
      PROVE  IInv'
  <2>1. /\ UNCHANGED <<clock, plan, provoked, wasAwake, up, mbb, hold, called, ours, heard, adrift, overslept>>
        /\ storage' \in BOOLEAN
    BY <1>2 DEF AttendedLine, IInv, Types
  <2>2. attended' \in [at : Ages, dirty : BOOLEAN]
    BY <1>2 DEF AttendedLine, IInv, Types, Ages
  <2>3. ~countedOurs' /\ countedOurs' \in BOOLEAN
    BY <1>2 DEF AttendedLine, IInv, OwnMarked
  <2>4. Types'
    BY <2>1, <2>2, <2>3 DEF IInv, Types, PlanOK
  <2> QED
    BY <2>1, <2>3, <2>4 DEF IInv, PlanInTime, OwnMarked
<1>3. ASSUME NEW mode \in BOOLEAN, StorageLine(mode)
      PROVE  IInv'
  BY <1>3 DEF StorageLine, history, IInv, Types, PlanOK, PlanInTime, OwnMarked
<1> QED
  BY <1>1, <1>2, <1>3, SleepAssumption DEF Announcement

\* A tick that does not sleep keeps the plan or forgets it.
LEMMA StaysInv ==
  ASSUME IInv, Marks', (\E busy \in BOOLEAN : Stays(busy)) \/ SleepRefused
  PROVE  IInv'
<1>1. Ticked /\ up' \in 0 .. GRACE
      /\ plan' \in {plan, Planned} /\ UNCHANGED <<clock, mbb, called, ours, heard, adrift, overslept>>
  <2>1. 0 \in 0 .. GRACE
    BY SleepAssumption
  <2>2. ASSUME NEW busy \in BOOLEAN, Stays(busy)
        PROVE  /\ Ticked /\ up' = TickedUp /\ plan' \in {plan, Planned}
               /\ UNCHANGED <<clock, mbb, called, ours, heard, adrift, overslept>>
    BY <2>2 DEF Stays
  <2>3. CASE SleepRefused
    BY <2>1, <2>3 DEF SleepRefused
  <2> QED
    BY <2>2, <2>3, TickedMarks
<1>2. /\ provoked' \in [on : BOOLEAN, woke : BOOLEAN, waited : BOOLEAN]
      /\ attended' \in [at : Ages, dirty : BOOLEAN] /\ wasAwake' \in BOOLEAN
      /\ ours => provoked'.on
      /\ called => provoked' = provoked
      /\ UNCHANGED <<storage, hold, countedOurs>>
  BY <1>1, TickedMarks DEF Ticked
<1>3. PlanOK(plan') /\ plan' \in {plan, NoPlan}
  BY <1>1, PlansTyped DEF IInv, Types
<1>4. Types'
  BY <1>1, <1>2, <1>3 DEF IInv, Types
<1>5. PlanInTime'
  BY <1>1, <1>3 DEF IInv, PlanInTime, NoPlan
<1>6. OwnMarked'
  BY <1>1, <1>2 DEF IInv, OwnMarked
<1> QED
  BY <1>1, <1>2, <1>4, <1>5, <1>6 DEF IInv

\* A sleep ends before the MBB that was heard is due, and a wake of ours that it
\* answers in the sleep is still marked.
LEMMA SleepTakenInv ==
  ASSUME IInv, Marks', SleepTaken
  PROVE  IInv'
<1>1. /\ Ticked /\ MaySleep(FALSE) /\ NextSleep # 0 /\ up' = 0
  BY DEF SleepTaken
<1>0. PICK s \in 0 .. NextSleep : \E real \in Reals(s) :
        /\ clock.lag + real - s <= MAX_LAG
        /\ clock' = [clock EXCEPT !.lag = @ + real - s]
        /\ TimedSleep(s, real) \/ CutByMbb(s, real) \/ CutByGlitch(s, real)
  BY DEF SleepTaken
<1>2. PICK real \in Reals(s) :
        /\ clock.lag + real - s <= MAX_LAG
        /\ clock' = [clock EXCEPT !.lag = @ + real - s]
        /\ TimedSleep(s, real) \/ CutByMbb(s, real) \/ CutByGlitch(s, real)
  BY <1>0
<1>3. /\ provoked' \in [on : BOOLEAN, woke : BOOLEAN, waited : BOOLEAN]
      /\ attended' \in [at : Ages, dirty : BOOLEAN] /\ wasAwake' \in BOOLEAN
      /\ ours => provoked'.on
      /\ called => provoked' = provoked
      /\ UNCHANGED <<storage, hold, countedOurs>>
  BY <1>1, TickedMarks DEF Ticked
<1>4. ~mbb.awake /\ ~mbb.seen /\ ~hold /\ ~ours
  BY <1>1 DEF MaySleep, IInv, OwnMarked
<1>5. /\ NextSleep \in Nat /\ s \in Nat /\ s <= NextSleep
      /\ Planned.haveHib =>
            ~Planned.slept /\ Planned = plan /\ plan.left > 0
            /\ 100 * NextSleep <= plan.left * (100 - MARGIN_PCT)
  BY <1>0, <1>1, NextSleepShort
<1>6. /\ real \in Nat /\ real >= s /\ real <= s + (s * DRIFT_PCT) \div 100
  <2>1. DRIFT_PCT \in Nat
    BY SleepAssumption
  <2>2. (s * DRIFT_PCT) \div 100 \in Nat
    BY <1>5, <2>1
  <2> QED
    BY <1>2, <1>5, <2>2 DEF Reals
<1>7. Planned.haveHib => real < plan.left
  <2> SUFFICES ASSUME Planned.haveHib PROVE real < plan.left
    OBVIOUS
  <2>1. plan.left \in Nat /\ plan.left > 0
    BY <1>5 DEF IInv, Types, PlanOK
  <2>2. 100 * s <= plan.left * (100 - MARGIN_PCT)
    <3>1. 100 * s <= 100 * NextSleep
      BY <1>5
    <3>2. plan.left * (100 - MARGIN_PCT) \in Int
      BY <2>1, SleepAssumption
    <3> QED
      BY <1>5, <3>1, <3>2
  <2>3. s + (s * DRIFT_PCT) \div 100 < plan.left
    BY <1>5, <2>1, <2>2, MarginCoversDrift
  <2>4. (s * DRIFT_PCT) \div 100 \in Int
    BY <1>5, SleepAssumption
  <2> QED
    BY <1>5, <1>6, <2>1, <2>3, <2>4
<1>8. /\ clock' \in [valid : BOOLEAN, lag : 0 .. MAX_LAG]
      /\ clock.lag \in Nat /\ clock'.lag = clock.lag + real - s
  <2>1. clock.lag \in Nat /\ real - s \in Nat /\ MAX_LAG \in Nat
    BY <1>5, <1>6, SleepAssumption DEF IInv, Types
  <2>2. clock.lag + real - s \in 0 .. MAX_LAG
    BY <1>2, <1>5, <1>6, <2>1
  <2>3. /\ clock' \in [valid : BOOLEAN, lag : 0 .. MAX_LAG]
        /\ clock'.lag = clock.lag + real - s
    BY <1>2, <2>2 DEF IInv, Types
  <2> QED
    BY <2>1, <2>3
<1>9. /\ PlanOK(Planned) /\ PlanOK(Aged(Planned, s)) /\ Aged(Planned, s).haveHib = Planned.haveHib
      /\ Planned.haveHib => Aged(Planned, s).left = Planned.left - s
  BY <1>5, PlansTyped DEF IInv, Types
<1>10. CASE TimedSleep(s, real)
  <2>1. /\ real < mbb.left /\ plan' = [Aged(Planned, s) EXCEPT !.slept = Planned.haveHib]
        /\ mbb' = [mbb EXCEPT !.left = @ - real]
        /\ UNCHANGED <<called, ours, heard, adrift, overslept>>
    BY <1>10 DEF TimedSleep
  <2>2. PlanOK(plan') /\ (plan'.haveHib => plan'.slept)
    BY <1>9, <2>1 DEF PlanOK
  <2>3. mbb' \in [awake : BOOLEAN, left : Nat, seen : BOOLEAN]
        /\ mbb'.awake = mbb.awake /\ mbb'.seen = mbb.seen
    BY <1>6, <2>1 DEF IInv, Types
  <2>4. Types'
    BY <1>1, <1>3, <1>8, <2>1, <2>2, <2>3, SleepAssumption DEF IInv, Types
  <2> QED
    BY <1>3, <2>1, <2>2, <2>3, <2>4 DEF IInv, PlanInTime, OwnMarked
<1>11. CASE CutByMbb(s, real)
  <2>1. /\ plan' = Aged(Planned, s)
        /\ mbb' = [awake |-> TRUE, left |-> 0, seen |-> TRUE]
        /\ overslept' = (overslept \/ (real = mbb.left /\ Planned.haveHib /\ heard /\ ~adrift))
        /\ ours' = called /\ called' = FALSE
        /\ UNCHANGED <<heard, adrift>>
    BY <1>11 DEF CutByMbb
  <2>2. ~(real = mbb.left /\ Planned.haveHib /\ heard /\ ~adrift)
    <3> SUFFICES ASSUME Planned.haveHib, heard, ~adrift PROVE real < mbb.left
      BY <1>6 DEF IInv, Types
    <3>1. plan.left <= mbb.left
      BY <1>4, <1>5 DEF IInv, PlanInTime
    <3>2. plan.left \in Int /\ mbb.left \in Int
      BY DEF IInv, Types, PlanOK
    <3> QED
      BY <1>6, <1>7, <3>1, <3>2
  <2>3. ~overslept' /\ overslept' \in BOOLEAN
    BY <2>1, <2>2 DEF IInv
  <2>6. PlanOK(plan')
    BY <1>9, <2>1
  <2>4. Types'
    BY <1>1, <1>3, <1>8, <2>1, <2>3, <2>6, SleepAssumption DEF IInv, Types
  <2>5. ours' => provoked'.on
    BY <1>3, <2>1 DEF IInv, OwnMarked
  <2> QED
    BY <1>3, <2>1, <2>3, <2>4, <2>5 DEF IInv, PlanInTime, OwnMarked
<1>12. CASE CutByGlitch(s, real)
  <2>1. /\ real \in 1 .. mbb.left - 1 /\ plan' = Aged(Planned, s)
        /\ mbb' = [mbb EXCEPT !.left = @ - real]
        /\ adrift' = (adrift \/ real > s) /\ UNCHANGED <<called, ours, heard, overslept>>
    BY <1>12 DEF CutByGlitch
  <2>2. mbb' \in [awake : BOOLEAN, left : Nat, seen : BOOLEAN]
        /\ mbb'.awake = mbb.awake /\ mbb'.seen = mbb.seen /\ mbb'.left = mbb.left - real
    BY <1>6, <2>1 DEF IInv, Types
  <2>4. PlanOK(plan')
    BY <1>9, <2>1
  <2>3. Types'
    BY <1>1, <1>3, <1>8, <2>1, <2>2, <2>4, SleepAssumption DEF IInv, Types
  <2>5. PlanInTime'
    <3> SUFFICES ASSUME heard, plan'.haveHib
                 PROVE  /\ plan'.left <= mbb'.left + clock'.lag
                        /\ ~adrift' => plan'.left <= mbb'.left
      BY <2>1 DEF PlanInTime
    <3>1. Planned.haveHib /\ ~plan.slept /\ plan'.left = plan.left - s
      BY <1>5, <1>9, <2>1
    <3>2. plan.left <= mbb.left + clock.lag /\ (~adrift => plan.left <= mbb.left)
      BY <1>4, <1>5, <3>1 DEF IInv, PlanInTime
    <3>3. plan.left \in Int /\ mbb.left \in Int
      BY DEF IInv, Types, PlanOK
    <3>4. ~adrift' => ~adrift /\ real = s
      <4>1. ~adrift' => ~adrift /\ ~(real > s)
        BY ONLY <2>1, Marks' DEF Marks
      <4>2. real >= s /\ real \in Nat /\ s \in Nat
        BY <1>5, <1>6
      <4> QED
        BY <4>1, <4>2
    <3> QED
      BY <1>5, <1>6, <1>8, <2>2, <3>1, <3>2, <3>3, <3>4
  <2> QED
    BY <1>3, <2>1, <2>2, <2>3, <2>5 DEF IInv, OwnMarked
<1> QED
  BY <1>2, <1>10, <1>11, <1>12

\* The other steps: a wake asked for is marked before it can be answered, and
\* the marks outlast the session.
LEMMA OthersInv ==
  ASSUME IInv, Marks', \/ WakeAsked \/ HoldEnds \/ WaitPasses \/ ClockSet \/ Reboot
               \/ Wakes \/ MbbSleeps \/ Dips \/ DipEnds \/ CountdownEnds \/ Unseen
               \/ Passes \/ DaysPass \/ UNCHANGED vars
  PROVE  IInv'
<1>0. PlanOK(NoPlan) /\ PlanOK(plan) /\ FALLBACK \in Nat /\ Hibs \subseteq Nat
  BY SleepAssumption DEF IInv, Types, PlanOK, NoPlan
<1>1. CASE WakeAsked
  BY <1>1 DEF WakeAsked, IInv, Types, PlanInTime, OwnMarked
<1>2. CASE HoldEnds
  <2>1. UNCHANGED <<clock, attended, storage, plan, provoked, wasAwake, up, mbb>>
        /\ hold' \in BOOLEAN /\ UNCHANGED <<called, ours, countedOurs, heard, adrift, overslept>>
    BY <1>2 DEF HoldEnds, policy, history
  <2> QED
    BY <1>2, <2>1 DEF HoldEnds, IInv, Types, PlanInTime, OwnMarked
<1>3. CASE WaitPasses
  BY <1>3 DEF WaitPasses, IInv, Types, PlanInTime, OwnMarked
<1>4. CASE ClockSet
  <2>1. /\ clock' = [valid |-> TRUE, lag |-> 0] /\ plan' = Aged(plan, clock.lag)
        /\ adrift' = FALSE
        /\ UNCHANGED <<attended, storage, provoked, wasAwake, up, mbb, hold,
                       called, ours, countedOurs, heard, overslept>>
    BY <1>4 DEF ClockSet
  <2>2. clock.lag \in Nat /\ clock' \in [valid : BOOLEAN, lag : 0 .. MAX_LAG]
    BY <2>1, SleepAssumption DEF IInv, Types
  <2>3. /\ PlanOK(plan') /\ plan'.haveHib = plan.haveHib /\ plan'.slept = plan.slept
        /\ (plan.haveHib => plan'.left = plan.left - clock.lag)
    BY <1>0, <2>1, <2>2, PlansTyped
  <2>4. plan.left \in Int /\ mbb.left \in Int
    BY DEF IInv, Types, PlanOK
  <2>5. Types' /\ OwnMarked'
    BY <2>1, <2>2, <2>3 DEF IInv, Types, OwnMarked
  <2>6. PlanInTime'
    BY <2>1, <2>2, <2>3, <2>4 DEF IInv, PlanInTime
  <2> QED
    BY <2>1, <2>5, <2>6 DEF IInv
<1>5. CASE Reboot
  <2>1. /\ storage' = FALSE /\ plan' = NoPlan /\ provoked' = NotProvoked
        /\ wasAwake' = FALSE /\ up' = 0 /\ hold' = FALSE
        /\ clock' = [valid |-> FALSE, lag |-> 0]
        /\ heard' = FALSE /\ adrift' = FALSE /\ called' = FALSE /\ ours' = FALSE
        /\ mbb' = [mbb EXCEPT !.seen = mbb.awake]
        /\ UNCHANGED <<countedOurs, overslept>>
    BY <1>5 DEF Reboot
  <2>2. attended' \in [at : Ages, dirty : BOOLEAN]
    BY <1>5 DEF Reboot, IInv, Types
  <2>3. /\ mbb' \in [awake : BOOLEAN, left : Nat, seen : BOOLEAN]
        /\ mbb'.seen = mbb'.awake
    BY <2>1 DEF IInv, Types
  <2>4. PlanOK(plan') /\ 0 \in 0 .. GRACE /\ 0 \in 0 .. MAX_LAG
    BY <1>0, <2>1, SleepAssumption
  <2>5. Types'
    BY <2>1, <2>2, <2>3, <2>4 DEF NotProvoked, IInv, Types
  <2> QED
    BY <2>1, <2>3, <2>5 DEF IInv, PlanInTime, OwnMarked
<1>6. CASE Wakes
  <2>1. PICK answers \in BOOLEAN : MbbWakes(answers)
    BY <1>6 DEF Wakes
  <2>2. /\ answers => called
        /\ mbb' = [awake |-> TRUE, left |-> 0, seen |-> TRUE]
        /\ ours' = answers /\ called' = FALSE
        /\ UNCHANGED <<heard, MbbKept>>
    BY <2>1 DEF MbbWakes
  <2>3. mbb' \in [awake : BOOLEAN, left : Nat, seen : BOOLEAN]
        /\ mbb'.awake /\ mbb'.seen /\ mbb'.left = 0 /\ ours' \in BOOLEAN
    BY <2>2
  <2>4. UNCHANGED <<clock, policy, hold, countedOurs, adrift, overslept, heard>>
    BY <2>2 DEF MbbKept
  <2> QED
    BY <2>2, <2>3, <2>4 DEF policy, IInv, Types, PlanInTime, OwnMarked
<1>7. CASE MbbSleeps
  <2>1. /\ mbb.awake /\ ~hold
        /\ mbb' = [mbb EXCEPT !.awake = FALSE, !.seen = FALSE, !.left = IF @ = 0 THEN FALLBACK ELSE @]
        /\ heard' = (heard /\ mbb.left # 0) /\ ours' = FALSE
        /\ UNCHANGED <<called, MbbKept>>
    BY <1>7 DEF MbbSleeps
  <2>2. /\ mbb' \in [awake : BOOLEAN, left : Nat, seen : BOOLEAN]
        /\ ~mbb'.awake /\ ~mbb'.seen /\ (mbb.left # 0 => mbb'.left = mbb.left)
    BY <1>0, <2>1 DEF IInv, Types
  <2> QED
    BY <2>1, <2>2 DEF MbbKept, policy, IInv, Types, PlanInTime, OwnMarked
<1>8. CASE Dips
  BY <1>8 DEF Dips, MbbKept, policy, IInv, Types, PlanInTime, OwnMarked
<1>9. CASE DipEnds
  BY <1>9 DEF DipEnds, MbbKept, policy, IInv, Types, PlanInTime, OwnMarked
<1>10. CASE CountdownEnds
  BY <1>10 DEF CountdownEnds, MbbKept, policy, IInv, Types, PlanInTime, OwnMarked
<1>11. CASE Unseen
  <2>1. PICK h \in Hibs : mbb' = [mbb EXCEPT !.left = h]
    BY <1>11 DEF Unseen
  <2>2. mbb' \in [awake : BOOLEAN, left : Nat, seen : BOOLEAN]
        /\ mbb'.awake = mbb.awake /\ mbb'.seen = mbb.seen
    BY <1>0, <2>1 DEF IInv, Types
  <2> QED
    BY <1>11, <2>2 DEF Unseen, MbbKept, policy, IInv, Types, PlanInTime, OwnMarked
<1>12. CASE Passes
  <2>1. /\ mbb.awake = (mbb.left = 0)
        /\ mbb' = IF mbb.left > 0 THEN [mbb EXCEPT !.left = @ - 1] ELSE mbb
        /\ plan' = IF plan.left >= -STALE THEN Aged(plan, 1) ELSE plan
        /\ up' = IF up < GRACE THEN up + 1 ELSE up
        /\ UNCHANGED <<clock, attended, storage, provoked, wasAwake, hold, history>>
    BY <1>12 DEF Passes
  <2>2. /\ mbb' \in [awake : BOOLEAN, left : Nat, seen : BOOLEAN]
        /\ mbb'.awake = mbb.awake /\ mbb'.seen = mbb.seen
        /\ mbb'.left = IF mbb.left > 0 THEN mbb.left - 1 ELSE mbb.left
    BY <2>1 DEF IInv, Types
  <2>3. /\ PlanOK(Aged(plan, 1))
        /\ Aged(plan, 1).haveHib = plan.haveHib /\ Aged(plan, 1).slept = plan.slept
        /\ (plan.haveHib => Aged(plan, 1).left = plan.left - 1)
    BY <1>0, PlansTyped
  <2>4. /\ PlanOK(plan') /\ plan'.haveHib = plan.haveHib /\ plan'.slept = plan.slept
        /\ (plan.haveHib =>
                \/ plan'.left = plan.left - 1
                \/ plan'.left = plan.left /\ plan.left < 0)
    <3>1. plan.left \in Int /\ STALE \in Nat
      BY <1>0, SleepAssumption DEF PlanOK
    <3>2. CASE plan.left >= -STALE
      <4>1. plan' = Aged(plan, 1)
        BY <2>1, <3>2
      <4>2. PlanOK(plan')
        BY <2>3, <4>1
      <4>3. plan'.haveHib = plan.haveHib /\ plan'.slept = plan.slept
        BY <2>3, <4>1
      <4>4. plan.haveHib => plan'.left = plan.left - 1
        BY <2>3, <4>1
      <4> QED
        BY <4>2, <4>3, <4>4
    <3>3. CASE ~(plan.left >= -STALE)
      <4>1. plan' = plan /\ plan.left < 0
        BY <2>1, <3>1, <3>3
      <4> QED
        BY <1>0, <4>1
    <3> QED
      BY <3>2, <3>3
  <2>5. up' \in 0 .. GRACE
    BY <2>1, SleepAssumption DEF IInv, Types
  <2>6. plan.left \in Int /\ mbb.left \in Nat
    BY DEF IInv, Types, PlanOK
  <2>7. Types' /\ OwnMarked'
    BY <2>1, <2>2, <2>4, <2>5 DEF history, IInv, Types, OwnMarked
  <2>8. PlanInTime'
    <3>1. clock.lag \in Nat /\ clock' = clock /\ heard' = heard /\ adrift' = adrift
      BY <2>1, SleepAssumption DEF history, IInv, Types
    <3>2. ASSUME plan.haveHib, ~plan.slept, ~(mbb'.awake /\ mbb'.left = 0), heard
          PROVE  /\ plan'.left <= mbb'.left + clock.lag
                 /\ ~adrift => plan'.left <= mbb'.left
      <4>1. plan.left <= mbb.left + clock.lag /\ (~adrift => plan.left <= mbb.left)
        BY <2>1, <3>2 DEF IInv, PlanInTime
      <4> QED
        BY <2>2, <2>4, <2>6, <3>1, <3>2, <4>1
    <3> QED
      BY <2>4, <3>1, <3>2 DEF PlanInTime
  <2> QED
    BY <2>1, <2>7, <2>8 DEF history, IInv
<1>13. CASE DaysPass
  BY <1>13 DEF DaysPass, history, Ages, IInv, Types, PlanInTime, OwnMarked
<1>14. CASE UNCHANGED vars
  BY <1>14 DEF vars, policy, history, IInv, Types, PlanInTime, OwnMarked
<1> QED
  BY <1>1, <1>2, <1>3, <1>4, <1>5, <1>6, <1>7, <1>8, <1>9, <1>10, <1>11, <1>12, <1>13, <1>14

\* Whatever the MBB announces, whatever of it is lost or mangled, and whenever the
\* pin dips, the clock is set or the board restarts, the plan of a heard MBB is
\* in time and a session of ours is known for ours.
THEOREM SleepInductive == Spec => []IInv
<1>1. Init => IInv
  BY Initially
<1>2. IInv /\ [Next]_vars => IInv'
  BY MarksInv, LinesInv, StaysInv, SleepTakenInv, OthersInv DEF Next, Alone, SleepTick, DueWakes
<1> QED
  BY <1>1, <1>2, PTL DEF Spec

\* The clock, the plan and the marks keep their types.
THEOREM TypeCorrect == Spec => []TypeOK
<1>1. IInv => TypeOK
  BY DEF IInv, Types, TypeOK, PlanOK
<1> QED
  BY <1>1, SleepInductive, PTL

\* The board is up when the MBB it heard is due, also after a glitch on pin 8,
\* unless the sleep it cut had run long and the clock is still behind by that.
THEOREM NeverOverslept == Spec => []UpForTheMbb
<1>1. IInv => UpForTheMbb
  BY DEF IInv, UpForTheMbb
<1> QED
  BY <1>1, SleepInductive, PTL

\* The dongle never takes its own wake for the owner's.
THEOREM OwnNeverCount == Spec => []OwnSessionsDontCount
<1>1. IInv => OwnSessionsDontCount
  BY DEF IInv, OwnSessionsDontCount
<1> QED
  BY <1>1, SleepInductive, PTL
=============================================================================
