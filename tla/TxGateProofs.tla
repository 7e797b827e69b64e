---------------------------- MODULE TxGateProofs ----------------------------
(***************************************************************************)
(* The safety of the transmit gate for every value of its constants: every *)
(* length of hold and watchdog far enough below half the range of millis().*)
(* IInv of TxGate is inductive, one lemma for each of its parts and in each *)
(* lemma one step for each action; the properties follow from it.           *)
(***************************************************************************)
EXTENDS TxGate, TLAPS

\* Where both tasks start is among the places they can be.
LEMMA RestTyped ==
  ASSUME NEW p, p = [t \in Tasks |-> Rest(t)]
  PROVE  /\ p \in [Tasks -> CapturePCs \cup LoopPCs]
         /\ p["capture"] \in CapturePCs /\ p["loop"] \in LoopPCs
<1>1. p["capture"] = "read" /\ p["loop"] = "idle"
  BY DEF Tasks, Rest
<1>2. \A t \in Tasks : Rest(t) \in CapturePCs \cup LoopPCs
  BY DEF Tasks, Rest, CapturePCs, LoopPCs
<1> QED
  BY <1>1, <1>2 DEF CapturePCs, LoopPCs

\* A restart leaves every variable typed.
LEMMA RebootTyped == Reboot => TypeOK'
<1> SUFFICES ASSUME Reboot PROVE TypeOK'
  OBVIOUS
<1>1. /\ pc' \in [Tasks -> CapturePCs \cup LoopPCs]
      /\ pc'["capture"] \in CapturePCs /\ pc'["loop"] \in LoopPCs
  BY RestTyped DEF Reboot
<1>2. now' \in Time /\ txHoldUntil' \in Time /\ wakeUntil' \in Time
  BY ConstantsAssumption DEF Reboot, Time
<1>4. /\ awake' \in BOOLEAN /\ lineHigh' \in BOOLEAN /\ txAttached' \in BOOLEAN
      /\ txHeld' \in BOOLEAN /\ nowAwake' \in BOOLEAN
      /\ owner' \in Tasks \cup {"none"}
  BY DEF Reboot
<1>3. /\ lowSamples' \in 0 .. LOW_SAMPLES /\ quiet' \in 0 .. SLEEP_AFTER
      /\ capAge' \in 0 .. WDT /\ wakeLeft' \in 0 .. (HALF - 1) /\ holdLeft' \in 0 .. TX_HOLD
  BY ConstantsAssumption DEF Reboot
<1> QED
  BY <1>1, <1>2, <1>3, <1>4 DEF TypeOK

\* A sample leaves every variable typed; it leads to the edge or past it.
LEMMA SampleTyped ==
  ASSUME TypeOK, AnySample
  PROVE  TypeOK'
<1>1. PICK bytes \in BOOLEAN, level \in BOOLEAN, sustained \in BOOLEAN :
        Sample(bytes, level, sustained)
  BY DEF AnySample
<1>2. Goto("capture", "edgeLock") \/ Goto("capture", "exp")
  BY <1>1, Zenon DEF Sample
<1>3. /\ pc' \in [Tasks -> CapturePCs \cup LoopPCs]
      /\ pc'["capture"] \in CapturePCs /\ pc'["loop"] \in LoopPCs
  BY <1>2 DEF Goto, TypeOK, Tasks, CapturePCs, LoopPCs, CheckHoldPCs
<1>4. nowAwake' \in BOOLEAN
  <2>1. nowAwake' = ((level /\ (bytes \/ sustained)) \/ quiet < SLEEP_AFTER)
    BY <1>1 DEF Sample
  <2> QED
    BY <2>1, Zenon
<1>5. lowSamples' \in 0 .. LOW_SAMPLES /\ lineHigh' \in BOOLEAN
  <2> DEFINE low == IF lowSamples < LOW_SAMPLES THEN lowSamples + 1 ELSE lowSamples
  <2>1. low \in 0 .. LOW_SAMPLES
    BY ConstantsAssumption DEF TypeOK
  <2>2. lowSamples' \in {0, low}
    BY <1>1 DEF Sample
  <2>3. lineHigh' = TRUE \/ lineHigh' = FALSE \/ lineHigh' = lineHigh
    BY <1>1, Zenon DEF Sample
  <2>4. lineHigh' \in BOOLEAN
    BY <2>3, Zenon DEF TypeOK
  <2>5. 0 \in 0 .. LOW_SAMPLES
    BY ConstantsAssumption
  <2> HIDE DEF low
  <2> QED
    BY <2>1, <2>2, <2>4, <2>5
<1>6. quiet' \in 0 .. SLEEP_AFTER /\ capAge' \in 0 .. WDT /\ holdLeft' \in 0 .. TX_HOLD
  BY <1>1, ConstantsAssumption DEF Sample, TypeOK
<1>7. UNCHANGED <<now, awake, txAttached, txHeld, txHoldUntil, wakeUntil, owner, wakeLeft>>
  BY <1>1 DEF Sample
<1> QED
  BY <1>3, <1>4, <1>5, <1>6, <1>7 DEF TypeOK

\* The gate starts, and starts again after a reboot, in a state the invariant
\* describes.
LEMMA InitIInv == Init => IInv
<1> SUFFICES ASSUME Init PROVE IInv
  OBVIOUS
<1>1. TypeOK
  <2>1. /\ pc \in [Tasks -> CapturePCs \cup LoopPCs]
        /\ pc["capture"] \in CapturePCs /\ pc["loop"] \in LoopPCs
    BY RestTyped DEF Init
  <2>2. now \in Time /\ txHoldUntil \in Time /\ wakeUntil \in Time
    BY ConstantsAssumption DEF Init, Time
  <2>4. /\ awake \in BOOLEAN /\ lineHigh \in BOOLEAN /\ txAttached \in BOOLEAN
        /\ txHeld \in BOOLEAN /\ nowAwake \in BOOLEAN
        /\ owner \in Tasks \cup {"none"}
    BY DEF Init
  <2>3. /\ lowSamples \in 0 .. LOW_SAMPLES /\ quiet \in 0 .. SLEEP_AFTER
        /\ capAge \in 0 .. WDT /\ wakeLeft \in 0 .. (HALF - 1) /\ holdLeft \in 0 .. TX_HOLD
    BY ConstantsAssumption DEF Init
  <2> QED
    BY <2>1, <2>2, <2>3, <2>4 DEF TypeOK
<1> USE ConstantsAssumption DEF Init, Tasks, Rest
<1>2. MutexInv
  BY DEF MutexInv, Critical
<1>3. WriteInv /\ WakeInv /\ HoldInv /\ LateInv
  BY DEF WriteInv, WakeInv, HoldInv, LateInv
<1> QED
  BY <1>1, <1>2, <1>3 DEF IInv

\* Type correctness is kept by every step.
LEMMA TypeOKStep ==
  ASSUME TypeOK, [Next]_vars
  PROVE  TypeOK'
<1> USE ConstantsAssumption DEF TypeOK, Time, Tasks, CapturePCs, LoopPCs, CheckHoldPCs, Rest, Plus
<1>1. ASSUME NEW t \in Tasks, ExpireTest(t) PROVE TypeOK'
  BY <1>1 DEF ExpireTest, Goto, gate, sampling, history
<1>2. ASSUME NEW t \in Tasks, ExpireLock(t) PROVE TypeOK'
  BY <1>2 DEF ExpireLock, Take, Goto, gate, sampling, history
<1>3. ASSUME NEW t \in Tasks, ExpireBody(t) PROVE TypeOK'
  BY <1>3 DEF ExpireBody, ClearedWake, Give, Goto, sampling, history
<1>4. ASSUME NEW t \in Tasks, HoldTest(t) PROVE TypeOK'
  BY <1>4 DEF HoldTest, Goto, gate, sampling, history
<1>5. ASSUME NEW t \in Tasks, HoldLock(t) PROVE TypeOK'
  BY <1>5 DEF HoldLock, Take, Goto, gate, sampling, history
<1>6. ASSUME NEW t \in Tasks, HoldBody(t) PROVE TypeOK'
  BY <1>6 DEF HoldBody, StillOver, Give, Goto, gate, sampling, history
<1>7. ASSUME NEW t \in Tasks, DrainOk(t) PROVE TypeOK'
  BY <1>7 DEF DrainOk, Give, Goto, sampling, history
<1>8. ASSUME NEW t \in Tasks, DrainFail(t) PROVE TypeOK'
  BY <1>8 DEF DrainFail, Give, Goto, gate, sampling, history
<1>9. CASE AnySample
  BY <1>9, SampleTyped
<1>10. CASE EdgeLock
  BY <1>10 DEF EdgeLock, Take, Goto, gate, sampling, history
<1>11. CASE EdgeBody
  BY <1>11 DEF EdgeBody, EdgeReleases, Give, Goto, sampling
<1>12. CASE EdgeDrain
  BY <1>12 DEF EdgeDrain, Give, Goto, sampling, history
<1>13. CASE TickCheck
  BY <1>13 DEF TickCheck, Goto, gate, sampling, history
<1>14. CASE WriteCheck
  BY <1>14 DEF WriteCheck, Goto, gate, sampling, history
<1>15. CASE WriteLock
  BY <1>15 DEF WriteLock, Take, Goto, gate, sampling, history
<1>16. CASE WriteRecheck
  BY <1>16 DEF WriteRecheck, StillUp, Give, Goto, gate, sampling, history
<1>17. CASE WriteAttach
  BY <1>17 DEF WriteAttach, Goto, sampling
<1>18. CASE WriteSent
  BY <1>18 DEF WriteSent, Give, Goto, sampling
<1>19. CASE WakeCheck
  BY <1>19 DEF WakeCheck, Goto, gate, sampling, history
<1>20. CASE WakeLock
  BY <1>20 DEF WakeLock, Take, Goto, gate, sampling, history
<1>21. ASSUME NEW h \in WakeHolds, WakeBody(h) PROVE TypeOK'
  BY <1>21 DEF WakeBody, WakeDeadline, Give, Goto, sampling
<1>22. CASE HoldOn
  BY <1>22 DEF HoldOn, sampling, history
<1>23. CASE HoldOff
  BY <1>23 DEF HoldOff, Goto, sampling, history
<1>24. CASE HoldOffBody
  BY <1>24 DEF HoldOffBody, Goto, sampling, history
<1>25. CASE Tick
  BY <1>25 DEF Tick, LessOne, gate
<1>26. CASE Reboot
  BY <1>26, RebootTyped
<1>27. CASE UNCHANGED vars
  BY <1>27 DEF vars, gate, sampling, history
<1> QED
  BY <1>1, <1>2, <1>3, <1>4, <1>5, <1>6, <1>7, <1>8, <1>9, <1>10, <1>11, <1>12, <1>13, <1>14,
     <1>15, <1>16, <1>17, <1>18, <1>19, <1>20, <1>21, <1>22, <1>23, <1>24, <1>25, <1>26, <1>27
  DEF Next, Capture, Loop, Request, Answer, CheckHold

\* Every step keeps txMtx with the task inside a critical section.
LEMMA MutexInvStep ==
  ASSUME TypeOK, MutexInv, [Next]_vars
  PROVE  MutexInv'
<1> USE ConstantsAssumption DEF TypeOK, MutexInv, Tasks, Critical, Rest
<1>1. ASSUME NEW t \in Tasks, ExpireTest(t) PROVE MutexInv'
  BY <1>1 DEF ExpireTest, Goto, gate, sampling, history
<1>2. ASSUME NEW t \in Tasks, ExpireLock(t) PROVE MutexInv'
  BY <1>2 DEF ExpireLock, Take, Goto, gate, sampling, history
<1>3. ASSUME NEW t \in Tasks, ExpireBody(t) PROVE MutexInv'
  BY <1>3 DEF ExpireBody, ClearedWake, Give, Goto, sampling, history
<1>4. ASSUME NEW t \in Tasks, HoldTest(t) PROVE MutexInv'
  BY <1>4 DEF HoldTest, Goto, gate, sampling, history
<1>5. ASSUME NEW t \in Tasks, HoldLock(t) PROVE MutexInv'
  BY <1>5 DEF HoldLock, Take, Goto, gate, sampling, history
<1>6. ASSUME NEW t \in Tasks, HoldBody(t) PROVE MutexInv'
  BY <1>6 DEF HoldBody, StillOver, Give, Goto, gate, sampling, history
<1>7. ASSUME NEW t \in Tasks, DrainOk(t) PROVE MutexInv'
  BY <1>7 DEF DrainOk, Give, Goto, sampling, history
<1>8. ASSUME NEW t \in Tasks, DrainFail(t) PROVE MutexInv'
  BY <1>8 DEF DrainFail, Give, Goto, gate, sampling, history
<1>9. CASE AnySample
  BY <1>9 DEF AnySample, Sample, Goto
<1>10. CASE EdgeLock
  BY <1>10 DEF EdgeLock, Take, Goto, gate, sampling, history
<1>11. CASE EdgeBody
  BY <1>11 DEF EdgeBody, EdgeReleases, Give, Goto, sampling
<1>12. CASE EdgeDrain
  BY <1>12 DEF EdgeDrain, Give, Goto, sampling, history
<1>13. CASE TickCheck
  BY <1>13 DEF TickCheck, Goto, gate, sampling, history
<1>14. CASE WriteCheck
  BY <1>14 DEF WriteCheck, Goto, gate, sampling, history
<1>15. CASE WriteLock
  BY <1>15 DEF WriteLock, Take, Goto, gate, sampling, history
<1>16. CASE WriteRecheck
  BY <1>16 DEF WriteRecheck, StillUp, Give, Goto, gate, sampling, history
<1>17. CASE WriteAttach
  BY <1>17 DEF WriteAttach, Goto, sampling
<1>18. CASE WriteSent
  BY <1>18 DEF WriteSent, Give, Goto, sampling
<1>19. CASE WakeCheck
  BY <1>19 DEF WakeCheck, Goto, gate, sampling, history
<1>20. CASE WakeLock
  BY <1>20 DEF WakeLock, Take, Goto, gate, sampling, history
<1>21. ASSUME NEW h \in WakeHolds, WakeBody(h) PROVE MutexInv'
  BY <1>21 DEF WakeBody, WakeDeadline, Give, Goto, sampling
<1>22. CASE HoldOn
  BY <1>22 DEF HoldOn, sampling, history
<1>23. CASE HoldOff
  BY <1>23 DEF HoldOff, Goto, sampling, history
<1>24. CASE HoldOffBody
  BY <1>24 DEF HoldOffBody, Goto, sampling, history
<1>25. CASE Tick
  BY <1>25 DEF Tick, LessOne, gate
<1>26. CASE Reboot
  BY <1>26 DEF Reboot
<1>27. CASE UNCHANGED vars
  BY <1>27 DEF vars, gate, sampling, history
<1> QED
  BY <1>1, <1>2, <1>3, <1>4, <1>5, <1>6, <1>7, <1>8, <1>9, <1>10, <1>11, <1>12, <1>13, <1>14,
     <1>15, <1>16, <1>17, <1>18, <1>19, <1>20, <1>21, <1>22, <1>23, <1>24, <1>25, <1>26, <1>27
  DEF Next, Capture, Loop, Request, Answer, CheckHold

\* A write past its second test keeps its awake MBB, because the edge that
\* would end it needs the mutex, and past the attach it keeps its pin.
LEMMA WriteInvStep ==
  ASSUME TypeOK, MutexInv, WriteInv, [Next]_vars
  PROVE  WriteInv'
<1> USE ConstantsAssumption DEF TypeOK, MutexInv, WriteInv, Tasks, Critical, Rest
<1>1. ASSUME NEW t \in Tasks, ExpireTest(t) PROVE WriteInv'
  BY <1>1 DEF ExpireTest, Goto, gate, sampling, history
<1>2. ASSUME NEW t \in Tasks, ExpireLock(t) PROVE WriteInv'
  BY <1>2 DEF ExpireLock, Take, Goto, gate, sampling, history
<1>3. ASSUME NEW t \in Tasks, ExpireBody(t) PROVE WriteInv'
  BY <1>3 DEF ExpireBody, ClearedWake, Give, Goto, sampling, history
<1>4. ASSUME NEW t \in Tasks, HoldTest(t) PROVE WriteInv'
  BY <1>4 DEF HoldTest, Goto, gate, sampling, history
<1>5. ASSUME NEW t \in Tasks, HoldLock(t) PROVE WriteInv'
  BY <1>5 DEF HoldLock, Take, Goto, gate, sampling, history
<1>6. ASSUME NEW t \in Tasks, HoldBody(t) PROVE WriteInv'
  BY <1>6 DEF HoldBody, StillOver, Give, Goto, gate, sampling, history
<1>7. ASSUME NEW t \in Tasks, DrainOk(t) PROVE WriteInv'
  BY <1>7 DEF DrainOk, Give, Goto, sampling, history
<1>8. ASSUME NEW t \in Tasks, DrainFail(t) PROVE WriteInv'
  BY <1>8 DEF DrainFail, Give, Goto, gate, sampling, history
<1>9. CASE AnySample
  BY <1>9 DEF AnySample, Sample, Goto
<1>10. CASE EdgeLock
  BY <1>10 DEF EdgeLock, Take, Goto, gate, sampling, history
<1>11. CASE EdgeBody
  BY <1>11 DEF EdgeBody, EdgeReleases, Give, Goto, sampling
<1>12. CASE EdgeDrain
  BY <1>12 DEF EdgeDrain, Give, Goto, sampling, history
<1>13. CASE TickCheck
  BY <1>13 DEF TickCheck, Goto, gate, sampling, history
<1>14. CASE WriteCheck
  BY <1>14 DEF WriteCheck, Goto, gate, sampling, history
<1>15. CASE WriteLock
  BY <1>15 DEF WriteLock, Take, Goto, gate, sampling, history
<1>16. CASE WriteRecheck
  BY <1>16 DEF WriteRecheck, StillUp, Give, Goto, gate, sampling, history
<1>17. CASE WriteAttach
  BY <1>17 DEF WriteAttach, Goto, sampling
<1>18. CASE WriteSent
  BY <1>18 DEF WriteSent, Give, Goto, sampling
<1>19. CASE WakeCheck
  BY <1>19 DEF WakeCheck, Goto, gate, sampling, history
<1>20. CASE WakeLock
  BY <1>20 DEF WakeLock, Take, Goto, gate, sampling, history
<1>21. ASSUME NEW h \in WakeHolds, WakeBody(h) PROVE WriteInv'
  BY <1>21 DEF WakeBody, WakeDeadline, Give, Goto, sampling
<1>22. CASE HoldOn
  BY <1>22 DEF HoldOn, sampling, history
<1>23. CASE HoldOff
  BY <1>23 DEF HoldOff, Goto, sampling, history
<1>24. CASE HoldOffBody
  BY <1>24 DEF HoldOffBody, Goto, sampling, history
<1>25. CASE Tick
  BY <1>25 DEF Tick, LessOne, gate
<1>26. CASE Reboot
  BY <1>26 DEF Reboot
<1>27. CASE UNCHANGED vars
  BY <1>27 DEF vars, gate, sampling, history
<1> QED
  BY <1>1, <1>2, <1>3, <1>4, <1>5, <1>6, <1>7, <1>8, <1>9, <1>10, <1>11, <1>12, <1>13, <1>14,
     <1>15, <1>16, <1>17, <1>18, <1>19, <1>20, <1>21, <1>22, <1>23, <1>24, <1>25, <1>26, <1>27
  DEF Next, Capture, Loop, Request, Answer, CheckHold

\* A running wake keeps its pin and its deadline: the two places that release
\* the pin test wakeOn() under the mutex, and a new wake needs the mutex too.
LEMMA WakeInvStep ==
  ASSUME TypeOK, MutexInv, WakeInv, [Next]_vars
  PROVE  WakeInv'
<1> USE ConstantsAssumption DEF TypeOK, MutexInv, WakeInv, Time, Tasks, Critical, Rest, Plus, Minus, WakeOn, WakeExpired, HoldOver
<1>1. ASSUME NEW t \in Tasks, ExpireTest(t) PROVE WakeInv'
  BY <1>1 DEF ExpireTest, Goto, gate, sampling, history
<1>2. ASSUME NEW t \in Tasks, ExpireLock(t) PROVE WakeInv'
  BY <1>2 DEF ExpireLock, Take, Goto, gate, sampling, history
<1>3. ASSUME NEW t \in Tasks, ExpireBody(t) PROVE WakeInv'
  BY <1>3 DEF ExpireBody, ClearedWake, Give, Goto, sampling, history
<1>4. ASSUME NEW t \in Tasks, HoldTest(t) PROVE WakeInv'
  BY <1>4 DEF HoldTest, Goto, gate, sampling, history
<1>5. ASSUME NEW t \in Tasks, HoldLock(t) PROVE WakeInv'
  BY <1>5 DEF HoldLock, Take, Goto, gate, sampling, history
<1>6. ASSUME NEW t \in Tasks, HoldBody(t) PROVE WakeInv'
  BY <1>6 DEF HoldBody, StillOver, Give, Goto, gate, sampling, history
<1>7. ASSUME NEW t \in Tasks, DrainOk(t) PROVE WakeInv'
  BY <1>7 DEF DrainOk, Give, Goto, sampling, history
<1>8. ASSUME NEW t \in Tasks, DrainFail(t) PROVE WakeInv'
  BY <1>8 DEF DrainFail, Give, Goto, gate, sampling, history
<1>9. CASE AnySample
  BY <1>9 DEF AnySample, Sample, Goto
<1>10. CASE EdgeLock
  BY <1>10 DEF EdgeLock, Take, Goto, gate, sampling, history
<1>11. CASE EdgeBody
  BY <1>11 DEF EdgeBody, EdgeReleases, Give, Goto, sampling
<1>12. CASE EdgeDrain
  BY <1>12 DEF EdgeDrain, Give, Goto, sampling, history
<1>13. CASE TickCheck
  BY <1>13 DEF TickCheck, Goto, gate, sampling, history
<1>14. CASE WriteCheck
  BY <1>14 DEF WriteCheck, Goto, gate, sampling, history
<1>15. CASE WriteLock
  BY <1>15 DEF WriteLock, Take, Goto, gate, sampling, history
<1>16. CASE WriteRecheck
  BY <1>16 DEF WriteRecheck, StillUp, Give, Goto, gate, sampling, history
<1>17. CASE WriteAttach
  BY <1>17 DEF WriteAttach, Goto, sampling
<1>18. CASE WriteSent
  BY <1>18 DEF WriteSent, Give, Goto, sampling
<1>19. CASE WakeCheck
  BY <1>19 DEF WakeCheck, Goto, gate, sampling, history
<1>20. CASE WakeLock
  BY <1>20 DEF WakeLock, Take, Goto, gate, sampling, history
<1>21. ASSUME NEW h \in WakeHolds, WakeBody(h) PROVE WakeInv'
  BY <1>21 DEF WakeBody, WakeDeadline, Give, Goto, sampling
<1>22. CASE HoldOn
  BY <1>22 DEF HoldOn, sampling, history
<1>23. CASE HoldOff
  BY <1>23 DEF HoldOff, Goto, sampling, history
<1>24. CASE HoldOffBody
  BY <1>24 DEF HoldOffBody, Goto, sampling, history
<1>25. CASE Tick
  BY <1>25 DEF Tick, LessOne, gate
<1>26. CASE Reboot
  BY <1>26 DEF Reboot
<1>27. CASE UNCHANGED vars
  BY <1>27 DEF vars, gate, sampling, history
<1> QED
  BY <1>1, <1>2, <1>3, <1>4, <1>5, <1>6, <1>7, <1>8, <1>9, <1>10, <1>11, <1>12, <1>13, <1>14,
     <1>15, <1>16, <1>17, <1>18, <1>19, <1>20, <1>21, <1>22, <1>23, <1>24, <1>25, <1>26, <1>27
  DEF Next, Capture, Loop, Request, Answer, CheckHold

\* A write's hold keeps its pin: a release is decided under the mutex, and no
\* deadline written while the hold runs is nearer than it.
LEMMA HoldInvStep ==
  ASSUME TypeOK, MutexInv, WriteInv, HoldInv, [Next]_vars
  PROVE  HoldInv'
<1> USE ConstantsAssumption DEF TypeOK, MutexInv, WriteInv, HoldInv, Time, Tasks, Critical, Rest, Plus, Minus, WakeOn, HoldOver
<1>1. ASSUME NEW t \in Tasks, ExpireTest(t) PROVE HoldInv'
  BY <1>1 DEF ExpireTest, Goto, gate, sampling, history
<1>2. ASSUME NEW t \in Tasks, ExpireLock(t) PROVE HoldInv'
  BY <1>2 DEF ExpireLock, Take, Goto, gate, sampling, history
<1>3. ASSUME NEW t \in Tasks, ExpireBody(t) PROVE HoldInv'
  BY <1>3 DEF ExpireBody, ClearedWake, Give, Goto, sampling, history
<1>4. ASSUME NEW t \in Tasks, HoldTest(t) PROVE HoldInv'
  BY <1>4 DEF HoldTest, Goto, gate, sampling, history
<1>5. ASSUME NEW t \in Tasks, HoldLock(t) PROVE HoldInv'
  BY <1>5 DEF HoldLock, Take, Goto, gate, sampling, history
<1>6. ASSUME NEW t \in Tasks, HoldBody(t) PROVE HoldInv'
  BY <1>6 DEF HoldBody, StillOver, Give, Goto, gate, sampling, history
<1>7. ASSUME NEW t \in Tasks, DrainOk(t) PROVE HoldInv'
  BY <1>7 DEF DrainOk, Give, Goto, sampling, history
<1>8. ASSUME NEW t \in Tasks, DrainFail(t) PROVE HoldInv'
  BY <1>8 DEF DrainFail, Give, Goto, gate, sampling, history
<1>9. CASE AnySample
  BY <1>9 DEF AnySample, Sample, Goto
<1>10. CASE EdgeLock
  BY <1>10 DEF EdgeLock, Take, Goto, gate, sampling, history
<1>11. CASE EdgeBody
  BY <1>11 DEF EdgeBody, EdgeReleases, Give, Goto, sampling
<1>12. CASE EdgeDrain
  BY <1>12 DEF EdgeDrain, Give, Goto, sampling, history
<1>13. CASE TickCheck
  BY <1>13 DEF TickCheck, Goto, gate, sampling, history
<1>14. CASE WriteCheck
  BY <1>14 DEF WriteCheck, Goto, gate, sampling, history
<1>15. CASE WriteLock
  BY <1>15 DEF WriteLock, Take, Goto, gate, sampling, history
<1>16. CASE WriteRecheck
  BY <1>16 DEF WriteRecheck, StillUp, Give, Goto, gate, sampling, history
<1>17. CASE WriteAttach
  BY <1>17 DEF WriteAttach, Goto, sampling
<1>18. CASE WriteSent
  BY <1>18 DEF WriteSent, Give, Goto, sampling
<1>19. CASE WakeCheck
  BY <1>19 DEF WakeCheck, Goto, gate, sampling, history
<1>20. CASE WakeLock
  BY <1>20 DEF WakeLock, Take, Goto, gate, sampling, history
<1>21. ASSUME NEW h \in WakeHolds, WakeBody(h) PROVE HoldInv'
  BY <1>21 DEF WakeBody, WakeDeadline, Give, Goto, sampling
<1>22. CASE HoldOn
  BY <1>22 DEF HoldOn, sampling, history
<1>23. CASE HoldOff
  BY <1>23 DEF HoldOff, Goto, sampling, history
<1>24. CASE HoldOffBody
  BY <1>24 DEF HoldOffBody, Goto, sampling, history
<1>25. CASE Tick
  BY <1>25 DEF Tick, LessOne, gate
<1>26. CASE Reboot
  BY <1>26 DEF Reboot
<1>27. CASE UNCHANGED vars
  BY <1>27 DEF vars, gate, sampling, history
<1> QED
  BY <1>1, <1>2, <1>3, <1>4, <1>5, <1>6, <1>7, <1>8, <1>9, <1>10, <1>11, <1>12, <1>13, <1>14,
     <1>15, <1>16, <1>17, <1>18, <1>19, <1>20, <1>21, <1>22, <1>23, <1>24, <1>25, <1>26, <1>27
  DEF Next, Capture, Loop, Request, Answer, CheckHold

\* A passed deadline is cleared on time: the capture task tests it once a
\* pass, and the watchdog bounds a pass.
LEMMA LateInvStep ==
  ASSUME TypeOK, WakeInv, LateInv, [Next]_vars
  PROVE  LateInv'
<1> USE ConstantsAssumption DEF TypeOK, WakeInv, LateInv, Time, Tasks, Rest, Plus, Minus, WakeExpired, BeforeExpireTest
<1>1. ASSUME NEW t \in Tasks, ExpireTest(t) PROVE LateInv'
  BY <1>1 DEF ExpireTest, Goto, gate, sampling, history
<1>2. ASSUME NEW t \in Tasks, ExpireLock(t) PROVE LateInv'
  BY <1>2 DEF ExpireLock, Take, Goto, gate, sampling, history
<1>3. ASSUME NEW t \in Tasks, ExpireBody(t) PROVE LateInv'
  BY <1>3 DEF ExpireBody, ClearedWake, Give, Goto, sampling, history
<1>4. ASSUME NEW t \in Tasks, HoldTest(t) PROVE LateInv'
  BY <1>4 DEF HoldTest, Goto, gate, sampling, history
<1>5. ASSUME NEW t \in Tasks, HoldLock(t) PROVE LateInv'
  BY <1>5 DEF HoldLock, Take, Goto, gate, sampling, history
<1>6. ASSUME NEW t \in Tasks, HoldBody(t) PROVE LateInv'
  BY <1>6 DEF HoldBody, StillOver, Give, Goto, gate, sampling, history
<1>7. ASSUME NEW t \in Tasks, DrainOk(t) PROVE LateInv'
  BY <1>7 DEF DrainOk, Give, Goto, sampling, history
<1>8. ASSUME NEW t \in Tasks, DrainFail(t) PROVE LateInv'
  BY <1>8 DEF DrainFail, Give, Goto, gate, sampling, history
<1>9. CASE AnySample
  BY <1>9 DEF AnySample, Sample, Goto
<1>10. CASE EdgeLock
  BY <1>10 DEF EdgeLock, Take, Goto, gate, sampling, history
<1>11. CASE EdgeBody
  BY <1>11 DEF EdgeBody, EdgeReleases, Give, Goto, sampling
<1>12. CASE EdgeDrain
  BY <1>12 DEF EdgeDrain, Give, Goto, sampling, history
<1>13. CASE TickCheck
  BY <1>13 DEF TickCheck, Goto, gate, sampling, history
<1>14. CASE WriteCheck
  BY <1>14 DEF WriteCheck, Goto, gate, sampling, history
<1>15. CASE WriteLock
  BY <1>15 DEF WriteLock, Take, Goto, gate, sampling, history
<1>16. CASE WriteRecheck
  BY <1>16 DEF WriteRecheck, StillUp, Give, Goto, gate, sampling, history
<1>17. CASE WriteAttach
  BY <1>17 DEF WriteAttach, Goto, sampling
<1>18. CASE WriteSent
  BY <1>18 DEF WriteSent, Give, Goto, sampling
<1>19. CASE WakeCheck
  BY <1>19 DEF WakeCheck, Goto, gate, sampling, history
<1>20. CASE WakeLock
  BY <1>20 DEF WakeLock, Take, Goto, gate, sampling, history
<1>21. ASSUME NEW h \in WakeHolds, WakeBody(h) PROVE LateInv'
  BY <1>21 DEF WakeBody, WakeDeadline, Give, Goto, sampling
<1>22. CASE HoldOn
  BY <1>22 DEF HoldOn, sampling, history
<1>23. CASE HoldOff
  BY <1>23 DEF HoldOff, Goto, sampling, history
<1>24. CASE HoldOffBody
  BY <1>24 DEF HoldOffBody, Goto, sampling, history
<1>25. CASE Tick
  BY <1>25 DEF Tick, LessOne, gate
<1>26. CASE Reboot
  BY <1>26 DEF Reboot
<1>27. CASE UNCHANGED vars
  BY <1>27 DEF vars, gate, sampling, history
<1> QED
  BY <1>1, <1>2, <1>3, <1>4, <1>5, <1>6, <1>7, <1>8, <1>9, <1>10, <1>11, <1>12, <1>13, <1>14,
     <1>15, <1>16, <1>17, <1>18, <1>19, <1>20, <1>21, <1>22, <1>23, <1>24, <1>25, <1>26, <1>27
  DEF Next, Capture, Loop, Request, Answer, CheckHold

-----------------------------------------------------------------------------
\* The invariant of TxGate holds in every reachable state of the gate.
THEOREM Inductive == Spec => []IInv
<1>1. IInv /\ [Next]_vars => IInv'
  BY TypeOKStep, MutexInvStep, WriteInvStep, WakeInvStep, HoldInvStep, LateInvStep
  DEF IInv
<1> QED
  BY InitIInv, <1>1, PTL DEF Spec

\* Every variable of the gate keeps its type: the deadlines stay inside 32
\* bits, the history variables inside the holds they measure.
THEOREM TypeCorrect == Spec => []TypeOK
  BY Inductive, PTL DEF IInv

\* No step but a deliberate wake drives pin 9 while the capture task calls
\* the MBB asleep.
THEOREM AttachSafe == Spec => AttachOnlyAwakeOrWake
<1>1. IInv /\ [Next]_vars => [~txAttached /\ txAttached' => awake \/ wakeUntil' # 0]_vars
  <2> SUFFICES ASSUME IInv, Next, ~txAttached, txAttached'
               PROVE  awake \/ wakeUntil' # 0
    OBVIOUS
  <2> USE DEF gate
  <2>1. ASSUME NEW t \in Tasks, CheckHold(t) PROVE FALSE
    BY <2>1 DEF CheckHold, ExpireTest, ExpireLock, Take, ExpireBody, HoldTest, HoldLock,
                HoldBody, DrainOk, DrainFail
  <2>2. ~(AnySample \/ EdgeLock \/ EdgeBody \/ EdgeDrain)
    BY DEF AnySample, Sample, EdgeLock, Take, EdgeBody, EdgeDrain
  <2>3. ~Request
    BY DEF Request, WriteCheck, WakeCheck, HoldOn, HoldOff, TickCheck
  <2>4. CASE WriteAttach
    BY <2>4 DEF WriteAttach, IInv, WriteInv
  <2>5. ASSUME NEW h \in WakeHolds, WakeBody(h) PROVE wakeUntil' # 0
    BY <2>5 DEF WakeBody, WakeDeadline
  <2>6. ~(WriteLock \/ WriteRecheck \/ WriteSent \/ WakeLock \/ HoldOffBody)
    BY DEF WriteLock, WriteRecheck, WriteSent, WakeLock, HoldOffBody, Take
  <2>7. ~(Tick \/ Reboot)
    BY DEF Tick, Reboot
  <2> QED
    BY <2>1, <2>2, <2>3, <2>4, <2>5, <2>6, <2>7 DEF Next, Capture, Loop, Answer, Tasks
<1> QED
  BY Inductive, <1>1, PTL DEF AttachOnlyAwakeOrWake, Spec

\* A deliberate wake keeps its pin and stays on for the whole of its hold, and
\* its deadline, once passed, never reads as a wake again, however often
\* millis() wraps.
THEOREM WakeKept == Spec => []WakeExact
<1>1. IInv => WakeHonoured
  BY ConstantsAssumption
  DEF IInv, TypeOK, Time, WakeInv, WakeHonoured, WakeOn, Plus, Minus
<1>2. IInv => WakeNeverReturns
  BY ConstantsAssumption
  DEF IInv, TypeOK, Time, LateInv, WakeNeverReturns, WakeOn, Minus
<1>3. IInv => WakeExact
  BY <1>1, <1>2 DEF WakeExact
<1> QED
  BY Inductive, <1>3, PTL

\* Nothing cuts a write's bytes, or the hold it asked for, while the line is up.
THEOREM WriteKept == Spec => []WriteKeepsPin
<1>1. IInv => WriteKeepsPin
  BY DEF IInv, TypeOK, HoldInv, WriteInv, WriteKeepsPin, WriteHoldKept, WriteUncut
<1> QED
  BY Inductive, <1>1, PTL

=============================================================================
