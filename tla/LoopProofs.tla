------------------------------ MODULE LoopProofs ------------------------------
(***************************************************************************)
(* Two parts that loop() runs.  What the WiFi owner keeps whatever the      *)
(* network, the driver and a person do: a board that knows no network can   *)
(* be told one, and a tick erases no key that is right, but in the ways     *)
(* Wlan names.  And whose the lines are that the poller reads: what it      *)
(* keeps for a command is that command's answer, however late the MBB is,   *)
(* but in the ways Poller names.                                            *)
(***************************************************************************)
EXTENDS Wlan, Poller, SequenceTheorems, TLAPS

\* The owner's state is in order: what the driver works at is stored, and the
\* owner knows of what is stored.
Own(s) ==
    /\ s \in Owner
    /\ s.link = "off" => s.driverStopped
    /\ s.setupDownAt # "none" => s.setupUp
    /\ s.link \in {"trying", "up"} => s.net # NoKey
    /\ s.net # NoKey => s.credsSaved

\* A join is not seen yet or has proved the key.
JoinProves(s) == s.link = "up" => s.joined \/ s.keyProven

\* A verdict on the key stored is old or came before it had joined, or its
\* network is joined or was.
VerdictRight(s, key, k) ==
    s.wrongKey /\ s.net = key => k.stale \/ k.early \/ s.joined \/ s.keyProven

\* Without a network saved the setup network is up, and on its way down only
\* if a typo was erased meanwhile.
SetupOwed(s, k) ==
    ~s.credsSaved =>
        /\ s.setupDownAt # "none" => k.skipped
        /\ s.driverStopped \/ s.setupUp \/ k.skipped

History == [skipped : BOOLEAN, stale : BOOLEAN, early : BOOLEAN]

\* The inductive invariant.
IInv ==
    /\ pc \in {"joins", "status", "down"} /\ homeKey \in Keys /\ h \in History
    /\ Own(w) /\ JoinProves(w) /\ VerdictRight(w, homeKey, h) /\ SetupOwed(w, h)

-----------------------------------------------------------------------------
(* The functions the handlers are made of.                                  *)

\* What a function may do to the parts a verdict is told by: nothing.
Same(s, t) ==
    /\ t.net = s.net /\ t.wrongKey = s.wrongKey
    /\ t.joined = s.joined /\ t.keyProven = s.keyProven

\* An attempt needs a network stored, and joins nothing yet.
LEMMA AttemptOwn ==
  ASSUME NEW s, Own(s)
  PROVE  LET t == Attempt(s)
         IN  /\ Own(t) /\ Same(s, t)
             /\ t.link = "up" => s.link = "up"
             /\ t.credsSaved = s.credsSaved /\ t.driverStopped = s.driverStopped
             /\ t.setupUp = s.setupUp /\ t.setupDownAt = s.setupDownAt
  BY DEF Attempt, Own, Owner, Same

\* A station told to leave is not joined, and nothing else of it changes.
LEMMA LeaveOwn ==
  ASSUME NEW s, Own(s)
  PROVE  LET t == Leave(s)
         IN  /\ Own(t) /\ Same(s, t) /\ t.link \notin {"trying", "up"}
             /\ t.credsSaved = s.credsSaved /\ t.driverStopped = s.driverStopped
             /\ t.setupUp = s.setupUp /\ t.setupDownAt = s.setupDownAt
<1> DEFINE link == IF s.link \in {"trying", "up"} THEN "left" ELSE s.link
           t == [s EXCEPT !.link = link]
<1>1. s \in Owner /\ Leave(s) = t
  BY DEF Leave, Own
<1>2. link \in {"off", "idle", "left"} /\ (link = "off" => s.link = "off")
  BY <1>1 DEF Owner
<1> HIDE DEF link
<1>3. /\ t \in Owner /\ Same(s, t) /\ t.link = link
      /\ t.credsSaved = s.credsSaved /\ t.driverStopped = s.driverStopped
      /\ t.setupUp = s.setupUp /\ t.setupDownAt = s.setupDownAt
  BY <1>1, <1>2 DEF Owner, Same
<1> HIDE DEF t
<1> QED
  BY <1>1, <1>2, <1>3 DEF Own, Same

\* A quiet station is not joined.
LEMMA StaQuietOwn ==
  ASSUME NEW s, Own(s)
  PROVE  LET t == StaQuiet(s)
         IN  /\ Own(t) /\ Same(s, t) /\ t.link # "up"
             /\ t.credsSaved = s.credsSaved /\ t.driverStopped = s.driverStopped
             /\ t.setupUp = s.setupUp /\ t.setupDownAt = s.setupDownAt
<1> DEFINE l == Leave(s)
           t == [l EXCEPT !.autoReconnect = FALSE]
<1>1. /\ Own(l) /\ Same(s, l) /\ l.link \notin {"trying", "up"}
      /\ l.credsSaved = s.credsSaved /\ l.driverStopped = s.driverStopped
      /\ l.setupUp = s.setupUp /\ l.setupDownAt = s.setupDownAt
  BY LeaveOwn
<1>2. StaQuiet(s) = t
  BY DEF StaQuiet
<1> HIDE DEF l
<1>3. /\ t \in Owner /\ Same(l, t) /\ t.link = l.link
      /\ t.credsSaved = l.credsSaved /\ t.driverStopped = l.driverStopped
      /\ t.setupUp = l.setupUp /\ t.setupDownAt = l.setupDownAt
  BY <1>1 DEF Own, Owner, Same
<1> HIDE DEF t
<1> QED
  BY <1>1, <1>2, <1>3 DEF Own, Same

\* The setup network is up, and stays as it was if it was up.
LEMMA StartSetupOwn ==
  ASSUME NEW s, Own(s)
  PROVE  LET t == StartSetup(s)
         IN  /\ Own(t) /\ Same(s, t) /\ t.setupUp
             /\ t.link = "up" => s.link = "up"
             /\ t.credsSaved = s.credsSaved /\ t.driverStopped = s.driverStopped
             /\ t.setupDownAt = (IF s.setupUp THEN s.setupDownAt ELSE "none")
<1> DEFINE u == [s EXCEPT !.setupUp = TRUE, !.setupDownAt = "none", !.setupFresh = TRUE]
<1>1. CASE s.setupUp
  BY <1>1 DEF StartSetup, Same
<1>2. CASE ~s.setupUp
  <2>1. /\ Own(u) /\ Same(s, u) /\ u.setupUp /\ u.setupDownAt = "none" /\ u.link = s.link
        /\ u.credsSaved = s.credsSaved /\ u.driverStopped = s.driverStopped
    BY DEF Own, Owner, Same
  <2>2. StartSetup(s) = StaQuiet(u)
    BY <1>2 DEF StartSetup
  <2> HIDE DEF u
  <2> QED
    BY <1>2, <2>1, <2>2, StaQuietOwn DEF Same
<1> QED
  BY <1>1, <1>2

\* The setup network is down, with nothing left to take it down.
LEMMA StopSetupOwn ==
  ASSUME NEW s, Own(s)
  PROVE  LET t == StopSetup(s)
         IN  /\ Own(t) /\ Same(s, t) /\ t.link = s.link
             /\ ~t.setupUp /\ t.setupDownAt = "none"
             /\ t.credsSaved = s.credsSaved /\ t.driverStopped = s.driverStopped
<1> DEFINE u == [s EXCEPT !.setupUp = FALSE, !.setupDownAt = "none"]
           v == [u EXCEPT !.autoReconnect = TRUE]
<1>1. /\ Own(u) /\ Same(s, u) /\ u.link = s.link /\ ~u.setupUp /\ u.setupDownAt = "none"
      /\ u.credsSaved = s.credsSaved /\ u.driverStopped = s.driverStopped
  BY DEF Own, Owner, Same
<1>2. StopSetup(s) = IF s.setupUp THEN v ELSE s
  BY DEF StopSetup, StaFree
<1> HIDE DEF u
<1>3. /\ Own(v) /\ Same(u, v) /\ v.link = u.link /\ v.setupUp = u.setupUp
      /\ v.setupDownAt = u.setupDownAt
      /\ v.credsSaved = u.credsSaved /\ v.driverStopped = u.driverStopped
  BY <1>1 DEF Own, Owner, Same
<1> HIDE DEF v
<1>4. CASE s.setupUp
  BY <1>1, <1>2, <1>3, <1>4 DEF Same
<1>5. CASE ~s.setupUp
  BY <1>2, <1>5 DEF Own, Same
<1> QED
  BY <1>4, <1>5

\* A setup network that is up is taken down later, once.
LEMMA ArmSetupDownOwn ==
  ASSUME NEW s, Own(s)
  PROVE  LET t == ArmSetupDown(s)
         IN  /\ Own(t) /\ Same(s, t) /\ t.link = s.link
             /\ t.credsSaved = s.credsSaved /\ t.driverStopped = s.driverStopped
             /\ t.setupUp = s.setupUp
  BY DEF ArmSetupDown, Own, Owner, Same

\* Services come up, and a setup network has its end set.
LEMMA StartServicesOwn ==
  ASSUME NEW s, Own(s)
  PROVE  LET t == StartServices(s)
         IN  /\ Own(t) /\ Same(s, t) /\ t.link = s.link
             /\ t.credsSaved = s.credsSaved /\ t.driverStopped = s.driverStopped
             /\ t.setupUp = s.setupUp
<1>1. LET u == [s EXCEPT !.servicesUp = TRUE]
      IN  /\ Own(u) /\ Same(s, u) /\ u.link = s.link
          /\ u.credsSaved = s.credsSaved /\ u.driverStopped = s.driverStopped
          /\ u.setupUp = s.setupUp
  BY DEF Own, Owner, Same
<1> QED
  BY <1>1, ArmSetupDownOwn DEF StartServices, Same

\* Services go down and nothing else.
LEMMA StopServicesOwn ==
  ASSUME NEW s, Own(s)
  PROVE  LET t == StopServices(s)
         IN  /\ Own(t) /\ Same(s, t) /\ t.link = s.link
             /\ t.credsSaved = s.credsSaved /\ t.driverStopped = s.driverStopped
             /\ t.setupUp = s.setupUp /\ t.setupDownAt = s.setupDownAt
  BY DEF StopServices, Own, Owner, Same

\* A driver that starts has a network to try or a setup network to show; one
\* that does not stays as it was.
LEMMA DriverStartOwn ==
  ASSUME NEW s, Own(s), NEW ok \in BOOLEAN
  PROVE  LET t == DriverStart(s, ok)
         IN  /\ Own(t) /\ Same(s, t) /\ t.credsSaved = s.credsSaved
             /\ t.link = "up" => s.link = "up"
             /\ t.setupDownAt # "none" => s.setupDownAt # "none"
             /\ ~s.credsSaved => IF ok THEN t.setupUp
                                 ELSE t.driverStopped = s.driverStopped /\ t.setupUp = s.setupUp
<1> DEFINE u == [s EXCEPT !.retryDue = FALSE]
           v == [u EXCEPT !.driverStopped = FALSE, !.longUnjoined = FALSE, !.link = "left"]
<1>1. /\ Own(u) /\ Same(s, u) /\ u.credsSaved = s.credsSaved /\ u.link = s.link
      /\ u.setupDownAt = s.setupDownAt /\ u.setupUp = s.setupUp
      /\ u.driverStopped = s.driverStopped
  BY DEF Own, Owner, Same
<1>2. /\ Own(v) /\ Same(s, v) /\ v.credsSaved = s.credsSaved /\ v.link = "left"
      /\ v.setupDownAt = s.setupDownAt /\ v.setupUp = s.setupUp
  BY DEF Own, Owner, Same
<1>3. DriverStart(s, ok) = IF ~ok THEN u
                           ELSE IF s.credsSaved THEN Attempt(v) ELSE StartSetup(v)
  BY DEF DriverStart
<1> HIDE DEF u, v
<1>4. CASE ~ok
  <2>1. DriverStart(s, ok) = u
    BY <1>3, <1>4
  <2> QED
    BY <1>1, <1>4, <2>1
<1>5. CASE ok /\ s.credsSaved
  <2> DEFINE t == Attempt(v)
  <2>1. DriverStart(s, ok) = t
    BY <1>3, <1>5
  <2>2. /\ Own(t) /\ Same(v, t) /\ t.credsSaved = v.credsSaved
        /\ (t.link = "up" => v.link = "up") /\ t.setupDownAt = v.setupDownAt
    BY <1>2, AttemptOwn
  <2> HIDE DEF t
  <2>3. Same(s, t)
    BY <1>2, <2>2 DEF Same
  <2> QED
    BY <1>2, <1>5, <2>1, <2>2, <2>3
<1>6. CASE ok /\ ~s.credsSaved
  <2> DEFINE t == StartSetup(v)
  <2>1. DriverStart(s, ok) = t
    BY <1>3, <1>6
  <2>2. /\ Own(t) /\ Same(v, t) /\ t.setupUp /\ t.credsSaved = v.credsSaved
        /\ (t.link = "up" => v.link = "up")
        /\ t.setupDownAt = (IF v.setupUp THEN v.setupDownAt ELSE "none")
    BY <1>2, StartSetupOwn
  <2> HIDE DEF t
  <2>3. Same(s, t)
    BY <1>2, <2>2 DEF Same
  <2> QED
    BY <1>2, <1>6, <2>1, <2>2, <2>3
<1> QED
  BY <1>4, <1>5, <1>6

\* What is left saved is what the driver still has.
LEMMA ResetOwn ==
  ASSUME NEW s, Own(s), NEW erased \in BOOLEAN
  PROVE  LET t == ResetCredentials(s, erased)
         IN  /\ Own(t) /\ t.net \in {s.net, NoKey}
             /\ t.wrongKey = s.wrongKey /\ t.joined = s.joined /\ t.keyProven = s.keyProven
             /\ t.link = "up" => s.link = "up"
             /\ t.driverStopped = s.driverStopped
             /\ t.setupUp = s.setupUp /\ t.setupDownAt = s.setupDownAt
<1> DEFINE l == Leave(s)
           gone == [l EXCEPT !.net = NoKey, !.credsSaved = FALSE]
           kept == [s EXCEPT !.credsSaved = (s.net # NoKey)]
<1>1. s \in Owner /\ ResetCredentials(s, erased) = IF erased THEN gone ELSE kept
  BY DEF ResetCredentials, Own
<1>2. /\ Own(l) /\ Same(s, l) /\ l.link \notin {"trying", "up"}
      /\ l.driverStopped = s.driverStopped
      /\ l.setupUp = s.setupUp /\ l.setupDownAt = s.setupDownAt
  BY LeaveOwn
<1> HIDE DEF l
<1>3. CASE erased
  <2>1. /\ gone \in Owner /\ gone.net = NoKey /\ gone.link = l.link
        /\ gone.wrongKey = l.wrongKey /\ gone.joined = l.joined
        /\ gone.keyProven = l.keyProven /\ gone.driverStopped = l.driverStopped
        /\ gone.setupUp = l.setupUp /\ gone.setupDownAt = l.setupDownAt
    BY <1>2 DEF Own, Owner
  <2> HIDE DEF gone
  <2> QED
    BY <1>1, <1>2, <1>3, <2>1 DEF Own, Same
<1>4. CASE ~erased
  <2>1. /\ kept \in Owner /\ kept.net = s.net /\ kept.link = s.link
        /\ (s.net # NoKey => kept.credsSaved)
        /\ kept.wrongKey = s.wrongKey /\ kept.joined = s.joined
        /\ kept.keyProven = s.keyProven /\ kept.driverStopped = s.driverStopped
        /\ kept.setupUp = s.setupUp /\ kept.setupDownAt = s.setupDownAt
    BY <1>1 DEF Owner
  <2> HIDE DEF kept
  <2> QED
    BY <1>1, <1>4, <2>1 DEF Own
<1> QED
  BY <1>3, <1>4

\* A board that boots tries the network it has stored, or shows its own.
LEMMA BootedOwn ==
  ASSUME NEW net \in Keys \cup {NoKey}, NEW button \in BOOLEAN
  PROVE  LET b == Booted(net, button)
         IN  /\ Own(b) /\ b.link # "up" /\ ~b.wrongKey /\ b.setupDownAt = "none"
             /\ ~b.credsSaved => b.setupUp
<1> DEFINE s == [servicesUp |-> FALSE, setupUp |-> FALSE, setupDownAt |-> "none",
                 setupFresh |-> FALSE, retryDue |-> FALSE, longUnjoined |-> FALSE,
                 credsSaved |-> net # NoKey, keyProven |-> TRUE, driverStopped |-> FALSE,
                 refusals |-> FALSE, wrongKey |-> FALSE, joined |-> FALSE,
                 net |-> net, link |-> "idle", autoReconnect |-> TRUE]
<1>1. /\ Own(s) /\ s.link = "idle" /\ ~s.wrongKey /\ s.setupDownAt = "none" /\ ~s.setupUp
  BY DEF Own, Owner
<1>2. Booted(net, button) = IF button \/ ~Attempt(s).credsSaved THEN StartSetup(Attempt(s))
                            ELSE Attempt(s)
  BY DEF Booted
<1> HIDE DEF s
<1> DEFINE t == Attempt(s)
<1>3. /\ Own(t) /\ t.link # "up" /\ ~t.wrongKey /\ t.setupDownAt = "none" /\ ~t.setupUp
  BY <1>1, AttemptOwn DEF Same
<1> HIDE DEF t
<1>4. Booted(net, button) = IF button \/ ~t.credsSaved THEN StartSetup(t) ELSE t
  BY <1>2 DEF t
<1> QED
  BY <1>3, <1>4, StartSetupOwn DEF Same

-----------------------------------------------------------------------------
(* The inductive invariant: one lemma per action.                           *)

\* A boot starts afresh.
LEMMA BootsInv ==
  ASSUME NEW net \in Keys \cup {NoKey}, Boots(net), homeKey' \in Keys
  PROVE  IInv'
<1>1. PICK button \in BOOLEAN : w' = Booted(net, button)
  BY DEF Boots
<1>2. pc' = "joins" /\ h' = NoHistory
  BY DEF Boots
<1>3. /\ Own(w') /\ w'.link # "up" /\ ~w'.wrongKey /\ w'.setupDownAt = "none"
      /\ ~w'.credsSaved => w'.setupUp
  BY <1>1, BootedOwn
<1> QED
  BY <1>2, <1>3 DEF IInv, JoinProves, VerdictRight, SetupOwed, NoHistory, History, Own

\* What leaves the verdict's parts as they are keeps what is said of them.
LEMMA SameKept ==
  ASSUME IInv, UNCHANGED <<homeKey, h>>, pc' \in {"joins", "status", "down"},
         Own(w'), Same(w, w'), w'.link = "up" => w.link = "up", SetupOwed(w', h)
  PROVE  IInv'
  BY DEF IInv, JoinProves, VerdictRight, SetupOwed, Same, Own

\* The setup network ends while the board is joined or was; a join proves the key.
LEMMA TickJoinsInv ==
  ASSUME IInv, TickJoins
  PROVE  IInv'
<1> DEFINE d == [w EXCEPT !.setupDownAt = "none"]
           s == IF SetupOver(w) THEN StopSetup(d) ELSE w
           u == [s EXCEPT !.joined = FALSE, !.credsSaved = TRUE, !.keyProven = TRUE]
<1>1. /\ Own(d) /\ Same(w, d) /\ d.link = w.link /\ d.credsSaved = w.credsSaved
      /\ d.driverStopped = w.driverStopped
  BY DEF IInv, Own, Owner, Same
<1>2. /\ pc' = "status" /\ UNCHANGED <<homeKey, h>>
      /\ w' = IF s.joined THEN StartServices(u) ELSE s
  BY DEF TickJoins
<1> HIDE DEF d
<1>3. Own(s) /\ Same(w, s) /\ s.link = w.link /\ SetupOwed(s, h)
  BY <1>1, StopSetupOwn DEF SetupOver, IInv, SetupOwed, Same
<1> HIDE DEF s
<1>4. CASE ~s.joined
  BY <1>2, <1>3, <1>4, SameKept
<1>5. CASE s.joined
  <2>1. Own(u) /\ u.keyProven /\ u.credsSaved
    BY <1>3 DEF Own, Owner
  <2>2. w' = StartServices(u)
    BY <1>2, <1>5
  <2> HIDE DEF u
  <2>3. Own(w') /\ w'.keyProven /\ w'.credsSaved
    BY <2>1, <2>2, StartServicesOwn DEF Same
  <2> QED
    BY <1>2, <2>3 DEF IInv, JoinProves, VerdictRight, SetupOwed
<1> QED
  BY <1>4, <1>5

\* Services follow the connection.
LEMMA TickStatusInv ==
  ASSUME IInv, TickStatus
  PROVE  IInv'
<1> DEFINE s == [w EXCEPT !.longUnjoined = FALSE]
<1>1. CASE w.link = "up"
  <2>1. Own(s) /\ Same(w, s) /\ s.link = w.link /\ s.credsSaved
    BY <1>1 DEF IInv, Own, Owner, Same
  <2>2. w' = IF s.servicesUp THEN ArmSetupDown(s) ELSE StartServices(s)
    BY <1>1 DEF TickStatus
  <2>3. pc' = "joins" /\ UNCHANGED <<homeKey, h>>
    BY <1>1 DEF TickStatus
  <2> HIDE DEF s
  <2>4. Own(w') /\ Same(w, w') /\ w'.link = w.link /\ w'.credsSaved
    BY <2>1, <2>2, ArmSetupDownOwn, StartServicesOwn DEF Same
  <2> QED
    BY <2>3, <2>4, SameKept DEF SetupOwed
<1>2. CASE w.link # "up"
  <2>1. w' = StopServices(w) /\ pc' = "down" /\ UNCHANGED <<homeKey, h>>
    BY <1>2 DEF TickStatus
  <2>2. /\ Own(w') /\ Same(w, w') /\ w'.link = w.link /\ w'.credsSaved = w.credsSaved
        /\ w'.driverStopped = w.driverStopped
        /\ w'.setupUp = w.setupUp /\ w'.setupDownAt = w.setupDownAt
    BY <2>1, StopServicesOwn DEF IInv
  <2> QED
    BY <2>1, <2>2, SameKept DEF IInv, SetupOwed
<1> QED
  BY <1>1, <1>2

\* A typo is erased: the verdict goes with it, and the setup network comes up
\* unless it is on its way down.
LEMMA TickEraseInv ==
  ASSUME IInv, NEW erased \in BOOLEAN, TickErase(erased)
  PROVE  IInv'
<1> DEFINE r == ResetCredentials(w, erased)
           s == [r EXCEPT !.refusals = FALSE, !.wrongKey = FALSE]
<1>1. Own(r) /\ r.setupUp = w.setupUp /\ r.setupDownAt = w.setupDownAt
  BY ResetOwn DEF IInv
<1>2. /\ pc' = "joins" /\ w' = StaQuiet(StartSetup(s)) /\ UNCHANGED homeKey
      /\ h' = [NoHistory EXCEPT !.skipped = w.setupUp /\ w.setupDownAt # "none"]
  BY DEF TickErase
<1> HIDE DEF r
<1>3. /\ Own(s) /\ ~s.wrongKey
      /\ s.setupUp = w.setupUp /\ s.setupDownAt = w.setupDownAt
  BY <1>1 DEF Own, Owner
<1> HIDE DEF s
<1> DEFINE t == StartSetup(s)
<1>4. /\ Own(t) /\ ~t.wrongKey /\ t.setupUp
      /\ t.setupDownAt = (IF w.setupUp THEN w.setupDownAt ELSE "none")
  BY <1>3, StartSetupOwn DEF Same
<1>5. w' = StaQuiet(t)
  BY <1>2
<1> HIDE DEF t
<1>6. /\ Own(w') /\ ~w'.wrongKey /\ w'.setupUp /\ w'.link # "up"
      /\ w'.setupDownAt = (IF w.setupUp THEN w.setupDownAt ELSE "none")
  BY <1>4, <1>5, StaQuietOwn DEF Same
<1>7. h' \in History /\ (w'.setupDownAt # "none" => h'.skipped)
  <2>1. w.setupUp \in BOOLEAN
    BY DEF IInv, Own, Owner
  <2>2. h' \in History /\ h'.skipped = (w.setupUp /\ w.setupDownAt # "none")
    BY <1>2, <2>1 DEF NoHistory, History
  <2> QED BY <1>6, <2>1, <2>2
<1> QED
  BY <1>2, <1>6, <1>7 DEF IInv, JoinProves, VerdictRight, SetupOwed

\* A retry leaves an owner that is in order, and its verdict.
LEMMA RetriedOwn ==
  ASSUME NEW s, NEW k, Own(s), SetupOwed(s, k), NEW ok \in BOOLEAN
  PROVE  LET t == Retried(s, ok)
         IN  /\ Own(t) /\ Same(s, t) /\ SetupOwed(t, k)
             /\ t.link = "up" => s.link = "up"
<1> DEFINE u == [s EXCEPT !.retryDue = FALSE]
<1>1. CASE s.driverStopped
  BY <1>1, DriverStartOwn DEF Retried, SetupOwed, Same
<1>2. CASE ~s.driverStopped
  <2>1. /\ Own(u) /\ Same(s, u) /\ u.credsSaved = s.credsSaved /\ u.link = s.link
    BY DEF Own, Owner, Same
  <2>2. Retried(s, ok) = IF s.retryDue /\ s.credsSaved THEN Attempt(u) ELSE s
    BY <1>2 DEF Retried
  <2> HIDE DEF u
  <2> QED
    BY <2>1, <2>2, AttemptOwn DEF SetupOwed, Same
<1> QED
  BY <1>1, <1>2

\* The rest of a tick without a connection.
LEMMA TickDownInv ==
  ASSUME IInv, NEW ok \in BOOLEAN, NEW wrapped \in BOOLEAN, TickDown(ok, wrapped)
  PROVE  IInv'
<1> DEFINE q == IF w.setupUp /\ w.refusals /\ w.autoReconnect THEN StaQuiet(w) ELSE w
           s == Retried(q, ok)
<1>1. Own(q) /\ Same(w, q) /\ (q.link = "up" => w.link = "up") /\ SetupOwed(q, h)
  BY StaQuietOwn DEF IInv, SetupOwed, Same
<1>2. /\ pc' = "joins" /\ UNCHANGED <<homeKey, h>>
      /\ w' = IF s.credsSaved /\ ~s.driverStopped /\ ~s.setupUp
                      /\ (Unreachable(s) \/ (w.driverStopped /\ wrapped))
                 THEN StartSetup(s) ELSE s
  BY DEF TickDown
<1> HIDE DEF q
<1>3. Own(s) /\ Same(w, s) /\ (s.link = "up" => w.link = "up") /\ SetupOwed(s, h)
  BY <1>1, RetriedOwn DEF Same
<1> HIDE DEF s
<1>4. Own(w') /\ Same(w, w') /\ (w'.link = "up" => w.link = "up") /\ SetupOwed(w', h)
  BY <1>2, <1>3, StartSetupOwn DEF Same, SetupOwed
<1> QED
  BY <1>2, <1>4, SameKept

\* A key typed has not joined, and a verdict still held is on the one before.
LEMMA WifiJoinInv ==
  ASSUME IInv, NEW key \in Keys, WifiJoin(key)
  PROVE  IInv'
<1>1. /\ Own(w') /\ w'.link = "trying" /\ w'.credsSaved /\ w'.wrongKey = w.wrongKey
  <2> DEFINE u == [w EXCEPT !.refusals = FALSE, !.longUnjoined = FALSE, !.retryDue = FALSE,
                            !.autoReconnect = TRUE]
             t == [u EXCEPT !.net = key, !.link = "trying"]
             v == [t EXCEPT !.credsSaved = TRUE, !.keyProven = FALSE]
  <2>1. w \in Owner /\ (w.setupDownAt # "none" => w.setupUp)
    BY DEF IInv, Own
  <2>2. w' = v
    BY <2>1 DEF WifiJoin
  <2>3. /\ u \in Owner /\ u.wrongKey = w.wrongKey
        /\ u.setupUp = w.setupUp /\ u.setupDownAt = w.setupDownAt
    BY <2>1 DEF Owner
  <2> HIDE DEF u
  <2>4. /\ t \in Owner /\ t.link = "trying" /\ t.net = key /\ t.wrongKey = u.wrongKey
        /\ t.setupUp = u.setupUp /\ t.setupDownAt = u.setupDownAt
    BY <2>3 DEF Owner
  <2> HIDE DEF t
  <2>5. /\ v \in Owner /\ v.link = t.link /\ v.net = t.net /\ v.wrongKey = t.wrongKey
        /\ v.credsSaved /\ v.setupUp = t.setupUp /\ v.setupDownAt = t.setupDownAt
    BY <2>4 DEF Owner
  <2> HIDE DEF v
  <2> QED
    BY <2>1, <2>2, <2>3, <2>4, <2>5, KeysAssumption DEF Own
<1>2. h' \in History /\ h'.stale = w.wrongKey
  BY DEF WifiJoin, IInv, History, Own, Owner
<1>3. UNCHANGED <<pc, homeKey>>
  BY DEF WifiJoin
<1> QED
  BY <1>1, <1>2, <1>3 DEF IInv, JoinProves, VerdictRight, SetupOwed

\* Down for a sleep, and up after it.
LEMMA SleepInv ==
  ASSUME IInv, NEW ok \in BOOLEAN, Sleep(ok)
  PROVE  IInv'
<1> DEFINE s == StopSetup(StopServices(w))
           z == [s EXCEPT !.link = "off", !.driverStopped = TRUE]
<1>1. Own(s) /\ Same(w, s) /\ ~s.setupUp /\ s.setupDownAt = "none"
  BY StopServicesOwn, StopSetupOwn DEF IInv, Same
<1>2. /\ UNCHANGED <<pc, homeKey>> /\ h' = [h EXCEPT !.skipped = FALSE]
      /\ w' = DriverStart(z, ok)
  BY DEF Sleep, WifiSuspend
<1> HIDE DEF s
<1>3. /\ Own(z) /\ Same(w, z) /\ z.setupDownAt = "none" /\ z.link = "off" /\ z.driverStopped
  BY <1>1 DEF Own, Owner, Same
<1> HIDE DEF z
<1>4. /\ Own(w') /\ Same(w, w') /\ w'.link # "up" /\ w'.setupDownAt = "none"
      /\ ~w'.credsSaved => w'.driverStopped \/ w'.setupUp
  BY <1>2, <1>3, DriverStartOwn DEF Same
<1>5. h' \in History /\ h'.stale = h.stale /\ h'.early = h.early
  BY <1>2 DEF IInv, History
<1> QED
  BY <1>2, <1>4, <1>5 DEF IInv, JoinProves, VerdictRight, SetupOwed, Same

\* The driver's events: a network lost or refused is still stored, and the
\* verdict is on the key refused.
LEMMA EventsInv ==
  ASSUME IInv, Events
  PROVE  IInv'
<1>1. /\ Own(w) /\ h \in History /\ UNCHANGED <<pc, homeKey>>
  BY DEF IInv, Events, GotIp, AuthFailed, HandshakeTimeout, Lost
<1>2. CASE GotIp
  <2>1. /\ Own(w') /\ w'.joined /\ w'.credsSaved = w.credsSaved /\ UNCHANGED h
        /\ w'.driverStopped = w.driverStopped
        /\ w'.setupUp = w.setupUp /\ w'.setupDownAt = w.setupDownAt
    BY <1>1, <1>2 DEF GotIp, Own, Owner
  <2> QED
    BY <1>1, <2>1 DEF IInv, JoinProves, VerdictRight, SetupOwed
<1>3. ASSUME NEW refused \in BOOLEAN, NEW wrong \in BOOLEAN, Disconnected(refused, wrong)
      PROVE  /\ Own(w') /\ w'.link # "up" /\ w'.wrongKey = wrong
             /\ w'.net = w.net /\ w'.joined = w.joined /\ w'.keyProven = w.keyProven
             /\ w'.credsSaved = w.credsSaved /\ w'.driverStopped = w.driverStopped
             /\ w'.setupUp = w.setupUp /\ w'.setupDownAt = w.setupDownAt
  <2>1. PICK link \in AfterDrop :
            w' = [w EXCEPT !.refusals = refused, !.wrongKey = wrong, !.link = link]
    BY <1>3 DEF Disconnected
  <2>2. link \in {"trying", "idle"} /\ (link = "trying" => w.net # NoKey)
    BY <1>1, <2>1 DEF AfterDrop, Own
  <2>3. /\ w \in Owner /\ (w.setupDownAt # "none" => w.setupUp)
        /\ w.net # NoKey => w.credsSaved
    BY <1>1 DEF Own
  <2> DEFINE u == [w EXCEPT !.refusals = refused]
             v == [u EXCEPT !.wrongKey = wrong, !.link = link]
  <2>4. w' = v
    BY <2>1, <2>3
  <2>5. /\ u \in Owner /\ Same(w, u) /\ u.credsSaved = w.credsSaved
        /\ u.driverStopped = w.driverStopped
        /\ u.setupUp = w.setupUp /\ u.setupDownAt = w.setupDownAt
    BY <2>3 DEF Owner, Same
  <2> HIDE DEF u
  <2>6. /\ v \in Owner /\ v.link = link /\ v.wrongKey = wrong
        /\ v.net = u.net /\ v.joined = u.joined /\ v.keyProven = u.keyProven
        /\ v.credsSaved = u.credsSaved /\ v.driverStopped = u.driverStopped
        /\ v.setupUp = u.setupUp /\ v.setupDownAt = u.setupDownAt
    BY <2>2, <2>5 DEF Owner
  <2> HIDE DEF v
  <2> QED
    BY <2>2, <2>3, <2>4, <2>5, <2>6 DEF Own, Same
<1>4. CASE AuthFailed
  <2>1. /\ Disconnected(TRUE, TRUE)
        /\ h' = [h EXCEPT !.stale = FALSE, !.early = w.net = homeKey /\ w.link # "up" /\ ~w.joined]
    BY <1>4 DEF AuthFailed
  <2>2. /\ h' \in History /\ h'.skipped = h.skipped
        /\ h'.early = (w.net = homeKey /\ w.link # "up" /\ ~w.joined)
    BY <1>1, <2>1 DEF History, Own, Owner
  <2>3. w.link = "up" => w.joined \/ w.keyProven
    BY DEF IInv, JoinProves
  <2> QED
    BY <1>1, <1>3, <2>1, <2>2, <2>3 DEF IInv, JoinProves, VerdictRight, SetupOwed
<1>5. CASE HandshakeTimeout
  <2>1. Disconnected(TRUE, FALSE) /\ UNCHANGED h
    BY <1>5 DEF HandshakeTimeout
  <2> QED
    BY <1>1, <1>3, <2>1 DEF IInv, JoinProves, VerdictRight, SetupOwed
<1>6. CASE Lost
  <2>1. Disconnected(FALSE, FALSE) /\ UNCHANGED h
    BY <1>6 DEF Lost
  <2> QED
    BY <1>1, <1>3, <2>1 DEF IInv, JoinProves, VerdictRight, SetupOwed
<1> QED
  BY <1>2, <1>4, <1>5, <1>6 DEF Events

\* The home network's key changes, and a time passes.
LEMMA OutsideInv ==
  ASSUME IInv, HomeChanges \/ Time
  PROVE  IInv'
<1>1. CASE HomeChanges
  <2>1. /\ w.link # "up" /\ UNCHANGED <<pc, w>> /\ homeKey' \in Keys
        /\ h' = [h EXCEPT !.stale = w.wrongKey, !.early = FALSE]
    BY <1>1 DEF HomeChanges
  <2>2. h' \in History /\ h'.skipped = h.skipped /\ h'.stale = w.wrongKey
    BY <2>1 DEF IInv, History, Own, Owner
  <2> QED
    BY <2>1, <2>2 DEF IInv, JoinProves, VerdictRight, SetupOwed
<1>2. CASE Time
  <2>1. /\ Own(w') /\ Same(w, w') /\ w'.link = w.link /\ w'.credsSaved = w.credsSaved
        /\ w'.driverStopped = w.driverStopped /\ w'.setupUp = w.setupUp
        /\ w'.setupDownAt # "none" => w.setupDownAt # "none"
    <3> USE DEF IInv, Own, Owner, Same
    <3>1. CASE RetryComesDue
      BY <3>1 DEF RetryComesDue
    <3>2. CASE TenMinutes
      BY <3>2 DEF TenMinutes
    <3>3. CASE SetupEnds
      BY <3>3 DEF SetupEnds
    <3>4. CASE SetupAges
      BY <3>4 DEF SetupAges
    <3> QED
      BY <1>2, <3>1, <3>2, <3>3, <3>4 DEF Time, Passes
  <2>2. UNCHANGED <<pc, homeKey, h>>
    BY <1>2 DEF Time, Passes
  <2> QED
    BY <2>1, <2>2, SameKept DEF IInv, SetupOwed
<1> QED
  BY <1>1, <1>2

\* Whatever the network, the driver and a person do, what the owner keeps of them
\* stays in order.
THEOREM WlanInductive == Spec => []IInv
<1>1. Init => IInv
  <2> SUFFICES ASSUME Init PROVE IInv
    OBVIOUS
  <2>1. PICK net \in Keys \cup {NoKey}, button \in BOOLEAN : w = Booted(net, button)
    BY DEF Init
  <2>2. /\ Own(w) /\ w.link # "up" /\ ~w.wrongKey /\ w.setupDownAt = "none"
        /\ ~w.credsSaved => w.setupUp
    BY <2>1, BootedOwn
  <2> QED
    BY <2>2 DEF Init, IInv, JoinProves, VerdictRight, SetupOwed, NoHistory, History
<1>2. IInv /\ [Next]_vars => IInv'
  <2> SUFFICES ASSUME IInv, [Next]_vars PROVE IInv'
    OBVIOUS
  <2>1. w.net \in Keys \cup {NoKey} /\ homeKey \in Keys
    BY DEF IInv, Own, Owner
  <2>2. CASE Calm
    BY <2>2, TickJoinsInv, TickStatusInv, TickEraseInv, TickDownInv, EventsInv, OutsideInv
       DEF Calm, Tick
  <2>3. CASE Reboot \/ WifiReset
    BY <2>1, <2>3, BootsInv DEF Reboot, WifiReset
  <2>4. CASE UNCHANGED vars
    BY <2>4 DEF vars, IInv
  <2> QED
    BY <2>2, <2>3, <2>4, OutsideInv, WifiJoinInv, SleepInv DEF Next
<1> QED
  BY <1>1, <1>2, PTL DEF Spec

-----------------------------------------------------------------------------
(* What follows                                                             *)

\* A board that knows no network can be told one: its setup network is up, but
\* where a typo was erased while it was on its way down.
THEOREM CanBeToldANetwork == Spec => []UnprovisionedHasSetup
<1>1. IInv => UnprovisionedHasSetup
  BY DEF IInv, UnprovisionedHasSetup, TypeOK, Own, SetupOwed
<1> QED
  BY <1>1, WlanInductive, PTL

\* A tick erases no key the home network takes, but on a verdict on the key
\* before it, on an authentication that failed before it had joined, or under a
\* join it has not looked at.
THEOREM RightKeyStays == Spec => RightKeyKept
<1>1. IInv /\ [Next]_vars =>
        [(pc = "down" /\ w.net = homeKey /\ w'.net = NoKey) => h.stale \/ h.early \/ w.joined]_vars
  <2> SUFFICES ASSUME IInv, Next, pc = "down", w.net = homeKey, w'.net = NoKey
               PROVE  h.stale \/ h.early \/ w.joined
    BY DEF vars
  <2>1. Own(w) /\ w.net # NoKey
    BY KeysAssumption DEF IInv
  <2>2. CASE \E erased \in BOOLEAN : TickErase(erased)
    BY <2>2 DEF TickErase, Typo, IInv, VerdictRight
  <2>3. ASSUME NEW ok \in BOOLEAN, NEW wrapped \in BOOLEAN, TickDown(ok, wrapped) PROVE FALSE
    <3>1. IInv
      OBVIOUS
    <3> DEFINE q == IF w.setupUp /\ w.refusals /\ w.autoReconnect THEN StaQuiet(w) ELSE w
               s == Retried(q, ok)
    <3>2. Own(q) /\ Same(w, q) /\ SetupOwed(q, h)
      BY StaQuietOwn DEF IInv, SetupOwed, Same
    <3>3. w' = s \/ w' = StartSetup(s)
      BY <2>3 DEF TickDown
    <3> HIDE DEF q
    <3>4. Own(s) /\ Same(w, s)
      BY <3>2, RetriedOwn DEF Same
    <3> HIDE DEF s
    <3> QED
      BY <2>1, <3>3, <3>4, StartSetupOwn DEF Same
  <2>4. ASSUME Events \/ Time \/ HomeChanges PROVE w'.net = w.net
    BY <2>1, <2>4 DEF Events, GotIp, AuthFailed, HandshakeTimeout, Lost, Disconnected, Time, Passes,
       RetryComesDue, TenMinutes, SetupEnds, SetupAges, HomeChanges, Own, Owner
  <2>5. ASSUME Reboot PROVE w'.net = w.net
    <3>1. PICK button \in BOOLEAN : w' = Booted(w.net, button)
      BY <2>5 DEF Reboot, Boots
    <3> QED
      BY <3>1 DEF Booted, Attempt, StartSetup, StaQuiet, Leave
  <2> QED
    BY <2>1, <2>2, <2>3, <2>4, <2>5
       DEF Next, Calm, Tick, TickJoins, TickStatus, WifiJoin, WifiReset, Sleep
<1> QED
  BY <1>1, WlanInductive, PTL DEF Spec, RightKeyKept

-----------------------------------------------------------------------------
(* Poller: whose the lines are that are on their way.                       *)

\* No prompt from the a-th line to the z-th.
NoPrompt(q, a, z) == \A i \in a .. z : ~IsPrompt(q[i])
Said(line) == line.kind \in {"echo", "out"}

\* What is said behind the b-th line, up to the next prompt, is c's.
AnswerOf(q, c, b) ==
    \A j \in b + 1 .. Len(q) : NoPrompt(q, b + 1, j - 1) /\ Said(q[j]) => q[j].of = c

\* And what the MBB goes on to say is.
Speaks(q, m, c, b) ==
    /\ AnswerOf(q, c, b)
    /\ NoPrompt(q, b + 1, Len(q)) => m.answering = c \/ ~m.high

\* So it is behind every echo.
Echoes(line, c) == line.kind \in {"echo", "prompt", "apart"} /\ line.of = c
Heard(q, m) == \A k \in 1 .. Len(q) : \A c \in Cmds : Echoes(q[k], c) => Speaks(q, m, c, k)

\* A batch has no command waiting but its own, unless it is to be finished.
Alone(todo, fin) == todo = <<>> \/ fin

\* The MBB is at c, or takes it up next.
Comes(q, m, c, fin, b) ==
    NoPrompt(q, b + 1, Len(q)) =>
        \/ ~m.high
        \/ m.answering = c /\ Alone(m.todo, fin)
        \/ /\ m.answering = None /\ m.todo # <<>> /\ Head(m.todo) = c /\ Alone(Tail(m.todo), fin)
           /\ \A i \in b + 1 .. Len(q) : ~Said(q[i])

\* The prompt that ends there is bare, and nothing comes behind it.
EndsThere(q, m, fin, b) ==
    \A e \in b + 1 .. Len(q) :
        IsPrompt(q[e]) /\ NoPrompt(q, b + 1, e - 1) =>
            \/ fin
            \/ /\ q[e] = Line("prompt", None) /\ m.answering = None /\ m.todo = <<>>
               /\ \A i \in e + 1 .. Len(q) : q[i].kind = "stopping"

\* From behind the b-th line on it is c's answer, all of it.
Ours(q, m, c, fin, b) == AnswerOf(q, c, b) /\ Comes(q, m, c, fin, b) /\ EndsThere(q, m, fin, b)

\* No prompt there without a line of an answer before it.
Begun(q, m, c, b) ==
    /\ \A e \in b + 1 .. Len(q) : IsPrompt(q[e]) => \E i \in b + 1 .. e - 1 : Said(q[i])
    /\ m.answering = c /\ NoPrompt(q, b + 1, Len(q)) => \E i \in b + 1 .. Len(q) : Said(q[i])

\* A batch's command is being answered;
OwnNow(q, m, r) ==
    /\ r.buf \subseteq {r.cur} /\ Ours(q, m, r.cur, r.finishAfterThis, 0)
    /\ r.expectEcho => Begun(q, m, r.cur, 0)

\* or will be from behind what is left from before the batch;
OwnStale(q, m, r) ==
    /\ r.expectEcho
    /\ \E b \in 1 .. Len(q) :
          /\ \A i \in 1 .. b : q[i] \in {Line("prompt", None), Line("stopping", None)}
          /\ Begun(q, m, r.cur, b) /\ Ours(q, m, r.cur, r.finishAfterThis, b)

\* or from behind the prompt that ends an older answer;
OwnBehind(q, m, r) ==
    \E b \in 1 .. Len(q) :
        /\ NoPrompt(q, 1, b - 1) /\ IsPrompt(q[b])
        /\ \/ q[b].of = r.cur
           \/ q[b] = Line("apart", None) /\ Begun(q, m, r.cur, b)
        /\ Ours(q, m, r.cur, r.finishAfterThis, b)

\* or when the MBB has ended that, and takes it up next.
OwnNext(q, m, r) ==
    /\ NoPrompt(q, 1, Len(q))
    /\ \/ ~m.high
       \/ m.answering # None /\ m.todo # <<>> /\ Head(m.todo) = r.cur /\ Alone(Tail(m.todo), r.finishAfterThis)
       \/ /\ m.answering = None /\ Len(m.todo) >= 2 /\ m.todo[2] = r.cur
          /\ Len(m.todo) = 2 \/ r.finishAfterThis

RunInv(q, m, r) ==
    r.running => OwnNow(q, m, r) \/ OwnStale(q, m, r) \/ OwnBehind(q, m, r) \/ OwnNext(q, m, r)

\* What a batch has whatever is on its way.
Underway(r) == r.running => r.wasAwake /\ (r.expectEcho => r.buf = {})

WatchInv(q, m, r) ==
    ~r.running => IF r.watch = None THEN r.buf = {}
                  ELSE r.buf \subseteq {r.watch} /\ Speaks(q, m, r.watch, 0)

MbbInv(q, m, r) ==
    /\ ~m.high => m.answering = None /\ m.todo = <<>>
    /\ m.high => m.awake
    /\ ~m.awake => q = <<>> /\ (~r.wasAwake => r.watch = None)
    /\ m.awake /\ ~m.high => r.wasAwake

PollerInv ==
    /\ PollerTypeOK /\ MbbInv(lines, mbb, p) /\ Heard(lines, mbb)
    /\ WatchInv(lines, mbb, p) /\ Underway(p) /\ (~adrift => RunInv(lines, mbb, p))

-----------------------------------------------------------------------------
(* The queue loses its first line.                                          *)

\* What the queue is then.
LEMMA TailQueue ==
    ASSUME NEW q \in Seq(Lines), q # <<>>
    PROVE  /\ Tail(q) \in Seq(Lines) /\ Len(q) \in Nat \ {0} /\ Len(Tail(q)) = Len(q) - 1
           /\ Head(q) = q[1] /\ q[1] \in Lines
           /\ \A i \in 1 .. Len(q) - 1 : Tail(q)[i] = q[i + 1]
<1>1. Head(q) = q[1]
  OBVIOUS
<1>2. Len(q) \in Nat \ {0}
  BY EmptySeq
<1> QED BY <1>1, <1>2, HeadTailProperties, ElementOfSeq

\* The place b of a queue is the place d of its tail.
Shifts(q, b, d) == (b \in 1 .. Len(q) /\ d = b - 1) \/ (b = 0 /\ d = 0 /\ ~IsPrompt(q[1]))

\* Where there is no prompt, there is none there either.
LEMMA NoPromptTail ==
    ASSUME NEW q \in Seq(Lines), q # <<>>, NEW b, NEW d, Shifts(q, b, d)
    PROVE  /\ b \in 0 .. Len(q) /\ d \in 0 .. Len(q) - 1 /\ b - 1 <= d /\ d <= b
           /\ \A z \in 0 .. Len(q) - 1 : NoPrompt(Tail(q), d + 1, z) <=> NoPrompt(q, b + 1, z + 1)
<1> DEFINE s == Tail(q)
<1>1. Len(q) \in Nat \ {0} /\ \A i \in 1 .. Len(q) - 1 : s[i] = q[i + 1]
  BY TailQueue
<1>2. b \in 0 .. Len(q) /\ d \in 0 .. Len(q) - 1 /\ b - 1 <= d /\ d <= b
  BY <1>1 DEF Shifts
<1> HIDE DEF s
<1>3. ASSUME NEW z \in 0 .. Len(q) - 1 PROVE NoPrompt(s, d + 1, z) <=> NoPrompt(q, b + 1, z + 1)
  <2>1. ASSUME NoPrompt(q, b + 1, z + 1), NEW i \in d + 1 .. z PROVE ~IsPrompt(s[i])
    <3>1. i \in 1 .. Len(q) - 1 /\ i + 1 \in b + 1 .. z + 1
      BY <1>1, <1>2
    <3> QED BY <2>1, <3>1, <1>1 DEF NoPrompt
  <2>2. ASSUME NoPrompt(s, d + 1, z), NEW i \in b + 1 .. z + 1 PROVE ~IsPrompt(q[i])
    <3>1. CASE i = 1 /\ b = 0
      BY <3>1 DEF Shifts
    <3>2. CASE ~(i = 1 /\ b = 0)
      <4>1. i - 1 \in d + 1 .. z /\ i - 1 \in 1 .. Len(q) - 1 /\ (i - 1) + 1 = i
        BY <1>1, <1>2, <3>2 DEF Shifts
      <4> QED BY <2>2, <4>1, <1>1 DEF NoPrompt
    <3> QED BY <3>1, <3>2
  <2> QED BY <2>1, <2>2 DEF NoPrompt
<1> QED BY <1>2, <1>3 DEF s

\* What is said behind a place is said by the same command.
LEMMA AnswerOfTail ==
    ASSUME NEW q \in Seq(Lines), q # <<>>, NEW b, NEW d, Shifts(q, b, d), NEW c,
           AnswerOf(q, c, b)
    PROVE  AnswerOf(Tail(q), c, d)
<1> DEFINE s == Tail(q)
<1>1. Len(q) \in Nat \ {0} /\ Len(s) = Len(q) - 1 /\ \A i \in 1 .. Len(q) - 1 : s[i] = q[i + 1]
  BY TailQueue
<1>2. /\ b \in 0 .. Len(q) /\ d \in 0 .. Len(q) - 1 /\ b - 1 <= d /\ d <= b
      /\ \A z \in 0 .. Len(q) - 1 : NoPrompt(s, d + 1, z) <=> NoPrompt(q, b + 1, z + 1)
  BY NoPromptTail
<1> HIDE DEF s
<1>3. SUFFICES ASSUME NEW j \in d + 1 .. Len(s), NoPrompt(s, d + 1, j - 1), Said(s[j])
               PROVE  s[j].of = c
  BY DEF AnswerOf, s
<1>4. /\ j + 1 \in b + 1 .. Len(q) /\ j \in 1 .. Len(q) - 1
      /\ j - 1 \in 0 .. Len(q) - 1 /\ (j + 1) - 1 = j /\ (j - 1) + 1 = j
  BY <1>1, <1>2
<1>5. NoPrompt(q, b + 1, (j + 1) - 1) /\ s[j] = q[j + 1]
  BY <1>1, <1>2, <1>3, <1>4
<1> QED BY <1>3, <1>4, <1>5 DEF AnswerOf

\* And it goes on to be.
LEMMA SpeaksTail ==
    ASSUME NEW q \in Seq(Lines), q # <<>>, NEW b, NEW d, Shifts(q, b, d), NEW m, NEW c,
           Speaks(q, m, c, b)
    PROVE  Speaks(Tail(q), m, c, d)
<1>1. Len(q) \in Nat \ {0} /\ Len(Tail(q)) = Len(q) - 1
  BY TailQueue
<1>2. NoPrompt(Tail(q), d + 1, Len(q) - 1) <=> NoPrompt(q, b + 1, (Len(q) - 1) + 1)
  BY <1>1, NoPromptTail
<1>3. (Len(q) - 1) + 1 = Len(q)
  BY <1>1
<1>4. NoPrompt(Tail(q), d + 1, Len(Tail(q))) => NoPrompt(q, b + 1, Len(q))
  BY <1>1, <1>2, <1>3
<1> QED BY <1>4, AnswerOfTail DEF Speaks

\* Each echo left has its answer behind it, and so had the one that goes.
LEMMA HeardTail ==
    ASSUME NEW q \in Seq(Lines), q # <<>>, NEW m, Heard(q, m)
    PROVE  /\ Heard(Tail(q), m)
           /\ \A c \in Cmds : Echoes(Head(q), c) => Speaks(Tail(q), m, c, 0)
<1>1. /\ Len(q) \in Nat \ {0} /\ Len(Tail(q)) = Len(q) - 1 /\ Head(q) = q[1]
      /\ \A i \in 1 .. Len(q) - 1 : Tail(q)[i] = q[i + 1]
  BY TailQueue
<1>2. ASSUME NEW k \in 1 .. Len(q), NEW c \in Cmds, Echoes(q[k], c)
      PROVE  Speaks(Tail(q), m, c, k - 1)
  BY <1>2, SpeaksTail, <1>1 DEF Heard, Shifts
<1>3. ASSUME NEW k \in 1 .. Len(Tail(q)), NEW c \in Cmds, Echoes(Tail(q)[k], c)
      PROVE  Speaks(Tail(q), m, c, k)
  <2>1. k + 1 \in 1 .. Len(q) /\ (k + 1) - 1 = k /\ Echoes(q[k + 1], c)
    BY <1>1, <1>3
  <2>2. Speaks(Tail(q), m, c, (k + 1) - 1)
    BY <2>1, <1>2
  <2> QED BY <2>1, <2>2
<1>4. ASSUME NEW c \in Cmds, Echoes(Head(q), c) PROVE Speaks(Tail(q), m, c, 0)
  <2>1. 1 \in 1 .. Len(q) /\ Echoes(q[1], c) /\ 1 - 1 = 0
    BY <1>1, <1>4
  <2>2. Speaks(Tail(q), m, c, 1 - 1)
    BY <2>1, <1>2
  <2> QED BY <2>1, <2>2
<1> QED BY <1>3, <1>4 DEF Heard

\* A command's answer stays its own.
LEMMA OursTail ==
    ASSUME NEW q \in Seq(Lines), q # <<>>, NEW b, NEW d, Shifts(q, b, d), NEW m, NEW c, NEW fin,
           Ours(q, m, c, fin, b)
    PROVE  Ours(Tail(q), m, c, fin, d)
<1> DEFINE s == Tail(q)
<1>1. Len(q) \in Nat \ {0} /\ Len(s) = Len(q) - 1 /\ \A i \in 1 .. Len(q) - 1 : s[i] = q[i + 1]
  BY TailQueue
<1>2. /\ b \in 0 .. Len(q) /\ d \in 0 .. Len(q) - 1 /\ b - 1 <= d /\ d <= b
      /\ \A z \in 0 .. Len(q) - 1 : NoPrompt(s, d + 1, z) <=> NoPrompt(q, b + 1, z + 1)
  BY NoPromptTail
<1>3. AnswerOf(s, c, d)
  BY AnswerOfTail DEF Ours
<1> HIDE DEF s
<1>4. Comes(s, m, c, fin, d)
  <2>1. SUFFICES ASSUME NoPrompt(s, d + 1, Len(s))
                 PROVE  \/ ~m.high
                        \/ m.answering = c /\ Alone(m.todo, fin)
                        \/ /\ m.answering = None /\ m.todo # <<>> /\ Head(m.todo) = c /\ Alone(Tail(m.todo), fin)
                           /\ \A i \in d + 1 .. Len(s) : ~Said(s[i])
    BY DEF Comes
  <2>2. Len(s) \in 0 .. Len(q) - 1 /\ Len(s) + 1 = Len(q)
    BY <1>1
  <2>3. NoPrompt(q, b + 1, Len(q))
    BY <2>1, <2>2, <1>2
  <2>4. ASSUME \A i \in b + 1 .. Len(q) : ~Said(q[i]), NEW i \in d + 1 .. Len(s) PROVE ~Said(s[i])
    <3>1. i + 1 \in b + 1 .. Len(q) /\ i \in 1 .. Len(q) - 1
      BY <1>1, <1>2
    <3> QED BY <3>1, <2>4, <1>1
  <2> QED BY <2>3, <2>4 DEF Ours, Comes
<1>5. EndsThere(s, m, fin, d)
  <2>1. SUFFICES ASSUME NEW e \in d + 1 .. Len(s), IsPrompt(s[e]), NoPrompt(s, d + 1, e - 1), ~fin
                 PROVE  /\ s[e] = Line("prompt", None) /\ m.answering = None /\ m.todo = <<>>
                        /\ \A i \in e + 1 .. Len(s) : s[i].kind = "stopping"
    BY DEF EndsThere
  <2>2. /\ e + 1 \in b + 1 .. Len(q) /\ e \in 1 .. Len(q) - 1
        /\ e - 1 \in 0 .. Len(q) - 1 /\ (e + 1) - 1 = e /\ (e - 1) + 1 = e
    BY <1>1, <1>2
  <2>3. NoPrompt(q, b + 1, (e + 1) - 1) /\ s[e] = q[e + 1]
    BY <1>1, <1>2, <2>1, <2>2
  <2>4. /\ q[e + 1] = Line("prompt", None) /\ m.answering = None /\ m.todo = <<>>
        /\ \A i \in (e + 1) + 1 .. Len(q) : q[i].kind = "stopping"
    BY <2>1, <2>2, <2>3 DEF Ours, EndsThere
  <2>5. ASSUME NEW i \in e + 1 .. Len(s) PROVE s[i].kind = "stopping"
    <3>1. i + 1 \in (e + 1) + 1 .. Len(q) /\ i \in 1 .. Len(q) - 1
      BY <1>1, <2>2
    <3> QED BY <3>1, <2>4, <1>1
  <2> QED BY <2>3, <2>4, <2>5
<1> QED BY <1>3, <1>4, <1>5 DEF Ours, s

\* A line that is no answer's goes.
LEMMA BegunTail ==
    ASSUME NEW q \in Seq(Lines), q # <<>>, NEW b, NEW d, Shifts(q, b, d), NEW m, NEW c,
           Begun(q, m, c, b), b = 0 => ~Said(q[1])
    PROVE  Begun(Tail(q), m, c, d)
<1> DEFINE s == Tail(q)
<1>1. Len(q) \in Nat \ {0} /\ Len(s) = Len(q) - 1 /\ \A i \in 1 .. Len(q) - 1 : s[i] = q[i + 1]
  BY TailQueue
<1>2. /\ b \in 0 .. Len(q) /\ d \in 0 .. Len(q) - 1 /\ b - 1 <= d /\ d <= b
      /\ \A z \in 0 .. Len(q) - 1 : NoPrompt(s, d + 1, z) <=> NoPrompt(q, b + 1, z + 1)
  BY NoPromptTail
<1> HIDE DEF s
<1>3. ASSUME NEW z \in 0 .. Len(s), \E i \in b + 1 .. z + 1 : Said(q[i])
      PROVE  \E i \in d + 1 .. z : Said(s[i])
  <2>1. PICK i \in b + 1 .. z + 1 : Said(q[i])
    BY <1>3
  <2>2. i # 1 \/ b # 0
    BY <2>1
  <2>3. i - 1 \in d + 1 .. z /\ i - 1 \in 1 .. Len(q) - 1 /\ (i - 1) + 1 = i
    BY <1>1, <1>2, <2>2 DEF Shifts
  <2> QED BY <2>1, <2>3, <1>1
<1>4. ASSUME NEW e \in d + 1 .. Len(s), IsPrompt(s[e]) PROVE \E i \in d + 1 .. e - 1 : Said(s[i])
  <2>1. /\ e + 1 \in b + 1 .. Len(q) /\ s[e] = q[e + 1]
        /\ e - 1 \in 0 .. Len(s) /\ (e + 1) - 1 = (e - 1) + 1
    BY <1>1, <1>2
  <2>2. \E i \in b + 1 .. (e + 1) - 1 : Said(q[i])
    BY <2>1, <1>4 DEF Begun
  <2> QED BY <2>1, <2>2, <1>3
<1>5. ASSUME m.answering = c, NoPrompt(s, d + 1, Len(s)) PROVE \E i \in d + 1 .. Len(s) : Said(s[i])
  <2>1. Len(s) \in 0 .. Len(q) - 1 /\ Len(s) + 1 = Len(q) /\ Len(s) \in 0 .. Len(s)
    BY <1>1
  <2>2. NoPrompt(q, b + 1, Len(q))
    BY <2>1, <1>2, <1>5
  <2> QED BY <2>1, <2>2, <1>3, <1>5 DEF Begun
<1> QED BY <1>4, <1>5 DEF Begun, s

-----------------------------------------------------------------------------
(* The queue takes a line more.                                             *)

\* What the queue is then.
LEMMA AddQueue ==
    ASSUME NEW q \in Seq(Lines), NEW l \in Lines
    PROVE  /\ Append(q, l) \in Seq(Lines) /\ Len(q) \in Nat /\ Len(Append(q, l)) = Len(q) + 1
           /\ Append(q, l)[Len(q) + 1] = l
           /\ \A i \in 1 .. Len(q) : Append(q, l)[i] = q[i]
BY AppendProperties

\* No prompt comes in but the new line.
LEMMA NoPromptAdd ==
    ASSUME NEW q \in Seq(Lines), NEW l \in Lines, NEW a \in 1 .. Len(q) + 1
    PROVE  /\ \A z \in 0 .. Len(q) : NoPrompt(Append(q, l), a, z) <=> NoPrompt(q, a, z)
           /\ NoPrompt(Append(q, l), a, Len(Append(q, l)))
                  <=> NoPrompt(q, a, Len(q)) /\ ~IsPrompt(l)
<1> DEFINE s == Append(q, l)
<1>1. /\ Len(q) \in Nat /\ Len(s) = Len(q) + 1 /\ s[Len(q) + 1] = l
      /\ \A i \in 1 .. Len(q) : s[i] = q[i]
  BY AddQueue
<1> HIDE DEF s
<1>2. ASSUME NEW z \in 0 .. Len(q) PROVE NoPrompt(s, a, z) <=> NoPrompt(q, a, z)
  <2>1. \A i \in a .. z : i \in 1 .. Len(q)
    BY <1>1
  <2> QED BY <2>1, <1>1 DEF NoPrompt
<1>3. NoPrompt(s, a, Len(s)) <=> NoPrompt(q, a, Len(q)) /\ ~IsPrompt(l)
  <2>1. ASSUME NoPrompt(s, a, Len(s)) PROVE NoPrompt(q, a, Len(q)) /\ ~IsPrompt(l)
    <3>1. Len(q) + 1 \in a .. Len(s) /\ \A i \in a .. Len(q) : i \in a .. Len(s) /\ i \in 1 .. Len(q)
      BY <1>1
    <3> QED BY <2>1, <3>1, <1>1 DEF NoPrompt
  <2>2. ASSUME NoPrompt(q, a, Len(q)), ~IsPrompt(l), NEW i \in a .. Len(s) PROVE ~IsPrompt(s[i])
    <3>1. i = Len(s) \/ (i \in a .. Len(q) /\ i \in 1 .. Len(q))
      BY <1>1
    <3> QED BY <2>2, <3>1, <1>1 DEF NoPrompt
  <2> QED BY <2>1, <2>2 DEF NoPrompt
<1> QED BY <1>2, <1>3 DEF s

\* An answer stays its command's if the new line is its own, or behind its end.
LEMMA AnswerOfAdd ==
    ASSUME NEW q \in Seq(Lines), NEW l \in Lines, NEW b \in 0 .. Len(q), NEW c,
           AnswerOf(q, c, b), NoPrompt(q, b + 1, Len(q)) /\ Said(l) => l.of = c
    PROVE  AnswerOf(Append(q, l), c, b)
<1> DEFINE s == Append(q, l)
<1>1. /\ Len(q) \in Nat /\ Len(s) = Len(q) + 1 /\ s[Len(q) + 1] = l
      /\ \A i \in 1 .. Len(q) : s[i] = q[i]
  BY AddQueue
<1>2. \A z \in 0 .. Len(q) : NoPrompt(s, b + 1, z) <=> NoPrompt(q, b + 1, z)
  <2>1. b + 1 \in 1 .. Len(q) + 1
    BY <1>1
  <2> QED BY <2>1, NoPromptAdd
<1> HIDE DEF s
<1>3. SUFFICES ASSUME NEW j \in b + 1 .. Len(s), NoPrompt(s, b + 1, j - 1), Said(s[j])
               PROVE  s[j].of = c
  BY DEF AnswerOf, s
<1>4. /\ j - 1 \in 0 .. Len(q)
      /\ \/ j = Len(q) + 1 /\ j - 1 = Len(q)
         \/ j \in b + 1 .. Len(q) /\ j \in 1 .. Len(q)
  BY <1>1
<1>5. NoPrompt(q, b + 1, j - 1)
  BY <1>2, <1>3, <1>4
<1> QED BY <1>1, <1>3, <1>4, <1>5 DEF AnswerOf

\* Behind the last line.
LEMMA AtTheEnd ==
    ASSUME NEW q \in Seq(Lines), NEW m, NEW c, NEW fin
    PROVE  /\ AnswerOf(q, c, Len(q)) /\ EndsThere(q, m, fin, Len(q)) /\ Len(q) \in Nat
           /\ NoPrompt(q, Len(q) + 1, Len(q))
           /\ Begun(q, m, c, Len(q)) <=> m.answering # c
<1>1. Len(q) \in Nat
  OBVIOUS
<1>2. ASSUME NEW i \in Len(q) + 1 .. Len(q) PROVE FALSE
  BY <1>1
<1> QED BY <1>1, <1>2 DEF AnswerOf, EndsThere, NoPrompt, Begun

\* What the MBB may print, and what becomes of it.
TakenUp(m) == [m EXCEPT !.todo = Tail(@), !.answering = Head(m.todo)]
Ended(m) == [m EXCEPT !.answering = None]

Adds(m, l, n) ==
    /\ m.high
    /\ \/ l = Line("stopping", None) /\ n = m
       \/ /\ m.answering = None /\ m.todo # <<>>
          /\ l = Line("echo", Head(m.todo)) /\ n = TakenUp(m)
       \/ m.answering # None /\ l = Line("out", m.answering) /\ n = m
       \/ m.answering # None /\ m.todo = <<>> /\ l = Line("prompt", None) /\ n = Ended(m)
       \/ /\ m.answering # None /\ m.todo # <<>>
          /\ l = Line("prompt", Head(m.todo)) /\ n = TakenUp(m)
       \/ m.answering # None /\ m.todo # <<>> /\ l = Line("apart", None) /\ n = Ended(m)

AddsAtNul(m, l, n) ==
    m.high /\ m.answering = None /\ m.todo = <<>> /\ l = Line("prompt", None) /\ n = m

\* The MBB takes a command up.
LEMMA TakenUpType ==
    ASSUME NEW m \in MbbState, m.todo # <<>>
    PROVE  /\ Head(m.todo) \in Cmds /\ Tail(m.todo) \in Seq(Cmds)
           /\ TakenUp(m) \in MbbState /\ TakenUp(m).todo = Tail(m.todo)
           /\ TakenUp(m).answering = Head(m.todo)
           /\ TakenUp(m).high = m.high /\ TakenUp(m).awake = m.awake
<1>1. m.todo \in Seq(Cmds)
  BY DEF MbbState
<1>2. Head(m.todo) \in Cmds /\ Tail(m.todo) \in Seq(Cmds)
  BY <1>1, HeadTailProperties
<1> QED BY <1>2 DEF TakenUp, MbbState

\* The MBB ends its answer.
LEMMA EndedType ==
    ASSUME NEW m \in MbbState
    PROVE  /\ Ended(m) \in MbbState /\ Ended(m).todo = m.todo /\ Ended(m).answering = None
           /\ Ended(m).high = m.high /\ Ended(m).awake = m.awake
BY DEF Ended, MbbState

\* No command is none.
LEMMA NoneIsNot == ASSUME NEW c \in Cmds PROVE c # None
BY PollerAssumption DEF Cmds, None

\* What the MBB prints are lines.
LEMMA LineIs ==
    /\ Line("stopping", None) \in Lines /\ Line("apart", None) \in Lines /\ Line("prompt", None) \in Lines
    /\ \A c \in Cmds : Line("echo", c) \in Lines /\ Line("out", c) \in Lines /\ Line("prompt", c) \in Lines
    /\ \A k, c : Line(k, c).kind = k /\ Line(k, c).of = c
BY DEF Line, Lines

\* What it prints at any time is, and the power and the line stay.
LEMMA AddsType ==
    ASSUME NEW m \in MbbState, NEW l, NEW n, Adds(m, l, n) \/ AddsAtNul(m, l, n)
    PROVE  l \in Lines /\ n \in MbbState /\ n.high = m.high /\ n.awake = m.awake
<1>1. m.answering # None => m.answering \in Cmds
  BY DEF MbbState
<1> QED BY <1>1, TakenUpType, EndedType, LineIs DEF Adds, AddsAtNul

\* What the MBB prints behind an echo is the echo's command's.
LEMMA SpeaksAdd ==
    ASSUME NEW q \in Seq(Lines), NEW m \in MbbState, NEW l, NEW n,
           Adds(m, l, n) \/ AddsAtNul(m, l, n),
           NEW b \in 0 .. Len(q), NEW c \in Cmds, Speaks(q, m, c, b)
    PROVE  Speaks(Append(q, l), n, c, b)
<1>1. l \in Lines /\ m.high /\ c # None
  BY AddsType, NoneIsNot DEF Adds, AddsAtNul
<1>2. m.answering = c => (Said(l) => l.of = c) /\ (~IsPrompt(l) => n.answering = c)
  BY <1>1, LineIs DEF Adds, AddsAtNul, Said, IsPrompt
<1>3. NoPrompt(q, b + 1, Len(q)) => m.answering = c
  BY <1>1 DEF Speaks
<1>4. AnswerOf(Append(q, l), c, b)
  BY <1>1, <1>2, <1>3, AnswerOfAdd DEF Speaks
<1>5. b + 1 \in 1 .. Len(q) + 1
  OBVIOUS
<1>6. NoPrompt(Append(q, l), b + 1, Len(Append(q, l))) => NoPrompt(q, b + 1, Len(q)) /\ ~IsPrompt(l)
  BY <1>1, <1>5, NoPromptAdd
<1> QED BY <1>2, <1>3, <1>4, <1>6 DEF Speaks

\* So each echo keeps its answer behind it, and a new one has it.
LEMMA HeardAdd ==
    ASSUME NEW q \in Seq(Lines), NEW m \in MbbState, NEW l, NEW n,
           Adds(m, l, n) \/ AddsAtNul(m, l, n), Heard(q, m)
    PROVE  Heard(Append(q, l), n)
<1> DEFINE s == Append(q, l)
<1>1. l \in Lines
  BY AddsType
<1>2. /\ Len(q) \in Nat /\ Len(s) = Len(q) + 1 /\ s[Len(q) + 1] = l /\ s \in Seq(Lines)
      /\ \A i \in 1 .. Len(q) : s[i] = q[i]
  BY <1>1, AddQueue
<1>3. ASSUME NEW k \in 1 .. Len(s), NEW c \in Cmds, Echoes(s[k], c) PROVE Speaks(s, n, c, k)
  <2>1. CASE k \in 1 .. Len(q)
    <3>1. Speaks(q, m, c, k)
      BY <1>2, <1>3, <2>1 DEF Heard
    <3>2. k \in 0 .. Len(q)
      BY <2>1
    <3> QED BY <3>1, <3>2, SpeaksAdd
  <2>2. CASE k = Len(s)
    <3>1. Echoes(l, c) /\ c # None
      BY <1>2, <1>3, <2>2, NoneIsNot
    <3>2. n.answering = c
      BY <3>1, LineIs, TakenUpType DEF Adds, AddsAtNul, Echoes
    <3>3. AnswerOf(s, c, Len(s))
      BY <1>2, AtTheEnd
    <3> QED BY <2>2, <3>2, <3>3 DEF Speaks
  <2> QED BY <1>2, <2>1, <2>2
<1> QED BY <1>3 DEF Heard

\* What the MBB prints leaves a batch's command its answer.
LEMMA OursAdd ==
    ASSUME NEW q \in Seq(Lines), NEW m \in MbbState, NEW l, NEW n, Adds(m, l, n),
           NEW b \in 0 .. Len(q), NEW c \in Cmds, NEW fin, Ours(q, m, c, fin, b)
    PROVE  Ours(Append(q, l), n, c, fin, b)
<1> DEFINE s == Append(q, l)
<1>1. l \in Lines /\ m.high /\ c # None
  BY AddsType, NoneIsNot DEF Adds
<1>2. /\ Len(q) \in Nat /\ Len(s) = Len(q) + 1 /\ s[Len(q) + 1] = l
      /\ \A i \in 1 .. Len(q) : s[i] = q[i]
  BY <1>1, AddQueue
<1>3. /\ \A z \in 0 .. Len(q) : NoPrompt(s, b + 1, z) <=> NoPrompt(q, b + 1, z)
      /\ NoPrompt(s, b + 1, Len(s)) <=> NoPrompt(q, b + 1, Len(q)) /\ ~IsPrompt(l)
  <2>1. b + 1 \in 1 .. Len(q) + 1
    OBVIOUS
  <2> QED BY <1>1, <2>1, NoPromptAdd
<1>4. NoPrompt(q, b + 1, Len(q)) =>
        \/ m.answering = c /\ Alone(m.todo, fin)
        \/ /\ m.answering = None /\ m.todo # <<>> /\ Head(m.todo) = c /\ Alone(Tail(m.todo), fin)
           /\ \A i \in b + 1 .. Len(q) : ~Said(q[i])
  BY <1>1 DEF Ours, Comes
<1>5. NoPrompt(q, b + 1, Len(q)) /\ Said(l) => l.of = c
  BY <1>1, <1>4, LineIs DEF Adds, Said
<1>6. AnswerOf(s, c, b)
  BY <1>1, <1>5, AnswerOfAdd DEF Ours
<1> HIDE DEF s
<1>7. Comes(s, n, c, fin, b)
  <2>1. SUFFICES ASSUME NoPrompt(s, b + 1, Len(s))
                 PROVE  \/ n.answering = c /\ Alone(n.todo, fin)
                        \/ /\ n.answering = None /\ n.todo # <<>> /\ Head(n.todo) = c /\ Alone(Tail(n.todo), fin)
                           /\ \A i \in b + 1 .. Len(s) : ~Said(s[i])
    BY DEF Comes
  <2>2. NoPrompt(q, b + 1, Len(q)) /\ ~IsPrompt(l)
    BY <2>1, <1>3
  <2>3. CASE l = Line("stopping", None) /\ n = m
    <3>1. ~Said(l)
      BY <2>3, LineIs DEF Said
    <3>2. ASSUME \A i \in b + 1 .. Len(q) : ~Said(q[i]), NEW i \in b + 1 .. Len(s) PROVE ~Said(s[i])
      <4>1. i = Len(s) \/ (i \in b + 1 .. Len(q) /\ i \in 1 .. Len(q))
        BY <1>2
      <4> QED BY <3>1, <3>2, <4>1, <1>2
    <3> QED BY <1>4, <2>2, <2>3, <3>2
  <2>4. CASE m.answering = None /\ m.todo # <<>> /\ n = TakenUp(m)
    BY <1>1, <1>4, <2>2, <2>4, TakenUpType
  <2>5. CASE m.answering # None /\ n = m
    BY <1>4, <2>2, <2>5
  <2> QED BY <2>2, <2>3, <2>4, <2>5, LineIs DEF Adds, IsPrompt
<1>8. EndsThere(s, n, fin, b)
  <2>1. SUFFICES ASSUME NEW e \in b + 1 .. Len(s), IsPrompt(s[e]), NoPrompt(s, b + 1, e - 1), ~fin
                 PROVE  /\ s[e] = Line("prompt", None) /\ n.answering = None /\ n.todo = <<>>
                        /\ \A i \in e + 1 .. Len(s) : s[i].kind = "stopping"
    BY DEF EndsThere
  <2>2. e - 1 \in 0 .. Len(q) /\ NoPrompt(q, b + 1, e - 1)
    <3>1. e - 1 \in 0 .. Len(q)
      BY <1>2
    <3> QED BY <3>1, <2>1, <1>3
  <2>3. CASE e = Len(s)
    <3>1. NoPrompt(q, b + 1, Len(q)) /\ IsPrompt(l) /\ s[e] = l
      BY <2>1, <2>2, <2>3, <1>2
    <3>2. l = Line("prompt", None) /\ n = Ended(m) /\ m.todo = <<>>
      BY <3>1, <1>4, <2>1, LineIs DEF Adds, IsPrompt, Alone
    <3>3. \A i \in e + 1 .. Len(s) : FALSE
      BY <2>3, <1>2
    <3> QED BY <3>1, <3>2, <3>3, EndedType
  <2>4. CASE e # Len(s)
    <3>1. e \in b + 1 .. Len(q) /\ e \in 1 .. Len(q)
      BY <2>4, <1>2
    <3>2. /\ q[e] = Line("prompt", None) /\ m.answering = None /\ m.todo = <<>>
          /\ \A i \in e + 1 .. Len(q) : q[i].kind = "stopping"
      BY <2>1, <2>2, <3>1, <1>2 DEF Ours, EndsThere
    <3>3. l = Line("stopping", None) /\ n = m /\ l.kind = "stopping"
      BY <3>2, LineIs DEF Adds
    <3>4. ASSUME NEW i \in e + 1 .. Len(s) PROVE s[i].kind = "stopping"
      <4>1. i = Len(s) \/ (i \in e + 1 .. Len(q) /\ i \in 1 .. Len(q))
        BY <3>1, <1>2
      <4> QED BY <3>2, <3>3, <4>1, <1>2
    <3> QED BY <3>1, <3>2, <3>3, <3>4, <1>2
  <2> QED BY <2>3, <2>4
<1> QED BY <1>6, <1>7, <1>8 DEF Ours, s

\* It prints no prompt before a line of the answer.
LEMMA BegunAdd ==
    ASSUME NEW q \in Seq(Lines), NEW m \in MbbState, NEW l, NEW n, Adds(m, l, n),
           NEW b \in 0 .. Len(q), NEW c \in Cmds, NEW fin, Ours(q, m, c, fin, b), Begun(q, m, c, b)
    PROVE  Begun(Append(q, l), n, c, b)
<1> DEFINE s == Append(q, l)
<1>1. l \in Lines /\ m.high /\ c # None
  BY AddsType, NoneIsNot DEF Adds
<1>2. /\ Len(q) \in Nat /\ Len(s) = Len(q) + 1 /\ s[Len(q) + 1] = l
      /\ \A i \in 1 .. Len(q) : s[i] = q[i]
  BY <1>1, AddQueue
<1>3. NoPrompt(s, b + 1, Len(s)) <=> NoPrompt(q, b + 1, Len(q)) /\ ~IsPrompt(l)
  <2>1. b + 1 \in 1 .. Len(q) + 1
    OBVIOUS
  <2> QED BY <1>1, <2>1, NoPromptAdd
<1> HIDE DEF s
<1>4. ASSUME NEW z \in 0 .. Len(q), \E i \in b + 1 .. z : Said(q[i]) PROVE \E i \in b + 1 .. z : Said(s[i])
  <2>1. PICK i \in b + 1 .. z : Said(q[i])
    BY <1>4
  <2>2. i \in 1 .. Len(q)
    BY <1>2
  <2> QED BY <2>1, <2>2, <1>2
<1>5. ASSUME IsPrompt(l) PROVE \E i \in b + 1 .. Len(q) : Said(q[i])
  <2>1. CASE NoPrompt(q, b + 1, Len(q))
    <3>1. m.answering # None
      BY <1>5, LineIs DEF Adds, IsPrompt
    <3>2. m.answering = c
      BY <3>1, <2>1, <1>1 DEF Ours, Comes
    <3> QED BY <3>2, <2>1 DEF Begun
  <2>2. CASE ~NoPrompt(q, b + 1, Len(q))
    <3>1. PICK e \in b + 1 .. Len(q) : IsPrompt(q[e])
      BY <2>2 DEF NoPrompt
    <3>2. PICK i \in b + 1 .. e - 1 : Said(q[i])
      BY <3>1 DEF Begun
    <3>3. i \in b + 1 .. Len(q)
      BY <1>2
    <3> QED BY <3>2, <3>3
  <2> QED BY <2>1, <2>2
<1>6. ASSUME NEW e \in b + 1 .. Len(s), IsPrompt(s[e]) PROVE \E i \in b + 1 .. e - 1 : Said(s[i])
  <2>1. CASE e = Len(s)
    <3>1. e - 1 = Len(q) /\ Len(q) \in 0 .. Len(q) /\ IsPrompt(l)
      BY <2>1, <1>2, <1>6
    <3>2. \E i \in b + 1 .. Len(q) : Said(s[i])
      BY <3>1, <1>4, <1>5
    <3> QED BY <3>1, <3>2
  <2>2. CASE e # Len(s)
    <3>1. e \in b + 1 .. Len(q) /\ e \in 1 .. Len(q) /\ e - 1 \in 0 .. Len(q)
      BY <2>2, <1>2
    <3>2. \E i \in b + 1 .. e - 1 : Said(q[i])
      BY <3>1, <1>2, <1>6 DEF Begun
    <3> QED BY <3>1, <3>2, <1>4
  <2> QED BY <2>1, <2>2
<1>7. ASSUME n.answering = c, NoPrompt(s, b + 1, Len(s)) PROVE \E i \in b + 1 .. Len(s) : Said(s[i])
  <2>1. NoPrompt(q, b + 1, Len(q)) /\ ~IsPrompt(l)
    BY <1>3, <1>7
  <2>2. Said(l) \/ m.answering = c
    BY <2>1, <1>1, <1>7, LineIs, EndedType DEF Adds, Said, IsPrompt
  <2>3. CASE Said(l)
    <3>1. Len(s) \in b + 1 .. Len(s) /\ s[Len(s)] = l
      BY <1>2
    <3> QED BY <3>1, <2>3
  <2>4. CASE m.answering = c
    <3>1. PICK i \in b + 1 .. Len(q) : Said(q[i])
      BY <2>1, <2>4 DEF Begun
    <3>2. i \in b + 1 .. Len(s) /\ i \in 1 .. Len(q)
      BY <1>2
    <3> QED BY <3>1, <3>2, <1>2
  <2> QED BY <2>2, <2>3, <2>4
<1> QED BY <1>6, <1>7 DEF Begun, s

\* When it ends the older answer, or takes the command up behind that.
LEMMA NextAdd ==
    ASSUME NEW q \in Seq(Lines), NEW m \in MbbState, NEW l, NEW n, Adds(m, l, n),
           NEW r, r.cur \in Cmds, OwnNext(q, m, r)
    PROVE  OwnNext(Append(q, l), n, r) \/ OwnBehind(Append(q, l), n, r)
<1> DEFINE s == Append(q, l)
           fin == r.finishAfterThis
<1>1. l \in Lines /\ m.high /\ r.cur # None /\ n \in MbbState
  BY AddsType, NoneIsNot DEF Adds
<1>2. /\ Len(q) \in Nat /\ Len(s) = Len(q) + 1 /\ s[Len(q) + 1] = l /\ s \in Seq(Lines)
      /\ \A i \in 1 .. Len(q) : s[i] = q[i]
  BY <1>1, AddQueue
<1>3. /\ NoPrompt(s, 1, Len(s)) <=> NoPrompt(q, 1, Len(q)) /\ ~IsPrompt(l)
      /\ NoPrompt(s, 1, Len(q)) <=> NoPrompt(q, 1, Len(q))
  <2>1. 1 \in 1 .. Len(q) + 1 /\ Len(q) \in 0 .. Len(q)
    BY <1>2
  <2> QED BY <1>1, <2>1, NoPromptAdd
<1>4. /\ NoPrompt(q, 1, Len(q))
      /\ \/ m.answering # None /\ m.todo # <<>> /\ Head(m.todo) = r.cur /\ Alone(Tail(m.todo), fin)
         \/ m.answering = None /\ Len(m.todo) >= 2 /\ m.todo[2] = r.cur /\ (Len(m.todo) = 2 \/ fin)
  BY <1>1 DEF OwnNext
<1> HIDE DEF s, fin
<1>5. CASE ~IsPrompt(l)
  <2>1. CASE n = m
    BY <1>3, <1>4, <1>5, <2>1 DEF OwnNext, fin, s
  <2>2. CASE n # m
    <3>1. m.answering = None /\ m.todo # <<>> /\ n = TakenUp(m)
      BY <1>5, <2>2, LineIs DEF Adds, IsPrompt
    <3>2. m.todo \in Seq(Cmds) /\ Len(m.todo) >= 2 /\ m.todo[2] = r.cur /\ (Len(m.todo) = 2 \/ fin)
      BY <3>1, <1>4 DEF MbbState
    <3>3. /\ Tail(m.todo) # <<>> /\ Head(Tail(m.todo)) = r.cur
          /\ Len(m.todo) = 2 => Tail(Tail(m.todo)) = <<>>
      <4>1. /\ Tail(m.todo) \in Seq(Cmds) /\ Len(Tail(m.todo)) = Len(m.todo) - 1
            /\ Tail(m.todo)[1] = m.todo[2] /\ Len(Tail(m.todo)) >= 1 /\ Len(m.todo) \in Nat
        BY <3>1, <3>2, HeadTailProperties
      <4>2. Tail(m.todo) # <<>> /\ Head(Tail(m.todo)) = r.cur
        <5> DEFINE rest == Tail(m.todo)
        <5>1. rest \in Seq(Cmds) /\ Len(rest) >= 1 /\ rest[1] = r.cur
          BY <4>1, <3>2
        <5> HIDE DEF rest
        <5>2. rest # <<>> /\ Head(rest) = r.cur
          BY <5>1
        <5> QED BY <5>2 DEF rest
      <4>3. Tail(Tail(m.todo)) \in Seq(Cmds) /\ Len(Tail(Tail(m.todo))) = Len(Tail(m.todo)) - 1
        BY <4>1, <4>2, HeadTailProperties
      <4>4. Len(m.todo) = 2 => Len(Tail(Tail(m.todo))) = 0
        BY <4>1, <4>3
      <4> QED BY <4>2, <4>3, <4>4, EmptySeq
    <3>4. n.answering # None /\ n.todo = Tail(m.todo)
      BY <3>1, TakenUpType, NoneIsNot
    <3>5. n.todo # <<>> /\ Head(n.todo) = r.cur /\ Alone(Tail(n.todo), fin)
      BY <3>2, <3>3, <3>4 DEF Alone
    <3> QED BY <1>3, <1>4, <1>5, <3>4, <3>5 DEF OwnNext, fin, s
  <2> QED BY <2>1, <2>2
<1>6. CASE IsPrompt(l)
  <2>1. /\ m.answering # None /\ m.todo # <<>> /\ Head(m.todo) = r.cur /\ Alone(Tail(m.todo), fin)
        /\ \/ l = Line("prompt", r.cur) /\ n = TakenUp(m)
           \/ l = Line("apart", None) /\ n = Ended(m)
    BY <1>4, <1>6, LineIs, EmptySeq DEF Adds, IsPrompt
  <2>2. /\ Len(s) \in 1 .. Len(s) /\ s[Len(s)] = l /\ Len(s) - 1 = Len(q)
        /\ \A i \in Len(s) + 1 .. Len(s) : FALSE
    BY <1>2
  <2>3. Comes(s, n, r.cur, fin, Len(s))
    BY <2>1, <2>2, TakenUpType, EndedType DEF Comes
  <2>4. Ours(s, n, r.cur, fin, Len(s))
    BY <2>3, <1>2, AtTheEnd DEF Ours
  <2>5. l.of = r.cur \/ (l = Line("apart", None) /\ Begun(s, n, r.cur, Len(s)))
    <3>1. CASE l = Line("prompt", r.cur)
      BY <3>1, LineIs
    <3>2. CASE l = Line("apart", None) /\ n = Ended(m)
      <4>1. l = Line("apart", None) /\ n.answering # r.cur
        BY <3>2, <1>1, LineIs, EndedType
      <4>2. Begun(s, n, r.cur, Len(s))
        BY <4>1, <1>2, AtTheEnd
      <4> QED BY <4>1, <4>2
    <3> QED BY <2>1, <3>1, <3>2
  <2>6. NoPrompt(s, 1, Len(s) - 1) /\ IsPrompt(s[Len(s)])
    BY <1>3, <1>4, <1>6, <2>2
  <2>7. OwnBehind(s, n, r)
    BY <2>2, <2>4, <2>5, <2>6 DEF OwnBehind, fin
  <2> QED BY <2>7 DEF s
<1> QED BY <1>5, <1>6 DEF s

\* What comes behind the older prompt leaves the answer there its own.
LEMMA BehindAdd ==
    ASSUME NEW q \in Seq(Lines), NEW m \in MbbState, NEW l, NEW n, Adds(m, l, n),
           NEW r, r.cur \in Cmds, OwnBehind(q, m, r)
    PROVE  OwnBehind(Append(q, l), n, r)
<1> DEFINE s == Append(q, l)
<1>1. l \in Lines
  BY AddsType
<1>2. /\ Len(q) \in Nat /\ Len(s) = Len(q) + 1
      /\ \A i \in 1 .. Len(q) : s[i] = q[i]
  BY <1>1, AddQueue
<1>3. PICK b \in 1 .. Len(q) :
        /\ NoPrompt(q, 1, b - 1) /\ IsPrompt(q[b])
        /\ \/ q[b].of = r.cur
           \/ q[b] = Line("apart", None) /\ Begun(q, m, r.cur, b)
        /\ Ours(q, m, r.cur, r.finishAfterThis, b)
  BY DEF OwnBehind
<1>4. b \in 0 .. Len(q) /\ b - 1 \in 0 .. Len(q) /\ 1 \in 1 .. Len(q) + 1 /\ b \in 1 .. Len(s)
  BY <1>2
<1>5. NoPrompt(s, 1, b - 1) /\ s[b] = q[b]
  BY <1>1, <1>2, <1>3, <1>4, NoPromptAdd
<1>6. Ours(s, n, r.cur, r.finishAfterThis, b)
  BY <1>3, <1>4, OursAdd
<1>7. Begun(q, m, r.cur, b) => Begun(s, n, r.cur, b)
  BY <1>3, <1>4, BegunAdd
<1> QED BY <1>3, <1>4, <1>5, <1>6, <1>7 DEF OwnBehind

\* Whatever it prints, the batch knows where its answer is.
LEMMA RunAdd ==
    ASSUME NEW q \in Seq(Lines), NEW m \in MbbState, NEW l, NEW n, Adds(m, l, n),
           NEW r, r.running => r.cur \in Cmds, RunInv(q, m, r)
    PROVE  RunInv(Append(q, l), n, r)
<1>1. SUFFICES ASSUME r.running
               PROVE  \/ OwnNow(Append(q, l), n, r) \/ OwnStale(Append(q, l), n, r) \/ OwnBehind(Append(q, l), n, r)
                      \/ OwnNext(Append(q, l), n, r)
  BY DEF RunInv
<1>2. CASE OwnNow(q, m, r)
  <2>1. 0 \in 0 .. Len(q)
    OBVIOUS
  <2> QED BY <1>1, <1>2, <2>1, OursAdd, BegunAdd DEF OwnNow
<1>3. CASE OwnBehind(q, m, r)
  BY <1>1, <1>3, BehindAdd
<1>4. CASE OwnNext(q, m, r)
  BY <1>1, <1>4, NextAdd
<1>5. CASE OwnStale(q, m, r)
  <2> DEFINE s == Append(q, l)
  <2>1. l \in Lines
    BY AddsType
  <2>2. Len(q) \in Nat /\ Len(s) = Len(q) + 1 /\ \A i \in 1 .. Len(q) : s[i] = q[i]
    BY <2>1, AddQueue
  <2>3. PICK b \in 1 .. Len(q) :
          /\ \A i \in 1 .. b : q[i] \in {Line("prompt", None), Line("stopping", None)}
          /\ Begun(q, m, r.cur, b) /\ Ours(q, m, r.cur, r.finishAfterThis, b)
    BY <1>5 DEF OwnStale
  <2>4. b \in 0 .. Len(q) /\ b \in 1 .. Len(s) /\ \A i \in 1 .. b : s[i] = q[i]
    BY <2>2
  <2>5. Begun(s, n, r.cur, b) /\ Ours(s, n, r.cur, r.finishAfterThis, b)
    BY <1>1, <2>3, <2>4, OursAdd, BegunAdd
  <2> HIDE DEF s
  <2>6. OwnStale(s, n, r)
    BY <1>5, <2>3, <2>4, <2>5 DEF OwnStale
  <2> QED BY <2>6 DEF s
<1> QED BY <1>1, <1>2, <1>3, <1>4, <1>5 DEF RunInv

-----------------------------------------------------------------------------
(* What happens to the batch otherwise.                                     *)

\* Only the order to finish comes.
LEMMA RunSame ==
    ASSUME NEW q, NEW m, NEW r, NEW s, RunInv(q, m, r),
           r.finishAfterThis \in BOOLEAN, s.finishAfterThis \in BOOLEAN,
           r.finishAfterThis => s.finishAfterThis,
           s.running => /\ r.running /\ s.cur = r.cur /\ s.buf = r.buf
                        /\ s.expectEcho = r.expectEcho
    PROVE  RunInv(q, m, s)
<1>1. SUFFICES ASSUME s.running
               PROVE  OwnNow(q, m, s) \/ OwnStale(q, m, s) \/ OwnBehind(q, m, s) \/ OwnNext(q, m, s)
  BY DEF RunInv
<1>2. \A todo : Alone(todo, r.finishAfterThis) => Alone(todo, s.finishAfterThis)
  BY DEF Alone
<1>3. ASSUME NEW b, Ours(q, m, r.cur, r.finishAfterThis, b)
      PROVE  Ours(q, m, s.cur, s.finishAfterThis, b)
  <2>1. s.cur = r.cur
    BY <1>1
  <2>2. Comes(q, m, s.cur, s.finishAfterThis, b)
    BY <1>2, <1>3, <2>1 DEF Ours, Comes
  <2>3. EndsThere(q, m, s.finishAfterThis, b)
    BY <1>3 DEF Ours, EndsThere
  <2> QED BY <1>3, <2>1, <2>2, <2>3 DEF Ours
<1>4. CASE OwnNow(q, m, r)
  BY <1>1, <1>3, <1>4 DEF OwnNow
<1>5. CASE OwnBehind(q, m, r)
  BY <1>1, <1>3, <1>5 DEF OwnBehind
<1>6. CASE OwnNext(q, m, r)
  BY <1>1, <1>2, <1>6 DEF OwnNext
<1>7. CASE OwnStale(q, m, r)
  BY <1>1, <1>3, <1>7 DEF OwnStale
<1> QED BY <1>1, <1>4, <1>5, <1>6, <1>7 DEF RunInv

\* The line goes down.
LEMMA RunDown ==
    ASSUME NEW q, NEW m, NEW n, ~n.high, n.answering = None, n.todo = <<>>,
           NEW r, r.running => r.cur \in Cmds, RunInv(q, m, r)
    PROVE  RunInv(q, n, r)
<1>1. SUFFICES ASSUME r.running
               PROVE  OwnNow(q, n, r) \/ OwnStale(q, n, r) \/ OwnBehind(q, n, r) \/ OwnNext(q, n, r)
  BY DEF RunInv
<1>2. ASSUME NEW fin, NEW b, Ours(q, m, r.cur, fin, b) PROVE Ours(q, n, r.cur, fin, b)
  BY <1>2 DEF Ours, Comes, EndsThere
<1>3. ASSUME NEW b, Begun(q, m, r.cur, b) PROVE Begun(q, n, r.cur, b)
  BY <1>1, <1>3, NoneIsNot DEF Begun
<1>4. CASE OwnNow(q, m, r)
  BY <1>2, <1>3, <1>4 DEF OwnNow
<1>5. CASE OwnBehind(q, m, r)
  BY <1>2, <1>3, <1>5 DEF OwnBehind
<1>6. CASE OwnNext(q, m, r)
  BY <1>6 DEF OwnNext
<1>7. CASE OwnStale(q, m, r)
  BY <1>2, <1>3, <1>7 DEF OwnStale
<1> QED BY <1>1, <1>4, <1>5, <1>6, <1>7 DEF RunInv

\* A command more is waiting.
Sent(m, c) == IF m.high /\ Len(m.todo) < AHEAD THEN [m EXCEPT !.todo = Append(@, c)] ELSE m

\* The MBB with a command more, if its line is up and it has room.
LEMMA SentType ==
    ASSUME NEW m \in MbbState, NEW c \in Cmds
    PROVE  /\ Sent(m, c) \in MbbState /\ Sent(m, c).answering = m.answering
           /\ Sent(m, c).high = m.high /\ Sent(m, c).awake = m.awake
           /\ Sent(m, c).todo = IF m.high /\ Len(m.todo) < AHEAD THEN Append(m.todo, c) ELSE m.todo
           /\ Append(m.todo, c) \in Seq(Cmds) /\ Append(m.todo, c) # <<>>
           /\ Len(Append(m.todo, c)) = Len(m.todo) + 1 /\ Len(m.todo) \in Nat
           /\ Append(m.todo, c)[Len(m.todo) + 1] = c
           /\ \A i \in 1 .. Len(m.todo) : Append(m.todo, c)[i] = m.todo[i]
           /\ m.todo = <<>> => Head(Append(m.todo, c)) = c /\ Tail(Append(m.todo, c)) = <<>>
           /\ m.todo # <<>> => Head(Append(m.todo, c)) = Head(m.todo)
<1>1. m.todo \in Seq(Cmds)
  BY DEF MbbState
<1>2. /\ Append(m.todo, c) \in Seq(Cmds) /\ Append(m.todo, c) # <<>>
      /\ Len(Append(m.todo, c)) = Len(m.todo) + 1 /\ Len(m.todo) \in Nat
      /\ Append(m.todo, c)[Len(m.todo) + 1] = c
      /\ \A i \in 1 .. Len(m.todo) : Append(m.todo, c)[i] = m.todo[i]
  BY <1>1, AppendProperties
<1>3. /\ Head(Append(m.todo, c)) = IF m.todo = <<>> THEN c ELSE Head(m.todo)
      /\ Tail(Append(m.todo, c)) = IF m.todo = <<>> THEN <<>> ELSE Append(Tail(m.todo), c)
  BY <1>1, HeadTailAppend
<1>4. /\ Sent(m, c) \in MbbState /\ Sent(m, c).answering = m.answering
      /\ Sent(m, c).high = m.high /\ Sent(m, c).awake = m.awake
      /\ Sent(m, c).todo = IF m.high /\ Len(m.todo) < AHEAD THEN Append(m.todo, c) ELSE m.todo
  BY <1>2 DEF Sent, MbbState
<1> QED BY <1>2, <1>3, <1>4

\* A client types in a batch that is to be finished.
LEMMA RunTyped ==
    ASSUME NEW q, NEW m \in MbbState, m.high, Len(m.todo) < AHEAD, NEW c \in Cmds,
           NEW r, r.running => r.finishAfterThis = TRUE, RunInv(q, m, r)
    PROVE  RunInv(q, Sent(m, c), r)
<1> DEFINE n == Sent(m, c)
<1>1. SUFFICES ASSUME r.running
               PROVE  OwnNow(q, n, r) \/ OwnStale(q, n, r) \/ OwnBehind(q, n, r) \/ OwnNext(q, n, r)
  BY DEF RunInv
<1>2. /\ n.answering = m.answering /\ n.high /\ n.todo # <<>>
      /\ m.todo # <<>> => Head(n.todo) = Head(m.todo)
      /\ Len(m.todo) >= 2 => Len(n.todo) >= 2 /\ n.todo[2] = m.todo[2]
  <2>1. n.answering = m.answering /\ n.high = m.high /\ n.todo = Append(m.todo, c)
    <3>1. Sent(m, c).answering = m.answering
      BY SentType
    <3>2. Sent(m, c).high = m.high
      BY SentType
    <3>3. Sent(m, c).todo = IF m.high /\ Len(m.todo) < AHEAD THEN Append(m.todo, c) ELSE m.todo
      BY SentType
    <3> QED BY <3>1, <3>2, <3>3
  <2>2. /\ n.todo # <<>> /\ Len(n.todo) = Len(m.todo) + 1 /\ Len(m.todo) \in Nat
        /\ \A i \in 1 .. Len(m.todo) : n.todo[i] = m.todo[i]
        /\ m.todo # <<>> => Head(n.todo) = Head(m.todo)
    <3>1. m.todo \in Seq(Cmds)
      BY DEF MbbState
    <3>2. /\ Append(m.todo, c) # <<>>
          /\ Len(Append(m.todo, c)) = Len(m.todo) + 1 /\ Len(m.todo) \in Nat
          /\ \A i \in 1 .. Len(m.todo) : Append(m.todo, c)[i] = m.todo[i]
      BY <3>1, AppendProperties
    <3>3. m.todo # <<>> => Head(Append(m.todo, c)) = Head(m.todo)
      BY <3>1, HeadTailAppend
    <3> QED BY <2>1, <3>2, <3>3
  <2>3. Len(m.todo) >= 2 => 2 \in 1 .. Len(m.todo) /\ Len(n.todo) >= 2
    BY <2>2
  <2> QED BY <2>1, <2>2, <2>3
<1> HIDE DEF n
<1>3. ASSUME NEW b, Ours(q, m, r.cur, r.finishAfterThis, b) PROVE Ours(q, n, r.cur, r.finishAfterThis, b)
  BY <1>1, <1>2, <1>3 DEF Ours, Comes, EndsThere, Alone
<1>4. ASSUME NEW b, Begun(q, m, r.cur, b) PROVE Begun(q, n, r.cur, b)
  BY <1>2, <1>4 DEF Begun
<1>5. CASE OwnNow(q, m, r)
  BY <1>3, <1>4, <1>5 DEF OwnNow
<1>6. CASE OwnBehind(q, m, r)
  BY <1>3, <1>4, <1>6 DEF OwnBehind
<1>7. CASE OwnNext(q, m, r)
  BY <1>1, <1>2, <1>7 DEF OwnNext, Alone
<1>8. CASE OwnStale(q, m, r)
  BY <1>3, <1>4, <1>8 DEF OwnStale
<1> QED BY <1>1, <1>5, <1>6, <1>7, <1>8 DEF RunInv

-----------------------------------------------------------------------------
(* A batch takes a line.                                                    *)

\* One that ends nothing.
LEMMA RunTakesLine ==
    ASSUME NEW q \in Seq(Lines), q # <<>>, ~IsPrompt(Head(q)), NEW m,
           NEW r, NEW s, r.running, RunInv(q, m, r), Underway(r),
           s.cur = r.cur, s.finishAfterThis = r.finishAfterThis, s.wasAwake = r.wasAwake,
           \/ Said(Head(q)) /\ ~s.expectEcho /\ s.buf \subseteq r.buf \cup {Head(q).of}
           \/ ~Said(Head(q)) /\ s.expectEcho = r.expectEcho /\ s.buf = r.buf
    PROVE  RunInv(Tail(q), m, s) /\ Underway(s)
<1> DEFINE u == Tail(q)
<1>1. /\ u \in Seq(Lines) /\ Len(q) \in Nat \ {0} /\ Len(u) = Len(q) - 1 /\ Head(q) = q[1]
      /\ \A i \in 1 .. Len(q) - 1 : u[i] = q[i + 1]
  BY TailQueue
<1>2. Shifts(q, 0, 0)
  BY <1>1 DEF Shifts
<1> HIDE DEF u
<1>6. Underway(s)
  BY DEF Underway
<1>7. SUFFICES OwnNow(u, m, s) \/ OwnStale(u, m, s) \/ OwnBehind(u, m, s) \/ OwnNext(u, m, s)
  BY <1>6 DEF RunInv, u
<1>3. CASE OwnNow(q, m, r)
  <2>1. Ours(u, m, s.cur, s.finishAfterThis, 0)
    BY <1>2, <1>3, OursTail DEF OwnNow, u
  <2>2. s.expectEcho => Begun(u, m, s.cur, 0)
    BY <1>1, <1>2, <1>3, BegunTail DEF OwnNow, u
  <2>3. Said(Head(q)) => Head(q).of = r.cur
    <3>1. 1 \in 0 + 1 .. Len(q) /\ \A i \in 0 + 1 .. 1 - 1 : FALSE
      BY <1>1
    <3> QED BY <1>1, <1>3, <3>1 DEF OwnNow, Ours, AnswerOf, NoPrompt
  <2>4. s.buf \subseteq {s.cur}
    BY <1>3, <2>3 DEF OwnNow
  <2> QED BY <2>1, <2>2, <2>4 DEF OwnNow
<1>4. CASE OwnBehind(q, m, r)
  <2>1. PICK b \in 1 .. Len(q) :
          /\ NoPrompt(q, 1, b - 1) /\ IsPrompt(q[b])
          /\ \/ q[b].of = r.cur
             \/ q[b] = Line("apart", None) /\ Begun(q, m, r.cur, b)
          /\ Ours(q, m, r.cur, r.finishAfterThis, b)
    BY <1>4 DEF OwnBehind
  <2>2. /\ b # 1 /\ b - 1 \in 1 .. Len(u) /\ (b - 1) - 1 \in 0 .. Len(q) - 1
        /\ b - 1 \in 1 .. Len(q) - 1 /\ (b - 1) + 1 = b /\ ((b - 1) - 1) + 1 = b - 1
    BY <1>1, <2>1
  <2>3. u[b - 1] = q[b] /\ u # <<>>
    <3>1. u[b - 1] = q[(b - 1) + 1] /\ Len(u) # 0
      BY <1>1, <2>2
    <3> QED BY <3>1, <2>2, EmptySeq
  <2>4. NoPrompt(u, 1, (b - 1) - 1)
    <3>1. NoPrompt(q, 0 + 1, ((b - 1) - 1) + 1)
      BY <2>1, <2>2
    <3>2. NoPrompt(u, 0 + 1, (b - 1) - 1)
      BY <1>2, <2>2, <3>1, NoPromptTail DEF u
    <3> QED BY <3>2
  <2>5. Shifts(q, b, b - 1)
    BY <2>1 DEF Shifts
  <2>6. Ours(u, m, s.cur, s.finishAfterThis, b - 1)
    BY <2>1, <2>5, OursTail DEF u
  <2>7. Begun(q, m, r.cur, b) => Begun(u, m, s.cur, b - 1)
    BY <2>1, <2>5, BegunTail DEF u
  <2> QED BY <2>1, <2>2, <2>3, <2>4, <2>6, <2>7 DEF OwnBehind
<1>5. CASE OwnNext(q, m, r)
  <2>1. NoPrompt(u, 1, Len(u))
    <3>1. Len(u) \in 0 .. Len(q) - 1 /\ Len(u) + 1 = Len(q) /\ 0 + 1 = 1
      BY <1>1
    <3>2. NoPrompt(q, 0 + 1, Len(u) + 1)
      BY <3>1, <1>5 DEF OwnNext
    <3>3. NoPrompt(u, 0 + 1, Len(u))
      BY <1>2, <3>1, <3>2, NoPromptTail DEF u
    <3> QED BY <3>1, <3>3
  <2> QED BY <2>1, <1>5 DEF OwnNext
<1>8. CASE OwnStale(q, m, r)
  <2>1. PICK b \in 1 .. Len(q) :
          /\ \A i \in 1 .. b : q[i] \in {Line("prompt", None), Line("stopping", None)}
          /\ Begun(q, m, r.cur, b) /\ Ours(q, m, r.cur, r.finishAfterThis, b)
    BY <1>8 DEF OwnStale
  <2>2. ~Said(Head(q))
    BY <1>1, <2>1, LineIs DEF Said
  <2>3. s.expectEcho /\ s.buf = {}
    BY <1>8, <2>2 DEF OwnStale, Underway
  <2>4. Shifts(q, b, b - 1)
    BY <2>1 DEF Shifts
  <2>5. Ours(u, m, s.cur, s.finishAfterThis, b - 1) /\ Begun(u, m, s.cur, b - 1)
    BY <2>1, <2>4, OursTail, BegunTail DEF u
  <2>6. CASE b = 1
    BY <2>3, <2>5, <2>6 DEF OwnNow
  <2>7. CASE b # 1
    <3>1. b - 1 \in 1 .. Len(u)
      BY <1>1, <2>7
    <3>2. ASSUME NEW i \in 1 .. b - 1 PROVE u[i] \in {Line("prompt", None), Line("stopping", None)}
      <4>1. i \in 1 .. Len(q) - 1 /\ i + 1 \in 1 .. b
        BY <1>1
      <4> QED BY <1>1, <2>1, <4>1
    <3> QED BY <2>3, <2>5, <3>1, <3>2 DEF OwnStale
  <2> QED BY <2>6, <2>7
<1> QED BY <1>3, <1>4, <1>5, <1>8 DEF RunInv

\* A prompt ends this command's answer or an older one, or is from before the
\* batch.
LEMMA PromptIs ==
    ASSUME NEW q \in Seq(Lines), q # <<>>, IsPrompt(Head(q)), NEW m,
           NEW r, r.running, RunInv(q, m, r)
    PROVE  \/ OwnNow(q, m, r)
           \/ OwnStale(q, m, r) /\ Head(q) = Line("prompt", None)
           \/ /\ \/ Head(q).of = r.cur
                 \/ Head(q) = Line("apart", None) /\ Begun(Tail(q), m, r.cur, 0)
              /\ Ours(Tail(q), m, r.cur, r.finishAfterThis, 0)
<1>1. Len(q) \in Nat \ {0} /\ Head(q) = q[1]
  BY TailQueue
<1>2. ~OwnNext(q, m, r)
  BY <1>1 DEF OwnNext, NoPrompt
<1>3. CASE OwnStale(q, m, r)
  <2>1. Head(q) \in {Line("prompt", None), Line("stopping", None)}
    BY <1>1, <1>3 DEF OwnStale
  <2>2. ~IsPrompt(Line("stopping", None))
    BY LineIs DEF IsPrompt
  <2> QED BY <1>3, <2>1, <2>2
<1>4. CASE OwnBehind(q, m, r)
  <2>1. PICK b \in 1 .. Len(q) :
          /\ NoPrompt(q, 1, b - 1) /\ IsPrompt(q[b])
          /\ \/ q[b].of = r.cur
             \/ q[b] = Line("apart", None) /\ Begun(q, m, r.cur, b)
          /\ Ours(q, m, r.cur, r.finishAfterThis, b)
    BY <1>4 DEF OwnBehind
  <2>2. b = 1
    <3>1. SUFFICES ASSUME b # 1 PROVE FALSE
      OBVIOUS
    <3>2. 1 \in 1 .. b - 1
      BY <3>1
    <3> QED BY <3>2, <1>1, <2>1 DEF NoPrompt
  <2>3. Shifts(q, 1, 0)
    BY <1>1 DEF Shifts
  <2> QED BY <1>1, <2>1, <2>2, <2>3, OursTail, BegunTail
<1> QED BY <1>2, <1>3, <1>4 DEF RunInv

\* The older answer's prompt, with this command's echo behind it.
LEMMA RunTakesLate ==
    ASSUME NEW q \in Seq(Lines), q # <<>>, IsPrompt(Head(q)), NEW m, Heard(q, m),
           NEW r, NEW s, r.running, r.cur \in Cmds, RunInv(q, m, r),
           Head(q).of = r.cur, r.finishAfterThis \in BOOLEAN,
           s.cur = r.cur, s.finishAfterThis = r.finishAfterThis,
           ~s.expectEcho, s.buf = {}
    PROVE  RunInv(Tail(q), m, s)
<1>1. Len(q) \in Nat \ {0} /\ Head(q) = q[1] /\ r.cur # None
  BY TailQueue, NoneIsNot
<1>2. Ours(Tail(q), m, r.cur, r.finishAfterThis, 0)
  <2>1. SUFFICES ASSUME OwnNow(q, m, r) PROVE Ours(Tail(q), m, r.cur, r.finishAfterThis, 0)
    BY <1>1, PromptIs, LineIs
  <2>2. r.finishAfterThis
    <3>1. 1 \in 0 + 1 .. Len(q) /\ \A i \in 0 + 1 .. 1 - 1 : FALSE
      BY <1>1
    <3>2. q[1] # Line("prompt", None)
      BY <1>1, LineIs
    <3> QED BY <1>1, <2>1, <3>1, <3>2 DEF OwnNow, Ours, EndsThere, NoPrompt
  <2>3. Speaks(Tail(q), m, r.cur, 0)
    BY <1>1, HeardTail DEF Echoes, IsPrompt
  <2> QED BY <2>2, <2>3 DEF Ours, Speaks, Comes, EndsThere, Alone
<1>3. OwnNow(Tail(q), m, s)
  BY <1>2 DEF OwnNow
<1> QED BY <1>3 DEF RunInv

\* A bare one in the moment after the send.
LEMMA RunTakesStale ==
    ASSUME NEW q \in Seq(Lines), q # <<>>, IsPrompt(Head(q)), NEW m,
           NEW r, r.running, RunInv(q, m, r), Underway(r), r.expectEcho, Head(q).of # r.cur
    PROVE  RunInv(Tail(q), m, r)
<1>1. /\ Tail(q) \in Seq(Lines) /\ Len(q) \in Nat \ {0} /\ Len(Tail(q)) = Len(q) - 1 /\ Head(q) = q[1]
      /\ \A i \in 1 .. Len(q) - 1 : Tail(q)[i] = q[i + 1]
  BY TailQueue
<1>2. ~OwnNow(q, m, r)
  <2>1. 1 \in 0 + 1 .. Len(q) /\ \A i \in 0 + 1 .. 1 - 1 : FALSE
    BY <1>1
  <2> QED BY <1>1, <2>1 DEF OwnNow, Begun
<1>3. r.buf = {}
  BY DEF Underway
<1>4. CASE OwnStale(q, m, r)
  <2>1. PICK b \in 1 .. Len(q) :
          /\ \A i \in 1 .. b : q[i] \in {Line("prompt", None), Line("stopping", None)}
          /\ Begun(q, m, r.cur, b) /\ Ours(q, m, r.cur, r.finishAfterThis, b)
    BY <1>4 DEF OwnStale
  <2>2. Shifts(q, b, b - 1)
    BY <2>1 DEF Shifts
  <2>3. Ours(Tail(q), m, r.cur, r.finishAfterThis, b - 1) /\ Begun(Tail(q), m, r.cur, b - 1)
    BY <2>1, <2>2, OursTail, BegunTail
  <2>4. CASE b = 1
    BY <1>3, <2>3, <2>4 DEF OwnNow, RunInv
  <2>5. CASE b # 1
    <3>1. b - 1 \in 1 .. Len(Tail(q))
      BY <1>1, <2>5
    <3>2. ASSUME NEW i \in 1 .. b - 1
          PROVE  Tail(q)[i] \in {Line("prompt", None), Line("stopping", None)}
      <4>1. i \in 1 .. Len(q) - 1 /\ i + 1 \in 1 .. b
        BY <1>1
      <4> QED BY <1>1, <2>1, <4>1
    <3> QED BY <2>3, <3>1, <3>2 DEF OwnStale, RunInv
  <2> QED BY <2>4, <2>5
<1>5. CASE ~OwnStale(q, m, r)
  <2>1. Begun(Tail(q), m, r.cur, 0) /\ Ours(Tail(q), m, r.cur, r.finishAfterThis, 0)
    BY <1>2, <1>5, PromptIs
  <2> QED BY <1>3, <2>1 DEF RunInv, OwnNow
<1> QED BY <1>4, <1>5

-----------------------------------------------------------------------------
(* A batch sends its next command.                                          *)

\* What the MBB has before it, and what of it is waiting.
LEMMA UnansweredIs ==
    ASSUME mbb \in MbbState
    PROVE  /\ Len(mbb.todo) \in Nat /\ (Len(mbb.todo) = 0 <=> mbb.todo = <<>>)
           /\ Unanswered = 0 <=> mbb.answering = None /\ mbb.todo = <<>>
           /\ Unanswered = 1 => \/ mbb.answering # None /\ mbb.todo = <<>>
                                \/ mbb.answering = None /\ Len(mbb.todo) = 1
<1> DEFINE todo == mbb.todo
<1>1. todo \in Seq(Cmds)
  BY DEF MbbState
<1>2. Unanswered = Len(todo) + (IF mbb.answering = None THEN 0 ELSE 1)
  BY DEF Unanswered
<1> HIDE DEF todo
<1>3. Len(todo) \in Nat /\ (Len(todo) = 0 <=> todo = <<>>)
  BY <1>1, EmptySeq
<1>4. /\ Unanswered = 0 <=> mbb.answering = None /\ todo = <<>>
      /\ Unanswered = 1 => \/ mbb.answering # None /\ todo = <<>>
                           \/ mbb.answering = None /\ Len(todo) = 1
  BY <1>2, <1>3
<1> QED BY <1>3, <1>4 DEF todo

\* A command sent in order: what is to be read before its answer is known.
LEMMA SendRun ==
    ASSUME mbb \in MbbState, NEW q \in Seq(Lines), InOrder(q),
           ~mbb.high => mbb.answering = None /\ mbb.todo = <<>>,
           NEW r, r.cur \in Cmds, r.expectEcho, r.buf = {}
    PROVE  RunInv(q, Sent(mbb, r.cur), r)
<1> DEFINE n == Sent(mbb, r.cur)
<1>1. SUFFICES OwnNow(q, n, r) \/ OwnStale(q, n, r) \/ OwnNext(q, n, r)
  BY DEF RunInv
<1>2. /\ n.answering = mbb.answering /\ n.high = mbb.high
      /\ n.todo = IF mbb.high /\ Len(mbb.todo) < AHEAD THEN Append(mbb.todo, r.cur) ELSE mbb.todo
  <2>1. Sent(mbb, r.cur).answering = mbb.answering
    BY SentType
  <2>2. Sent(mbb, r.cur).high = mbb.high
    BY SentType
  <2>3. Sent(mbb, r.cur).todo
          = IF mbb.high /\ Len(mbb.todo) < AHEAD THEN Append(mbb.todo, r.cur) ELSE mbb.todo
    BY SentType
  <2> QED BY <2>1, <2>2, <2>3
<1> HIDE DEF n
<1>3. 0 < AHEAD /\ 1 < AHEAD
  BY PollerAssumption
<1>4. CASE Unanswered = 0
  <2>1. /\ mbb.answering = None /\ mbb.todo = <<>> /\ Len(mbb.todo) = 0
        /\ \A i \in 1 .. Len(q) : q[i] \in {Line("prompt", None), Line("stopping", None)}
    BY <1>4, UnansweredIs DEF InOrder
  <2>2. /\ n.answering = None
        /\ n.high => n.todo # <<>> /\ Head(n.todo) = r.cur /\ Tail(n.todo) = <<>>
    <3>1. /\ Append(mbb.todo, r.cur) # <<>> /\ Head(Append(mbb.todo, r.cur)) = r.cur
          /\ Tail(Append(mbb.todo, r.cur)) = <<>>
      BY <2>1, SentType
    <3>2. n.high => n.todo = Append(mbb.todo, r.cur)
      BY <1>2, <1>3, <2>1
    <3> QED BY <1>2, <2>1, <3>1, <3>2
  <2>3. \A i \in Len(q) + 1 .. Len(q) : FALSE
    BY EmptySeq
  <2>4. Ours(q, n, r.cur, r.finishAfterThis, Len(q))
    BY <2>2, <2>3 DEF Ours, AnswerOf, Comes, EndsThere, Alone
  <2>5. Begun(q, n, r.cur, Len(q))
    BY <2>2, <2>3, NoneIsNot DEF Begun
  <2>6. CASE Len(q) = 0
    <3>1. Ours(q, n, r.cur, r.finishAfterThis, 0) /\ Begun(q, n, r.cur, 0)
      BY <2>4, <2>5, <2>6
    <3> QED BY <3>1 DEF OwnNow
  <2>7. CASE Len(q) # 0
    <3>1. Len(q) \in 1 .. Len(q)
      BY <2>7
    <3> QED BY <2>1, <2>4, <2>5, <3>1 DEF OwnStale
  <2> QED BY <2>6, <2>7
<1>5. CASE Unanswered = 1
  <2>1. NoPrompt(q, 1, Len(q))
    BY <1>5 DEF InOrder, NoPrompt
  <2>2. CASE mbb.answering # None /\ mbb.todo = <<>>
    <3>1. /\ Append(mbb.todo, r.cur) # <<>> /\ Head(Append(mbb.todo, r.cur)) = r.cur
          /\ Tail(Append(mbb.todo, r.cur)) = <<>>
      BY <2>2, SentType
    <3>2. mbb.high /\ Len(mbb.todo) = 0
      BY <2>2, UnansweredIs
    <3>3. n.todo = Append(mbb.todo, r.cur)
      BY <1>2, <1>3, <3>2
    <3> QED BY <1>2, <2>1, <2>2, <3>1, <3>3 DEF OwnNext, Alone
  <2>3. CASE mbb.answering = None /\ Len(mbb.todo) = 1
    <3>1. mbb.high
      BY <2>3, UnansweredIs
    <3>2. Len(Append(mbb.todo, r.cur)) = Len(mbb.todo) + 1 /\ Append(mbb.todo, r.cur)[Len(mbb.todo) + 1] = r.cur
      BY SentType
    <3>3. n.todo = Append(mbb.todo, r.cur) /\ Len(mbb.todo) + 1 = 2
      BY <1>2, <1>3, <2>3, <3>1
    <3>4. Len(n.todo) = 2 /\ n.todo[2] = r.cur
      BY <3>2, <3>3
    <3> QED BY <1>2, <2>1, <2>3, <3>4 DEF OwnNext
  <2> QED BY <1>5, <2>2, <2>3, UnansweredIs
<1> QED BY <1>4, <1>5 DEF InOrder

\* A prompt that ends this command's own answer leaves the next to be sent in
\* order, and one that is neither that nor this command's late one is early.
LEMMA ClosesInOrder ==
    ASSUME mbb \in MbbState, NEW q \in Seq(Lines), q # <<>>, IsPrompt(Head(q)),
           p.running, p.cur \in Cmds, RunInv(q, mbb, p), Head(q).of # p.cur, ~StalePrompt(Head(q)),
           ~p.finishAfterThis
    PROVE  InOrder(Tail(q)) \/ Early(Head(q))
<1>1. /\ Len(q) \in Nat \ {0} /\ Len(Tail(q)) = Len(q) - 1 /\ Head(q) = q[1]
      /\ \A i \in 1 .. Len(q) - 1 : Tail(q)[i] = q[i + 1]
      /\ Tail(q) \in Seq(Lines)
  BY TailQueue
<1>2. CASE OwnNow(q, mbb, p)
  <2>1. 1 \in 0 + 1 .. Len(q) /\ \A i \in 0 + 1 .. 1 - 1 : FALSE
    BY <1>1
  <2>2. mbb.answering = None /\ mbb.todo = <<>> /\ \A i \in 1 + 1 .. Len(q) : q[i].kind = "stopping"
    BY <1>1, <1>2, <2>1 DEF OwnNow, Ours, EndsThere, NoPrompt
  <2>3. ASSUME NEW i \in 1 .. Len(Tail(q)) PROVE Tail(q)[i] = Line("stopping", None)
    <3>1. i + 1 \in 1 + 1 .. Len(q) /\ i \in 1 .. Len(q) - 1
      BY <1>1
    <3>2. Tail(q)[i].kind = "stopping"
      BY <1>1, <2>2, <3>1
    <3>3. Tail(q)[i] \in Lines
      BY <1>1, ElementOfSeq
    <3> QED BY <3>2, <3>3 DEF Lines, Line
  <2> QED BY <2>2, <2>3, UnansweredIs DEF InOrder
<1>3. CASE OwnStale(q, mbb, p) /\ Head(q) = Line("prompt", None)
  BY <1>3, LineIs DEF OwnStale, StalePrompt, Early
<1>4. CASE Head(q) = Line("apart", None)
  BY <1>4, LineIs DEF Early
<1> QED BY <1>2, <1>3, <1>4, PromptIs

-----------------------------------------------------------------------------
(* The steps of Poller.                                                     *)

PollingType(r) == r \in Polling /\ (r.running <=> r.cur # None) /\ (r.running => r.watch = None)

\* The MBB prints a line.
LEMMA StepAdds ==
    ASSUME PollerInv, NEW l,
           Adds(mbb, l, mbb') \/ (AddsAtNul(mbb, l, mbb') /\ ~p.running),
           lines' = Append(lines, l), UNCHANGED <<client, p, output, adrift>>
    PROVE  PollerInv'
<1>1. /\ mbb \in MbbState /\ lines \in Seq(Lines) /\ p \in Polling
      /\ p.running => p.cur \in Cmds
      /\ p.watch # None => p.watch \in Cmds
      /\ mbb.high /\ mbb.awake
  BY DEF PollerInv, PollerTypeOK, MbbInv, Polling, Adds, AddsAtNul
<1>2. l \in Lines /\ mbb' \in MbbState /\ mbb'.high = mbb.high /\ mbb'.awake = mbb.awake
  BY <1>1, AddsType
<1>3. PollerTypeOK'
  <2>1. lines' \in Seq(Lines)
    BY <1>1, <1>2, AddQueue
  <2> QED BY <2>1, <1>2 DEF PollerInv, PollerTypeOK
<1>4. MbbInv(lines', mbb', p')
  BY <1>1, <1>2 DEF MbbInv
<1>5. Heard(lines', mbb')
  BY <1>1, HeardAdd DEF PollerInv
<1>6. WatchInv(lines', mbb', p')
  <2>1. ASSUME ~p.running, p.watch # None PROVE Speaks(lines', mbb', p.watch, 0)
    <3>1. Speaks(lines, mbb, p.watch, 0) /\ 0 \in 0 .. Len(lines)
      BY <1>1, <2>1 DEF PollerInv, WatchInv
    <3> QED BY <1>1, <2>1, <3>1, SpeaksAdd
  <2> QED BY <2>1 DEF PollerInv, WatchInv
<1>7. Underway(p') /\ (~adrift' => RunInv(lines', mbb', p'))
  <2>1. CASE p.running
    BY <1>1, <2>1, RunAdd DEF PollerInv
  <2>2. CASE ~p.running
    BY <2>2 DEF RunInv, Underway
  <2> QED BY <2>1, <2>2
<1> QED BY <1>3, <1>4, <1>5, <1>6, <1>7 DEF PollerInv

\* So whatever the MBB prints keeps the invariant.
LEMMA StepMbbPrints ==
    ASSUME PollerInv, Announces \/ PromptsAtNul \/ MbbEchoes \/ MbbPrints \/ MbbPrompts
    PROVE  PollerInv'
<1>1. /\ mbb \in MbbState
      /\ mbb.answering # None \/ mbb.todo # <<>> => mbb.high
  BY DEF PollerInv, PollerTypeOK, MbbInv
<1>2. /\ TakesUp(Head(mbb.todo)) => mbb' = TakenUp(mbb)
      /\ mbb' = [mbb EXCEPT !.answering = None] => mbb' = Ended(mbb)
  BY DEF TakesUp, TakenUp, Ended
<1>3. CASE Announces
  BY <1>3, StepAdds DEF Announces, Posted, Adds
<1>4. CASE PromptsAtNul
  BY <1>4, StepAdds DEF PromptsAtNul, Posted, AddsAtNul
<1>5. CASE MbbEchoes
  BY <1>1, <1>2, <1>5, StepAdds DEF MbbEchoes, Posted, Adds
<1>6. CASE MbbPrints
  BY <1>1, <1>6, StepAdds DEF MbbPrints, Posted, Adds
<1>7. CASE MbbPrompts
  <2>1. UNCHANGED <<client, p, output, adrift>> /\ mbb.high /\ mbb.answering # None
    BY <1>1, <1>7 DEF MbbPrompts, Posted
  <2>2. \/ mbb.todo = <<>> /\ mbb' = Ended(mbb) /\ lines' = Append(lines, Line("prompt", None))
        \/ mbb.todo # <<>> /\ mbb' = TakenUp(mbb) /\ lines' = Append(lines, Line("prompt", Head(mbb.todo)))
        \/ mbb.todo # <<>> /\ mbb' = Ended(mbb) /\ lines' = Append(lines, Line("apart", None))
    BY <1>2, <1>7 DEF MbbPrompts, Posted
  <2> QED BY <2>1, <2>2, StepAdds DEF Adds
<1> QED BY <1>3, <1>4, <1>5, <1>6, <1>7

\* What nothing here depends on changes, or the order to finish comes.
LEMMA StepSame ==
    ASSUME PollerInv, PollingType(p'), client' \in BOOLEAN, UNCHANGED <<output, mbb, lines, adrift>>,
           p'.running = p.running, p'.cur = p.cur, p'.expectEcho = p.expectEcho,
           p'.buf = p.buf, p'.watch = p.watch, p'.wasAwake = p.wasAwake,
           p.finishAfterThis => p'.finishAfterThis
    PROVE  PollerInv'
<1>1. p.finishAfterThis \in BOOLEAN /\ p'.finishAfterThis \in BOOLEAN
  BY DEF PollerInv, PollerTypeOK, PollingType, Polling
<1>2. Underway(p') /\ (~adrift => RunInv(lines, mbb, p'))
  BY <1>1, RunSame DEF PollerInv, Underway
<1>3. MbbInv(lines, mbb, p') /\ WatchInv(lines, mbb, p')
  BY DEF PollerInv, MbbInv, WatchInv
<1>4. PollerTypeOK'
  BY DEF PollerInv, PollerTypeOK, PollingType
<1> QED BY <1>2, <1>3, <1>4 DEF PollerInv

\* A request, the echo's wait, the settling and a client arriving.
LEMMA StepFlags ==
    ASSUME PollerInv, Request \/ MomentPasses \/ Settles \/ ClientComes
    PROVE  PollerInv'
<1>1. PollingType(p)
  BY DEF PollerInv, PollerTypeOK, PollingType
<1>2. CASE Request
  <2>1. /\ PollingType(p')
        /\ p'.running = p.running /\ p'.cur = p.cur /\ p'.expectEcho = p.expectEcho
        /\ p'.buf = p.buf /\ p'.watch = p.watch /\ p'.wasAwake = p.wasAwake
        /\ p'.finishAfterThis = p.finishAfterThis
    BY <1>1, <1>2 DEF Request, PollingType, Polling
  <2> QED BY <1>2, <2>1, StepSame DEF Request, PollerInv, PollerTypeOK
<1>3. CASE MomentPasses
  <2>1. /\ PollingType(p')
        /\ p'.running = p.running /\ p'.cur = p.cur /\ p'.expectEcho = p.expectEcho
        /\ p'.buf = p.buf /\ p'.watch = p.watch /\ p'.wasAwake = p.wasAwake
        /\ p'.finishAfterThis = p.finishAfterThis
    BY <1>1, <1>3 DEF MomentPasses, PollingType, Polling
  <2> QED BY <1>3, <2>1, StepSame DEF MomentPasses, PollerInv, PollerTypeOK
<1>4. CASE Settles
  <2>1. /\ PollingType(p')
        /\ p'.running = p.running /\ p'.cur = p.cur /\ p'.expectEcho = p.expectEcho
        /\ p'.buf = p.buf /\ p'.watch = p.watch /\ p'.wasAwake = p.wasAwake
        /\ p'.finishAfterThis = p.finishAfterThis
    BY <1>1, <1>4 DEF Settles, PollingType, Polling
  <2> QED BY <1>4, <2>1, StepSame DEF Settles, PollerInv, PollerTypeOK
<1>5. CASE ClientComes
  BY <1>1, <1>5, StepSame DEF ClientComes, PollerInv, PollerTypeOK
<1> QED BY <1>2, <1>3, <1>4, <1>5

\* A client types.
LEMMA StepTypes ==
    ASSUME PollerInv, NEW c \in Cmds, Types(c)
    PROVE  PollerInv'
<1>1. /\ mbb \in MbbState /\ mbb.high /\ Len(mbb.todo) < AHEAD /\ mbb' = Sent(mbb, c)
      /\ UNCHANGED <<client, p, output, lines, adrift>>
      /\ p.running => p.finishAfterThis = TRUE
  <2>1. mbb \in MbbState /\ Len(mbb.todo) \in Nat
    BY UnansweredIs DEF PollerInv, PollerTypeOK
  <2>2. Len(mbb.todo) < AHEAD
    BY <2>1, PollerAssumption DEF Types
  <2> QED BY <2>1, <2>2 DEF PollerInv, PollerTypeOK, Polling, Types, Sent
<1>2. /\ mbb' \in MbbState /\ mbb'.answering = mbb.answering
      /\ mbb'.high = mbb.high /\ mbb'.awake = mbb.awake
  BY <1>1, SentType
<1>3. PollerTypeOK'
  BY <1>1, <1>2 DEF PollerInv, PollerTypeOK
<1>4. MbbInv(lines, mbb', p)
  BY <1>1, <1>2 DEF PollerInv, MbbInv
<1>5. \A d, b : Speaks(lines, mbb, d, b) => Speaks(lines, mbb', d, b)
  BY <1>2 DEF Speaks
<1>6. Heard(lines, mbb') /\ WatchInv(lines, mbb', p)
  BY <1>5 DEF PollerInv, Heard, WatchInv
<1>7. Underway(p) /\ (~adrift => RunInv(lines, mbb', p))
  BY <1>1, RunTyped DEF PollerInv
<1> QED BY <1>1, <1>3, <1>4, <1>6, <1>7 DEF PollerInv

\* The MBB comes up, its line goes down, it goes to sleep.
LEMMA StepMbbTurns ==
    ASSUME PollerInv, MbbWakes \/ LineDrops \/ MbbSleeps
    PROVE  PollerInv'
<1>1. /\ mbb \in MbbState /\ p \in Polling
      /\ p.running => p.cur \in Cmds
      /\ <<>> \in Seq(Cmds)
  BY EmptySeq DEF PollerInv, PollerTypeOK, Polling
<1>2. CASE MbbWakes
  <2>1. /\ mbb' = [mbb EXCEPT !.high = TRUE, !.awake = TRUE] /\ ~mbb.high /\ ~mbb.awake /\ ~p.wasAwake
        /\ UNCHANGED <<client, p, output, lines, adrift>>
    BY <1>2 DEF MbbWakes
  <2>2. mbb' \in MbbState /\ mbb'.high /\ mbb'.awake
    <3>1. mbb' = [awake |-> TRUE, high |-> TRUE, todo |-> mbb.todo, answering |-> mbb.answering]
      BY <1>1, <2>1 DEF MbbState
    <3> QED BY <1>1, <3>1 DEF MbbState
  <2>3. lines = <<>> /\ p.watch = None /\ ~p.running
    BY <2>1 DEF PollerInv, MbbInv, Underway
  <2>4. Len(lines) = 0
    BY <2>3
  <2>5. Heard(lines, mbb') /\ WatchInv(lines, mbb', p) /\ RunInv(lines, mbb', p) /\ MbbInv(lines, mbb', p)
    BY <2>2, <2>3, <2>4 DEF Heard, WatchInv, RunInv, MbbInv, PollerInv
  <2> QED BY <2>1, <2>2, <2>5 DEF PollerInv, PollerTypeOK
<1>3. CASE LineDrops \/ MbbSleeps
  <2>1. /\ mbb' \in MbbState /\ mbb'.high = FALSE /\ mbb'.answering = None /\ mbb'.todo = <<>>
        /\ mbb'.awake => p.wasAwake
        /\ ~mbb'.awake => lines = <<>>
        /\ UNCHANGED <<client, p, output, lines, adrift>>
    <3>1. CASE LineDrops
      <4>1. mbb' = [awake |-> TRUE, high |-> FALSE, todo |-> <<>>, answering |-> None]
        BY <3>1 DEF LineDrops, Asleep
      <4>2. p.wasAwake /\ UNCHANGED <<client, p, output, lines, adrift>>
        BY <3>1 DEF LineDrops
      <4> QED BY <1>1, <4>1, <4>2 DEF MbbState
    <3>2. CASE MbbSleeps
      <4>1. mbb' = [awake |-> FALSE, high |-> FALSE, todo |-> <<>>, answering |-> None]
        BY <3>2 DEF MbbSleeps, Asleep
      <4> QED BY <1>1, <3>2, <4>1 DEF MbbSleeps, MbbState
    <3> QED BY <1>3, <3>1, <3>2
  <2>2. ~mbb'.awake => p.wasAwake
    BY <1>3 DEF PollerInv, MbbInv, LineDrops, MbbSleeps, Asleep
  <2>3. MbbInv(lines, mbb', p)
    BY <2>1, <2>2 DEF MbbInv
  <2>4. \A d, b : Speaks(lines, mbb, d, b) => Speaks(lines, mbb', d, b)
    BY <2>1 DEF Speaks
  <2>5. Heard(lines, mbb') /\ WatchInv(lines, mbb', p)
    BY <2>4 DEF PollerInv, Heard, WatchInv
  <2>6. Underway(p) /\ (~adrift => RunInv(lines, mbb', p))
    BY <1>1, <2>1, RunDown DEF PollerInv
  <2> QED BY <2>1, <2>3, <2>5, <2>6 DEF PollerInv, PollerTypeOK
<1> QED BY <1>2, <1>3

\* What a tick does first.
LEMMA TickedIs ==
    ASSUME PollerInv, NEW timeout \in BOOLEAN, NEW minute \in BOOLEAN, NEW q, q = Ticked(timeout, minute)
    PROVE  /\ PollingType(q) /\ q.running = p.running /\ q.cur = p.cur /\ q.expectEcho = p.expectEcho
           /\ q.finishAfterThis = p.finishAfterThis /\ q.wasAwake = mbb.awake
           /\ \/ q.watch = p.watch /\ q.buf = p.buf
              \/ ~p.running /\ q.watch = None /\ q.buf = {}
           /\ ~mbb.awake /\ ~p.running => q.watch = None
<1> DEFINE q1 == [p EXCEPT !.consoleOn = client]
           q2 == IF WatchOver(q1, timeout) THEN [q1 EXCEPT !.watch = None, !.buf = {}] ELSE q1
           q3 == IF mbb.awake /\ ~p.wasAwake
                 THEN [q2 EXCEPT !.stopping = FALSE, !.skipsSettle = FALSE, !.settled = FALSE] ELSE q2
           q4 == IF mbb.awake /\ minute /\ ~p.running THEN [q3 EXCEPT !.stopping = FALSE] ELSE q3
           Alike(a, b) == /\ b \in Polling /\ b.running = a.running /\ b.cur = a.cur
                         /\ b.expectEcho = a.expectEcho /\ b.finishAfterThis = a.finishAfterThis
                         /\ b.watch = a.watch /\ b.buf = a.buf
<1>1. PollingType(p) /\ mbb \in MbbState /\ client \in BOOLEAN
  BY DEF PollerInv, PollerTypeOK, PollingType
<1>2. Alike(p, q1)
  BY <1>1 DEF Polling, PollingType
<1> HIDE DEF q1
<1>3. /\ q2 \in Polling /\ q2.running = q1.running /\ q2.cur = q1.cur
      /\ q2.expectEcho = q1.expectEcho /\ q2.finishAfterThis = q1.finishAfterThis
      /\ IF WatchOver(q1, timeout) THEN q2.watch = None /\ q2.buf = {}
                                   ELSE q2.watch = q1.watch /\ q2.buf = q1.buf
  <2>1. CASE WatchOver(q1, timeout)
    <3>1. q2 = [q1 EXCEPT !.watch = None, !.buf = {}]
      BY <2>1
    <3> QED BY <1>2, <2>1, <3>1 DEF Polling
  <2>2. CASE ~WatchOver(q1, timeout)
    BY <1>2, <2>2
  <2> QED BY <2>1, <2>2
<1> HIDE DEF q2
<1>4. Alike(q2, q3)
  <2>1. q2 \in Polling
    BY <1>3
  <2>2. CASE mbb.awake /\ ~p.wasAwake
    <3>1. q3 = [q2 EXCEPT !.stopping = FALSE, !.skipsSettle = FALSE, !.settled = FALSE]
      BY <2>2
    <3> HIDE DEF q3
    <3> QED BY <2>1, <3>1 DEF Polling
  <2>3. CASE ~(mbb.awake /\ ~p.wasAwake)
    BY <2>1, <2>3
  <2> QED BY <2>2, <2>3
<1> HIDE DEF q3
<1>5. Alike(q3, q4)
  <2>1. q3 \in Polling
    BY <1>4
  <2>2. CASE mbb.awake /\ minute /\ ~p.running
    <3>1. q4 = [q3 EXCEPT !.stopping = FALSE]
      BY <2>2
    <3> HIDE DEF q4
    <3> QED BY <2>1, <3>1 DEF Polling
  <2>3. CASE ~(mbb.awake /\ minute /\ ~p.running)
    BY <2>1, <2>3
  <2> QED BY <2>2, <2>3
<1> HIDE DEF q4
<1>6. q = [q4 EXCEPT !.wasAwake = mbb.awake]
  BY DEF Ticked, q1, q2, q3, q4
<1>7. Alike(q4, q) /\ q.wasAwake = mbb.awake
  BY <1>1, <1>5, <1>6 DEF Polling, MbbState
<1>8. /\ q \in Polling /\ q.running = p.running /\ q.cur = p.cur
      /\ q.expectEcho = p.expectEcho /\ q.finishAfterThis = p.finishAfterThis
      /\ IF WatchOver(q1, timeout) THEN q.watch = None /\ q.buf = {} ELSE q.watch = p.watch /\ q.buf = p.buf
  BY <1>2, <1>3, <1>4, <1>5, <1>7
<1>9. /\ WatchOver(q1, timeout) => ~p.running
      /\ ~mbb.awake /\ ~p.running /\ p.watch # None => WatchOver(q1, timeout)
  BY <1>2 DEF WatchOver
<1>10. PollingType(q)
  BY <1>1, <1>8 DEF PollingType
<1> QED BY <1>7, <1>8, <1>9, <1>10

\* And what it does when a client is there: nothing but to order the end.
LEMMA YieldsIs ==
    ASSUME NEW q, PollingType(q)
    PROVE  /\ PollingType(Yields(q)) /\ Yields(q).running = q.running /\ Yields(q).cur = q.cur
           /\ Yields(q).expectEcho = q.expectEcho /\ Yields(q).wasAwake = q.wasAwake
           /\ Yields(q).watch = q.watch /\ Yields(q).buf = q.buf
           /\ q.finishAfterThis => Yields(q).finishAfterThis
<1>1. q \in Polling /\ (q.running <=> q.cur # None) /\ (q.running => q.watch = None)
  BY DEF PollingType
<1>2. CASE client
  <2> DEFINE s == [q EXCEPT !.finishAfterThis = TRUE]
  <2>1. Yields(q) = s
    BY <1>2 DEF Yields
  <2>2. s \in Polling
    BY <1>1 DEF Polling
  <2>3. /\ s.running = q.running /\ s.cur = q.cur /\ s.expectEcho = q.expectEcho
        /\ s.wasAwake = q.wasAwake /\ s.watch = q.watch /\ s.buf = q.buf /\ s.finishAfterThis
    BY <1>1 DEF Polling
  <2> HIDE DEF s
  <2> QED BY <1>1, <2>1, <2>2, <2>3 DEF PollingType
<1>3. CASE ~client
  <2>1. Yields(q) = q
    BY <1>3 DEF Yields
  <2> QED BY <2>1
<1> QED BY <1>2, <1>3

\* A tick that does no more.
LEMMA StepWaits ==
    ASSUME PollerInv, NEW timeout \in BOOLEAN, NEW minute \in BOOLEAN, Waits(timeout, minute)
    PROVE  PollerInv'
<1> DEFINE q == Ticked(timeout, minute)
<1>1. /\ PollingType(q) /\ q.running = p.running /\ q.cur = p.cur /\ q.expectEcho = p.expectEcho
      /\ q.finishAfterThis = p.finishAfterThis /\ q.wasAwake = mbb.awake
      /\ \/ q.watch = p.watch /\ q.buf = p.buf
         \/ ~p.running /\ q.watch = None /\ q.buf = {}
      /\ ~mbb.awake /\ ~p.running => q.watch = None
  BY TickedIs
<1>2. /\ p' = (IF q.running THEN Yields(q) ELSE q) /\ (q.running => mbb.awake)
      /\ UNCHANGED <<client, output, mbb, lines, adrift>>
  BY DEF Waits, TickOnly, Gone
<1> HIDE DEF q
<1>3. /\ PollingType(p') /\ p'.running = p.running /\ p'.cur = p.cur /\ p'.expectEcho = p.expectEcho
      /\ p'.wasAwake = mbb.awake /\ p'.watch = q.watch /\ p'.buf = q.buf
      /\ p.finishAfterThis => p'.finishAfterThis
  BY <1>1, <1>2, YieldsIs
<1>4. PollerTypeOK'
  BY <1>2, <1>3 DEF PollerInv, PollerTypeOK, PollingType
<1>5. MbbInv(lines, mbb, p')
  BY <1>1, <1>2, <1>3 DEF PollerInv, MbbInv
<1>6. WatchInv(lines, mbb, p')
  BY <1>1, <1>3 DEF PollerInv, WatchInv
<1>7. Underway(p') /\ (~adrift => RunInv(lines, mbb, p'))
  <2>1. p.finishAfterThis \in BOOLEAN /\ p'.finishAfterThis \in BOOLEAN
    BY <1>3 DEF PollerInv, PollerTypeOK, PollingType, Polling
  <2>2. p.running => p'.buf = p.buf /\ p'.wasAwake
    BY <1>1, <1>2, <1>3
  <2> QED BY <1>3, <2>1, <2>2, RunSame DEF PollerInv, Underway
<1> QED BY <1>2, <1>4, <1>5, <1>6, <1>7 DEF PollerInv

\* A batch ends.
LEMMA StepEnds ==
    ASSUME PollerInv, NEW q, PollingType(q), q.wasAwake = mbb.awake,
           p' = [Finished(q) EXCEPT !.watch = None],
           UNCHANGED <<client, output, mbb, lines>>, adrift' \in BOOLEAN
    PROVE  PollerInv'
<1>1. /\ PollingType(p') /\ ~p'.running /\ p'.watch = None /\ p'.buf = {} /\ p'.wasAwake = mbb.awake
  BY DEF Finished, PollingType, Polling
<1>2. PollerTypeOK'
  BY <1>1 DEF PollerInv, PollerTypeOK, PollingType
<1>3. MbbInv(lines, mbb, p') /\ WatchInv(lines, mbb, p') /\ RunInv(lines, mbb, p') /\ Underway(p')
  BY <1>1 DEF PollerInv, MbbInv, WatchInv, RunInv, Underway
<1> QED BY <1>2, <1>3 DEF PollerInv

\* What is sent, and how the MBB then is.
LEMMA SendIs ==
    ASSUME mbb \in MbbState, NEW q \in Polling, q.running, q.watch = None,
           NEW c \in Cmds, Send(q, c)
    PROVE  /\ PollingType(p') /\ p'.running /\ p'.cur = c /\ p'.buf = {} /\ p'.expectEcho
           /\ p'.wasAwake = q.wasAwake /\ mbb' = Sent(mbb, c) /\ mbb' \in MbbState
           /\ mbb'.high = mbb.high /\ mbb'.awake = mbb.awake /\ mbb'.answering = mbb.answering
           /\ ~mbb.high => mbb'.todo = mbb.todo
<1>1. mbb.high \in BOOLEAN /\ c # None
  BY NoneIsNot DEF MbbState
<1>2. mbb' = Sent(mbb, c)
  BY DEF Send, Sent
<1>3. p' = [q EXCEPT !.cur = c, !.buf = {}, !.expectEcho = TRUE, !.justSent = mbb.high]
  BY DEF Send
<1>4. /\ p' \in Polling /\ p'.running /\ p'.cur = c /\ p'.buf = {} /\ p'.expectEcho
      /\ p'.wasAwake = q.wasAwake /\ p'.watch = None
  BY <1>1, <1>3 DEF Polling
<1>5. PollingType(p')
  BY <1>1, <1>4 DEF PollingType
<1>6. /\ mbb' \in MbbState /\ mbb'.high = mbb.high /\ mbb'.awake = mbb.awake
      /\ mbb'.answering = mbb.answering /\ (~mbb.high => mbb'.todo = mbb.todo)
  BY <1>2, SentType
<1> QED BY <1>2, <1>4, <1>5, <1>6

\* A command is sent: from the queue as it is then a batch that does not go adrift
\* knows where its answer is.
LEMMA StepSends ==
    ASSUME PollerInv, NEW q \in Polling, q.running, q.watch = None, q.wasAwake, mbb.awake,
           NEW c \in Cmds, Send(q, c), client' = client,
           output' \in [of : Cmds \cup {None}, own : BOOLEAN], lines' \in Seq(Lines), Heard(lines', mbb),
           adrift' \in BOOLEAN, adrift' \/ InOrder(lines')
    PROVE  PollerInv'
<1>1. mbb \in MbbState /\ (~mbb.high => mbb.answering = None /\ mbb.todo = <<>>)
  BY DEF PollerInv, PollerTypeOK, MbbInv
<1>2. /\ PollingType(p') /\ p'.running /\ p'.cur = c /\ p'.buf = {} /\ p'.expectEcho
      /\ p'.wasAwake = q.wasAwake /\ mbb' = Sent(mbb, c) /\ mbb' \in MbbState
      /\ mbb'.high = mbb.high /\ mbb'.awake = mbb.awake /\ mbb'.answering = mbb.answering
      /\ ~mbb.high => mbb'.todo = mbb.todo
  BY <1>1, SendIs
<1>3. PollerTypeOK'
  BY <1>2 DEF PollerInv, PollerTypeOK, PollingType
<1>4. MbbInv(lines', mbb', p') /\ WatchInv(lines', mbb', p') /\ Underway(p')
  BY <1>1, <1>2 DEF PollerInv, MbbInv, WatchInv, Underway
<1>5. Heard(lines', mbb')
  <2>1. \A d, b : Speaks(lines', mbb, d, b) => Speaks(lines', mbb', d, b)
    BY <1>2 DEF Speaks
  <2> QED BY <2>1 DEF Heard
<1>6. ~adrift' => RunInv(lines', mbb', p')
  BY <1>1, <1>2, SendRun
<1> QED BY <1>3, <1>4, <1>5, <1>6 DEF PollerInv

\* A tick that ends the batch, gives a command up or starts a batch.
LEMMA StepTicks ==
    ASSUME PollerInv, EndsGone \/ TimesOut \/ Starts
    PROVE  PollerInv'
<1>1. PICK timeout \in BOOLEAN, minute \in BOOLEAN :
        \/ TickGone(Ticked(timeout, minute)) \/ TickTimeout(Ticked(timeout, minute))
        \/ TickStart(Ticked(timeout, minute))
  BY DEF EndsGone, TimesOut, Starts
<1> DEFINE q == Ticked(timeout, minute)
<1>2. /\ PollingType(q) /\ q.running = p.running /\ q.cur = p.cur
      /\ q.finishAfterThis = p.finishAfterThis /\ q.wasAwake = mbb.awake
  BY TickedIs
<1>6. output \in [of : Cmds \cup {None}, own : BOOLEAN] /\ lines \in Seq(Lines) /\ Heard(lines, mbb)
  BY DEF PollerInv, PollerTypeOK
<1> HIDE DEF q
<1>3. CASE TickGone(q)
  <2> DEFINE q1 == [q EXCEPT !.finishAfterThis = TRUE]
  <2>1. PollingType(q1) /\ q1.wasAwake = mbb.awake /\ q1.finishAfterThis
    BY <1>2 DEF PollingType, Polling
  <2>2. CloseCurrent(q1, FALSE, None) /\ UNCHANGED <<client, lines>> /\ adrift' \in BOOLEAN
    BY <1>3 DEF TickGone
  <2> HIDE DEF q1
  <2>3. p' = [Finished(q1) EXCEPT !.watch = None] /\ UNCHANGED <<client, output, mbb, lines>>
    BY <2>1, <2>2 DEF CloseCurrent, Last
  <2> QED BY <2>1, <2>2, <2>3, StepEnds
<1>4. CASE TickTimeout(q)
  <2> DEFINE q1 == Yields(q)
  <2>1. /\ PollingType(q1) /\ q1.wasAwake = mbb.awake /\ q1.running /\ q1.cur = q.cur
        /\ mbb.awake
    BY <1>2, <1>4, YieldsIs DEF TickTimeout, Gone
  <2>2. /\ CloseCurrent(q1, FALSE, None) /\ UNCHANGED <<client, lines>>
        /\ adrift' = (p'.running /\ ~InOrder(lines))
    BY <1>4 DEF TickTimeout, Strays
  <2> HIDE DEF q1
  <2>3. CASE Last(q1)
    <3>1. p' = [Finished(q1) EXCEPT !.watch = None] /\ UNCHANGED <<client, output, mbb, lines>>
      BY <2>2, <2>3 DEF CloseCurrent
    <3>2. adrift' \in BOOLEAN
      BY <2>2
    <3> QED BY <2>1, <3>1, <3>2, StepEnds
  <2>4. CASE ~Last(q1)
    <3>1. Send(q1, q1.cur + 1) /\ UNCHANGED <<client, output, lines>>
      BY <2>2, <2>4 DEF CloseCurrent
    <3>2. q1.cur + 1 \in Cmds
      BY <2>1, <2>4, PollerAssumption DEF Last, PollingType, Polling, Cmds, None
    <3>3. q1 \in Polling /\ q1.watch = None /\ q1.wasAwake
      BY <2>1 DEF PollingType
    <3>4. p'.running
      BY <1>6, <3>1, <3>2, <3>3, <2>1, SendIs DEF PollerInv, PollerTypeOK
    <3>5. adrift' \in BOOLEAN /\ (adrift' \/ InOrder(lines'))
      BY <2>2, <3>4
    <3> QED BY <1>6, <2>1, <3>1, <3>2, <3>3, <3>5, StepSends
  <2> QED BY <2>3, <2>4
<1>5. CASE TickStart(q)
  <2> DEFINE q1 == [q EXCEPT !.requested = FALSE, !.skipsSettle = FALSE,
                             !.finishAfterThis = FALSE, !.running = TRUE]
  <2>1. /\ Send(q1, 1) /\ UNCHANGED <<client, output, lines>>
        /\ adrift' = (p'.running /\ ~InOrder(lines))
        /\ mbb.awake /\ q.watch = None
    BY <1>5 DEF TickStart, MayStart, Gone, Strays
  <2>2. q1 \in Polling /\ q1.running /\ q1.watch = None /\ q1.wasAwake
    <3>1. q \in Polling /\ q.wasAwake = TRUE
      BY <1>2, <2>1 DEF PollingType, Polling
    <3> QED BY <2>1, <3>1 DEF Polling
  <2>3. 1 \in Cmds
    BY PollerAssumption DEF Cmds
  <2> HIDE DEF q1
  <2>4. p'.running
    BY <2>1, <2>2, <2>3, SendIs DEF PollerInv, PollerTypeOK
  <2>5. adrift' \in BOOLEAN /\ (adrift' \/ InOrder(lines'))
    BY <2>1, <2>4
  <2> QED BY <1>6, <2>1, <2>2, <2>3, <2>5, StepSends
<1> QED BY <1>1, <1>3, <1>4, <1>5 DEF q

\* What an answer is kept for.
OwnStep ==
    \/ output' = output \/ output'.own
    \/ p.running /\ (Head1.kind = "apart" \/ adrift)

\* The line that is read.
LEMMA HeadIs ==
    ASSUME PollerInv, lines # <<>>
    PROVE  /\ lines \in Seq(Lines) /\ Tail(lines) \in Seq(Lines) /\ mbb \in MbbState /\ PollingType(p)
           /\ Head1 = Head(lines) /\ Head1 \in Lines /\ Head1.of \in Cmds \cup {None}
           /\ Head1.kind \in {"echo", "out"} => Head1.of \in Cmds
           /\ \/ Head1.kind = "stopping" \/ IsPrompt(Head1) \/ Head1.kind \in {"echo", "out"}
           /\ mbb.awake /\ Heard(Tail(lines), mbb) /\ (~IsPrompt(Head1) => Shifts(lines, 0, 0))
<1>1. lines \in Seq(Lines) /\ mbb \in MbbState /\ PollingType(p) /\ mbb.awake
  BY DEF PollerInv, PollerTypeOK, PollingType, MbbInv
<1>2. /\ Tail(lines) \in Seq(Lines) /\ Head(lines) = lines[1] /\ Head1 = Head(lines)
      /\ Head1 \in Lines /\ Heard(Tail(lines), mbb)
  BY <1>1, TailQueue, HeardTail DEF PollerInv, Head1
<1>3. /\ Head1.of \in Cmds \cup {None}
      /\ Head1.kind \in {"echo", "out"} => Head1.of \in Cmds
      /\ \/ Head1.kind = "stopping" \/ IsPrompt(Head1) \/ Head1.kind \in {"echo", "out"}
  BY <1>2 DEF Lines, IsPrompt
<1> QED BY <1>1, <1>2, <1>3 DEF Shifts

\* The command that is opened has its answer behind it.
LEMMA OpenedIs ==
    ASSUME PollerInv, lines # <<>>, Head1.kind \in {"echo", "prompt", "apart"},
           NEW d, d = Opened(p, Head1)
    PROVE  d \in Cmds \cup {None} /\ (d # None => Speaks(Tail(lines), mbb, d, 0))
<1>1. d = None \/ d = Head1.of
  BY DEF Opened
<1>2. Head1.of \in Cmds \cup {None} /\ Head1 = Head(lines) /\ lines \in Seq(Lines)
  BY HeadIs
<1>3. ASSUME d # None PROVE Speaks(Tail(lines), mbb, d, 0)
  <2>1. d \in Cmds /\ Echoes(Head(lines), d)
    BY <1>1, <1>2, <1>3 DEF Echoes
  <2> QED BY <1>2, <2>1, HeardTail DEF PollerInv
<1> QED BY <1>1, <1>2, <1>3

\* A line is taken and the MBB is sent nothing.
LEMMA StepTakes ==
    ASSUME PollerInv, lines # <<>>, lines' = Tail(lines), UNCHANGED <<client, mbb>>,
           output' \in [of : Cmds \cup {None}, own : BOOLEAN], adrift' \in BOOLEAN, PollingType(p'),
           p'.wasAwake = p.wasAwake, Underway(p'),
           WatchInv(lines', mbb, p'), ~adrift' => RunInv(lines', mbb, p')
    PROVE  PollerInv'
<1>1. PollerTypeOK'
  BY HeadIs DEF PollerInv, PollerTypeOK, PollingType
<1>2. MbbInv(lines', mbb, p')
  BY HeadIs DEF PollerInv, MbbInv
<1> QED BY <1>1, <1>2, HeadIs DEF PollerInv

\* Nothing runs and nothing is watched: the line opens a command or is dropped.
LEMMA StepConsumeIdle ==
    ASSUME PollerInv, ConsumeIdle
    PROVE  PollerInv' /\ OwnStep
<1>1. /\ lines # <<>> /\ lines' = Tail(lines) /\ UNCHANGED <<client, output, mbb>>
      /\ ~p.running /\ p.watch = None /\ adrift' = adrift
      /\ p' = IF Head1.kind = "echo" \/ IsPrompt(Head1)
              THEN [p EXCEPT !.watch = Opened(p, Head1)] ELSE p
  BY DEF ConsumeIdle, Take
<1>2. p.buf = {} /\ PollingType(p) /\ adrift \in BOOLEAN /\ output \in [of : Cmds \cup {None}, own : BOOLEAN]
  BY <1>1 DEF PollerInv, PollerTypeOK, PollingType, WatchInv
<1>3. /\ PollingType(p') /\ p'.wasAwake = p.wasAwake /\ ~p'.running /\ p'.buf = {}
      /\ p'.watch # None => Speaks(Tail(lines), mbb, p'.watch, 0)
  <2>1. CASE Head1.kind = "echo" \/ IsPrompt(Head1)
    <3> DEFINE d == Opened(p, Head1)
    <3>1. d \in Cmds \cup {None} /\ (d # None => Speaks(Tail(lines), mbb, d, 0))
      BY <1>1, <2>1, OpenedIs DEF IsPrompt
    <3>2. p' = [p EXCEPT !.watch = d]
      BY <1>1, <2>1
    <3> HIDE DEF d
    <3>3. p'.watch = d /\ PollingType(p') /\ p'.wasAwake = p.wasAwake /\ ~p'.running /\ p'.buf = {}
      BY <1>1, <1>2, <3>1, <3>2 DEF PollingType, Polling
    <3> QED BY <3>1, <3>3
  <2>2. CASE ~(Head1.kind = "echo" \/ IsPrompt(Head1))
    BY <1>1, <1>2, <2>2
  <2> QED BY <2>1, <2>2
<1>4. WatchInv(lines', mbb, p') /\ RunInv(lines', mbb, p') /\ Underway(p')
  BY <1>1, <1>3 DEF WatchInv, RunInv, Underway
<1>5. PollerInv'
  BY <1>1, <1>2, <1>3, <1>4, StepTakes
<1> QED BY <1>1, <1>5 DEF OwnStep

\* A command is watched: the line is its output or ends it.
LEMMA StepConsumeWatched ==
    ASSUME PollerInv, ConsumeWatched
    PROVE  PollerInv' /\ OwnStep
<1>1. /\ lines # <<>> /\ lines' = Tail(lines) /\ UNCHANGED <<client, mbb>>
      /\ ~p.running /\ p.watch # None /\ adrift' \in BOOLEAN /\ Head1.kind # "stopping"
  BY DEF ConsumeWatched, Take, PollerInv, PollerTypeOK
<1>2. /\ PollingType(p) /\ p \in Polling /\ output \in [of : Cmds \cup {None}, own : BOOLEAN]
      /\ p.watch \in Cmds /\ p.buf \subseteq {p.watch} /\ Speaks(lines, mbb, p.watch, 0)
  BY <1>1 DEF PollerInv, PollerTypeOK, PollingType, WatchInv, Polling
<1>3. CASE IsPrompt(Head1)
  <2> DEFINE d == Opened(p, Head1)
  <2>1. d \in Cmds \cup {None} /\ (d # None => Speaks(Tail(lines), mbb, d, 0))
    BY <1>1, <1>3, OpenedIs DEF IsPrompt
  <2>2. output' = Kept(p, p.watch) /\ p' = [p EXCEPT !.buf = {}, !.watch = d]
    BY <1>3 DEF ConsumeWatched
  <2> HIDE DEF d
  <2>3. p'.watch = d /\ PollingType(p') /\ p'.wasAwake = p.wasAwake /\ ~p'.running /\ p'.buf = {}
    BY <1>1, <1>2, <2>1, <2>2 DEF PollingType, Polling
  <2>4. WatchInv(lines', mbb, p') /\ RunInv(lines', mbb, p') /\ Underway(p')
    BY <1>1, <2>1, <2>3 DEF WatchInv, RunInv, Underway
  <2>5. output' \in [of : Cmds \cup {None}, own : BOOLEAN] /\ OwnStep
    BY <1>2, <2>2 DEF OwnStep, Kept
  <2>6. PollerInv'
    BY <1>1, <2>3, <2>4, <2>5, StepTakes
  <2> QED BY <2>5, <2>6
<1>4. CASE ~IsPrompt(Head1)
  <2>1. Said(Head1) /\ Head1.of \in Cmds
    BY <1>1, <1>4, HeadIs DEF Said
  <2>2. Head1.of = p.watch
    <3>1. lines \in Seq(Lines) /\ Head1 = lines[1] /\ Len(lines) \in Nat \ {0}
      BY <1>1, HeadIs, TailQueue
    <3>2. 1 \in 0 + 1 .. Len(lines) /\ \A i \in 0 + 1 .. 1 - 1 : FALSE
      BY <3>1
    <3> QED BY <1>2, <2>1, <3>1, <3>2 DEF Speaks, AnswerOf, NoPrompt
  <2>3. output' = output /\ p' = [p EXCEPT !.buf = @ \cup {Head1.of}]
    BY <1>4 DEF ConsumeWatched
  <2>4. /\ PollingType(p') /\ p'.wasAwake = p.wasAwake /\ ~p'.running /\ p'.watch = p.watch
        /\ p'.buf \subseteq {p'.watch}
    BY <1>1, <1>2, <2>1, <2>2, <2>3 DEF PollingType, Polling
  <2>5. Speaks(Tail(lines), mbb, p.watch, 0)
    BY <1>1, <1>2, <1>4, HeadIs, SpeaksTail
  <2>6. WatchInv(lines', mbb, p') /\ RunInv(lines', mbb, p') /\ Underway(p')
    BY <1>1, <2>4, <2>5 DEF WatchInv, RunInv, Underway
  <2>7. PollerInv'
    BY <1>1, <1>2, <2>3, <2>4, <2>6, StepTakes
  <2> QED BY <2>3, <2>7 DEF OwnStep
<1> QED BY <1>3, <1>4

\* A batch runs: the line ends nothing.
LEMMA StepConsumeLine ==
    ASSUME PollerInv, ConsumeStopping \/ ConsumeLine
    PROVE  PollerInv' /\ OwnStep
<1>1. /\ lines # <<>> /\ lines' = Tail(lines) /\ UNCHANGED <<client, output, mbb>>
      /\ adrift' = adrift /\ adrift \in BOOLEAN
  BY DEF ConsumeStopping, ConsumeLine, Take, PollerInv, PollerTypeOK
<1>2. PollingType(p) /\ p \in Polling /\ output \in [of : Cmds \cup {None}, own : BOOLEAN]
  BY DEF PollerInv, PollerTypeOK, PollingType
<1>3. CASE ConsumeStopping
  <2>1. Head1.kind = "stopping" /\ ~IsPrompt(Head1) /\ ~Said(Head1) /\ p' = [p EXCEPT !.stopping = TRUE]
    BY <1>3 DEF ConsumeStopping, IsPrompt, Said
  <2>2. /\ PollingType(p') /\ p'.wasAwake = p.wasAwake /\ p'.running = p.running
        /\ p'.watch = p.watch /\ p'.buf = p.buf /\ p'.cur = p.cur
        /\ p'.expectEcho = p.expectEcho /\ p'.finishAfterThis = p.finishAfterThis
    BY <1>2, <2>1 DEF PollingType, Polling
  <2>3. WatchInv(lines', mbb, p')
    BY <1>1, <2>1, <2>2, HeadIs, SpeaksTail DEF PollerInv, WatchInv
  <2>4. Underway(p') /\ (~adrift => RunInv(lines', mbb, p'))
    <3>1. CASE p.running
      <4>1. ~IsPrompt(Head(lines)) /\ ~Said(Head(lines)) /\ lines \in Seq(Lines)
        BY <1>1, <2>1, HeadIs
      <4>2. Underway(p) /\ (~adrift => RunInv(lines, mbb, p))
        BY DEF PollerInv
      <4>3. ~adrift => RunInv(Tail(lines), mbb, p')
        BY <1>1, <2>2, <3>1, <4>1, <4>2, RunTakesLine
      <4>4. Underway(p')
        BY <2>2, <4>2 DEF Underway
      <4> QED BY <1>1, <4>3, <4>4
    <3>2. CASE ~p.running
      BY <2>2, <3>2 DEF RunInv, Underway
    <3> QED BY <3>1, <3>2
  <2> QED BY <1>1, <1>2, <2>2, <2>3, <2>4, StepTakes DEF OwnStep
<1>4. CASE ConsumeLine
  <2>1. p.running /\ Said(Head1) /\ ~IsPrompt(Head1) /\ Head1.of \in Cmds
    BY <1>1, <1>4, HeadIs DEF ConsumeLine, Said, IsPrompt
  <2>2. /\ PollingType(p') /\ p'.wasAwake = p.wasAwake /\ p'.running = p.running
        /\ p'.watch = p.watch /\ p'.cur = p.cur /\ ~p'.expectEcho
        /\ p'.finishAfterThis = p.finishAfterThis
        /\ p'.buf \subseteq p.buf \cup {Head1.of}
    <3>1. p' = [p EXCEPT !.expectEcho = FALSE, !.buf = p.buf]
          \/ p' = [p EXCEPT !.expectEcho = FALSE, !.buf = p.buf \cup {Head1.of}]
      BY <1>4 DEF ConsumeLine
    <3>2. p.buf \cup {Head1.of} \in SUBSET Cmds
      BY <1>2, <2>1 DEF Polling
    <3> QED BY <1>2, <3>1, <3>2 DEF PollingType, Polling
  <2>3. WatchInv(lines', mbb, p')
    BY <2>1, <2>2 DEF WatchInv
  <2>4. Underway(p') /\ (~adrift => RunInv(lines', mbb, p'))
    <3>1. /\ ~IsPrompt(Head(lines)) /\ Said(Head(lines)) /\ lines \in Seq(Lines)
          /\ p'.buf \subseteq p.buf \cup {Head(lines).of}
      BY <1>1, <2>1, <2>2, HeadIs
    <3>2. Underway(p) /\ (~adrift => RunInv(lines, mbb, p))
      BY DEF PollerInv
    <3>3. ~adrift => RunInv(Tail(lines), mbb, p')
      BY <1>1, <2>1, <2>2, <3>1, <3>2, RunTakesLine
    <3>4. Underway(p')
      BY <2>2, <3>2 DEF Underway
    <3> QED BY <1>1, <3>3, <3>4
  <2> QED BY <1>1, <1>2, <2>2, <2>3, <2>4, StepTakes DEF OwnStep
<1> QED BY <1>3, <1>4

\* A batch runs: a prompt is late, is stale, or closes the command.
LEMMA StepConsumePrompt ==
    ASSUME PollerInv, ConsumePrompt
    PROVE  PollerInv' /\ OwnStep
<1>1. /\ lines # <<>> /\ lines' = Tail(lines) /\ UNCHANGED client
      /\ p.running /\ IsPrompt(Head1) /\ adrift \in BOOLEAN
  BY DEF ConsumePrompt, Take, PollerInv, PollerTypeOK
<1>2. /\ PollingType(p) /\ p \in Polling /\ output \in [of : Cmds \cup {None}, own : BOOLEAN] /\ mbb \in MbbState
      /\ p.cur \in Cmds /\ p.cur # None /\ p.wasAwake /\ p.finishAfterThis \in BOOLEAN
      /\ Underway(p) /\ (~adrift => RunInv(lines, mbb, p)) /\ Heard(lines, mbb)
  BY <1>1 DEF PollerInv, PollerTypeOK, PollingType, Polling, Underway
<1>3. /\ lines \in Seq(Lines) /\ Tail(lines) \in Seq(Lines) /\ Head1 = Head(lines)
      /\ IsPrompt(Head(lines)) /\ mbb.awake /\ Heard(Tail(lines), mbb)
  BY <1>1, HeadIs
<1>4. CASE LatePrompt(Head1)
  <2>1. /\ p' = [p EXCEPT !.buf = {}, !.expectEcho = FALSE]
        /\ UNCHANGED <<output, mbb, adrift>> /\ Head(lines).of = p.cur
    BY <1>3, <1>4 DEF ConsumePrompt, LatePrompt
  <2>2. /\ PollingType(p') /\ p'.wasAwake = p.wasAwake /\ p'.running /\ p'.cur = p.cur
        /\ p'.buf = {} /\ ~p'.expectEcho /\ p'.finishAfterThis = p.finishAfterThis
    BY <1>1, <1>2, <2>1 DEF PollingType, Polling
  <2>3. ~adrift => RunInv(Tail(lines), mbb, p')
    BY <1>1, <1>2, <1>3, <2>1, <2>2, RunTakesLate
  <2>4. WatchInv(lines', mbb, p') /\ Underway(p')
    BY <1>2, <2>2 DEF WatchInv, Underway
  <2> QED BY <1>1, <1>2, <2>1, <2>2, <2>3, <2>4, StepTakes DEF OwnStep
<1>5. CASE ~LatePrompt(Head1) /\ StalePrompt(Head1)
  <2>1. UNCHANGED <<p, output, mbb, adrift>> /\ Head(lines).of # p.cur /\ p.expectEcho
    BY <1>2, <1>3, <1>5 DEF ConsumePrompt, LatePrompt, StalePrompt
  <2>2. ~adrift => RunInv(Tail(lines), mbb, p)
    BY <1>1, <1>2, <1>3, <2>1, RunTakesStale
  <2>3. WatchInv(lines', mbb, p')
    BY <1>1, <2>1 DEF WatchInv
  <2> QED BY <1>1, <1>2, <2>1, <2>2, <2>3, StepTakes DEF OwnStep
<1>6. CASE ~LatePrompt(Head1) /\ ~StalePrompt(Head1)
  <2> DEFINE d == Opened(p, Head1)
  <2>1. /\ CloseCurrent(p, TRUE, d) /\ Head(lines).of # p.cur
        /\ adrift' = (p'.running /\ (adrift \/ Early(Head(lines))) /\ ~InOrder(Tail(lines)))
    <3>1. CloseCurrent(p, TRUE, d) /\ Strays(adrift \/ Early(Head1), lines') /\ Head1.of # p.cur
      BY <1>6 DEF ConsumePrompt, LatePrompt
    <3> QED BY <1>1, <1>3, <3>1 DEF Strays
  <2>2. d \in Cmds \cup {None} /\ (d # None => Speaks(Tail(lines), mbb, d, 0))
    BY <1>1, OpenedIs DEF IsPrompt
  <2> HIDE DEF d
  <2>3. output' = Kept(p, p.cur)
    BY <2>1 DEF CloseCurrent
  <2>4. output' \in [of : Cmds \cup {None}, own : BOOLEAN] /\ OwnStep
    <3>1. p.buf \subseteq {p.cur} \/ Head1.kind = "apart" \/ adrift
      <4>1. CASE ~adrift
        <5>1. \/ OwnNow(lines, mbb, p) \/ OwnStale(lines, mbb, p)
              \/ Head(lines) = Line("apart", None)
          BY <1>1, <1>2, <1>3, <2>1, <4>1, PromptIs
        <5> QED BY <1>1, <1>2, <1>3, <5>1, LineIs DEF OwnNow, OwnStale, Underway
      <4> QED BY <4>1
    <3> QED BY <1>1, <1>2, <2>3, <3>1 DEF OwnStep, Kept
  <2>5. CASE Last(p)
    <3>1. p' = [Finished(p) EXCEPT !.watch = d] /\ mbb' = mbb
      BY <2>1, <2>5 DEF CloseCurrent
    <3>2. /\ PollingType(p') /\ p'.wasAwake = p.wasAwake /\ ~p'.running /\ p'.watch = d /\ p'.buf = {}
      BY <1>2, <2>2, <3>1 DEF Finished, PollingType, Polling
    <3>3. WatchInv(lines', mbb, p') /\ RunInv(lines', mbb, p') /\ Underway(p') /\ adrift' \in BOOLEAN
      BY <1>1, <2>1, <2>2, <3>2 DEF WatchInv, RunInv, Underway
    <3> QED BY <1>1, <2>4, <3>1, <3>2, <3>3, StepTakes
  <2>6. CASE ~Last(p)
    <3>1. Send(p, p.cur + 1) /\ ~p.finishAfterThis /\ p.cur + 1 \in Cmds
      BY <1>2, <2>1, <2>6, PollerAssumption DEF CloseCurrent, Last, Cmds
    <3>2. p.watch = None /\ p'.running
      BY <1>1, <1>2, <3>1, SendIs DEF PollingType
    <3>3. adrift' \in BOOLEAN /\ (adrift' \/ InOrder(lines'))
      <4>1. ~adrift => InOrder(Tail(lines)) \/ Early(Head(lines))
        BY <1>1, <1>2, <1>3, <1>6, <2>1, <3>1, ClosesInOrder
      <4> QED BY <1>1, <2>1, <3>2, <4>1
    <3>4. PollerInv'
      BY <1>1, <1>2, <1>3, <2>4, <3>1, <3>2, <3>3, StepSends
    <3> QED BY <2>4, <3>4
  <2> QED BY <2>5, <2>6
<1> QED BY <1>4, <1>5, <1>6

\* At the start nothing runs and the queue is empty.
LEMMA StartInv == ASSUME PollerInit PROVE PollerInv
<1>1. Len(lines) = 0 /\ lines \in Seq(Lines) /\ <<>> \in Seq(Cmds)
  BY EmptySeq DEF PollerInit
<1>2. PollerTypeOK
  BY <1>1 DEF PollerInit, PollerTypeOK, Polling, MbbState, Asleep
<1>3. /\ MbbInv(lines, mbb, p) /\ Heard(lines, mbb) /\ WatchInv(lines, mbb, p)
      /\ RunInv(lines, mbb, p) /\ Underway(p)
  BY <1>1 DEF PollerInit, MbbInv, Heard, WatchInv, RunInv, Underway, Asleep
<1> QED BY <1>2, <1>3 DEF PollerInv

\* Each step keeps the invariant, and an answer is kept for its own command.
LEMMA PollerStep ==
    ASSUME PollerInv, [PollerNext]_pollerVars
    PROVE  PollerInv' /\ OwnStep
<1>1. CASE Consume
  BY <1>1, StepConsumeIdle, StepConsumeWatched, StepConsumeLine, StepConsumePrompt DEF Consume
<1>2. CASE EndsGone \/ TimesOut \/ Starts
  <2>1. UNCHANGED output
    BY <1>2 DEF EndsGone, TimesOut, Starts, TickGone, TickTimeout, TickStart, CloseCurrent
  <2> QED BY <1>2, <2>1, StepTicks DEF OwnStep
<1>3. CASE \E timeout, minute \in BOOLEAN : Waits(timeout, minute)
  BY <1>3, StepWaits DEF Waits, TickOnly, OwnStep
<1>4. CASE Request \/ MomentPasses \/ Settles \/ ClientComes
  BY <1>4, StepFlags DEF Request, MomentPasses, Settles, ClientComes, OwnStep
<1>5. CASE \E c \in Cmds : Types(c)
  BY <1>5, StepTypes DEF Types, OwnStep
<1>6. CASE MbbWakes \/ LineDrops \/ MbbSleeps
  BY <1>6, StepMbbTurns DEF MbbWakes, LineDrops, MbbSleeps, OwnStep
<1>7. CASE Announces \/ PromptsAtNul \/ MbbEchoes \/ MbbPrints \/ MbbPrompts
  BY <1>7, StepMbbPrints DEF Announces, PromptsAtNul, MbbEchoes, MbbPrints, MbbPrompts, OwnStep
<1>8. CASE UNCHANGED pollerVars
  <2>1. UNCHANGED <<client, p, output, mbb, lines, adrift>>
    BY <1>8 DEF pollerVars
  <2>2. PollerInv'
    BY <2>1 DEF PollerInv, PollerTypeOK, MbbInv, Heard, WatchInv, RunInv, Underway,
                OwnNow, OwnStale, OwnBehind, OwnNext
  <2> QED BY <2>1, <2>2 DEF OwnStep
<1> QED BY <1>1, <1>2, <1>3, <1>4, <1>5, <1>6, <1>7, <1>8 DEF PollerNext, PollerTick

\* The inductive invariant: while a batch runs that is not adrift, the lines in the
\* queue, what the buffer has and what the MBB has still to print are its command's
\* answer, now or from behind the prompt that ends an older one or that was there
\* before the batch; and an echo has its command's answer behind it, adrift or not.
THEOREM PollerInductive == PollerSpec => []PollerInv
<1>1. PollerInit => PollerInv
  BY StartInv
<1>2. PollerInv /\ [PollerNext]_pollerVars => PollerInv'
  BY PollerStep
<1> QED BY <1>1, <1>2, PTL DEF PollerSpec

\* OwnAnswer: what closeCurrent() keeps for a command of a batch, or keep() for one
\* a client typed, are lines of that command's own answer, but behind a prompt read
\* apart from its echo and while the batch is adrift.  Nothing is asked of the MBB's
\* pace, nor of the queue when the poller sends without waiting for a prompt.
THEOREM AnswersAreOwn == PollerSpec => OwnAnswer
<1>1. PollerInv /\ [PollerNext]_pollerVars =>
        [\/ output' = output \/ output'.own
         \/ p.running /\ (Head1.kind = "apart" \/ adrift)]_pollerVars
  BY PollerStep DEF OwnStep
<1>2. PollerInv => PollerTypeOK
  BY DEF PollerInv
<1> QED BY <1>1, <1>2, PollerInductive, PTL DEF PollerSpec, OwnAnswer

=============================================================================
