--------------------------------- MODULE Wlan ---------------------------------
(***************************************************************************)
(* The WiFi owner, src/firmware/src/wlan.cpp: the join to the home network, *)
(* the setup network beside it, what a refused key costs, and the driver's  *)
(* stop and start around a sleep.                                           *)
(*                                                                          *)
(* The owner runs on the loop task; the driver's events come on a task of   *)
(* their own and may fall between any two of the looks wifiTick() takes at  *)
(* them, so a tick is three steps.  Each step maps the owner's state w to   *)
(* the next through the functions it calls.  A saved network is its key,    *)
(* and the home network is the key it takes: a network out of reach takes   *)
(* none that is typed.  Of a count of refusals only whether it is zero is   *)
(* ever asked; of a time, only whether it has passed.                       *)
(***************************************************************************)
EXTENDS Naturals

CONSTANTS
    Keys,      \* the keys a person may type
    NoKey      \* no network saved

ASSUME KeysAssumption == NoKey \notin Keys /\ Keys # {}

VARIABLES
    pc,        \* the tick: "joins", "status", "down"
    w,         \* the statics of wlan.cpp and the driver they steer
    homeKey,   \* the key the home network takes
    h          \* history: a typo was erased with the setup network on its way
               \* down; the verdict wrongKey holds is on another key; it was
               \* passed on the right one, before it had joined

vars == <<pc, w, homeKey, h>>

NoHistory == [skipped |-> FALSE, stale |-> FALSE, early |-> FALSE]

Owner ==
    [servicesUp : BOOLEAN, setupUp : BOOLEAN,
     setupDownAt : {"none", "armed", "due"},   \* setupDownAtMs, 20 s ahead
     setupFresh : BOOLEAN,     \* setupRaisedMs is less than SETUP_NET_MS ago
     retryDue : BOOLEAN,       \* lastRetryMs is 30 s or five minutes ago
     longUnjoined : BOOLEAN,   \* unjoinedSinceMs is ten minutes ago
     credsSaved : BOOLEAN, keyProven : BOOLEAN, driverStopped : BOOLEAN,
     refusals : BOOLEAN,       \* refusals >= 1
     wrongKey : BOOLEAN,
     joined : BOOLEAN,         \* ipEvents is ahead of ipEventsSeen
     \* the driver, outside the repository: what it has stored and is doing;
     \* "left": told to leave, and how the attempt ended may still be handled
     net : Keys \cup {NoKey}, link : {"off", "idle", "left", "trying", "up"},
     autoReconnect : BOOLEAN]

-----------------------------------------------------------------------------
(* The functions the handlers are made of.                                  *)

\* WiFi.begin(), WiFi.reconnect(): an attempt at the stored network.
Attempt(s) == IF s.net = NoKey THEN s ELSE [s EXCEPT !.link = "trying"]

\* esp_wifi_disconnect()
Leave(s) == [s EXCEPT !.link = IF @ \in {"trying", "up"} THEN "left" ELSE @]

\* staQuiet(true), staQuiet(false)
StaQuiet(s) == [Leave(s) EXCEPT !.autoReconnect = FALSE]
StaFree(s) == [s EXCEPT !.autoReconnect = TRUE]

StartSetup(s) ==
    IF s.setupUp THEN s
    ELSE StaQuiet([s EXCEPT !.setupUp = TRUE, !.setupDownAt = "none", !.setupFresh = TRUE])

StopSetup(s) ==
    IF s.setupUp THEN StaFree([s EXCEPT !.setupUp = FALSE, !.setupDownAt = "none"]) ELSE s

\* A join takes the setup network down, a little later.
ArmSetupDown(s) ==
    IF s.setupUp /\ s.setupDownAt = "none" THEN [s EXCEPT !.setupDownAt = "armed"] ELSE s

StartServices(s) == ArmSetupDown([s EXCEPT !.servicesUp = TRUE])
StopServices(s) == [s EXCEPT !.servicesUp = FALSE]

\* wifiSuspend(): everything down; the driver stays initialised.
WifiSuspend(s) ==
    [StopSetup(StopServices(s)) EXCEPT !.link = "off", !.driverStopped = TRUE]

\* driverStart(), which the driver may refuse.
DriverStart(s, ok) ==
    LET t == [s EXCEPT !.retryDue = FALSE]
        up == [t EXCEPT !.driverStopped = FALSE, !.longUnjoined = FALSE, !.link = "left"]
    IN  IF ~ok THEN t ELSE IF s.credsSaved THEN Attempt(up) ELSE StartSetup(up)

\* wifiResetCredentials(): three tries at an erase the driver may not make.
ResetCredentials(s, erased) ==
    IF erased THEN [Leave(s) EXCEPT !.net = NoKey, !.credsSaved = FALSE]
    ELSE [s EXCEPT !.credsSaved = (s.net # NoKey)]

-----------------------------------------------------------------------------
(* Boot.                                                                    *)

\* wifiBegin() with what the driver has stored and the BOOT button.
Booted(net, button) ==
    LET s == Attempt(
               [servicesUp |-> FALSE, setupUp |-> FALSE, setupDownAt |-> "none",
                setupFresh |-> FALSE, retryDue |-> FALSE, longUnjoined |-> FALSE,
                credsSaved |-> net # NoKey, keyProven |-> TRUE, driverStopped |-> FALSE,
                refusals |-> FALSE, wrongKey |-> FALSE, joined |-> FALSE,
                net |-> net, link |-> "idle", autoReconnect |-> TRUE])
    IN  IF button \/ ~s.credsSaved THEN StartSetup(s) ELSE s

Boots(net) ==
    /\ pc' = "joins"
    /\ \E button \in BOOLEAN : w' = Booted(net, button)
    /\ h' = NoHistory

Init ==
    /\ pc = "joins"
    /\ \E net \in Keys \cup {NoKey}, button \in BOOLEAN : w = Booted(net, button)
    /\ homeKey \in Keys
    /\ h = NoHistory

Reboot == Boots(w.net) /\ UNCHANGED homeKey

-----------------------------------------------------------------------------
(* wifiTick(), in the steps between which an event may come.                *)

\* Mutant of SetupOver: the setup network's end is only taken offline.
SetupOverOffline(s) == s.setupDownAt = "due" /\ ~s.servicesUp

SetupOver(s) == s.setupDownAt = "due"

\* The setup network's end, and the joins counted since.
TickJoins ==
    LET s == IF SetupOver(w) THEN StopSetup([w EXCEPT !.setupDownAt = "none"]) ELSE w
    IN  /\ pc = "joins"
        /\ w' = IF s.joined
                  THEN StartServices([s EXCEPT !.joined = FALSE, !.credsSaved = TRUE, !.keyProven = TRUE])
                  ELSE s
        /\ pc' = "status"
        /\ UNCHANGED <<homeKey, h>>

\* Connected or not.
TickStatus ==
    /\ pc = "status"
    /\ IF w.link = "up"
         THEN LET s == [w EXCEPT !.longUnjoined = FALSE]
              IN  /\ w' = IF s.servicesUp THEN ArmSetupDown(s) ELSE StartServices(s)
                  /\ pc' = "joins"
         ELSE w' = StopServices(w) /\ pc' = "down"
    /\ UNCHANGED <<homeKey, h>>

\* A key that was rejected and has never joined.
Typo(s) == s.wrongKey /\ ~s.keyProven /\ s.credsSaved

\* Mutant of TickErase: the setup network is left as it is.
TickEraseOnly(erased) ==
    /\ pc = "down" /\ Typo(w)
    /\ w' = [ResetCredentials(w, erased) EXCEPT !.refusals = FALSE, !.wrongKey = FALSE]
    /\ pc' = "joins"
    /\ h' = [NoHistory EXCEPT !.skipped = w.setupUp /\ w.setupDownAt # "none"]
    /\ UNCHANGED homeKey

\* A typo is erased and the setup network raised.
TickErase(erased) ==
    LET s == [ResetCredentials(w, erased) EXCEPT !.refusals = FALSE, !.wrongKey = FALSE]
    IN  /\ pc = "down" /\ Typo(w)
        /\ w' = StaQuiet(StartSetup(s))
        /\ pc' = "joins"
        /\ h' = [NoHistory EXCEPT !.skipped = w.setupUp /\ w.setupDownAt # "none"]
        /\ UNCHANGED homeKey

\* Mutant of Retried: the saved network waits for the setup network to go.
RetriedUnlessSetup(s, ok) ==
    IF ~s.retryDue \/ s.setupUp THEN s
    ELSE IF s.driverStopped THEN DriverStart(s, ok)
    ELSE IF s.credsSaved THEN Attempt([s EXCEPT !.retryDue = FALSE]) ELSE s

\* The retry: of the driver's start, or of the saved network.
Retried(s, ok) ==
    IF ~s.retryDue THEN s
    ELSE IF s.driverStopped THEN DriverStart(s, ok)
    ELSE IF s.credsSaved THEN Attempt([s EXCEPT !.retryDue = FALSE]) ELSE s

\* Mutant of Unreachable: only a refusal raises the setup network.
UnreachableRefused(s) == s.refusals

\* Why a board with credentials raises the setup network.
Unreachable(s) == s.refusals \/ s.longUnjoined

\* The rest of a tick without a connection; ok: the driver starts if asked;
\* wrapped: its start was stamped after the tick took the time, and the
\* unsigned age of the stamp passes for more than ten minutes.
TickDown(ok, wrapped) ==
    LET quiet == IF w.setupUp /\ w.refusals /\ w.autoReconnect THEN StaQuiet(w) ELSE w
        s == Retried(quiet, ok)
    IN  /\ pc = "down" /\ ~Typo(w)
        /\ w' = IF s.credsSaved /\ ~s.driverStopped /\ ~s.setupUp
                     /\ (Unreachable(s) \/ (w.driverStopped /\ wrapped))
                  THEN StartSetup(s) ELSE s
        /\ pc' = "joins"
        /\ UNCHANGED <<homeKey, h>>

Tick ==
    \/ TickJoins \/ TickStatus
    \/ \E erased \in BOOLEAN : TickErase(erased)
    \/ \E ok, wrapped \in BOOLEAN : TickDown(ok, wrapped)

-----------------------------------------------------------------------------
(* The other callers on the loop task, between ticks.                       *)

\* wifiJoin(), from the setup page, on either network.  The configuration is
\* offered until the driver takes it.
WifiJoin(key) ==
    /\ pc = "joins"
    /\ w.setupUp \/ (w.servicesUp /\ w.link = "up")
    /\ w' = [w EXCEPT !.refusals = FALSE, !.longUnjoined = FALSE, !.retryDue = FALSE,
                      !.autoReconnect = TRUE, !.net = key, !.link = "trying",
                      !.credsSaved = TRUE, !.keyProven = FALSE]
    /\ h' = [h EXCEPT !.stale = w.wrongKey, !.early = FALSE]
    /\ UNCHANGED <<pc, homeKey>>

\* /api/wifi/reset: the credentials erased, checked or not, and a restart.
WifiReset ==
    /\ pc = "joins"
    /\ w.setupUp \/ (w.servicesUp /\ w.link = "up")
    /\ \E net \in {NoKey, w.net} : Boots(net)
    /\ UNCHANGED homeKey

\* wifiSuspend(), a sleep, wifiResume(); wifiBusy() forbids it while the
\* setup network is young or has a phone on it.
Sleep(ok) ==
    /\ pc = "joins"
    /\ ~(w.setupUp /\ w.setupFresh)
    /\ w' = DriverStart(WifiSuspend(w), ok)
    /\ h' = [h EXCEPT !.skipped = FALSE]
    /\ UNCHANGED <<pc, homeKey>>

-----------------------------------------------------------------------------
(* The driver's events, the home network and time.                          *)

GotIp ==
    /\ w.link = "trying" /\ w.net = homeKey
    /\ w' = [w EXCEPT !.link = "up", !.joined = TRUE]
    /\ UNCHANGED <<pc, homeKey, h>>

\* What the driver does next; it may have gone on to another attempt already.
AfterDrop ==
    IF w.link = "trying" \/ (w.autoReconnect /\ w.net # NoKey) THEN {"trying", "idle"} ELSE {"idle"}

\* The handler of a disconnect, with what its reason counts as.
Disconnected(refused, wrong) ==
    /\ w.link \in {"left", "trying", "up"}
    /\ \E link \in AfterDrop :
           w' = [w EXCEPT !.refusals = refused, !.wrongKey = wrong, !.link = link]

\* An authentication that failed, expired or was left, whatever the key: the
\* network does not take it, it timed out, or the access point sent the board
\* off.
AuthFailed ==
    /\ Disconnected(TRUE, TRUE)
    /\ h' = [h EXCEPT !.stale = FALSE, !.early = w.net = homeKey /\ w.link # "up" /\ ~w.joined]
    /\ UNCHANGED <<pc, homeKey>>

\* Mutant of HandshakeTimeout: a weak signal passes for a verdict on the key.
HandshakeTimeoutBlames == Disconnected(TRUE, TRUE) /\ UNCHANGED <<pc, homeKey, h>>

\* A handshake that was not finished: a weak signal, or a wrong key.
HandshakeTimeout == Disconnected(TRUE, FALSE) /\ UNCHANGED <<pc, homeKey, h>>

\* Any other reason: no network in reach, or a network that went.
Lost == Disconnected(FALSE, FALSE) /\ UNCHANGED <<pc, homeKey, h>>

\* The home network, off the air, is given another key.
HomeChanges ==
    /\ w.link # "up"
    /\ \E key \in Keys \ {homeKey} : homeKey' = key
    /\ h' = [h EXCEPT !.stale = w.wrongKey, !.early = FALSE]
    /\ UNCHANGED <<pc, w>>

\* A time passes that the owner waits for.
RetryComesDue == ~w.retryDue /\ w' = [w EXCEPT !.retryDue = TRUE]
TenMinutes == ~w.longUnjoined /\ w' = [w EXCEPT !.longUnjoined = TRUE]
SetupEnds == w.setupDownAt = "armed" /\ w' = [w EXCEPT !.setupDownAt = "due"]
SetupAges == w.setupFresh /\ w' = [w EXCEPT !.setupFresh = FALSE]

Passes(T) == T /\ UNCHANGED <<pc, homeKey, h>>

Time == Passes(RetryComesDue \/ TenMinutes \/ SetupEnds \/ SetupAges)

Events == GotIp \/ AuthFailed \/ HandshakeTimeout \/ Lost

\* What goes on by itself, without a person, a sleep or the power.
Calm == Tick \/ Events \/ Time

Next ==
    \/ Calm \/ HomeChanges \/ Reboot \/ WifiReset
    \/ \E key \in Keys : WifiJoin(key)
    \/ \E ok \in BOOLEAN : Sleep(ok)

Spec == Init /\ [][Next]_vars

\* loop() goes round for ever, every wait ends, a driver asked again and
\* again starts, and a network tried again and again with its key takes it.
LiveSpec ==
    /\ Spec
    /\ WF_vars(Tick)
    /\ WF_vars(Passes(RetryComesDue)) /\ WF_vars(Passes(TenMinutes))
    /\ WF_vars(Passes(SetupEnds))
    /\ SF_vars(w.driverStopped /\ (\E wrapped \in BOOLEAN : TickDown(TRUE, wrapped)) /\ ~w'.driverStopped)
    /\ SF_vars(GotIp)

-----------------------------------------------------------------------------
(* Properties                                                               *)

TypeOK ==
    /\ pc \in {"joins", "status", "down"}
    /\ w \in Owner
    /\ homeKey \in Keys
    /\ w.link = "off" => w.driverStopped
    /\ w.setupDownAt # "none" => w.setupUp

\* A board left to itself with the key of a network in reach joins it in the
\* end, whatever it went through: setup networks, refusals, failed starts.
NetworkJoined ==
    (<>[][Calm]_vars /\ <>[](w.net = homeKey)) => []<>(w.servicesUp)

\* With a network saved, a board is reachable again and again, on the home
\* network or on its own, also when the home network has gone for good.
SavedReachable ==
    (<>[][Calm]_vars /\ <>[](w.credsSaved)) => []<>(w.servicesUp \/ w.setupUp)

\* The setup network, an open one, does not stay up beside a join that holds.
SetupComesDown ==
    (<>[][Calm]_vars /\ <>[](w.link = "up")) => <>[](~w.setupUp)

\* With no network stored the board has its setup network up, but for one way:
\* the typo that left it without was erased while the setup network was on its
\* way down after an earlier join, and so it was not raised again.
UnprovisionedHasSetup ==
    /\ TypeOK
    /\ (~w.credsSaved /\ ~w.driverStopped) => w.setupUp \/ h.skipped

\* A tick never erases the key the home network takes, whatever handshakes it
\* fails to finish and whatever came before, but for three ways: the verdict was
\* on the key before it; an authentication failed all the same before this key
\* had joined; or the network sent the board off between the looks the tick takes
\* at its joins and at its connection.
RightKeyKept ==
    [][(pc = "down" /\ w.net = homeKey /\ w'.net = NoKey) => h.stale \/ h.early \/ w.joined]_vars
=============================================================================
