-------------------------------- MODULE Poller --------------------------------
(***************************************************************************)
(* The poller, src/firmware/src/poller.cpp: a batch of commands typed at    *)
(* the MBB one after another, each closed by the prompt or by its timeout,  *)
(* and the answers to what a console client types kept as they go by.  A    *)
(* line is what it is and the command it belongs to; the buffer is the set  *)
(* of the commands its lines belong to.                                     *)
(*                                                                          *)
(* The MBB reads what is typed in order, echoes a command when it takes it  *)
(* up, and ends every answer with a prompt.  The echo of a command that was *)
(* waiting shares the prompt's line, unless the capture task's read ends    *)
(* between the two.  The MBB may be slow without a bound: the poller types  *)
(* on after every timeout, and the MBB loses what it has no room for.       *)
(* Lines it prints on its own change nothing here and are left out; the     *)
(* figures read from an output and its copy on the flash are in Answers.    *)
(***************************************************************************)
EXTENDS Naturals, Sequences

CONSTANTS
    NCMD,         \* commands in a batch
    AHEAD,        \* commands the MBB has room for and has not taken up
    TYPED,        \* bound: of those, when a client has typed the last
    Room(_, _)    \* bound: whether a queue takes a line more

ASSUME PollerAssumption ==
    /\ NCMD \in Nat \ {0} /\ AHEAD \in Nat /\ AHEAD >= 2 /\ TYPED \in 1 .. AHEAD

Cmds == 1 .. NCMD
None == 0

VARIABLES
    client,   \* consoleClients() > 0
    p,        \* the poller's statics
    output,   \* keep(): the output kept last, and whether its lines are all its own
    mbb,      \* awake, lineHigh, the commands given to it, the one it is answering
    lines,    \* the queue of lines from the capture task
    adrift    \* history: the command last sent was sent out of order

pollerVars == <<client, p, output, mbb, lines, adrift>>

Line(kind, c) == [kind |-> kind, of |-> c]
Lines ==
    [kind : {"echo", "out"}, of : Cmds] \cup [kind : {"apart", "stopping"}, of : {None}]
        \cup [kind : {"prompt"}, of : Cmds \cup {None}]

\* A prompt is apart if the read of the UART ended before the echo behind it.
IsPrompt(line) == line.kind \in {"prompt", "apart"}

Asleep == [awake |-> FALSE, high |-> FALSE, todo |-> <<>>, answering |-> None]

PollerInit ==
    /\ client = FALSE
    /\ p = [running |-> FALSE, cur |-> None, expectEcho |-> FALSE, justSent |-> FALSE,
            buf |-> {}, finishAfterThis |-> FALSE, watch |-> None, stopping |-> FALSE,
            requested |-> FALSE, skipsSettle |-> FALSE, settled |-> FALSE,
            wasAwake |-> FALSE, consoleOn |-> FALSE]
    /\ output = [of |-> None, own |-> TRUE]
    /\ mbb = Asleep
    /\ lines = <<>>
    /\ adrift = FALSE

-----------------------------------------------------------------------------
(* One command after another.                                               *)

Unanswered == Len(mbb.todo) + (IF mbb.answering = None THEN 0 ELSE 1)

\* A command is sent in order when the MBB has nothing before it and what is
\* still to be read is no answer's, or when it has one command before it and
\* that one's prompt is still to come.
InOrder(q) ==
    \/ /\ Unanswered = 0
       /\ \A i \in 1 .. Len(q) : q[i] \in {Line("prompt", None), Line("stopping", None)}
    \/ Unanswered = 1 /\ \A i \in 1 .. Len(q) : ~IsPrompt(q[i])

\* The batch goes adrift with a command out of order, and comes back with the
\* next that is sent in order.
Strays(cause, q) == adrift' = (p'.running /\ cause /\ ~InOrder(q))

\* sendCurrent(): with the line down nothing is written, and the command
\* times out at once.
Send(q, c) ==
    /\ p' = [q EXCEPT !.cur = c, !.buf = {}, !.expectEcho = TRUE, !.justSent = mbb.high]
    /\ mbb' = IF mbb.high /\ Len(mbb.todo) < AHEAD
              THEN [mbb EXCEPT !.todo = Append(@, c)] ELSE mbb

\* finish(): what only a batch reads is set anew by the next.
Finished(q) ==
    [q EXCEPT !.running = FALSE, !.cur = None, !.buf = {},
              !.finishAfterThis = FALSE, !.expectEcho = FALSE, !.justSent = FALSE]

Last(q) == q.cur = NCMD \/ q.finishAfterThis

\* keep()
Kept(q, c) == [of |-> c, own |-> q.buf \subseteq {c}]

\* closeCurrent(), and the echo of a client that shares the last prompt.
CloseCurrent(q, ok, reopened) ==
    /\ output' = IF ok THEN Kept(q, q.cur) ELSE output
    /\ IF Last(q) THEN p' = [Finished(q) EXCEPT !.watch = reopened] /\ UNCHANGED mbb
                  ELSE Send(q, q.cur + 1)

-----------------------------------------------------------------------------
(* pollerConsumeLine()                                                      *)

\* tryOpen(): the command that opens a watch.
Opened(q, line) == IF q.consoleOn THEN line.of ELSE None

Head1 == Head(lines)
Take == lines # <<>> /\ lines' = Tail(lines)

ConsumeStopping ==
    /\ Take /\ Head1.kind = "stopping"
    /\ p' = [p EXCEPT !.stopping = TRUE]
    /\ UNCHANGED <<client, output, mbb, adrift>>

\* No batch, and nobody's answer going by: the echo of a command, alone or
\* behind the prompt, opens a watch.
ConsumeIdle ==
    /\ Take /\ ~p.running /\ p.watch = None
    /\ Head1.kind # "stopping"
    /\ p' = IF Head1.kind = "echo" \/ IsPrompt(Head1)
            THEN [p EXCEPT !.watch = Opened(p, Head1)] ELSE p
    /\ UNCHANGED <<client, output, mbb, adrift>>

\* A line of the answer to a typed command, or the prompt that closes it.
ConsumeWatched ==
    /\ Take /\ ~p.running /\ p.watch # None
    /\ Head1.kind # "stopping"
    /\ IF IsPrompt(Head1)
       THEN /\ output' = Kept(p, p.watch)
            /\ p' = [p EXCEPT !.buf = {}, !.watch = Opened(p, Head1)]
       ELSE /\ p' = [p EXCEPT !.buf = @ \cup {Head1.of}]
            /\ UNCHANGED output
    /\ UNCHANGED <<client, mbb, adrift>>

\* Mutant of LatePrompt: the echo behind a prompt is not looked at.
LatePromptIgnored(line) == FALSE

\* The previous command's prompt with this command's echo behind it.
LatePrompt(line) == line.of = p.cur

\* A bare prompt in the moment after the send is from before the batch.
StalePrompt(line) == line.of = None /\ p.expectEcho /\ p.justSent

\* A prompt that closes a command before its echo: one read apart from it, or
\* one from before the batch that is read more than the moment after the send.
Early(line) == line.kind = "apart" \/ (p.expectEcho /\ ~p.justSent)

ConsumePrompt ==
    /\ Take /\ p.running /\ IsPrompt(Head1)
    /\ IF LatePrompt(Head1) THEN
            /\ p' = [p EXCEPT !.buf = {}, !.expectEcho = FALSE]
            /\ UNCHANGED <<output, mbb, adrift>>
       ELSE IF StalePrompt(Head1) THEN UNCHANGED <<p, output, mbb, adrift>>
       ELSE /\ CloseCurrent(p, TRUE, Opened(p, Head1))
            /\ Strays(adrift \/ Early(Head1), lines')
    /\ UNCHANGED client

ConsumeLine ==
    /\ Take /\ p.running /\ Head1.kind \in {"echo", "out"}
    /\ LET ownEcho == p.expectEcho /\ Head1 = Line("echo", p.cur)
       IN  p' = [p EXCEPT !.expectEcho = FALSE, !.buf = IF ownEcho THEN @ ELSE @ \cup {Head1.of}]
    /\ UNCHANGED <<client, output, mbb, adrift>>

Consume == ConsumeStopping \/ ConsumeIdle \/ ConsumeWatched \/ ConsumePrompt \/ ConsumeLine

-----------------------------------------------------------------------------
(* pollerTick()                                                             *)

\* Mutant of WatchOver: only the MBB's sleep lets a typed command go.
WatchOverAsleep(q, timeout) == q.watch # None /\ ~q.running /\ ~mbb.awake

\* A typed command the MBB never closed, or went to sleep under.
WatchOver(q, timeout) == q.watch # None /\ ~q.running /\ (~mbb.awake \/ timeout)

\* What every tick does first: the watch's timeout and the minute an
\* announcement counts may have passed; a batch does not outlast the tick
\* after an announcement.
Ticked(timeout, minute) ==
    LET q1 == [p EXCEPT !.consoleOn = client]
        q2 == IF WatchOver(q1, timeout) THEN [q1 EXCEPT !.watch = None, !.buf = {}] ELSE q1
        q3 == IF mbb.awake /\ ~p.wasAwake
              THEN [q2 EXCEPT !.stopping = FALSE, !.skipsSettle = FALSE, !.settled = FALSE] ELSE q2
        q4 == IF mbb.awake /\ minute /\ ~p.running THEN [q3 EXCEPT !.stopping = FALSE] ELSE q3
    IN  [q4 EXCEPT !.wasAwake = mbb.awake]

Gone(q) == ~mbb.awake \/ q.stopping

\* It will not answer: the batch ends with what it has.
TickGone(q) ==
    /\ q.running /\ Gone(q)
    /\ CloseCurrent([q EXCEPT !.finishAfterThis = TRUE], FALSE, None)
    /\ adrift' = FALSE
    /\ UNCHANGED <<client, lines>>

\* The console has priority.
Yields(q) == IF client THEN [q EXCEPT !.finishAfterThis = TRUE] ELSE q

\* POLL_TIMEOUT_MS: whatever is in the queue since the pass drained it, and
\* whatever the MBB has not answered.
TickTimeout(q) ==
    /\ q.running /\ ~Gone(q) /\ ~q.justSent
    /\ CloseCurrent(Yields(q), FALSE, None)
    /\ Strays(TRUE, lines)
    /\ UNCHANGED <<client, lines>>

MayStart(q) ==
    /\ ~q.running /\ ~Gone(q) /\ ~client
    /\ q.watch = None
    /\ q.settled \/ (q.requested /\ q.skipsSettle)

\* A batch asked for, or one that is due.  A line that is not quiet puts it
\* off, for ten seconds at most.
TickStart(q) ==
    /\ MayStart(q)
    /\ Send([q EXCEPT !.requested = FALSE, !.skipsSettle = FALSE,
                   !.finishAfterThis = FALSE, !.running = TRUE], 1)
    /\ Strays(TRUE, lines)
    /\ UNCHANGED <<client, output, lines>>

TickOnly(q) ==
    /\ p' = IF q.running THEN Yields(q) ELSE q
    /\ q.running => ~Gone(q)
    /\ UNCHANGED <<client, output, mbb, lines, adrift>>

EndsGone == \E timeout, minute \in BOOLEAN : TickGone(Ticked(timeout, minute))
TimesOut == \E timeout, minute \in BOOLEAN : TickTimeout(Ticked(timeout, minute))
Starts == \E timeout, minute \in BOOLEAN : TickStart(Ticked(timeout, minute))
Waits(timeout, minute) == TickOnly(Ticked(timeout, minute))

PollerTick == EndsGone \/ TimesOut \/ Starts \/ \E timeout, minute \in BOOLEAN : Waits(timeout, minute)

\* pollerRequest()
Request ==
    /\ ~p.stopping /\ ~p.running
    /\ p' = [p EXCEPT !.requested = TRUE, !.skipsSettle = p.wasAwake]
    /\ UNCHANGED <<client, output, mbb, lines, adrift>>

\* Half a second after a send; the settle of an awake MBB.
MomentPasses ==
    /\ p.justSent
    /\ p' = [p EXCEPT !.justSent = FALSE]
    /\ UNCHANGED <<client, output, mbb, lines, adrift>>

Settles ==
    /\ p.wasAwake /\ ~p.settled
    /\ p' = [p EXCEPT !.settled = TRUE]
    /\ UNCHANGED <<client, output, mbb, lines, adrift>>

-----------------------------------------------------------------------------
(* The console client.                                                      *)

ClientComes == client' = ~client /\ UNCHANGED <<p, output, mbb, lines, adrift>>

\* consoleTick() runs before the tick of its pass, and what it types is
\* answered after it.
Types(c) ==
    /\ client /\ p.consoleOn /\ mbb.high
    /\ p.running => p.finishAfterThis
    /\ Len(mbb.todo) < TYPED
    /\ mbb' = [mbb EXCEPT !.todo = Append(@, c)]
    /\ UNCHANGED <<client, p, output, lines, adrift>>

-----------------------------------------------------------------------------
(* The MBB and the capture task.                                            *)

\* The bound Room is the queue's.
Posted(line) == Room(lines, line) /\ lines' = Append(lines, line) /\ UNCHANGED adrift

\* Up; a tick has seen it down before.
MbbWakes ==
    /\ ~mbb.high /\ ~(mbb.awake \/ p.wasAwake)
    /\ mbb' = [mbb EXCEPT !.high = TRUE, !.awake = TRUE]
    /\ UNCHANGED <<client, p, output, lines, adrift>>

\* A session lasts longer than a pass of the loop.
LineDrops ==
    /\ mbb.high /\ p.wasAwake
    /\ mbb' = [Asleep EXCEPT !.awake = TRUE]
    /\ UNCHANGED <<client, p, output, lines, adrift>>

\* The lines of a session are delivered long before it is seen to end.
MbbSleeps ==
    /\ mbb.awake /\ ~mbb.high /\ lines = <<>>
    /\ mbb' = Asleep
    /\ UNCHANGED <<client, p, output, lines, adrift>>

\* "MBB will hibernate"
Announces ==
    /\ mbb.high
    /\ Posted(Line("stopping", None))
    /\ UNCHANGED <<client, p, output, mbb>>

\* The prompt that a NUL of the transmit gate's detach makes it print.
PromptsAtNul ==
    /\ mbb.high /\ mbb.answering = None /\ mbb.todo = <<>>
    /\ ~p.running
    /\ Posted(Line("prompt", None))
    /\ UNCHANGED <<client, p, output, mbb>>

TakesUp(c) == mbb' = [mbb EXCEPT !.todo = Tail(@), !.answering = c]

\* A command is taken up.
MbbEchoes ==
    /\ mbb.answering = None /\ mbb.todo # <<>>
    /\ TakesUp(Head(mbb.todo)) /\ Posted(Line("echo", Head(mbb.todo)))
    /\ UNCHANGED <<client, p, output>>

MbbPrints ==
    /\ mbb.answering # None
    /\ Posted(Line("out", mbb.answering))
    /\ UNCHANGED <<client, p, output, mbb>>

\* The prompt, with the next command's echo behind it if one is waiting.
MbbPrompts ==
    /\ mbb.answering # None
    /\ \/ /\ mbb.todo = <<>>
          /\ mbb' = [mbb EXCEPT !.answering = None] /\ Posted(Line("prompt", None))
       \/ /\ mbb.todo # <<>>
          /\ TakesUp(Head(mbb.todo)) /\ Posted(Line("prompt", Head(mbb.todo)))
       \/ /\ mbb.todo # <<>>
          /\ mbb' = [mbb EXCEPT !.answering = None] /\ Posted(Line("apart", None))
    /\ UNCHANGED <<client, p, output>>

-----------------------------------------------------------------------------

PollerNext ==
    \/ Consume \/ PollerTick \/ Request \/ MomentPasses \/ Settles
    \/ ClientComes \/ \E c \in Cmds : Types(c)
    \/ MbbWakes \/ LineDrops \/ MbbSleeps \/ Announces \/ PromptsAtNul
    \/ MbbEchoes \/ MbbPrints \/ MbbPrompts

PollerSpec == PollerInit /\ [][PollerNext]_pollerVars

\* loop() drains the queue and ticks, with the time that this takes passing;
\* a timeout and a start that are due again and again come.  The MBB need not
\* answer.
PollerLiveSpec ==
    /\ PollerSpec
    /\ WF_pollerVars(Consume) /\ WF_pollerVars(Waits(TRUE, TRUE)) /\ WF_pollerVars(EndsGone)
    /\ SF_pollerVars(TimesOut) /\ SF_pollerVars(Starts)
    /\ WF_pollerVars(MomentPasses) /\ WF_pollerVars(Settles)

-----------------------------------------------------------------------------
(* Properties                                                               *)

Polling ==
    [running : BOOLEAN, cur : Cmds \cup {None}, expectEcho : BOOLEAN, justSent : BOOLEAN,
     buf : SUBSET Cmds, finishAfterThis : BOOLEAN, watch : Cmds \cup {None},
     stopping : BOOLEAN, requested : BOOLEAN, skipsSettle : BOOLEAN, settled : BOOLEAN,
     wasAwake : BOOLEAN, consoleOn : BOOLEAN]
MbbState == [awake : BOOLEAN, high : BOOLEAN, todo : Seq(Cmds), answering : Cmds \cup {None}]

PollerTypeOK ==
    /\ client \in BOOLEAN /\ adrift \in BOOLEAN
    /\ p \in Polling /\ (p.running <=> p.cur # None) /\ (p.running => p.watch = None)
    /\ output \in [of : Cmds \cup {None}, own : BOOLEAN]
    /\ mbb \in MbbState /\ lines \in Seq(Lines)

\* What is kept for a command is that command's answer, whoever typed it, however
\* late the answer before it came and whenever the client came or left, but in a
\* batch for three ways.  A prompt read apart from the echo behind it closes the next
\* command early, with the answer before its own.  A timeout or a start sends out of
\* order: to an MBB that already has two commands before it, or with the end of an
\* older answer in the queue.  And a prompt from before the batch is read more than
\* half a second after the send, and closes that command with nothing.  Each of the
\* three may set a batch adrift, until it next sends a command in order; no other
\* step does.
OwnAnswer ==
    /\ []PollerTypeOK
    /\ [][\/ output' = output \/ output'.own
          \/ p.running /\ (Head1.kind = "apart" \/ adrift)]_pollerVars

\* The MBB stays up and announces its sleep no more, and no client is there.
LeftToPoll == <>[](mbb.high /\ ~client) /\ <>[][~Announces]_pollerVars

\* A request that was taken gets its batch in the end, whatever a client was
\* typing, whatever the MBB did not answer and however it announced its sleep.
RequestServed == LeftToPoll => (p.requested ~> p.running)
=============================================================================
