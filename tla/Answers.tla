------------------------------- MODULE Answers -------------------------------
(***************************************************************************)
(* What the poller keeps, src/firmware/src/poller.cpp, and what the page    *)
(* shows of it: the last good answer to each command, the figure the        *)
(* readings table (readings.cpp) takes from the lines that carry it as they *)
(* arrive, and the copy on the flash that outlives a restart.  How an       *)
(* answer is come by is Poller's; here it is the moments its prompt closed  *)
(* it and its row arrived, if it has one that parses to a valid figure.     *)
(*                                                                          *)
(* saveOutputs() is apart where the power may go between two changes of the *)
(* flash.  Time is the true time; the wall clock is set or not, and off by  *)
(* one of Errs.  The board counts its own time modulo WRAP, so an age in    *)
(* this boot is the true one modulo WRAP.                                   *)
(***************************************************************************)
EXTENDS Integers, FiniteSetsExt

CONSTANTS
    NCMD,       \* commands in a batch
    Carriers,   \* those whose answers carry the figure
    WRAP,       \* millis() wraps: 49.7 days
    Errs,       \* what a wall clock that is set may be off by
    MAX_TIME    \* bound: the true time

ASSUME AnswersAssumption ==
    /\ NCMD \in Nat \ {0} /\ WRAP \in Nat \ {0} /\ MAX_TIME \in Nat
    /\ Carriers \subseteq 1 .. NCMD /\ Errs \subseteq Int

Cmds == 1 .. NCMD

VARIABLES
    t,         \* the true time
    clock,     \* clockValid(), and the error of the wall clock
    wasAwake,  \* wasAwake
    outputs,   \* outputs, outputAtMs, outputEpoch
    saveDue,   \* saveDue
    buf,       \* when the row in the output that is going by arrived, if it has one
    figure,    \* the row's slot in the readings
    file,      \* poll.txt
    tmp,       \* what poll.txt.new holds: a leftover is never read, only truncated
    step,      \* where saveOutputs() is
    saved,     \* history: when what a finished save held was taken
    stranded   \* history: the old save went and the new one was not put in its place

ram == <<outputs, saveDue, buf, figure>>
flash == <<file, tmp>>
history == <<saved, stranded>>
vars == <<t, clock, wasAwake, ram, flash, step, history>>

Never == -1

\* An answer, or a figure, is from this boot or from flash, is stamped with
\* the time it was taken, with an epoch if it is from flash, and its row, if it
\* has a valid one, arrived no later.  A save that was made when millis() had
\* wrapped over it is late.  When the row arrived and late are history.
Answer == [src : {"none", "boot", "flash"}, taken : Nat \cup {Never}, epoch : Int,
           row : Nat \cup {Never}, late : BOOLEAN]
Nothing == [src |-> "none", taken |-> Never, epoch |-> 0, row |-> Never, late |-> FALSE]
TakenNow(row) == [src |-> "boot", taken |-> t, epoch |-> 0, row |-> row, late |-> FALSE]

\* A file is there or not, and holds an answer or not for each command.
Empty == [c \in Cmds |-> Nothing]
NoFile == [there |-> FALSE, has |-> Empty]
Holding(answers) == [there |-> TRUE, has |-> answers]

Init ==
    /\ t = 0
    /\ clock = [valid |-> FALSE, err |-> 0]
    /\ wasAwake = FALSE
    /\ outputs = Empty /\ saveDue = FALSE /\ buf = Never /\ figure = Nothing
    /\ file = NoFile /\ tmp = Empty
    /\ step = "loop"
    /\ saved = [c \in Cmds |-> Never] /\ stranded = FALSE

-----------------------------------------------------------------------------
(* Answers and figures                                                      *)

Wall == t + clock.err
AgeInBoot(taken) == (t - taken) % WRAP

\* readingsNoteLine(): a line with a valid row, in the output going by or in
\* none, or past what buf takes.  One that is not valid leaves the last figure.
NoteRow ==
    /\ step = "loop"
    /\ figure' = TakenNow(t)
    /\ buf' \in {buf, t}
    /\ UNCHANGED <<t, clock, wasAwake, outputs, saveDue, flash, step, history>>

\* keep(), at the prompt: the readings have had the lines as they came.
Keep(c) ==
    /\ step = "loop"
    /\ buf # Never => c \in Carriers
    /\ outputs' = [outputs EXCEPT ![c] = TakenNow(buf)]
    /\ saveDue' = TRUE /\ buf' = Never
    /\ UNCHANGED <<t, clock, wasAwake, figure, flash, step, history>>

\* An output that timed out, or was a late tail, is let go.
LetGo ==
    /\ step = "loop" /\ buf # Never
    /\ buf' = Never
    /\ UNCHANGED <<t, clock, wasAwake, outputs, saveDue, figure, flash, step, history>>

-----------------------------------------------------------------------------
(* saveOutputs(), at the asleep edge                                        *)

\* Mutant of Epoch: an answer that came from the flash is saved as if taken now.
EpochNow(a) == Wall - AgeInBoot(t)

Epoch(a) == IF a.src = "boot" THEN Wall - AgeInBoot(a.taken) ELSE a.epoch

\* An answer as the file has it.
ToSave(a) ==
    IF a.src = "none" THEN a
    ELSE [a EXCEPT !.src = "flash", !.epoch = Epoch(a),
                   !.late = a.late \/ (a.src = "boot" /\ t - a.taken >= WRAP)]

\* The answers of the first n commands.
FirstSaved(n) == [c \in Cmds |-> IF c <= n THEN ToSave(outputs[c]) ELSE Nothing]

AwakeEdge ==
    /\ step = "loop" /\ ~wasAwake
    /\ wasAwake' = TRUE
    /\ UNCHANGED <<t, clock, ram, flash, step, history>>

\* The edge with nothing to save, with no clock, or no file to be had.
AsleepEdge ==
    /\ step = "loop" /\ wasAwake
    /\ wasAwake' = FALSE
    /\ UNCHANGED <<t, clock, ram, flash, step, history>>

SaveOpens ==
    /\ step = "loop" /\ wasAwake /\ saveDue /\ clock.valid
    /\ wasAwake' = FALSE
    /\ step' = "write"
    /\ UNCHANGED <<t, clock, ram, flash, history>>

\* Mutant of WriteSome: the new save replaces the old one whole or not.
WriteSomeAnyhow(n) ==
    /\ step = "write"
    /\ tmp' = FirstSaved(n) /\ step' = "remove"
    /\ UNCHANGED <<t, clock, wasAwake, ram, file, history>>

\* A flash that fills takes the first n; what is not whole goes.
WriteSome(n) ==
    /\ step = "write"
    /\ IF n = NCMD THEN tmp' = FirstSaved(n) /\ step' = "remove"
                   ELSE UNCHANGED tmp /\ step' = "loop"
    /\ UNCHANGED <<t, clock, wasAwake, ram, file, history>>

WriteWhole == WriteSome(NCMD)
WriteShort == \E n \in 0 .. NCMD - 1 : WriteSome(n)

RemoveOld ==
    /\ step = "remove"
    /\ file' \in {NoFile, file}
    /\ step' = "rename"
    /\ UNCHANGED <<t, clock, wasAwake, ram, tmp, history>>

RenameNew ==
    /\ step = "rename"
    /\ file' = Holding(tmp) /\ tmp' = Empty
    /\ saveDue' = FALSE
    /\ step' = "loop"
    /\ saved' = [c \in Cmds |-> outputs[c].taken] /\ stranded' = FALSE
    /\ UNCHANGED <<t, clock, wasAwake, outputs, buf, figure>>

\* Mutant of RenameFails: the flag clears with the attempt.
RenameFailsForgets ==
    /\ step = "rename"
    /\ step' = "loop" /\ tmp' = Empty /\ saveDue' = FALSE
    /\ stranded' = (stranded \/ ~file.there)
    /\ UNCHANGED <<t, clock, wasAwake, outputs, buf, figure, file, saved>>

RenameFails ==
    /\ step = "rename"
    /\ step' = "loop" /\ tmp' = Empty
    /\ stranded' = (stranded \/ ~file.there)
    /\ UNCHANGED <<t, clock, wasAwake, ram, file, saved>>

-----------------------------------------------------------------------------
(* Restarts, clock and time                                                 *)

\* The carriers whose answer in a file has the row.
RowsIn(has) == {c \in Carriers : has[c].row # Never}

\* Mutant of FedFigure: a figure that has a value is not noted over.
FedFirst(has) == IF RowsIn(has) = {} THEN Nothing ELSE has[Min(RowsIn(has))]

\* readingsFeed(): in the order of the file, the last that has the row stays,
\* with the epoch of its answer.
FedFigure(has) == IF RowsIn(has) = {} THEN Nothing ELSE has[Max(RowsIn(has))]

\* The power goes, or the board restarts: pollerBegin() loads what is there.
\* The clock is unset until somebody sets it.
Reboot ==
    /\ step' = "loop" /\ tmp' = Empty
    /\ wasAwake' = FALSE /\ saveDue' = FALSE
    /\ clock' = [valid |-> FALSE, err |-> 0]
    /\ outputs' = file.has /\ buf' = Never
    /\ figure' = FedFigure(file.has)
    /\ stranded' = (stranded \/ (step = "rename" /\ ~file.there))
    /\ UNCHANGED <<t, file, saved>>

ClockSet(err) ==
    /\ clock' = [valid |-> TRUE, err |-> err]
    /\ UNCHANGED <<t, wasAwake, ram, flash, step, history>>

\* A pass of saveOutputs() takes no time that matters.
TimePasses ==
    /\ step = "loop" /\ t < MAX_TIME
    /\ t' = t + 1
    /\ UNCHANGED <<clock, wasAwake, ram, flash, step, history>>

Next ==
    \/ \E c \in Cmds : Keep(c)
    \/ NoteRow \/ LetGo \/ AwakeEdge \/ AsleepEdge
    \/ SaveOpens \/ WriteWhole \/ WriteShort
    \/ RemoveOld \/ RenameNew \/ RenameFails
    \/ Reboot \/ TimePasses
    \/ \E err \in Errs : ClockSet(err)

Spec == Init /\ [][Next]_vars

\* The MBB wakes and sleeps, and a flash asked again and again in the end
\* opens a file, writes it whole and renames it.
LiveSpec ==
    /\ Spec
    /\ WF_vars(AwakeEdge) /\ SF_vars(SaveOpens) /\ SF_vars(WriteWhole) /\ SF_vars(RenameNew)
    /\ WF_vars(RemoveOld) /\ WF_vars(AsleepEdge)

-----------------------------------------------------------------------------
(* Properties                                                               *)

TypeOK ==
    /\ t \in Nat
    /\ clock \in [valid : BOOLEAN, err : Errs \cup {0}]
    /\ wasAwake \in BOOLEAN /\ saveDue \in BOOLEAN /\ stranded \in BOOLEAN
    /\ outputs \in [Cmds -> Answer] /\ figure \in Answer /\ buf \in Nat \cup {Never}
    /\ file \in [there : BOOLEAN, has : [Cmds -> Answer]]
    /\ tmp \in [Cmds -> Answer]
    /\ step \in {"loop", "write", "remove", "rename"}
    /\ saved \in [Cmds -> Nat \cup {Never}]

\* pollerOutputAgeS() and the readings' ageS(), in units: what a page is told.
ToldAge(a) == IF a.src = "boot" THEN AgeInBoot(a.taken) ELSE Wall - a.epoch

\* What was on the flash whole is never lost, whatever restarts, short writes
\* and refusals come after, unless the power or the rename failed between the
\* removal of the old save and the rename of the new: each command's answer
\* is the one saved, or a newer one.
SavedIsKept ==
    ~stranded => \A c \in Cmds : outputs[c].taken >= saved[c]

\* An age that is told is right, up to the error of the clock that the answer
\* was saved by and that of the clock it is read by, unless millis() wrapped
\* over the answer: that of an answer, and that of a figure, which a restart
\* ages from its answer's prompt and not from its row.
AgeRight(a) ==
    \/ a.src = "none" \/ a.late
    \/ a.src = "flash" /\ ~clock.valid
    \/ a.src = "boot" /\ t - a.taken >= WRAP
    \/ ToldAge(a) - (t - a.taken) \in {now - then : now, then \in Errs \cup {0}}

AgesRight == \A a \in {outputs[c] : c \in Cmds} \cup {figure} : AgeRight(a)

\* The figure shown is from no older a row than the one in any answer that is
\* kept: a figure of the flash never stands over this boot's.  Of two saved
\* answers that carry it a restart shows that of the later in the file, which
\* may be the older.
FigureNewest ==
    \A c \in Carriers :
        outputs[c].row # Never =>
            \/ figure.row >= outputs[c].row
            \/ /\ figure.src = "flash" /\ outputs[c].src = "flash"
               /\ \E d \in Carriers : d > c

\* What is kept is on the flash, or a restart has lost it.
AllSaved == \A c \in Cmds : outputs[c].taken <= saved[c]

\* With the clock set from some point on, what is kept gets to the flash again
\* and again, although the flash refused it any number of times.
SavedInTheEnd == <>[](clock.valid) => []<>AllSaved
=============================================================================
