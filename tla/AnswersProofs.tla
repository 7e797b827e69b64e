---------------------------- MODULE AnswersProofs ----------------------------
(***************************************************************************)
(* What the saved answers promise, proved for any number of commands, any   *)
(* errors of the clock and any wrap of millis().                            *)
(***************************************************************************)
EXTENDS Answers, WellFoundedInduction, TLAPS

\* An answer that is kept was taken by now, and one from the flash that was not
\* late carries the moment it was taken, up to an error of the clock.
Sound(a) ==
    /\ a \in Answer
    /\ a.src = "none" => a = Nothing
    /\ a.src # "none" => a.taken \in 0 .. t /\ a.row <= a.taken
    /\ a.src = "flash" /\ ~a.late => a.epoch - a.taken \in Errs \cup {0}

\* One that is in a file is from the flash.
Filed(has) ==
    /\ has \in [Cmds -> Answer]
    /\ \A c \in Cmds : Sound(has[c]) /\ has[c].src # "boot"

\* Outside a save there is an old save or none was ever finished; within one,
\* the new file has what is kept; and what was saved whole is not older than
\* what is kept and than what is on the flash.
SaveInv ==
    /\ ~file.there => file.has = Empty
    /\ step \in {"remove", "rename"} => \A c \in Cmds : tmp[c].taken = outputs[c].taken
    /\ \A c \in Cmds : saved[c] <= t
    /\ ~stranded =>
          /\ \A c \in Cmds : outputs[c].taken >= saved[c]
          /\ file.there => \A c \in Cmds : file.has[c].taken >= saved[c]
          /\ ~file.there /\ step # "rename" => \A c \in Cmds : saved[c] = Never

\* A row in the output that is going by is the figure shown, or an older one of
\* this boot.
RowNoted == buf # Never => figure.src = "boot" /\ buf <= figure.row

\* The inductive invariant.
IInv ==
    /\ TypeOK
    /\ RowNoted
    /\ \A c \in Cmds : Sound(outputs[c])
    /\ Sound(figure)
    /\ Filed(file.has) /\ Filed(tmp)
    /\ SaveInv
    /\ FigureNewest

-----------------------------------------------------------------------------
\* A set of commands that is not empty has a greatest.
LEMMA GreatestCommand ==
  ASSUME NEW S, S \subseteq Cmds, S # {}
  PROVE  Max(S) \in S /\ \A y \in S : Max(S) >= y
<1> DEFINE T == {NCMD - c : c \in S}
<1>0. NCMD \in Nat /\ \A c \in S : c \in Nat /\ c <= NCMD
  BY AnswersAssumption DEF Cmds
<1>1. T \subseteq Nat /\ T # {}
  <2>1. \A c \in S : NCMD - c \in Nat
    BY <1>0
  <2> QED
    BY <2>1
<1>2. PICK m \in T : \A y \in T : ~(<<y, m>> \in OpToRel(<, Nat))
  BY <1>1, NatLessThanWellFounded, WFMin
<1>4. PICK x \in S : m = NCMD - x
  BY <1>2
<1> HIDE DEF T
<1>3. ASSUME NEW y \in T PROVE m <= y
  <2>0. y \in Nat /\ m \in Nat
    BY <1>1, <1>2
  <2>1. y < m => <<y, m>> \in OpToRel(<, Nat)
    BY <2>0 DEF OpToRel
  <2>2. ~(<<y, m>> \in OpToRel(<, Nat))
    BY <1>2
  <2>3. ~(y < m)
    BY <2>1, <2>2
  <2> QED
    BY <2>0, <2>3
<1>5. \A y \in S : x >= y
  <2> SUFFICES ASSUME NEW y \in S PROVE x >= y
    OBVIOUS
  <2>1. NCMD - x <= NCMD - y
    BY <1>3, <1>4 DEF T
  <2> QED
    BY <2>1, AnswersAssumption DEF Cmds
<1> QED
  BY <1>4, <1>5 DEF Max

\* The empty answer is sound, and an empty file.
LEMMA NothingSound ==
  ASSUME t \in Nat
  PROVE  Sound(Nothing) /\ Filed(Empty) /\ \A c \in Cmds : Empty[c] = Nothing
<1>1. Nothing \in Answer
  BY DEF Nothing, Answer, Never
<1>2. Sound(Nothing)
  BY <1>1 DEF Sound, Nothing
<1> QED
  BY <1>1, <1>2 DEF Filed, Empty, Nothing

\* So is one just taken.
LEMMA TakenSound ==
  ASSUME t \in Nat, NEW row \in Nat \cup {Never}, row <= t
  PROVE  Sound(TakenNow(row)) /\ TakenNow(row).taken = t /\ TakenNow(row).row = row
         /\ TakenNow(row).src = "boot"
BY DEF Sound, TakenNow, Answer, Never

\* What is in a file stays so as time goes on.
LEMMA FiledSame ==
  ASSUME t \in Nat, t' \in Nat, t' >= t, NEW has, Filed(has)
  PROVE  /\ \A c \in Cmds : Sound(has[c]) => Sound(has[c])'
         /\ Filed(has)'
BY DEF Filed, Sound

\* An answer as it is saved is an answer of the flash, taken when it was.
LEMMA SavedSound ==
  ASSUME TypeOK, NEW a, Sound(a)
  PROVE  /\ Sound(ToSave(a)) /\ ToSave(a).src # "boot"
         /\ ToSave(a).taken = a.taken /\ ToSave(a).row = a.row
<1>1. CASE a.src = "none"
  BY <1>1 DEF ToSave
<1>2. CASE a.src # "none"
  <2> DEFINE b == ToSave(a)
  <2>1. a \in Answer /\ a.taken \in 0 .. t /\ t \in Nat /\ a.late \in BOOLEAN
    BY <1>2 DEF Sound, Answer, TypeOK
  <2>2. Wall \in Int /\ clock.err \in Errs \cup {0} /\ clock.err \in Int
    <3>1. clock.err \in Errs \cup {0}
      BY DEF TypeOK
    <3>2. clock.err \in Int
      <4>1. \A e \in Errs \cup {0} : e \in Int
        BY AnswersAssumption
      <4> QED
        BY <3>1, <4>1
    <3> QED
      BY <2>1, <3>1, <3>2 DEF Wall
  <2>3. AgeInBoot(a.taken) \in Int /\ (t - a.taken < WRAP => AgeInBoot(a.taken) = t - a.taken)
    BY <2>1, AnswersAssumption DEF AgeInBoot
  <2>4. Epoch(a) \in Int
    BY <2>1, <2>2, <2>3 DEF Epoch, Answer
  <2>5. /\ b.src = "flash" /\ b.taken = a.taken /\ b.epoch = Epoch(a) /\ b.row = a.row
        /\ b.late = (a.late \/ (a.src = "boot" /\ t - a.taken >= WRAP)) /\ b \in Answer
    BY <1>2, <2>1, <2>4 DEF ToSave, Answer
  <2>6. ~b.late => Epoch(a) - a.taken \in Errs \cup {0}
    <3> SUFFICES ASSUME ~b.late PROVE Epoch(a) - a.taken \in Errs \cup {0}
      OBVIOUS
    <3>1. CASE a.src = "boot"
      <4>1. t - a.taken < WRAP
        <5>1. ~(t - a.taken >= WRAP)
          BY <2>5, <3>1
        <5> QED
          BY <2>1, <5>1, AnswersAssumption
      <4>2. Epoch(a) - a.taken = clock.err
        <5>1. Epoch(a) = (t + clock.err) - (t - a.taken)
          BY <2>3, <3>1, <4>1 DEF Epoch, Wall
        <5>2. a.taken \in Int /\ t \in Int
          BY <2>1
        <5> QED
          BY <2>2, <5>1, <5>2
      <4> QED
        BY <2>2, <4>2
    <3>2. CASE a.src = "flash"
      BY <2>5, <3>2 DEF Sound, Epoch
    <3> QED
      BY <1>2, <2>1, <3>1, <3>2 DEF Answer
  <2> QED
    BY <1>2, <2>1, <2>5, <2>6 DEF Sound
<1> QED
  BY <1>1, <1>2


-----------------------------------------------------------------------------
\* Before anything was asked all is in order.
LEMMA Initially == Init => IInv
<1> SUFFICES ASSUME Init PROVE IInv
  OBVIOUS
<1>1. t \in Nat /\ Sound(Nothing) /\ Filed(Empty) /\ \A c \in Cmds : Empty[c] = Nothing
  BY NothingSound DEF Init
<1>2. TypeOK
  BY <1>1 DEF Init, TypeOK, Filed, Sound, NoFile, Never
<1>3. SaveInv
  BY <1>1 DEF Init, SaveInv, NoFile, Nothing, Never
<1>4. FigureNewest
  BY <1>1, AnswersAssumption DEF Init, FigureNewest, Nothing, Cmds
<1> QED
  BY <1>1, <1>2, <1>3, <1>4, AnswersAssumption DEF IInv, Init, NoFile, RowNoted

\* A kept answer is the newest there is of it, and its row was noted before.
LEMMA KeepInv ==
  ASSUME IInv, NEW c \in Cmds, Keep(c)
  PROVE  IInv'
<1>1. /\ t \in Nat /\ t' = t /\ step = "loop"
      /\ UNCHANGED <<clock, wasAwake, figure, file, tmp, step, saved, stranded>>
  BY DEF Keep, flash, history, IInv, TypeOK
<1>2. /\ Sound(TakenNow(buf)) /\ TakenNow(buf).taken = t /\ TakenNow(buf).row = buf
      /\ TakenNow(buf).src = "boot"
  <2>1. buf \in Nat \cup {Never}
    BY DEF IInv, TypeOK
  <2>2. buf <= t
    <3>1. CASE buf = Never
      BY <1>1, <3>1 DEF Never
    <3>2. CASE buf # Never
      <4>1. buf <= figure.row /\ figure.row <= figure.taken /\ figure.taken <= t
        BY <3>2, <1>1 DEF IInv, RowNoted, Sound
      <4>2. figure.row \in Int /\ figure.taken \in Int
        BY DEF IInv, Sound, Answer, Never
      <4> QED
        BY <1>1, <2>1, <4>1, <4>2 DEF Never
    <3> QED
      BY <3>1, <3>2
  <2> QED
    BY <1>1, <2>1, <2>2, TakenSound
<1>3. /\ outputs \in [Cmds -> Answer]
      /\ outputs' = [outputs EXCEPT ![c] = TakenNow(buf)]
      /\ saveDue' = TRUE /\ buf' = Never
  BY DEF Keep, IInv, TypeOK
<1>4. outputs' \in [Cmds -> Answer]
  BY <1>2, <1>3 DEF Sound, IInv
<1>5. TypeOK' /\ RowNoted'
  BY <1>1, <1>3, <1>4 DEF IInv, TypeOK, RowNoted
<1>6. Sound(figure)' /\ \A x \in Cmds : Sound(outputs[x])'
  <2>1. Sound(figure') /\ \A x \in Cmds : Sound(outputs'[x])
    BY <1>1, <1>2, <1>3 DEF IInv
  <2> QED
    BY <1>1, <2>1 DEF Sound
<1>7. Filed(file.has)' /\ Filed(tmp)'
  BY <1>1, FiledSame DEF IInv
<1>8. \A x \in Cmds : outputs[x].taken \in Int /\ outputs'[x].taken >= outputs[x].taken
  <2> SUFFICES ASSUME NEW x \in Cmds
               PROVE  outputs[x].taken \in Int /\ outputs'[x].taken >= outputs[x].taken
    OBVIOUS
  <2>1. outputs[x].taken \in Nat \cup {Never} /\ outputs[x].taken <= t
    BY <1>1 DEF IInv, Sound, Nothing, Never, Answer
  <2> QED
    BY <1>1, <1>2, <1>3, <2>1 DEF Never
<1>9. SaveInv'
  <2>1. \A x \in Cmds : saved[x] \in Int
    BY DEF IInv, TypeOK, Never
  <2>2. ~stranded => \A x \in Cmds : outputs'[x].taken >= saved[x]
    <3> SUFFICES ASSUME ~stranded, NEW x \in Cmds PROVE outputs'[x].taken >= saved[x]
      OBVIOUS
    <3>1. outputs'[x].taken \in Int
      BY <1>4 DEF Answer, Never
    <3>2. outputs[x].taken >= saved[x]
      BY DEF IInv, SaveInv
    <3> QED
      BY <1>8, <2>1, <3>1, <3>2
  <2> QED
    BY <1>1, <2>2 DEF IInv, SaveInv
<1>10. FigureNewest'
  <2> SUFFICES ASSUME NEW x \in Carriers, outputs'[x].row # Never
               PROVE  \/ figure'.row >= outputs'[x].row
                      \/ /\ figure'.src = "flash" /\ outputs'[x].src = "flash"
                         /\ \E d \in Carriers : d > x
    BY DEF FigureNewest
  <2>1. x \in Cmds
    BY AnswersAssumption DEF Cmds
  <2>2. CASE x = c
    <3>1. outputs'[x].row = buf
      BY <1>2, <1>3, <2>1, <2>2
    <3>2. buf \in Int /\ figure.row \in Int
      BY DEF IInv, TypeOK, Sound, Answer, Never
    <3> QED
      BY <1>1, <3>1, <3>2 DEF IInv, RowNoted
  <2>3. CASE x # c
    BY <1>1, <1>3, <2>1, <2>3 DEF IInv, FigureNewest
  <2> QED
    BY <2>2, <2>3
<1> QED
  BY <1>5, <1>6, <1>7, <1>9, <1>10 DEF IInv

\* A row just noted is newer than that of any answer, and than the one before
\* it in the same output.
LEMMA NoteRowInv ==
  ASSUME IInv, NoteRow
  PROVE  IInv'
<1>1. /\ t \in Nat /\ t' = t
      /\ UNCHANGED <<clock, wasAwake, outputs, saveDue, file, tmp, step, saved, stranded>>
      /\ figure' = TakenNow(t) /\ buf' \in {buf, t}
  BY DEF NoteRow, flash, history, IInv, TypeOK
<1>2. Sound(figure') /\ figure'.row = t /\ figure'.src = "boot"
  BY <1>1, TakenSound
<1>3. Sound(figure)' /\ (\A c \in Cmds : Sound(outputs[c])') /\ Filed(file.has)' /\ Filed(tmp)'
  <2>1. Filed(file.has)' /\ Filed(tmp)'
    BY <1>1, FiledSame DEF IInv
  <2>2. Sound(figure)'
    BY <1>1, <1>2 DEF Sound
  <2>3. \A c \in Cmds : Sound(outputs[c])'
    BY <1>1 DEF IInv, Sound
  <2> QED
    BY <2>1, <2>2, <2>3
<1>4. TypeOK' /\ SaveInv'
  BY <1>1, <1>2 DEF IInv, TypeOK, SaveInv, Sound
<1>5. ASSUME NEW a, Sound(a) PROVE a.row <= t
  <2>1. a.src = "none" => a.row = Never
    BY <1>5 DEF Sound, Nothing
  <2>2. a.src # "none" => a.row <= a.taken /\ a.taken \in Nat /\ a.taken <= t /\ a.row \in Int
    BY <1>1, <1>5 DEF Sound, Answer, Never
  <2> QED
    BY <1>1, <2>1, <2>2 DEF Never
<1>6. RowNoted'
  <2>1. CASE buf' = t
    BY <1>1, <1>2, <2>1 DEF RowNoted
  <2>2. CASE buf' = buf
    <3> SUFFICES ASSUME buf # Never PROVE buf <= t
      BY <1>2, <2>2 DEF RowNoted
    <3>1. buf <= figure.row /\ figure.row <= t
      BY <1>5 DEF IInv, RowNoted
    <3>2. buf \in Int /\ figure.row \in Int
      BY DEF IInv, TypeOK, Sound, Answer, Never
    <3> QED
      BY <1>1, <3>1, <3>2
  <2> QED
    BY <1>1, <2>1, <2>2
<1>7. FigureNewest'
  <2> SUFFICES ASSUME NEW c \in Carriers PROVE t >= outputs[c].row
    BY <1>1, <1>2 DEF FigureNewest
  <2>1. Sound(outputs[c]) /\ outputs[c].row \in Int
    BY AnswersAssumption DEF IInv, Cmds, Sound, Answer, Never
  <2> QED
    BY <1>1, <1>5, <2>1
<1> QED
  BY <1>3, <1>4, <1>6, <1>7 DEF IInv


\* The steps that touch no answer.
LEMMA EdgesInv ==
  ASSUME IInv, AwakeEdge \/ AsleepEdge \/ SaveOpens \/ WriteShort \/ RenameFails \/ LetGo
               \/ UNCHANGED vars \/ \E err \in Errs : ClockSet(err)
  PROVE  IInv'
<1>1. /\ t \in Nat /\ t' = t
      /\ UNCHANGED <<outputs, saveDue, figure, file, saved>> /\ buf' \in {buf, Never}
  BY DEF AwakeEdge, AsleepEdge, SaveOpens, WriteShort, WriteSome, RenameFails, LetGo, ClockSet,
         vars, ram, flash, history, IInv, TypeOK
<1>2. tmp' = tmp \/ tmp' = Empty
  BY DEF AwakeEdge, AsleepEdge, SaveOpens, WriteShort, WriteSome, RenameFails, LetGo, ClockSet,
         vars, flash
<1>3. /\ step' \in {"loop", "write", "remove", "rename"}
      /\ step' \in {"remove", "rename"} => tmp' = tmp /\ step' = step
  BY AnswersAssumption DEF AwakeEdge, AsleepEdge, SaveOpens, WriteShort, WriteSome, RenameFails,
         LetGo, ClockSet, vars, flash, IInv, TypeOK
<1>4. stranded' \in BOOLEAN /\ (~stranded' => ~stranded /\ (step = "rename" /\ step' # step => file.there))
  BY DEF AwakeEdge, AsleepEdge, SaveOpens, WriteShort, WriteSome, RenameFails, LetGo, ClockSet,
         vars, history, IInv, TypeOK
<1>5. /\ wasAwake' \in BOOLEAN
      /\ clock' \in [valid : BOOLEAN, err : Errs \cup {0}]
  <2>1. CASE \E err \in Errs : ClockSet(err)
    BY <2>1 DEF ClockSet, IInv, TypeOK
  <2>2. CASE \/ AwakeEdge \/ AsleepEdge \/ SaveOpens \/ WriteShort \/ RenameFails
            \/ LetGo \/ UNCHANGED vars
    <3>1. clock' = clock /\ wasAwake' \in {TRUE, FALSE, wasAwake}
      BY <2>2 DEF AwakeEdge, AsleepEdge, SaveOpens, WriteShort, WriteSome, RenameFails, LetGo, vars
    <3> QED
      BY <3>1 DEF IInv, TypeOK
  <2> QED
    BY <2>1, <2>2
<1>6. Filed(tmp)' /\ Filed(file.has)'
  <2>1. Filed(tmp') /\ Filed(file.has)
    BY <1>1, <1>2, NothingSound DEF IInv
  <2> QED
    BY <1>1, <2>1 DEF Filed, Sound
<1>7. TypeOK' /\ RowNoted'
  BY <1>1, <1>3, <1>4, <1>5, <1>6 DEF IInv, TypeOK, Filed, RowNoted
<1>8. Sound(figure)' /\ \A c \in Cmds : Sound(outputs[c])'
  BY <1>1 DEF IInv, Sound
<1>9. SaveInv'
  BY <1>1, <1>3, <1>4 DEF IInv, SaveInv
<1>10. FigureNewest'
  BY <1>1 DEF IInv, FigureNewest
<1> QED
  BY <1>6, <1>7, <1>8, <1>9, <1>10 DEF IInv

\* A save written whole holds all that is kept.
LEMMA WriteWholeInv ==
  ASSUME IInv, WriteWhole
  PROVE  IInv'
<1>1. /\ t \in Nat /\ t' = t
      /\ UNCHANGED <<clock, wasAwake, outputs, saveDue, buf, figure, file, saved, stranded>>
      /\ step = "write" /\ step' = "remove" /\ tmp' = FirstSaved(NCMD)
  BY DEF WriteWhole, WriteSome, ram, history, IInv, TypeOK
<1>2. /\ tmp' = [c \in Cmds |-> ToSave(outputs[c])]
  BY <1>1, AnswersAssumption DEF FirstSaved, Cmds
<1>3. \A c \in Cmds : /\ Sound(ToSave(outputs[c])) /\ ToSave(outputs[c]).src # "boot"
                      /\ ToSave(outputs[c]).taken = outputs[c].taken
  BY SavedSound DEF IInv
<1>4. Filed(tmp')
  BY <1>2, <1>3 DEF Filed, Sound
<1>5. Filed(tmp)' /\ Filed(file.has)'
  BY <1>1, <1>4 DEF IInv, Filed, Sound
<1>6. TypeOK' /\ RowNoted'
  BY <1>1, <1>4 DEF IInv, TypeOK, Filed, RowNoted
<1>7. Sound(figure)' /\ \A c \in Cmds : Sound(outputs[c])'
  BY <1>1 DEF IInv, Sound
<1>8. SaveInv'
  BY <1>1, <1>2, <1>3 DEF IInv, SaveInv
<1>9. FigureNewest'
  BY <1>1 DEF IInv, FigureNewest
<1> QED
  BY <1>5, <1>6, <1>7, <1>8, <1>9 DEF IInv

\* While the old one is gone the new one is still to be renamed.
LEMMA RemoveOldInv ==
  ASSUME IInv, RemoveOld
  PROVE  IInv'
<1>1. /\ t \in Nat /\ t' = t
      /\ UNCHANGED <<clock, wasAwake, outputs, saveDue, buf, figure, tmp, saved, stranded>>
      /\ step = "remove" /\ step' = "rename" /\ file' \in {NoFile, file}
  BY DEF RemoveOld, ram, history, IInv, TypeOK
<1>2. Filed(file'.has) /\ file' \in [there : BOOLEAN, has : [Cmds -> Answer]]
  <2>1. Filed(NoFile.has) /\ NoFile \in [there : BOOLEAN, has : [Cmds -> Answer]]
    BY <1>1, NothingSound DEF NoFile, Filed
  <2>2. Filed(file.has) /\ file \in [there : BOOLEAN, has : [Cmds -> Answer]]
    BY DEF IInv, TypeOK
  <2> QED
    BY <1>1, <2>1, <2>2
<1>3. Filed(tmp)' /\ Filed(file.has)'
  BY <1>1, <1>2 DEF IInv, Filed, Sound
<1>4. TypeOK' /\ RowNoted'
  BY <1>1, <1>2 DEF IInv, TypeOK, RowNoted
<1>5. Sound(figure)' /\ \A c \in Cmds : Sound(outputs[c])'
  BY <1>1 DEF IInv, Sound
<1>6. SaveInv'
  BY <1>1 DEF IInv, SaveInv, NoFile
<1>7. FigureNewest'
  BY <1>1 DEF IInv, FigureNewest
<1> QED
  BY <1>3, <1>4, <1>5, <1>6, <1>7 DEF IInv

\* The new save has all that is kept.
LEMMA RenameNewInv ==
  ASSUME IInv, RenameNew
  PROVE  IInv'
<1>1. /\ t \in Nat /\ t' = t
      /\ UNCHANGED <<clock, wasAwake, outputs, buf, figure>>
      /\ step = "rename" /\ step' = "loop" /\ saveDue' = FALSE /\ stranded' = FALSE
      /\ file' = Holding(tmp) /\ tmp' = Empty /\ saved' = [c \in Cmds |-> outputs[c].taken]
  BY DEF RenameNew, IInv, TypeOK
<1>2. Filed(file'.has) /\ Filed(tmp') /\ file' \in [there : BOOLEAN, has : [Cmds -> Answer]]
      /\ file'.there /\ file'.has = tmp
  BY <1>1, NothingSound DEF IInv, TypeOK, Holding, Filed
<1>3. Filed(tmp)' /\ Filed(file.has)'
  BY <1>1, <1>2 DEF IInv, Filed, Sound
<1>4. \A c \in Cmds : outputs[c].taken \in Nat \cup {Never} /\ outputs[c].taken <= t
  BY <1>1 DEF IInv, Sound, Nothing, Never, Answer
<1>5. TypeOK' /\ RowNoted'
  BY <1>1, <1>2, <1>4 DEF IInv, TypeOK, Filed, RowNoted
<1>6. Sound(figure)' /\ \A c \in Cmds : Sound(outputs[c])'
  BY <1>1 DEF IInv, Sound
<1>7. SaveInv'
  <2>1. \A c \in Cmds : tmp[c].taken = outputs[c].taken
    BY <1>1 DEF IInv, SaveInv
  <2>2. \A c \in Cmds : outputs[c].taken >= outputs[c].taken
    BY <1>4 DEF Never
  <2> QED
    BY <1>1, <1>2, <1>4, <2>1, <2>2 DEF SaveInv
<1>8. FigureNewest'
  BY <1>1 DEF IInv, FigureNewest
<1> QED
  BY <1>3, <1>5, <1>6, <1>7, <1>8 DEF IInv

\* What a restart finds is what was saved, and its figure is one of the file's.
LEMMA RebootInv ==
  ASSUME IInv, Reboot
  PROVE  IInv'
<1>1. /\ t \in Nat /\ t' = t
      /\ UNCHANGED <<file, saved>>
      /\ step' = "loop" /\ tmp' = Empty /\ wasAwake' = FALSE /\ saveDue' = FALSE
      /\ clock' = [valid |-> FALSE, err |-> 0]
      /\ outputs' = file.has /\ buf' = Never /\ figure' = FedFigure(file.has)
      /\ stranded' = (stranded \/ (step = "rename" /\ ~file.there))
  BY DEF Reboot, IInv, TypeOK
<1>2. Filed(file.has) /\ Filed(tmp')
  BY <1>1, NothingSound DEF IInv
<1>3. \/ figure' = Nothing /\ \A c \in Carriers : file.has[c].row = Never
      \/ \E c \in Cmds : /\ figure' = file.has[c] /\ file.has[c].row # Never
                        /\ c \in Carriers
                        /\ \A d \in Carriers : d > c => file.has[d].row = Never
  <2> DEFINE rows == RowsIn(file.has)
  <2>1. rows \subseteq Cmds
    BY AnswersAssumption DEF Cmds, RowsIn
  <2>2. CASE rows = {}
    BY <1>1, <2>2 DEF FedFigure, RowsIn
  <2>3. CASE rows # {}
    <3>1. Max(rows) \in rows /\ \A y \in rows : Max(rows) >= y
      BY <2>1, <2>3, GreatestCommand
    <3>2. figure' = file.has[Max(rows)]
      BY <1>1, <2>3 DEF FedFigure
    <3>3. file.has[Max(rows)].row # Never /\ Max(rows) \in Cmds /\ Max(rows) \in Carriers
      BY <2>1, <3>1 DEF RowsIn
    <3>4. ASSUME NEW d \in Carriers, d > Max(rows) PROVE file.has[d].row = Never
      <4>1. d \in Int /\ Max(rows) \in Int
        BY <3>3, AnswersAssumption DEF Cmds
      <4>2. d \notin rows
        BY <3>1, <3>4, <4>1
      <4> QED
        BY <4>2 DEF RowsIn
    <3> QED
      BY <3>2, <3>3, <3>4
  <2> QED
    BY <2>2, <2>3
<1>4. Sound(figure') /\ \A c \in Cmds : Sound(outputs'[c])
  BY <1>1, <1>2, <1>3, NothingSound DEF Filed
<1>5. Sound(figure)' /\ (\A c \in Cmds : Sound(outputs[c])') /\ Filed(file.has)' /\ Filed(tmp)'
  <2>1. Filed(file.has)' /\ Filed(tmp)'
    BY <1>1, <1>2 DEF Filed, Sound
  <2> QED
    BY <1>1, <1>4, <2>1 DEF Sound
<1>6. TypeOK' /\ RowNoted'
  BY <1>1, <1>2, <1>4 DEF IInv, TypeOK, Filed, Sound, RowNoted, Never
<1>7. SaveInv'
  <2>1. ~stranded' => ~stranded /\ (file.there \/ step # "rename")
    BY <1>1
  <2>2. ASSUME ~stranded' PROVE \A c \in Cmds : outputs'[c].taken >= saved[c]
    <3>1. CASE file.there
      BY <1>1, <2>1, <2>2, <3>1 DEF IInv, SaveInv
    <3>2. CASE ~file.there
      <4>1. \A c \in Cmds : saved[c] = Never /\ outputs'[c] = Nothing
        BY <1>1, <2>1, <2>2, <3>2, NothingSound DEF IInv, SaveInv
      <4> QED
        BY <4>1 DEF Nothing, Never
    <3> QED
      BY <3>1, <3>2
  <2> QED
    BY <1>1, <2>1, <2>2 DEF IInv, SaveInv
<1>8. FigureNewest'
  <2> SUFFICES ASSUME NEW c \in Carriers, file.has[c].row # Never
               PROVE  \/ figure'.row >= file.has[c].row
                      \/ /\ figure'.src = "flash" /\ file.has[c].src = "flash"
                         /\ \E d \in Carriers : d > c
    BY <1>1 DEF FigureNewest
  <2>1. PICK x \in Cmds : /\ figure' = file.has[x] /\ file.has[x].row # Never
                          /\ x \in Carriers
                          /\ \A d \in Carriers : d > x => file.has[d].row = Never
    BY <1>3
  <2>2. ASSUME NEW y \in Cmds, file.has[y].row # Never
        PROVE  file.has[y].src = "flash" /\ file.has[y].row \in Int
    <3>1. Sound(file.has[y]) /\ file.has[y].src # "boot"
      BY <1>2 DEF Filed
    <3> QED
      BY <2>2, <3>1 DEF Sound, Nothing, Answer, Never
  <2>3. c \in Cmds /\ c \in Int /\ x \in Int
    BY AnswersAssumption DEF Cmds
  <2>4. CASE x = c
    BY <2>1, <2>2, <2>3, <2>4
  <2>5. CASE x # c
    <3>1. ~(c > x)
      BY <2>1
    <3>2. c < x
      BY <2>3, <2>5, <3>1
    <3> QED
      BY <2>1, <2>2, <2>3, <3>2
  <2> QED
    BY <2>4, <2>5
<1> QED
  BY <1>5, <1>6, <1>7, <1>8 DEF IInv

\* What was taken by now was taken by then.
LEMMA TimePassesInv ==
  ASSUME IInv, TimePasses
  PROVE  IInv'
<1>1. /\ t \in Nat /\ t' = t + 1
      /\ UNCHANGED <<clock, wasAwake, outputs, saveDue, buf, figure, file, tmp, step, saved, stranded>>
  BY DEF TimePasses, ram, flash, history, IInv, TypeOK
<1>2. ASSUME NEW a, Sound(a) PROVE Sound(a)'
  BY <1>1, <1>2 DEF Sound
<1>3. (\A c \in Cmds : Sound(outputs[c])') /\ Sound(figure)' /\ Filed(file.has)' /\ Filed(tmp)'
  <2>1. Sound(figure') /\ (\A c \in Cmds : Sound(outputs'[c])) /\ Filed(file'.has) /\ Filed(tmp')
    BY <1>1 DEF IInv
  <2> QED
    BY <1>1, <2>1 DEF Sound, Filed
<1>4. TypeOK' /\ RowNoted'
  BY <1>1 DEF IInv, TypeOK, RowNoted
<1>5. SaveInv'
  <2>1. \A c \in Cmds : saved[c] <= t /\ saved[c] \in Int
    BY DEF IInv, SaveInv, TypeOK, Never
  <2> QED
    BY <1>1, <2>1 DEF IInv, SaveInv
<1>6. FigureNewest'
  BY <1>1 DEF IInv, FigureNewest
<1> QED
  BY <1>3, <1>4, <1>5, <1>6 DEF IInv

\* However the flash fails and whenever the power goes, what is kept, what is in
\* the files and what was saved whole stay in this relation.
THEOREM AnswersInductive == Spec => []IInv
<1>1. Init => IInv
  BY Initially
<1>2. IInv /\ [Next]_vars => IInv'
  BY KeepInv, NoteRowInv, EdgesInv, WriteWholeInv, RemoveOldInv, RenameNewInv, RebootInv,
     TimePassesInv, AnswersAssumption DEF Next, Cmds
<1> QED
  BY <1>1, <1>2, PTL DEF Spec

\* The answers, the figure, the files and the counters keep their types.
THEOREM TypeCorrect == Spec => []TypeOK
<1>1. IInv => TypeOK
  BY DEF IInv
<1> QED
  BY <1>1, AnswersInductive, PTL

\* What a save left on the flash whole is not lost to a later one.
THEOREM SavedStays == Spec => []SavedIsKept
<1>1. IInv => SavedIsKept
  BY DEF IInv, SaveInv, SavedIsKept
<1> QED
  BY <1>1, AnswersInductive, PTL

\* The table never shows an older row than an answer of this boot has, nor than
\* one that was saved, but for the file's last of those that carry it.
THEOREM NewestShown == Spec => []FigureNewest
<1>1. IInv => FigureNewest
  BY DEF IInv
<1> QED
  BY <1>1, AnswersInductive, PTL

\* The age a page is told is the true one up to the errors of the clocks.
LEMMA SoundAge ==
  ASSUME TypeOK, NEW a, Sound(a)
  PROVE  AgeRight(a)
<1> SUFFICES ASSUME a.src # "none", ~a.late, a.src = "flash" => clock.valid,
                    ~(a.src = "boot" /\ t - a.taken >= WRAP)
             PROVE  ToldAge(a) - (t - a.taken) \in {now - then : now, then \in Errs \cup {0}}
  BY DEF AgeRight
<1>1. /\ a.taken \in Nat /\ a.taken <= t /\ t \in Nat /\ a.src \in {"boot", "flash"}
      /\ a.epoch \in Int
  BY DEF Sound, TypeOK, Answer
<1>2. clock.err \in Errs \cup {0} /\ \A e \in Errs \cup {0} : e \in Int
  BY AnswersAssumption DEF TypeOK
<1>3. CASE a.src = "boot"
  <2>1. t - a.taken < WRAP
    BY <1>1, <1>3, AnswersAssumption
  <2>2. ToldAge(a) = t - a.taken
    BY <1>1, <1>3, <2>1, AnswersAssumption DEF ToldAge, AgeInBoot
  <2>3. ToldAge(a) - (t - a.taken) = 0 - 0
    BY <1>1, <2>2
  <2> QED
    BY <2>3
<1>4. CASE a.src = "flash"
  <2>1. a.epoch - a.taken \in Errs \cup {0}
    BY <1>4 DEF Sound
  <2>2. ToldAge(a) = (t + clock.err) - a.epoch
    BY <1>4 DEF ToldAge, Wall
  <2>3. clock.err \in Int
    BY <1>2
  <2>4. ToldAge(a) - (t - a.taken) = clock.err - (a.epoch - a.taken)
    BY <1>1, <2>2, <2>3
  <2>5. \A now, then \in Errs \cup {0} :
           now - then \in {x - y : x, y \in Errs \cup {0}}
    OBVIOUS
  <2> QED
    BY <1>2, <2>1, <2>4, <2>5
<1> QED
  BY <1>1, <1>3, <1>4

\* So every age told is right, whatever the clock was and whenever it was set.
THEOREM AgesAreRight == Spec => []AgesRight
<1>1. IInv => AgesRight
  BY SoundAge DEF IInv, AgesRight
<1> QED
  BY <1>1, AnswersInductive, PTL
=============================================================================
