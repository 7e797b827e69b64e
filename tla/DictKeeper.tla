----------------------------- MODULE DictKeeper -----------------------------
(***************************************************************************)
(* The dictionary the dongle learns from its own sessions,                  *)
(* src/firmware/src/pure/dictkeeper.h, and dictMaybeRefresh() of            *)
(* src/firmware/src/store.cpp, which rebuilds it at a session's end.  A     *)
(* line, stripped of its stamps, is a value with a size; a buffer of lines  *)
(* is their sequence, and an offset in it the size of what stands before.   *)
(* How the rebuilt dictionary gets to the flash is Flash's; here the write  *)
(* works or does not.                                                       *)
(***************************************************************************)
EXTENDS Integers, Sequences, SequencesExt, Sums

CONSTANTS
    Size,            \* the lines the MBB prints, and their sizes
    GZ_DICT,         \* what a dictionary may hold
    DICT_CAND,       \* what the candidates of a session may hold
    DICT_NOVELTY,    \* new text that makes a refresh due
    MARK_SESSIONS    \* sessions before the used marks start over: 48

Lines == DOMAIN Size

\* Between the two thirds for proven lines and the cap there is room for any line.
ASSUME DictAssumption ==
    /\ \A l \in Lines : Size[l] \in Nat \ {0} /\ Size[l] <= GZ_DICT - ((GZ_DICT * 2) \div 3)
    /\ {GZ_DICT, DICT_CAND, DICT_NOVELTY, MARK_SESSIONS} \subseteq Nat \ {0}

VARIABLES
    dict,       \* dict, start
    used,       \* used
    cand,       \* cand
    sessions,   \* sessionsSinceLoad
    onFlash,    \* the dictionary a restart loads
    heard       \* history: sessions since a line was last heard in this boot, up to Long

keeperVars == <<dict, used, cand, sessions, onFlash, heard>>

Long == MARK_SESSIONS

Sizes(s) == [i \in DOMAIN s |-> Size[s[i]]]
Bytes(s) == Total(Sizes(s))

\* The lines of s that are in S, in their order.
Only(s, S) ==
    LET upTo[i \in 0 .. Len(s)] ==
            IF i = 0 THEN <<>> ELSE IF s[i] \in S THEN Append(upTo[i - 1], s[i]) ELSE upTo[i - 1]
    IN  upTo[Len(s)]

KeeperInit ==
    /\ dict = <<>> /\ used = {} /\ cand = <<>> /\ sessions = 0
    /\ onFlash = <<>>
    /\ heard = [l \in Lines |-> Long]

-----------------------------------------------------------------------------
(* The rebuild                                                              *)

\* s behind out, as far as whole lines fit: the first that does not ends it.
CopyLines(s, out, cap) ==
    LET fits == {k \in 0 .. Len(s) : Bytes(out) + Bytes(SubSeq(s, 1, k)) <= cap}
    IN  out \o SubSeq(s, 1, CHOOSE k \in fits : \A j \in fits : j <= k)

Marked(wanted) == Only(dict, {l \in Lines : (l \in used) = wanted})

\* Mutant of NotCopied: what the first copy took is not skipped.
NotCopiedAll(s, already) == s

\* What stands in s behind its first `already` bytes.
NotCopied(s, already) ==
    LET starts == {k \in 1 .. Len(s) : Bytes(SubSeq(s, 1, k - 1)) >= already}
    IN  IF starts = {} THEN <<>>
        ELSE SubSeq(s, CHOOSE k \in starts : \A j \in starts : k <= j, Len(s))

\* Mutant of ProvenShare: proven lines may fill the whole dictionary.
ProvenShareAll == GZ_DICT

ProvenShare == (GZ_DICT * 2) \div 3

\* Proven lines up to two thirds, then the new ones.
Proven == CopyLines(Marked(TRUE), <<>>, ProvenShare)
WithNew == CopyLines(cand, Proven, GZ_DICT)

\* Mutant of Rebuilt: the rest before the proven lines that were left out.
RebuiltRestFirst ==
    LET more == CopyLines(Marked(FALSE), WithNew, GZ_DICT)
    IN  CopyLines(NotCopied(Marked(TRUE), Bytes(Proven)), more, GZ_DICT)

\* Behind them the proven lines left out, then the rest.
Rebuilt ==
    LET more == CopyLines(NotCopied(Marked(TRUE), Bytes(Proven)), WithNew, GZ_DICT)
    IN  CopyLines(Marked(FALSE), more, GZ_DICT)

NewBytes == Bytes(WithNew) - Bytes(Proven)

-----------------------------------------------------------------------------
(* Operations                                                               *)

Known(l) == Contains(dict, l)

NoRoom(l) == Bytes(cand) + Size[l] > DICT_CAND

\* note()
Note(l) ==
    /\ used' = IF Known(l) THEN used \cup {l} ELSE used
    /\ cand' = IF Known(l) \/ Contains(cand, l) \/ NoRoom(l) THEN cand ELSE Append(cand, l)
    /\ heard' = [heard EXCEPT ![l] = 0]
    /\ UNCHANGED <<dict, sessions, onFlash>>

Older == heard' = [l \in Lines |-> IF heard[l] = Long THEN Long ELSE heard[l] + 1]

\* endSession(): no rebuild; what was used stays marked for so many sessions.
EndSession ==
    /\ cand' = <<>>
    /\ IF sessions + 1 >= MARK_SESSIONS
       THEN used' = {} /\ sessions' = 0
       ELSE sessions' = sessions + 1 /\ UNCHANGED used
    /\ Older
    /\ UNCHANGED <<dict, onFlash>>

\* load()
Load(lines) ==
    /\ dict' = lines
    /\ used' = {} /\ sessions' = 0 /\ cand' = <<>>

\* Enough that is new, and the last refresh an hour ago.
RefreshIsDue(hour) == hour /\ Bytes(cand) >= DICT_NOVELTY

\* The session taught nothing, or the write failed.
NoRefresh ==
    \E hour, written \in BOOLEAN :
        /\ ~RefreshIsDue(hour) \/ NewBytes = 0 \/ Rebuilt = dict \/ ~written
        /\ EndSession

Refresh ==
    /\ RefreshIsDue(TRUE) /\ NewBytes # 0 /\ Rebuilt # dict
    /\ Load(Rebuilt) /\ onFlash' = Rebuilt
    /\ Older

\* The board restarts: storeBegin() loads the dictionary last put to use, and
\* what was heard before is forgotten.
Reboot ==
    /\ Load(onFlash)
    /\ heard' = [l \in Lines |-> Long]
    /\ UNCHANGED onFlash

KeeperNext == (\E l \in Lines : Note(l)) \/ NoRefresh \/ Refresh \/ Reboot

KeeperSpec == KeeperInit /\ [][KeeperNext]_keeperVars

-----------------------------------------------------------------------------
(* Properties                                                               *)

KeeperTypeOK ==
    /\ dict \in Seq(Lines) /\ Bytes(dict) <= GZ_DICT
    /\ used \subseteq ToSet(dict)
    /\ cand \in Seq(Lines) /\ Bytes(cand) <= DICT_CAND
    /\ sessions \in 0 .. MARK_SESSIONS - 1
    /\ onFlash = dict
    /\ heard \in [Lines -> 0 .. Long]

\* No line is in the dictionary or among the candidates twice: the byte counts
\* by which the second copy skips what the first took meet at a line's end; and
\* neither grows past its room.
NothingTwice == KeeperTypeOK /\ IsInjective(dict \o cand)

\* A refresh that is due teaches something: proven lines never fill the room
\* that new ones need, however long the lines are, so the dictionary does not
\* get stuck with what it has.
AlwaysLearns == cand # <<>> => NewBytes > 0

Lately(l) == heard[l] < MARK_SESSIONS
Dropped == {l \in ToSet(dict) : ~Contains(dict', l)}

\* A line heard in the session that ends leaves the dictionary only for want of
\* room: what is new and what was heard lately then leaves none for a line that
\* was heard lately, and no line makes way for one that stopped coming.
RecurringStays ==
    [][(\E l \in Dropped : heard[l] = 0) =>
          \E l \in Dropped :
              /\ Lately(l)
              /\ Bytes(Only(dict', {k \in Lines : ~Contains(dict, k) \/ Lately(k)})) + Size[l]
                    > GZ_DICT]_keeperVars
=============================================================================
