------------------------------ MODULE Programs ------------------------------
(***************************************************************************)
(* The objects' programs in a shared editing session (editor_session.go)   *)
(* and in the boards it stores (game.go).  Every edit closes the open board*)
(* into its bytes, and a board is opened over the stats of the one before. *)
(* Closing binds an object whose program equals an earlier one's to that   *)
(* one by a negative DataLen, in the bytes and in the open board; opening  *)
(* resolves it.  A program is a text; how long it is does not matter here. *)
(***************************************************************************)
EXTENDS Integers, FiniteSetsExt

CONSTANTS Board, Text,
          NoText,              \* "": Data of an object without a program
          MAX_STAT,
          PastLoss             \* whether a board that lost a program is edited further

VARIABLES
  current,   \* World.Info.CurrentBoard
  stats,     \* Board.Stats above the player's, those past StatCount too
  count,     \* Board.StatCount
  file,      \* World.BoardData: how many stats, and their records
  given,     \* ghost: the program each object was given by its author
  shifted,   \* ghost: the boards an object was erased from below a bound one
  leftover   \* ghost: those opened with another board's text in an object

vars == <<current, stats, count, file, given, shifted, leftover>>

Slot    == 1..MAX_STAT
NewStat == [data |-> NoText, len |-> 0]      \* StatTemplateDefault; len 1: a program of its own
Fresh   == [i \in Slot |-> NewStat]          \* a new engine
Empty   == [count |-> 0, stats |-> Fresh]    \* BoardCreate

-----------------------------------------------------------------------------
(* Closing and opening                                                     *)

(* BoardClose: a program that is also an earlier stat's is bound to the    *)
(* last of those, whatever that one's own DataLen is.                      *)
Bound(s, n) ==
  [i \in Slot |->
     LET same == {j \in 1..(i - 1) : s[j].data = s[i].data}
     IN IF i <= n /\ s[i].len > 0 /\ same # {} THEN [s[i] EXCEPT !.len = -Max(same)] ELSE s[i]]

Stored(s, n) ==
  [count |-> n,
   stats |-> [i \in Slot |-> IF i > n THEN NewStat
                             ELSE IF s[i].len > 0 THEN s[i] ELSE [data |-> NoText, len |-> s[i].len]]]

(* LoadStat leaves Data as it was.  A binding takes what the slot holds    *)
(* when it is read.                                                        *)
LoadStat(f, was, k) ==
  LET rec    == f.stats[k]
      loaded == [was EXCEPT ![k].len = rec.len]
  IN IF k > f.count THEN was
     ELSE IF rec.len > 0 THEN [was EXCEPT ![k] = rec]
     ELSE IF rec.len < 0 THEN [was EXCEPT ![k] = loaded[-rec.len]]
     ELSE loaded

(* BoardOpen, over the stats s.                                            *)
BoardOpen(f, s) ==
  LET opened[k \in 0..MAX_STAT] == IF k = 0 THEN s ELSE LoadStat(f, opened[k - 1], k)
  IN opened[MAX_STAT]

Leftover(s, n) == \E i \in 1..n : s[i].len = 0 /\ s[i].data # NoText

Init ==
  /\ current \in Board /\ stats = Fresh /\ count = 0
  /\ file = [b \in Board |-> Empty]
  /\ given = [b \in Board |-> [i \in Slot |-> NoText]]
  /\ shifted = {} /\ leftover = {}

(* An edit that leaves the open board with stats s, n of them.             *)
BoardClose(s, n) ==
  /\ stats' = Bound(s, n) /\ count' = n
  /\ file' = [file EXCEPT ![current] = Stored(Bound(s, n), n)]
  /\ UNCHANGED current

-----------------------------------------------------------------------------
(* Edits                                                                   *)

Editable == PastLoss \/ current \notin shifted \cup leftover

(* A tile or a parameter, or a property of the board.                      *)
EditOther == Editable /\ BoardClose(stats, count) /\ UNCHANGED <<given, shifted, leftover>>

AddStat(s, n) == [s EXCEPT ![n + 1] = NewStat]

(* editorPlaceElement, of an element with a stat.                          *)
PlaceElement ==
  /\ Editable /\ count < MAX_STAT
  /\ BoardClose(AddStat(stats, count), count + 1)
  /\ UNCHANGED <<given, shifted, leftover>>

Without(s, i, n) ==
  [j \in Slot |-> IF j \in i..(n - 1) THEN s[j + 1] ELSE s[j]]

(* RemoveStat: the slot it leaves keeps what it held, unless that was the  *)
(* removed stat and no other has its text.                                 *)
RemoveStat(s, i, n) ==
  IF i = n /\ s[i].len # 0 /\ \A j \in (1..n) \ {i} : s[j].data # s[i].data
  THEN [s EXCEPT ![i].data = NoText]
  ELSE Without(s, i, n)

(* BoardPrepareTileForPlacement, of an edit on an object's square.         *)
Erase(i) ==
  /\ Editable /\ i <= count
  /\ BoardClose(RemoveStat(stats, i, count), count - 1)
  /\ given' = [given EXCEPT ![current] =
                 [j \in Slot |-> IF j = count THEN NoText
                                 ELSE IF j \in i..(count - 1) THEN @[j + 1] ELSE @[j]]]
  /\ shifted' = IF \E j \in i..count : stats[j].len < 0 \/ (\E k \in Slot : stats[k].len = -j)
                THEN shifted \cup {current} ELSE shifted
  /\ UNCHANGED leftover

(* editorUnbindSharers: those bound to i get the program for themselves.   *)
Unbound(s, i, n) ==
  LET own == IF s[i].len < 0 THEN s[-s[i].len] ELSE s[i]
  IN [j \in Slot |-> IF j <= n /\ j # i /\ s[j].len = -i THEN own ELSE s[j]]

SaveProgramBinding(i, t) ==
  /\ Editable /\ i <= count
  /\ BoardClose([stats EXCEPT ![i] = [data |-> t, len |-> IF t = NoText THEN 0 ELSE 1]], count)
  /\ given' = [given EXCEPT ![current][i] = t]
  /\ UNCHANGED <<shifted, leftover>>

SaveProgram(i, t) ==
  /\ Editable /\ i <= count
  /\ BoardClose([Unbound(stats, i, count) EXCEPT
                   ![i] = [data |-> t, len |-> IF t = NoText THEN 0 ELSE 1]], count)
  /\ given' = [given EXCEPT ![current][i] = t]
  /\ UNCHANGED <<shifted, leftover>>

(* ClearBoard: from the last stat down, and a board just made.             *)
ClearLast(s, n) == IF n > 0 THEN RemoveStat(s, n, n) ELSE s
ClearBoard ==
  LET cleared[k \in 0..MAX_STAT] ==
        IF k = 0 THEN stats ELSE ClearLast(cleared[k - 1], count - k + 1)
  IN /\ count > 0
     /\ BoardClose(cleared[MAX_STAT], 0)
     /\ given' = [given EXCEPT ![current] = [i \in Slot |-> NoText]]
     /\ shifted' = shifted \ {current} /\ leftover' = leftover \ {current}

-----------------------------------------------------------------------------
(* Boards                                                                  *)

Opened(b, closed) ==
  /\ current' = b /\ file' = closed
  /\ stats' = BoardOpen(closed[b], stats) /\ count' = closed[b].count
  /\ leftover' = IF Leftover(stats', count') THEN leftover \cup {b} ELSE leftover
  /\ UNCHANGED <<given, shifted>>

Closed == [file EXCEPT ![current] = Stored(Bound(stats, count), count)]

(* BoardChange: a member edits, or goes to, another board.                 *)
SwitchBoard(b) == b # current /\ Opened(b, Closed)

(* WorldBytes: the world is saved, and the open board read back.           *)
WorldBytes == Opened(current, Closed)

(* A session of the saved world, in an engine of its own.                  *)
NewEditorSession(b) ==
  /\ current' = b /\ file' = Closed
  /\ stats' = BoardOpen(Closed[b], Fresh) /\ count' = Closed[b].count
  /\ UNCHANGED <<given, shifted, leftover>>

Next ==
  \/ EditOther \/ PlaceElement \/ ClearBoard \/ WorldBytes
  \/ \E i \in Slot : Erase(i) \/ \E t \in Text \cup {NoText} : SaveProgram(i, t)
  \/ \E b \in Board : SwitchBoard(b) \/ NewEditorSession(b)
Spec == Init /\ [][Next]_vars

-----------------------------------------------------------------------------
(* What a stat runs: OopReadChar reads nothing past DataLen.               *)
Runs(s, i) == IF s[i].len > 0 THEN s[i].data ELSE NoText

(* What a room, or a player of the saved world, finds on board b.          *)
Played(f) == [i \in Slot |-> IF i <= f.count THEN Runs(BoardOpen(f, Fresh), i) ELSE NoText]

(* Every object plays the program its author last saved, whatever others   *)
(* were given, changed or cleared, on whichever board and in whichever     *)
(* session; except on a board an object was erased from below a bound one, *)
(* or that was opened over another board's text.                           *)
ProgramsKept == \A b \in Board \ (shifted \cup leftover) : Played(file[b]) = given[b]
=============================================================================
