------------------------------- MODULE Scores -------------------------------
(***************************************************************************)
(* The high scores of a hosted world (room_manager.go).  A player who quits*)
(* is offered the slot their score earns and leaves the room at once; the  *)
(* list changes when they have typed a name, and others may quit and name  *)
(* theirs in between.  The list is saved with each name, and read again    *)
(* when the world is hosted anew.                                          *)
(***************************************************************************)
EXTENDS Integers, FiniteSets, Sequences

CONSTANTS Player, NoOne,
          Score,             \* what a player may quit with
          HighScoreCount     \* HIGH_SCORE_COUNT

VARIABLES
  highScores,     \* the list, entries without a name last
  quit,           \* each player's QuitResult, and whether it is pending
  named,          \* ghost: the entries in the order they were named
  overtaken,      \* ghost: those offered a slot before another was named
  late            \* ghost: a slot was filled that was offered before another

vars == <<highScores, quit, named, overtaken, late>>

Slot  == 1..HighScoreCount
Empty == [who |-> NoOne, score |-> -1]
NoQuit == [at |-> "playing", score |-> 0, pos |-> 0]

Init ==
  /\ highScores = [i \in Slot |-> Empty]
  /\ quit = [p \in Player |-> NoQuit]
  /\ named = <<>> /\ overtaken = {} /\ late = FALSE

Pending == {p \in Player : quit[p].at \in {"asked", "closed"}}

(* The first slot whose score is no better, or none.                       *)
RankScore(score) ==
  LET below == {i \in Slot : score >= highScores[i].score}
  IN IF below = {} \/ score <= 0 THEN 0 ELSE CHOOSE i \in below : \A j \in below : i <= j

(* quitPlayer: ranked, and asked for a name if there is a slot.            *)
QuitPlayer(p) ==
  /\ quit[p].at = "playing"
  /\ \E s \in Score :
       LET pos == RankScore(s)
       IN quit' = [quit EXCEPT ![p] = [at |-> IF pos = 0 THEN "gone" ELSE "asked", score |-> s, pos |-> pos]]
  /\ UNCHANGED <<highScores, named, overtaken, late>>

Inserted(pos, entry) ==
  [i \in Slot |-> IF i < pos THEN highScores[i] ELSE IF i = pos THEN entry ELSE highScores[i - 1]]

(* RecordHighScore, with the slot that was offered.                        *)
RecordHighScore(p) ==
  LET entry == [who |-> p, score |-> quit[p].score]
  IN /\ quit[p].at = "asked"
     /\ highScores' = Inserted(quit[p].pos, entry)
     /\ quit' = [quit EXCEPT ![p] = [at |-> "gone", score |-> 0, pos |-> 0]]
     /\ named' = Append(named, entry)
     /\ overtaken' = (overtaken \cup Pending) \ {p}
     /\ late' = (late \/ p \in overtaken)

(* The connection closes before a name is typed: handleReadLoopExit leaves *)
(* the slot on offer; a player nobody will hear from again.                *)
Close(p) ==
  /\ quit[p].at = "asked"
  /\ quit' = [quit EXCEPT ![p].at = "closed"]
  /\ UNCHANGED <<highScores, named, overtaken, late>>

(* removeClientFromInstance and the like: the slot is forgotten.           *)
DiscardPendingScore(p) ==
  /\ quit[p].at = "asked"
  /\ quit' = [quit EXCEPT ![p] = [at |-> "gone", score |-> 0, pos |-> 0]]
  /\ UNCHANGED <<highScores, named, overtaken, late>>

(* The world is evicted, or hosted by a fresh instance: the list is read   *)
(* back, and nobody is offered anything any more.                          *)
Rehost ==
  /\ \A p \in Player : quit[p].at # "asked"
  /\ quit' = [p \in Player |-> IF quit[p].at = "playing" THEN NoQuit
                               ELSE [at |-> "gone", score |-> 0, pos |-> 0]]
  /\ overtaken' = {} /\ UNCHANGED <<highScores, named, late>>

Next ==
  \/ \E p \in Player : QuitPlayer(p) \/ RecordHighScore(p) \/ Close(p) \/ DiscardPendingScore(p)
  \/ Rehost

Spec == Init /\ [][Next]_vars

-----------------------------------------------------------------------------
(* How many named entries belong before the k-th: the better ones, and of  *)
(* equal ones those named later.                                           *)
Before(k) == {j \in DOMAIN named : \/ named[j].score > named[k].score
                                   \/ named[j].score = named[k].score /\ j > k}

(* The list is the best of everything that was named, best first and the   *)
(* latest first among equals, unless a slot was filled that had been       *)
(* offered before another one was: only then is the order off.             *)
ScoresRanked ==
  late \/ \A k \in DOMAIN named :
            LET i == Cardinality(Before(k)) + 1
            IN i <= HighScoreCount => highScores[i] = named[k]
=============================================================================
