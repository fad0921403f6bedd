------------------------------ MODULE StatList ------------------------------
(***************************************************************************)
(* The stat list of one board, as the engine keeps it, and the tables that *)
(* are keyed by stat id and therefore have to move with it.                *)
(*                                                                         *)
(* A board holds a list of stats (Board.Stats[0..StatCount]); the stat id  *)
(* of an element is its position in that list, so removing one stat renames*)
(* every stat above it.  The engine's Players table (stat id -> PlayerState*)
(* pointer) and the cursor of the tick loop (CurrentStatTicked) are moved  *)
(* by RemoveStat itself.  Positions here start at 1: position 1 is the     *)
(* engine's stat 0, the stat that belongs to the player in a stored world. *)
(***************************************************************************)
EXTENDS Integers, Sequences, SequencesExt

(* RemoveStat's shift of Board.Stats. *)
StatsWithout(list, i) == RemoveAt(list, i)

(* reindexPlayersAfterStatRemoval: the removed stat loses its entry, every *)
(* entry above it moves down by one.                                       *)
TableWithout(table, i) ==
  [j \in {k \in DOMAIN table : k < i} \cup {k - 1 : k \in {m \in DOMAIN table : m > i}} |->
     IF j < i THEN table[j] ELSE table[j + 1]]

(* A bug: "statId <= e.CurrentStatTicked". *)
CursorWithoutSelf(cursor, i) == IF i <= cursor THEN cursor - 1 ELSE cursor

(* RemoveStat: "if statId < e.CurrentStatTicked { e.CurrentStatTicked-- }". *)
CursorWithout(cursor, i) == IF i < cursor THEN cursor - 1 ELSE cursor

(* A table with no entry. *)
EmptyTable == [i \in {} |-> 0]

(* The stats of a list that show a given element. *)
Showing(list, element) == {i \in DOMAIN list : list[i] = element}

(***************************************************************************)
(* An engine in the middle of its tick loop, as far as stat ids go, is a   *)
(* record r of its stats, its Players table and its cursor.                *)
(***************************************************************************)
RemoveStat(r, i) ==
  [stats  |-> StatsWithout(r.stats, i),
   table  |-> TableWithout(r.table, i),
   cursor |-> CursorWithout(r.cursor, i)]

(* A bug: "StatCount <= MAX_STAT". *)
AddStatPastTheEnd(r, element, max) ==
  IF Len(r.stats) <= max THEN [r EXCEPT !.stats = Append(@, element)] ELSE r

(* AddStat appends, and does nothing at all on a full board; max stats is  *)
(* "StatCount < MAX_STAT" with stat 0 counted.                             *)
AddStat(r, element, max) ==
  IF Len(r.stats) < max THEN [r EXCEPT !.stats = Append(@, element)] ELSE r

(* DisplayMessage: the stat at (0,0), if any, is the previous message's    *)
(* timer; it is removed and a new one is added at the end of the list.     *)
DisplayMessage(r, max) ==
  LET old == Showing(r.stats, "timer")
  IN  AddStat(IF old = {} THEN r ELSE RemoveStat(r, Min(old)), "timer", max)
=============================================================================
