------------------------------ MODULE BoardOps ------------------------------
(***************************************************************************)
(* What the element procedures do to one board: adding, removing and       *)
(* moving stats, damage, shots, pushing and touching.  An engine is a      *)
(* record e of                                                             *)
(*   tile   the element on each square, the border of edge squares included*)
(*   n      Board.StatCount                                               *)
(*   stat   Board.Stats, an array: [at, step, p1, leader, follower, under, *)
(*          kind]; kind is no field of the code, it remembers what the stat*)
(*          was added as.  A removal leaves the last slot as it was.       *)
(*   cur    CurrentStatTicked                                              *)
(*   pl     Players: stat id -> [who, hp, shield, dead, paused, home];     *)
(*          who remembers whose state it is and is 0 for a state PlayerFor *)
(*          made on the spot                                               *)
(*   zap    Board.Info.ReenterWhenZapped                                   *)
(*   stuck  a procedure was entered that never returns                     *)
(*   gone   a ghost: the ids removed in this turn, in order                *)
(*   astray a ghost: a turn went on with a stat id, or the cursor, after   *)
(*          the stat it stood for had another                              *)
(* Stat ids start at 0, as in the code.  A stat id held in a local variable*)
(* is a number here too: what it names after a removal is what the code    *)
(* would find in that slot.  Health has Full hits in it (10 points each);  *)
(* colors, scores, ammunition, keys, torches and sounds are left out, and  *)
(* a countdown that only they observe either goes on or runs out.          *)
(***************************************************************************)
EXTENDS Integers, FiniteSets, Sequences, SequencesExt

CONSTANTS MaxStats,      \* MAX_STAT
          Full,          \* hits a player takes
          FriendlyFire   \* Engine.FriendlyFire

LOCAL List == INSTANCE StatList

-----------------------------------------------------------------------------
(* initElementDefsTable *)
Walkable     == {"empty", "fake"}
Destructible == {"player", "lion", "tiger", "head", "segment", "bullet", "gem",
                 "ruffian", "bear"}
Pushable     == {"empty", "player", "lion", "tiger", "key", "ammo", "gem", "scroll",
                 "ruffian", "bear", "boulder", "bomb"}
Creatures    == {"lion", "tiger", "head", "segment", "bullet", "star", "ruffian", "bear"}
Stated       == Creatures \cup {"player", "scroll", "passage", "duplicator", "bomb", "object",
                 "slime", "shark", "gun", "conveyor_cw", "conveyor_ccw", "blinkwall",
                 "transporter", "pusher", "timer"}
EveryCycle   == {"player", "bullet", "star", "ruffian", "blinkwall", "scroll", "timer"}

-----------------------------------------------------------------------------
Still      == <<0, 0>>
Dirs       == {<<0, -1>>, <<0, 1>>, <<-1, 0>>, <<1, 0>>}
Neighbors  == << <<0, -1>>, <<0, 1>>, <<-1, 0>>, <<1, 0>> >>
Plus(s, d) == <<s[1] + d[1], s[2] + d[2]>>
Minus(s, d) == <<s[1] - d[1], s[2] - d[2]>>
Neg(d)     == <<-d[1], -d[2]>>
Signum(n)  == IF n > 0 THEN 1 ELSE IF n < 0 THEN -1 ELSE 0
Abs(n)     == IF n < 0 THEN -n ELSE n
Border(e)  == {s \in DOMAIN e.tile : e.tile[s] = "edge"} \cup {Still}
OnBoard(e) == DOMAIN e.tile \ Border(e)

Ids(e)        == 0..e.n
StatsAt(e, s) == {i \in Ids(e) : e.stat[i].at = s}

(* GetStatIdAt and StatAt: the lowest stat id on a square. *)
GetStatIdAt(e, s) ==
  IF StatsAt(e, s) = {} THEN -1 ELSE CHOOSE i \in StatsAt(e, s) : \A j \in StatsAt(e, s) : i <= j

Held(e, s, except) == StatsAt(e, s) \ {except} # {}

Newcomer == [who |-> 0, hp |-> Full, shield |-> FALSE, dead |-> FALSE, paused |-> FALSE,
             home |-> <<1, 1>>]
PlayerFor(e, i) == IF i \in DOMAIN e.pl THEN e.pl[i] ELSE Newcomer
SetPlayer(e, i, p) ==
  [e EXCEPT !.pl = [j \in DOMAIN e.pl \cup {i} |-> IF j = i THEN p ELSE e.pl[j]]]

(* The state a procedure holds a pointer to, wherever its key is by now. *)
Owned(e, who, Change(_)) ==
  [e EXCEPT !.pl = [j \in DOMAIN e.pl |->
                      IF who # 0 /\ e.pl[j].who = who THEN Change(e.pl[j]) ELSE e.pl[j]]]

-----------------------------------------------------------------------------
Template(s, kind, under) ==
  [at |-> s, step |-> Still, p1 |-> 0, leader |-> -1, follower |-> -1, under |-> under,
   kind |-> kind]

AddStatFrom(e, s, kind, t) ==
  IF e.n >= MaxStats THEN e
  ELSE [e EXCEPT !.n = @ + 1,
                 !.stat[e.n + 1] = [t EXCEPT !.at = s, !.under = e.tile[s], !.kind = kind],
                 !.tile[s] = kind]

AddStat(e, s, kind) == AddStatFrom(e, s, kind, Template(s, kind, "empty"))

(* A removed id leaves a link, an id above it moves down by one. *)
Reindexed(link, i) == IF link = i THEN -1 ELSE IF link > i THEN link - 1 ELSE link

ShiftedDown(e, i, stat) == [j \in DOMAIN stat |-> IF i <= j /\ j < e.n THEN stat[j + 1] ELSE stat[j]]

(* A bug: followers are reindexed, leaders are forgotten. *)
RemoveStatFollowersOnly(e, i) ==
  LET linked == [j \in DOMAIN e.stat |->
                   IF j = 0 THEN e.stat[j] ELSE [e.stat[j] EXCEPT !.follower = Reindexed(@, i)]]
  IN [e EXCEPT !.tile[e.stat[i].at] = e.stat[i].under,
               !.stat = ShiftedDown(e, i, linked),
               !.n    = @ - 1,
               !.pl   = List!TableWithout(@, i),
               !.cur  = List!CursorWithout(@, i),
               !.gone = Append(@, i)]

RemoveStat(e, i) ==
  LET linked == [j \in DOMAIN e.stat |->
                   IF j = 0 THEN e.stat[j]
                   ELSE [e.stat[j] EXCEPT !.follower = Reindexed(@, i), !.leader = Reindexed(@, i)]]
  IN [e EXCEPT !.tile[e.stat[i].at] = e.stat[i].under,
               !.stat = ShiftedDown(e, i, linked),
               !.n    = @ - 1,
               !.pl   = List!TableWithout(@, i),
               !.cur  = List!CursorWithout(@, i),
               !.gone = Append(@, i)]

(* Slot i holds in f the stat it held in e, of which f is a later moment.  *)
Kept(e, f, i) == \A k \in (Len(e.gone) + 1)..Len(f.gone) : f.gone[k] > i

(* A procedure that read slot i in e goes on in f, with what it makes of it*)
(* by using i again.                                                       *)
GoesOn(e, f, i, after) == [after EXCEPT !.astray = @ \/ ~Kept(e, f, i)]

(* A turn that removed its own stat steps the cursor back. *)
StepBack(e) == [e EXCEPT !.cur = @ - 1]

MoveStat(e, i, s) ==
  LET old == e.stat[i].at
  IN [e EXCEPT !.stat[i].under = e.tile[s], !.stat[i].at = s,
               !.tile = [@ EXCEPT ![s] = e.tile[old], ![old] = e.stat[i].under]]

(* The message's timer stands on square (0,0). *)
ClearMessage(e) == IF StatsAt(e, Still) = {} THEN e ELSE RemoveStat(e, GetStatIdAt(e, Still))
DisplayMessage(e) == AddStat(ClearMessage(e), Still, "timer")

(* A hint a player is shown the first time only. *)
Hint(e) == {e, DisplayMessage(e)}

-----------------------------------------------------------------------------
(* FindPlacement: the first open square of the nearest ring. *)
Open(e, except) == {s \in OnBoard(e) : e.tile[s] = "empty" /\ ~Held(e, s, except)}
Ring(s, t) == LET a == Abs(s[1] - t[1]) b == Abs(s[2] - t[2]) IN IF a > b THEN a ELSE b
ScanOrder(s, t) == Ring(s, t) * 10000 + (t[2] - s[2] + 50) * 100 + (t[1] - s[1] + 50)
FindPlacement(e, s, except) ==
  CHOOSE t \in Open(e, except) : \A u \in Open(e, except) : ScanOrder(s, t) <= ScanOrder(s, u)

(* Where a re-entering or respawning player lands. *)
Landing(e, i, old) ==
  LET home == PlayerFor(e, i).home
  IN IF ~Held(e, home, i) THEN home
     ELSE IF Open(e, i) = {} THEN old ELSE FindPlacement(e, home, i)

(* The player in slot i stands up on its entry square. *)
StandUp(e, i, to) ==
  [e EXCEPT !.stat[i].under = IF to = e.stat[i].at THEN @ ELSE e.tile[to],
            !.stat[i].at = to,
            !.tile[to] = "player"]
Picked(e, i)  == [e EXCEPT !.tile[e.stat[i].at] = "empty"]
Landed(e, i)  == StandUp(e, i, Landing(e, i, e.stat[i].at))
Land(e, i)    == Landed(Picked(e, i), i)

KillPlayer(e, i) == SetPlayer(e, i, [PlayerFor(e, i) EXCEPT !.dead = TRUE])
SentBack(e, i, who) == Owned(Land(e, i), who, LAMBDA q : [q EXCEPT !.paused = TRUE])

(* A bug: a player whose last hit it is gets no countdown on a board that  *)
(* sends its players back to their entry.                                  *)
HurtZapFirst(e, i, p) ==
  IF e.zap THEN SentBack(e, i, p.who) ELSE IF p.hp = 1 THEN KillPlayer(e, i) ELSE e

(* DamageStat's branch for a player, who was p before the hit.             *)
Hurt(e, i, p) ==
  IF p.hp = 1 THEN KillPlayer(e, i) ELSE IF e.zap THEN SentBack(e, i, p.who) ELSE e

Hit(e, i) == DisplayMessage(SetPlayer(e, i, [PlayerFor(e, i) EXCEPT !.hp = @ - 1]))

DamageStat(e, i) ==
  IF e.tile[e.stat[i].at] # "player" THEN RemoveStat(e, i)
  ELSE IF PlayerFor(e, i).hp = 0 THEN e
  ELSE LET hit == Hit(e, i)
       IN IF PlayerFor(e, i).hp > 1 /\ ~e.zap THEN hit
          ELSE GoesOn(e, hit, i, Hurt(hit, i, PlayerFor(e, i)))

BoardDamageTile(e, s) ==
  IF StatsAt(e, s) = {} THEN [e EXCEPT !.tile[s] = "empty"] ELSE DamageStat(e, GetStatIdAt(e, s))

Shielded(e, s) == e.tile[s] = "player" /\ StatsAt(e, s) # {} /\ PlayerFor(e, GetStatIdAt(e, s)).shield

(* BoardAttack: the attacker is damaged, then what it attacks.             *)
Spent(e, i)      ==
  IF e.tile[e.stat[i].at] = "player" /\ PlayerFor(e, i).shield THEN e ELSE DamageStat(e, i)
CursorKept(e, i) == IF 0 < i /\ i <= e.cur THEN StepBack(e) ELSE e
Struck(e, s)     == IF Shielded(e, s) THEN e ELSE BoardDamageTile(e, s)
BoardAttack(e, i, s) == Struck(CursorKept(Spent(e, i), i), s)

-----------------------------------------------------------------------------
(* Shots.  p1 of a bullet is 1 for an enemy's and the owner's id + 2 for a *)
(* player's.  On a full board AddStat adds nothing and the last stat gets  *)
(* the shot's fields.                                                      *)
Enemy == 1
ShotBy(i) == i + 2

PointBlankShield(e, s) ==
  PlayerFor(e, IF e.tile[s] = "player" /\ StatsAt(e, s) # {} THEN GetStatIdAt(e, s) ELSE 0).shield

Spares(e, s, source) ==
  /\ e.tile[s] = "player"
  /\ source # Enemy
  /\ ~FriendlyFire \/ ShotBy(GetStatIdAt(e, s)) = source

Launched(e, source, d) == [e EXCEPT !.stat[e.n].p1 = source, !.stat[e.n].step = d]

BoardShoot(e, element, from, d, source) ==
  LET s == Plus(from, d)
      t == e.tile[s]
  IN IF t \in Walkable \cup {"water"}
     THEN [shot |-> TRUE, e |-> Launched(AddStat(e, s, element), source, d)]
     ELSE IF /\ \/ t = "breakable"
                \/ t \in Destructible /\ (t = "player" \/ source # Enemy) /\ ~PointBlankShield(e, s)
             /\ ~Spares(e, s, source)
     THEN [shot |-> TRUE, e |-> BoardDamageTile(e, s)]
     ELSE [shot |-> FALSE, e |-> e]

-----------------------------------------------------------------------------
(* Pushing. *)
ElementMove(e, from, to) ==
  IF StatsAt(e, from) # {} THEN MoveStat(e, GetStatIdAt(e, from), to)
  ELSE [e EXCEPT !.tile = [@ EXCEPT ![to] = e.tile[from], ![from] = "empty"]]

Slides(element, d) ==
  \/ element = "slider_ns" /\ d[1] = 0
  \/ element = "slider_ew" /\ d[2] = 0
  \/ element \in Pushable

RECURSIVE Push(_, _, _), Beyond(_, _, _, _), TransporterMove(_, _, _)

(* ElementPushablePush: what is ahead is pushed on first, and crushed if it*)
(* can be.  With no direction "ahead" is the pushed square itself.         *)
Crushed(e, n) == IF e.tile[n] \in Destructible \ {"player"} THEN BoardDamageTile(e, n) ELSE e
Shoved(e, s, n) == IF e.tile[n] \in Walkable THEN ElementMove(e, s, n) ELSE e
PushedAhead(e, s, n, d) ==
  IF e.tile[n] = "transporter" THEN TransporterMove(e, s, d)
  ELSE IF e.tile[n] # "empty" THEN Push(e, n, d) ELSE e

Push(e, s, d) ==
  IF ~Slides(e.tile[s], d) THEN e
  ELSE IF d = Still /\ e.tile[s] # "empty" THEN [e EXCEPT !.stuck = TRUE]
  ELSE Shoved(Crushed(PushedAhead(e, s, Plus(s, d), d), Plus(s, d)), s, Plus(s, d))

(* ElementTransporterMove's search: the first square behind the transporter*)
(* that is or can be made walkable, or one behind a transporter that faces *)
(* this one; Still when the border is reached.                             *)
FacedAt(e, s, d) == e.tile[s] = "transporter" /\ e.stat[GetStatIdAt(e, s)].step = Neg(d)
Searched(e, s, d, valid) ==
  IF valid /\ e.tile[s] \in Walkable THEN [e |-> e, to |-> s]
  ELSE Beyond(e, Plus(s, d), d, FacedAt(e, s, d))
Beyond(e, s, d, valid) ==
  IF e.tile[s] = "edge" THEN [e |-> e, to |-> Still]
  ELSE Searched(IF valid /\ e.tile[s] \notin Walkable THEN Push(e, s, d) ELSE e, s, d, valid)

(* ElementTransporterMove: what stands at s goes through the transporter   *)
(* ahead of it.  The transporter's slot is read again after all the pushes.*)
Through(e, r, t, d) ==
  IF r.to = Still THEN r.e
  ELSE GoesOn(e, r.e, t, ElementMove(r.e, Minus(r.e.stat[t].at, d), r.to))
TransporterMove(e, s, d) ==
  LET t == GetStatIdAt(e, Plus(s, d))
  IN IF e.stat[t].step # d THEN e ELSE Through(e, Beyond(e, Plus(Plus(s, d), d), d, TRUE), t, d)
=============================================================================
