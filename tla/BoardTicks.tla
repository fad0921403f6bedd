----------------------------- MODULE BoardTicks -----------------------------
(***************************************************************************)
(* The turns of the elements (ElementDefs[].TickProc) and what happens when*)
(* a player walks into one (TouchProc), over the operations of BoardOps.   *)
(* Every operator whose outcome depends on Random returns the set of       *)
(* engines that can result.                                                *)
(***************************************************************************)
EXTENDS BoardOps

CONSTANTS MaxShots,   \* Board.Info.MaxShots
          TimeLimit   \* Board.Info.TimeLimitSec > 0

-----------------------------------------------------------------------------
(* Directions *)
Players(e) == {i \in Ids(e) : e.tile[e.stat[i].at] = "player"}
Distance(s, t) == (s[1] - t[1]) * (s[1] - t[1]) + (s[2] - t[2]) * (s[2] - t[2])

NearestPlayer(e, s) ==
  IF Players(e) = {} THEN 0
  ELSE CHOOSE i \in Players(e) : \A j \in Players(e) :
         LET a == Distance(e.stat[i].at, s) b == Distance(e.stat[j].at, s)
         IN a < b \/ (a = b /\ i <= j)

Target(e, i) == e.stat[NearestPlayer(e, e.stat[i].at)].at
Column(s, t) == <<0, Signum(t[2] - s[2])>>
Row(s, t)    == <<Signum(t[1] - s[1]), 0>>

(* CalcDirectionSeek *)
Seek(e, i) ==
  LET s == e.stat[i].at
      t == Target(e, i)
      wanted == {IF Row(s, t) = Still THEN Column(s, t) ELSE Row(s, t)}
                \cup (IF t[2] = s[2] THEN {} ELSE {Column(s, t)})
  IN IF PlayerFor(e, NearestPlayer(e, s)).shield THEN {Neg(d) : d \in wanted} ELSE wanted

-----------------------------------------------------------------------------
(* Beasts *)
Prowl(e, i, d, ground, prey) ==
  LET s == Plus(e.stat[i].at, d)
  IN IF e.tile[s] \in ground THEN MoveStat(e, i, s)
     ELSE IF e.tile[s] \in prey THEN BoardAttack(e, i, s) ELSE e

LionTick(e, i)  == {Prowl(e, i, d, Walkable, {"player"}) : d \in Dirs \cup Seek(e, i)}
SharkTick(e, i) == {Prowl(e, i, d, {"water"}, {"player"}) : d \in Dirs \cup Seek(e, i)}

(* The bear comes along the row or the column it senses the player in.     *)
BearTick(e, i) ==
  LET s == e.stat[i].at
      t == Target(e, i)
  IN {Prowl(e, i, d, Walkable, {"player", "breakable"}) :
        d \in {Still, Row(s, t), Column(s, t)}}

(* A tiger shoots along a column or row that passes near the player, then  *)
(* prowls as a lion does.  In a slot that is another's by then, a message  *)
(* timer's among them, that may even read outside the board: not followed. *)
Aimed(e, i, element) ==
  LET s == e.stat[i].at
      t == Target(e, i)
      down == BoardShoot(e, element, s, Column(s, t), Enemy)
      side == BoardShoot(e, element, s, Row(s, t), Enemy)
  IN IF Abs(s[1] - t[1]) <= 2 /\ down.shot THEN down.e
     ELSE IF Abs(s[2] - t[2]) <= 2 THEN side.e ELSE e

Missiles == {"bullet", "star"}
TigerTick(e, i) ==
  UNION {IF Kept(e, shot, i) THEN LionTick(shot, i) ELSE {[shot EXCEPT !.astray = TRUE]} :
           shot \in {e} \cup {Aimed(e, i, el) : el \in Missiles}}

SpinningGunTick(e, i) ==
  {e} \cup {Aimed(e, i, el) : el \in Missiles}
      \cup {BoardShoot(e, el, e.stat[i].at, d, Enemy).e : el \in Missiles, d \in Dirs}

(* A ruffian rests, sets off in a direction and keeps it until it is       *)
(* blocked or tired.                                                       *)
RuffianTick(e, i) ==
  LET Facing(d) == [e EXCEPT !.stat[i].step = d]
      s == e.stat[i].at
      t == Target(e, i)
      Ahead(d) == Plus(s, d)
      Rushes(d) ==
        IF e.tile[Ahead(d)] = "player" THEN {BoardAttack(Facing(d), i, Ahead(d))}
        ELSE IF e.tile[Ahead(d)] \in Walkable
        THEN LET m == MoveStat(Facing(d), i, Ahead(d)) IN {m, [m EXCEPT !.stat[i].step = Still]}
        ELSE {Facing(Still)}
  IN IF e.stat[i].step = Still THEN {Facing(d) : d \in {Still} \cup Dirs \cup Seek(e, i)}
     ELSE UNION {Rushes(d) : d \in {e.stat[i].step}
                                   \cup IF s[1] = t[1] \/ s[2] = t[2] THEN Seek(e, i) ELSE {}}

-----------------------------------------------------------------------------
(* Centipedes *)
Free(e, i, d) == e.tile[Plus(e.stat[i].at, d)] \in Walkable \cup {"player"}

(* The steps a head may settle on, given the one it would take.            *)
Settled(e, i, d) ==
  IF Free(e, i, d) THEN {d}
  ELSE {IF Free(e, i, side) THEN side
        ELSE IF Free(e, i, Neg(side)) THEN Neg(side)
        ELSE IF Free(e, i, Neg(d)) THEN Neg(d) ELSE Still :
          side \in {<<d[2], d[1]>>, <<-d[2], -d[1]>>}}

HeadSteps(e, i) ==
  LET s == e.stat[i].at
      t == Target(e, i)
      wish == Dirs \cup (IF s[1] = t[1] THEN {Column(s, t)} ELSE {})
                   \cup (IF s[2] = t[2] THEN {Row(s, t)} ELSE {})
                   \cup (IF e.stat[i].step = Still THEN {} ELSE {e.stat[i].step})
  IN UNION {Settled(e, i, d) : d \in wish}

(* A head that cannot move: every link is turned round and the tail leads. *)
RECURSIVE Reversed(_, _)
Reversed(e, i) ==
  LET f == e.stat[i].follower
  IN IF f > 0 THEN Reversed([e EXCEPT !.stat[i].follower = e.stat[i].leader, !.stat[i].leader = f], f)
     ELSE [e EXCEPT !.stat[i].follower = e.stat[i].leader, !.tile[e.stat[i].at] = "head"]

TurnRound(e, i) ==
  Reversed([e EXCEPT !.tile[e.stat[i].at] = "segment", !.stat[i].leader = -1], i)

(* A part without a follower takes the first unled segment beside the      *)
(* square it left.                                                         *)
Unled(e, s) == e.tile[s] = "segment" /\ e.stat[GetStatIdAt(e, s)].leader < 0
Attached(e, i) ==
  LET d == e.stat[i].step
      t == Minus(e.stat[i].at, d)
      beside == <<Minus(t, d), Minus(t, <<d[2], d[1]>>), Plus(t, <<d[2], d[1]>>)>>
      found == {k \in DOMAIN beside : Unled(e, beside[k])}
  IN IF e.stat[i].follower >= 0 \/ found = {} THEN e
     ELSE [e EXCEPT !.stat[i].follower =
             GetStatIdAt(e, beside[CHOOSE k \in found : \A m \in found : k <= m])]

Dragged(e, i, f, t) ==
  MoveStat([e EXCEPT !.stat[f].leader = i, !.stat[f].step = Minus(t, e.stat[f].at)], f, t)

RECURSIVE Drag(_, _)
Drag(e, i) ==
  LET a == Attached(e, i)
      f == a.stat[i].follower
  IN IF f = -1 THEN a
     ELSE Drag(IF f > 0 THEN Dragged(a, i, f, Minus(a.stat[i].at, a.stat[i].step)) ELSE a, f)

CentipedeHeadTick(e, i) ==
  {LET f  == e.stat[i].follower
       s  == Plus(e.stat[i].at, d)
       e1 == [e EXCEPT !.stat[i].step = d]
   IN IF d = Still THEN TurnRound(e1, i)
      ELSE IF e.tile[s] # "player" THEN Drag(MoveStat(e1, i, s), i)
      ELSE BoardAttack(IF f = -1 THEN e1
                       ELSE [e1 EXCEPT !.tile[e.stat[f].at] = "head", !.stat[f].step = d], i, s) :
     d \in HeadSteps(e, i)}

CentipedeSegmentTick(e, i) ==
  {IF e.stat[i].leader >= 0 THEN e
   ELSE IF e.stat[i].leader < -1 THEN [e EXCEPT !.tile[e.stat[i].at] = "head"]
   ELSE [e EXCEPT !.stat[i].leader = @ - 1]}

-----------------------------------------------------------------------------
(* Bullets and stars *)
Quarter(d) == <<d[2], d[1]>>

RECURSIVE Fly(_, _, _)
Fly(e, i, first) ==
  LET b == e.stat[i]
      s == Plus(b.at, b.step)
      t == e.tile[s]
      Bounce(d) == Fly([e EXCEPT !.stat[i].step = d], i, FALSE)
      hits == t = "breakable" \/ (t \in Destructible /\ (t = "player" \/ b.p1 # Enemy))
  IN IF t \in Walkable \cup {"water"} THEN MoveStat(e, i, s)
     ELSE IF t = "ricochet" /\ first THEN Bounce(Neg(b.step))
     ELSE IF hits /\ Spares(e, s, b.p1) THEN StepBack(RemoveStat(e, i))
     ELSE IF hits THEN BoardAttack(e, i, s)
     ELSE IF first /\ e.tile[Plus(b.at, Quarter(b.step))] = "ricochet" THEN Bounce(Neg(Quarter(b.step)))
     ELSE IF first /\ e.tile[Minus(b.at, Quarter(b.step))] = "ricochet" THEN Bounce(Quarter(b.step))
     ELSE StepBack(RemoveStat(e, i))

BulletTick(e, i) == {Fly(e, i, TRUE)}

(* What is ahead is pushed aside. *)
Cleared(e, s, d) == IF e.tile[s] \in Walkable THEN e ELSE Push(e, s, d)

Drifts(e, f, i, s) ==
  IF f.tile[s] \in Walkable \cup {"water"}
  THEN GoesOn(e, f, i, MoveStat(f, i, Plus(f.stat[i].at, f.stat[i].step))) ELSE f
StarTick(e, i) ==
  {e, RemoveStat(e, i)} \cup
  {LET e1 == [e EXCEPT !.stat[i].step = d]
       s  == Plus(e.stat[i].at, d)
   IN IF e.tile[s] \in {"player", "breakable"} THEN BoardAttack(e1, i, s)
      ELSE Drifts(e1, Cleared(e1, s, d), i, s) : d \in Seek(e, i)}

-----------------------------------------------------------------------------
(* Machines *)
MessageTimerTick(e, i) ==
  {e} \cup IF e.stat[i].at[1] = 0 THEN {StepBack(RemoveStat(e, i))} ELSE {}

(* A bomb's p1: 0 idle, 2 burning, 1 exploding.  The explosion covers any  *)
(* board this small; its squares are visited column by column.             *)
Columns(e) == SetToSortSeq(OnBoard(e), LAMBDA s, t : s[1] < t[1] \/ (s[1] = t[1] /\ s[2] < t[2]))

Blown(e, s) ==
  LET e1 == IF e.tile[s] \in Destructible \cup {"star"} THEN BoardDamageTile(e, s) ELSE e
  IN IF e1.tile[s] = "empty" THEN [e1 EXCEPT !.tile[s] = "breakable"] ELSE e1

Swept(e) == [e EXCEPT !.tile = [s \in DOMAIN @ |-> IF @[s] = "breakable" /\ s \in OnBoard(e)
                                                   THEN "empty" ELSE @[s]]]

BombTick(e, i) ==
  CASE e.stat[i].p1 = 0 -> {e}
    [] e.stat[i].p1 = 1 -> {Swept(RemoveStat(e, i))}
    [] OTHER -> {e, FoldLeft(Blown, [e EXCEPT !.stat[i].p1 = 1], Columns(e))}

(* Slime creeps to the first free neighbor and divides onto the others.    *)
SlimeSpread(e, i) ==
  LET s == e.stat[i].at
      Creep(a, d) ==
        IF a.e.tile[Plus(s, d)] \notin Walkable THEN a
        ELSE [moved |-> TRUE,
              e |-> IF a.moved THEN AddStat(a.e, Plus(s, d), "slime")
                    ELSE [MoveStat(a.e, i, Plus(s, d)) EXCEPT !.tile[s] = "breakable"]]
      r == FoldLeft(Creep, [moved |-> FALSE, e |-> e], Neighbors)
  IN IF r.moved THEN r.e ELSE [RemoveStat(e, i) EXCEPT !.tile[s] = "breakable"]

SlimeTick(e, i) == {e, SlimeSpread(e, i)}

(* A blink wall takes its ray in, or sends it out square by square: what   *)
(* can be destroyed is damaged, a player is squeezed aside or killed, and  *)
(* the ray ends at the first square it cannot fill.                        *)
Ray(d) == IF d[1] # 0 THEN "ray_ew" ELSE "ray_ns"

RECURSIVE RayEnd(_, _, _), KilledBy(_, _), Shine(_, _, _)
RayEnd(e, s, d)  == IF e.tile[s] = Ray(d) THEN RayEnd(e, Plus(s, d), d) ELSE s
KilledBy(e, i)   ==
  IF PlayerFor(e, i).hp = 0 THEN e
  ELSE LET f == DamageStat(e, i) IN GoesOn(e, f, i, KilledBy(f, i))

(* With the west open and the east not, the player still goes east.        *)
Squeezed(e, s, d) ==
  LET i == GetStatIdAt(e, s)
      first  == Plus(s, IF d[1] # 0 THEN <<0, -1>> ELSE <<1, 0>>)
      second == Plus(s, IF d[1] # 0 THEN <<0, 1>> ELSE <<-1, 0>>)
  IN IF e.tile[first] = "empty" THEN MoveStat(e, i, first)
     ELSE IF e.tile[second] = "empty" THEN MoveStat(e, i, IF d[1] # 0 THEN second ELSE first)
     ELSE e

Lit(e, s, i, stays) ==
  IF e.tile[s] # "empty" THEN e
  ELSE IF stays THEN [e EXCEPT !.tile[s] = Ray(e.stat[i].step)]
  ELSE Shine([e EXCEPT !.tile[s] = Ray(e.stat[i].step)], Plus(s, e.stat[i].step), i)
Remains(e, s, i, p) ==
  Lit(IF e.tile[s] = "player" THEN KilledBy(e, p) ELSE e, s, i, e.tile[s] = "player")
Meets(e, s, i) ==
  Remains(IF e.tile[s] = "player" THEN Squeezed(e, s, e.stat[i].step) ELSE e, s, i, GetStatIdAt(e, s))
Shine(e, s, i) ==
  LET f == IF e.tile[s] \in Destructible THEN BoardDamageTile(e, s) ELSE e
  IN GoesOn(e, f, i, Meets(f, s, i))

BlinkWallTick(e, i) ==
  LET d == e.stat[i].step
      s == Plus(e.stat[i].at, d)
      end == RayEnd(e, s, d)
      Taken(t) == /\ e.tile[t] = Ray(d)
                  /\ t[1] \in s[1]..end[1] \cup end[1]..s[1]
                  /\ t[2] \in s[2]..end[2] \cup end[2]..s[2]
  IN {e, IF end = s THEN Shine(e, s, i)
         ELSE [e EXCEPT !.tile = [t \in DOMAIN @ |-> IF Taken(t) THEN "empty" ELSE @[t]]]}

(* A pusher pushes what is ahead and follows it; one right behind it in the*)
(* same direction takes its turn at once.                                  *)
RECURSIVE Pushes(_, _)
Tails(e, p, k) ==
  IF e.tile[Minus(p.at, p.step)] = "pusher" /\ e.stat[k].step = p.step THEN Pushes(e, k) ELSE e
Trails(e, p) == Tails(e, p, GetStatIdAt(e, Minus(p.at, p.step)))
Follows(e, j) ==
  LET p == e.stat[j]
  IN IF e.tile[Plus(p.at, p.step)] \notin Walkable THEN e
     ELSE Trails(MoveStat(e, j, Plus(p.at, p.step)), p)
FollowsFrom(e, at) == Follows(e, GetStatIdAt(e, at))
Pushes(e, i) ==
  FollowsFrom(Cleared(e, Plus(e.stat[i].at, e.stat[i].step), e.stat[i].step), e.stat[i].at)

PusherTick(e, i) == {Pushes(e, i)}

(* Conveyors: the eight squares around are read once; then each, in turn,  *)
(* goes one place on if what is before it went or was empty.  One carried  *)
(* onto a square whose stat has yet to go may be taken for that stat.      *)
Diagonal == << <<-1, 1>>, <<0, 1>>, <<1, 1>>, <<1, 0>>, <<1, -1>>, <<0, -1>>, <<-1, -1>>, <<-1, 0>> >>
Around(c, k) == Plus(c, Diagonal[((k + 16) % 8) + 1])

(* Whether the square after one that shows this element may move.          *)
Frees(element, before) == element = "empty" \/ (before /\ element \in Pushable)

(* A bug: the square a tile was carried from keeps it.                     *)
CarriedCopy(e, c, k, dir, was) ==
  LET s  == Around(c, k)
      to == Around(c, k - dir)
  IN IF was[s] \in Stated THEN MoveStat(e, GetStatIdAt(e, s), to) ELSE [e EXCEPT !.tile[to] = was[s]]

CarriedOver(e, c, k, dir, was) ==
  LET s    == Around(c, k)
      to   == Around(c, k - dir)
      el   == was[s]
      e1   == [e EXCEPT !.tile = [@ EXCEPT ![s] = el, ![to] = "empty"]]
      e2   == IF el \in Stated
              THEN [MoveStat(e1, GetStatIdAt(e, s), to) EXCEPT !.tile[s] = e.tile[s]]
              ELSE [e EXCEPT !.tile[to] = el]
  IN IF was[Around(c, k + dir)] \in Pushable THEN e2 ELSE [e2 EXCEPT !.tile[s] = "empty"]

Conveyed(e, c, dir) ==
  LET order == IF dir = 1 THEN <<0, 1, 2, 3, 4, 5, 6, 7>> ELSE <<7, 6, 5, 4, 3, 2, 1, 0>>
      Scan(can, k) == Frees(e.tile[Around(c, k)], can)
      Carry(a, k) ==
        LET s    == Around(c, k)
            el   == e.tile[s]
            over == CarriedOver(a.e, c, k, dir, e.tile)
        IN [can |-> Frees(el, a.can),
            e   |-> IF ~(a.can /\ el \in Pushable) THEN a.e
                    ELSE [over EXCEPT !.astray = @ \/ GetStatIdAt(a.e, s) # GetStatIdAt(e, s)]]
  IN FoldLeft(Carry, [can |-> FoldLeft(Scan, TRUE, order), e |-> e], order).e

ConveyorTick(e, i) == {Conveyed(e, e.stat[i].at, IF e.tile[e.stat[i].at] = "conveyor_cw" THEN 1 ELSE -1)}

-----------------------------------------------------------------------------
(* TouchProc: stat i walks from beside square s onto it in direction d.    *)
(* The results are the engine and the direction that is left of the move.  *)
Emptied(e, s) == [e EXCEPT !.tile[s] = "empty"]

BombTouch(e, s, d) ==
  LET b == GetStatIdAt(e, s)
  IN IF b = -1 THEN e
     ELSE IF e.stat[b].p1 = 0 THEN DisplayMessage([e EXCEPT !.stat[b].p1 = 2])
     ELSE Push(e, e.stat[b].at, d)

EnergizerTouch(e, s, i) ==
  SetPlayer(Emptied(e, s), i, [PlayerFor(e, i) EXCEPT !.shield = TRUE])

(* A key is taken or, if the player has one, left; a door opens or not.    *)
Touched(e, s, i, d) ==
  LET t == e.tile[s]
  IN CASE t \in Creatures -> {BoardAttack(e, i, s)}
       [] t \in {"boulder", "slider_ns", "slider_ew"} -> {Push(e, s, d)}
       [] t = "transporter" -> {TransporterMove(e, Minus(s, d), d)}
       [] t = "bomb" -> {BombTouch(e, s, d)}
       [] t = "slime" -> {[DamageStat(e, GetStatIdAt(e, s)) EXCEPT !.tile[s] = "breakable"]}
       [] t \in {"gem", "ammo", "torch", "forest"} -> Hint(Emptied(e, s))
       [] t = "energizer" -> Hint(EnergizerTouch(e, s, i))
       [] t \in {"key", "door"} -> {DisplayMessage(e), DisplayMessage(Emptied(e, s))}
       [] t = "water" -> {DisplayMessage(e)}
       [] t = "invisible" -> {DisplayMessage([e EXCEPT !.tile[s] = "normal"])}
       [] t = "fake" -> Hint(e)
       [] t = "scroll" -> {e, RemoveStat(e, GetStatIdAt(e, s))}
       [] OTHER -> {e}

(* Transporters, passages and board edges take the whole move.             *)
Touch(e, s, i, d) ==
  {[e |-> r, d |-> IF e.tile[s] \in {"transporter", "passage", "edge"} THEN Still ELSE d] :
     r \in Touched(e, s, i, d)}

(* A duplicator in front of a player touches its source for that player;   *)
(* its direction is the tick loop's input, which is nil in a stat's turn   *)
(* that is no player's.                                                    *)
Copies(e, from, to) ==
  LET src == GetStatIdAt(e, from)
  IN IF e.tile[to] # "empty" \/ src = 0 THEN e
     ELSE IF src > 0 THEN AddStatFrom(e, to, e.tile[from], e.stat[src])
     ELSE [e EXCEPT !.tile[to] = e.tile[from]]

Duplicates(e, i) ==
  LET d  == e.stat[i].step
      from == Plus(e.stat[i].at, d)
      to   == Minus(e.stat[i].at, d)
  IN IF e.tile[to] = "player" THEN {r.e : r \in Touch(e, from, 0, Still)}
     ELSE LET f == IF e.tile[to] = "empty" THEN e ELSE Push(e, to, Neg(d))
          IN {GoesOn(e, f, i, Copies(f, from, to))}

DuplicatorTick(e, i) == {e} \cup Duplicates(e, i)

(* An object's program may have set it walking; what it meets is told.     *)
ObjectTick(e, i) ==
  {LET s == Plus(e.stat[i].at, d)
       e1 == [e EXCEPT !.stat[i].step = d]
   IN IF d # Still /\ e.tile[s] \in Walkable THEN MoveStat(e1, i, s) ELSE e1 :
     d \in Dirs \cup {Still}}

-----------------------------------------------------------------------------
(* The player's turn *)
Shield(e, i) == SetPlayer(e, i, [PlayerFor(e, i) EXCEPT !.shield = TRUE, !.dead = FALSE, !.hp = Full])

CountsDown(e, i) == {e, Shield(Land(e, i), i)}

OwnBullets(e, i) == {j \in Ids(e) : e.tile[e.stat[j].at] = "bullet" /\ e.stat[j].p1 = ShotBy(i)}

Shoots(e, i, d) ==
  Hint(e) \cup IF Cardinality(OwnBullets(e, i)) >= MaxShots THEN {}
               ELSE {BoardShoot(e, "bullet", e.stat[i].at, d, ShotBy(i)).e}

(* After the touch the target is counted from, and the move made by, the   *)
(* slot the stat had before it.                                            *)
Walks(e, i, d) ==
  {LET s == Plus(r.e.stat[i].at, r.d)
   IN IF r.d # Still /\ s \in DOMAIN e.tile /\ r.e.tile[s] \in Walkable 
      THEN GoesOn(e, r.e, i, MoveStat(r.e, i, s)) ELSE r.e :
     r \in Touch(e, Plus(e.stat[i].at, d), i, d)}

(* The end of the turn: the energizer may run out, the board's time may.   *)
Fades(e, who) == {e, Owned(e, who, LAMBDA p : [p EXCEPT !.shield = FALSE])}
TimesOut(e, f, i) ==
  {f} \cup IF TimeLimit /\ PlayerFor(f, i).hp > 0 THEN {GoesOn(e, f, i, DamageStat(f, i))} ELSE {}

PlayerTurn(e, i, acted) ==
  LET p == PlayerFor(e, i)
  IN IF p.dead THEN CountsDown(e, i)
     ELSE IF p.hp = 0 THEN {e}
     ELSE UNION {TimesOut(e, f, i) : f \in UNION {Fades(a, p.who) : a \in acted}}

Pauses(e, i) == Owned(e, PlayerFor(e, i).who, LAMBDA p : [p EXCEPT !.paused = TRUE])

PlayerTick(e, i) ==
  PlayerTurn(e, i, {e, Pauses(e, i)} \cup UNION {Shoots(e, i, d) \cup Walks(e, i, d) : d \in Dirs})

-----------------------------------------------------------------------------
(* ElementDefs[].TickProc: the stat acts as the element its square shows.  *)
TickAs(el, e, i) ==
     CASE el = "player"    -> PlayerTick(e, i)
       [] el = "lion"      -> LionTick(e, i)
       [] el = "tiger"     -> TigerTick(e, i)
       [] el = "ruffian"   -> RuffianTick(e, i)
       [] el = "bear"      -> BearTick(e, i)
       [] el = "head"      -> CentipedeHeadTick(e, i)
       [] el = "segment"   -> CentipedeSegmentTick(e, i)
       [] el = "bullet"    -> BulletTick(e, i)
       [] el = "star"      -> StarTick(e, i)
       [] el = "gun"       -> SpinningGunTick(e, i)
       [] el = "slime"     -> SlimeTick(e, i)
       [] el = "shark"     -> SharkTick(e, i)
       [] el = "blinkwall" -> BlinkWallTick(e, i)
       [] el = "pusher"    -> PusherTick(e, i)
       [] el = "bomb"      -> BombTick(e, i)
       [] el = "object"    -> ObjectTick(e, i)
       [] el = "duplicator" -> DuplicatorTick(e, i)
       [] el = "timer"     -> MessageTimerTick(e, i)
       [] el \in {"conveyor_cw", "conveyor_ccw"} -> ConveyorTick(e, i)
       [] OTHER -> {e}

TickProc(e, i) == TickAs(e.tile[e.stat[i].at], e, i)

(* The pause branch of the tick loop: the touched element acts, and only a *)
(* move that succeeds ends the pause; a turn without input follows at once.*)
(* The target is counted from the slot, the move made by the cursor's stat,*)
(* which need not be the same after an attack or a removal; what acts then *)
(* is not followed.                                                        *)
Unpaused(b, e, i, d, who) ==
  LET s     == Plus(e.stat[i].at, d)
      moved == IF e.tile[e.stat[i].at] = "player" THEN MoveStat(e, e.cur, s)
               ELSE [e EXCEPT !.stat[i].at = s, !.tile[s] = "player"]
      go    == Owned(moved, who, LAMBDA q : [q EXCEPT !.paused = FALSE])
      el    == go.tile[go.stat[i].at]
  IN IF d = Still \/ s \notin DOMAIN e.tile THEN {e}
     ELSE IF e.tile[s] \notin Walkable THEN {e}
     ELSE IF ~Kept(b, e, i) \/ e.cur # i THEN {[go EXCEPT !.astray = TRUE]}
     ELSE IF el = "player" THEN PlayerTurn(go, go.cur, {go}) ELSE TickAs(el, go, go.cur)

PausedTick(e, i) ==
  {e} \cup UNION {UNION {Unpaused(e, r.e, i, r.d, PlayerFor(e, i).who) :
                           r \in Touch(e, Plus(e.stat[i].at, d), i, d)} : d \in Dirs}
=============================================================================
