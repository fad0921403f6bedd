-------------------------------- MODULE Board --------------------------------
(***************************************************************************)
(* One board through the turns of GameStepWithInputs: the cursor goes over *)
(* the stats, each acts as the element on its square says, and the step is *)
(* begun again.  Inputs of the players are chosen freely in their turns.   *)
(***************************************************************************)
EXTENDS BoardTicks

CONSTANT Scenes   \* the engines a run begins with

VARIABLE eng

(* What a slot above StatCount holds is not read from one turn to the next. *)
Unused == Template(Still, "timer", "empty")

Init == eng \in Scenes

(* An element with a cycle above one is passed over in most steps.  A      *)
(* behavior ends with a turn that went astray.                             *)
Turn ==
  /\ ~eng.stuck /\ ~eng.astray
  /\ eng.cur <= eng.n
  /\ LET i == eng.cur
         idle == IF eng.tile[eng.stat[i].at] \in EveryCycle THEN {} ELSE {eng}
         turns == IF PlayerFor(eng, i).paused THEN PausedTick(eng, i) ELSE TickProc(eng, i)
     IN \E e \in idle \cup turns :
          eng' = [e EXCEPT !.cur = @ + 1, !.gone = <<>>,
                           !.stat = [j \in DOMAIN @ |-> IF j <= e.n THEN @[j] ELSE Unused]]

NextCycle ==
  /\ ~eng.stuck /\ ~eng.astray
  /\ eng.cur > eng.n
  /\ eng' = [eng EXCEPT !.cur = 0]

Next == Turn \/ NextCycle

Spec == Init /\ [][Next]_eng

-----------------------------------------------------------------------------
(* Every stat stands on the board and every link names an id in use.      *)
TypeOK ==
  /\ eng.n \in 0..MaxStats
  /\ \A i \in Ids(eng) :
       /\ eng.stat[i].at \in DOMAIN eng.tile
       /\ eng.stat[i].kind \in Stated
       /\ eng.stat[i].leader \in -2..eng.n
       /\ eng.stat[i].follower \in -1..eng.n
  /\ eng.cur \in 0..(MaxStats + 1)
  /\ \A i \in DOMAIN eng.pl : eng.pl[i].hp \in 0..Full

Kinship(kind) == IF kind \in {"head", "segment"} THEN {"head", "segment"} ELSE {kind}

(* The tick loop lets a stat act as whatever element its square shows, so  *)
(* after any turn of any stat every stat must stand on a square that shows *)
(* what it is; a player whose square shows anything else is invisible and  *)
(* without control (DamageStat, placement.go).  A turn that goes on with a *)
(* moved stat's id breaks this, and no other does: the runs claim it of    *)
(* behaviors in which no turn went astray.                                 *)
StatsShown ==
  \A i \in Ids(eng) : eng.tile[eng.stat[i].at] \in Kinship(eng.stat[i].kind)

(* A player without health is one whose respawn countdown runs, and the    *)
(* other way round.  DamageStat arms the countdown by stat id, after a     *)
(* message that may have moved the player to another (game.go:1410, 1477): *)
(* the runs claim it of behaviors in which no turn went astray.            *)
DeadRespawn ==
  \A i \in DOMAIN eng.pl : eng.pl[i].who # 0 => (eng.pl[i].hp = 0 <=> eng.pl[i].dead)

(* A follower link names a part of a centipede, and that part's leader is  *)
(* the one that links to it, however many stats below either were removed. *)
ChainsHold ==
  \A i \in Ids(eng) :
    LET f == eng.stat[i].follower
    IN f > 0 => /\ eng.stat[f].kind \in {"head", "segment"}
                /\ eng.stat[f].leader = i

Boulders(e) == Cardinality({s \in DOMAIN e.tile : e.tile[s] = "boulder"})
               + Cardinality({i \in Ids(e) : e.stat[i].under = "boulder"})
KeepsBoulders == Boulders(eng') = Boulders(eng)

(* Boulders are pushed, carried, sent through transporters and stepped on, *)
(* never lost or doubled.                                                  *)
NothingLost == [][KeepsBoulders]_eng
=============================================================================
