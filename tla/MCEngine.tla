------------------------------- MODULE MCEngine -------------------------------
(***************************************************************************)
(* The engine's programs, and its elements on a small board, one of them   *)
(* in each behavior.                                                       *)
(***************************************************************************)
EXTENDS Engine, TLC

VARIABLE squares

BoardScenes == INSTANCE MCBoard WITH eng <- squares, Scenes <- {}, MaxStats <- 6, Full <- 2,
                                     FriendlyFire <- TRUE, MaxShots <- 1, TimeLimit <- FALSE
Boards      == INSTANCE Board WITH eng <- squares, Scenes <- BoardScenes!Sound, MaxStats <- 6,
                                   Full <- 2, FriendlyFire <- TRUE, MaxShots <- 1, TimeLimit <- FALSE

vars == <<part, eng, programsVars, squares>>
MCInit ==
  /\ EngineInit
  /\ Boards!Init /\ (part # "board" => squares = CHOOSE e \in BoardScenes!Sound : TRUE)

TakeTurn    == part = "board" /\ Boards!Next /\ UNCHANGED <<part, eng, programsVars>>
RunPrograms == EngineNext /\ UNCHANGED squares
MCSpec == MCInit /\ [][TakeTurn \/ RunPrograms]_vars

-----------------------------------------------------------------------------
(* Scenes of objects *)

Op(op)          == [op |-> op]
Label(l)        == [op |-> "label", label |-> l]
To(op, to, l)   == [op |-> op, to |-> to, label |-> l]
Then(op, c)     == [op |-> op, then |-> c]
Kind(op, k)     == [op |-> op, kind |-> k]
Name(n)         == [op |-> "name", name |-> n]
Walks(b)        == [op |-> "walk", on |-> b]
Changing(k, to) == [op |-> "change", from |-> k, kind |-> to]

Object(who, text) == [Plain("object", who) EXCEPT !.text = text]

Scene(list) ==
  LET n == Len(list)
      who == {list[k].who : k \in {k \in 1..n : list[k].kind = "player"}}
  IN [n |-> n, stat |-> [k \in Slot |-> IF k <= n THEN list[k] ELSE Plain("timer", Nobody)],
      aud |-> [k \in Slot |-> 0], pl |-> [p \in who |-> [hp |-> Full, down |-> FALSE]],
      run |-> Still, knock |-> {}, heard |-> TRUE, panic |-> FALSE]

P(who) == Plain("player", who)
F    == Plain("fodder", Nobody)

(* A locked door, and one who knocks with #send. *)
Door   == <<Name("a"), Op("lock"), Op("idle"), Op("unlock"), Op("end"),
            Label("touch"), Op("say"), Op("say")>>
Caller == <<Name("b"), To("send", "a", "touch"), Op("/"), To("zap", "a", "touch"), Op("restart")>>

(* Loops, marks and a walk that bumps. *)
Looper == <<Name("a"), Walks(TRUE), Label("thud"), To("send", "all", "thud"), Op("restart")>>
Marker == <<Name("b"), Label("energize"), To("zap", "here", "energize"), Op("shoot"),
            To("restore", "here", "energize")>>

(* What adds, removes and replaces stats. *)
Maker  == <<Name("a"), Kind("put", "fodder"), Op("go"), Op("end"),
            Label("shot"), Op("say"), Kind("become", "fodder")>>
Keeper == <<Name("b"), Op("lock"), Op("say"), Op("say"), Then("try", Op("idle")),
            Op("bad"), Label("touch"), To("bind", "a", "")>>

(* What happens to players. *)
Healer == <<Name("a"), Then("if", Op("give")), Then("take", Op("?")), Then("if", Op("endgame")),
            Changing("fodder", "empty"), Op("restart")>>

(* A "#" on its own, and one that is the last byte. *)
Hasher == <<Name("a"), Op("bare"), Op("end"), Label("touch"), Op("bare")>>

Sound == {Scene(<<P("p"), Object("a", Door), F, Object("b", Caller), P("q")>>),
          Scene(<<P("p"), Object("a", Looper), Object("b", Marker)>>),
          Scene(<<P("p"), Object("a", Maker), Object("b", Keeper)>>),
          Scene(<<P("p"), F, Object("a", Healer), P("q")>>),
          Scene(<<P("p"), Object("a", Hasher)>>)}

-----------------------------------------------------------------------------
(* Every stat stands on a square that shows what it is, and the links of a *)
(* centipede name its own parts: no stat is left behind or taken over, as  *)
(* long as no turn went on with an id that had become another stat's.      *)
BoardWhole == squares.astray \/ (Boards!StatsShown /\ Boards!ChainsHold)

(* A player without health is one who will be back: whoever's turn kills,  *)
(* the countdown of the same player starts, unless the turn went on with an*)
(* id that had become another stat's.                                      *)
DeadRespawn == squares.astray \/ Boards!DeadRespawn

(* Boulders are never lost or doubled.                                     *)
NothingLost == [][Boards!KeepsBoulders]_vars

(* A board or a text may be exchanged with the other.                      *)
Alike == Permutations(Text) \cup Permutations(Board)
=============================================================================
