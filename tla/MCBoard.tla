------------------------------ MODULE MCBoard ------------------------------
(* Scenes: a small board each, with the elements whose turns belong        *)
(* together and the stats in the order of their ids.                       *)
EXTENDS Board

Plan(w, h, inside) ==
  [s \in (0..(w + 1)) \X (0..(h + 1)) |->
     IF s \in DOMAIN inside THEN inside[s]
     ELSE IF s[1] \in {0, w + 1} \/ s[2] \in {0, h + 1} THEN "edge" ELSE "empty"]

Stand(s, kind, d) == [Template(s, kind, "empty") EXCEPT !.step = d]

(* The stats in the order of their ids on a board of terrain. *)
Scene(w, h, terrain, stats, zap) ==
  LET n == Len(stats) - 1
      shown == [s \in {stats[k].at : k \in DOMAIN stats} |->
                  stats[CHOOSE k \in DOMAIN stats : stats[k].at = s].kind]
      players == {i \in 0..n : stats[i + 1].kind = "player"}
  IN [tile |-> Plan(w, h, [s \in DOMAIN shown \cup DOMAIN terrain |->
                             IF s \in DOMAIN shown THEN shown[s] ELSE terrain[s]]),
      n |-> n,
      stat |-> [i \in 0..MaxStats |-> IF i <= n THEN stats[i + 1] ELSE Unused],
      cur |-> 0,
      pl |-> [i \in players |-> [Newcomer EXCEPT !.who = i + 1, !.home = stats[i + 1].at]],
      zap |-> zap, stuck |-> FALSE, gone |-> <<>>, astray |-> FALSE]

Only(s, element) == [t \in {s} |-> element]
Bare == [t \in {} |-> "empty"]
E == <<1, 0>>
W == <<-1, 0>>
S == <<0, 1>>

(* Two players, a beast and a wall that breaks. *)
Fight == {Scene(3, 2, Only(<<2, 2>>, "breakable"),
                <<Stand(<<1, 1>>, "player", Still), Stand(<<1, 2>>, "player", Still),
                  Stand(<<3, 1>>, kind, Still)>>, TRUE) : kind \in {"lion"}}

(* Shots: a tiger or a gun, a ricochet, water. *)
Shots == {Scene(3, 2, Only(<<2, 2>>, "ricochet") @@ Only(<<3, 2>>, "water"),
                <<Stand(<<1, 1>>, "player", Still), Stand(<<3, 1>>, kind, Still)>>, FALSE) :
            kind \in {"tiger", "gun"}}

(* A centipede of three parts, the last listed first, that is cut round a  *)
(* wall, and one of two in the open; they turn round and grow together     *)
(* again.                                                                  *)
Centipede == {Scene(3, 2, Only(<<2, 2>>, "solid"),
                <<Stand(<<3, 2>>, "player", Still),
                  [Stand(<<3, 1>>, "segment", W) EXCEPT !.leader = 3],
                  [Stand(<<1, 1>>, "head", W) EXCEPT !.follower = 3],
                  [Stand(<<2, 1>>, "segment", W) EXCEPT !.leader = 2, !.follower = 1]>>, FALSE),
              Scene(3, 2, Bare,
                <<Stand(<<3, 2>>, "player", Still),
                  [Stand(<<1, 1>>, "head", W) EXCEPT !.follower = 2],
                  [Stand(<<2, 1>>, "segment", W) EXCEPT !.leader = 1]>>, FALSE)}

(* Boulders, a slider, two pushers in a row, two facing transporters and a *)
(* beast that can be pushed.                                               *)
Pushing == {Scene(5, 2, Only(<<2, 1>>, "boulder") @@ Only(<<3, 2>>, "slider_ew"),
                <<Stand(<<1, 1>>, "player", Still), Stand(<<3, 1>>, "transporter", E),
                  Stand(<<4, 1>>, "transporter", W), Stand(<<4, 2>>, "bear", Still)>>, FALSE),
            Scene(5, 2, Only(<<3, 1>>, "boulder") @@ Only(<<4, 2>>, "boulder"),
                <<Stand(<<5, 1>>, "player", Still), Stand(<<1, 1>>, "pusher", E),
                  Stand(<<2, 1>>, "pusher", E)>>, FALSE)}

(* Slime, a shark in its water and a blink wall. *)
Growing == {Scene(4, 2, Only(<<3, 2>>, "water") @@ Only(<<4, 2>>, "boulder"),
                <<Stand(<<1, 1>>, "player", Still), Stand(<<4, 1>>, "blinkwall", W),
                  Stand(<<2, 2>>, "shark", Still)>>, FALSE),
            Scene(2, 2, Bare, <<Stand(<<1, 1>>, "player", Still), Stand(<<2, 2>>, "slime", Still)>>, FALSE)}

(* A bomb among a boulder and a star. *)
Bombing == {Scene(3, 2, Only(<<3, 2>>, "boulder"),
                <<Stand(<<1, 1>>, "player", Still), Stand(<<2, 1>>, "bomb", Still),
                  Stand(<<2, 2>>, "object", Still)>>, TRUE)}

(* A conveyor, with a boulder and a player around it, or a bear as well.   *)
Ringed(terrain, beasts) ==
  {Scene(3, 3, Only(<<1, 2>>, "boulder") @@ terrain,
         <<Stand(<<1, 1>>, "player", Still), Stand(<<2, 2>>, kind, Still)>> \o beasts, FALSE) :
     kind \in {"conveyor_cw", "conveyor_ccw"}}
Carrying == Ringed(Only(<<3, 3>>, "solid"), <<>>) \cup Ringed(Bare, <<Stand(<<1, 3>>, "bear", Still)>>)

(* What a turn removes is below the stat whose turn it is: a beast or the  *)
(* timer of a message below another beast, a machine or a player who came  *)
(* after them and has one hit left.                                        *)
Told == [Stand(Still, "timer", Still) EXCEPT !.under = "edge"]
Late ==
  {[Scene(2, 2, Bare, <<Stand(<<1, 1>>, "player", Still), Told, Stand(<<1, 2>>, kind, Still),
                        Stand(<<2, 2>>, "player", Still)>>, zap) EXCEPT !.pl[3].hp = 1] :
     kind \in {"lion", "ruffian"}, zap \in BOOLEAN}
  \cup {Scene(3, 1, Bare, <<Stand(<<1, 1>>, "player", Still), Told, Stand(<<3, 1>>, "tiger", Still)>>, FALSE),
        Scene(3, 2, Bare, <<Stand(<<1, 1>>, "player", Still), Told, Stand(<<3, 1>>, "blinkwall", W)>>, FALSE),
        Scene(5, 1, Only(<<3, 1>>, "boulder"),
          <<Stand(<<1, 1>>, "player", Still), Stand(<<2, 1>>, "bear", Still),
            Stand(<<5, 1>>, "star", W)>>, FALSE),
        Scene(5, 1, Only(<<5, 1>>, "boulder"),
          <<Stand(<<5, 1>>, "player", Still), Stand(<<1, 1>>, "lion", Still),
            Stand(<<2, 1>>, "bear", Still), Stand(<<3, 1>>, "duplicator", E)>>, FALSE),
        Scene(5, 1, Only(<<4, 1>>, "boulder"),
          <<Stand(<<2, 1>>, "player", Still), Stand(<<5, 1>>, "bear", Still),
            Stand(<<3, 1>>, "transporter", E), Stand(<<1, 1>>, "player", Still)>>, FALSE),
        Scene(5, 1, Bare,
          <<Stand(<<5, 1>>, "player", Still), [Stand(<<2, 1>>, "head", W) EXCEPT !.follower = 2],
            [Stand(<<3, 1>>, "segment", W) EXCEPT !.leader = 1], Stand(<<1, 1>>, "player", Still)>>, TRUE)}

Sound == Fight \cup Shots \cup Centipede \cup Pushing \cup Growing \cup Bombing \cup Carrying \cup Late
=============================================================================
