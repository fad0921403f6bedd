---------------------------- MODULE Whereabouts ----------------------------
(***************************************************************************)
(* What the room manager promises of players and boards, whatever happens  *)
(* to stat ids: a player is on one board or on none, and gets anywhere only*)
(* by arriving, travelling, departing, or when their board is dropped;  the *)
(* kept contents of a board are replaced only when the last player goes.   *)
(***************************************************************************)
CONSTANTS Player, Board, Content, Nowhere

VARIABLES place, kept

vars == <<place, kept>>

Init ==
  /\ place = [p \in Player |-> Nowhere]
  /\ kept \in [Board -> Content]

(* A player goes from board b: if nobody is left, b is kept as it is now.  *)
Keeps(b) ==
  IF \E q \in Player : place'[q] = b
  THEN UNCHANGED kept
  ELSE kept'[b] \in Content /\ kept' = [kept EXCEPT ![b] = kept'[b]]

Arrive(p, b) ==
  /\ place[p] = Nowhere
  /\ place' = [place EXCEPT ![p] = b]
  /\ UNCHANGED kept

Depart(p) ==
  /\ place[p] # Nowhere
  /\ place' = [place EXCEPT ![p] = Nowhere]
  /\ Keeps(place[p])

Travel(p, b) ==
  /\ place[p] # Nowhere
  /\ place' = [place EXCEPT ![p] = b]
  /\ Keeps(place[p])

(* A board whose room fails is kept as it was before anybody came.         *)
Drop(b) ==
  /\ place' = [p \in Player |-> IF place[p] = b THEN Nowhere ELSE place[p]]
  /\ UNCHANGED kept

Next ==
  \/ \E p \in Player, b \in Board : Arrive(p, b) \/ Travel(p, b)
  \/ \E p \in Player : Depart(p)
  \/ \E b \in Board : Drop(b)

Spec == Init /\ [][Next]_vars
=============================================================================
