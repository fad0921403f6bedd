------------------------------ MODULE ZWDWorlds ------------------------------
(***************************************************************************)
(* Families of small worlds for the module ZWD to export: a title board and*)
(* a board of four squares with the player on the first.                   *)
(***************************************************************************)
EXTENDS Integers

Squares == 1..4
Off     == 0

Tile(el)    == [element |-> el, color |-> "plain"]
Plain       == Tile("Empty")
Room(name, exit, tiles, stats) ==
  [name |-> name, start |-> 1, respawn |-> 1, under |-> "Empty", exit |-> exit,
   tiles |-> [sq \in Squares |-> IF sq = 1 THEN Tile("Player") ELSE tiles[sq - 1]], stats |-> stats]
World2(name0, room) == [boards |-> <<Room(name0, 0, <<Plain, Plain, Plain>>, <<>>), room>>]
Stat(sq) == [at |-> sq, cycle |-> 3, p1 |-> 0, p3 |-> 0, follower |-> -1, leader |-> -1, dataPos |-> 0,
             program |-> <<>>]

(* Centipedes: three records, one of them perhaps off the board or on what *)
(* has no stat of its own.                                                 *)
Chains ==
  {World2("A", Room("B", 0, <<Tile("Head"), Tile(el), Tile("Head")>>,
     <<[Stat(2) EXCEPT !.follower = f], [Stat(sq) EXCEPT !.leader = g, !.follower = h],
       [Stat(4) EXCEPT !.leader = h]>>)) :
   el \in {"Head", "Conveyor", "Raw"}, sq \in {3, Off}, f \in {-1, 2, 3}, g, h \in {-1, 1, 3}}
  \cup
  {World2("A", Room("B", 0, <<Tile("Head"), Tile("Head"), Plain>>,
     <<[Stat(Off) EXCEPT !.follower = f], [Stat(2) EXCEPT !.leader = g, !.follower = h],
       [Stat(3) EXCEPT !.leader = h]>>)) :
   f \in {-1, 2}, g \in {-1, 1}, h \in {-1, 2, 3}}

(* Where the doors of a board lead.                                        *)
Names ==
  {World2(n, Room(m, e, <<Tile("Passage"), Tile("Passage"), Plain>>,
     <<[Stat(2) EXCEPT !.p3 = p], [Stat(sq) EXCEPT !.p3 = q]>>)) :
   n, m \in {"A", "B", ""}, e \in {0, 1, 2}, p, q \in 0..2, sq \in {2, 3}}

(* Programs and the fields of one object.                                  *)
Texts == {"#command", "text", "long text", "end", "@too long"}
Programs ==
  {World2("A", Room("B", 0, <<Tile("Object"), Plain, Plain>>,
     <<[Stat(2) EXCEPT !.program = prog, !.cycle = c, !.p1 = p, !.dataPos = d]>>)) :
   prog \in {<<>>} \cup {<<x>> : x \in Texts} \cup {<<x, y>> : x, y \in Texts}, c \in {-1, 2, 3},
    p, d \in {0, 1}}

(* What squares look like.                                                 *)
Looks == {Plain, Tile("Raw"), Tile("Conveyor"), Tile("Door"),
          [element |-> "Door", color |-> "no key"], Tile("Player")}
         \cup {[element |-> "Text", color |-> c] : c \in {"A", "quote"}}
         \cup {[element |-> "Empty", color |-> "red"]}
Pictures ==
  {World2("A", [Room("B", 0, <<x, y, z>>, <<>>) EXCEPT !.start = s, !.respawn = r, !.under = u]) :
   x, y, z \in Looks, s \in {Off, 1}, r \in {1, 2}, u \in {"Raw"}}

Worlds == (Chains \cup Names) \cup (Programs \cup Pictures)
=============================================================================
