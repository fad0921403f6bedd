------------------------------ MODULE MCRooms ------------------------------
(* Small worlds for Rooms: two boards, the first stored with its player and*)
(* a creature, the second with its player and a scroll; and a single board *)
(* with a player, a creature and room for one more stat.                   *)
EXTENDS Rooms

TwoBoards == (1 :> <<"player", "hostile">>) @@ (2 :> <<"player", "scroll">>)
OneBoard  == 1 :> <<"player", "hostile">>
=============================================================================
