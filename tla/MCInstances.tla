----------------------------- MODULE MCInstances -----------------------------
(* Two worlds and two connections.                                         *)
EXTENDS Instances, TLC

CONSTANTS town, caves, nosuch, c1, c2

Worlds == {town, caves}
TwoConns == {c1, c2}
First == {1}
Nobody == {}
SwapConns == Permutations(Conn)
=============================================================================
