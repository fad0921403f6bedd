------------------------------- MODULE MCWorlds -------------------------------
(***************************************************************************)
(* WorldLives for TLC: two players and two boards; two dreams, an account  *)
(* and a guest, and a title whose stem leads to three names, of which one  *)
(* is a classic's.                                                         *)
(***************************************************************************)
EXTENDS WorldLives

CONSTANTS p1, p2, d1, d2, alice, classic, castle, castle2

Stem == <<classic, castle, castle2>>
=============================================================================
