------------------------------ MODULE MCPeople ------------------------------
(* A small instance of People.                                             *)
EXTENDS People, TLC

CONSTANTS owner1, c1, c2,        \* connections
          olga, gil, ann, bob    \* accounts

Signed == (owner1 :> olga) @@ (c1 :> gil) @@ (c2 :> gil)
Alike  == Permutations({c1, c2}) \cup Permutations({ann, bob})
=============================================================================
