----------------------------- MODULE MCServices -----------------------------
(* A small instance of Services.                                           *)
EXTENDS Services

CONSTANTS b1, b2, b3,                                    \* boards
          p1, p2, p3, p4, w1, w2,                        \* players, watchers
          r1, r2, alice, bob,                            \* challenge runs, accounts
          q1, q2, town, trial                            \* requests, worlds

ZWDSamples == INSTANCE ZWDWorlds
Samples == ZWDSamples!Worlds
OneLetter == <<"x">>
=============================================================================
