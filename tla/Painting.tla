------------------------------ MODULE Painting ------------------------------
(***************************************************************************)
(* paintAndFinish up to the last gate: how one dream's boards are painted  *)
(* by a model that may fail in any way, salvaged as stubs, repaired in     *)
(* rounds, accepted, and painted again when the player asks for it.  What  *)
(* becomes of the accepted world is the module Dreams.                     *)
(*                                                                         *)
(* A board's section is one of Section, whatever its text.  Painted one by *)
(* one or in batches, a section is accepted when the world assembled so far*)
(* compiles and every board of it survives 200 steps of play.              *)
(***************************************************************************)
EXTENDS Naturals, FiniteSets

CONSTANTS Board, maxAttempts,
          batchSize             \* 1, or as many as there are boards

(* none: not painted; good; crash: passed the check of its own painting but*)
(* does not survive play in the assembled world; stub: the salvage room.   *)
Section == {"none", "good", "crash", "stub"}

(* generatedStubBoard: a small room that compiles and survives by itself.  *)
Stub == "stub"

VARIABLES
  at,        \* where paintAndFinish has got to
  sections,  \* st.sections
  attempts,  \* st.attempts
  stubbed,   \* st.stubbed
  todo,      \* the boards this round repairs
  round,     \* repairRound
  clean,     \* simulationClean
  data       \* the assembled world, compiled

vars == <<at, sections, attempts, stubbed, todo, round, clean, data>>

Blank == [b \in Board |-> "none"]

Init ==
  /\ at = "paint" /\ sections = Blank /\ attempts = [b \in Board |-> 0] /\ stubbed = {}
  /\ todo = {} /\ round = 0 /\ clean = FALSE /\ data = Blank

Goto(place) == at' = place
Fail == Goto("failed") /\ UNCHANGED <<sections, attempts, stubbed, todo, round, clean, data>>

-----------------------------------------------------------------------------
(* The outcomes of paintBoard with some attempts already spent.  It ends   *)
(* with a section, when the budget is spent, or at once when a call to the *)
(* model fails.                                                            *)
Painted(spent) ==
  {[section |-> s, spent |-> k] : s \in {"none", "good", "crash"}, k \in (spent + 1)..maxAttempts}
  \cup {[section |-> "none", spent |-> k] : k \in {spent} \cap {maxAttempts}}

(* One outcome for each of the boards bs.                                  *)
Paintings(bs) == {p \in [bs -> UNION {Painted(attempts[b]) : b \in bs}] :
                    \A b \in bs : p[b] \in Painted(attempts[b])}

(* A batch lands as a whole or not at all, with as many attempts for each. *)
Batches(bs) == {p \in Paintings(bs) : \A b, c \in bs : /\ p[b].spent = p[c].spent
                                                     /\ p[b].section = "none" <=> p[c].section = "none"}

Lost(p)  == {b \in DOMAIN p : p[b].section = "none"}
Spent(p) == attempts' = [b \in Board |-> IF b \in DOMAIN p THEN p[b].spent ELSE attempts[b]]
Taken(p, other) == [b \in Board |-> IF b \in DOMAIN p \ Lost(p) THEN p[b].section ELSE other[b]]

(* Every board is painted; one that cannot be becomes a stub.              *)
Paint ==
  /\ at = "paint"
  /\ \E p \in IF batchSize = 1 THEN Paintings(Board) ELSE Batches(Board) :
       /\ Spent(p)
       /\ stubbed' = Lost(p) /\ sections' = Taken(p, [b \in Board |-> Stub])
  /\ Goto("repaint") /\ UNCHANGED <<todo, round, clean, data>>

(* A bug: a board painted at last is still listed as a stub.               *)
StillStubbedAll(again, p) == stubbed

StillStubbed(again, p) == (stubbed \ again) \cup Lost(p)

(* Stubs with attempts left are painted again, after a failed call or in a *)
(* retry; a world of nothing but stubs fails.                              *)
Repaint ==
  LET again == {b \in stubbed : attempts[b] < maxAttempts}
  IN /\ at = "repaint"
     /\ \E p \in Paintings(again) :
          /\ Spent(p) /\ sections' = Taken(p, sections) /\ stubbed' = StillStubbed(again, p)
     /\ Goto(IF stubbed' = Board THEN "failed" ELSE "validate")
     /\ UNCHANGED <<todo, round, clean, data>>

-----------------------------------------------------------------------------
(* The assembled world is compiled and played; what is wrong is repaired.  *)
Crashed == {b \in Board : sections[b] = "crash"}

(* Boards with an exit that does not lead where the plan says, or without  *)
(* the key or the flag a step of the plan asks for.                        *)
CrossBoardProblems == SUBSET (Board \ stubbed)

(* Boards with an object that talks before it is touched.                  *)
ObjectPreludes == SUBSET (Board \ stubbed)

CompileFails == at = "validate" /\ Fail

(* The problems of a round are boards that crash and boards with something *)
(* to mend, which stubs are let off; the last round asks for no more.      *)
Repairable(problems) ==
  /\ problems # {} /\ round < maxAttempts - 1
  /\ Goto("repair") /\ todo' = problems /\ UNCHANGED <<sections, stubbed, data>>

Accepted(problems) ==
  /\ problems = {}
  /\ Goto("gate") /\ data' = sections /\ UNCHANGED <<sections, stubbed, todo>>

(* stubCrashingBoards: they are replaced, whatever has been tried.         *)
StubCrashingBoards == [b \in Board |-> IF b \in Crashed THEN Stub ELSE sections[b]]

(* The last round: what still crashes goes, and the world is assembled     *)
(* again.                                                                  *)
StubCrashing(problems) ==
  /\ problems # {} /\ round = maxAttempts - 1
  /\ sections' = StubCrashingBoards
  /\ data' = sections'
  /\ Goto("gate") /\ stubbed' = stubbed \cup Crashed /\ UNCHANGED todo

Validate ==
  /\ at = "validate"
  /\ \E odd \in CrossBoardProblems, talk \in ObjectPreludes :
       LET problems == Crashed \cup odd \cup talk
       IN Repairable(problems) \/ Accepted(problems) \/ StubCrashing(problems)
  /\ clean' = (Crashed = {}) /\ UNCHANGED <<attempts, round>>

(* A board that cannot be repaired keeps the section it has.               *)
Repair ==
  /\ at = "repair"
  /\ \E p \in Paintings(todo) : Spent(p) /\ sections' = Taken(p, sections)
  /\ Goto("validate") /\ round' = round + 1 /\ todo' = {} /\ UNCHANGED <<stubbed, clean, data>>

(* Played once more, unless that was just done.                            *)
Gate == Goto(IF ~clean /\ \E b \in Board : data[b] = "crash" THEN "failed" ELSE "accepted")

LastGate == at = "gate" /\ Gate /\ UNCHANGED <<sections, attempts, stubbed, todo, round, clean, data>>

(* RetryBoard: the boards that are stubs get a fresh budget.               *)
RetryBoard ==
  /\ at = "accepted" /\ stubbed # {}
  /\ attempts' = [b \in Board |-> IF b \in stubbed THEN 0 ELSE attempts[b]]
  /\ Goto("repaint") /\ round' = 0 /\ clean' = FALSE /\ UNCHANGED <<sections, stubbed, todo, data>>

Next ==
  \/ Paint \/ Repaint \/ CompileFails \/ Validate \/ Repair \/ LastGate \/ RetryBoard

Spec == Init /\ [][Next]_vars

-----------------------------------------------------------------------------
TypeOK ==
  /\ at \in {"paint", "repaint", "validate", "repair", "gate", "accepted", "failed"}
  /\ sections \in [Board -> Section] /\ data \in [Board -> Section]
  /\ attempts \in [Board -> 0..maxAttempts]
  /\ stubbed \in SUBSET Board /\ todo \in SUBSET Board
  /\ round \in 0..(maxAttempts - 1) /\ clean \in BOOLEAN

(* No world is accepted with a board that does not survive play, whichever *)
(* of painting, repair, salvage and retry its boards came from.            *)
ShippedSurvives == at = "accepted" => \A b \in Board : data[b] \in {"good", Stub}

(* A player is told of, and offered to repaint, exactly the boards of the  *)
(* accepted world that are stubs, and keeps what was painted.              *)
StubsTold == at = "accepted" => stubbed = {b \in Board : data[b] = Stub} /\ data = sections
=============================================================================
