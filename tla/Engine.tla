--------------------------------- MODULE Engine ---------------------------------
(***************************************************************************)
(* The programs of objects, one view of them in each behavior: as the      *)
(* engine runs them, and as an editor keeps them.  In the part "board" the *)
(* elements take their turns, which share nothing with either.             *)
(***************************************************************************)
EXTENDS Objects

CONSTANTS Board, Text, NoText, MAX_STAT, PastLoss    \* of Programs

(* No text of a program is none.                                           *)
ASSUME ProgramsAssumption == NoText \notin Text /\ MAX_STAT \in Nat

VARIABLES part, current, stats, count, file, given, shifted, leftover

Programs == INSTANCE Programs

programsVars == <<current, stats, count, file, given, shifted, leftover>>

(* The objects of a scene take turns only in their own part.               *)
EngineInit ==
  /\ part \in {"board", "objects", "programs"}
  /\ Init /\ (part # "objects" => eng = CHOOSE e \in Scenes : TRUE)
  /\ Programs!Init

RunObject   == part = "objects" /\ Next /\ UNCHANGED <<part, programsVars>>
EditProgram == part = "programs" /\ Programs!Next /\ UNCHANGED <<part, eng>>

EngineNext == RunObject \/ EditProgram
EngineSpec == EngineInit /\ [][EngineNext]_<<part, eng, programsVars>>

-----------------------------------------------------------------------------
(* Objects play what their authors saved, whatever boards were shut and    *)
(* opened in between, and in whichever session.                            *)
ProgramsKept == Programs!ProgramsKept
=============================================================================
