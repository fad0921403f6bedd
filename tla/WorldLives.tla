----------------------------- MODULE WorldLives -----------------------------
(***************************************************************************)
(* What becomes of worlds, one story in each behavior: the state a world   *)
(* keeps through rooms, autosaves and crashes (WorldScope), and the worlds *)
(* that dreams make (Dreams).                                              *)
(***************************************************************************)
EXTENDS WorldScope

CONSTANTS Job, Account, Guest, Nobody, Family, Canonical, NoName, MaxConcurrent   \* of Dreams

(* The names around a title's stem are numbered in minting order.          *)
ASSUME FamilyAssumption == DOMAIN Family \subseteq Nat

VARIABLES story, dream, sem, held, saved, owner, played

Dreams == INSTANCE Dreams WITH job <- dream

dreamsVars == <<dream, sem, held, saved, owner, played>>
worldsVars == <<story, vars, dreamsVars>>

WorldsInit == story \in {"scope", "dreams"} /\ Init /\ Dreams!Init

InScope(A)  == story = "scope" /\ A /\ UNCHANGED <<story, dreamsVars>>
InDreams(A) == story = "dreams" /\ A /\ UNCHANGED <<story, vars>>

PlayWorld  == InScope(Next)
DreamWorld == InDreams(Dreams!Next)

WorldsNext == PlayWorld \/ DreamWorld
WorldsFairness ==
  /\ WF_worldsVars(InScope(Tick))
  /\ SF_worldsVars(InScope(CollectAutosave)) /\ SF_worldsVars(InScope(WriteAutosave))
  /\ \A j \in Job :
       WF_worldsVars(InDreams(Dreams!Work(j) \/ Dreams!Admit(j) \/ Dreams!ReAdmit(j)))
WorldsSpec == WorldsInit /\ [][WorldsNext]_worldsVars /\ WorldsFairness

-----------------------------------------------------------------------------
(* A world stays whole: its players have rooms, its rooms agree between    *)
(* ticks, and a board is never separated from the flags it set.            *)
WorldKept == PlayersHaveRooms /\ RoomsAgree /\ WorldsMatch

(* No name is kept by a dream that ended or given to two of them.          *)
HeldByDreams == Dreams!HeldByDreams

(* Every dream comes to an end.                                            *)
JobsEnd == Dreams!JobsEnd
=============================================================================
