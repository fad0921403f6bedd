---------------------------- MODULE WorldRestore ----------------------------
(***************************************************************************)
(* A player saves the game, and it is restored over the web while the      *)
(* world is hosted.  A save is taken and written under the instance's lock;*)
(* handleRestore calls RestoreSnapshot without it, which asks whether      *)
(* anybody plays, reads the file, and then replaces the world and its      *)
(* rooms: what WorldScope does may come in between.                        *)
(***************************************************************************)
EXTENDS WorldScope

VARIABLES saved,     \* the game that was saved, if one was
          restoring  \* RestoreSnapshot has found the world empty

restoreVars == <<vars, saved, restoring>>

SaveSnapshot(p) ==
  /\ step = 0 /\ p \in Playing \cap online
  /\ saved' = Snapshot /\ UNCHANGED <<vars, restoring>>

CheckOccupied ==
  /\ ~restoring /\ hosted /\ saved # NoWorld /\ Playing = {}
  /\ restoring' = TRUE /\ UNCHANGED <<vars, saved>>

(* The file is cut off, or of another game.                                *)
ReadFails ==
  restoring /\ restoring' = FALSE /\ UNCHANGED <<vars, saved>>

ReplaceWorld ==
  /\ restoring /\ restoring' = FALSE
  /\ world' = saved /\ rooms' = {} /\ room' = [b \in Board |-> NoRoom]
  /\ UNCHANGED <<hosted, where, online, step, job, file, lost, saved>>

handleRestore == CheckOccupied \/ ReadFails \/ ReplaceWorld

(* The handler goes on with the instance it has found.  When that one ends *)
(* nobody joins it any more.                                               *)
RestoreNext ==
  \/ GoOn /\ UNCHANGED <<saved, restoring>>
  \/ End /\ restoring' = FALSE /\ UNCHANGED saved
  \/ \E p \in Player : SaveSnapshot(p)
  \/ handleRestore

RestoreSpec ==
  Init /\ saved = NoWorld /\ restoring = FALSE /\ [][RestoreNext]_restoreVars

(* RestoreSnapshot "refuses while any player is in a room: ... a player    *)
(* standing on one would be left on a board that no longer exists"         *)
(* (snapshot.go:210-212).                                                  *)
NobodyLeftBehind == PlayersHaveRooms
=============================================================================
