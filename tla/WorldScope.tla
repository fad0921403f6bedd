----------------------------- MODULE WorldScope -----------------------------
(***************************************************************************)
(* What the rooms of one world share, and what becomes of it: every live   *)
(* room's engine has its own copy of the world's flags and of the boards   *)
(* nobody is on; an empty room is frozen back into the world; an autosave  *)
(* puts the pieces together, is written later, and is what a restarted     *)
(* server begins with; an idle world is dropped and loaded anew.           *)
(*                                                                         *)
(* Every board has a door and an object that opens it and sets the board's *)
(* flag in the same turn, or shuts it and clears the flag: a board and the *)
(* shared flags that disagree show that a piece was lost or came from      *)
(* another moment.                                                         *)
(*                                                                         *)
(* inst.mu is held for a whole tick; step says how far the tick has got.   *)
(***************************************************************************)
EXTENDS Naturals

CONSTANTS Player, MAX_BOARD, Nowhere, NoWorld

ASSUME ScopeAssumption ==
  /\ MAX_BOARD \in Nat /\ Nowhere \notin 0 .. MAX_BOARD

Board  == 0 .. MAX_BOARD
Settle == MAX_BOARD + 2

VARIABLES
  hosted,  \* the world has an instance
  where,   \* the board of each player
  online,  \* the players with a connection, inst.Clients
  world,   \* rm.world: its boards' doors, and Info.Flags
  rooms,   \* rm.rooms
  room,    \* a live room's engine: its board, its flags, its other boards
  step,    \* 0 between ticks, b + 1 when board b's turn is next, then Settle
  job,     \* what Autosave has taken and not written yet
  file,    \* the autosave
  lost     \* history: boards whose room was dropped after a panic

vars == <<hosted, where, online, world, rooms, room, step, job, file, lost>>

Pristine == [door |-> [b \in Board |-> FALSE], flags |-> {}]
NoRoom   == [door |-> FALSE, flags |-> {}, copy |-> Pristine.door]

Init ==
  /\ hosted = TRUE /\ where = [p \in Player |-> Nowhere] /\ online = {}
  /\ world = Pristine /\ rooms = {} /\ room = [b \in Board |-> NoRoom]
  /\ step = 0 /\ job = NoWorld /\ file = NoWorld /\ lost = {}

Playing == {p \in Player : where[p] # Nowhere}
On(b)   == {p \in Player : where[p] = b}

-----------------------------------------------------------------------------
(* The two seams: a live room's share of the world.                        *)

(* publishRoomWorldScope's effect on rm.world.                             *)
Published(w, new) == [w EXCEPT !.flags = new]

(* A bug: the other rooms learn of it when they next step.                 *)
NotFannedOut(R, rs, w, new) == R

(* ... and on every live room: nothing when the flags are the world's.     *)
FannedOut(R, rs, w, new) ==
  IF w.flags = new THEN R
  ELSE [b \in Board |-> IF b \in rs THEN [R[b] EXCEPT !.flags = new] ELSE R[b]]

(* ensureRoom.                                                             *)
Opened(w, b) == [door |-> w.door[b], flags |-> w.flags, copy |-> w.door]

(* freezeRoomIfEmpty: the board is closed into the world.                  *)
Frozen(w, r, b) == [Published(w, r.flags) EXCEPT !.door[b] = r.door]

(* syncFrozenBoardToLiveRooms.                                             *)
Synced(R, rs, w, b) ==
  [c \in Board |->
     IF c \in rs THEN [R[c] EXCEPT !.copy[b] = w.door[b], !.flags = w.flags] ELSE NoRoom]

(* Player p goes to board b, or away; the room they leave is frozen when   *)
(* nobody is left in it.                                                   *)
MoveTo(p, b) ==
  LET old   == where[p]
      made  == IF b = Nowhere \/ b \in rooms THEN room ELSE [room EXCEPT ![b] = Opened(world, b)]
      rs    == IF b = Nowhere THEN rooms ELSE rooms \cup {b}
      empty == old # Nowhere /\ old \in rooms /\ On(old) = {p} /\ b # old
      w     == IF empty THEN Frozen(world, made[old], old) ELSE world
  IN
  /\ where' = [where EXCEPT ![p] = b]
  /\ world' = w
  /\ rooms' = IF empty THEN rs \ {old} ELSE rs
  /\ room'  = IF empty
                THEN Synced(FannedOut(made, rs, world, made[old].flags), rs \ {old}, w, old)
                ELSE made

-----------------------------------------------------------------------------
(* Between ticks.                                                          *)

(* GetOrCreateInstance: a world without an instance is loaded as it was    *)
(* published.  Then JoinPlayer.                                            *)
Join(p) ==
  /\ step = 0 /\ hosted /\ p \notin Playing \cup online
  /\ \E b \in Board : MoveTo(p, b)
  /\ online' = online \cup {p}
  /\ UNCHANGED <<hosted, step, job, file, lost>>

GetOrCreateInstance ==
  /\ ~hosted /\ hosted' = TRUE /\ world' = Pristine
  /\ UNCHANGED <<where, online, rooms, room, step, job, file, lost>>

LeavePlayer(p) ==
  /\ step = 0 /\ p \in Playing
  /\ MoveTo(p, Nowhere)
  /\ online' = online \ {p}
  /\ UNCHANGED <<hosted, step, job, file, lost>>

(* A connection is lost and its player, if they still play, kept for a     *)
(* while; another connection resumes.                                      *)
Detach(p) ==
  /\ step = 0 /\ p \in online /\ online' = online \ {p}
  /\ UNCHANGED <<hosted, where, world, rooms, room, step, job, file, lost>>

Resume(p) ==
  /\ step = 0 /\ p \in Playing \ online /\ online' = online \cup {p}
  /\ UNCHANGED <<hosted, where, world, rooms, room, step, job, file, lost>>

(* snapshotWorldBase: frozen boards from the world, live ones from their   *)
(* engines, and everybody's flags.                                         *)
Snapshot ==
  [door  |-> [b \in Board |-> IF b \in rooms THEN room[b].door ELSE world.door[b]],
   flags |-> world.flags \cup UNION {room[b].flags : b \in rooms}]

(* A bug: what live rooms have done is not asked for.                      *)
CollectFrozen ==
  /\ step = 0 /\ hosted /\ online # {} /\ job = NoWorld
  /\ job' = world
  /\ UNCHANGED <<hosted, where, online, world, rooms, room, step, file, lost>>

(* Autosave passes over a world nobody is connected to.                    *)
CollectAutosave ==
  /\ step = 0 /\ hosted /\ online # {} /\ job = NoWorld
  /\ job' = Snapshot
  /\ UNCHANGED <<hosted, where, online, world, rooms, room, step, file, lost>>

(* writeWorldSnapshot: written beside it and renamed, so all or nothing;   *)
(* the tick's goroutine does it, and players come and go meanwhile.        *)
WriteAutosave ==
  /\ job # NoWorld /\ file' = job /\ job' = NoWorld
  /\ UNCHANGED <<hosted, where, online, world, rooms, room, step, lost>>

WriteFails ==
  /\ job # NoWorld /\ job' = NoWorld
  /\ UNCHANGED <<hosted, where, online, world, rooms, room, step, file, lost>>

(* evictIdleInstances: no player, nothing being autosaved.                 *)
Evict ==
  /\ step = 0 /\ hosted /\ Playing \cup online = {} /\ job = NoWorld
  /\ hosted' = FALSE /\ world' = Pristine
  /\ UNCHANGED <<where, online, rooms, room, step, job, file, lost>>

-----------------------------------------------------------------------------
(* A tick: rooms in board order, then who goes where.                      *)

BeginStep ==
  /\ step = 0 /\ hosted /\ job = NoWorld
  /\ step' = 1
  /\ UNCHANGED <<hosted, where, online, world, rooms, room, job, file, lost>>

Next1 == step' = step + 1

SkipRoom(b) ==
  /\ step = b + 1 /\ b \notin rooms /\ Next1
  /\ UNCHANGED <<hosted, where, online, world, rooms, room, job, file, lost>>

(* refreshRoomWorldScope, GameStepWithInputs, publishRoomWorldScope: the   *)
(* object opens the door, shuts it, or does nothing.                       *)
StepRoom(b) ==
  \E open \in BOOLEAN :
    LET new == IF open THEN world.flags \cup {b} ELSE world.flags \ {b}
        out == FannedOut(room, rooms, world, new)
    IN
    /\ step = b + 1 /\ b \in rooms /\ Next1
    /\ room' = [out EXCEPT ![b].door = open, ![b].flags = new]
    /\ world' = Published(world, new)
    /\ UNCHANGED <<hosted, where, online, rooms, job, file, lost>>

IdleRoom(b) ==
  /\ step = b + 1 /\ b \in rooms /\ Next1
  /\ room' = [room EXCEPT ![b].flags = world.flags]
  /\ UNCHANGED <<hosted, where, online, world, rooms, job, file, lost>>

(* stepRoom, dropPanickedRoom: a panic takes the room and its players; the *)
(* board is again what it was when it was last frozen.                     *)
DropPanickedRoom(b) ==
  /\ step = b + 1 /\ b \in rooms /\ Next1
  /\ rooms' = rooms \ {b} /\ room' = [room EXCEPT ![b] = NoRoom]
  /\ where' = [p \in Player |-> IF where[p] = b THEN Nowhere ELSE where[p]]
  /\ lost' = lost \cup {b}
  /\ UNCHANGED <<hosted, online, world, job, file>>

(* Transfers and quits, once all rooms have stepped.  Whoever quit, or was *)
(* in a room that panicked, is still connected.                            *)
Transfer(p) ==
  /\ step = Settle /\ p \in Playing
  /\ \E b \in (Board \ {where[p]}) \cup {Nowhere} : MoveTo(p, b)
  /\ UNCHANGED <<hosted, online, step, job, file, lost>>

EndStep ==
  /\ step = Settle /\ step' = 0
  /\ UNCHANGED <<hosted, where, online, world, rooms, room, job, file, lost>>

-----------------------------------------------------------------------------
(* The process ends at any moment; what it has written is all that is left.*)
(* RestoreAutosaves makes it the world before anybody joins.               *)
CrashAndBoot ==
  /\ hosted' = TRUE /\ where' = [p \in Player |-> Nowhere] /\ online' = {}
  /\ world' = IF file = NoWorld THEN Pristine ELSE file
  /\ rooms' = {} /\ room' = [b \in Board |-> NoRoom]
  /\ step' = 0 /\ job' = NoWorld
  /\ UNCHANGED <<file, lost>>

Tick ==
  \/ BeginStep \/ EndStep
  \/ \E b \in Board : SkipRoom(b) \/ StepRoom(b) \/ IdleRoom(b) \/ DropPanickedRoom(b)

(* What the world's instance goes through, and what ends it.               *)
GoOn ==
  \/ \E p \in Player : Join(p) \/ LeavePlayer(p) \/ Detach(p) \/ Resume(p) \/ Transfer(p)
  \/ Tick \/ GetOrCreateInstance
  \/ CollectAutosave \/ WriteAutosave \/ WriteFails

End == Evict \/ CrashAndBoot

Next == GoOn \/ End

Spec == Init /\ [][Next]_vars

(* The loop ticks, autosaves on its cadence, and the disk is not always    *)
(* full.                                                                   *)
FairSpec ==
  Spec /\ WF_vars(Tick) /\ SF_vars(CollectAutosave) /\ SF_vars(WriteAutosave)

-----------------------------------------------------------------------------
Worlds == [door : [Board -> BOOLEAN], flags : SUBSET Board]

TypeOK ==
  /\ hosted \in BOOLEAN /\ where \in [Player -> Board \cup {Nowhere}]
  /\ online \subseteq Player /\ world \in Worlds /\ rooms \subseteq Board
  /\ room \in [Board -> [door : BOOLEAN, flags : SUBSET Board, copy : [Board -> BOOLEAN]]]
  /\ step \in 0 .. Settle
  /\ job \in Worlds \cup {NoWorld} /\ file \in Worlds \cup {NoWorld} /\ lost \subseteq Board

(* Nobody plays on a board no room runs: a player in no room is never      *)
(* stepped again, whichever way a room ends while they are in it.          *)
PlayersHaveRooms == \A p \in Playing : where[p] \in rooms

(* Between ticks every room agrees with the world on the flags, and on     *)
(* every board nobody is on, whatever order rooms step, freeze and fail in.*)
RoomsAgree ==
  step = 0 =>
    \A b \in rooms :
      /\ room[b].flags = world.flags
      /\ \A c \in Board \ rooms : room[b].copy[c] = world.door[c]

Matching(w) == \A b \in Board \ lost : w.door[b] <=> b \in w.flags

(* A board and the flags it set in the same turn are never separated: not  *)
(* by freezing it, nor in what is being autosaved, nor in the file that a  *)
(* restarted server begins with.  A panic does separate them: it takes the *)
(* board back, and not the flags.                                          *)
WorldsMatch ==
  /\ step = 0 => Matching(Snapshot)
  /\ job # NoWorld => Matching(job)
  /\ file # NoWorld => Matching(file)

(* As long as somebody stays connected, a door that stays as it is will be *)
(* so in the autosave: a crash then keeps it.                              *)
LastingIsSaved ==
  \A b \in Board, open \in BOOLEAN :
    <>[](online # {} /\ Snapshot.door[b] = open)
      => <>[](file # NoWorld /\ file.door[b] = open)
=============================================================================
