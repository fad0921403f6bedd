--------------------------- MODULE WorldLivesProofs ---------------------------
(***************************************************************************)
(* Theorems about what becomes of worlds, for any players, boards, dreams, *)
(* accounts and names.                                                     *)
(***************************************************************************)
EXTENDS WorldLives, FiniteSetTheorems, WellFoundedInduction, TLAPS

-----------------------------------------------------------------------------
(* A world's rooms.                                                        *)

Rooms == [door : BOOLEAN, flags : SUBSET Board, copy : [Board -> BOOLEAN]]

(* A room is there as long as somebody plays in it, and no longer; a world *)
(* without an instance has none.                                           *)
RoomsInv ==
  /\ PlayersHaveRooms
  /\ \A b \in rooms : On(b) # {}
  /\ ~hosted => rooms = {}

(* At any point of a tick, not only between ticks: every room has the      *)
(* world's flags, and its copies of the boards are the world's.            *)
PiecesAgree ==
  \A b \in rooms : room[b].flags = world.flags /\ \A c \in Board : room[b].copy[c] = world.door[c]

DoorNow(b) == IF b \in rooms THEN room[b].door ELSE world.door[b]

PiecesMatch == \A b \in Board \ lost : DoorNow(b) <=> b \in world.flags

SavedMatch ==
  /\ job # NoWorld => Matching(job)
  /\ file # NoWorld => Matching(file)

LiveInv  == TypeOK /\ RoomsInv /\ PiecesAgree /\ PiecesMatch
ScopeInv == LiveInv /\ SavedMatch

LEMMA PristineTyped == Pristine \in Worlds /\ NoRoom \in Rooms
BY DEF Pristine, NoRoom, Worlds, Rooms

(* What the seams do to a room and to the world.                           *)
LEMMA OpenedIs ==
  \A w \in Worlds, b \in Board :
    /\ Opened(w, b) \in Rooms
    /\ Opened(w, b).door = w.door[b] /\ Opened(w, b).flags = w.flags
    /\ Opened(w, b).copy = w.door
BY DEF Opened, Worlds, Rooms

LEMMA FrozenIs ==
  \A w \in Worlds, r \in Rooms, b \in Board :
    /\ Frozen(w, r, b) \in Worlds /\ Frozen(w, r, b).flags = r.flags
    /\ Frozen(w, r, b).door[b] = r.door
    /\ \A c \in Board \ {b} : Frozen(w, r, b).door[c] = w.door[c]
<1> SUFFICES ASSUME NEW w \in Worlds, NEW r \in Rooms, NEW b \in Board
             PROVE  /\ Frozen(w, r, b) \in Worlds /\ Frozen(w, r, b).flags = r.flags
                    /\ Frozen(w, r, b).door[b] = r.door
                    /\ \A c \in Board \ {b} : Frozen(w, r, b).door[c] = w.door[c]
  OBVIOUS
<1> DEFINE u == Published(w, r.flags)
<1>1. u \in Worlds /\ u.flags = r.flags /\ u.door = w.door
  BY DEF Published, Worlds, Rooms
<1> HIDE DEF u
<1>2. Frozen(w, r, b) = [u EXCEPT !.door[b] = r.door]
  BY DEF Frozen, u
<1> QED BY <1>1, <1>2 DEF Worlds, Rooms

LEMMA FannedOutIs ==
  \A R \in [Board -> Rooms], rs \in SUBSET Board, w \in Worlds, new \in SUBSET Board :
    (\A c \in rs : R[c].flags = w.flags)
    => /\ FannedOut(R, rs, w, new) \in [Board -> Rooms]
       /\ \A c \in rs : /\ FannedOut(R, rs, w, new)[c].flags = new
                        /\ FannedOut(R, rs, w, new)[c].door = R[c].door
                        /\ FannedOut(R, rs, w, new)[c].copy = R[c].copy
<1> SUFFICES ASSUME NEW R \in [Board -> Rooms], NEW rs \in SUBSET Board, NEW w \in Worlds,
                    NEW new \in SUBSET Board, \A c \in rs : R[c].flags = w.flags
             PROVE  /\ FannedOut(R, rs, w, new) \in [Board -> Rooms]
                    /\ \A c \in rs : /\ FannedOut(R, rs, w, new)[c].flags = new
                                     /\ FannedOut(R, rs, w, new)[c].door = R[c].door
                                     /\ FannedOut(R, rs, w, new)[c].copy = R[c].copy
  OBVIOUS
<1>1. \A c \in Board : [R[c] EXCEPT !.flags = new] \in Rooms
  BY DEF Rooms
<1> QED BY <1>1 DEF FannedOut, Rooms

LEMMA SyncedIs ==
  \A R \in [Board -> Rooms], rs \in SUBSET Board, w \in Worlds, b \in Board :
    /\ Synced(R, rs, w, b) \in [Board -> Rooms]
    /\ \A c \in rs : /\ Synced(R, rs, w, b)[c].flags = w.flags
                     /\ Synced(R, rs, w, b)[c].door = R[c].door
                     /\ Synced(R, rs, w, b)[c].copy[b] = w.door[b]
                     /\ \A d \in Board \ {b} : Synced(R, rs, w, b)[c].copy[d] = R[c].copy[d]
<1> SUFFICES ASSUME NEW R \in [Board -> Rooms], NEW rs \in SUBSET Board, NEW w \in Worlds, NEW b \in Board
             PROVE  /\ Synced(R, rs, w, b) \in [Board -> Rooms]
                    /\ \A c \in rs : /\ Synced(R, rs, w, b)[c].flags = w.flags
                                     /\ Synced(R, rs, w, b)[c].door = R[c].door
                                     /\ Synced(R, rs, w, b)[c].copy[b] = w.door[b]
                                     /\ \A d \in Board \ {b} : Synced(R, rs, w, b)[c].copy[d] = R[c].copy[d]
  OBVIOUS
<1>1. ASSUME NEW c \in Board
      PROVE  /\ [R[c] EXCEPT !.copy[b] = w.door[b], !.flags = w.flags] \in Rooms
             /\ [R[c] EXCEPT !.copy[b] = w.door[b], !.flags = w.flags].flags = w.flags
             /\ [R[c] EXCEPT !.copy[b] = w.door[b], !.flags = w.flags].door = R[c].door
             /\ [R[c] EXCEPT !.copy[b] = w.door[b], !.flags = w.flags].copy[b] = w.door[b]
             /\ \A d \in Board \ {b} :
                  [R[c] EXCEPT !.copy[b] = w.door[b], !.flags = w.flags].copy[d] = R[c].copy[d]
  <2>1. R[c] \in Rooms
    OBVIOUS
  <2> QED BY <2>1 DEF Rooms, Worlds
<1> QED BY <1>1, PristineTyped DEF Synced

(* A player goes to a board, or away.                                      *)
LEMMA MoveKeepsPieces ==
  ASSUME LiveInv, NEW p \in Player, NEW b \in Board \cup {Nowhere}, MoveTo(p, b),
         b # where[p], b # Nowhere => hosted,
         UNCHANGED <<hosted, lost>>
  PROVE  /\ world' \in Worlds /\ rooms' \in SUBSET Board /\ room' \in [Board -> Rooms]
         /\ where' \in [Player -> Board \cup {Nowhere}]
         /\ RoomsInv' /\ PiecesAgree' /\ PiecesMatch'
<1> DEFINE old   == where[p]
           made  == IF b = Nowhere \/ b \in rooms THEN room ELSE [room EXCEPT ![b] = Opened(world, b)]
           rs    == IF b = Nowhere THEN rooms ELSE rooms \cup {b}
           empty == old # Nowhere /\ old \in rooms /\ On(old) = {p}
           w     == IF empty THEN Frozen(world, made[old], old) ELSE world
           out   == FannedOut(made, rs, world, made[old].flags)
<1>0. /\ Nowhere \notin Board /\ old \in Board \cup {Nowhere}
      /\ world \in Worlds /\ rooms \in SUBSET Board /\ room \in [Board -> Rooms]
  BY ScopeAssumption DEF LiveInv, TypeOK, Rooms, Board
<1>1. /\ where' = [where EXCEPT ![p] = b] /\ world' = w
      /\ rooms' = IF empty THEN rs \ {old} ELSE rs
      /\ room'  = IF empty THEN Synced(out, rs \ {old}, w, old) ELSE made
  BY DEF MoveTo
<1>2. /\ made \in [Board -> Rooms] /\ rs \in SUBSET Board
      /\ \A c \in rs : made[c].flags = world.flags /\ \A d \in Board : made[c].copy[d] = world.door[d]
      /\ \A c \in rooms : made[c] = room[c]
      /\ \A c \in rs \ rooms : made[c].door = world.door[c]
  BY <1>0, OpenedIs DEF LiveInv, PiecesAgree
<1>3. where' \in [Player -> Board \cup {Nowhere}]
  BY <1>1 DEF LiveInv, TypeOK
<1>4. RoomsInv'
  <2>1. PlayersHaveRooms'
    BY <1>0, <1>1, <1>3 DEF LiveInv, RoomsInv, PlayersHaveRooms, Playing, On, TypeOK
  <2>2. \A c \in rooms' : On(c)' # {}
    BY <1>0, <1>1, <1>3 DEF LiveInv, RoomsInv, On, TypeOK
  <2>3. ~hosted' => rooms' = {}
    BY <1>0, <1>1 DEF LiveInv, RoomsInv
  <2> QED BY <2>1, <2>2, <2>3 DEF RoomsInv
<1> HIDE DEF made, rs, old
<1>5. CASE ~empty
  <2>1. world' = world /\ rooms' = rs /\ room' = made
    BY <1>1, <1>5
  <2> QED BY <1>0, <1>2, <1>3, <1>4, <2>1 DEF LiveInv, PiecesAgree, PiecesMatch, DoorNow, rs
<1>6. CASE empty
  <2>0. old \in rooms /\ old \in Board /\ old \in rs
    BY <1>0, <1>6 DEF rs
  <2>1. /\ w \in Worlds /\ w.flags = world.flags /\ w.door[old] = room[old].door
        /\ \A c \in Board \ {old} : w.door[c] = world.door[c]
    <3> DEFINE r == made[old]
    <3>1. w = Frozen(world, r, old)
      BY <1>6
    <3>2. r \in Rooms /\ r.flags = world.flags /\ r.door = room[old].door
      BY <1>2, <2>0
    <3> HIDE DEF r, w
    <3>3. /\ Frozen(world, r, old) \in Worlds /\ Frozen(world, r, old).flags = r.flags
          /\ Frozen(world, r, old).door[old] = r.door
          /\ \A c \in Board \ {old} : Frozen(world, r, old).door[c] = world.door[c]
      BY <1>0, <2>0, <3>2, FrozenIs, Zenon
    <3> QED BY <3>1, <3>2, <3>3
  <2>2. /\ out \in [Board -> Rooms]
        /\ \A c \in rs : /\ out[c].flags = world.flags /\ out[c].door = made[c].door
                         /\ out[c].copy = made[c].copy
    <3>1. made[old].flags \in SUBSET Board /\ made[old].flags = world.flags
      BY <1>0, <1>2, <2>0 DEF Worlds
    <3> QED BY <1>0, <1>2, <3>1, FannedOutIs
  <2> DEFINE rest  == rs \ {old}
             final == Synced(out, rest, w, old)
  <2>3. rest \in SUBSET Board /\ w \in Worlds /\ old \in Board /\ out \in [Board -> Rooms]
    BY <1>2, <2>0, <2>1, <2>2
  <2>5. world' = w /\ rooms' = rest /\ room' = final
    BY <1>1, <1>6
  <2>8. rest \subseteq rs /\ old \notin rest
    OBVIOUS
  <2>9. \A c \in Board : c \in rest <=> c \in rs /\ c # old
    OBVIOUS
  <2> HIDE DEF w, out, rest
  <2>4. /\ final \in [Board -> Rooms]
        /\ \A c \in rest : /\ final[c].flags = w.flags /\ final[c].door = out[c].door
                           /\ final[c].copy[old] = w.door[old]
                           /\ \A d \in Board \ {old} : final[c].copy[d] = out[c].copy[d]
    <3>1. final \in [Board -> Rooms]
      BY <2>3, SyncedIs DEF final
    <3>2. ASSUME NEW c \in rest
          PROVE  /\ final[c].flags = w.flags /\ final[c].door = out[c].door
                 /\ final[c].copy[old] = w.door[old]
      BY <2>3, SyncedIs DEF final
    <3>3. ASSUME NEW c \in rest, NEW d \in Board \ {old}
          PROVE  final[c].copy[d] = out[c].copy[d]
      BY <2>3, SyncedIs DEF final
    <3> QED BY <3>1, <3>2, <3>3, Zenon
  <2> HIDE DEF final
  <2>6. PiecesAgree'
    <3>1. \A c \in rest : final[c].flags = w.flags /\ \A d \in Board : final[c].copy[d] = w.door[d]
      BY <1>2, <2>1, <2>2, <2>4, <2>8
    <3> QED BY <2>5, <3>1 DEF PiecesAgree
  <2>7. PiecesMatch'
    <3> SUFFICES ASSUME NEW c \in Board \ lost
                 PROVE  (IF c \in rest THEN final[c].door ELSE w.door[c]) <=> c \in w.flags
      BY <2>5 DEF PiecesMatch, DoorNow
    <3>1. (IF c \in rooms THEN room[c].door ELSE world.door[c]) <=> c \in world.flags
      BY DEF LiveInv, PiecesMatch, DoorNow
    <3>2. CASE c = old
      BY <2>0, <2>1, <2>8, <3>1, <3>2
    <3>3. CASE c \in rest
      BY <1>2, <2>1, <2>2, <2>4, <2>8, <3>1, <3>3 DEF rs
    <3>4. CASE c \notin rs
      BY <2>0, <2>1, <2>8, <3>1, <3>4 DEF rs
    <3> QED BY <2>9, <3>2, <3>3, <3>4
  <2> QED BY <1>3, <1>4, <2>1, <2>3, <2>4, <2>5, <2>6, <2>7
<1> QED BY <1>5, <1>6

LEMMA MoveKeepsLive ==
  ASSUME LiveInv, NEW p \in Player, NEW b \in Board \cup {Nowhere}, MoveTo(p, b),
         b # where[p], b # Nowhere => hosted, online' \in SUBSET Player,
         UNCHANGED <<hosted, step, job, file, lost>>
  PROVE  LiveInv'
<1>1. /\ world' \in Worlds /\ rooms' \in SUBSET Board /\ room' \in [Board -> Rooms]
      /\ where' \in [Player -> Board \cup {Nowhere}]
      /\ RoomsInv' /\ PiecesAgree' /\ PiecesMatch'
  BY MoveKeepsPieces
<1>2. TypeOK'
  BY <1>1 DEF LiveInv, TypeOK, Rooms
<1> QED BY <1>1, <1>2 DEF LiveInv

(* What an autosave takes while the pieces agree is the world of now.      *)
LEMMA SnapshotMatches == LiveInv => Snapshot \in Worlds /\ Matching(Snapshot)
<1> SUFFICES ASSUME LiveInv PROVE Snapshot \in Worlds /\ Matching(Snapshot)
  OBVIOUS
<1>1. UNION {room[b].flags : b \in rooms} \subseteq world.flags
  BY DEF LiveInv, PiecesAgree
<1>2. Snapshot.flags = world.flags /\ \A b \in Board : Snapshot.door[b] = DoorNow(b)
  BY <1>1 DEF Snapshot, DoorNow
<1>3. Matching(Snapshot)
  BY <1>2 DEF LiveInv, PiecesMatch, Matching
<1>4. Snapshot \in Worlds
  BY <1>1 DEF Snapshot, LiveInv, TypeOK, Worlds
<1> QED BY <1>3, <1>4

LEMMA ScopeInit == Init => ScopeInv
<1> SUFFICES ASSUME Init PROVE ScopeInv
  OBVIOUS
<1>1. 0 \in 0 .. Settle
  BY ScopeAssumption DEF Settle
<1>2. TypeOK
  BY <1>1, PristineTyped DEF Init, TypeOK, Rooms
<1>3. RoomsInv
  BY DEF Init, RoomsInv, PlayersHaveRooms, Playing
<1>4. PiecesAgree /\ PiecesMatch /\ SavedMatch
  BY DEF Init, PiecesAgree, PiecesMatch, SavedMatch, DoorNow, Pristine
<1> QED BY <1>2, <1>3, <1>4 DEF ScopeInv, LiveInv

(* What leaves the world, its rooms and their players as they are.         *)
LEMMA AsideKeepsLive ==
  ASSUME LiveInv, UNCHANGED <<hosted, where, world, rooms, room, lost>>,
         online' \in SUBSET Player, step' \in 0 .. Settle,
         job' \in Worlds \cup {NoWorld}, file' \in Worlds \cup {NoWorld}
  PROVE  LiveInv'
<1>1. TypeOK'
  BY DEF LiveInv, TypeOK
<1>2. RoomsInv'
  BY DEF LiveInv, RoomsInv, PlayersHaveRooms, Playing, On
<1>3. PiecesAgree' /\ PiecesMatch'
  BY DEF LiveInv, PiecesAgree, PiecesMatch, DoorNow
<1> QED BY <1>1, <1>2, <1>3 DEF LiveInv

(* A room's turn: an object opens or shuts its board's door, or nothing    *)
(* but the flags it begins the turn with.                                  *)
LEMMA StepRoomKeepsLive ==
  ASSUME LiveInv, NEW b \in Board, StepRoom(b)
  PROVE  LiveInv'
<1> PICK open \in BOOLEAN :
      LET new == IF open THEN world.flags \cup {b} ELSE world.flags \ {b}
          out == FannedOut(room, rooms, world, new)
      IN /\ step = b + 1 /\ b \in rooms /\ Next1
         /\ room' = [out EXCEPT ![b].door = open, ![b].flags = new]
         /\ world' = Published(world, new)
         /\ UNCHANGED <<hosted, where, online, rooms, job, file, lost>>
  BY DEF StepRoom
<1> DEFINE new == IF open THEN world.flags \cup {b} ELSE world.flags \ {b}
           out == FannedOut(room, rooms, world, new)
<1>1. /\ step' = step + 1 /\ step = b + 1 /\ b \in rooms
      /\ room' = [out EXCEPT ![b].door = open, ![b].flags = new]
      /\ world' = Published(world, new)
      /\ UNCHANGED <<hosted, where, online, rooms, job, file, lost>>
  BY DEF Next1
<1>2. /\ world \in Worlds /\ rooms \in SUBSET Board /\ room \in [Board -> Rooms]
      /\ new \in SUBSET Board
      /\ b \in new <=> open
      /\ \A c \in Board \ {b} : c \in new <=> c \in world.flags
  BY DEF LiveInv, TypeOK, Worlds, Rooms
<1>3. \A c \in rooms : room[c].flags = world.flags
  BY DEF LiveInv, PiecesAgree
<1> HIDE DEF new
<1>4. /\ out \in [Board -> Rooms]
      /\ \A c \in rooms : /\ out[c].flags = new /\ out[c].door = room[c].door
                          /\ out[c].copy = room[c].copy
  <2>1. out \in [Board -> Rooms]
    BY <1>2, <1>3, FannedOutIs DEF out
  <2>2. ASSUME NEW c \in rooms
        PROVE  out[c].flags = new /\ out[c].door = room[c].door /\ out[c].copy = room[c].copy
    BY <1>2, <1>3, FannedOutIs DEF out
  <2> QED BY <2>1, <2>2
<1> HIDE DEF out
<1>5. world' \in Worlds /\ world'.flags = new /\ world'.door = world.door
  BY <1>1, <1>2 DEF Published, Worlds
<1>6. /\ room' \in [Board -> Rooms]
      /\ \A c \in rooms : room'[c].flags = new /\ room'[c].copy = room[c].copy
      /\ room'[b].door = open /\ \A c \in rooms \ {b} : room'[c].door = room[c].door
  <2>1. ASSUME NEW r \in Rooms
        PROVE  /\ [r EXCEPT !.door = open, !.flags = new] \in Rooms
               /\ [r EXCEPT !.door = open, !.flags = new].door = open
               /\ [r EXCEPT !.door = open, !.flags = new].flags = new
               /\ [r EXCEPT !.door = open, !.flags = new].copy = r.copy
    BY <1>2 DEF Rooms
  <2>2. out[b] \in Rooms
    BY <1>4
  <2>3. /\ room'[b] = [out[b] EXCEPT !.door = open, !.flags = new]
        /\ \A c \in Board \ {b} : room'[c] = out[c]
    BY <1>1, <1>4
  <2>4. /\ room'[b] \in Rooms /\ room'[b].door = open /\ room'[b].flags = new
        /\ room'[b].copy = out[b].copy
    BY <2>1, <2>2, <2>3
  <2>5. room' \in [Board -> Rooms]
    BY <1>1, <1>4, <2>3, <2>4
  <2>6. ASSUME NEW c \in rooms
        PROVE  room'[c].flags = new /\ room'[c].copy = room[c].copy
    <3>1. CASE c = b
      BY <1>4, <2>4, <3>1
    <3>2. CASE c # b
      BY <1>2, <1>4, <2>3, <3>2, ZenonT(30)
    <3> QED BY <3>1, <3>2
  <2>7. \A c \in rooms \ {b} : room'[c].door = room[c].door
    BY <1>1, <1>2, <1>4, <2>3
  <2> QED BY <2>4, <2>5, <2>6, <2>7
<1>7. TypeOK'
  <2>1. step' \in 0 .. Settle
    BY <1>1, ScopeAssumption DEF Board, Settle
  <2> QED BY <1>1, <1>5, <1>6, <2>1 DEF LiveInv, TypeOK, Rooms
<1>8. RoomsInv'
  BY <1>1 DEF LiveInv, RoomsInv, PlayersHaveRooms, Playing, On
<1>9. PiecesAgree'
  <2>1. \A c \in rooms : \A d \in Board : room[c].copy[d] = world.door[d]
    BY DEF LiveInv, PiecesAgree
  <2>2. ASSUME NEW c \in rooms
        PROVE  room'[c].flags = world'.flags /\ \A d \in Board : room'[c].copy[d] = world'.door[d]
    <3>1. room'[c].flags = new /\ room'[c].copy = room[c].copy
      BY <1>6
    <3> QED BY <1>5, <2>1, <3>1
  <2> QED BY <1>1, <2>2 DEF PiecesAgree
<1>10. PiecesMatch'
  <2> SUFFICES ASSUME NEW c \in Board \ lost
               PROVE  (IF c \in rooms THEN room'[c].door ELSE world'.door[c]) <=> c \in world'.flags
    BY <1>1 DEF PiecesMatch, DoorNow
  <2>1. (IF c \in rooms THEN room[c].door ELSE world.door[c]) <=> c \in world.flags
    BY DEF LiveInv, PiecesMatch, DoorNow
  <2>2. CASE c = b
    BY <1>1, <1>2, <1>5, <1>6, <2>2
  <2>3. CASE c # b
    BY <1>2, <1>5, <1>6, <2>1, <2>3
  <2> QED BY <2>2, <2>3
<1> QED BY <1>7, <1>8, <1>9, <1>10 DEF LiveInv

LEMMA IdleRoomKeepsLive ==
  ASSUME LiveInv, NEW b \in Board, IdleRoom(b)
  PROVE  LiveInv'
<1>1. /\ room \in [Board -> Rooms] /\ world.flags \in SUBSET Board
      /\ b \in rooms /\ room[b].flags = world.flags
      /\ room' = [room EXCEPT ![b].flags = world.flags]
  BY DEF IdleRoom, LiveInv, TypeOK, PiecesAgree, Rooms, Worlds
<1>2. room' = room
  BY <1>1 DEF Rooms
<1>3. step' \in 0 .. Settle
  BY ScopeAssumption DEF IdleRoom, Next1, Board, Settle
<1> QED BY <1>2, <1>3, AsideKeepsLive DEF IdleRoom, LiveInv, TypeOK

(* A panic takes the room and everybody in it; the board is no longer one  *)
(* that matches its flags.                                                 *)
LEMMA DropKeepsLive ==
  ASSUME LiveInv, NEW b \in Board, DropPanickedRoom(b)
  PROVE  LiveInv'
<1>1. /\ step = b + 1 /\ b \in rooms /\ step' = step + 1
      /\ rooms' = rooms \ {b} /\ room' = [room EXCEPT ![b] = NoRoom]
      /\ where' = [p \in Player |-> IF where[p] = b THEN Nowhere ELSE where[p]]
      /\ lost' = lost \cup {b}
      /\ UNCHANGED <<hosted, online, world, job, file>>
  BY DEF DropPanickedRoom, Next1
<1>2. /\ room \in [Board -> Rooms] /\ where \in [Player -> Board \cup {Nowhere}]
      /\ Nowhere \notin Board
  BY ScopeAssumption DEF LiveInv, TypeOK, Rooms, Board
<1>3. /\ room' \in [Board -> Rooms] /\ \A c \in rooms' : room'[c] = room[c]
  BY <1>1, <1>2, PristineTyped
<1>4. step' \in 0 .. Settle
  BY <1>1, ScopeAssumption DEF Board, Settle
<1>5. TypeOK'
  BY <1>1, <1>3, <1>4 DEF LiveInv, TypeOK, Rooms
<1>6. RoomsInv'
  BY <1>1, <1>2 DEF LiveInv, RoomsInv, PlayersHaveRooms, Playing, On
<1>7. PiecesAgree'
  BY <1>1, <1>3 DEF LiveInv, PiecesAgree
<1>8. PiecesMatch'
  BY <1>1, <1>3 DEF LiveInv, PiecesMatch, DoorNow
<1> QED BY <1>5, <1>6, <1>7, <1>8 DEF LiveInv

(* A world that is loaded or restored, when there are no rooms.            *)
LEMMA LoadedIsLive ==
  ASSUME ScopeInv, NEW w \in Worlds, w = Pristine \/ Matching(w), world' = w, rooms' = {},
         room' \in [Board -> Rooms], where' \in [Player -> {Nowhere}],
         hosted' \in BOOLEAN, online' \in SUBSET Player, step' \in 0 .. Settle,
         job' \in Worlds \cup {NoWorld}, file' \in Worlds \cup {NoWorld}, lost' = lost
  PROVE  LiveInv'
<1>1. TypeOK'
  BY DEF ScopeInv, LiveInv, TypeOK, Rooms
<1>2. RoomsInv' /\ PiecesAgree'
  BY DEF RoomsInv, PlayersHaveRooms, Playing, PiecesAgree
<1>3. PiecesMatch'
  BY DEF PiecesMatch, DoorNow, Pristine, Matching
<1> QED BY <1>1, <1>2, <1>3 DEF LiveInv

LEMMA StepKeepsLive == ScopeInv /\ [Next]_vars => LiveInv'
<1> SUFFICES ASSUME ScopeInv, [Next]_vars PROVE LiveInv'
  OBVIOUS
<1>0. /\ LiveInv /\ TypeOK /\ RoomsInv /\ Nowhere \notin Board
      /\ online \in SUBSET Player /\ where \in [Player -> Board \cup {Nowhere}]
      /\ 0 \in 0 .. Settle /\ 1 \in 0 .. Settle /\ step \in 0 .. Settle
      /\ job \in Worlds \cup {NoWorld} /\ file \in Worlds \cup {NoWorld}
      /\ hosted \in BOOLEAN
  BY ScopeAssumption DEF ScopeInv, LiveInv, TypeOK, Board, Settle
<1>1. ASSUME NEW p \in Player, Join(p) PROVE LiveInv'
  <2> PICK b \in Board : MoveTo(p, b)
    BY <1>1 DEF Join
  <2>1. b # where[p]
    BY <1>0, <1>1 DEF Join, Playing
  <2> QED BY <1>0, <1>1, <2>1, MoveKeepsLive DEF Join
<1>2. ASSUME NEW p \in Player, LeavePlayer(p) PROVE LiveInv'
  <2>1. Nowhere # where[p]
    BY <1>2 DEF LeavePlayer, Playing
  <2> QED BY <1>0, <1>2, <2>1, MoveKeepsLive DEF LeavePlayer
<1>3. ASSUME NEW p \in Player, Transfer(p) PROVE LiveInv'
  <2> PICK b \in (Board \ {where[p]}) \cup {Nowhere} : MoveTo(p, b)
    BY <1>3 DEF Transfer
  <2>1. where[p] # Nowhere /\ where[p] \in rooms
    BY <1>0, <1>3 DEF Transfer, Playing, RoomsInv, PlayersHaveRooms
  <2>2. hosted /\ b # where[p] /\ b \in Board \cup {Nowhere}
    BY <1>0, <2>1 DEF RoomsInv
  <2> QED BY <1>0, <1>3, <2>2, MoveKeepsLive DEF Transfer
<1>4. ASSUME NEW p \in Player, Detach(p) \/ Resume(p) PROVE LiveInv'
  BY <1>0, <1>4, AsideKeepsLive DEF Detach, Resume
<1>5. ASSUME NEW b \in Board, SkipRoom(b) PROVE LiveInv'
  <2>1. step' \in 0 .. Settle
    BY <1>5, ScopeAssumption DEF SkipRoom, Next1, Board, Settle
  <2> QED BY <1>0, <1>5, <2>1, AsideKeepsLive DEF SkipRoom
<1>6. ASSUME NEW b \in Board, StepRoom(b) \/ IdleRoom(b) \/ DropPanickedRoom(b) PROVE LiveInv'
  BY <1>0, <1>6, StepRoomKeepsLive, IdleRoomKeepsLive, DropKeepsLive
<1>7. CASE BeginStep \/ EndStep
  BY <1>0, <1>7, AsideKeepsLive DEF BeginStep, EndStep
<1>8. CASE CollectAutosave
  BY <1>0, <1>8, SnapshotMatches, AsideKeepsLive DEF CollectAutosave
<1>9. CASE WriteAutosave \/ WriteFails
  BY <1>0, <1>9, AsideKeepsLive DEF WriteAutosave, WriteFails
<1>10. CASE GetOrCreateInstance
  <2>1. rooms = {} /\ Playing = {}
    BY <1>0, <1>10 DEF GetOrCreateInstance, RoomsInv, PlayersHaveRooms
  <2>2. where \in [Player -> {Nowhere}]
    BY <1>0, <2>1 DEF Playing
  <2> QED BY <1>0, <1>10, <2>1, <2>2, PristineTyped, LoadedIsLive
          DEF GetOrCreateInstance, TypeOK, Rooms
<1>11. CASE Evict
  <2>1. rooms = {} /\ Playing = {}
    BY <1>0, <1>11 DEF Evict, RoomsInv, Playing, On, TypeOK
  <2>2. where \in [Player -> {Nowhere}]
    BY <1>0, <2>1 DEF Playing
  <2> QED BY <1>0, <1>11, <2>1, <2>2, PristineTyped, LoadedIsLive DEF Evict, TypeOK, Rooms
<1>12. CASE CrashAndBoot
  <2> DEFINE w == IF file = NoWorld THEN Pristine ELSE file
  <2>1. w \in Worlds /\ (w = Pristine \/ Matching(w))
    BY <1>0, PristineTyped DEF ScopeInv, SavedMatch
  <2>2. /\ world' = w /\ rooms' = {} /\ room' \in [Board -> Rooms]
        /\ where' \in [Player -> {Nowhere}]
        /\ hosted' \in BOOLEAN /\ online' = {} /\ step' = 0 /\ job' = NoWorld
        /\ file' = file /\ lost' = lost
    BY <1>12, PristineTyped DEF CrashAndBoot
  <2> HIDE DEF w
  <2> QED BY <1>0, <2>1, <2>2, LoadedIsLive
<1>13. CASE UNCHANGED vars
  BY <1>0, <1>13, AsideKeepsLive DEF vars
<1> QED BY <1>1, <1>2, <1>3, <1>4, <1>5, <1>6, <1>7, <1>8, <1>9, <1>10, <1>11, <1>12, <1>13
        DEF Next, GoOn, Tick, End

(* What is being saved and what is saved change only to what was taken.    *)
LEMMA StepKeepsSaved == ScopeInv /\ [Next]_vars => SavedMatch'
<1> SUFFICES ASSUME ScopeInv, [Next]_vars PROVE SavedMatch'
  OBVIOUS
<1>1. lost \subseteq lost' \/ lost' = lost
  BY DEF Next, GoOn, Tick, End, Join, LeavePlayer, Detach, Resume, Transfer, BeginStep, EndStep,
         SkipRoom, StepRoom, IdleRoom, DropPanickedRoom, GetOrCreateInstance, CollectAutosave,
         WriteAutosave, WriteFails, Evict, CrashAndBoot, vars
<1>2. \A w : Matching(w) => Matching(w)'
  BY <1>1 DEF Matching
<1>3. \/ job' = job /\ file' = file
      \/ job' = Snapshot /\ file' = file
      \/ job' = NoWorld /\ file' \in {job, file} /\ (file' = job => job # NoWorld)
      \/ job' = NoWorld /\ file' = file
  BY DEF Next, GoOn, Tick, End, Join, LeavePlayer, Detach, Resume, Transfer, BeginStep, EndStep,
         SkipRoom, StepRoom, IdleRoom, DropPanickedRoom, GetOrCreateInstance, CollectAutosave,
         WriteAutosave, WriteFails, Evict, CrashAndBoot, vars
<1> QED BY <1>2, <1>3, SnapshotMatches DEF ScopeInv, SavedMatch

(* Between ticks and at any other moment, whatever order rooms step, fail, *)
(* freeze and are saved in, and however often the server is restarted:     *)
(* nobody plays on a board no room runs, the rooms agree with the world,   *)
(* and a board is never separated from the flags it set, in the world, in  *)
(* what is being autosaved or in the file a restart begins with.           *)
THEOREM WorldKeptAlways == Spec => []WorldKept
<1>1. Init => ScopeInv
  BY ScopeInit
<1>2. ScopeInv /\ [Next]_vars => ScopeInv'
  BY StepKeepsLive, StepKeepsSaved DEF ScopeInv
<1>3. ScopeInv => WorldKept
  <2> SUFFICES ASSUME ScopeInv PROVE WorldKept
    OBVIOUS
  <2>1. PlayersHaveRooms /\ Matching(Snapshot)
    BY SnapshotMatches DEF ScopeInv, LiveInv, RoomsInv
  <2>2. RoomsAgree
    BY DEF ScopeInv, LiveInv, PiecesAgree, RoomsAgree
  <2>3. WorldsMatch
    BY <2>1 DEF ScopeInv, SavedMatch, WorldsMatch
  <2> QED BY <2>1, <2>2, <2>3 DEF WorldKept
<1> QED BY <1>1, <1>2, <1>3, PTL DEF Spec

-----------------------------------------------------------------------------
(* Dreams and the names they hold.                                         *)

AtWork == {"paint", "gate", "persist", "claim", "host"}
Stages == {"rest", "admit", "again", "plan"} \cup AtWork

DreamNames == Dreams!Name \cup {NoName}

JobRecords ==
  [at : Stages, status : {"none", "running", "failed", "complete"},
   account : Account \cup {Guest}, typed : DreamNames, name : DreamNames,
   holds : BOOLEAN, stubs : BOOLEAN, resume : BOOLEAN, landed : BOOLEAN]

Jobs == {r \in JobRecords : r.at = "rest" <=> r.status # "running"}

(* A dream holds a name only from the moment it is minted, or admitted     *)
(* again, until it is hosted or fails: then it can let go of no name that  *)
(* is somebody else's.                                                     *)
DreamsInv ==
  /\ dream \in [Job -> Jobs]
  /\ held = {dream[j].name : j \in {i \in Job : dream[i].holds}}
  /\ \A i, j \in Job : i # j /\ dream[i].holds /\ dream[j].holds => dream[i].name # dream[j].name
  /\ \A j \in Job : dream[j].holds => dream[j].at \in AtWork

(* A set of numbers has a least one.                                       *)
LEMMA LeastOf ==
  ASSUME NEW S \in SUBSET Nat, S # {}
  PROVE  \E k \in S : \A m \in S : k <= m
<1> DEFINE T == {0 .. k : k \in S}
           R == StrictSubsetOrdering(Nat)
<1>1. \A k \in S : 0 .. k \in FiniteSubsetsOf(Nat)
  BY FS_Interval DEF FiniteSubsetsOf
<1>2. T \subseteq FiniteSubsetsOf(Nat) /\ T # {}
  BY <1>1
<1>3. IsWellFoundedOn(R, FiniteSubsetsOf(Nat))
  BY FS_StrictSubsetOrderingWellFounded
<1> HIDE DEF R
<1>4. PICK x \in T : \A y \in T : ~(<<y, x>> \in R)
  BY <1>2, <1>3, WFMin
<1>5. PICK k \in S : x = 0 .. k
  BY <1>4
<1>6. ASSUME NEW m \in S, m < k PROVE FALSE
  <2>1. 0 .. m \subseteq 0 .. k /\ k \in 0 .. k /\ k \notin 0 .. m
    BY <1>6
  <2>2. <<0 .. m, 0 .. k>> \in R
    BY <1>6, <2>1 DEF R, StrictSubsetOrdering
  <2> QED BY <1>4, <1>5, <2>2
<1> QED BY <1>6

(* A dream changes, and neither the name it holds, if any, nor who holds   *)
(* what.                                                                   *)
LEMMA DreamGoesOn ==
  ASSUME DreamsInv, NEW j \in Job, NEW r \in Jobs, dream' = [dream EXCEPT ![j] = r], held' = held,
         r.holds <=> dream[j].holds, r.holds => r.name = dream[j].name /\ r.at \in AtWork
  PROVE  DreamsInv'
<1>1. /\ dream \in [Job -> Jobs]
      /\ dream' \in [Job -> Jobs] /\ \A i \in Job : dream'[i] = IF i = j THEN r ELSE dream[i]
  BY DEF DreamsInv
<1>2. \A i \in Job : /\ dream'[i].holds <=> dream[i].holds
                     /\ dream'[i].holds => dream'[i].name = dream[i].name
  BY <1>1
<1>3. held' = {dream'[i].name : i \in {k \in Job : dream'[k].holds}}
  BY <1>2 DEF DreamsInv
<1> QED BY <1>1, <1>2, <1>3 DEF DreamsInv

(* A dream is without a name from now on, and what it held is free.        *)
LEMMA DreamLetsGo ==
  ASSUME DreamsInv, NEW j \in Job, NEW r \in Jobs, dream' = [dream EXCEPT ![j] = r], ~r.holds,
         held' = IF dream[j].holds THEN held \ {dream[j].name} ELSE held
  PROVE  DreamsInv'
<1>1. /\ dream \in [Job -> Jobs]
      /\ dream' \in [Job -> Jobs] /\ \A i \in Job : dream'[i] = IF i = j THEN r ELSE dream[i]
  BY DEF DreamsInv
<1>2. held' = {dream'[i].name : i \in {k \in Job : dream'[k].holds}}
  BY <1>1 DEF DreamsInv
<1> QED BY <1>1, <1>2 DEF DreamsInv

(* A dream that holds nothing comes to hold a name nobody holds.           *)
LEMMA DreamTakes ==
  ASSUME DreamsInv, NEW j \in Job, NEW r \in Jobs, dream' = [dream EXCEPT ![j] = r], r.holds,
         ~dream[j].holds, r.at \in AtWork, r.name \notin held, held' = held \cup {r.name}
  PROVE  DreamsInv'
<1>1. /\ dream \in [Job -> Jobs]
      /\ dream' \in [Job -> Jobs] /\ \A i \in Job : dream'[i] = IF i = j THEN r ELSE dream[i]
  BY DEF DreamsInv
<1>2. held' = {dream'[i].name : i \in {k \in Job : dream'[k].holds}}
  BY <1>1 DEF DreamsInv
<1> QED BY <1>1, <1>2 DEF DreamsInv

LEMMA NoJobIs == Dreams!NoJob \in Jobs /\ ~Dreams!NoJob.holds
BY DEF Dreams!NoJob, Jobs, JobRecords, Stages, AtWork, DreamNames

(* A failed dream holds nothing any more.                                  *)
LEMMA FailingLetsGo ==
  ASSUME DreamsInv, NEW j \in Job, Dreams!Fails(j, dream[j])
  PROVE  DreamsInv'
<1> DEFINE r == [Dreams!NoJob EXCEPT !.status = "failed", !.account = dream[j].account,
                                     !.name = dream[j].name, !.landed = dream[j].landed]
<1>1. /\ dream[j].account \in Account \cup {Guest} /\ dream[j].name \in DreamNames
      /\ dream[j].landed \in BOOLEAN
  BY DEF DreamsInv, Jobs, JobRecords
<1>2. r \in Jobs /\ ~r.holds
  BY <1>1 DEF Dreams!NoJob, Jobs, JobRecords, Stages, AtWork, DreamNames
<1>3. /\ dream' = [dream EXCEPT ![j] = r]
      /\ held' = IF dream[j].holds THEN held \ {dream[j].name} ELSE held
  BY DEF Dreams!Fails, Dreams!Set, Dreams!ReleaseWorldName
<1> HIDE DEF r
<1> QED BY <1>2, <1>3, DreamLetsGo

(* The minted name is the first that is free, and there is one.            *)
LEMMA MintedIsFree ==
  ASSUME NEW free, free = {k \in DOMAIN Family : Dreams!WorldNameIsFree(Family[k])}, free # {},
         NEW k, k = CHOOSE i \in free : \A m \in free : i <= m
  PROVE  Family[k] \in DreamNames /\ Family[k] \notin held
<1>1. free \in SUBSET Nat
  BY FamilyAssumption
<1>2. \E i \in free : \A m \in free : i <= m
  BY <1>1, LeastOf
<1>3. k \in free
  BY <1>2
<1>4. k \in DOMAIN Family /\ Dreams!WorldNameIsFree(Family[k])
  BY <1>3
<1>5. Family[k] \in Dreams!Name
  BY <1>4 DEF Dreams!Name
<1> QED BY <1>4, <1>5 DEF Dreams!WorldNameIsFree, DreamNames

LEMMA DreamsInit == Dreams!Init => DreamsInv
<1> SUFFICES ASSUME Dreams!Init PROVE DreamsInv
  OBVIOUS
<1>1. dream = [j \in Job |-> Dreams!NoJob] /\ held = {}
  BY DEF Dreams!Init
<1>2. \A j \in Job : dream[j] \in Jobs /\ ~dream[j].holds
  BY <1>1, NoJobIs
<1> QED BY <1>1, <1>2 DEF DreamsInv

LEMMA DreamsStep == DreamsInv /\ [Dreams!Next]_dreamsVars => DreamsInv'
<1> SUFFICES ASSUME DreamsInv, [Dreams!Next]_dreamsVars PROVE DreamsInv'
  OBVIOUS
<1>0. \A j \in Job : dream[j] \in Jobs /\ (dream[j].holds => dream[j].at \in AtWork)
  BY DEF DreamsInv
<1>1. ASSUME NEW j \in Job, Dreams!Fail(j) PROVE DreamsInv'
  BY <1>1, FailingLetsGo DEF Dreams!Fail
<1>2. ASSUME NEW j \in Job, NEW a \in Account, NEW n \in DreamNames, Dreams!Request(j, a, n)
      PROVE  DreamsInv'
  <2> DEFINE r == [Dreams!NoJob EXCEPT !.at = "admit", !.status = "running", !.account = a,
                                       !.typed = n]
  <2>1. r \in Jobs /\ ~r.holds
    BY NoJobIs DEF Jobs, JobRecords, Stages
  <2>2. ~dream[j].holds /\ dream' = [dream EXCEPT ![j] = r] /\ held' = held
    BY <1>2, NoJobIs DEF Dreams!Request, Dreams!Set
  <2> HIDE DEF r
  <2> QED BY <2>1, <2>2, DreamGoesOn
<1>3. ASSUME NEW j \in Job, Dreams!Admit(j) PROVE DreamsInv'
  <2> DEFINE r == [dream[j] EXCEPT !.at = "plan"]
  <2>1. dream[j].at = "admit" /\ dream' = [dream EXCEPT ![j] = r] /\ held' = held
    BY <1>3 DEF Dreams!Admit, Dreams!Set
  <2>2. r \in Jobs /\ (r.holds <=> dream[j].holds) /\ ~dream[j].holds
    BY <1>0, <2>1 DEF Jobs, JobRecords, Stages, AtWork
  <2> HIDE DEF r
  <2> QED BY <2>1, <2>2, DreamGoesOn
<1>4. ASSUME NEW j \in Job, Dreams!ReAdmit(j) PROVE DreamsInv'
  <2> DEFINE r == [dream[j] EXCEPT !.at = "paint", !.holds = dream[j].name \notin held]
  <2>1. /\ dream[j].at = "again" /\ dream' = [dream EXCEPT ![j] = r]
        /\ held' = held \cup {dream[j].name}
    BY <1>4 DEF Dreams!ReAdmit, Dreams!Set
  <2>2. /\ r \in Jobs /\ r.at \in AtWork /\ r.name = dream[j].name
        /\ r.holds <=> dream[j].name \notin held
        /\ ~dream[j].holds
    BY <1>0, <2>1, ZenonT(30) DEF Jobs, JobRecords, Stages, AtWork
  <2> HIDE DEF r
  <2>3. CASE dream[j].name \in held
    BY <2>1, <2>2, <2>3, DreamGoesOn
  <2>4. CASE dream[j].name \notin held
    BY <2>1, <2>2, <2>4, DreamTakes
  <2> QED BY <2>3, <2>4
<1>5. ASSUME NEW j \in Job, Dreams!TakeTypedName(j) PROVE DreamsInv'
  <2> DEFINE n == dream[j].typed
             r == [dream[j] EXCEPT !.at = "paint", !.name = n, !.holds = FALSE]
  <2>1. CASE Dreams!Fail(j)
    BY <1>1, <2>1
  <2>2. CASE Dreams!Resolved(j, n, FALSE)
    <3>1. dream' = [dream EXCEPT ![j] = r] /\ held' = held
      BY <2>2 DEF Dreams!Resolved, Dreams!Set
    <3>2. r \in Jobs /\ ~r.holds /\ ~dream[j].holds
      BY <1>0, <1>5 DEF Dreams!TakeTypedName, Jobs, JobRecords, Stages, AtWork
    <3> HIDE DEF r
    <3> QED BY <3>1, <3>2, DreamGoesOn
  <2> QED BY <1>5, <2>1, <2>2 DEF Dreams!TakeTypedName
<1>6. ASSUME NEW j \in Job, Dreams!MintWorldName(j) PROVE DreamsInv'
  <2> DEFINE free == {k \in DOMAIN Family : Dreams!WorldNameIsFree(Family[k])}
             first == CHOOSE k \in free : \A m \in free : k <= m
             n == Family[first]
             r == [dream[j] EXCEPT !.at = "paint", !.name = n, !.holds = TRUE]
  <2>1. CASE Dreams!Fail(j)
    BY <1>1, <2>1
  <2>2. CASE free # {} /\ Dreams!Resolved(j, n, TRUE)
    <3>1. dream' = [dream EXCEPT ![j] = r] /\ held' = held \cup {n}
      BY <2>2 DEF Dreams!Resolved, Dreams!Set
    <3>2. n \in DreamNames /\ n \notin held
      BY <2>2, MintedIsFree
    <3> HIDE DEF n
    <3>3. r \in Jobs /\ r.holds /\ r.name = n /\ r.at \in AtWork /\ ~dream[j].holds
      BY <1>0, <1>6, <3>2 DEF Dreams!MintWorldName, Jobs, JobRecords, Stages, AtWork
    <3> HIDE DEF r
    <3> QED BY <3>1, <3>2, <3>3, DreamTakes
  <2> QED BY <1>6, <2>1, <2>2 DEF Dreams!MintWorldName
<1>7. ASSUME NEW j \in Job, Dreams!Paint(j) PROVE DreamsInv'
  <2> PICK s \in BOOLEAN : Dreams!Set(j, [dream[j] EXCEPT !.at = "gate", !.stubs = s])
    BY <1>7 DEF Dreams!Paint
  <2> DEFINE r == [dream[j] EXCEPT !.at = "gate", !.stubs = s]
  <2>1. dream[j].at = "paint" /\ dream' = [dream EXCEPT ![j] = r] /\ held' = held
    BY <1>7 DEF Dreams!Paint, Dreams!Set
  <2>2. r \in Jobs /\ (r.holds <=> dream[j].holds) /\ r.name = dream[j].name /\ r.at \in AtWork
    BY <1>0, <2>1 DEF Jobs, JobRecords, Stages, AtWork
  <2> HIDE DEF r
  <2> QED BY <2>1, <2>2, DreamGoesOn
<1>8. ASSUME NEW j \in Job, NEW a \in {"persist", "claim", "host"},
             dream[j].at # "rest", Dreams!Set(j, [dream[j] EXCEPT !.at = a]), held' = held
      PROVE  DreamsInv'
  <2> DEFINE r == [dream[j] EXCEPT !.at = a]
  <2>1. dream' = [dream EXCEPT ![j] = r]
    BY <1>8 DEF Dreams!Set
  <2>2. r \in Jobs /\ (r.holds <=> dream[j].holds) /\ r.name = dream[j].name /\ r.at \in AtWork
    BY <1>0, <1>8 DEF Jobs, JobRecords, Stages, AtWork
  <2> HIDE DEF r
  <2> QED BY <1>8, <2>1, <2>2, DreamGoesOn
<1>9. ASSUME NEW j \in Job, Dreams!LastGate(j) \/ Dreams!Persist(j) \/ Dreams!Claim(j)
      PROVE  DreamsInv'
  BY <1>1, <1>8, <1>9 DEF Dreams!LastGate, Dreams!Persist, Dreams!Claim
<1>10. ASSUME NEW j \in Job, Dreams!PersistFails(j) PROVE DreamsInv'
  BY <1>10, FailingLetsGo DEF Dreams!PersistFails
<1>11. ASSUME NEW j \in Job, Dreams!Host(j) PROVE DreamsInv'
  <2> DEFINE r == [Dreams!NoJob EXCEPT !.status = "complete", !.account = dream[j].account,
                     !.name = dream[j].name, !.resume = dream[j].stubs, !.landed = TRUE]
  <2>1. CASE Dreams!Fail(j)
    BY <1>1, <2>1
  <2>2. CASE /\ held' = Dreams!ReleaseWorldName(j)
             /\ Dreams!Set(j, r)
    <3>1. /\ dream' = [dream EXCEPT ![j] = r]
          /\ held' = IF dream[j].holds THEN held \ {dream[j].name} ELSE held
      BY <2>2 DEF Dreams!Set, Dreams!ReleaseWorldName
    <3>2. r \in Jobs /\ ~r.holds
      <4>1. /\ dream[j].account \in Account \cup {Guest} /\ dream[j].name \in DreamNames
            /\ dream[j].stubs \in BOOLEAN
        BY <1>0 DEF Jobs, JobRecords
      <4> QED BY <4>1 DEF Dreams!NoJob, Jobs, JobRecords, Stages, AtWork, DreamNames
    <3> HIDE DEF r
    <3> QED BY <3>1, <3>2, DreamLetsGo
  <2> QED BY <1>11, <2>1, <2>2 DEF Dreams!Host
<1>12. ASSUME NEW j \in Job, Dreams!Retry(j) PROVE DreamsInv'
  <2> DEFINE r == [dream[j] EXCEPT !.at = "again", !.status = "running", !.resume = FALSE]
  <2>1. dream' = [dream EXCEPT ![j] = r] /\ held' = held
    BY <1>12 DEF Dreams!Retry, Dreams!Set
  <2>2. dream[j].at = "rest"
    BY <1>0, <1>12 DEF Dreams!Retry, Jobs
  <2>3. r \in Jobs /\ (r.holds <=> dream[j].holds) /\ ~dream[j].holds
    BY <1>0, <2>2 DEF Jobs, JobRecords, Stages, AtWork
  <2> HIDE DEF r
  <2> QED BY <2>1, <2>3, DreamGoesOn
<1>13. ASSUME UNCHANGED <<dream, held>> PROVE DreamsInv'
  BY <1>13 DEF DreamsInv
<1> QED
  BY <1>1, <1>2, <1>3, <1>4, <1>5, <1>6, <1>7, <1>9, <1>10, <1>11, <1>12, <1>13
  DEF Dreams!Next, Dreams!Work, Dreams!Refuse, Dreams!PlanFails, Dreams!PaintingFails,
      Dreams!Enter, Dreams!Leave, dreamsVars, DreamNames

LEMMA DreamsHold == Dreams!Init /\ [][Dreams!Next]_(Dreams!vars) => []HeldByDreams
<1>1. DreamsInv => HeldByDreams
  BY DEF DreamsInv, HeldByDreams, Dreams!HeldByDreams, Dreams!Working, AtWork
<1>2. DreamsInv /\ [Dreams!Next]_(Dreams!vars) => DreamsInv'
  BY DreamsStep DEF Dreams!vars, dreamsVars
<1> QED BY <1>1, <1>2, DreamsInit, PTL

(* However dreams fail, end, wait for their slots and are tried again: the *)
(* names that are held are those of dreams at work, and no two dreams hold *)
(* the same one.                                                           *)
THEOREM HeldByDreamsAlways == Dreams!Spec => []HeldByDreams
BY DreamsHold, PTL DEF Dreams!Spec

(* Both hold of worlds and dreams together.                                *)
THEOREM WorldsSafe == WorldsSpec => [](WorldKept /\ HeldByDreams)
<1>1. WorldsInit => Init /\ Dreams!Init
  BY DEF WorldsInit
<1>2. [WorldsNext]_worldsVars => [Next]_vars /\ [Dreams!Next]_(Dreams!vars)
  BY DEF WorldsNext, worldsVars, PlayWorld, DreamWorld, InScope, InDreams, vars, dreamsVars,
         Dreams!vars
<1>3. WorldsSpec => Spec /\ Dreams!Init /\ [][Dreams!Next]_(Dreams!vars)
  BY <1>1, <1>2, PTL DEF WorldsSpec, Spec
<1> QED BY <1>3, WorldKeptAlways, DreamsHold, PTL
=============================================================================
