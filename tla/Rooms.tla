-------------------------------- MODULE Rooms --------------------------------
(***************************************************************************)
(* The room manager and the stat lists it drives: who a player is while    *)
(* boards are simulated.                                                   *)
(*                                                                         *)
(* A RoomManager owns one live Room (an engine) for every board that has a *)
(* player on it, and the stored boards of the world for the rest.  A player*)
(* is known three times: the manager's roomPlayer (where, statID, state),  *)
(* the room's membership set, and the engine's Players table, which maps   *)
(* the player's current stat id to a PlayerState pointer.  Every tick the  *)
(* manager turns player ids into stat ids to deliver inputs, steps each    *)
(* live engine stat by stat, turns the stat ids in the engine's events back*)
(* into player ids, applies transfers and quits, and re-reads the stat ids *)
(* from the pointers (syncPlayerStatIDs).                                  *)
(*                                                                         *)
(* Positions, health and inventory are abstracted: a PlayerState is the    *)
(* player whose inventory it holds and the board its re-enter square was   *)
(* recorded on.  What one stat may do in its turn is enumerated by its     *)
(* element, one change of the room to a turn.  All of StepDiffsWithBoards  *)
(* runs under the instance's lock, so joins, leaves and submissions happen *)
(* only while phase is "idle".                                             *)
(***************************************************************************)
EXTENDS StatList, FiniteSets

CONSTANTS
  Player,       \* player ids
  Board,        \* board ids: roomIDs steps them in increasing order
  StoredBoard,  \* the world file: the stat list of every board
  MAX_STAT,     \* the number of stats a board has room for
  Pointer,      \* the PlayerState pointers a bounded run may allocate
  MaxBusy,      \* Bound: turns that change a room, and replies; 0 is no bound
  Lookups,      \* Bound: the stat ids turns look up, their own and others'
  ReplyTo,      \* Bound: the stat ids clients name in scroll replies
  MaxLabel,     \* Bound: changes the label a scroll's reader chose makes
  MaxReplies,   \* Bound: replies pending at a time, in all
  PastBlur,     \* Bound: whether a run goes on stepping once blurred
  Nobody,       \* no player
  Nowhere,      \* no board
  Null          \* the nil pointer

Element == {"player", "timer", "hostile", "scroll"}

ASSUME BoardAssumption == Board \subseteq Nat /\ Nowhere \notin Board
ASSUME PlayerAssumption == Player \subseteq Nat /\ Nobody \notin Player /\ Null \notin Pointer
ASSUME CapAssumption ==
  /\ MAX_STAT \in Nat \ {0} /\ Lookups \subseteq Nat /\ ReplyTo \subseteq Nat
  /\ MaxBusy \in Nat /\ MaxLabel \in Nat /\ MaxReplies \in Nat /\ PastBlur \in BOOLEAN
BoardStats == {list \in Seq(Element) : Len(list) <= MAX_STAT}

ASSUME StoredBoardAssumption == StoredBoard \in [Board -> BoardStats]

VARIABLES
  stored,      \* rm.world: the frozen stat list of each board
  live,        \* boards with a Room
  members,     \* Room.players
  stats,       \* Room.Engine.Board.Stats, of live rooms
  table,       \* Room.Engine.Players: stat id -> pointer
  where,       \* roomPlayer.boardID, Nowhere if rm.players has no entry
  statID,      \* roomPlayer.statID
  state,       \* roomPlayer.state, a pointer
  reading,     \* roomPlayer.scrollOpen
  heap,        \* what each PlayerState holds
  scrollReplies, quitReplies, \* the engine's Pending lists
  phase,       \* where StepDiffsWithBoards is
  todo,        \* boards still to step
  cursor,      \* CurrentStatTicked of the room being stepped
  events,      \* the stepping engine's Events
  transfers, quitters, \* the locals of StepDiffsWithBoards
  blurred,     \* history: stat ids were applied in a room they had gone stale in
  spent        \* turns and replies counted against MaxBusy

roomVars   == <<stored, live, members, stats, table>>
playerVars == <<where, statID, state, reading, heap>>
replyVars  == <<scrollReplies, quitReplies>>
stepVars   == <<phase, todo, cursor, events, transfers, quitters>>
historyVars == <<blurred, spent>>
vars == <<roomVars, playerVars, replyVars, stepVars, historyVars>>

Blank == [owner |-> Nobody, reenter |-> Nowhere]

(* An entry of the engine's event list.                                    *)
Event(kind, id, arg) == [kind |-> kind, stat |-> id, arg |-> arg]

Present(p) == where[p] # Nowhere

(* The board being stepped. *)
Stepping == CHOOSE b \in todo : \A c \in todo : b <= c


(* Every pointer something still refers to; the rest is garbage. *)
Held == (UNION {Range(table[b]) : b \in Board}) \cup {state[p] : p \in Player}

Collected(contents) == [x \in Pointer |-> IF x \in Held' THEN contents[x] ELSE Blank]

(* The pointers a handler may still allocate, and one of them. *)
Unused(tables) == Pointer \ (Held \cup UNION {Range(tables[b]) : b \in Board})
Fresh(tables) == CHOOSE x \in Unused(tables) : TRUE

(* PlayerFor: an id without an entry gets a new PlayerState.               *)
PlayerFor(t, id, x) == [i \in DOMAIN t \cup {id} |-> IF i \in DOMAIN t THEN t[i] ELSE x]

(* PlayerFor on each of several stat ids: the new states it may allocate.  *)
(* Bound: a handler that needs more pointers than there are does not run.  *)
News(t, ids, tables) ==
  {f \in [ids \ DOMAIN t -> Unused(tables)] : IsInjective(f)}

PlayerForAll(t, ids, tables) ==
  LET new == CHOOSE f \in News(t, ids, tables) : TRUE
  IN  [i \in DOMAIN t \cup ids |-> IF i \in DOMAIN t THEN t[i] ELSE new[i]]

(* The table after the look-ups of one turn.  PlayerFor is called with the *)
(* id of any stat (GameUpdateSidebar and a point-blank shot ask for stat 0,*)
(* an attack for its attacker, a bullet for its owner, who may be gone) and*)
(* files a new PlayerState under an id that has none, whoever that is.     *)
LookedUp(t) ==
  {PlayerForAll(t, ids, table) : ids \in {some \in SUBSET Lookups : News(t, some, table) # {}}}

-----------------------------------------------------------------------------
(***************************************************************************)
(* Rooms: opening, joining, leaving, moving, freezing.                     *)
(***************************************************************************)

(* ensureRoom: the live stats, or the stored ones of a board nobody is on. *)
Opened(b) == IF b \in live THEN stats[b] ELSE stored[b]

(* Drawing a board that ensureRoom opened looks up every player on it, and *)
(* stat 0 if there is none and the board is dark.                          *)
Drawn(list) ==
  IF Showing(list, "player") = {} THEN {{}, {1}} ELSE {Showing(list, "player")}

(* The stat ids looked up on the way to board b. *)
Arrivals(b) == IF b \in live THEN {{}} ELSE Drawn(stored[b])

(* spawnPlayerInRoom: an empty room hands out the player stat it already   *)
(* holds; otherwise SpawnPlayer adds one and takes the last stat, which on *)
(* a full board is a stat that was already there, and is left as it is.    *)
Spawn(list, t, empty, x) ==
  LET claimable == Showing(list, "player")
      claims    == empty /\ claimable # {}
      full      == ~claims /\ Len(list) >= MAX_STAT
      list2     == IF claims \/ full THEN list ELSE Append(list, "player")
      id        == IF claims THEN Min(claimable) ELSE Len(list2)
  IN  [stats |-> list2, id |-> id, full |-> full,
       table |-> PlayerFor(t, id, x)]

(* Every stat id the manager holds for the room names its player's state.  *)
InStep(b) ==
  \A p \in Player : where[p] = b =>
    /\ statID[p] \in Showing(stats[b], "player") \cap DOMAIN table[b]
    /\ table[b][statID[p]] = state[p]

(* JoinPlayerWithID *)
Join(p, b) ==
  /\ phase = "idle" /\ ~Present(p)
  /\ \E ids \in Arrivals(b) :
       LET opened == PlayerForAll(table[b], ids, table)
           opens  == [table EXCEPT ![b] = opened]
           s == Spawn(Opened(b), opened, members[b] = {}, Fresh(opens))
           x == s.table[s.id]
       IN  /\ News(table[b], ids, table) # {} /\ Unused(opens) # {}
           /\ stats' = [stats EXCEPT ![b] = s.stats]
           /\ table' = [table EXCEPT ![b] = s.table]
           /\ statID' = [statID EXCEPT ![p] = s.id]
           /\ state' = [state EXCEPT ![p] = x]
           /\ heap' = [heap EXCEPT ![x] = [owner |-> p, reenter |-> b]]
           /\ blurred' = (blurred \/ s.full)
           /\ UNCHANGED spent
  /\ live' = live \cup {b}
  /\ members' = [members EXCEPT ![b] = @ \cup {p}]
  /\ where' = [where EXCEPT ![p] = b]
  /\ UNCHANGED <<stored, reading, replyVars, stepVars>>

(* A bug: nobody is moved down. *)
AboveForgotten(b, p) == {}

(* The players of board b, p apart, whose stat id is above p's: the ones   *)
(* reindexRoomPlayers moves down by one.                                   *)
Above(b, p) == {q \in Player \ {p} : where[q] = b /\ statID[q] > statID[p]}

(* RemovePlayer, which ignores an id that is off the list, followed by     *)
(* reindexRoomPlayers: the stats and the table p leaves behind on board b. *)
StatsLeft(b, p) ==
  IF statID[p] \in DOMAIN stats[b] THEN StatsWithout(stats[b], statID[p]) ELSE stats[b]

TableKept(b, p) ==
  IF statID[p] \in DOMAIN stats[b] THEN TableWithout(table[b], statID[p]) ELSE table[b]

MovedTo(b, p) == {statID[q] - 1 : q \in Above(b, p)}

TableLeft(b, p) == PlayerForAll(TableKept(b, p), MovedTo(b, p), table)

(* A bug: the last but one player's leaving freezes the room. *)
EmptiesEarly(after, b) == Cardinality(after[b]) <= 1

(* freezeRoomIfEmpty's test, on the membership a move leaves behind.       *)
Empties(after, b) == after[b] = {}

(* freezeRoomIfEmpty: the room is stored and deleted, the engine's pending *)
(* replies going with it.                                                  *)
FreezeIfEmpty(b, list) ==
  IF Empties(members', b)
  THEN /\ stored' = [stored EXCEPT ![b] = list]
       /\ scrollReplies' = [scrollReplies EXCEPT ![b] = <<>>]
       /\ quitReplies' = [quitReplies EXCEPT ![b] = <<>>]
  ELSE UNCHANGED <<stored, replyVars>>

(* The players of b above p are moved down a stat id, and take the state   *)
(* found there.                                                            *)
Reindexed(b, p, ids) == [q \in Player |-> IF q \in Above(b, p) THEN ids[q] - 1 ELSE ids[q]]
Restated(b, p, t) == [q \in Player |-> IF q \in Above(b, p) THEN t[statID[q] - 1] ELSE state[q]]

(* LeavePlayer *)
LeavePlayer(p) ==
  LET b     == where[p]
      left  == [members EXCEPT ![b] = @ \ {p}]
      list  == StatsLeft(b, p)
      t     == TableLeft(b, p)
      empty == Empties(left, b)
  IN  /\ News(TableKept(b, p), MovedTo(b, p), table) # {}
      /\ members' = left
      /\ live' = live \ (IF empty THEN {b} ELSE {})
      /\ stats' = [stats EXCEPT ![b] = IF empty THEN <<>> ELSE list]
      /\ table' = [table EXCEPT ![b] = IF empty THEN EmptyTable ELSE t]
      /\ FreezeIfEmpty(b, list)
      /\ where' = [where EXCEPT ![p] = Nowhere]
      /\ statID' = [Reindexed(b, p, statID) EXCEPT ![p] = 0]
      /\ state' = [Restated(b, p, t) EXCEPT ![p] = Null]
      /\ reading' = [reading EXCEPT ![p] = FALSE]
      /\ heap' = Collected(heap)
      /\ blurred' = (blurred \/ ~InStep(b))
      /\ UNCHANGED spent

(* transferPlayer: the PlayerState found at the player's stat id is copied,*)
(* the stat removed and the room reindexed, a stat is taken on the         *)
(* destination (which may be the same board), and the copy overwrites the  *)
(* state spawned there, re-enter square included.                          *)
TransferPlayer(p, to) ==
  LET b      == where[p]
      left   == [members EXCEPT ![b] = @ \ {p}]
      after  == [left EXCEPT ![to] = @ \cup {p}]
      list   == StatsLeft(b, p)
      t      == TableLeft(b, p)
      tables == [table EXCEPT ![b] = t]
      found  == statID[p] \in DOMAIN table[b]
      copy   == IF found THEN heap[table[b][statID[p]]] ELSE Blank
      empty  == Empties(after, b)
  IN  \E ids \in Arrivals(to) :
        LET opened == PlayerForAll(tables[to], ids, tables)
            opens  == [tables EXCEPT ![to] = opened]
            s == Spawn(IF to = b THEN list ELSE Opened(to), opened, left[to] = {}, Fresh(opens))
            x == s.table[s.id]
        IN  /\ News(TableKept(b, p), MovedTo(b, p), table) # {}
            /\ News(tables[to], ids, tables) # {} /\ Unused(opens) # {}
            /\ members' = after
            /\ live' = (live \cup {to}) \ (IF empty THEN {b} ELSE {})
            /\ stats' = [stats EXCEPT ![b] = IF empty THEN <<>> ELSE list, ![to] = s.stats]
            /\ table' = [table EXCEPT ![b] = IF empty THEN EmptyTable ELSE t, ![to] = s.table]
            /\ FreezeIfEmpty(b, list)
            /\ where' = [where EXCEPT ![p] = to]
            /\ statID' = [Reindexed(b, p, statID) EXCEPT ![p] = s.id]
            /\ state' = [Restated(b, p, t) EXCEPT ![p] = x]
            /\ reading' = [reading EXCEPT ![p] = FALSE]
            /\ heap' = Collected([heap EXCEPT ![x] = copy])
            /\ blurred' = (blurred \/ ~InStep(b) \/ s.full)
            /\ UNCHANGED spent

-----------------------------------------------------------------------------
(***************************************************************************)
(* What a connection asks for between two steps.                           *)
(***************************************************************************)

Leave(p) ==
  /\ phase = "idle" /\ Present(p)
  /\ LeavePlayer(p)
  /\ UNCHANGED stepVars

(* How many replies a board's engine holds; one more may be given. *)
Pending(b) == Len(quitReplies[b]) + Len(scrollReplies[b])
MayReply == FoldFunction(LAMBDA n, sum : n + sum, 0, [b \in Board |-> Pending(b)]) < MaxReplies

(* n changes of a room, counted.                                           *)
Spends(n) ==
  /\ MaxBusy = 0 \/ spent + n <= MaxBusy
  /\ spent' = IF MaxBusy = 0 THEN 0 ELSE spent + n

(* A reply is queued in the room's engine under the stat id the player has *)
(* at that moment; who remembers whose it is.                              *)
SubmitQuitReply(p) ==
  /\ phase = "idle" /\ Present(p) /\ MayReply
  /\ Spends(1)
  /\ quitReplies' = [quitReplies EXCEPT ![where[p]] = Append(@, [stat |-> statID[p], who |-> state[p]])]
  /\ UNCHANGED <<roomVars, playerVars, scrollReplies, stepVars, blurred>>

(* A scroll reply is queued for the stat id the client names, whatever that*)
(* is and whether or not it was shown a scroll.  label is how many changes *)
(* of the room the chosen label makes, 0 when the scroll is only dismissed.*)
SubmitScrollReply(p) ==
  /\ phase = "idle" /\ Present(p) /\ MayReply
  /\ reading' = [reading EXCEPT ![p] = FALSE]
  /\ \E k \in ReplyTo, n \in 0 .. MaxLabel :
       /\ Spends(n + 1)
       /\ scrollReplies' = [scrollReplies EXCEPT ![where[p]] = Append(@, [stat |-> k, label |-> n])]
  /\ UNCHANGED <<roomVars, where, statID, state, heap, quitReplies, stepVars, blurred>>

-----------------------------------------------------------------------------
(***************************************************************************)
(* StepDiffsWithBoards: each live room in turn.                            *)
(***************************************************************************)

BeginStep ==
  /\ phase = "idle" /\ live # {}
  /\ blurred => PastBlur
  /\ phase' = "replies"
  /\ todo' = live
  /\ UNCHANGED <<roomVars, playerVars, replyVars, cursor, events, transfers, quitters, historyVars>>

NextRoom ==
  /\ todo' = todo \ {Stepping}
  /\ phase' = IF todo' = {} THEN "apply" ELSE "replies"

(* Top of GameStepWithInputs: the pending scroll replies in turn.  One that*)
(* names a scroll (stat 0 is never taken for one) runs its label, if it has*)
(* one; at is where the reply's stat stands.                               *)
AtScroll(list, k) == k \in Showing(list, "scroll") \ {1}

Command(r, at) ==
  /\ stats' = [stats EXCEPT ![Stepping] = r.stats]
  /\ \E t \in LookedUp(r.table) : table' = [table EXCEPT ![Stepping] = t]
  /\ scrollReplies' =
       [scrollReplies EXCEPT ![Stepping] =
          <<[stat |-> at, label |-> Head(@).label - 1]>> \o Tail(@)]

(* One change the label makes: something is shot or put, a message flashes,*)
(* a stat dies, the scroll turns into something else or dies, a window     *)
(* opens.  The scroll is remembered by its square, so at follows its stat, *)
(* and is no stat once it is gone.                                         *)
RunLabel ==
  LET b  == Stepping
      at == Head(scrollReplies[b]).stat
      r  == [stats |-> stats[b], table |-> table[b], cursor |-> at]
  IN  /\ phase = "replies" /\ scrollReplies[b] # <<>>
      /\ Head(scrollReplies[b]).label > 0 /\ AtScroll(stats[b], at)
      /\ \/ Command(AddStat(r, "hostile", MAX_STAT), at) /\ UNCHANGED events
         \/ LET s == DisplayMessage(r, MAX_STAT) IN Command(s, s.cursor) /\ UNCHANGED events
         \/ \E j \in DOMAIN stats[b] \ Showing(stats[b], "player") :
              LET s == RemoveStat(r, j)
              IN  Command(s, IF j = at THEN 0 ELSE s.cursor) /\ UNCHANGED events
         \/ \E i \in Showing(stats[b], "player") :
              Command(r, at) /\ events' = Append(events, Event("scroll", i, 0))
      /\ UNCHANGED <<stored, live, members, playerVars, quitReplies, phase, todo, cursor,
                     transfers, quitters, historyVars>>

(* The label having run, the scroll is consumed if it is still there.      *)
DrainScrollReply ==
  LET b == Stepping
      k == Head(scrollReplies[b]).stat
      r == [stats |-> stats[b], table |-> table[b], cursor |-> 1]
      s == IF AtScroll(stats[b], k) THEN RemoveStat(r, k) ELSE r
  IN  /\ phase = "replies" /\ scrollReplies[b] # <<>>
      /\ Head(scrollReplies[b]).label = 0 \/ ~AtScroll(stats[b], k)
      /\ scrollReplies' = [scrollReplies EXCEPT ![b] = Tail(@)]
      /\ stats' = [stats EXCEPT ![b] = s.stats]
      /\ table' = [table EXCEPT ![b] = s.table]
      /\ UNCHANGED <<stored, live, members, playerVars, quitReplies, stepVars, historyVars>>

(* Then a confirmed quit becomes an event, if its stat id is on the list.  *)
DrainQuitReply ==
  LET b == Stepping
      r == Head(quitReplies[b])
  IN  /\ phase = "replies" /\ scrollReplies[b] = <<>> /\ quitReplies[b] # <<>>
      /\ quitReplies' = [quitReplies EXCEPT ![b] = Tail(@)]
      /\ events' = IF r.stat \in DOMAIN stats[b]
                   THEN Append(events, Event("quit", r.stat, 0)) ELSE events
      /\ UNCHANGED <<roomVars, playerVars, scrollReplies, phase, todo, cursor, transfers, quitters, historyVars>>

(* And the tick loop starts. *)
BeginTicks ==
  /\ phase = "replies" /\ scrollReplies[Stepping] = <<>> /\ quitReplies[Stepping] = <<>>
  /\ phase' = "tick"
  /\ UNCHANGED <<roomVars, playerVars, replyVars, todo, cursor, events, transfers, quitters, historyVars>>

(* One turn of the tick loop: r is the room after the turn's own effects,  *)
(* more the events it emitted.  The loop then increments the cursor.       *)
Engine == [stats |-> stats[Stepping], table |-> table[Stepping], cursor |-> cursor]

Turn(element, r, more) ==
  /\ stats[Stepping][cursor] = element
  /\ stats' = [stats EXCEPT ![Stepping] = r.stats]
  /\ \E t \in LookedUp(r.table) : table' = [table EXCEPT ![Stepping] = t]
  /\ cursor' = r.cursor + 1
  /\ events' = events \o more
  /\ UNCHANGED <<stored, live, members, playerVars, replyVars, phase, todo, transfers, quitters>>

StepBack(r) == [r EXCEPT !.cursor = @ - 1]

(* The players whose input the engine was given under the stat id at the   *)
(* cursor: a reader of a scroll is left out.                               *)
Driver == {p \in Player : where[p] = Stepping /\ statID[p] = cursor /\ ~reading[p]}

(* The pointer of the avatar at position i. *)
Avatar(r, i) == IF i \in DOMAIN r.table THEN r.table[i] ELSE Null

(* A turn that changes nothing here. *)
TickQuietly ==
  /\ cursor' = cursor + 1
  /\ UNCHANGED <<roomVars, playerVars, replyVars, phase, todo, events, transfers, quitters, historyVars>>

(* A turn that only looks players up. *)
TickLookingUp == \E element \in Element : Turn(element, Engine, <<>>)

(* ElementMessageTimerTick, when the message runs out. *)
MessageTimerTick == Turn("timer", StepBack(RemoveStat(Engine, cursor)), <<>>)

(* A bullet that hits a wall steps the cursor back; a bomb, a star, a slime*)
(* or an object that dies does not, so that the next stat misses its turn. *)
HostileDies ==
  \/ Turn("hostile", StepBack(RemoveStat(Engine, cursor)), <<>>)
  \/ Turn("hostile", RemoveStat(Engine, cursor), <<>>)

(* DamageStat of a player flashes a message, which may remove a timer.     *)
Ouch(r) == DisplayMessage(r, MAX_STAT)

(* BoardShoot and the other turns that add a stat; or, point blank, what   *)
(* stands on the next square is damaged: a player, or a creature.          *)
Shoot ==
  /\ Driver # {} \/ stats[Stepping][cursor] = "hostile"
  /\ \E element \in {"player", "hostile"} :
       \/ Turn(element, AddStat(Engine, "hostile", MAX_STAT), <<>>)
       \/ /\ Showing(stats[Stepping], "player") \ {cursor} # {}
          /\ Turn(element, Ouch(Engine), <<>>)
       \/ \E j \in Showing(stats[Stepping], "hostile") \ {cursor} :
            Turn(element, RemoveStat(Engine, j), <<>>)

(* An object's program: a message, or a window for a player.               *)
ObjectSpeaks ==
  \/ Turn("hostile", DisplayMessage(Engine, MAX_STAT), <<>>)
  \/ \E i \in Showing(stats[Stepping], "player") :
       Turn("hostile", Engine, <<Event("scroll", i, 0)>>)

(* BoardAttack by a creature or a bullet: it removes itself, steps the     *)
(* cursor back unless it was stat 0, and damages what stands on the square:*)
(* a player, or another creature, which is removed.                        *)
HostileAttacks ==
  LET s == RemoveStat(Engine, cursor)
      r == IF cursor > 1 THEN StepBack(s) ELSE s
  IN  \/ /\ Showing(r.stats, "player") # {}
         /\ Turn("hostile", Ouch(r), <<>>)
      \/ \E j \in Showing(r.stats, "hostile") : Turn("hostile", RemoveStat(r, j), <<>>)

(* BoardAttack by a player walking into a creature: the player is damaged, *)
(* unless energized, the cursor steps back unless the player is stat 0 (the*)
(* test is on the stat id the call came with), and the creature dies.      *)
PlayerAttacks ==
  /\ Driver # {}
  /\ \E r \in {Engine, Ouch(Engine)} :
       LET back == IF cursor > 1 /\ cursor <= r.cursor THEN StepBack(r) ELSE r
       IN  \E j \in Showing(r.stats, "hostile") : Turn("player", RemoveStat(back, j), <<>>)

(* A touched item or wall that flashes a message. *)
PlayerTouches == Driver # {} /\ Turn("player", DisplayMessage(Engine, MAX_STAT), <<>>)

(* ElementPassageTouch and ElementBoardEdgeTouch. *)
PlayerTravels ==
  /\ Driver # {}
  /\ \E to \in Board :
       Turn("player", Engine, <<Event("transfer", cursor, to)>>)

(* ElementScrollTouch of a scroll that opens a window: it stays on the     *)
(* board until the reader answers.                                         *)
PlayerReads ==
  /\ Driver # {} /\ Showing(stats[Stepping], "scroll") # {}
  /\ Turn("player", Engine, <<Event("scroll", cursor, 0)>>)

(* Any other scroll is removed after its program ran: what is removed is   *)
(* the stat id it was touched under, which is that of the stat after it    *)
(* when a message took the place of one whose timer stood below it.        *)
PlayerUsesScroll ==
  /\ Driver # {}
  /\ \E r \in {Engine, DisplayMessage(Engine, MAX_STAT)} :
       \E k \in Showing(stats[Stepping], "scroll") :
         /\ Turn("player", RemoveStat(r, k), <<>>)
         /\ blurred' = (blurred \/ r.stats[k] # "scroll")

(* The end of the loop, which sets the cursor for the next step. *)
EndTicks ==
  /\ phase = "tick" /\ cursor > Len(stats[Stepping])
  /\ cursor' = 1
  /\ phase' = "events"
  /\ UNCHANGED <<roomVars, playerVars, replyVars, todo, events, transfers, quitters, historyVars>>

(* A bug: the board is frozen in the middle of its tick. *)
DroppedAsItIs(b) == [stored EXCEPT ![b] = stats[b]]

(* What is stored once the room of board b was dropped. *)
Dropped(b) == stored

(* stepRoom's recover and dropPanickedRoom: the room goes without being    *)
(* frozen, its players with it.                                            *)
Panic ==
  LET b == Stepping
      gone == members[b]
  IN  /\ phase \in {"replies", "tick"}
      /\ live' = live \ {b}
      /\ members' = [members EXCEPT ![b] = {}]
      /\ stats' = [stats EXCEPT ![b] = <<>>]
      /\ table' = [table EXCEPT ![b] = EmptyTable]
      /\ where' = [p \in Player |-> IF p \in gone THEN Nowhere ELSE where[p]]
      /\ statID' = [p \in Player |-> IF p \in gone THEN 0 ELSE statID[p]]
      /\ state' = [p \in Player |-> IF p \in gone THEN Null ELSE state[p]]
      /\ reading' = [p \in Player |-> IF p \in gone THEN FALSE ELSE reading[p]]
      /\ heap' = Collected(heap)
      /\ scrollReplies' = [scrollReplies EXCEPT ![b] = <<>>]
      /\ quitReplies' = [quitReplies EXCEPT ![b] = <<>>]
      /\ events' = <<>>
      /\ stored' = Dropped(b)
      /\ cursor' = 1
      /\ NextRoom
      /\ UNCHANGED <<transfers, quitters, historyVars>>

(* playerIDForStat: the first player the manager holds at that stat id.    *)
Named(b, id) == {p \in Player : where[p] = b /\ statID[p] = id}

(* The event loop of StepDiffsWithBoards, one event at a time.             *)
ResolveEvent ==
  LET ev    == Head(events)
      found == Named(Stepping, ev.stat)
      p     == Min(found)
  IN  /\ phase = "events" /\ events # <<>>
      /\ events' = Tail(events)
      /\ transfers' = IF found # {} /\ ev.kind = "transfer"
                      THEN Append(transfers, [player |-> p, to |-> ev.arg]) ELSE transfers
      /\ quitters' = IF found # {} /\ ev.kind = "quit" THEN Append(quitters, p) ELSE quitters
      /\ reading' = IF found # {} /\ ev.kind = "scroll" THEN [reading EXCEPT ![p] = TRUE] ELSE reading
      /\ UNCHANGED <<roomVars, where, statID, state, heap, replyVars, phase, todo, cursor, historyVars>>

EndRoom ==
  /\ phase = "events" /\ events = <<>>
  /\ NextRoom
  /\ UNCHANGED <<roomVars, playerVars, replyVars, cursor, events, transfers, quitters, historyVars>>

-----------------------------------------------------------------------------
(***************************************************************************)
(* The end of StepDiffsWithBoards: transfers, quits, syncPlayerStatIDs.    *)
(***************************************************************************)

ApplyTransfer ==
  LET p == Head(transfers).player
  IN  /\ phase = "apply" /\ transfers # <<>>
      /\ transfers' = Tail(transfers)
      /\ IF Present(p) THEN TransferPlayer(p, Head(transfers).to)
                       ELSE UNCHANGED <<roomVars, playerVars, replyVars, historyVars>>
      /\ UNCHANGED <<phase, todo, cursor, events, quitters>>

(* quitPlayer *)
ApplyQuit ==
  LET p == Head(quitters)
  IN  /\ phase = "apply" /\ transfers = <<>> /\ quitters # <<>>
      /\ quitters' = Tail(quitters)
      /\ IF Present(p) THEN LeavePlayer(p)
                       ELSE UNCHANGED <<roomVars, playerVars, replyVars, historyVars>>
      /\ UNCHANGED <<phase, todo, cursor, events, transfers>>

(* syncPlayerStatIDs, which finds each player's pointer in its room's table*)
(* and keeps the old stat id when it is not there.                         *)
SyncPlayerStatIDs ==
  /\ phase = "apply" /\ transfers = <<>> /\ quitters = <<>>
  /\ statID' = [p \in Player |->
       IF Present(p) /\ state[p] \in Range(table[where[p]])
       THEN CHOOSE i \in DOMAIN table[where[p]] : table[where[p]][i] = state[p]
       ELSE statID[p]]
  /\ phase' = "idle"
  /\ UNCHANGED <<roomVars, where, state, reading, heap, replyVars, todo, cursor, events, transfers, quitters, historyVars>>

-----------------------------------------------------------------------------
Init ==
  /\ stored = StoredBoard
  /\ live = {}
  /\ members = [b \in Board |-> {}]
  /\ stats = [b \in Board |-> <<>>]
  /\ table = [b \in Board |-> EmptyTable]
  /\ where = [p \in Player |-> Nowhere]
  /\ statID = [p \in Player |-> 0]
  /\ state = [p \in Player |-> Null]
  /\ reading = [p \in Player |-> FALSE]
  /\ heap = [x \in Pointer |-> Blank]
  /\ scrollReplies = [b \in Board |-> <<>>]
  /\ quitReplies = [b \in Board |-> <<>>]
  /\ phase = "idle" /\ todo = {} /\ cursor = 1
  /\ events = <<>> /\ transfers = <<>> /\ quitters = <<>>
  /\ blurred = FALSE /\ spent = 0

Connection ==
  \E p \in Player :
    \/ \E b \in Board : Join(p, b)
    \/ Leave(p)
    \/ SubmitQuitReply(p)
    \/ SubmitScrollReply(p)

(* A turn that changes the room or its Players table. *)
BusyTurn ==
  \/ TickLookingUp \/ MessageTimerTick \/ HostileDies \/ HostileAttacks \/ Shoot \/ ObjectSpeaks
  \/ PlayerAttacks \/ PlayerTouches \/ PlayerTravels \/ PlayerReads

TickTurn ==
  /\ phase = "tick" /\ cursor \in DOMAIN stats[Stepping]
  /\ \/ TickQuietly
     \/ /\ (BusyTurn /\ UNCHANGED blurred) \/ PlayerUsesScroll
        /\ Spends(1)

RestOfStep ==
  \/ RunLabel \/ DrainScrollReply \/ DrainQuitReply \/ BeginTicks
  \/ TickTurn \/ EndTicks \/ Panic
  \/ ResolveEvent \/ EndRoom
  \/ ApplyTransfer \/ ApplyQuit \/ SyncPlayerStatIDs

Next == Connection \/ BeginStep \/ RestOfStep

(* A step is one uninterrupted function call: once begun it is run to its  *)
(* end.  Nothing obliges a client, or the clock, to do anything.           *)
Spec == Init /\ [][Next]_vars /\ WF_vars(RestOfStep)

-----------------------------------------------------------------------------
EventKind == {"transfer", "scroll", "quit"}

IsTable(t) == DOMAIN t \subseteq Int /\ Range(t) \subseteq Pointer

RoomEvent ==
  {e \in [kind : EventKind, stat : Int, arg : Nat] :
     e.kind = "transfer" => e.arg \in Board}

RoomsTyped ==
  /\ stored \in [Board -> BoardStats]
  /\ live \subseteq Board
  /\ members \in [Board -> SUBSET Player]
  /\ stats \in [Board -> BoardStats]
  /\ DOMAIN table = Board /\ \A b \in Board : IsTable(table[b])

PlayersTyped ==
  /\ where \in [Player -> Board \cup {Nowhere}]
  /\ statID \in [Player -> Int]
  /\ state \in [Player -> Pointer \cup {Null}]
  /\ reading \in [Player -> BOOLEAN]
  /\ heap \in [Pointer -> [owner : Player \cup {Nobody}, reenter : Board \cup {Nowhere}]]

RepliesTyped ==
  /\ scrollReplies \in [Board -> Seq([stat : Nat, label : Nat])]
  /\ quitReplies \in [Board -> Seq([stat : Int, who : Pointer \cup {Null}])]

StepTyped ==
  /\ phase \in {"idle", "replies", "tick", "events", "apply"}
  /\ todo \subseteq Board /\ (phase \in {"replies", "tick", "events"} => todo # {})
  /\ cursor \in 1 .. (IF phase = "tick" THEN Len(stats[Stepping]) + 2 ELSE 1)
  /\ events \in Seq(RoomEvent)
  /\ transfers \in Seq([player : Player, to : Board])
  /\ quitters \in Seq(Player)

HistoryTyped == blurred \in BOOLEAN /\ spent \in 0 .. MaxBusy

(* Boards hold at most MAX_STAT stats, stored or live.  While a room ticks *)
(* the loop's cursor is on its list or just past its end, whatever a turn  *)
(* removes, or one further when the last stat died in its turn without     *)
(* stepping the cursor back; the next tick starts at the first stat.       *)
TypeOK == RoomsTyped /\ PlayersTyped /\ RepliesTyped /\ StepTyped /\ HistoryTyped

(* A player is in the membership set of exactly the room the manager has   *)
(* them on, and a room is live exactly while it has players.               *)
MembershipAgrees ==
  /\ \A p \in Player, b \in Board : p \in members[b] <=> where[p] = b
  /\ live = {b \in Board : members[b] # {}}

(* As long as no transfer, quit or used-up scroll was applied in a room    *)
(* whose stat ids had moved during the tick, and no player spawned on a    *)
(* full board, every player has a PlayerState of their own, it is filed    *)
(* under the stat that is their avatar, on one board and under one stat id *)
(* only (the other entries are nobody's: of creatures that were looked up, *)
(* of avatars nobody plays), and between steps the manager's stat id is    *)
(* that stat.                                                              *)
Filed(p, i) ==
  /\ i \in Showing(stats[where[p]], "player") \cap DOMAIN table[where[p]]
  /\ table[where[p]][i] = state[p]

IdentityKept == ~blurred =>
  /\ \A p \in Player : Present(p) =>
       /\ heap[state[p]].owner = p
       /\ \E i \in DOMAIN table[where[p]] : Filed(p, i)
       /\ phase = "idle" => Filed(p, statID[p])
  /\ \A p, q \in Player : Present(p) /\ Present(q) /\ state[p] = state[q] => p = q
  /\ \A b, c \in Board : \A i \in DOMAIN table[b], j \in DOMAIN table[c] :
       table[b][i] = table[c][j] => b = c /\ i = j

(* The room manager keeps the promise of Whereabouts: in every step, of    *)
(* every player, and of what is stored of every board.                     *)
W == INSTANCE Whereabouts WITH place <- where, kept <- stored, Content <- BoardStats
KeepsWhereabouts == W!Spec

(* A step, once begun, ends: the cursor's steps back never cycle.          *)
StepsEnd == phase # "idle" ~> phase = "idle"

-----------------------------------------------------------------------------
(***************************************************************************)
(* What the comments of room_manager.go and game.go say of stat ids, which *)
(* a removal in the middle of a tick makes untrue.                         *)
(***************************************************************************)

(* "Per-player input injection: load this player's input before tick": the *)
(* input at the cursor is that of the player whose avatar takes its turn.  *)
InputsReachTheirAvatar ==
  phase = "tick" /\ cursor \in DOMAIN stats[Stepping] =>
    \A p \in Driver : state[p] = Avatar(Engine, cursor)

(* "anything that has to remember a player across ticks holds a PlayerID   *)
(* rather than an index": a pending quit reply is still its sender's.      *)
QuitRepliesKeepTheirSender ==
  phase = "idle" => \A b \in Board : \A k \in DOMAIN quitReplies[b] :
    \A p \in Named(b, quitReplies[b][k].stat) : state[p] = quitReplies[b][k].who

(* "the square a player arrives on is where they re-enter if zapped": the  *)
(* re-enter square is one of the board the player is on.                   *)
ReenterOnOwnBoard ==
  phase = "idle" => \A p \in Player : Present(p) => heap[state[p]].reenter = where[p]

(* "Quitters leave before the diffs are built, so [...] the remaining      *)
(* players' stat ids are already reindexed": a step leaves every remaining *)
(* player the PlayerState they had.                                        *)
PlayersKeepTheirState ==
  phase = "idle" => \A p \in Player : Present(p) => heap[state[p]].owner = p
=============================================================================
