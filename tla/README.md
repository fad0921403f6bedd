# A TLA+ model of zztmmo

zztmmo turns ZZT, a single-player game, into a shared world: a Go server ticks a
port of the original engine, and browsers connect to it over a WebSocket. The
engine was written for one player, who was always stat 0 of the one open board;
the server runs one engine for every board somebody is on, and any number of
players in each. The hard part of the program is where those two facts meet: who
a player is while stats, boards, connections and worlds come and go. That is
what this project models, checks with TLC and, in part, proves with TLAPS.

Paths below are relative to `src/`.

## 1. Inventory

### The system's parts

| part | code | state | operations |
|---|---|---|---|
| Stat list of a board | `engine/game.go` AddStat, RemoveStat, MoveStat, DisplayMessage; `engine/gamevars.go` | `Board.Stats`, `StatCount`, tiles, `Players` (stat id to `PlayerState`), `CurrentStatTicked`, `ScrollAudience` | add, remove (renames every stat above), move, spawn and remove a player |
| Engine step | `engine/game.go` GameStepWithInputs; `engine/elements.go` | cycle counter, cursor, input vars, `Events`, pending replies | drain replies, tick every stat once, emit events |
| Room manager | `engine/room_manager.go` | `rooms`, `players` (`roomPlayer`: board, stat id, state, `scrollOpen`), world copy, `pendingScores`, `worldTransits` | join, leave, submit a reply, step all rooms, transfer, quit, freeze, snapshot |
| World scope | `engine/room_manager.go` refreshRoomWorldScope, publishRoomWorldScope, syncFrozenBoardToLiveRooms | world flags, frozen boards, one copy in every room's engine | refresh before a room's step, publish after it, copy a frozen board into the other rooms |
| High scores | `engine/room_manager.go` rankScore, RecordHighScore, DiscardPendingScore; `engine/websocket_server.go` | `HighScoreList`, `pendingScores` | rank at quit, ask for a name, record or discard |
| World instances and connections | `engine/websocket_server.go` ServeHTTP, Tick, tryResume, handleReadLoopExit, completeWorldTransit, evictIdleInstances | `Instances`; of each, `Clients`, `Inputs`, `Detached`, `ResumeTokens`, `TokensByPlayer`, `Spectators`, `idleTicks`, `autosaving` | connect, resume, detach, expire, transit, tick, evict |
| A client's outbox | `engine/websocket_server.go` write, writeLoop, markDead, fail, stop | bounded queue, `dead`, `closed` | enqueue, drain, fail on overflow |
| Shared editor sessions | `engine/editor_session.go`, `engine/world_access.go` | members, resume tokens, read-only flags, leases, the fan-out ticket, the access record | enter, resume, exit, lease, invite, apply an edit, fan it out in order |
| Autosave and snapshots | `engine/snapshot.go`; `engine/websocket_server.go` Autosave | snapshot files, `autosaving` | save in two phases, restore at start |
| Session recording | `engine/session_record.go`, `engine/state_hash.go` | buffered log of operations | record, flush, close, replay |
| Title simulation | `engine/title_sim.go` | subscribers, the cells gathered for each, a ticking engine | subscribe, cancel, tick while watched, drain |
| Watching and replays | `engine/watch_live.go`, `engine/replay_viewer.go`, `engine/websocket_server.go` | `Spectators`, `ReplayInstances`: a playback with its file | watch, open, pause, restart, step |
| Challenges | `engine/challenge*.go` | run, attempts, participants | start, admit, advance, finish |
| Chat and accounts' preferences | `engine/chat_blocks.go`, `engine/chat_db.go`, `engine/web_api.go` | history, live and stored blocks, documents and handles of accounts | say, block, replay the history, read and put a document |
| Moderation | `engine/moderation.go` | mutes, refused accounts and their document, an audit | mute, refuse, lift, record |
| World generation | `engine/generation.go`, `engine/web_api.go`, `engine/world_title.go` | table of jobs, slots, sections and attempts per board, reserved names | submit, paint, validate, repair, stub, persist, host, retry |
| Museum and published worlds | `engine/museum.go`, `engine/websocket_server.go` saveEditorWorld | world files, access records, cached archives | play an archive, publish, test-play |
| Gazette | `engine/gazette*.go` | a ledger of rows per day, editions, attempts | record, flush, refresh, save |
| Object language | `engine/oop.go` | an object's place in its program, locks, who knocked on it | run until a turn is used up |
| Elements | `engine/elements.go` | the squares and stats of a board | a tick and a touch per element |
| ZWD | `engine/zwd.go`, `engine/zwd_decompile.go` | none shared | export a world as text, compile it |
| Serialization, browser client | `engine/serialize.go`, `engine/web/src` | none shared | byte formats, rendering |

### How they interact

A connection goroutine (`ServeHTTP`) finds or creates a `WorldInstance`, joins the
player to its `RoomManager` and then reads messages, each handled under the
instance's lock. One ticker goroutine calls `WebSocketServer.Tick`: it expires
detached players, ticks each instance (under its lock: swap the inputs, step every
room, turn the results into messages), writes to the clients with the lock
released, completes world transits, autosaves and evicts idle instances. Inside a
step the room manager calls each room's engine, which runs one Pascal-shaped tick
over the stat list and reports through `Events`; the manager resolves those into
player ids and applies transfers and quits. A room nobody is on is frozen into the
manager's world copy. Editor sessions and generation jobs run on goroutines of
their own and meet the rest at `GetOrCreateInstance` and the board store.

### What is hard here

* **Stat ids are positions.** A removal renames every stat above it. The engine
  fixes its own tables; anything else that kept a stat id over a removal (inputs
  keyed by stat id, events, pending replies, the manager's own `statID`) is stale.
* **One step, many actors.** Several rooms step in turn, and the transfers and quits
  of all of them are applied at the end, each one renaming stats for the next.
* **The tick cursor steps back**: the engine moves `CurrentStatTicked` itself while
  it removes stats, in the loop that uses it.
* **Limits**: 151 stats on a board, one message timer, 256 queued messages, ten
  flags, thirty high scores.
* **Locks are released between steps of one operation**: a world transit leaves one
  instance and joins another, an autosave collects under the lock and writes outside
  it, eviction races a join that already holds the instance.
* **Partial failure**: a room that panics is dropped and the others go on; a world is
  written, hosted and recorded in steps that are undone by hand; a sanction is in
  memory before it is in its document.
* **Files without locks**: access records, preferences and published worlds are read,
  changed and written back by requests that overlap.
* **Streams of changes beside whole pictures**: a screen is right only if every change
  since the whole picture it began with arrives once and in order.
* **A model that may fail in any way** paints worlds that are then run; calls to it are
  made outside every lock and paid for.

The hazards are listed, each at its line, in `PROJECT.json`.

### What makes each part correct

* Stat list: one stat per position; tables and cursor name the same stats after a
  removal as before it; never more than the maximum.
* Room manager: a player is in exactly one room, or none; every player's
  `PlayerState` is theirs alone and filed under their avatar; a room is live exactly
  while it has players; events, inputs and replies reach the player they are about;
  a step ends.
* World scope: a flag set or cleared in one room holds in all; a frozen board is the
  one the next visitor opens.
* High scores: the list stays ranked; a pending score is consumed or discarded.
* Instances: one avatar per resume token; a detached avatar is taken up again or
  expires; no player is in two instances; an instance with players is not evicted.
* Outbox and streams: messages arrive in order, without gaps, or the connection ends.
* Editor sessions: members see edits in the order they were applied, and one
  member's edit never waits for another's browser; a board is cleared, replaced or
  given properties, and a stat set, only under its lease.
* Elements: a stat stands on a square that shows it, a centipede's links agree, a
  player without health is counting down, boulders are not lost or doubled.
* Objects: a turn ends, whatever loops it is written in; a lock holds against everybody else; windows are read by who
  knocked. In the editor, an object plays the program its author saved.
* Generation: what is accepted survives play, stubs are told of, a name is held for
  one dream and no longer than it works, every dream ends.
* Published worlds: a hosted world has a file to come back from, and it is its owner's.
* Chat, moderation, preferences: nobody misses a line they did not block or hears one
  they did; a sanction an operator was told of holds; a handle names one account.
* Recordings and leaderboards: a row that was told durable stays and can be replayed.
* Gazette: a day is paid for no oftener than its cap, while the ledger has its rows.
* ZWD: a world that is exported comes back.

## 2. Plan

Most important first; (P) marks what is proved or worth proving.

1. `StatList`, `Rooms` (P), `Whereabouts` (P): the stat list, the room manager and its
   abstract promise. *Done; every safety property proved.*
2. `Instances` (P): connections, resume tokens, detached avatars, transit between
   worlds and eviction. *Done; every safety property proved, `NoGhosts` without transits.*
3. `EditFan` (P): the operations on an editor session's engine and the gate that orders
   the edits' diffs. `EditMembers` (P): membership, rights, leases, invitations. *Done.*
4. `WorldScope` (P), `WorldRestore`: flags and frozen boards across rooms, autosave,
   crash, restore. *Done; the violation of `WorldRestore` is TLC's.*
5. `Objects` (P): the interpreter. `Programs` (P): how programs are stored. *Done; every property
   proved.* `BoardOps`, `BoardTicks`, `Board`: the elements on squares. *Modelled and checked.*
6. `Dreams` (P), `Painting` (P): worlds made by a model. `PublishedWorlds` (P). *Done.*
7. `Streams` (P), `Titles` (P), `Replays` (P), `Scores` (P), `Challenge` (P), `Chat` (P),
   `Moderation` (P), `Preferences` (P), `Gazette` (P): machines of their own. *Done.* `ZWD`:
   *modelled and checked.*

What is left without a theorem stays with TLC: `BoardTicks` and `BoardOps` have RECURSIVE
operators, `ZWD` computes over sequences with recursive functions, and liveness is out of
the prover's reach (section 5).

How modules are put together. A component is a module with its CONSTANTS; where
components meet, one EXTENDS the other (`WorldRestore` over `WorldScope`, `BoardTicks` over
`BoardOps`, `Rooms` over `StatList`). Components that share no state are checked
side by side: a module instantiates several, with variables that say which of them
a behavior is of (`People`, `WorldLives`, `Services`, `Engine`), which is as good as a run
of each, since the others then stay in their initial states. `WorldLives`, `People` and `Engine`
extend the largest of their parts and instantiate the rest.

## 3. Modules

### StatList

The stat list of one board as a sequence of elements, position 1 being the engine's
stat 0, with the two things that are keyed by stat id and that `RemoveStat` itself
moves: the `Players` table and the tick cursor. `RemoveStat`, `AddStat` and
`DisplayMessage` work on a record of the three.

### Rooms

The room manager over any number of boards. Variables follow the code's fields (the
comment at each declaration names it). A `PlayerState` pointer is an element of
`Pointer`, and `heap` says what it holds: whose inventory, and the board its
re-enter square is on; nothing else of a `PlayerState` is told apart by the
properties. Pointers nothing refers to are blanked, so that runs stay finite.

`StepDiffsWithBoards` is cut at the points where its state changes: `BeginStep`, then
for each live room in board order `RunLabel`, `DrainScrollReply`, `DrainQuitReply`, `BeginTicks`, one
`TickTurn` per stat, `EndTicks`, one `ResolveEvent` per event, `EndRoom`; then
`ApplyTransfer` and `ApplyQuit` one at a time, and `SyncPlayerStatIDs`. A `Panic` may
end a room's tick. The whole step runs under the instance's lock, so joins, leaves
and submissions happen only in phase "idle"; `LeavePlayer`, `TransferPlayer` and `Join`
are each one action, with the reindexing, freezing and spawning they call.

What one stat's turn may do is enumerated by its element: a message timer expires, a
bullet dies stepping the cursor back or another hostile dies without, something is
shot, point blank or not, a hostile or a player attacks, an object speaks, a touched
item flashes a message, a player travels, opens a scroll or uses one up. Which of them
happens depends on positions, health and chance, which the model leaves open. A
player's turns that need a key need an input (`Driver`), which is absent while their
scroll is open. Any turn may also look players up (`LookedUp`): `PlayerFor` files a new
`PlayerState` under a stat id that has none, and the code calls it with ids of stats that
are no player's: stat 0 when the sidebar is drawn or something is shot point blank, an
attacker's, a bullet's owner's, who may be gone.

A turn of the model makes one change of the list, two where an attack does; a turn of
the code may make more (a bomb's blast, an object that flashes a message and then
becomes something else). Those turns are not covered; the changes themselves are. A
scroll reply names any stat id (`ReplyTo`), as a client may, and the label its reader
chose makes up to `MaxLabel` changes one at a time (`RunLabel`).

Not in `Rooms`: movement, tiles, health and object programs (an object is a "hostile"
that may shoot or die), which are the subject of `Board` and `Objects`; flags and
snapshots, which are `WorldScope`'s; sounds, notices, debug commands, and the queue of
world transits (a travelling player is transferred within the world).

### Whereabouts

What the room manager promises with the engines left out: where each player is, and
the contents each board is kept with. A player gets onto a board only by arriving or
travelling, and off it by departing, travelling or the board being dropped; what is
kept of a board changes only in the step in which its last player goes. `Rooms` maps
`place` to the `boardID` of its players and `kept` to the frozen boards of its world; each
of its actions is one of the abstract steps or a stutter (`KeepsWhereabouts`). That a
panic loses what happened on the board since it was entered, and nothing else, is
`Drop`.

### Instances

Hosted worlds and the connections that play in them. `hosted` is `s.Instances`, a map
from world names to instance numbers; an instance keeps its number, and stays in
`inst`, after it was released, because a goroutine may still hold the pointer. A
connection is its client and the locals of its `ServeHTTP`: `pc` says how far it got,
`inst` is the instance variable it holds, `world` and `dead` are the client's `worldName`
and `writeErr`, `token` is what its browser was given. A resume token is the number of
its minting, so that two are never equal.

An action is one stretch of code under one lock. `ServeHTTP` is `Arrive` (the world's
instance is found), then a wait for the browser, then `TryResume` and `FreshJoin` or
`TurnAway`, `Greet`, the messages of the loop, `EndLoop` (the instance is looked up again,
by name), `HandleReadLoopExit`, `Stop`. A message's lookup of the instance and its handler
are one action: the handlers check that the player is connected there, and an
instance with a connected player is not released in between. `Fail` is any reason for
which the socket closes under a client: a failed write, a full queue, an operator.

The ticker is `BeginTick`, `ExpireDetached` for each instance, `BeginSteps`, `TickInstance` for
each instance, and `EvictIdle`; a world transit of an instance's step runs between two
of them as `OpenGate`, `LeaveSource`, `JoinDestination`, `Welcome`, one per lock, and
connections may act between any two. What a step does inside the rooms is
the subject of `Rooms`; here it takes away who confirmed a quit, and any players whose
room failed.

Chat blocks are in the model as far as their life is tied to connections: a player has
a live set or none, and an account's stored set exists or not.

Not in `Instances`: spectators, title streams and pending autosaves (three more reasons
not to release a world), editors and challenge runs, an account's stored player
state, a snapshot that fails, and what a resumed account that differs from the
token's owner does to names. What is queued for a connection is `Streams`.

### EditFan

The members of one editor session and its one engine. An operation is an action: the
session's lock is held throughout (`Apply`), the engine is first put on the member's
board (`Focus`), and wherever the operation leaves the engine the member is
(`AppliedOn`). What it sends goes out in actions of its own: for an edit `TakeTurn`, when its
ticket is served, one `Write` per member who views the board by then, and `Retire`; for
the rest `ListViewers` or nothing, `Write`, `Sent`. A connection's `pc` says where its goroutine
is; it reads its next message only when it is back in its loop. A square is the
number of the change that made it, so that of two versions one sees which is newer.

Not in `EditFan`: leases (any editor may do what a lease would allow), resumed
memberships and rights that change after entry (`EditMembers`), cursors and presence,
what goes to members on other boards, saving and test play (`PublishedWorlds`), and what
browsers show.

### EditMembers

The members of an editor session: `members`, `readOnly`, `tokenMember` and `leases` are the
session's fields, a client's `seat` is its presence and its token. What runs under the
session's lock is one action; the access record is a file, so an entry (enter, judge,
set), an invitation (read, write, tell) and a publication are several actions each,
and any of two members' may interleave. What a write of a board or a stat
asks for is `HasLease`, the shortcut for a member who is alone included.

### WorldScope, WorldRestore

`world` is the manager's copy (the boards as stored and the flags), `room` each live
room's engine (its own board, its flags, its copies of the other boards), `job` an autosave
that has been collected and not yet written, `file` what was written last. A board is a
door, with an object that opens it and sets the board's flag in one turn: whenever a
board and a flag disagree, pieces of different moments were put together. `BeginStep`,
one `StepRoom` (or `IdleRoom`, `DropPanickedRoom`) per room, `Transfer`s and `EndStep` are a tick; joins,
leaves, autosave, eviction and crashes come between ticks. `WorldRestore` adds the restore
over the web, which takes no lock, in its steps.

### BoardOps, BoardTicks, Board

One board with squares: `BoardOps` has the operations (add, remove and move a stat, damage,
re-entry and death, shots, attacks, pushes, touches), `BoardTicks` the turn of every
element over them, `Board` the loop over the stats. An engine is a record, and an
operator whose outcome is drawn returns the set of engines that can result. A
procedure that keeps a stat id over a removal keeps it here: `gone` lists what a turn
removed, and where a procedure goes on with an id that no longer names its stat
(`GoesOn`), or a conveyor takes a stat for the one below it, `astray` is set. The scenes
of `MCBoard` have players first in the list and, in `Late`, after beasts, machines and a
message's timer. Players' inputs are free.

### Objects

The interpreter, one instruction an action: a turn is begun (`run.slot`), goes through the
lines of the program in that slot, and ends (`EndTurn`) with a window shown, the object
replaced, or a bump. Between turns players come, go, touch and answer windows, and shots
and energizers arrive. A program is a sequence of instructions; whether a way is free
and what a counter holds is open. The scenes are in `MCEngine`.

### Programs

How programs are stored: closing a board binds a program to the last earlier stat with
the same text, opening resolves the binding, and each edit of a shared session closes and
reads back. `given` remembers what the author of each object saved.

### People, WorldLives, Services, Engine

Components that share no state, checked and proved about together. `People` has the
members of a session, the chat, the operators' sanctions and the preferences;
`WorldLives` the world of `WorldScope` and the dreams; `Services` the ten services listed
there; `Engine` has programs as the engine runs them (`Objects`) and as an editor keeps them
(`Programs`), to which `MCEngine` adds the elements of `Board`. A variable chosen in the initial state
(`part`, `story`, `service`) says which of them moves; the constants of a part have names of their own where two parts would
disagree. `Streams` is instantiated with its players, watchers and bounds as
parameters, once without watchers and once with.

### Dreams, Painting

`Painting` is one world's way through the model: each board is painted with a budget of
attempts, the assembled world is compiled and played, what fails is repaired in rounds,
and stubbed when the budget is spent; the last gate plays it again; a retry paints the
stubs once more. `Dreams` is the job around it: admission to a slot, a typed or minted
name, the files, the claim of the access record, hosting; each step may fail, and what
was deferred is undone.

### PublishedWorlds

Who writes worlds into the directory: an editor who publishes, a player who plays an
archive, a test play. A request is a record that says how far it has come (look,
write, record, host), any step of which may fail.

### Chat, Moderation, Preferences

`Chat`: a line is stored and then sent to the connections there were (`AddMessage`,
`Collect`, `Deliver`), while others register, are seeded with their account's blocks and
read the history, each in a lock of its own. `Moderation`: an operator's request is
located, acted on, recorded and answered; accounts come and go at the door, the process
restarts. `Preferences`: each of four requests reads an account's document and puts the
whole of it back later; handles are an index beside the documents.

### Scores, Challenge

`Scores`: a slot is offered at a quit and filled when a name comes. `Challenge`: a run with its
instance, its recorder (a channel that drops when it is full, a writer, a close) and
the leaderboard with its file.

### Streams, Titles, Replays

`Streams`: what players and watchers of a board are queued, by the tick and by their own
goroutines, and what their screens then show; a queue that is full ends the connection.
`Titles`: a title board's subscribers with the cells gathered for each. `Replays`: one
playback of a recording shared by those who watch, with the files that are open.

### Gazette

Rows of a day with their caps, flushed on a cadence. A refresh reads the rows and the
date without the editor's lock (`Ask`), is let through or dropped under it (`Refresh`,
`NotEligible`), calls the author without it, prints what comes back, and saves the cache:
a copy under the lock, the file without it; the day is in flight until then. Days pass,
days are pruned, the process restarts after a flush.

### ZWD, ZWDWorlds

Exporting a world as text and compiling it, as functions from worlds to texts and back;
a text is a record of the fields, grid characters, legend lines and stat lines that the
code writes and reads. `ZWDWorlds` has the families of small worlds: exits and passages,
stats with programs and parameters, chains some of whose parts the text cannot name,
squares whose look is ambiguous. Bindings between programs do not occur, because a board
is opened before it is exported, which resolves them.

## 4. Runs

| run | question | instance |
|---|---|---|
| `rooms` | are the types kept, does membership agree, is identity kept, is `Whereabouts` implemented | 2 players, 2 boards, up to 4 stats, 7 pointers, 2 turns or replies that change a board, 1 pending reply; looked up besides is stat 0 |
| `rooms_one_board` | does every step end with any number of such turns | 2 players, 1 board, up to 3 stats, 7 pointers, 1 pending reply, nobody looked up besides |
| `rooms_state` | does a bystander keep their state | the first instance with up to 6 stats, 6 pointers, 2 pending replies; no step is begun once stale ids were applied |
| `instances` | one avatar, attended to, reclaimable by its token alone | 2 connections, 2 worlds, 3 instances, 1 transit |
| `instances_calm` | are dead connections forgotten, do countdowns end, are empty worlds released | 2 connections, 2 worlds, 2 instances, no transit |
| `instances_orphan` | is a world kept for a connection that has found it | 2 connections, 2 worlds, 3 instances, no transit |
| `edits` | are diffs handed on in the order of their edits, and every one of them | 2 members, editors or not, 2 boards, 2 changes, 2 edits |
| `worlds` | does what rooms share stay of one moment, is what lasts saved; do dreams end, hold their names and nothing else | 2 players, 2 boards; 2 jobs, 2 slots, 3 names |
| `scope_restore` | does a restore leave nobody on a board that is gone | 1 player, 1 board |
| `engine` | do boards stay whole, the dead respawn, boulders last; do turns end, locks hold, windows find their readers; are programs kept | 24 boards of up to 10 squares and 7 stats; 5 boards of up to 5 stats with programs; 2 boards of 3 objects, 2 texts |
| `people` | do tokens, rights, lines, blocks, sanctions and handles hold | 3 members, 2 accounts, 2 seats, 2 boards; 2 players, 2 accounts, 1 line; 2 connections, 1 account, 2 operators; 2 accounts, 2 handles, 2 requests |
| `services` | the promises of ten services | see below |

The runs `people`, `worlds` and `services` are of the modules `People`, `WorldLives` and `Services`.
The instances of `services`: a world of 3 boards with 3 attempts each; the worlds of
`ZWDWorlds`; 2 requests for one name by two accounts and a guest; 4 players, a list of 2
scores; 2 challenge runs, a table of 1 row, a channel of 1; 2 players with queues of 2,
and a player and a watcher with queues of 1 and a room that is made twice; 2 watchers
of a title board of 2 cells; 2 watchers of a recording of 3 ticks, opened up to 3
times; a Gazette of 2 days, a row that happens twice, a cap of 2 editions and 1 refresh
of a day between its reading and the lock.

What the properties say, in the words of their comments made short:

| property | module | claim |
|---|---|---|
| `TypeOK` | Rooms, Instances, EditFan | the types; boards within their limit and the cursor on the list a room ticks through or just past it; locals set where they are used |
| `MembershipAgrees` | Rooms | rooms' membership sets and players' records agree; a room is live exactly while it has players |
| `IdentityKept` | Rooms | a player's state is theirs alone and filed under their avatar and nowhere else |
| `KeepsWhereabouts` | Rooms | the room manager implements `Whereabouts` |
| `StepsEnd` | Rooms | a step, once begun, ends |
| `OneAvatar`, `AvatarsAttended`, `TokensReclaim` | Instances | one avatar per player, played or counting down, and found by its token alone |
| `NoGhosts`, `DetachedResolve`, `WorldsReleased` | Instances | a dead connection is nowhere; countdowns end; empty worlds are released |
| `GateHolds`, `DiffsInOrder`, `EditsGoOut` | EditFan | tickets are those of the waiting edits; no older square goes out after a newer; every edit goes out |
| `WorldKept` | WorldLives | of `WorldScope`: players have rooms, rooms agree between ticks, a board is never parted from the flags it set |
| `LastingIsSaved` | WorldScope | what lasts while somebody is connected is in the autosave |
| `HeldByDreams`, `JobsEnd` | Dreams | a name is held for one dream at work; every job ends |
| `BoardWhole`, `DeadRespawn`, `NothingLost` | Board | stats stand on their squares and links are mutual, and the dead count down, until a turn goes astray; boulders last |
| `TurnsEnd`, `LocksHold`, `KnockersRead` | Objects | a turn ends, unless it comes to a `#` that is its program's last byte; a lock holds; a window is read by who knocked |
| `ProgramsKept` | Programs | an object plays what its author saved |
| `TokensAgree`, `RightsKept` | EditMembers | tokens and members are one mapping; leases and writes are of those with the right |
| `NothingMissed`, `BlocksHold` | Chat | nobody misses a line they did not block, or hears one they did |
| `SanctionsStand` | Moderation | what an operator was told of holds |
| `HandlesUnique` | Preferences | a handle names one account, in memory and in the file |
| `ShippedAsTold` | Painting | an accepted world survives play, and its stubs are told of |
| `ComesBack` | ZWD, ZWDWorlds | what is exported compiles to the world it was |
| `PublishedStand` | PublishedWorlds | a published world keeps its file and its owner |
| `RankingsStand` | Scores, Challenge | the list is the best that were named, in order; a posted row stays, with a whole recording |
| `PlayersSee` | Streams | a player's screen is the board |
| `WatchersShown` | Titles, Replays | a title's watcher misses no cell; a recording's sees one playback |
| `SpendBounded` | Gazette | a day is paid for no oftener than its cap, unless it is called for after the ledger dropped its rows |

Bounds. `Pointer` bounds how many `PlayerState`s are alive at once; a handler that would
need one more does not run. `MaxBusy` bounds the turns that change a board over a
whole run; two are enough for a removal in one turn to disturb an event, an input or
a transfer of another, and the second run has no such bound. `PastBlur = FALSE` stops
stepping once stale ids were applied (`blurred`), after which identity is
no longer claimed; the violation run for the bystanders' state sets it to TRUE. `MaxQuits`
bounds the quit replies pending at a time. Two players suffice for one to disturb
the other, two boards for a transfer, four stats for a player, a newcomer, a
hostile and a timer, and a full list.

Of `Instances`: two connections are one to lose an avatar and one to take it over; each
makes one journey through `ServeHTTP`, and as long as no connection can cause more than
one instance to be made, three instances are all there can be with two connections
(`MaxInst` never stops the ticker, which the deadlock check of the runs confirms).
`Grace` and `IdleLimit` are one or two ticks instead of hundreds: what matters is that
other steps fit in before the last one. Chat blocks are in `instances_calm` only, which
is the smaller of the two. `Gates` bounds the transits that arrive; an
attempt that finds no world, or no player any more, is not counted. In `instances_calm` it
is 0, because what the run asks is false with transits (section 6), and
`MaxInst` is 2, which keeps a world from being loaded a second time.

Of `EditFan`: `MaxWrites` bounds the changes of squares and `MaxEdits` the tickets. Two of each
let one edit change what another has, wait behind it or fall behind a world that was
replaced; two boards let the other member look elsewhere.

Of the others. `MaxSeats` bounds the memberships begun: two, of three connections, one of
which may take over another's. `MaxLines`, `MaxTicks`, `MaxPass`, `MaxEra`, `LastDay` and
`MaxCount` cap counters that only grow; each is what one repetition of the operation
needs. `MaxAsked` bounds the refreshes of a day that have read and wait for the lock. Queues and channels hold one or two, so that they fill. Ghosts mark what is
not claimed because the code breaks it (section 6): `raced` in `EditMembers` and
`PublishedWorlds` (requests that overlap), `lost` in `WorldScope` (a panic; it is never cleared), `late` in `Scores` (a slot
filled late), `forgotten` in `Chat`, `behind` in `Titles`, `crossed` in `Replays`, `overdue` in `Gazette`,
`shifted` and `leftover` in `Programs`, with `PastLoss = FALSE`, which stops edits of a board that lost a program, and
`astray` in the engines of `Board`: a board is not followed past a turn that went on with another's stat id.
Accounts, connections and texts that nothing tells apart are declared symmetric in
`people` and `engine`, which check no liveness; the runs with liveness have no symmetry.

CHECK_DEADLOCK is FALSE where the system may stop: all connections have ended, an
exported world is compiled, counters have reached their bound.

Fairness. In `Rooms`, weak fairness of `RestOfStep` only: a step is one uninterrupted
function call. Nothing obliges a client to act or the ticker to tick. In `Instances`, weak
fairness of the ticker goroutine, which `Run` keeps ticking and which waits for no
client (a write to a client's queue returns at once), and of what a connection's
goroutine does without its browser (`Teardown`): a join that was begun, the exit after the
socket has closed. Nothing obliges a browser to send, to close or to come back. In
`EditFan`, weak fairness of each connection's goroutine between two reads (`Finish`): it waits
for the gate and for nothing else, since a write to a member's queue returns at once.
In `WorldScope`, weak fairness of the tick, and strong fairness of collecting and writing
an autosave, since the ticker comes by its interval again and again and a disk that
always fails promises nothing. In `Dreams`, weak fairness of each job's goroutine: a call to
the model ends by its client's timeout, and with as many slots as jobs a slot that is
free stays free for the one that waits; with fewer, the channel serves its senders in
turn, which is the strong fairness of `Dreams!Fairness`. The run has two slots for two jobs,
so that two dreams work at once and meet at names; waiting for a slot is not exercised.

`IdentityKept` is claimed while `~blurred`. The history variable `blurred` is set when a
leave, transfer or quit runs in a room where some manager-held stat id no longer names
its player's state, when a scroll is used up under a stat id its own message moved, or
when a player spawns on a full board. That is where the code goes wrong, as `rooms_state`
shows of the first.

The runs that expect a violation:

| run | the code's own words | what happens |
|---|---|---|
| `rooms_state` | room_manager.go:741 "stat ids are already reindexed" | a bystander is given a blank state |
| `instances_orphan` | websocket_server.go:16 "evicted when nothing is left holding them" | a connection between finding its instance and joining it holds nothing: the player joins a world that has been released and never ticks |
| `scope_restore` | snapshot.go:210 "It refuses while any player is in a room" | a restore over the web asks and then replaces the rooms without the lock; a join in between is left in no room |

## 5. Proofs

Seven modules hold the theorems. Each is for any values of the constants, under the
named assumptions at the end of this section; the bounds of the models (`MaxBusy`,
`Pointer`, `MaxWrites`, ...) appear as arbitrary constants. What is proved is `Spec => []P`
for the safety properties of section 4 unless said otherwise. The argument is
always the same: an inductive invariant stronger than the property, one lemma per
action (or per kind of action) that keeps it.

`RoomsProofs` begins with lemmas about the list operations, for lists of any length: a
removal shortens the list by one and shifts what is above, the table gains no entry,
the cursor stays between 0 and one past the list. Then:

* `TypeInvariant`: `TypeOK` is inductive as it stands, one lemma per action. Beyond
  types it says that no stored or live board exceeds `MAX_STAT` stats and that while a
  room ticks the cursor stays in 1 .. Len + 2 of its list: on it, just past its end, or
  one further when its last stat died in its turn and the cursor was not stepped back;
  the next tick begins at 1. The step backs are the delicate part: the code guards
  them (`attackerStatId > 0`) or takes them for a stat that had a turn. What every change
  of a room's list and table does is said once (`Follows`), and each kind of turn, label
  and reply has one lemma that it does that (`TurnsFollow`, `LabelFollows`, `DrainFollows`).
* `MembershipInvariant`: `MembershipAgrees`, inductive together with `TypeOK`: the rooms'
  membership sets and the players' records change in the same action on every path,
  a transfer to the same board and a panic included.
* `RoomsKeepWhereabouts`: `Spec => KeepsWhereabouts`, the refinement. It rests on the
  other two: a board is frozen when its membership set empties, and only with
  `MembershipAgrees` is that when no player is left there; that the frozen stat list is
  a lawful one is `TypeOK`.

It ends with `IdentityKept`, on top of the first two invariants. That is not
inductive, because between the step's beginning and `SyncPlayerStatIDs` the manager's
ids are stale. `IdentityInv` keeps, until `blurred`, what does survive every removal:
the states of the players present are different and not collected (`StatesOwned`,
`StatesDistinct`); no pointer is filed twice, on one board or on two (`Apart`); and each
room's table files the states of its players under stats that show a player (`Holds`,
which with `Apart` is `TablesFiled`); only in phase "idle" do the manager's ids agree with
the table (`IDsFiled`). The tables hold other entries too, of stats that were looked up and
are nobody's: what the invariant needs of them is that their pointers are new when they
are filed (`LookedUpFiled`) and that a new arrival who finds one takes it over alone
(`SpawnFiled`). A removal moves the list and the table in the same way (`Follows`); a
reindexing finds a state in the table where it is filed (`LeftFiled`); and an action that
uses a stale id is what sets `blurred`.

`InstancesProofs` proves `TypeOK`, `OneAvatar`, `AvatarsAttended`, `TokensReclaim` and, without transits, `NoGhosts`. `TypeOK` says that
the locals `ServeHTTP` and `completeWorldTransit` use without looking (an instance, a player,
a client) are set where they use them. None of the others is inductive alone: a join
in one instance keeps a player from having two avatars only if no other instance
knows the player. The invariant `IInv` therefore speaks of all an instance knows of a
player (`Known`: an avatar, a client, a countdown or a token):

* each instance is `Sound`: avatars are attended to, nobody connected counts down, every
  avatar has a token;
* no two instances know the same player, who has been minted, and no token occurs
  twice (`Apart`);
* between leaving one world and joining the next a player is known nowhere
  (`InTransit`), which is why no connection can resume them there.

Every handler but the two joins only forgets (`Keeps`), and one lemma (`HandlerStep`)
carries that from one instance to the whole; the joins have theirs (`JoinStep`).

`NoGhosts` holds only without transits, and is proved for `Gates = 0` (`NoGhostsInCalm`): then no
transit ever begins (`Calm`), and `CalmInv` says of every client where its connection is:
it is still to come to its exit, and the instance it will look up there is the one that
has the client, if that is hosted by then (`Holds`). Instances are numbered in the order
they are made and two worlds never share one (`HostsApart`), so that an instance once
released is not taken for the one that follows it.

`EditFanProofs` proves `TypeOK`, `GateHolds` and `DiffsInOrder`. `GateHolds` is inductive with
`fanServing <= fanTicket`: an edit adds the next ticket, `Retire` takes away the first.
`DiffsInOrder` is not: the diff that an edit brings to the gate is the newest there because
no square of a waiting diff is newer than the board's, and no board's newer than the
last change (`Ordered`). Everything that is not at the gate is a step aside (`AsideKeeps`),
as long as squares only get newer.

`PeopleProofs`:

* `TokensAgree` and the leases' part of `RightsKept` are inductive with the types and with
  members having begun and not ended (`MembersInv`): every exit and displacement clears
  the seat of the client it is about and no other.
* That who was invited may edit (`InvitedMayEdit`, unless uses of the record overlapped)
  needs that as long as nothing overlapped at most one member is at the record, that
  what it read is still what is written (`RecordUsed`), and that the invited are those
  the record lets edit (`UnracedInv`).
* `SanctionsStand`: what an operator's request still has to do is bounded by how far it
  has come (`Follows`); the document never has an account that is not refused in memory.
* `HandlesUnique` is inductive with the types: the check and the write of a put are under
  one lock, and a failed write takes both back.
* `NothingMissed` needs that what a connection was promised is in the blocks it has now
  (`PromisesKept`); `BlocksHold`, which is about steps, follows from the same invariant.
* `PeopleSafe`: all of them of `People`, whose every step is a step of one part.

`WorldLivesProofs`: `WorldKept`, of which `PlayersHaveRooms` is inductive alone; that rooms agree
needs to say, during a tick, which rooms may be behind the world (`PiecesAgree`), and that
a board is never parted from the flags it set needs the same of every copy there is: the
world, each room with its copies of other boards, the job being autosaved and the file
(`PiecesMatch`, `SavedMatch`). `HeldByDreams`: a dream holds a name only while it is at work,
and no two the same (`DreamsInv`). `WorldsSafe`: both, of `WorldLives`.

`ServicesProofs`:

* `SpendBounded`. The Gazette prunes its ledger and its attempts separately, and forgetting an
  attempt could let a day be paid for again. It does not, because a day whose
  attempts are forgotten has so many newer days with attempts that its rows are
  gone as well, or will be before a refresh reads them (`Backed`, `Unread`), in memory,
  in the file and in every copy on its way there. A refresh that has read the rows before
  is the exception (section 6): the ghost `overdue` holds its day.
* `ShippedAsTold`: from the first painting on the boards that are stubs are those listed,
  a repair touches none of them, and what comes to the last gate is what was played
  (`PaintInv`).
* `PublishedStand`: for each name that no two requests worked on at a time, what the one
  request at work knows of file, record and host (`NameStands`).
* `RankingsStand`: the list is filled from the first slot by the entries in the places their
  scores give them (`Filled`), and a slot on offer that was not overtaken is the one the
  score would be given now; so inserting at it moves exactly the entries that belong
  below. For the leaderboard, memory and file are both in order with one row per
  account (`Ordered`), every row is of a run that is done, and whatever was told durable
  stands in both (`ChallengeInv`); a row cut off is no better than all that stay, and
  being ahead is a weak order, so it stays beaten. A run's recorder has each tick in the
  file or in the channel until it is closed, or knows that one was dropped (`SoundRun`).
* `PlayersSee`: each cell not drawn since the last tick is right in what the tick took, or will
  be once the frames on their way are drawn, of which the first is a whole screen if the
  player has none (`Follows`). It is proved of the instance with any players, watchers
  and bounds, and of `Services` for both of its instances.
* `WatchersShown`: what has changed on a title board since a watcher's screen is gathered or
  being sent (`TitleInv`); the passes of a recording that are open are told apart, and who
  has one frame at most on its way will be shown where the playback is (`ReplayInv`).
* `ServicesSafe`: these six, of `Services`.

`EngineProofs`, of `Engine`:

* `ProgramsKept`: a stat has a program of its own, a reference to an earlier stat that was
  given the same, or none, as its author saved it, unless the board is one of those
  that lost a program (`ProgramsInv`); closing binds a stat only to an earlier one of the same
  text, and opening goes from the first stat up, so that a reference is read from a stat
  already resolved. Opening and clearing go over the stats by a recursive function, which
  is shown to exist for every length (`IterationExists`, by well-founded induction on numbers).
* `KnockersRead`, `LocksHold` and `TurnsEnd` rest on one invariant (`Fit`): objects are told apart,
  whoever an object remembers as its audience is a player who touched it, the first stat is
  a player's, and the slot of a turn is one of the list or is known to have been
  shifted. What adding and removing stats makes of a list is said once (`Becomes`): no
  object is new, and each that was locked still is, at its place in its program
  (`Follows`). What an instruction may do is said once as well (`Goes`): of the locked objects
  only the one whose turn it is moves, and once its slot is another's nothing more is
  claimed of the turn. Each kind of instruction has a lemma that it does so and goes on
  as `TurnsEnd` says (`Plays`): it ends the turn, counts a command, or reads the next line; only the `#` a program
  ends with does none of these (`Spins`, section 6).

Assumptions on the constants. `Engine`: a scene begins with the list in order, a player first and no
turn under way (`ScenesAssumption`), no text is none of the texts and the limit is a number
(`ProgramsAssumption`). `Instances`: the default is one of the worlds, limits are positive,
and the null value is nothing else. `Rooms`: boards and players are numbers (the code
orders them), the null values are none of them, there is room for one stat, and stored
boards are within the limit. `EditFan`: the stat's square is one of the squares, and the
limits are numbers. `People` (`PeopleAssumption`): nobody is no account, no handle is not a handle,
0 is no speaker, a guest has no account. `WorldLives`: the worlds of a family of names are numbered in minting order
(`FamilyAssumption`). `Services`: limits are numbers, days begin at 1
(`GazetteAssumption`); nothing is nobody's name and no world's, and a test play's name is
not one under which worlds are published (`PublishedAssumption`); ticks and passes are
counted from nought (`ReplayAssumption`); scores are natural numbers
(`RankingAssumption`). TLC evaluates each of them in the runs.

Only model-checked, and why:

* `BoardWhole`, `DeadRespawn`, `NothingLost`: `BoardOps` and `BoardTicks` use RECURSIVE operators, which the
  prover does not take; `ComesBack`: what `ZWD` computes is defined by recursion over the text,
  and that it inverts itself would need induction over data;
* `StepsEnd`, `DetachedResolve`, `WorldsReleased`, `EditsGoOut`, `LastingIsSaved`, `JobsEnd`: liveness under
  fairness, which is out of the prover's reach;
* the three violations of section 4.

## 6. Where the code and its words part

Met while modelling. Those the runs of section 4 show are findings of `PROJECT.json`. A
property in parentheses is in its module and is violated when it is checked in place
of the properties of the cfg named with it; the others are in the models, which
exclude them from what they claim or leave the case out, as said there.

Rooms and instances
* Inputs are looked up by pre-tick stat ids after removals moved the stats: an avatar
  moves by another player's keys, against game.go:1962 (`InputsReachTheirAvatar`, MCRooms.cfg).
* A confirmed quit is kept as a stat id until the next step and comes to name another
  player, against room_manager.go:10-12 (`QuitRepliesKeepTheirSender`, MCRooms.cfg).
* A transfer overwrites the re-enter square of the board arrived on with the old
  board's, against room_manager.go:487 (`ReenterOnOwnBoard`, MCRooms.cfg).
* An event's stat id is resolved after the tick's removals (room_manager.go:648), to
  another player or to nobody. A newcomer on a full board shares the last stat.
* A scroll that only flashes a message is removed under the stat id it was touched with
  (elements.go:1006); when the message took the place of one whose timer stood below it,
  what is removed is the stat after the scroll, which may be a player
  (`PlayerUsesScroll`, after which `IdentityKept` is not claimed).
* A socket that drops during a world transit stays attached, and its world loaded,
  against websocket_server.go:197 (`NoGhosts`, MCInstances.cfg, which has the transit).
* A superseded connection forgets the newer one's chat blocks, against
  websocket_server.go:3465 (`BlocksStay`, MCInstances.cfg with `Blockers <- First`,
  `SignedIn <- First`, `Gates = 0`, `MaxInst = 2`, `Grace = 2` and no symmetry).

Boards and objects
* A turn that goes astray: `ElementPlayerTick` moves by its stat id after a touch that
  may have removed a beast or a message timer (elements.go:1502, against placement.go:8-12);
  `DamageStat` and `killPlayer` go on with one after `DisplayMessage` (game.go:1410-1477);
  `TransporterMove`, the star, the duplicator and the blink wall's loop read slots after
  pushes and removals, and a tiger prowls after its shot. An unpausing player is moved by
  the cursor, which an attack may have stepped back (game.go:1513, 1935). A player above a
  timer or a beast in the list is then moved or killed in another's place, or left without
  health and without a countdown. On the boards of `Late` this happens, and `BoardWhole` and
  `DeadRespawn` claim nothing once it did (`astray`); without that they are violated.
* A duplicator copies a player's stat and touches its source in the name of stat 0, whoever
  stands in front of it (elements.go:946); one that faces itself pushes for ever (elements.go:949),
  where room_manager.go:860 counts on a room's step to end or to panic.
* A conveyor that turns stats takes the lower of two on a square for the one that has yet
  to move (elements.go:451), so that a player stands on a bear's square and a bear on the
  player's: a turn that goes astray too (`Carrying`, with a bear).
* `BoardAttack` steps the cursor back for an energized attacker who is not removed, so that
  a player acts twice in a step. A player killed while paused neither counts down nor
  stands still.
* A program whose last byte is a bare `#` plays for ever once it gets there: `OopReadWord` finds
  nothing and steps back to it (oop.go:46-48), and an empty word is read past without
  being counted (573-575), where room_manager.go:860 counts on a step to end or to panic.
  `TurnsEnd` leaves out that one byte (`Spins`), and is violated without.
* `#endgame` uses a stat id from before its command's removals (oop.go:667); `#take` of the last
  health arms nothing; an object that is the last stat and removes itself panics the
  room; after a removal a turn goes on as whichever object moved into its slot.
* `#zap` and `#restore` of a named object's label overwrite the word they search for. A touch of
  a locked object leaves an audience for a later window, against game.go:1105. Answers
  to windows pass an object's lock and name any slot.

Editor sessions
* An invitation made while another use of the access record is under way is lost, or
  overwritten by rights read at entry, against websocket_server.go:3052-3056
  (`InvitedMayEdit`, MCPeople.cfg).
* Erasing an object below a bound one changes what the bound one plays; a board opened
  over another's stats leaves their text in objects without a program; an author is
  shown a program that is not what plays (editor_session.go:1217-1254).
* A frame for everybody on a board carries no member id, and so a browser takes it as
  its own, permission to edit included (editor_session.go:698, main.ts:2392). A board's frame
  after Clear, Import or New world passes no gate.
* A lease on a board that is gone stays until its holder leaves.

Worlds and generation
* Publishing: two savers of a name race on its access record and its file; a failed
  host may remove a file an earlier play left (museum.go:258-260); a world is
  overwritten under its players (websocket_server.go:2887); the Museum's play asks neither
  ownership nor reservations; a write in place may leave a cut-off file.
* Dreams: typed names are not reserved (generation.go:500 says so), and so may take a
  minted stem, against generation.go:487-492, and race from check to claim; a retry of a
  job that landed may end "failed" because the world is being played (web_api.go:1055).
* generation.go:637-639 takes the retry's reset for the only way a stubbed board's counter
  is below the maximum, which it is not. The floor of salvage (671-676) turns away a
  world all of whose boards are stubs by then; boards stubbed later, because they crash,
  can still leave a world of stubs alone, which is accepted.

Scores, runs and recordings
* A slot filled after another was leaves the list unsorted (room_manager.go:277). A player
  who drops at the prompt leaves their pending score (websocket_server.go:3483, against
  room_manager.go:286). A dreamt world's manager has no file for its scores
  (websocket_server.go:2867). The list's file is written in place and read without the lock.
* A recorder that drops a tick makes a row that cannot be replayed, against
  challenge_run.go:325; a discarded run's recorder is detached without the lock; a row
  that is not kept is told as durable with rank 0; a write that fails leaves memory
  ahead of the file.
* A replay that was opened is never taken out of `ReplayInstances`; a frame built before a
  restart may be written after the restart's snapshot.

Streams
* A tick may queue a diff before a connection's own first frame (websocket_server.go:1289).
  A watcher whose room is frozen keeps its last frame (899-903), and watchers do not
  get what room_manager.go:975 says they do.
* Between a title's picture and its subscription, and while a browser reconnects, cells
  are lost; hosting a world again leaves subscribers with the old simulation.

People
* Between registration and seeding a blocked line is heard (chat_blocks.go:9-11). Two
  tabs of an account overwrite each other's stored blocks, may block their own account
  (chat_blocks.go:80-84), and are told "durable" when the write failed
  (websocket_server.go:3779). A guest's blocks are lost on resume.
* A kick ends the one socket that was located; other tabs of a refused account stay,
  and one that was past the door joins. A refusal whose document is not written stays
  in memory.
* Preferences are read, changed and put back without a lock (web_api.go:424-430); a
  join's colour may overwrite a whole new document (websocket_server.go:1691).

Gazette
* A crash loses rows that were not flushed and, with the pruning of days, resets a
  day's cap, against gazette_edition.go:92; hence `Restart` is a clean one. The ledger and the
  editions keep days for different windows (345); copies of the editions race to the
  file (375-398); a past day is printed again when its refresh began before midnight
  (31-33).
* A refresh reads its rows and the date before it takes the lock (258-268). One that
  waits there while newer days are written, until its day is pruned from the ledger and
  from the attempts (349-369), goes on with the rows it has and counts from nothing: the
  day is paid for past its cap, against "a day is attempted at most DailyWrites times"
  (32). Without the ghost `overdue`, which marks such a day, `SpendBounded` is violated
  in the run `services`.

ZWD
* A quote as a key makes a world that cannot be exported (zwd_decompile.go:200). A program
  line "end" ends its block. Exits and passages go by name: the first of two boards, or
  none. Conveyors' stats may be written and are not exported (zwd.go:925,
  zwd_decompile.go:531). Long lines are wrapped, which moves where a program has got to.

## 7. Not modelled

* **Presentation.** Video, sound, text windows, the terminal editor, the browser's
  rendering, and the encodings of the wire protocol and of the world file: pure
  conversions or input and output. Where a conversion loses something that a property
  is about (ZWD), it is modelled.
* **The model's prompts and plans.** What is asked of the language model, how its answer
  is parsed, and the repair of its text: nothing is promised of it, and the painted
  world is only as good as its gates, which are modelled (`Painting`).
* **Sign-in.** A sequence of requests to an outside service with one cookie between
  them. Read, not modelled: a second tab's start overwrites the first one's cookie; the
  cache of keys is last-writer-wins; without a configured secret a restart signs everybody
  out.
* **Chat admission's rate windows.** Counters over wall-clock time, local to one call.
* **Goals and ghosts of challenges**, which are judged by functions of one world or
  record; the run, its recorder and its leaderboard are modelled.
* **Counters of a player** (score, keys, torches, gems, ammunition, time) beyond what a turn
  or an instruction branches on, which is left open; `#play`, `#cycle` and `#char`, which
  no property here tells apart; flags inside the interpreter, whose sharing between
  rooms is `WorldScope`'s.
* **Serialization's bytes.** What a board keeps over a close and an open is in `Programs` and
  `ZWD`; the run-length code is a pure conversion.

What single modules leave out is said with them in section 3. The models meet where one
takes the other's outcome as a free choice (`Rooms` and the engines of `Board`, `Instances`
and the rooms of `Rooms`, `PublishedWorlds` and sessions), which covers what the
code does, but for the turns of several changes that section 3 names, and may cover more; `Rooms` and `Whereabouts`, and `EditFan`'s and `StatList`'s theorems, are
joined exactly. No module is a composition of all of them: their product is out of
TLC's reach.
