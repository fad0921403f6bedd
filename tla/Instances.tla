------------------------------ MODULE Instances ------------------------------
(***************************************************************************)
(* Hosted worlds and the connections that play in them: who is attached to *)
(* an avatar while sockets drop, browsers come back with a resume token,   *)
(* players walk from world to world and idle worlds are released.          *)
(*                                                                         *)
(* Two kinds of goroutine meet here.  Each connection runs ServeHTTP, which*)
(* takes the instance once, joins or resumes, and then reads messages until*)
(* its socket ends.  One ticker runs WebSocketServer.Tick.  Every action is*)
(* one stretch of code under one lock (an instance's, or the server's); the*)
(* locals that survive from one stretch to the next are variables, and so  *)
(* may be stale when they are used.                                        *)
(*                                                                         *)
(* Abstracted: boards and the simulation (an instance's step may take any  *)
(* players out of their rooms and send one through a gate), the contents of*)
(* messages, accounts but for their stored chat blocks.  Spectators, title *)
(* streams, challenges and saves are left out.                             *)
(***************************************************************************)
EXTENDS Naturals, FiniteSets

CONSTANTS
  World,     \* the names of worlds that load
  Default,   \* the world of DefaultInstance
  Unhosted,  \* a destination that does not load
  Conn,      \* connections, each made once
  MaxPlayer, \* Bound: player ids minted
  MaxInst,   \* Bound: instances made
  Gates,     \* Bound: how often players walk through gates to other worlds
  Grace,     \* ReconnectGraceTicks
  IdleLimit, \* InstanceEvictIdleTicks
  Blockers,  \* Bound: the players who block somebody
  SignedIn,  \* the players of signed-in connections
  None       \* nil

ASSUME WorldAssumption == Default \in World /\ Unhosted \notin World
ASSUME LimitAssumption ==
  /\ Grace \in Nat \ {0} /\ IdleLimit \in Nat \ {0}
  /\ MaxPlayer \in Nat /\ MaxInst \in Nat \ {0} /\ Gates \in Nat

Player == 1 .. MaxPlayer
Inst == 1 .. MaxInst

ASSUME NoneAssumption ==
  None \notin Conn /\ None \notin Inst /\ None \notin Player /\ None \notin World

VARIABLES
  hosted,  \* s.Instances, None where a world has no instance
  inst,    \* the WorldInstances
  made,    \* how many instances were made
  minted,  \* s.nextPlayerID
  issued,  \* how many resume tokens were minted
  conn,    \* a connection: its client and the locals of its ServeHTTP
  step,    \* where WebSocketServer.Tick is
  queue,   \* the instances it has still to visit
  gate,    \* the world transit it is completing
  blocking, saved  \* chatBlocks: blockers with a live set; accounts with a stored one

worldVars == <<hosted, inst, made, minted, issued>>
tickVars  == <<step, queue, gate>>
chatVars  == <<blocking, saved>>
vars == <<worldVars, conn, tickVars, chatVars>>

(* A resume token is the number of its minting; 0 is no token.             *)
NewInst ==
  [avatars  |-> {},                          \* RoomManager.players
   pending  |-> {},                          \* RoomManager.pendingScores
   clients  |-> [p \in Player |-> None],     \* Clients
   inputs   |-> {},                          \* Inputs
   quitting |-> {},                          \* the engines' pending quit replies
   detached |-> [p \in Player |-> 0],        \* Detached, 0 if not in it
   token    |-> [p \in Player |-> 0],        \* TokensByPlayer and ResumeTokens
   idle     |-> 0]                           \* idleTicks

NewConn ==
  [pc |-> "new", inst |-> None, world |-> None, player |-> None,
   offer |-> 0, token |-> 0, dead |-> FALSE]

NoGate == [player |-> None, world |-> None, from |-> None, to |-> None, client |-> None]

Init ==
  /\ hosted = [w \in World |-> IF w = Default THEN 1 ELSE None]
  /\ inst = [i \in Inst |-> NewInst]
  /\ made = 1 /\ minted = 0 /\ issued = 0
  /\ conn = [c \in Conn |-> NewConn]
  /\ step = "rest" /\ queue = {} /\ gate = NoGate
  /\ blocking = {} /\ saved = {}

Connected(r) == {p \in Player : r.clients[p] # None}
Detached(r)  == {p \in Player : r.detached[p] > 0}
Hosted       == {hosted[w] : w \in World} \ {None}

-----------------------------------------------------------------------------
(* What the handlers do to an instance, under its lock.                    *)

Unplug(r, p) == [r EXCEPT !.clients[p] = None, !.inputs = @ \ {p}]
Forget(r, p) == [r EXCEPT !.token[p] = 0, !.detached[p] = 0]
(* A bug: the stat stays on its board.                                     *)
RemoveButForStat(r, p) == Forget(r, p)

Remove(r, p) == [Forget(r, p) EXCEPT !.avatars = @ \ {p}, !.pending = @ \ {p}]

(* A bug: a player who has quit is left with their connection.             *)
ReadLoopExitOfPlayers(r, c, p) ==
  IF r.clients[p] # c \/ p \notin r.avatars THEN r
  ELSE [Unplug(r, p) EXCEPT !.detached[p] = Grace]

(* The connection loses its avatar, unless a newer one has taken it over.  *)
ReadLoopExit(r, c, p) ==
  IF r.clients[p] # c THEN r
  ELSE IF p \in r.avatars THEN [Unplug(r, p) EXCEPT !.detached[p] = Grace]
  ELSE Forget(Unplug(r, p), p)

(* A bug: the countdown goes on.                                           *)
AttachCounting(r, c, p) == [r EXCEPT !.clients[p] = c]

(* A bug: a token is good for one reconnect.                               *)
AttachOnce(r, c, p) == [r EXCEPT !.clients[p] = c, !.detached[p] = 0, !.token[p] = 0]

Attach(r, c, p) == [r EXCEPT !.clients[p] = c, !.detached[p] = 0]

JoinAs(r, c, p) ==
  [r EXCEPT !.avatars = @ \cup {p}, !.clients[p] = c,
            !.token[p] = IF @ = 0 THEN issued + 1 ELSE @]

(* A bug: the last tick is never counted.                                  *)
ExpireNever(r) ==
  [r EXCEPT !.detached = [p \in Player |-> IF @[p] <= 1 THEN @[p] ELSE @[p] - 1]]

Expire(r) ==
  LET due == {p \in Player : r.detached[p] = 1}
  IN [r EXCEPT !.detached = [p \in Player |-> IF @[p] = 0 THEN 0 ELSE @[p] - 1],
               !.token = [p \in Player |-> IF p \in due THEN 0 ELSE @[p]],
               !.avatars = @ \ due, !.pending = @ \ due]

(* The room manager's step, as far as players come and go in it.           *)
Quitters(r) == r.quitting \cap r.avatars

Stepped(r, lost, ranked) ==
  [r EXCEPT !.avatars = @ \ (Quitters(r) \cup lost), !.pending = @ \cup ranked,
            !.inputs = {}, !.quitting = {}]

(* A bug: a score that nobody has named holds its world.                   *)
EvictableWhenNamed(r) ==
  Connected(r) = {} /\ r.inputs = {} /\ Detached(r) = {} /\ r.avatars = {} /\ r.pending = {}

Evictable(r) ==
  Connected(r) = {} /\ r.inputs = {} /\ Detached(r) = {} /\ r.avatars = {}

(* GetOrCreateInstance: i is the instance of world w.                      *)
Obtain(w, i) ==
  \/ /\ hosted[w] = i
     /\ UNCHANGED <<hosted, made>>
  \/ /\ hosted[w] = None
     /\ i = made + 1
     /\ made' = i
     /\ hosted' = [hosted EXCEPT ![w] = i]

-----------------------------------------------------------------------------
(* A connection.                                                           *)

(* The world's instance is found before the socket is even accepted.       *)
Arrive(c, w) ==
  /\ conn[c].pc = "new"
  /\ \E i \in Inst :
       /\ Obtain(w, i)
       /\ conn' = [conn EXCEPT ![c].pc = "arrived", ![c].inst = i, ![c].world = w]
  /\ UNCHANGED <<inst, minted, issued, tickVars, chatVars>>

(* No join message comes, or the account is refused.                       *)
TurnAway(c) ==
  /\ conn[c].pc = "arrived"
  /\ conn' = [conn EXCEPT ![c].pc = "ended", ![c].dead = TRUE]
  /\ UNCHANGED <<worldVars, tickVars, chatVars>>

(* tryResume with a token some browser was given.                          *)
TryResume(c) ==
  LET i == conn[c].inst IN
  /\ conn[c].pc = "arrived"
  /\ \E t \in {conn[d].token : d \in Conn} \ {0} :
       LET named == {p \in Player : inst[i].token[p] = t} IN
       \/ /\ named = {}
          /\ conn' = [conn EXCEPT ![c].pc = "fresh"]
          /\ UNCHANGED inst
       \/ \E p \in named \ inst[i].avatars :
            /\ conn' = [conn EXCEPT ![c].pc = "fresh"]
            /\ inst' = [inst EXCEPT ![i] = Forget(@, p)]
       \/ \E p \in named \cap inst[i].avatars :
            /\ conn' = [conn EXCEPT ![c].pc = "greeting", ![c].player = p, ![c].offer = t]
            /\ inst' = [inst EXCEPT ![i] = Attach(@, c, p)]
  /\ UNCHANGED <<hosted, made, minted, issued, tickVars, chatVars>>

FreshJoin(c) ==
  LET i == conn[c].inst
      p == minted + 1
  IN
  /\ conn[c].pc \in {"arrived", "fresh"}
  /\ p \in Player
  /\ minted' = p
  /\ inst' = [inst EXCEPT ![i] = JoinAs(@, c, p)]
  /\ issued' = issued + 1
  /\ conn' = [conn EXCEPT ![c].pc = "greeting", ![c].player = p, ![c].offer = issued + 1]
  /\ UNCHANGED <<hosted, made, tickVars, chatVars>>

(* Stored blocks go live, and the snapshot is written.                     *)
Greet(c) ==
  LET p == conn[c].player IN
  /\ conn[c].pc = "greeting"
  /\ \/ /\ ~conn[c].dead
        /\ conn' = [conn EXCEPT ![c].pc = "reading", ![c].token = conn[c].offer]
        /\ blocking' = blocking \cup ({p} \cap saved)
        /\ UNCHANGED inst
     \/ /\ conn[c].dead
        /\ conn' = [conn EXCEPT ![c].pc = "stopping"]
        /\ inst' = [inst EXCEPT ![conn[c].inst] = ReadLoopExit(@, c, p)]
        /\ blocking' = blocking \ {p}
  /\ UNCHANGED <<hosted, made, minted, issued, saved, tickVars>>

(* The writer fails, overflows or is stopped by a moderator: the socket is *)
(* closed, and nothing more can be written to the client.                  *)
Fail(c) ==
  /\ conn[c].pc \in {"arrived", "fresh", "greeting", "reading"}
  /\ ~conn[c].dead
  /\ conn' = [conn EXCEPT ![c].dead = TRUE]
  /\ UNCHANGED <<worldVars, tickVars, chatVars>>

(* A message goes to the instance its client's world has now.              *)
Hearing(c) == conn[c].pc = "reading" /\ hosted[conn[c].world] # None

SetInput(c) ==
  LET i == hosted[conn[c].world] IN
  /\ Hearing(c)
  /\ conn[c].player \in Connected(inst[i])
  /\ inst' = [inst EXCEPT ![i].inputs = @ \cup {conn[c].player}]
  /\ UNCHANGED <<hosted, made, minted, issued, conn, tickVars, chatVars>>

SubmitQuitReply(c) ==
  LET i == hosted[conn[c].world] IN
  /\ Hearing(c)
  /\ conn[c].player \in Connected(inst[i]) \cap inst[i].avatars
  /\ inst' = [inst EXCEPT ![i].quitting = @ \cup {conn[c].player}]
  /\ UNCHANGED <<hosted, made, minted, issued, conn, tickVars, chatVars>>

RecordHighScore(c) ==
  LET i == hosted[conn[c].world] IN
  /\ Hearing(c)
  /\ conn[c].player \in Connected(inst[i]) \cap inst[i].pending
  /\ inst' = [inst EXCEPT ![i].pending = @ \ {conn[c].player}]
  /\ UNCHANGED <<hosted, made, minted, issued, conn, tickVars, chatVars>>

SubmitChatBlock(c) ==
  LET p == conn[c].player IN
  /\ Hearing(c) /\ p \in Blockers
  /\ blocking' = blocking \cup {p}
  /\ saved' = saved \cup ({p} \cap SignedIn)
  /\ UNCHANGED <<worldVars, conn, tickVars>>

(* A message that finds no instance ends the loop.                         *)
HearInVain(c) ==
  /\ conn[c].pc = "reading" /\ hosted[conn[c].world] = None
  /\ conn' = [conn EXCEPT ![c].pc = "closing"]
  /\ UNCHANGED <<worldVars, tickVars, chatVars>>

(* A bug: the instance that is looked up is not compared with nil.         *)
EndLoopUnchecked(c) ==
  /\ conn[c].pc \in {"reading", "closing"}
  /\ conn' = [conn EXCEPT ![c].pc = "leaving", ![c].inst = hosted[conn[c].world]]
  /\ UNCHANGED <<worldVars, tickVars, chatVars>>

(* The loop has ended, or the read fails: the instance is looked up again. *)
EndLoop(c) ==
  LET i == hosted[conn[c].world] IN
  /\ conn[c].pc \in {"reading", "closing"}
  /\ conn' = [conn EXCEPT ![c].pc = IF i = None THEN "stopping" ELSE "leaving", ![c].inst = i]
  /\ UNCHANGED <<worldVars, tickVars, chatVars>>

HandleReadLoopExit(c) ==
  /\ conn[c].pc = "leaving"
  /\ inst' = [inst EXCEPT ![conn[c].inst] = ReadLoopExit(@, c, conn[c].player)]
  /\ blocking' = blocking \ {conn[c].player}
  /\ conn' = [conn EXCEPT ![c].pc = "stopping"]
  /\ UNCHANGED <<hosted, made, minted, issued, saved, tickVars>>

Stop(c) ==
  /\ conn[c].pc = "stopping"
  /\ conn' = [conn EXCEPT ![c].pc = "ended", ![c].dead = TRUE]
  /\ UNCHANGED <<worldVars, tickVars, chatVars>>

-----------------------------------------------------------------------------
(* The ticker.                                                             *)

BeginTick ==
  /\ step = "rest"
  /\ step' = "expire" /\ queue' = Hosted
  /\ UNCHANGED <<worldVars, conn, gate, chatVars>>

ExpireDetached ==
  /\ step = "expire"
  /\ \E i \in queue :
       /\ inst' = [inst EXCEPT ![i] = Expire(@)]
       /\ queue' = queue \ {i}
  /\ UNCHANGED <<hosted, made, minted, issued, conn, step, gate, chatVars>>

BeginSteps ==
  /\ step = "expire" /\ queue = {}
  /\ step' = "step" /\ queue' = Hosted
  /\ UNCHANGED <<worldVars, conn, gate, chatVars>>

(* One instance steps: who confirmed a quit leaves, with a score that ranks*)
(* or not, a failing room may lose its players, and one player who moved    *)
(* may have walked through a gate.                                         *)
TickInstance ==
  /\ step = "step"
  /\ \E i \in queue :
       /\ \E lost \in SUBSET inst[i].avatars, ranked \in SUBSET Quitters(inst[i]) :
            inst' = [inst EXCEPT ![i] = Stepped(@, lost, ranked)]
       /\ queue' = queue \ {i}
       /\ \/ UNCHANGED <<step, gate>>
          \/ /\ issued < minted + Gates
             /\ step' = "opening"
             /\ \E p \in inst[i].inputs \cap inst[i].avatars, w \in World \cup {Unhosted} :
                  gate' = [NoGate EXCEPT !.player = p, !.world = w, !.from = i]
  /\ UNCHANGED <<hosted, made, minted, issued, conn, chatVars>>

(* completeWorldTransit, cut where its locks are released: the destination *)
(* is found, the source is left, the destination is joined, the client is  *)
(* sent its snapshot.                                                      *)
TransitDone == step' = "step" /\ gate' = NoGate

OpenGate ==
  /\ step = "opening"
  /\ \/ /\ gate.world = Unhosted
        /\ TransitDone
        /\ UNCHANGED <<hosted, made>>
     \/ /\ gate.world # Unhosted
        /\ step' = "departing"
        /\ \E i \in Inst : Obtain(gate.world, i) /\ gate' = [gate EXCEPT !.to = i]
  /\ UNCHANGED <<inst, minted, issued, conn, queue, chatVars>>

LeaveSource ==
  LET p == gate.player
      r == inst[gate.from]
  IN
  /\ step = "departing"
  /\ \/ /\ p \notin Connected(r) \cap r.avatars
        /\ TransitDone
        /\ UNCHANGED inst
     \/ /\ p \in Connected(r) \cap r.avatars
        /\ inst' = [inst EXCEPT ![gate.from] = Remove(Unplug(@, p), p)]
        /\ gate' = [gate EXCEPT !.client = r.clients[p]]
        /\ step' = "arriving"
  /\ UNCHANGED <<hosted, made, minted, issued, conn, queue, chatVars>>

JoinDestination ==
  /\ step = "arriving"
  /\ inst' = [inst EXCEPT ![gate.to] = JoinAs(@, gate.client, gate.player)]
  /\ issued' = IF inst[gate.to].token[gate.player] = 0 THEN issued + 1 ELSE issued
  /\ conn' = [conn EXCEPT ![gate.client].world = gate.world]
  /\ step' = "welcoming"
  /\ UNCHANGED <<hosted, made, minted, queue, gate, chatVars>>

Welcome ==
  LET p == gate.player
      c == gate.client
  IN
  /\ step = "welcoming"
  /\ \/ /\ ~conn[c].dead
        /\ conn' = [conn EXCEPT ![c].token = inst[gate.to].token[p]]
        /\ UNCHANGED <<inst, blocking>>
     \/ /\ conn[c].dead
        /\ inst' = [inst EXCEPT ![gate.to] = ReadLoopExit(@, c, p)]
        /\ blocking' = blocking \ {p}
        /\ UNCHANGED conn
  /\ TransitDone
  /\ UNCHANGED <<hosted, made, minted, issued, queue, saved>>

(* Instances that have been idle long enough are released.                 *)
EvictIdle ==
  LET idle(i) == IF Evictable(inst[i]) THEN inst[i].idle + 1 ELSE 0
      swept == Hosted \ {hosted[Default]}
  IN
  /\ step = "step" /\ queue = {}
  /\ inst' = [i \in Inst |-> IF i \in swept THEN [inst[i] EXCEPT !.idle = idle(i)] ELSE inst[i]]
  /\ hosted' = [w \in World |-> IF hosted[w] \in swept /\ idle(hosted[w]) >= IdleLimit
                                THEN None ELSE hosted[w]]
  /\ step' = "rest"
  /\ UNCHANGED <<made, minted, issued, conn, queue, gate, chatVars>>

-----------------------------------------------------------------------------
Ticker ==
  \/ BeginTick \/ ExpireDetached \/ BeginSteps \/ TickInstance \/ EvictIdle
  \/ OpenGate \/ LeaveSource \/ JoinDestination \/ Welcome

(* What the goroutine of a connection does without the browser's help.     *)
Teardown(c) ==
  \/ conn[c].pc = "fresh" /\ FreshJoin(c)
  \/ Greet(c) \/ HandleReadLoopExit(c) \/ Stop(c)
  \/ (conn[c].dead \/ conn[c].pc = "closing") /\ EndLoop(c)

Connection(c) ==
  \/ \E w \in World : Arrive(c, w)
  \/ TurnAway(c) \/ TryResume(c) \/ FreshJoin(c) \/ Greet(c) \/ Fail(c)
  \/ SetInput(c) \/ SubmitQuitReply(c) \/ RecordHighScore(c) \/ SubmitChatBlock(c)
  \/ HearInVain(c) \/ EndLoop(c) \/ HandleReadLoopExit(c) \/ Stop(c)

Next == Ticker \/ \E c \in Conn : Connection(c)

Spec == Init /\ [][Next]_vars

(* The ticker goroutine keeps ticking and a handler runs to its end; no    *)
(* browser is obliged to do anything.                                      *)
FairSpec ==
  Spec /\ WF_vars(Ticker) /\ \A c \in Conn : WF_vars(Teardown(c))

-----------------------------------------------------------------------------
InstanceRecord ==
  [avatars : SUBSET Player, pending : SUBSET Player, inputs : SUBSET Player,
   quitting : SUBSET Player, clients : [Player -> Conn \cup {None}],
   detached : [Player -> 0 .. Grace], token : [Player -> Nat], idle : Nat]

PCs == {"new", "arrived", "fresh", "greeting", "reading", "closing", "leaving",
        "stopping", "ended"}

ConnRecord ==
  [pc : PCs, inst : Inst \cup {None}, world : World \cup {None},
   player : Player \cup {None}, offer : Nat, token : Nat, dead : BOOLEAN]

GateRecord ==
  [player : Player \cup {None}, world : World \cup {None, Unhosted},
   from : Inst \cup {None}, to : Inst \cup {None}, client : Conn \cup {None}]

WorldsTyped ==
  /\ hosted \in [World -> Inst \cup {None}]
  /\ inst \in [Inst -> InstanceRecord]
  /\ made \in Inst /\ minted \in 0 .. MaxPlayer /\ issued \in Nat

ConnsTyped ==
  /\ conn \in [Conn -> ConnRecord]
  /\ \A c \in Conn :
       /\ conn[c].pc \in {"arrived", "fresh", "greeting", "leaving"} => conn[c].inst \in Inst
       /\ conn[c].pc # "new" => conn[c].world \in World
       /\ conn[c].pc \in {"greeting", "reading", "closing", "leaving"} => conn[c].player \in Player

TickTyped ==
  /\ step \in {"expire", "step", "rest", "opening", "departing", "arriving", "welcoming"}
  /\ queue \subseteq Inst
  /\ gate \in GateRecord
  /\ step \in {"opening", "departing", "arriving", "welcoming"} =>
       gate.player \in Player /\ gate.from \in Inst /\ gate.world \in World \cup {Unhosted}
  /\ step \in {"departing", "arriving", "welcoming"} => gate.to \in Inst /\ gate.world \in World
  /\ step \in {"arriving", "welcoming"} => gate.client \in Conn

ChatTyped == blocking \subseteq Player /\ saved \subseteq Player

(* The types of the declarations, and which locals are set where they are  *)
(* used: ServeHTTP dereferences its instance and its client's world, and   *)
(* completeWorldTransit its destination, without looking.                  *)
TypeOK == WorldsTyped /\ ConnsTyped /\ TickTyped /\ ChatTyped

(* Whatever joins, resumes, drops and transits happen at once, a player has*)
(* an avatar in one world at most (a transit leaves one instance's lock    *)
(* before it takes the other's).                                           *)
OneAvatar ==
  \A i, j \in Inst : i # j => inst[i].avatars \cap inst[j].avatars = {}

(* An avatar is played by a connection or is counting down, never neither, *)
(* and an entry counting down has no connection: expiry (removeDetached-   *)
(* Locked) never takes the avatar of a player who is connected.            *)
AvatarsAttended ==
  \A i \in Inst :
    /\ inst[i].avatars \subseteq Connected(inst[i]) \cup Detached(inst[i])
    /\ Connected(inst[i]) \cap Detached(inst[i]) = {}

(* Every avatar can be reclaimed: it has a resume token in its instance, and*)
(* no token names two players or means something in two instances.         *)
TokensReclaim ==
  \A i, j \in Inst, p, q \in Player :
    /\ p \in inst[i].avatars => inst[i].token[p] # 0
    /\ (inst[i].token[p] # 0 /\ inst[i].token[p] = inst[j].token[q]) => (i = j /\ p = q)

(* Nothing in the instance of a world comes from a connection that is gone.*)
NoGhosts ==
  step # "welcoming" => \A i \in Hosted, p \in Player :
    inst[i].clients[p] # None => conn[inst[i].clients[p]].pc # "ended"

(* What a connection holds stays hosted (websocket_server.go:16).          *)
PlayersAreHosted ==
  \A c \in Conn : conn[c].pc = "reading" =>
    \A i \in Inst : inst[i].clients[conn[c].player] = c => i \in Hosted

(* A signed-in player's stored blocks are live while they read chat.       *)
BlocksStay ==
  \A c \in Conn, i \in Hosted :
    conn[c].pc = "reading" /\ inst[i].clients[conn[c].player] = c /\ conn[c].player \in saved
      => conn[c].player \in blocking

(* A dropped player's entry does not count down for ever: it is taken up   *)
(* again or expires.                                                       *)
DetachedResolve ==
  \A p \in Player :
    (\E i \in Hosted : inst[i].detached[p] > 0) ~> (\A i \in Hosted : inst[i].detached[p] = 0)

(* When every connection has gone, every world but the default is released *)
(* and nobody is left standing in it.                                      *)
WorldsReleased ==
  (\A c \in Conn : conn[c].pc = "ended") ~>
     /\ Hosted = {hosted[Default]}
     /\ inst[hosted[Default]].avatars = {}
=============================================================================
