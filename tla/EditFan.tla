------------------------------- MODULE EditFan -------------------------------
(***************************************************************************)
(* How the members of an editor session are told of each other's edits.    *)
(* Every operation runs under EditorSession.mu, one at a time; what it     *)
(* sends is written to the members' queues afterwards, by the goroutine of *)
(* whoever did it and with no lock held.  An edit's diff goes through a    *)
(* gate that serves tickets in order; the other operations' frames do not. *)
(*                                                                         *)
(* A handler is an action, and so is each write.                           *)
(*                                                                         *)
(* Abstracted: a square is the number of the change that made it, Cell     *)
(* stands for the squares, StatCell for the one a stat dialog redraws.     *)
(* Leases and who holds them are left out: any editor may do what a lease  *)
(* would allow.  So are resumed memberships (a reconnect is a new member), *)
(* cursors and presence, names, test play, saving and invitations, and what*)
(* a browser makes of what it gets.                                        *)
(***************************************************************************)
EXTENDS Naturals

CONSTANTS
  Client,    \* connections, each made once
  Cell, StatCell,
  MAX_BOARD,
  MaxWrites, \* Bound: changes of squares
  MaxEdits   \* Bound: tickets issued

ASSUME BoardAssumption ==
  /\ StatCell \in Cell /\ MAX_BOARD \in Nat
  /\ MaxWrites \in Nat /\ MaxEdits \in Nat

Board == 0 .. MAX_BOARD

VARIABLES
  members,     \* Members
  readOnly,    \* those of them whose account may not edit
  memberBoard, \* memberBoard, 0 for who is no member
  open,        \* the engine's CurrentBoard
  boardCount,  \* the engine's BoardCount
  tiles,       \* the squares of every board
  writes,      \* how many changes there were
  fanTicket, fanServing,
  conn         \* the goroutine of a connection and its locals

memberVars == <<members, readOnly, memberBoard>>
worldVars  == <<open, boardCount, tiles, writes>>
fanVars    == <<fanTicket, fanServing>>
vars == <<memberVars, worldVars, fanVars, conn>>

NoMessage ==
  [kind |-> "none", board |-> 0, squares |-> {}, cells |-> [x \in Cell |-> 0]]

NewConn == [pc |-> "new", dead |-> FALSE, ticket |-> 0, msg |-> NoMessage, to |-> {}]

(* The session is made on the board its world was saved on.                *)
Init ==
  /\ members = {} /\ readOnly = {} /\ memberBoard = [c \in Client |-> 0]
  /\ boardCount \in Board /\ open \in 0 .. boardCount
  /\ tiles = [b \in Board |-> [x \in Cell |-> 0]] /\ writes = 0
  /\ fanTicket = 0 /\ fanServing = 0
  /\ conn = [c \in Client |-> NewConn]

MayEdit(c) == c \in members \ readOnly
Viewing(b) == {m \in members : memberBoard[m] = b}

(* A bug: the board is not asked to exist still.                           *)
FocusUnchecked(c) == memberBoard[c]

(* The board the engine is put on before a member's operation.             *)
Focus(c) == IF memberBoard[c] <= boardCount THEN memberBoard[c] ELSE 0

(* Apply: the member's operation leaves the engine, and so the member, on b.*)
AppliedOn(c, b) ==
  /\ memberBoard' = [memberBoard EXCEPT ![c] = b]
  /\ open' = b

Change(b, S) ==
  /\ writes < MaxWrites
  /\ writes' = writes + 1
  /\ tiles' = [tiles EXCEPT ![b] = [x \in Cell |-> IF x \in S THEN writes + 1 ELSE @[x]]]

-----------------------------------------------------------------------------
(* Messages.  Whose squares a board's frame or a stat's reply brings, to   *)
(* those who view it, does not matter here; a diff's do.                   *)
Diff(b, S, t) ==
  [kind |-> "diff", board |-> b, squares |-> S,
   cells |-> [x \in Cell |-> IF x \in S THEN t[b][x] ELSE 0]]

Frame(b) == [NoMessage EXCEPT !.kind = "frame", !.board = b]

Sending(c, pc, m, to) == [conn EXCEPT ![c].pc = pc, ![c].msg = m, ![c].to = to]

(* To everybody who views the board, to be listed when they are written to.*)
Broadcast(c, b) == conn' = Sending(c, "list", Frame(b), {})

(* To the one who asked.                                                   *)
Reply(c, b) == conn' = Sending(c, "send", Frame(b), {c})

Working(c) == conn[c].pc = "loop" /\ ~conn[c].dead

-----------------------------------------------------------------------------
(* Coming and going.                                                       *)

Enter(c) ==
  /\ conn[c].pc = "new"
  /\ members' = members \cup {c}
  /\ readOnly' \in {readOnly, readOnly \cup {c}}
  /\ memberBoard' = [memberBoard EXCEPT ![c] = open]
  /\ conn' = [conn EXCEPT ![c].pc = "entered"]
  /\ UNCHANGED <<worldVars, fanVars>>

(* The entry snapshot is taken, and then written.                          *)
Snapshot(c) ==
  LET b == Focus(c) IN
  /\ conn[c].pc = "entered"
  /\ AppliedOn(c, b)
  /\ conn' = Sending(c, "greeting", Frame(b), {})
  /\ UNCHANGED <<members, readOnly, boardCount, tiles, writes, fanVars>>

Greet(c) ==
  /\ conn[c].pc = "greeting"
  /\ conn' = Sending(c, IF conn[c].dead THEN "leaving" ELSE "loop", NoMessage, {})
  /\ UNCHANGED <<memberVars, worldVars, fanVars>>

(* The socket closes, or the member's queue overflows.                     *)
Fail(c) ==
  /\ conn[c].pc \notin {"new", "leaving", "ended"} /\ ~conn[c].dead
  /\ conn' = [conn EXCEPT ![c].dead = TRUE]
  /\ UNCHANGED <<memberVars, worldVars, fanVars>>

(* The browser says so, or the next read fails.                            *)
Leave(c) ==
  /\ conn[c].pc = "loop"
  /\ conn' = [conn EXCEPT ![c].pc = "leaving"]
  /\ UNCHANGED <<memberVars, worldVars, fanVars>>

Exit(c) ==
  /\ conn[c].pc = "leaving"
  /\ members' = members \ {c} /\ readOnly' = readOnly \ {c}
  /\ memberBoard' = [memberBoard EXCEPT ![c] = 0]
  /\ conn' = [conn EXCEPT ![c] = [NewConn EXCEPT !.pc = "ended", !.dead = TRUE]]
  /\ UNCHANGED <<worldVars, fanVars>>

-----------------------------------------------------------------------------
(* Edits.                                                                  *)

(* With a ticket, and what is to be sent when it is served.                *)
AtGate(c, m) == conn' = [Sending(c, "gate", m, {}) EXCEPT ![c].ticket = fanTicket]

(* A bug: a refused edit goes back to its loop past the gate.              *)
EditPastGate(c) ==
  LET b == Focus(c) IN
  /\ Working(c) /\ ~MayEdit(c)
  /\ fanTicket < MaxEdits
  /\ fanTicket' = fanTicket + 1
  /\ AppliedOn(c, b)
  /\ UNCHANGED <<members, readOnly, boardCount, tiles, writes, fanServing, conn>>

(* EditAndFanOut: the ticket is taken where the squares are changed, and   *)
(* taken even if the member may not edit and nothing will be sent.  An edit*)
(* draws the neighbours of what it changes, or nothing if it is no use.    *)
Edit(c) ==
  LET b == Focus(c) IN
  /\ Working(c)
  /\ fanTicket < MaxEdits
  /\ \/ /\ MayEdit(c)
        /\ \E S \in SUBSET Cell : \E drawn \in SUBSET Cell :
             /\ S \subseteq drawn
             /\ \/ S # {} /\ Change(b, S)
                \/ S = {} /\ UNCHANGED <<tiles, writes>>
             /\ AtGate(c, Diff(b, drawn, tiles'))
     \/ /\ ~MayEdit(c)
        /\ AtGate(c, NoMessage)
        /\ UNCHANGED <<tiles, writes>>
  /\ fanTicket' = fanTicket + 1
  /\ AppliedOn(c, b)
  /\ UNCHANGED <<members, readOnly, boardCount, fanServing>>

(* A bug: the gate lets everybody through.                                 *)
TakeAnyTurn(c) ==
  /\ conn[c].pc = "gate"
  /\ conn' = [conn EXCEPT ![c].pc = "turn",
               ![c].to = IF conn[c].msg.kind = "none" THEN {} ELSE Viewing(conn[c].msg.board)]
  /\ UNCHANGED <<memberVars, worldVars, fanVars>>

(* inOrder: the diff goes out when its ticket is served, to those who view *)
(* its board by then.                                                      *)
TakeTurn(c) ==
  /\ conn[c].pc = "gate" /\ conn[c].ticket = fanServing
  /\ conn' = [conn EXCEPT ![c].pc = "turn",
               ![c].to = IF conn[c].msg.kind = "none" THEN {} ELSE Viewing(conn[c].msg.board)]
  /\ UNCHANGED <<memberVars, worldVars, fanVars>>

(* A bug: who has lost their socket does not retire the ticket.            *)
RetireAlive(c) ==
  /\ conn[c].pc = "turn" /\ conn[c].to = {}
  /\ fanServing' = IF conn[c].dead THEN fanServing ELSE fanServing + 1
  /\ conn' = [Sending(c, "loop", NoMessage, {}) EXCEPT ![c].ticket = 0]
  /\ UNCHANGED <<memberVars, worldVars, fanTicket>>

Retire(c) ==
  /\ conn[c].pc = "turn" /\ conn[c].to = {}
  /\ fanServing' = fanServing + 1
  /\ conn' = [Sending(c, "loop", NoMessage, {}) EXCEPT ![c].ticket = 0]
  /\ UNCHANGED <<memberVars, worldVars, fanTicket>>

-----------------------------------------------------------------------------
(* Everything else.                                                        *)

(* ClearBoard and ImportBoard: every square is new.                        *)
ReplaceBoard(c) ==
  LET b == Focus(c) IN
  /\ Working(c) /\ MayEdit(c)
  /\ Change(b, Cell) /\ AppliedOn(c, b)
  /\ Broadcast(c, b)
  /\ UNCHANGED <<members, readOnly, boardCount, fanVars>>

(* A refused import is answered with the board as it is, to all; so is a   *)
(* board too many.                                                         *)
ShowBoard(c) ==
  LET b == Focus(c) IN
  /\ Working(c)
  /\ AppliedOn(c, b)
  /\ Broadcast(c, b)
  /\ UNCHANGED <<members, readOnly, boardCount, tiles, writes, fanVars>>

(* SetProperty: a title, an exit, a board gone dark.                       *)
SetProperty(c) ==
  LET b == Focus(c) IN
  /\ Working(c) /\ MayEdit(c)
  /\ AppliedOn(c, b)
  /\ Broadcast(c, b)
  /\ UNCHANGED <<members, readOnly, boardCount, tiles, writes, fanVars>>

(* SetStat and SaveProgram: the stat's square is drawn again.              *)
SetStat(c) ==
  LET b == Focus(c) IN
  /\ Working(c) /\ MayEdit(c)
  /\ Change(b, {StatCell}) /\ AppliedOn(c, b)
  /\ Reply(c, b)
  /\ UNCHANGED <<members, readOnly, boardCount, fanVars>>

AddBoard(c) ==
  LET b == boardCount + 1 IN
  /\ Working(c) /\ MayEdit(c)
  /\ b \in Board
  /\ boardCount' = b
  /\ Change(b, Cell) /\ AppliedOn(c, b)
  /\ Broadcast(c, b)
  /\ UNCHANGED <<members, readOnly, fanVars>>

(* One empty board is left, with every member on it.                       *)
NewWorld(c) ==
  /\ Working(c) /\ MayEdit(c)
  /\ Change(0, Cell)
  /\ boardCount' = 0 /\ open' = 0 /\ memberBoard' = [m \in Client |-> 0]
  /\ Broadcast(c, 0)
  /\ UNCHANGED <<members, readOnly, fanVars>>

SwitchBoard(c) ==
  /\ Working(c)
  /\ \E b \in 0 .. boardCount :
       AppliedOn(c, b) /\ Reply(c, b)
  /\ UNCHANGED <<members, readOnly, boardCount, tiles, writes, fanVars>>

(* Another world takes the place of this one, and its uploader is shown it.*)
UploadWorld(c) ==
  /\ Working(c) /\ MayEdit(c) /\ writes < MaxWrites
  /\ writes' = writes + 1
  /\ tiles' = [b \in Board |-> [x \in Cell |-> writes + 1]]
  /\ \E n \in Board : \E b \in 0 .. n :
       boardCount' = n /\ AppliedOn(c, b) /\ Reply(c, b)
  /\ UNCHANGED <<members, readOnly, fanVars>>

(* Inspect, ProgramText, ExportBoard, WorldBytes, and what is refused.     *)
LookUp(c) ==
  LET b == Focus(c) IN
  /\ Working(c)
  /\ AppliedOn(c, b)
  /\ UNCHANGED <<members, readOnly, boardCount, tiles, writes, fanVars, conn>>

(* fanOutEditorBoardChange and the handlers' own writes.                   *)
ListViewers(c) ==
  /\ conn[c].pc = "list"
  /\ conn' = [conn EXCEPT ![c].pc = "send", ![c].to = Viewing(conn[c].msg.board)]
  /\ UNCHANGED <<memberVars, worldVars, fanVars>>

Write(c) ==
  /\ conn[c].pc \in {"turn", "send"}
  /\ \E m \in conn[c].to :
       conn' = [conn EXCEPT ![c].to = @ \ {m}]
  /\ UNCHANGED <<memberVars, worldVars, fanVars>>

Sent(c) ==
  /\ conn[c].pc = "send" /\ conn[c].to = {}
  /\ conn' = Sending(c, "loop", NoMessage, {})
  /\ UNCHANGED <<memberVars, worldVars, fanVars>>

-----------------------------------------------------------------------------
(* What a goroutine does without its browser's help.                       *)
Finish(c) ==
  \/ Snapshot(c) \/ Greet(c) \/ TakeTurn(c) \/ Retire(c)
  \/ ListViewers(c) \/ Write(c) \/ Sent(c) \/ Exit(c)
  \/ conn[c].dead /\ Leave(c)

Operation(c) ==
  \/ Edit(c) \/ ReplaceBoard(c) \/ ShowBoard(c) \/ SetProperty(c) \/ SetStat(c)
  \/ AddBoard(c) \/ NewWorld(c) \/ SwitchBoard(c) \/ UploadWorld(c) \/ LookUp(c)

Next == \E c \in Client : Enter(c) \/ Fail(c) \/ Leave(c) \/ Operation(c) \/ Finish(c)

Spec == Init /\ [][Next]_vars /\ \A c \in Client : WF_vars(Finish(c))

-----------------------------------------------------------------------------
Cells == [Cell -> Nat]

MessageRecord ==
  [kind : {"none", "frame", "diff"}, board : Board,
   squares : SUBSET Cell, cells : Cells]

ConnRecord ==
  [pc : {"new", "entered", "greeting", "loop", "gate", "turn", "list", "send", "leaving", "ended"},
   dead : BOOLEAN, ticket : Nat, msg : MessageRecord, to : SUBSET Client]

TypeOK ==
  /\ members \subseteq Client /\ readOnly \subseteq members
  /\ memberBoard \in [Client -> Board]
  /\ boardCount \in Board /\ open \in 0 .. boardCount
  /\ tiles \in [Board -> Cells] /\ writes \in Nat
  /\ fanTicket \in Nat /\ fanServing \in Nat
  /\ conn \in [Client -> ConnRecord]

(* The gate serves every ticket once: one that was issued and not retired  *)
(* is a waiting connection's, and no two have the same, so none can hold   *)
(* up the rest for want of somebody to retire it.                          *)
Fanning == {c \in Client : conn[c].pc \in {"gate", "turn"}}

GateHolds ==
  /\ {conn[c].ticket : c \in Fanning} = fanServing .. fanTicket - 1
  /\ \A c, d \in Fanning : conn[c].ticket = conn[d].ticket => c = d
  /\ \A c \in Client : conn[c].pc = "turn" => conn[c].ticket = fanServing

(* "the order the session applied two edits and the order their diffs      *)
(* reached a third member's socket" (editor_session.go:72) are one: while a*)
(* diff goes out, no diff that is still to come has an older square.       *)
DiffsInOrder ==
  \A c, d \in Fanning :
    conn[c].pc = "turn" /\ c # d /\ conn[c].msg.board = conn[d].msg.board =>
      \A x \in conn[c].msg.squares \cap conn[d].msg.squares :
        conn[c].msg.cells[x] <= conn[d].msg.cells[x]

(* An edit is fanned out and its member goes on, whatever the others do,   *)
(* refuse or lose.                                                         *)
EditsGoOut == \A c \in Client : conn[c].pc = "gate" ~> conn[c].pc = "loop"
=============================================================================
