---------------------------- MODULE EditFanProofs ----------------------------
(***************************************************************************)
(* EditFan for any clients, boards, squares and limits: whoever waits at   *)
(* the gate can be let through, and diffs pass it in the order of their    *)
(* edits.                                                                  *)
(*                                                                         *)
(* That a diff's squares are no older than those of the diffs before it is *)
(* not inductive alone: the diff an edit adds is the newest because no     *)
(* square of a waiting diff is newer than the board's.                     *)
(***************************************************************************)
EXTENDS EditFan, TLAPS

USE BoardAssumption

(* Squares only ever get newer.                                            *)
Newer(t, u) == \A b \in Board, x \in Cell : t[b][x] <= u[b][x]

Ordered ==
  /\ fanServing <= fanTicket
  /\ \A b \in Board, x \in Cell : tiles[b][x] <= writes
  /\ \A c \in Fanning : \A x \in conn[c].msg.squares :
       conn[c].msg.cells[x] <= tiles[conn[c].msg.board][x]
  /\ \A c, d \in Fanning :
       conn[c].ticket < conn[d].ticket /\ conn[c].msg.board = conn[d].msg.board =>
         \A x \in conn[c].msg.squares \cap conn[d].msg.squares :
           conn[c].msg.cells[x] <= conn[d].msg.cells[x]

IInv == TypeOK /\ GateHolds /\ Ordered

-----------------------------------------------------------------------------
(* Messages and squares.                                                   *)

LEMMA FocusTyped ==
  ASSUME TypeOK, NEW c \in Client
  PROVE  Focus(c) \in Board /\ Focus(c) <= boardCount
BY DEF TypeOK, Focus, Board

LEMMA MessagesTyped ==
  ASSUME NEW t \in [Board -> Cells], NEW b \in Board, NEW S \in SUBSET Cell
  PROVE  /\ NoMessage \in MessageRecord /\ NewConn \in ConnRecord
         /\ Frame(b) \in MessageRecord /\ Diff(b, S, t) \in MessageRecord
<1>1. NoMessage \in MessageRecord
  BY DEF NoMessage, MessageRecord, Board, Cells
<1>2. Frame(b) \in MessageRecord
  BY <1>1 DEF Frame, NoMessage, MessageRecord
<1>3. Diff(b, S, t) \in MessageRecord
  <2>1. [x \in Cell |-> IF x \in S THEN t[b][x] ELSE 0] \in Cells
    BY DEF Cells
  <2> QED BY <2>1 DEF Diff, MessageRecord
<1>4. NewConn \in ConnRecord
  BY <1>1 DEF NewConn, ConnRecord
<1> QED BY <1>1, <1>2, <1>3, <1>4

LEMMA ChangeTyped ==
  ASSUME TypeOK, Ordered, NEW b \in Board, NEW S \in SUBSET Cell, Change(b, S)
  PROVE  /\ tiles' \in [Board -> Cells] /\ writes' \in Nat
         /\ Newer(tiles, tiles')
         /\ \A d \in Board, x \in Cell : tiles'[d][x] <= writes'
<1> DEFINE new == [x \in Cell |-> IF x \in S THEN writes + 1 ELSE tiles[b][x]]
<1>1. writes \in Nat /\ tiles \in [Board -> Cells] /\ writes' = writes + 1
  BY DEF TypeOK, Change
<1>2. new \in Cells /\ \A x \in Cell : tiles[b][x] <= new[x] /\ new[x] <= writes + 1
  BY <1>1 DEF Cells, Ordered
<1>3. tiles' = [tiles EXCEPT ![b] = new]
  BY DEF Change
<1> HIDE DEF new
<1> QED BY <1>1, <1>2, <1>3 DEF Newer, Ordered, Cells

-----------------------------------------------------------------------------
(* What does not concern the gate.                                         *)

Aside(c) ==
  /\ conn[c].pc \notin {"gate", "turn"}
  /\ \E r \in ConnRecord : r.pc \notin {"gate", "turn"} /\ conn' = [conn EXCEPT ![c] = r]

LEMMA AsideKeeps ==
  ASSUME IInv, NEW c \in Client, Aside(c), UNCHANGED fanVars,
         tiles' \in [Board -> Cells], Newer(tiles, tiles'), writes' \in Nat,
         \A b \in Board, x \in Cell : tiles'[b][x] <= writes'
  PROVE  conn' \in [Client -> ConnRecord] /\ GateHolds' /\ Ordered'
<1>1. PICK r \in ConnRecord : r.pc \notin {"gate", "turn"} /\ conn' = [conn EXCEPT ![c] = r]
  BY DEF Aside
<1>2. conn \in [Client -> ConnRecord] /\ tiles \in [Board -> Cells]
  BY DEF IInv, TypeOK
<1>3. conn' \in [Client -> ConnRecord]
  BY <1>1, <1>2
<1>4. Fanning' = Fanning /\ c \notin Fanning
  BY <1>1, <1>2 DEF Fanning, Aside
<1>5. \A d \in Fanning : conn'[d] = conn[d] /\ d \in Client
  BY <1>1, <1>2, <1>4 DEF Fanning
<1>6. GateHolds'
  <2>1. {conn'[d].ticket : d \in Fanning} = {conn[d].ticket : d \in Fanning}
    BY <1>5
  <2>2. \A d \in Client : conn'[d].pc = "turn" => conn[d].pc = "turn" /\ conn'[d] = conn[d]
    BY <1>1, <1>2
  <2> QED BY <1>4, <1>5, <2>1, <2>2 DEF IInv, GateHolds, fanVars
<1>7. Ordered'
  <2>1. ASSUME NEW d \in Fanning, NEW x \in conn[d].msg.squares
        PROVE  conn[d].msg.cells[x] <= tiles'[conn[d].msg.board][x]
    <3>1. conn[d].msg \in MessageRecord
      BY <1>2, <1>5 DEF ConnRecord
    <3>2. x \in Cell /\ conn[d].msg.board \in Board /\ conn[d].msg.cells[x] \in Nat
      BY <3>1 DEF MessageRecord, Cells
    <3>3. conn[d].msg.cells[x] <= tiles[conn[d].msg.board][x]
      BY DEF IInv, Ordered
    <3>4. tiles[conn[d].msg.board][x] <= tiles'[conn[d].msg.board][x]
      BY <3>2 DEF Newer
    <3>5. tiles[conn[d].msg.board][x] \in Nat /\ tiles'[conn[d].msg.board][x] \in Nat
      BY <1>2, <3>2 DEF Cells
    <3> QED BY <3>2, <3>3, <3>4, <3>5
  <2> QED BY <1>4, <1>5, <2>1 DEF IInv, Ordered, fanVars
<1> QED BY <1>3, <1>6, <1>7

(* The squares are as they were, and the member goes on.                   *)
LEMMA AsideUnchanged ==
  ASSUME IInv, NEW c \in Client, Aside(c), UNCHANGED <<fanVars, tiles, writes>>
  PROVE  conn' \in [Client -> ConnRecord] /\ GateHolds' /\ Ordered'
<1>1. tiles' \in [Board -> Cells] /\ writes' \in Nat
  BY DEF IInv, TypeOK
<1>2. Newer(tiles, tiles')
  BY <1>1 DEF Newer, Cells, IInv, TypeOK
<1>3. \A b \in Board, x \in Cell : tiles'[b][x] <= writes'
  BY DEF IInv, Ordered
<1> QED BY <1>1, <1>2, <1>3, AsideKeeps

Elsewhere == {"new", "entered", "greeting", "loop", "list", "send", "leaving", "ended"}

LEMMA SendingAside ==
  ASSUME TypeOK, NEW c \in Client, conn[c].pc \notin {"gate", "turn"},
         NEW pc \in Elsewhere, NEW m \in MessageRecord, NEW to \in SUBSET Client,
         conn' = Sending(c, pc, m, to)
  PROVE  Aside(c)
<1> DEFINE r == [conn[c] EXCEPT !.pc = pc, !.msg = m, !.to = to]
<1>1. conn \in [Client -> ConnRecord] /\ conn[c] \in ConnRecord
  BY DEF TypeOK
<1>2. r \in ConnRecord /\ r.pc \notin {"gate", "turn"}
  BY <1>1 DEF ConnRecord, Elsewhere
<1>3. conn' = [conn EXCEPT ![c] = r]
  BY <1>1 DEF Sending
<1> HIDE DEF r
<1> QED BY <1>2, <1>3 DEF Aside

LEMMA StepAside ==
  ASSUME TypeOK, NEW c \in Client, conn[c].pc \notin {"gate", "turn"},
         NEW pc \in Elsewhere, conn' = [conn EXCEPT ![c].pc = pc]
  PROVE  Aside(c)
<1> DEFINE r == [conn[c] EXCEPT !.pc = pc]
<1>1. conn \in [Client -> ConnRecord] /\ conn[c] \in ConnRecord
  BY DEF TypeOK
<1>2. r \in ConnRecord /\ r.pc \notin {"gate", "turn"}
  BY <1>1 DEF ConnRecord, Elsewhere
<1>3. conn' = [conn EXCEPT ![c] = r]
  BY <1>1
<1> HIDE DEF r
<1> QED BY <1>2, <1>3 DEF Aside

-----------------------------------------------------------------------------
(* Coming and going, and whatever sends a frame.                           *)

LEMMA EnterKeeps ==
  ASSUME IInv, NEW c \in Client, Enter(c)
  PROVE  IInv'
<1>1. Aside(c)
  BY StepAside DEF Enter, IInv, Elsewhere
<1>2. conn' \in [Client -> ConnRecord] /\ GateHolds' /\ Ordered'
  BY <1>1, AsideUnchanged DEF Enter, worldVars
<1>3. members' \subseteq Client /\ readOnly' \subseteq members' /\ memberBoard' \in [Client -> Board]
  BY DEF Enter, IInv, TypeOK, Board
<1> QED BY <1>2, <1>3 DEF Enter, IInv, TypeOK, worldVars, fanVars

LEMMA LeaveKeeps ==
  ASSUME IInv, NEW c \in Client, Leave(c)
  PROVE  IInv'
<1>1. Aside(c)
  BY StepAside DEF Leave, IInv, Elsewhere
<1>2. conn' \in [Client -> ConnRecord] /\ GateHolds' /\ Ordered'
  BY <1>1, AsideUnchanged DEF Leave, worldVars
<1> QED BY <1>2 DEF Leave, IInv, TypeOK, memberVars, worldVars, fanVars

LEMMA ExitKeeps ==
  ASSUME IInv, NEW c \in Client, Exit(c)
  PROVE  IInv'
<1> DEFINE r == [NewConn EXCEPT !.pc = "ended", !.dead = TRUE]
<1>1. r \in ConnRecord /\ r.pc \notin {"gate", "turn"}
  <2>1. NewConn \in ConnRecord
    BY MessagesTyped DEF IInv, TypeOK, Board
  <2> QED BY <2>1 DEF ConnRecord, NewConn
<1>2. conn' = [conn EXCEPT ![c] = r] /\ conn[c].pc \notin {"gate", "turn"}
  BY DEF Exit
<1>3. Aside(c)
  <2> HIDE DEF r
  <2> QED BY <1>1, <1>2 DEF Aside
<1>4. conn' \in [Client -> ConnRecord] /\ GateHolds' /\ Ordered'
  BY <1>3, AsideUnchanged DEF Exit, worldVars
<1>5. members' \subseteq Client /\ readOnly' \subseteq members' /\ memberBoard' \in [Client -> Board]
  BY DEF Exit, IInv, TypeOK, Board
<1> QED BY <1>4, <1>5 DEF Exit, IInv, TypeOK, worldVars, fanVars

LEMMA SentKeeps ==
  ASSUME IInv, NEW c \in Client, Greet(c) \/ Sent(c) \/ ListViewers(c)
  PROVE  IInv'
<1>1. Aside(c)
  <2>1. NoMessage \in MessageRecord
    BY MessagesTyped DEF IInv, TypeOK, Board
  <2>2. CASE Greet(c)
    BY <2>1, <2>2, SendingAside DEF Greet, IInv, Elsewhere
  <2>3. CASE Sent(c)
    BY <2>1, <2>3, SendingAside DEF Sent, IInv, Elsewhere
  <2>4. CASE ListViewers(c)
    <3>1. conn[c].msg \in MessageRecord /\ conn \in [Client -> ConnRecord]
      BY DEF IInv, TypeOK, ConnRecord
    <3>2. Viewing(conn[c].msg.board) \in SUBSET Client
      BY DEF IInv, TypeOK, Viewing
    <3>3. conn' = Sending(c, "send", conn[c].msg, Viewing(conn[c].msg.board))
      BY <2>4, <3>1 DEF ListViewers, Sending, ConnRecord
    <3> QED BY <2>4, <3>1, <3>2, <3>3, SendingAside DEF ListViewers, IInv, Elsewhere
  <2> QED BY <2>2, <2>3, <2>4
<1>2. UNCHANGED <<memberVars, worldVars, fanVars>>
  BY DEF Greet, Sent, ListViewers
<1>3. conn' \in [Client -> ConnRecord] /\ GateHolds' /\ Ordered'
  BY <1>1, <1>2, AsideUnchanged DEF worldVars
<1> QED BY <1>2, <1>3 DEF IInv, TypeOK, memberVars, worldVars, fanVars

(* An operation on a board that leaves the squares alone.                  *)
LEMMA LooksKeep ==
  ASSUME IInv, NEW c \in Client, NEW b \in Board, b <= boardCount, AppliedOn(c, b),
         Aside(c) \/ UNCHANGED conn,
         UNCHANGED <<members, readOnly, boardCount, tiles, writes, fanVars>>
  PROVE  IInv'
<1>1. conn' \in [Client -> ConnRecord] /\ GateHolds' /\ Ordered'
  <2>1. CASE Aside(c)
    BY <2>1, AsideUnchanged
  <2>2. CASE UNCHANGED conn
    <3>1. GateHolds'
      BY <2>2 DEF IInv, GateHolds, Fanning, fanVars
    <3>2. Ordered'
      BY <2>2 DEF IInv, Ordered, Fanning, fanVars
    <3> QED BY <2>2, <3>1, <3>2 DEF IInv, TypeOK
  <2> QED BY <2>1, <2>2
<1>2. memberBoard' \in [Client -> Board] /\ open' \in 0 .. boardCount
  BY DEF AppliedOn, IInv, TypeOK, Board
<1> QED BY <1>1, <1>2 DEF IInv, TypeOK, fanVars

(* One that changes them.                                                  *)
LEMMA ChangesKeep ==
  ASSUME IInv, NEW c \in Client, Aside(c), UNCHANGED <<members, readOnly, fanVars>>,
         memberBoard' \in [Client -> Board], boardCount' \in Board, open' \in 0 .. boardCount',
         tiles' \in [Board -> Cells], Newer(tiles, tiles'), writes' \in Nat,
         \A b \in Board, x \in Cell : tiles'[b][x] <= writes'
  PROVE  IInv'
<1>1. conn' \in [Client -> ConnRecord] /\ GateHolds' /\ Ordered'
  BY AsideKeeps
<1> QED BY <1>1 DEF IInv, TypeOK, fanVars

LEMMA FramesAside ==
  ASSUME TypeOK, NEW c \in Client, NEW b \in Board, conn[c].pc \notin {"gate", "turn"},
         \/ Broadcast(c, b) \/ Reply(c, b)
         \/ conn' = Sending(c, "greeting", Frame(b), {})
  PROVE  Aside(c)
<1>1. Frame(b) \in MessageRecord
  BY MessagesTyped DEF TypeOK
<1> QED BY <1>1, SendingAside DEF Broadcast, Reply, Elsewhere

LEMMA ShowsKeep ==
  ASSUME IInv, NEW c \in Client,
         Snapshot(c) \/ ShowBoard(c) \/ SetProperty(c) \/ SwitchBoard(c) \/ LookUp(c)
  PROVE  IInv'
<1>1. Focus(c) \in Board /\ Focus(c) <= boardCount
  BY FocusTyped DEF IInv
<1>2. CASE Snapshot(c)
  BY <1>1, <1>2, FramesAside, LooksKeep DEF Snapshot, IInv
<1>3. CASE ShowBoard(c)
  BY <1>1, <1>3, FramesAside, LooksKeep DEF ShowBoard, Working, IInv
<1>4. CASE SetProperty(c)
  BY <1>1, <1>4, FramesAside, LooksKeep DEF SetProperty, Working, IInv
<1>5. CASE SwitchBoard(c)
  <2>1. PICK b \in 0 .. boardCount : AppliedOn(c, b) /\ Reply(c, b)
    BY <1>5 DEF SwitchBoard
  <2>2. b \in Board /\ b <= boardCount
    BY DEF IInv, TypeOK, Board
  <2> QED BY <1>5, <2>1, <2>2, FramesAside, LooksKeep DEF SwitchBoard, Working, IInv
<1>6. CASE LookUp(c)
  BY <1>1, <1>6, LooksKeep DEF LookUp
<1> QED BY <1>2, <1>3, <1>4, <1>5, <1>6

LEMMA ReplacementsKeep ==
  ASSUME IInv, NEW c \in Client,
         ReplaceBoard(c) \/ SetStat(c) \/ AddBoard(c) \/ NewWorld(c) \/ UploadWorld(c)
  PROVE  IInv'
<1>1. /\ Focus(c) \in Board /\ Focus(c) <= boardCount
      /\ boardCount \in Board /\ boardCount \in Nat /\ 0 \in Board
      /\ memberBoard \in [Client -> Board] /\ StatCell \in Cell
  BY FocusTyped DEF IInv, TypeOK, Board
<1>2. ASSUME NEW b \in Board, NEW S \in SUBSET Cell, Change(b, S)
      PROVE  /\ tiles' \in [Board -> Cells] /\ writes' \in Nat /\ Newer(tiles, tiles')
             /\ \A d \in Board, x \in Cell : tiles'[d][x] <= writes'
  BY <1>2, ChangeTyped DEF IInv
<1>3. ASSUME NEW b \in Board, b <= boardCount', boardCount' \in Board, AppliedOn(c, b)
      PROVE  memberBoard' \in [Client -> Board] /\ open' \in 0 .. boardCount'
  BY <1>1, <1>3 DEF AppliedOn, Board
<1>4. CASE ReplaceBoard(c)
  <2>1. Aside(c)
    BY <1>1, <1>4, FramesAside DEF ReplaceBoard, Working, IInv
  <2> QED BY <1>1, <1>2, <1>3, <1>4, <2>1, ChangesKeep DEF ReplaceBoard
<1>5. CASE SetStat(c)
  <2>1. Aside(c)
    BY <1>1, <1>5, FramesAside DEF SetStat, Working, IInv
  <2> QED BY <1>1, <1>2, <1>3, <1>5, <2>1, ChangesKeep DEF SetStat
<1>6. CASE AddBoard(c)
  <2>1. Aside(c)
    BY <1>1, <1>6, FramesAside DEF AddBoard, Working, IInv
  <2> QED BY <1>1, <1>2, <1>3, <1>6, <2>1, ChangesKeep DEF AddBoard
<1>7. CASE NewWorld(c)
  <2>1. Aside(c)
    BY <1>1, <1>7, FramesAside DEF NewWorld, Working, IInv
  <2>2. memberBoard' \in [Client -> Board] /\ boardCount' \in Board /\ open' \in 0 .. boardCount'
    BY <1>1, <1>7 DEF NewWorld
  <2> QED BY <1>1, <1>2, <1>7, <2>1, <2>2, ChangesKeep DEF NewWorld
<1>8. CASE UploadWorld(c)
  <2>1. PICK n \in Board : \E b \in 0 .. n : boardCount' = n /\ AppliedOn(c, b) /\ Reply(c, b)
    BY <1>8 DEF UploadWorld
  <2>2. PICK b \in 0 .. n : boardCount' = n /\ AppliedOn(c, b) /\ Reply(c, b)
    BY <2>1
  <2>3. b \in Board /\ b <= n
    BY DEF Board
  <2>4. Aside(c)
    BY <1>8, <2>2, <2>3, FramesAside DEF UploadWorld, Working, IInv
  <2>5. memberBoard' \in [Client -> Board] /\ boardCount' \in Board /\ open' \in 0 .. boardCount'
    BY <1>3, <2>2, <2>3
  <2>6. writes \in Nat /\ tiles \in [Board -> Cells]
    BY DEF IInv, TypeOK
  <2>7. /\ writes' = writes + 1
        /\ tiles' = [d \in Board |-> [x \in Cell |-> writes + 1]]
    BY <1>8 DEF UploadWorld
  <2>8. \A d \in Board, x \in Cell : tiles[d][x] \in Nat /\ tiles[d][x] <= writes
    BY <2>6 DEF IInv, Ordered, Cells
  <2>9. /\ tiles' \in [Board -> Cells] /\ writes' \in Nat /\ Newer(tiles, tiles')
        /\ \A d \in Board, x \in Cell : tiles'[d][x] <= writes'
    BY <2>6, <2>7, <2>8 DEF Newer, Cells
  <2> QED BY <1>8, <2>4, <2>5, <2>9, ChangesKeep DEF UploadWorld
<1> QED BY <1>4, <1>5, <1>6, <1>7, <1>8

-----------------------------------------------------------------------------
(* At the gate.                                                            *)

(* A goroutine that keeps its place, or is let through the gate.           *)
Stays(c) ==
  \E r \in ConnRecord :
    /\ conn' = [conn EXCEPT ![c] = r]
    /\ r.ticket = conn[c].ticket /\ r.msg = conn[c].msg
    /\ \/ r.pc = conn[c].pc
       \/ conn[c].pc = "gate" /\ r.pc = "turn" /\ r.ticket = fanServing

LEMMA StaysKeeps ==
  ASSUME IInv, NEW c \in Client, Stays(c), UNCHANGED <<memberVars, worldVars, fanVars>>
  PROVE  IInv'
<1>1. PICK r \in ConnRecord :
        /\ conn' = [conn EXCEPT ![c] = r]
        /\ r.ticket = conn[c].ticket /\ r.msg = conn[c].msg
        /\ \/ r.pc = conn[c].pc
           \/ conn[c].pc = "gate" /\ r.pc = "turn" /\ r.ticket = fanServing
  BY DEF Stays
<1>2. conn \in [Client -> ConnRecord] /\ conn' \in [Client -> ConnRecord]
  BY <1>1 DEF IInv, TypeOK
<1>3. Fanning' = Fanning
  BY <1>1, <1>2 DEF Fanning
<1>4. \A d \in Client : conn'[d].ticket = conn[d].ticket /\ conn'[d].msg = conn[d].msg
  BY <1>1, <1>2
<1>5. \A d \in Client : conn'[d].pc = "turn" => conn[d].pc = "turn" \/ conn[d].ticket = fanServing
  BY <1>1, <1>2
<1>6. GateHolds'
  <2>1. {conn'[d].ticket : d \in Fanning} = {conn[d].ticket : d \in Fanning}
    BY <1>4 DEF Fanning
  <2> QED BY <1>3, <1>4, <1>5, <2>1 DEF IInv, GateHolds, Fanning, fanVars
<1>7. Ordered'
  BY <1>3, <1>4 DEF IInv, Ordered, Fanning, fanVars, worldVars
<1> QED BY <1>2, <1>6, <1>7 DEF IInv, TypeOK, memberVars, worldVars, fanVars

LEMMA WaitingKeeps ==
  ASSUME IInv, NEW c \in Client, Fail(c) \/ TakeTurn(c) \/ Write(c)
  PROVE  IInv'
<1>1. conn \in [Client -> ConnRecord] /\ conn[c] \in ConnRecord
  BY DEF IInv, TypeOK
<1>2. CASE Fail(c)
  <2> DEFINE r == [conn[c] EXCEPT !.dead = TRUE]
  <2>1. /\ r \in ConnRecord
        /\ r.ticket = conn[c].ticket /\ r.msg = conn[c].msg /\ r.pc = conn[c].pc
    BY <1>1 DEF ConnRecord
  <2>2. conn' = [conn EXCEPT ![c] = r]
    BY <1>1, <1>2 DEF Fail
  <2> HIDE DEF r
  <2>3. Stays(c)
    BY <2>1, <2>2 DEF Stays
  <2> QED BY <1>2, <2>3, StaysKeeps DEF Fail
<1>3. CASE TakeTurn(c)
  <2> DEFINE to == IF conn[c].msg.kind = "none" THEN {} ELSE Viewing(conn[c].msg.board)
             r == [conn[c] EXCEPT !.pc = "turn", !.to = to]
  <2>1. to \in SUBSET Client
    BY DEF IInv, TypeOK, Viewing
  <2>2. conn' = [conn EXCEPT ![c] = r]
    BY <1>1, <1>3 DEF TakeTurn
  <2> HIDE DEF to
  <2>3. /\ r \in ConnRecord
        /\ r.ticket = conn[c].ticket /\ r.msg = conn[c].msg /\ r.pc = "turn"
    BY <1>1, <2>1 DEF ConnRecord
  <2> HIDE DEF r
  <2>4. Stays(c)
    BY <1>3, <2>2, <2>3 DEF Stays, TakeTurn
  <2> QED BY <1>3, <2>4, StaysKeeps DEF TakeTurn
<1>4. CASE Write(c)
  <2>1. PICK m \in conn[c].to : conn' = [conn EXCEPT ![c].to = @ \ {m}]
    BY <1>4 DEF Write
  <2> DEFINE r == [conn[c] EXCEPT !.to = @ \ {m}]
  <2>2. /\ r \in ConnRecord
        /\ r.ticket = conn[c].ticket /\ r.msg = conn[c].msg /\ r.pc = conn[c].pc
    BY <1>1 DEF ConnRecord
  <2>3. conn' = [conn EXCEPT ![c] = r]
    BY <1>1, <2>1
  <2> HIDE DEF r
  <2>4. Stays(c)
    BY <2>2, <2>3 DEF Stays
  <2> QED BY <1>4, <2>4, StaysKeeps DEF Write
<1> QED BY <1>2, <1>3, <1>4

LEMMA RetireKeeps ==
  ASSUME IInv, NEW c \in Client, Retire(c)
  PROVE  IInv'
<1> DEFINE r == [conn[c] EXCEPT !.pc = "loop", !.msg = NoMessage, !.to = {}, !.ticket = 0]
<1>1. conn \in [Client -> ConnRecord] /\ conn[c] \in ConnRecord
  BY DEF IInv, TypeOK
<1>2. r \in ConnRecord /\ r.pc = "loop"
  <2>1. NoMessage \in MessageRecord
    BY MessagesTyped DEF IInv, TypeOK, Board
  <2> QED BY <1>1, <2>1 DEF ConnRecord
<1>3. conn' = [conn EXCEPT ![c] = r]
  BY <1>1 DEF Retire, Sending
<1> HIDE DEF r
<1>4. conn' \in [Client -> ConnRecord] /\ fanServing \in Nat /\ fanTicket \in Nat
  BY <1>1, <1>2, <1>3 DEF IInv, TypeOK
<1>5. /\ Fanning' = Fanning \ {c} /\ c \in Fanning
      /\ \A d \in Fanning \ {c} : conn'[d] = conn[d]
  BY <1>1, <1>2, <1>3 DEF Fanning, Retire
<1>6. conn[c].ticket = fanServing /\ fanServing' = fanServing + 1 /\ fanTicket' = fanTicket
  BY DEF Retire, IInv, GateHolds
<1>7. fanServing < fanTicket
  BY <1>4, <1>5, <1>6 DEF IInv, GateHolds
<1>8. GateHolds'
  <2>1. \A d \in Fanning \ {c} : conn[d].ticket # fanServing
    BY <1>5, <1>6 DEF IInv, GateHolds
  <2>2. {conn[d].ticket : d \in Fanning \ {c}} = {conn[d].ticket : d \in Fanning} \ {fanServing}
    BY <1>5, <1>6, <2>1
  <2>3. {conn'[d].ticket : d \in Fanning \ {c}} = {conn[d].ticket : d \in Fanning \ {c}}
    BY <1>5
  <2>4. fanServing + 1 .. fanTicket - 1 = (fanServing .. fanTicket - 1) \ {fanServing}
    BY <1>4, <1>7
  <2>5. {conn'[d].ticket : d \in Fanning'} = fanServing' .. fanTicket' - 1
    BY <1>5, <1>6, <2>2, <2>3, <2>4 DEF IInv, GateHolds
  <2>6. \A d \in Client : conn'[d].pc # "turn"
    <3>1. SUFFICES ASSUME NEW d \in Client, conn'[d].pc = "turn" PROVE FALSE
      OBVIOUS
    <3>2. d # c /\ conn[d].pc = "turn"
      BY <1>1, <1>2, <1>3, <3>1
    <3>3. d \in Fanning \ {c} /\ conn[d].ticket = fanServing
      BY <3>2 DEF Fanning, IInv, GateHolds
    <3> QED BY <2>1, <3>3
  <2>7. \A d, e \in Fanning' : conn'[d].ticket = conn'[e].ticket => d = e
    BY <1>5 DEF IInv, GateHolds
  <2> QED BY <2>5, <2>6, <2>7 DEF GateHolds
<1>9. Ordered'
  BY <1>4, <1>5, <1>6, <1>7 DEF IInv, Ordered, Retire, worldVars
<1> QED BY <1>4, <1>6, <1>8, <1>9 DEF IInv, TypeOK, Retire, memberVars, worldVars

(* A diff comes to the gate with the next ticket and the board's squares.  *)
LEMMA EditKeeps ==
  ASSUME IInv, NEW c \in Client, Edit(c)
  PROVE  IInv'
<1> DEFINE b == Focus(c)
<1>1. conn \in [Client -> ConnRecord] /\ conn[c] \in ConnRecord /\ conn[c].pc = "loop"
  BY DEF IInv, TypeOK, Edit, Working
<1>2. b \in Board /\ b <= boardCount /\ tiles \in [Board -> Cells] /\ writes \in Nat
  BY FocusTyped DEF IInv, TypeOK
<1>3. /\ tiles' \in [Board -> Cells] /\ writes' \in Nat /\ Newer(tiles, tiles')
      /\ \A d \in Board, x \in Cell : tiles'[d][x] <= writes'
  <2>1. CASE UNCHANGED <<tiles, writes>>
    BY <1>2, <2>1 DEF Newer, Cells, IInv, Ordered
  <2>2. CASE \E S \in SUBSET Cell : Change(b, S)
    BY <1>2, <2>2, ChangeTyped DEF IInv
  <2> QED BY <2>1, <2>2 DEF Edit
<1>4. PICK m \in MessageRecord :
        /\ AtGate(c, m)
        /\ \A x \in m.squares : m.cells[x] = tiles'[m.board][x]
  <2>1. CASE AtGate(c, NoMessage)
    <3>1. NoMessage \in MessageRecord /\ NoMessage.squares = {}
      BY MessagesTyped, <1>2 DEF NoMessage
    <3> QED BY <2>1, <3>1
  <2>2. CASE \E drawn \in SUBSET Cell : AtGate(c, Diff(b, drawn, tiles'))
    <3>1. PICK drawn \in SUBSET Cell : AtGate(c, Diff(b, drawn, tiles'))
      BY <2>2
    <3>2. Diff(b, drawn, tiles') \in MessageRecord
      BY <1>2, <1>3, MessagesTyped
    <3>3. \A x \in Diff(b, drawn, tiles').squares :
            Diff(b, drawn, tiles').cells[x] = tiles'[Diff(b, drawn, tiles').board][x]
      BY DEF Diff
    <3> QED BY <3>1, <3>2, <3>3
  <2> QED BY <2>1, <2>2 DEF Edit
<1> DEFINE r == [conn[c] EXCEPT !.pc = "gate", !.msg = m, !.to = {}, !.ticket = fanTicket]
<1>5. conn' = [conn EXCEPT ![c] = r]
  BY <1>1, <1>4 DEF AtGate, Sending
<1>6. fanServing \in Nat /\ fanTicket \in Nat /\ fanServing <= fanTicket
  BY DEF IInv, TypeOK, Ordered
<1>7. r \in ConnRecord /\ r.pc = "gate" /\ r.msg = m /\ r.ticket = fanTicket
  BY <1>1, <1>6 DEF ConnRecord
<1> HIDE DEF r
<1>8. conn' \in [Client -> ConnRecord] /\ conn'[c] = r
  BY <1>1, <1>5, <1>7
<1>9. /\ Fanning' = Fanning \cup {c} /\ c \notin Fanning
      /\ \A d \in Fanning : conn'[d] = conn[d] /\ d \in Client /\ d # c
  BY <1>1, <1>5, <1>7 DEF Fanning
<1>10. fanTicket' = fanTicket + 1 /\ fanServing' = fanServing
  BY DEF Edit
<1>11. \A d \in Fanning : conn[d].ticket < fanTicket /\ conn[d].ticket \in Nat
  BY <1>1, <1>6, <1>9 DEF IInv, GateHolds, ConnRecord
<1>12. GateHolds'
  <2>1. {conn'[d].ticket : d \in Fanning'} = {conn[d].ticket : d \in Fanning} \cup {fanTicket}
    BY <1>7, <1>8, <1>9
  <2>2. fanServing .. fanTicket = (fanServing .. fanTicket - 1) \cup {fanTicket}
    BY <1>6
  <2>3. fanTicket' - 1 = fanTicket
    BY <1>6, <1>10
  <2>4. {conn'[d].ticket : d \in Fanning'} = fanServing' .. fanTicket' - 1
    BY <1>10, <2>1, <2>2, <2>3 DEF IInv, GateHolds
  <2>5. \A d, e \in Fanning' : conn'[d].ticket = conn'[e].ticket => d = e
    BY <1>7, <1>8, <1>9, <1>11 DEF IInv, GateHolds
  <2>6. \A d \in Client : conn'[d].pc = "turn" => conn[d].pc = "turn" /\ conn'[d] = conn[d]
    BY <1>1, <1>5, <1>7
  <2> QED BY <1>10, <2>4, <2>5, <2>6 DEF IInv, GateHolds
<1>13. Ordered'
  <2>1. \A d \in Fanning : \A x \in conn[d].msg.squares :
          conn[d].msg.cells[x] <= tiles'[conn[d].msg.board][x]
    <3>1. SUFFICES ASSUME NEW d \in Fanning, NEW x \in conn[d].msg.squares
                   PROVE  conn[d].msg.cells[x] <= tiles'[conn[d].msg.board][x]
      OBVIOUS
    <3>2. conn[d].msg \in MessageRecord
      BY <1>1, <1>9 DEF ConnRecord
    <3>3. x \in Cell /\ conn[d].msg.board \in Board /\ conn[d].msg.cells[x] \in Nat
      BY <3>2 DEF MessageRecord, Cells
    <3>4. conn[d].msg.cells[x] <= tiles[conn[d].msg.board][x]
      BY DEF IInv, Ordered
    <3>5. tiles[conn[d].msg.board][x] <= tiles'[conn[d].msg.board][x]
      BY <1>3, <3>3 DEF Newer
    <3>6. tiles[conn[d].msg.board][x] \in Nat /\ tiles'[conn[d].msg.board][x] \in Nat
      BY <1>2, <1>3, <3>3 DEF Cells
    <3> QED BY <3>3, <3>4, <3>5, <3>6
  <2>2. \A d \in Fanning' : \A x \in conn'[d].msg.squares :
          conn'[d].msg.cells[x] <= tiles'[conn'[d].msg.board][x]
    <3>1. \A x \in m.squares : m.cells[x] <= tiles'[m.board][x]
      <4>1. \A x \in m.squares : m.cells[x] \in Nat
        BY DEF MessageRecord, Cells
      <4> QED BY <1>4, <4>1
    <3> QED BY <1>7, <1>8, <1>9, <2>1, <3>1
  <2>3. ASSUME NEW d \in Fanning', NEW e \in Fanning',
               conn'[d].ticket < conn'[e].ticket, conn'[d].msg.board = conn'[e].msg.board,
               NEW x \in conn'[d].msg.squares \cap conn'[e].msg.squares
        PROVE  conn'[d].msg.cells[x] <= conn'[e].msg.cells[x]
    <3>1. d # c
      BY <1>6, <1>7, <1>8, <1>9, <1>11, <2>3
    <3>2. CASE e = c
      BY <1>4, <1>7, <1>8, <1>9, <2>1, <2>3, <3>1, <3>2
    <3>3. CASE e # c
      BY <1>9, <2>3, <3>1, <3>3 DEF IInv, Ordered
    <3> QED BY <3>2, <3>3
  <2> QED BY <1>3, <1>6, <1>10, <2>2, <2>3 DEF Ordered
<1>14. memberBoard' \in [Client -> Board] /\ open' \in 0 .. boardCount
  BY <1>2 DEF Edit, AppliedOn, IInv, TypeOK, Board
<1> QED BY <1>3, <1>6, <1>8, <1>10, <1>12, <1>13, <1>14 DEF Edit, IInv, TypeOK

-----------------------------------------------------------------------------
LEMMA InitIInv == Init => IInv
<1> SUFFICES ASSUME Init PROVE IInv
  OBVIOUS
<1>1. 0 \in Board
  BY DEF Board
<1>2. NewConn \in ConnRecord /\ NewConn.pc = "new"
  <2>1. [d \in Board |-> [x \in Cell |-> 0]] \in [Board -> Cells]
    BY DEF Cells
  <2> QED BY <1>1, <2>1, MessagesTyped DEF NewConn
<1>3. conn \in [Client -> ConnRecord] /\ Fanning = {}
  BY <1>2 DEF Init, Fanning
<1>4. TypeOK
  <2>1. tiles \in [Board -> Cells]
    BY DEF Init, Cells
  <2> QED BY <1>1, <1>3, <2>1 DEF Init, TypeOK
<1>5. GateHolds
  <2>1. \A c \in Client : conn[c].pc # "turn"
    BY <1>2 DEF Init
  <2> QED BY <1>3, <2>1 DEF Init, GateHolds
<1>6. Ordered
  BY <1>3 DEF Init, Ordered
<1> QED BY <1>4, <1>5, <1>6 DEF IInv

LEMMA NextIInv == IInv /\ [Next]_vars => IInv'
<1> SUFFICES ASSUME IInv, [Next]_vars PROVE IInv'
  OBVIOUS
<1>1. CASE UNCHANGED vars
  BY <1>1 DEF IInv, TypeOK, GateHolds, Ordered, Fanning, vars, memberVars, worldVars, fanVars
<1>2. ASSUME NEW c \in Client, Enter(c) \/ Fail(c) \/ Leave(c) PROVE IInv'
  BY <1>2, EnterKeeps, WaitingKeeps, LeaveKeeps
<1>3. ASSUME NEW c \in Client, Operation(c) PROVE IInv'
  BY <1>3, EditKeeps, ReplacementsKeep, ShowsKeep DEF Operation
<1>4. ASSUME NEW c \in Client, Finish(c) PROVE IInv'
  BY <1>4, ShowsKeep, SentKeeps, WaitingKeeps, RetireKeeps, ExitKeeps, LeaveKeeps DEF Finish
<1> QED BY <1>1, <1>2, <1>3, <1>4 DEF Next

LEMMA Invariance == Spec => []IInv
BY InitIInv, NextIInv, PTL DEF Spec

(* A member is on a board, the engine on one that is there, whatever the   *)
(* members add, clear, replace and upload.                                 *)
THEOREM EditFanTyped == Spec => []TypeOK
<1>1. IInv => TypeOK
  BY DEF IInv
<1> QED BY <1>1, Invariance, PTL

(* inOrder never waits for a ticket nobody will retire, however many       *)
(* members edit, fail and leave.                                           *)
THEOREM GateHoldsAlways == Spec => []GateHolds
<1>1. IInv => GateHolds
  BY DEF IInv
<1> QED BY <1>1, Invariance, PTL

(* No diff reaches a member before one that EditAndFanOut applied earlier. *)
THEOREM DiffsInOrderAlways == Spec => []DiffsInOrder
<1>1. IInv => DiffsInOrder
  <2>1. SUFFICES ASSUME IInv, NEW c \in Fanning, NEW d \in Fanning,
                        conn[c].pc = "turn", c # d, conn[c].msg.board = conn[d].msg.board
                 PROVE  conn[c].ticket < conn[d].ticket
    BY DEF DiffsInOrder, IInv, Ordered
  <2>2. c \in Client /\ conn[c].ticket = fanServing
    BY <2>1 DEF Fanning, IInv, GateHolds
  <2>3. conn[d].ticket \in fanServing .. fanTicket - 1 /\ conn[d].ticket # fanServing
    BY <2>1, <2>2 DEF IInv, GateHolds
  <2> QED BY <2>1, <2>2, <2>3 DEF IInv, TypeOK
<1> QED BY <1>1, Invariance, PTL
=============================================================================
