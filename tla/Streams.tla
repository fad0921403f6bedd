------------------------------- MODULE Streams -------------------------------
(***************************************************************************)
(* What the browsers looking at one board are sent: the players on it and  *)
(* those who watch it (room_manager.go Snapshot and StepDiffsWithBoards,   *)
(* websocket_server.go Tick, tryResume, serveSpectator and the queue of a  *)
(* connection).                                                            *)
(*                                                                         *)
(* A frame is a whole screen or the cells that changed.  It is taken under *)
(* the instance's lock and queued after it is released, so the tick and a  *)
(* connection that has just been made may queue theirs in either order; a  *)
(* connection's writer takes them from the queue, and one that does not    *)
(* keep up is cut off.  A screen shows, for each player, whether they stand*)
(* on the board, and in the cell "floor" all that the simulation changes.  *)
(***************************************************************************)
EXTENDS Naturals, FiniteSets, Sequences, Functions

CONSTANTS Player,          \* each with the one connection that is theirs
          Watcher,
          ClientQueue,     \* clientOutboundQueue
          MaxEra           \* how often the board's room is made

Conn == Player \cup Watcher
Cell == Player \cup {"floor"}

VARIABLES
  present,    \* the players on the board
  floor,      \* the rest of it
  era,        \* which engine runs it, if any
  eras,       \* how many engines there have been
  dirty,      \* screenDirty: the cells drawn since they were last taken
  conn,       \* the connections
  outgoing    \* what the tick took under the lock and has yet to queue

vars == <<present, floor, era, eras, dirty, conn, outgoing>>

Blank   == <<>>                         \* no screen yet: the title
NoFrame == <<>>
NoConn  == [at |-> "out", greeting |-> NoFrame, queue |-> <<>>, screen |-> Blank,
            engine |-> 0]

Screen == [c \in Cell |-> IF c = "floor" THEN floor ELSE c \in present]
Live   == era # 0

Init ==
  /\ present = {} /\ floor = FALSE /\ era = 0 /\ eras = 0 /\ dirty = {}
  /\ conn = [c \in Conn |-> NoConn] /\ outgoing = [c \in Conn |-> NoFrame]

-----------------------------------------------------------------------------
(* The queue of a connection                                               *)

(* A bug: when the queue is full the frame is dropped.                     *)
WriteDropping(r, frame) ==
  IF Len(r.queue) = ClientQueue THEN r ELSE [r EXCEPT !.queue = Append(@, frame)]

(* write: a full queue ends the connection.                                *)
Write(r, frame) ==
  IF r.at \in {"dead", "out", "early"} THEN r
  ELSE IF Len(r.queue) = ClientQueue THEN [r EXCEPT !.at = "dead", !.queue = <<>>]
  ELSE [r EXCEPT !.queue = Append(@, frame)]

(* A screen with a frame drawn over it; cells without a whole screen first *)
(* find a browser still at the title, which ignores them.                  *)
Drawn(screen, frame) ==
  IF DOMAIN frame = Cell THEN frame
  ELSE IF screen = Blank THEN Blank
  ELSE [c \in Cell |-> IF c \in DOMAIN frame THEN frame[c] ELSE screen[c]]

(* writeLoop, and the browser that draws what arrives.                     *)
WriteNow(c) ==
  /\ conn[c].queue # <<>>
  /\ conn' = [conn EXCEPT ![c].queue = Tail(@), ![c].screen = Drawn(@, Head(conn[c].queue))]
  /\ UNCHANGED <<present, floor, era, eras, dirty, outgoing>>

(* The join's own goroutine queues the snapshot it took.                   *)
Greet(c) ==
  /\ conn[c].at = "joining"
  /\ conn' = [conn EXCEPT ![c] = Write([@ EXCEPT !.at = "in", !.greeting = NoFrame], conn[c].greeting)]
  /\ UNCHANGED <<present, floor, era, eras, dirty, outgoing>>

-----------------------------------------------------------------------------
(* Coming and going                                                        *)

(* Snapshot: the cells drawn since the last tick are the room's; they go   *)
(* with the snapshot of a player who is alone.                             *)
Taken(p, here, drawn) == IF here = {p} THEN {} ELSE drawn

Greeted(screen) == [NoConn EXCEPT !.at = "joining", !.greeting = screen]

(* The first player on a board has its room made.                          *)
Join(p) ==
  LET here == present \cup {p}
  IN /\ p \notin present /\ conn[p].at = "out"
     /\ Live \/ eras < MaxEra
     /\ present' = here /\ UNCHANGED floor
     /\ eras' = IF Live THEN eras ELSE eras + 1
     /\ era' = IF Live THEN era ELSE eras'
     /\ dirty' = Taken(p, here, dirty \cup {p})
     /\ conn' = [conn EXCEPT ![p] = Greeted(Screen')]
     /\ UNCHANGED outgoing

(* tryResume                                                               *)
Resume(p) ==
  /\ p \in present /\ conn[p].at = "out"
  /\ dirty' = Taken(p, present, dirty)
  /\ conn' = [conn EXCEPT ![p] = Greeted(Screen)]
  /\ UNCHANGED <<present, floor, era, eras, outgoing>>

(* Those who leave are wiped off the board; an empty room is frozen, and   *)
(* its engine and the cells it has drawn are dropped.                      *)
Gone(left) ==
  /\ present' = present \ left
  /\ IF present' = {} THEN era' = 0 ELSE UNCHANGED era

(* A connection ends, by itself or because it was cut off: a player stays  *)
(* on the board for the grace, in which they may come back.                *)
ReadLoopExit(c) ==
  /\ conn[c].at \in {"in", "dead", "early"}
  /\ conn' = [conn EXCEPT ![c] = NoConn] /\ outgoing' = [outgoing EXCEPT ![c] = NoFrame]
  /\ UNCHANGED <<present, floor, era, eras, dirty>>

ExpireDetached(p) ==
  /\ p \in present /\ conn[p].at = "out"
  /\ Gone({p}) /\ dirty' = (IF era' = 0 THEN {} ELSE dirty \cup {p})
  /\ UNCHANGED <<floor, eras, conn, outgoing>>

(* serveSpectator; a board nobody is on is rendered as it lies.            *)
Watch(w) ==
  /\ conn[w].at = "out"
  /\ conn' = [conn EXCEPT ![w] = [Greeted(Screen) EXCEPT !.engine = era]]
  /\ UNCHANGED <<present, floor, era, eras, dirty, outgoing>>

-----------------------------------------------------------------------------
(* The tick                                                                *)

(* A watcher's frame: a whole screen when the board has a new engine, the  *)
(* room's cells when it has the one the watcher knows.                     *)
Watched(r, diff) ==
  IF ~Live' THEN NoFrame ELSE IF r.engine # era' THEN Screen' ELSE diff

Attached == {c \in Conn : conn[c].at \in {"joining", "in", "dead"}}

(* One step of the board: it changes or not, some quit, and everybody still*)
(* here is given the cells drawn since the last.                           *)
Tick ==
  /\ outgoing = [c \in Conn |-> NoFrame]
  /\ \E quit \in SUBSET present, change \in BOOLEAN :
       LET drawn == dirty \cup quit \cup (IF change THEN {"floor"} ELSE {})
           diff  == Restrict(Screen', drawn)
       IN /\ change => Live
          /\ floor' = (IF change THEN ~floor ELSE floor)
          /\ Gone(quit)
          /\ outgoing' = [c \in Conn |-> IF c \in Attached \cap present' THEN diff
                                         ELSE IF c \in Attached \cap Watcher THEN Watched(conn[c], diff)
                                         ELSE NoFrame]
  /\ dirty' = {}
  /\ conn' = [c \in Conn |-> IF c \in Watcher /\ c \in Attached
                             THEN [conn[c] EXCEPT !.engine = era'] ELSE conn[c]]
  /\ UNCHANGED eras

(* The tick's goroutine queues what it took, client by client; one whose   *)
(* first frame is still to come is followed no further than that.          *)
Deliver(c) ==
  /\ outgoing[c] # NoFrame
  /\ outgoing' = [outgoing EXCEPT ![c] = NoFrame]
  /\ conn' = [conn EXCEPT ![c] = IF @.at = "joining" THEN [NoConn EXCEPT !.at = "early"]
                                 ELSE Write(@, outgoing[c])]
  /\ UNCHANGED <<present, floor, era, eras, dirty>>

Next ==
  \/ \E c \in Conn : WriteNow(c) \/ Greet(c) \/ ReadLoopExit(c) \/ Deliver(c)
  \/ \E p \in Player : Join(p) \/ Resume(p) \/ ExpireDetached(p)
  \/ \E w \in Watcher : Watch(w)
  \/ Tick

Spec == Init /\ [][Next]_vars

-----------------------------------------------------------------------------
(* Nothing is on its way to c, from the room or the queue.                 *)
Settled(c) ==
  /\ conn[c].at = "in" /\ conn[c].queue = <<>> /\ outgoing[c] = NoFrame /\ dirty = {}

(* Once all that was sent has arrived, a player who is on the board sees it*)
(* as it is, however the others came and went and whatever was queued: save*)
(* a player to whom a tick queued a frame before their own first one.      *)
PlayersSee ==
  \A p \in present : Settled(p) => conn[p].screen = Screen
=============================================================================
