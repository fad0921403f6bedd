-------------------------------- MODULE Titles --------------------------------
(***************************************************************************)
(* The title board of a world, which runs while somebody watches it        *)
(* (title_sim.go), and the browsers that do: each fetches a whole screen   *)
(* (handleTitle) and then has the changed cells streamed to it             *)
(* (handleTitleStream).                                                    *)
(*                                                                         *)
(* A subscription gathers the cells that change until its stream takes     *)
(* them, so one that is slow falls behind but loses none. A cell shows how *)
(* often it was drawn, up to Shades.                                       *)
(***************************************************************************)
EXTENDS Naturals, Functions

CONSTANTS Watcher, Cell, Shades

VARIABLES
  board,     \* the engine's screen
  subs,      \* who is subscribed
  pending,   \* titleSub.pending: the cells gathered for each, and their glyphs
  signal,    \* whether titleSub.signal holds a token
  taken,     \* what a stream has drained and has yet to write
  screen,    \* what each browser shows
  behind     \* ghost: who subscribed to a board they had not been shown

vars == <<board, subs, pending, signal, taken, screen, behind>>

Blank   == [c \in Cell |-> 0]
NoCells == <<>>
Unseen  == <<>>

Init ==
  /\ board = Blank /\ subs = {} /\ behind = {}
  /\ pending = [w \in Watcher |-> NoCells]
  /\ signal = [w \in Watcher |-> FALSE]
  /\ taken = [w \in Watcher |-> NoCells]
  /\ screen = [w \in Watcher |-> Unseen]

(* Cells laid over a screen, or over others that wait.                     *)
Over(cells, f) == [c \in DOMAIN f \union DOMAIN cells |->
                     IF c \in DOMAIN cells THEN cells[c] ELSE f[c]]

(* A bug: what waits is replaced.                                          *)
MergedReplacing(cells, w) == cells

(* merge: the newer glyph of a cell counts; a signal is not sent twice.    *)
Merged(cells, w) == Over(cells, pending[w])

-----------------------------------------------------------------------------
(* GET /api/title: the screen as it is.                                    *)
Fetch(w) ==
  /\ screen[w] = Unseen
  /\ screen' = [screen EXCEPT ![w] = board]
  /\ UNCHANGED <<board, subs, pending, signal, taken, behind>>

Subscribe(w) ==
  /\ screen[w] # Unseen /\ w \notin subs
  /\ subs' = subs \union {w}
  /\ behind' = IF screen[w] = board THEN behind ELSE behind \union {w}
  /\ UNCHANGED <<board, pending, signal, taken, screen>>

(* The browser leaves: the stream's loop ends and cancels.                 *)
Cancel(w) ==
  /\ w \in subs
  /\ subs' = subs \ {w} /\ behind' = behind \ {w}
  /\ pending' = [pending EXCEPT ![w] = NoCells]
  /\ signal' = [signal EXCEPT ![w] = FALSE]
  /\ taken' = [taken EXCEPT ![w] = NoCells]
  /\ screen' = [screen EXCEPT ![w] = Unseen]
  /\ UNCHANGED board

(* Tick: nothing when nobody watches; a step that draws nothing, or one    *)
(* whose cells are merged into every subscription.                         *)
Tick ==
  /\ subs # {}
  /\ \E drawn \in SUBSET Cell \ {{}} :
       LET cells == [c \in drawn |-> (board[c] + 1) % Shades]
       IN  /\ board' = Over(cells, board)
           /\ pending' = [w \in Watcher |-> IF w \in subs THEN Merged(cells, w) ELSE pending[w]]
           /\ signal' = [w \in Watcher |-> signal[w] \/ w \in subs]
  /\ UNCHANGED <<subs, taken, screen, behind>>

(* The stream wakes, drains what is gathered, and writes it.               *)
Drain(w) ==
  /\ signal[w] /\ taken[w] = NoCells
  /\ signal' = [signal EXCEPT ![w] = FALSE]
  /\ taken' = [taken EXCEPT ![w] = pending[w]]
  /\ pending' = [pending EXCEPT ![w] = NoCells]
  /\ UNCHANGED <<board, subs, screen, behind>>
Send(w) ==
  /\ taken[w] # NoCells
  /\ screen' = [screen EXCEPT ![w] = Over(taken[w], @)]
  /\ taken' = [taken EXCEPT ![w] = NoCells]
  /\ UNCHANGED <<board, subs, pending, signal, behind>>

Next ==
  \/ Tick
  \/ \E w \in Watcher : Fetch(w) \/ Subscribe(w) \/ Cancel(w) \/ Drain(w) \/ Send(w)

Spec == Init /\ [][Next]_vars

-----------------------------------------------------------------------------
TypeOK ==
  /\ board \in [Cell -> 0..(Shades - 1)]
  /\ \A w \in Watcher : /\ DOMAIN pending[w] \subseteq Cell
                        /\ w \in subs => screen[w] # Unseen

(* "A slow client must fall behind in TIME, never lose a cell"             *)
(* (title_sim.go:29-31): what a watcher shows, with what is on its way, is *)
(* the board, and what is gathered will be sent.                           *)
NoCellLost ==
  \A w \in subs \ behind :
    /\ Over(pending[w], Over(taken[w], screen[w])) = board
    /\ pending[w] # NoCells => signal[w]
=============================================================================
