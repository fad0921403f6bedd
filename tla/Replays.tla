------------------------------- MODULE Replays -------------------------------
(***************************************************************************)
(* A recording played back for those who watch it (replay_viewer.go,       *)
(* websocket_server.go): one playback for all of them, opened by the first,*)
(* stepped by the server's tick, and paused or started over by any.        *)
(*                                                                         *)
(* A pass is one reading of the recording, from an open file. A board's    *)
(* image after a tick is how many ticks its room has run by then; a diff   *)
(* takes a screen from one image to the next, and a screen it does not fit *)
(* is a mixture. A frame is built under the replay's lock and written after*)
(* it is released.                                                         *)
(***************************************************************************)
EXTENDS Naturals, FiniteSets

CONSTANTS Watcher,
          LastTick,       \* ticks of the recording
          RoomTicks,      \* those the watched board's room runs in
          StartTick,      \* where the playback starts
          MaxPass         \* how often the recording is opened

Image(t) == Cardinality({k \in RoomTicks : k <= t})
Live(t)  == t \in RoomTicks

VARIABLES
  replay,    \* the entry of ReplayInstances: its pass, tick and flags
  passes,    \* how often the recording has been opened
  open,      \* the passes whose files are open
  asking,    \* the pass each watcher has built and not yet handed over
  sub,       \* the engine each spectator last saw: its pass, 0 for none
  outgoing,  \* the frame the tick built for each and has yet to write
  greeting,  \* the snapshot each's own goroutine built and has yet to write
  screen,    \* what each shows: a pass and an image
  crossed    \* ghost: who had a frame of either kind built while one of the
             \* other was on its way

vars == <<replay, passes, open, asking, sub, outgoing, greeting, screen, crossed>>

NoReplay == [pass |-> 0, tick |-> 0, paused |-> FALSE, done |-> FALSE]
Nothing  == [pass |-> 0, image |-> 0]
Mixed    == [pass |-> 0, image |-> 99]
Away     == MaxPass + 1                       \* of sub: not a spectator
Owed     == MaxPass + 1                       \* of asking: a snapshot of what was restarted
NoFrame  == [kind |-> "none", pass |-> 0, image |-> 0]

Init ==
  /\ replay = NoReplay /\ passes = 0 /\ open = {}
  /\ asking = [w \in Watcher |-> 0] /\ sub = [w \in Watcher |-> Away]
  /\ outgoing = [w \in Watcher |-> NoFrame] /\ greeting = outgoing
  /\ screen = [w \in Watcher |-> Nothing] /\ crossed = {}

Engine == IF Live(replay.tick) THEN replay.pass ELSE 0

(* write: what a frame makes of a screen.                                  *)
Shown(s, f) ==
  CASE f.kind = "snapshot" -> [pass |-> f.pass, image |-> f.image]
    [] f.kind = "diff" -> IF s = [pass |-> f.pass, image |-> f.image - 1]
                          THEN [pass |-> f.pass, image |-> f.image] ELSE Mixed
    [] OTHER -> s
Snapshot == [kind |-> "snapshot", pass |-> replay.pass, image |-> Image(replay.tick)]

(* A watcher's goroutine waits for what they ask next.                     *)
Idle(w) == asking[w] = 0 /\ greeting[w] = NoFrame

-----------------------------------------------------------------------------
(* GetOrCreateReplayInstanceAt: the recording is opened and read up to the *)
(* start without the server's lock; who comes second closes theirs again.  *)
Opens(w) ==
  /\ passes < MaxPass
  /\ passes' = passes + 1 /\ open' = open \union {passes + 1}
  /\ asking' = [asking EXCEPT ![w] = passes + 1]
  /\ UNCHANGED <<replay, sub, outgoing, greeting, screen, crossed>>

Build(w) == replay = NoReplay /\ sub[w] = Away /\ Idle(w) /\ Opens(w)

ClosedSecond(w) == open \ {asking[w]}

Install(w) ==
  /\ asking[w] \in 1..MaxPass /\ sub[w] = Away
  /\ IF replay = NoReplay
     THEN /\ replay' = [NoReplay EXCEPT !.pass = asking[w], !.tick = StartTick]
          /\ UNCHANGED open
     ELSE open' = ClosedSecond(w) /\ UNCHANGED replay
  /\ asking' = [asking EXCEPT ![w] = 0]
  /\ UNCHANGED <<passes, sub, outgoing, greeting, screen, crossed>>

(* serveReplaySpectator: registered with a snapshot, which it then writes. *)
Greeted(w) ==
  /\ sub' = [sub EXCEPT ![w] = Engine]
  /\ greeting' = [greeting EXCEPT ![w] = Snapshot]
  /\ crossed' = IF outgoing[w] = NoFrame THEN crossed ELSE crossed \union {w}
  /\ UNCHANGED <<replay, passes, open, outgoing, screen>>

Join(w) ==
  /\ replay # NoReplay /\ sub[w] = Away /\ Idle(w)
  /\ Greeted(w)
  /\ UNCHANGED asking
WriteGreeting(w) ==
  /\ greeting[w] # NoFrame
  /\ screen' = [screen EXCEPT ![w] = Shown(@, greeting[w])]
  /\ greeting' = [greeting EXCEPT ![w] = NoFrame]
  /\ UNCHANGED <<replay, passes, open, asking, sub, outgoing, crossed>>
Leave(w) ==
  /\ sub[w] # Away /\ Idle(w)
  /\ sub' = [sub EXCEPT ![w] = Away]
  /\ screen' = [screen EXCEPT ![w] = Nothing]
  /\ outgoing' = [outgoing EXCEPT ![w] = NoFrame]
  /\ crossed' = crossed \ {w}
  /\ UNCHANGED <<replay, passes, open, asking, greeting>>

Pause(w) ==
  /\ sub[w] # Away /\ Idle(w)
  /\ replay' = [replay EXCEPT !.paused = ~@]
  /\ UNCHANGED <<passes, open, asking, sub, outgoing, greeting, screen, crossed>>

(* Restart: another pass is opened without the lock, put in place of the   *)
(* one there is and every spectator is to be shown it anew; then who asked *)
(* takes a snapshot of their own.                                          *)
RestartAsked(w) == sub[w] # Away /\ Idle(w) /\ Opens(w)

Forgotten == [v \in Watcher |-> IF sub[v] = Away THEN Away ELSE 0]

Restart(w) ==
  /\ sub[w] # Away /\ asking[w] \in 1..MaxPass
  /\ replay' = [NoReplay EXCEPT !.pass = asking[w], !.tick = StartTick]
  /\ open' = open \ {replay.pass}
  /\ asking' = [asking EXCEPT ![w] = Owed]
  /\ sub' = Forgotten
  /\ crossed' = crossed \union {v \in Watcher : outgoing[v] # NoFrame \/ greeting[v] # NoFrame}
  /\ UNCHANGED <<passes, outgoing, greeting, screen>>
Restarted(w) ==
  /\ asking[w] = Owed
  /\ Greeted(w)
  /\ asking' = [asking EXCEPT ![w] = 0]

-----------------------------------------------------------------------------

(* A step's frame for one who watches: a snapshot when the room is another *)
(* than they last saw, else its diff. *)
FrameFor(w, r, engine) ==
  CASE sub[w] = Away -> NoFrame
    [] sub[w] \notin {Away, engine} -> [kind |-> "snapshot", pass |-> r.pass, image |-> Image(r.tick)]
    [] sub[w] = engine /\ engine # 0 /\ ~r.done -> [kind |-> "diff", pass |-> r.pass, image |-> Image(r.tick)]
    [] OTHER -> NoFrame

(* Tick: a step of the playback, and a frame for everyone who watches.     *)
Tick ==
  /\ replay # NoReplay /\ ~replay.paused /\ ~replay.done
  /\ \A w \in Watcher : outgoing[w] = NoFrame
  /\ LET r == IF replay.tick = LastTick THEN [replay EXCEPT !.done = TRUE]
              ELSE [replay EXCEPT !.tick = @ + 1]
         engine == IF Live(r.tick) THEN r.pass ELSE 0
     IN  /\ replay' = r
         /\ outgoing' = [w \in Watcher |-> FrameFor(w, r, engine)]
         /\ sub' = [w \in Watcher |-> IF sub[w] = Away THEN Away ELSE engine]
         /\ crossed' = crossed \union {w \in Watcher : greeting[w] # NoFrame}
  /\ UNCHANGED <<passes, open, asking, greeting, screen>>
Write(w) ==
  /\ outgoing[w] # NoFrame
  /\ screen' = [screen EXCEPT ![w] = Shown(@, outgoing[w])]
  /\ outgoing' = [outgoing EXCEPT ![w] = NoFrame]
  /\ UNCHANGED <<replay, passes, open, asking, sub, greeting, crossed>>

Next ==
  \/ \E w \in Watcher : \/ Build(w) \/ Install(w) \/ Join(w) \/ Leave(w) \/ Pause(w)
                        \/ RestartAsked(w) \/ Restart(w) \/ Restarted(w)
                        \/ WriteGreeting(w) \/ Write(w)
  \/ Tick

Spec == Init /\ [][Next]_vars

-----------------------------------------------------------------------------
TypeOK ==
  /\ replay.tick \in 0..LastTick /\ replay.pass \in 0..MaxPass
  /\ open \subseteq 1..passes
  /\ \A w \in Watcher : sub[w] \in 0..Away

(* However many open a recording or start it over at once, the files that  *)
(* are open are the playback's and those just being opened, the playback   *)
(* is one that is open, and whoever has been written all they were built is *)
(* shown the image it has reached, if its room runs.                       *)
OnePlayback ==
  /\ open = ({asking[w] : w \in Watcher} \union {replay.pass}) \ {0, Owed}
  /\ \A w \in Watcher \ crossed :
       sub[w] # Away /\ sub[w] = Engine /\ Engine # 0
       /\ outgoing[w] = NoFrame /\ greeting[w] = NoFrame
         => screen[w] = [pass |-> replay.pass, image |-> Image(replay.tick)]
=============================================================================
