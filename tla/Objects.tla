------------------------------- MODULE Objects -------------------------------
(***************************************************************************)
(* The interpreter of objects (oop.go) on one board.  A turn of an object  *)
(* runs OopExecute one instruction at a time; nothing else happens on the  *)
(* board meanwhile, but the instructions add and remove stats.  Like the   *)
(* code, a turn holds the number of a slot: what the slot names after a    *)
(* removal is what the code finds there, above StatCount too.  A program   *)
(* is a sequence of lines; squares are left out, so a way is free or not   *)
(* and the nearest player is anybody, as the board may have it.            *)
(***************************************************************************)
EXTENDS Integers, Sequences, FiniteSets, FiniteSetsExt, SequencesExt

CONSTANTS MaxStats,   \* MAX_STAT + 1; slot k is stat id k - 1
          MAX_INS,    \* 32: commands in a turn
          Full,       \* the health of a player, in hits
          Scenes      \* the boards a run begins with

VARIABLE eng
(* n, stat: slot -> [who, kind, text, pos, lock, walk, gone]; pos 0 is     *)
(*   DataPos -1, gone a slot whose Data was taken away but not its length  *)
(* aud: ScrollAudience; pl: who -> [hp, down]; run: the turn in progress   *)
(* knock, heard: ghosts: who touched which object since its last window,   *)
(*   and whether every window so far went to such a one; panic             *)

Nobody == "nobody"
Slot   == 1..MaxStats
Still  == [slot |-> 0, near |-> 0, whose |-> Nobody, ins |-> 0, said |-> 0, last |-> 0,
           cmd |-> <<>>, stop |-> FALSE, become |-> "no", shifted |-> FALSE]
Plain(kind, who) == [who |-> who, kind |-> kind, text |-> <<>>, pos |-> 1, lock |-> FALSE,
                     walk |-> FALSE, gone |-> FALSE]

(* A board that is opened: a player stands first, objects are told apart,  *)
(* and nobody touched one yet.                                             *)
Shaped(e) ==
  /\ e = [n |-> e.n, stat |-> e.stat, aud |-> e.aud, pl |-> e.pl, run |-> e.run,
          knock |-> e.knock, heard |-> e.heard, panic |-> e.panic]
  /\ e.n \in 1..MaxStats /\ DOMAIN e.stat = Slot
  /\ \A k \in Slot :
       LET s == e.stat[k]
       IN s = [who |-> s.who, kind |-> s.kind, text |-> s.text, pos |-> s.pos, lock |-> s.lock,
               walk |-> s.walk, gone |-> s.gone]
ToldApart(e) ==
  \A k \in {k \in 1..e.n : e.stat[k].kind = "object"} :
    e.stat[k].who # Nobody /\ \A j \in (1..e.n) \ {k} : e.stat[j].who # e.stat[k].who
ASSUME ScenesAssumption ==
  /\ MaxStats \in Nat /\ MAX_INS \in Nat
  /\ \A e \in Scenes :
       /\ Shaped(e) /\ ToldApart(e) /\ e.stat[1].kind = "player"
       /\ e.aud = [k \in Slot |-> 0] /\ e.run = Still
       /\ e.knock = {} /\ e.heard = TRUE /\ e.panic = FALSE

Init == eng \in Scenes

-----------------------------------------------------------------------------
(* Stats (game.go)                                                         *)

AddStat(e, kind) ==
  IF e.n = MaxStats THEN e ELSE [e EXCEPT !.n = @ + 1, !.stat[e.n + 1] = Plain(kind, Nobody)]

(* A bug: only the slots move.                                             *)
AudienceSlotsOnly(aud, i, n) ==
  [k \in Slot |-> IF k >= n THEN 0 ELSE IF k >= i THEN aud[k + 1] ELSE aud[k]]

(* The audience of a slot moves down with it, and so does the player it    *)
(* names.                                                                  *)
AudienceWithout(aud, i, n) ==
  LET named == [k \in Slot |-> IF aud[k] = i THEN 0 ELSE IF aud[k] > i THEN aud[k] - 1 ELSE aud[k]]
  IN [k \in Slot |-> IF k >= n THEN 0 ELSE IF k >= i THEN named[k + 1] ELSE named[k]]

(* A program no other stat has is forgotten, in the slot it was in.        *)
RemoveStat(e, i) ==
  LET alone == e.stat[i].text # <<>> /\ \A k \in 2..e.n : k # i => e.stat[k].text # e.stat[i].text
      freed == [e.stat EXCEPT ![i].gone = alone]
  IN [e EXCEPT !.n = @ - 1,
               !.stat = [k \in Slot |-> IF i <= k /\ k < e.n THEN freed[k + 1] ELSE freed[k]],
               !.aud = AudienceWithout(@, i, e.n),
               !.run.shifted = @ \/ i <= e.run.slot,
               !.knock = {q \in @ : q[2] # e.stat[i].who}]

TimerSlots(e) == {k \in 1..e.n : e.stat[k].kind = "timer"}
DisplayMessage(e) ==
  AddStat(IF TimerSlots(e) = {} THEN e ELSE RemoveStat(e, Min(TimerSlots(e))), "timer")

(* killPlayer, of whatever stands in slot i by now.                        *)
KillPlayer(e, i) ==
  IF i <= e.n /\ e.stat[i].kind = "player" THEN [e EXCEPT !.pl[e.stat[i].who].down = TRUE] ELSE e

DamageStat(e, i) ==
  LET p == e.stat[i].who
      hurt == DisplayMessage([e EXCEPT !.pl[p].hp = @ - 1])
  IN IF e.stat[i].kind # "player" THEN RemoveStat(e, i)
     ELSE IF e.pl[p].hp = 0 THEN e
     ELSE IF hurt.pl[p].hp = 0 THEN KillPlayer(hurt, i) ELSE hurt

-----------------------------------------------------------------------------
(* Labels and who is meant                                                 *)

Labels(text, op, l) == {k \in 2..Len(text) : text[k].op = op /\ text[k].label = l}
FindLabel(text, op, l) ==
  IF l = "restart" THEN 1 ELSE IF Labels(text, op, l) = {} THEN 0 ELSE Min(Labels(text, op, l))

Named(e, k, name) == e.stat[k].text # <<>> /\ e.stat[k].text[1] = [op |-> "name", name |-> name]

(* OopIterateStat; stat id 0 is in no lookup.                              *)
Lookup(e, i, to) ==
  CASE to = "here"   -> {i}
    [] to = "self"   -> {i}
    [] to = "all"    -> 2..e.n
    [] to = "others" -> (2..e.n) \ {i}
    [] OTHER         -> {k \in 2..e.n : Named(e, k, to)}

ByName(to) == to \notin {"here", "self", "all", "others"}

Reached(e, i, to, op, l) == {k \in Lookup(e, i, to) : FindLabel(e.stat[k].text, op, l) # 0}

(* A bug: what is sent on an object's behalf passes its lock.              *)
HearsItself(e, i, k, outside) == ~e.stat[k].lock \/ k = i

(* A locked object is reached by its own #send; one sent on its behalf     *)
(* (outside) does not get past its lock.                                   *)
Hears(e, i, k, outside) == ~e.stat[k].lock \/ (k = i /\ ~outside)

OopSend(e, i, to, l, outside) ==
  LET hearers == {k \in Reached(e, i, to, "label", l) : Hears(e, i, k, outside)}
  IN [e EXCEPT !.stat = [k \in Slot |->
        IF k \in hearers THEN [e.stat[k] EXCEPT !.pos = FindLabel(e.stat[k].text, "label", l)]
       ELSE e.stat[k]]]

SentToSelf(e, i, to, l) == i \in Reached(e, i, to, "label", l)

Marked(e, ks, k, op) ==
  [e EXCEPT !.stat[k].text = [j \in DOMAIN @ |-> IF j \in ks THEN [@[j] EXCEPT !.op = op] ELSE @[j]]]
First(e, k, op, l) == {Min(Labels(e.stat[k].text, op, l))}

(* Labels further down than the first, as #restore finds them: a line of   *)
(* text after one hides it.                                                *)
Further(e, k, l) ==
  LET text == e.stat[k].text
  IN {j \in Labels(text, "zapped", l) : j = Len(text) \/ text[j + 1].op # "say"}

(* #zap and #restore mark the first label l of everybody meant.  A lookup  *)
(* by name leaves the name in OopWord: only the first with that name is    *)
(* reached, then the object's own label of that name if it comes later.    *)
Mark(e, i, to, l, from, op) ==
  LET reached == {k \in Reached(e, i, to, from, l) : Labels(e.stat[k].text, from, l) # {}}
      one(f, k, m) ==
        LET g == Marked(f, First(f, k, from, m), k, op)
            rest == IF to = "here" THEN m ELSE IF ByName(to) THEN to ELSE ""
        IN IF op = "zapped" THEN g ELSE Marked(g, Further(g, k, rest), k, op)
      j == Min(reached)
      f == one(e, j, l)
  IN IF reached = {} THEN e
     ELSE IF ~ByName(to)
     THEN [e EXCEPT !.stat = [k \in Slot |-> IF k \in reached THEN one(e, k, l).stat[k] ELSE @[k]]]
     ELSE IF j < i /\ Labels(f.stat[i].text, from, to) # {} THEN one(f, i, to) ELSE f

-----------------------------------------------------------------------------
(* A turn                                                                  *)

i0 == eng.run.slot
Me == eng.stat[i0]
Running == i0 # 0 /\ ~eng.panic /\ ~eng.run.stop

(* What is read next: the rest of a line after "#if" and the like, or the  *)
(* line at DataPos; <<>> at the end of the program.                        *)
Next1 ==
  IF eng.run.cmd # <<>> THEN eng.run.cmd
  ELSE IF Me.pos \in 1..Len(Me.text) THEN <<Me.text[Me.pos]>> ELSE <<>>

Reads(op) == Running /\ Next1 # <<>> /\ Next1[1].op = op
Line == Next1[1]

(* The line is read, and a command counted.                                *)
Read ==
  IF eng.run.cmd # <<>> THEN [eng EXCEPT !.run.cmd = <<>>]
  ELSE [eng EXCEPT !.stat[i0].pos = @ + 1, !.run.last = Me.pos]
Counted == [Read EXCEPT !.run.ins = @ + 1]

(* After removals the rest of the line is skipped in the program the slot  *)
(* has by now; a Data that was taken away is read past its end.            *)
Skipped(e) ==
  LET s == e.stat[i0]
      moved == e.run.shifted /\ ~eng.run.shifted
  IN IF s.gone THEN [e EXCEPT !.panic = TRUE]
     ELSE IF moved /\ s.pos \in 1..Len(s.text) THEN [e EXCEPT !.stat[i0].pos = @ + 1] ELSE e

(* A bug: the commands of a turn are not counted up to a limit.            *)
LoopEndsAtStop(e) == eng' = Skipped(e)
LoopEnds(e) == eng' = [Skipped(e) EXCEPT !.run.stop = @ \/ e.run.ins > MAX_INS]
Stops(e) == LoopEnds([e EXCEPT !.run.stop = TRUE])

(* OopError: the slot is stopped after the message.                        *)
OopError(e) == LoopEnds([DisplayMessage(e) EXCEPT !.stat[i0].pos = 0])

(* ElementObjectTick; the nearest player is looked for once a turn.        *)
BeginTurn(i) ==
  /\ i0 = 0 /\ ~eng.panic
  /\ i \in 2..eng.n /\ eng.stat[i].kind = "object" /\ eng.stat[i].pos # 0
  /\ \E p \in 1..eng.n :
       /\ eng.stat[p].kind = "player"
       /\ eng' = [eng EXCEPT !.run = [Still EXCEPT !.slot = i, !.near = p, !.whose = eng.stat[p].who]]

Passed == (\E op \in {"label", "zapped", "name"} : Reads(op)) /\ LoopEnds(Read)
Say    == Reads("say") /\ LoopEnds([Read EXCEPT !.run.said = IF @ = 2 THEN 2 ELSE @ + 1])

(* A "#" with nothing after it is no command, and not counted. The one     *)
(* that a program ends with is stepped back to, and read again for ever.   *)
AtEnd == Me.pos = Len(Me.text) + Len(eng.run.cmd)
Spins == Reads("bare") /\ AtEnd
Bare ==
  /\ Reads("bare")
  /\ IF AtEnd THEN eng' = [eng EXCEPT !.run.last = Me.pos] ELSE LoopEnds(Read)

(* What is in the way is pushed, and may crush a stat that can be; then    *)
(* the way is free or it is not.                                           *)
Pushes(e) == {e} \cup {RemoveStat(e, k) : k \in {k \in 2..e.n : e.stat[k].kind = "fodder"}}

(* "/": a step, tried again next turn; "?": a step if the way is free.     *)
Step ==
  /\ Reads("/") \/ Reads("?")
  /\ \E free \in BOOLEAN, e \in Pushes(Read) :
       LET again == ~free /\ Line.op = "/"
       IN Stops(IF again THEN [e EXCEPT !.stat[i0].pos = e.run.last] ELSE e)
Go ==
  /\ Reads("go")
  /\ \E free \in BOOLEAN, e \in Pushes(Counted) :
       eng' = LET f == [Skipped(e) EXCEPT !.run.stop = TRUE]
              IN IF free THEN f ELSE [f EXCEPT !.stat[i0].pos = f.run.last]
Try ==
  /\ Reads("try")
  /\ \E free \in BOOLEAN, e \in Pushes(Counted) :
       IF free THEN Stops(e) ELSE eng' = [e EXCEPT !.run.cmd = <<Line.then>>]

(* BoardShoot: a shot that flies, one that hits what can be hit, or none.  *)
Shoot == Reads("shoot") /\ \E e \in Pushes(Counted) \cup {AddStat(Counted, "fodder")} : Stops(e)
Walk == Reads("walk") /\ LoopEnds([Counted EXCEPT !.stat[i0].walk = Line.on])
If == Reads("if") /\ \E holds \in BOOLEAN :
        IF holds THEN eng' = [Counted EXCEPT !.run.cmd = <<Line.then>>] ELSE LoopEnds(Counted)

(* #give and #take, of health: the nearest player's when the turn began.   *)
Give == Reads("give") /\ LoopEnds([Counted EXCEPT !.pl[eng.run.whose].hp = IF @ = Full THEN Full ELSE @ + 1])
Take == /\ Reads("take")
        /\ IF eng.pl[eng.run.whose].hp > 0
           THEN LoopEnds([Counted EXCEPT !.pl[eng.run.whose].hp = @ - 1])
           ELSE eng' = [Counted EXCEPT !.run.cmd = <<Line.then>>]
EndGame ==
  /\ Reads("endgame")
  /\ LoopEnds(IF eng.pl[eng.run.whose].hp = 0 THEN Counted
              ELSE KillPlayer([Counted EXCEPT !.pl[eng.run.whose].hp = 0], eng.run.near))

End     == Reads("end") /\ LoopEnds([Counted EXCEPT !.stat[i0].pos = 0])
Idle    == Reads("idle") /\ Stops(Counted)
Restart == Reads("restart") /\ LoopEnds([Counted EXCEPT !.stat[i0].pos = 1])
Lock    == (\E op \in {"lock", "unlock"} : Reads(op)) /\ LoopEnds([Counted EXCEPT !.stat[i0].lock = Line.op = "lock"])
Zap     == Reads("zap") /\ LoopEnds(Mark(Counted, i0, Line.to, Line.label, "label", "zapped"))
Restore == Reads("restore") /\ LoopEnds(Mark(Counted, i0, Line.to, Line.label, "zapped", "label"))

(* A send that reaches itself last reads whatever it looked through: if the*)
(* turn is cut off here, the object may be taken to have ended.            *)
Send ==
  /\ Reads("send")
  /\ LET e == OopSend(Counted, i0, Line.to, Line.label, FALSE)
         cut == e.run.ins > MAX_INS /\ Line.to # "here" /\ SentToSelf(eng, i0, Line.to, Line.label)
     IN \/ LoopEnds(e)
        \/ cut /\ LoopEnds([e EXCEPT !.stat[i0].pos = 0])

(* #become and #die. *)
Become == Reads("become") /\ LoopEnds([Counted EXCEPT !.run.become = Line.kind, !.run.stop = TRUE])

(* OopPlaceTile over stat k, or nobody's square (0); players stay.         *)
Place(e, k, kind) ==
  LET f == IF k = 0 THEN e ELSE RemoveStat(e, k)
  IN IF k # 0 /\ e.stat[k].kind \in {kind, "player"} THEN e ELSE IF kind = "fodder" THEN AddStat(f, kind) ELSE f
Put ==
  /\ Reads("put")
  /\ \E e \in Pushes(Counted) :
       \E k \in {0} \cup {k \in 2..e.n : e.stat[k].kind \in {"object", "fodder"}} :
         LoopEnds(Place(e, k, Line.kind))

(* FindTileOnBoard: the stats of a kind, which stand for its squares.      *)
OnBoard(e, kind) == {k \in 2..e.n : e.stat[k].kind = kind}

(* #change: a stat of a kind after the other, in the order the squares are *)
(* scanned, here that of their ids.                                        *)
ChangeOne(e, from, kind) ==
  IF OnBoard(e, from) = {} THEN e ELSE Place(e, Min(OnBoard(e, from)), kind)
Change ==
  /\ Reads("change")
  /\ LET found == Cardinality(OnBoard(Counted, Line.from))
         left[m \in 0..found] ==
           IF m = 0 THEN Counted ELSE ChangeOne(left[m - 1], Line.from, Line.kind)
     IN LoopEnds(left[found])

Bind ==
  /\ Reads("bind")
  /\ LET found == Lookup(Counted, i0, Line.to)
     IN LoopEnds(IF found = {} THEN Counted
                 ELSE [Counted EXCEPT !.stat[i0].text = eng.stat[Min(found)].text, !.stat[i0].pos = 1])
Bad == Reads("bad") /\ OopError(Counted)

(* The end of the turn: the text is shown, the object replaced, and then   *)
(* walks on or bumps into something.  What a slot above StatCount holds is *)
(* not read from one turn to the next.                                     *)
Knockers(e, who) == {q \in e.knock : q[2] = who}
Window(e) ==
  LET a == e.aud[i0]
      who == e.stat[i0].who
  IN IF i0 > e.n THEN e
     ELSE [e EXCEPT !.aud[i0] = 0,
                    !.heard = @ /\ (a # 0 => e.run.shifted \/ <<e.stat[a].who, who>> \in e.knock),
                    !.knock = @ \ Knockers(e, who)]
Shown(e) == IF e.run.said = 2 THEN Window(e) ELSE IF e.run.said = 1 THEN DisplayMessage(e) ELSE e
Replaced(e) ==
  IF e.run.become = "no" THEN e
  ELSE LET f == DamageStat(e, IF i0 > e.n THEN e.n ELSE i0)
       IN IF e.stat[i0].kind # "player" /\ e.run.become = "fodder" THEN AddStat(f, "fodder") ELSE f
EndTurn ==
  /\ i0 # 0 /\ ~eng.panic /\ (eng.run.stop \/ Next1 = <<>>)
  /\ LET e == Replaced(Shown(IF eng.run.stop THEN eng ELSE [eng EXCEPT !.stat[i0].pos = 0]))
     IN \E bumps \in BOOLEAN :
          eng' = [(IF bumps /\ e.stat[i0].walk THEN OopSend(e, i0, "here", "thud", TRUE) ELSE e)
                  EXCEPT !.run = Still,
                         !.stat = [k \in Slot |-> IF k <= e.n THEN @[k] ELSE Plain("timer", Nobody)]]

Instruction ==
  \/ Passed \/ Say \/ Bare \/ Step \/ Go \/ Try \/ Shoot \/ Walk \/ If \/ Give \/ Take \/ EndGame \/ End
  \/ Idle \/ Restart \/ Lock \/ Zap \/ Restore \/ Send \/ Become \/ Put \/ Change \/ Bind \/ Bad
  \/ EndTurn

-----------------------------------------------------------------------------
(* Between turns                                                           *)

(* ElementObjectTouch *)
Touch(p, i) ==
  /\ i0 = 0 /\ ~eng.panic
  /\ p \in 1..eng.n /\ eng.stat[p].kind = "player"
  /\ i \in 2..eng.n /\ eng.stat[i].kind = "object"
  /\ eng' = OopSend([eng EXCEPT !.aud[i] = p, !.knock = @ \cup {<<eng.stat[p].who, eng.stat[i].who>>}],
                    i, "here", "touch", TRUE)

(* A shot, a bomb; an energizer is heard by all.                           *)
Shot(i) == i0 = 0 /\ ~eng.panic /\ i \in 2..eng.n /\ eng' = OopSend(eng, i, "here", "shot", TRUE)
Energize == i0 = 0 /\ ~eng.panic /\ eng' = OopSend(eng, 1, "all", "energize", TRUE)

(* The answer of a window: whatever slot and label the client names.       *)
Reply(i, l) == i0 = 0 /\ ~eng.panic /\ i \in 1..eng.n /\ eng' = OopSend(eng, i, "here", l, FALSE)

Respawn(p) ==
  i0 = 0 /\ ~eng.panic /\ eng.pl[p].down /\ eng' = [eng EXCEPT !.pl[p] = [hp |-> Full, down |-> FALSE]]

(* A player leaves the board; a message runs out.                          *)
Leave(i) == i0 = 0 /\ ~eng.panic /\ i \in 2..eng.n /\ eng.stat[i].kind \in {"player", "timer"}
            /\ eng' = RemoveStat(eng, i)

Next ==
  \/ Instruction
  \/ \E i \in Slot :
       \/ BeginTurn(i) \/ Shot(i) \/ Leave(i)
       \/ \E p \in Slot : Touch(p, i)
       \/ \E l \in {"touch", "shot"} : Reply(i, l)
  \/ Energize
  \/ \E p \in DOMAIN eng.pl : Respawn(p)

Spec == Init /\ [][Next]_eng

-----------------------------------------------------------------------------
(* What an instruction leaves to be done in its turn.                      *)
GoesOn ==
  (i0 # 0 /\ ~Spins /\ eng'.run.slot # 0 /\ ~eng'.run.stop /\ ~eng'.panic)
    => /\ eng'.run.cmd = <<>> => eng'.run.ins <= MAX_INS
       /\ \/ eng'.run.ins = eng.run.ins + 1 /\ (eng'.run.cmd = <<>> \/ eng'.run.cmd = <<Line.then>>)
          \/ /\ eng'.run.ins = eng.run.ins /\ eng'.run.cmd = <<>>
             /\ eng.run.cmd # <<>> \/ eng'.stat[i0].pos = Me.pos + 1

(* A turn comes to an end, whatever loops the programs are written in and  *)
(* whichever program the slot has by now, as the goroutine that runs it    *)
(* ticks every other board too: each instruction ends it or counts one of  *)
(* the commands a turn has or goes on to the next line, and when they are  *)
(* used up only the rest of the line they were used up on is read. The one *)
(* exception is a program whose last byte is a "#", at that byte.          *)
TurnsEnd == [][GoesOn]_eng

Locked(e) == {k \in 2..e.n : e.stat[k].kind = "object" /\ e.stat[k].lock}
LeavesLocked ==
  (~eng.run.shifted /\ ~eng'.run.shifted /\ ~(\E i \in Slot, l \in {"touch", "shot"} : Reply(i, l)))
    => \A k \in Locked(eng), j \in Locked(eng') :
         (eng.stat[k].who = eng'.stat[j].who /\ k # eng.run.slot) => eng.stat[k].pos = eng'.stat[j].pos

(* While an object is locked nobody but itself, or an answer to a window of*)
(* its own, moves it to another place in its program: not a touch, a shot, *)
(* an energizer, its own bump, or another object's #send; whatever numbers *)
(* the stats get meanwhile, unless the object in turn lost its slot.       *)
LocksHold == [][LeavesLocked]_eng

(* "The resulting scroll is shown only to them" (elements.go:932): the     *)
(* reader of a window knocked on the object that opened it.                *)
KnockersRead == eng.heard
=============================================================================
