-------------------------------- MODULE ZWD --------------------------------
(***************************************************************************)
(* A world exported as ZWD, the text a world is written in, and compiled   *)
(* again: zwd_decompile.go and zwd.go.  A world is a sequence of boards;   *)
(* stat i of a board is stats[i], and the player's own stat is its start   *)
(* and under.  The text of a board is a record: the fields of its header,  *)
(* the characters of its grid, the lines of its legend, and the lines of   *)
(* its stats block, which are read one by one.                             *)
(*                                                                         *)
(* Sizes, messages, dark, reenter, max-shots and the time limit are copied *)
(* both ways and left out.  A board is opened before it is exported, which *)
(* gives every object bound to another's program a copy of it: no bind is  *)
(* written.                                                                *)
(***************************************************************************)
EXTENDS Integers, FiniteSets, FiniteSetsExt, SequencesExt

CONSTANTS
  Width,     \* a board's squares are 1..Width, row by row
  Worlds,    \* the .ZZT worlds that are exported
  Pool,      \* buildFallbackPool, shortened
  MAX_STAT

VARIABLES
  world,     \* the world that is exported
  at,        \* loaded, exported, refused or compiled
  text,      \* its ZWD, one text for each board
  back       \* the world compiled from it

vars == <<world, at, text, back>>

Squares == 1..Width
Off     == 0                       \* a record off the board: a centipede's sentinel

(* The elements told apart: Raw has no name, Door has a key in its color,  *)
(* Text shows its color as a character.                                    *)
NeedsStat    == {"Player", "Object", "Passage", "Head"}
MayHaveStat  == NeedsStat \cup {"Conveyor"}
NameOf(el)   == IF el = "Raw" THEN "Empty" ELSE el

-----------------------------------------------------------------------------
(* What a stat line leaves out is what the parser gives it.                *)
Default(el) ==
  [cycle |-> IF el = "Passage" THEN 0 ELSE 3, p1 |-> IF el = "Object" THEN 1 ELSE 0, p3 |-> 0,
   p3Board |-> "", follower |-> -1, leader |-> -1, dataPos |-> 0]

(* wrapZWDTextWindowLines: text is broken, commands stay, and a title that *)
(* is too long is an error.                                                *)
Wraps(program)   == \A i \in DOMAIN program : program[i] # "@too long"
WrapLine(line)   == IF line = "long text" THEN <<"text", "text">> ELSE <<line>>
Wrapped(program) == FoldLeft(LAMBDA lines, line : lines \o WrapLine(line), <<>>, program)

-----------------------------------------------------------------------------
(* The export.                                                             *)

Representable(board, i) ==
  /\ board.stats[i].at # Off
  /\ board.tiles[board.stats[i].at].element \in NeedsStat

Emitted(board) == {i \in DOMAIN board.stats : Representable(board, i)}
EmittedIndex(board, i) == Cardinality({j \in Emitted(board) : j <= i})

(* A bug: the references as they are.                                      *)
RemappedNot(board, ref) == ref
(* remapDecompiledStatRef                                                  *)
Remapped(board, ref) ==
  IF ref <= 0 THEN ref ELSE IF ref \in Emitted(board) THEN EmittedIndex(board, ref) ELSE -1

BoardName(w, id) == w.boards[id + 1].name
IsBoard(w, id)   == id < Len(w.boards)

(* The legend's entry of a square.  The last stat on a square is the one   *)
(* that is found there.                                                    *)
StatsAt(board, sq) == {i \in DOMAIN board.stats : board.stats[i].at = sq}
DestOf(w, board, sq) ==
  IF board.tiles[sq].element = "Passage" /\ StatsAt(board, sq) # {}
    THEN LET leads == board.stats[Max(StatsAt(board, sq))].p3
         IN IF leads # 0 /\ IsBoard(w, leads) THEN BoardName(w, leads) ELSE ""
    ELSE ""
EntryAt(w, board, sq) ==
  [element |-> board.tiles[sq].element, color |-> board.tiles[sq].color, to |-> DestOf(w, board, sq),
   under |-> IF board.tiles[sq].element = "Player" THEN board.under ELSE ""]

LegendOrder(w, board) ==
  FoldLeft(LAMBDA order, sq : IF EntryAt(w, board, sq) \in ToSet(order) THEN order
                              ELSE Append(order, EntryAt(w, board, sq)),
           <<>>, [sq \in Squares |-> sq])

(* The character an entry would like: what a text tile shows, or the one   *)
(* preferred for its element.                                              *)
Likes(entry) == IF entry.element = "Text" THEN entry.color ELSE entry.element

(* Characters are given out in two rounds: to those that get the one they  *)
(* like, then from the pool to the others; to the last perhaps none.       *)
Preferred(order) ==
  FoldLeft(LAMBDA chars, entry : IF Likes(entry) \in Range(chars) THEN Append(chars, "")
                                 ELSE Append(chars, Likes(entry)),
           <<>>, order)
FromPool(chars) ==
  FoldLeft(LAMBDA given, char :
             IF char # "" THEN Append(given, char)
             ELSE LET left == SelectSeq(Pool, LAMBDA c : c \notin Range(chars) \cup Range(given))
                  IN Append(given, IF left = <<>> THEN "" ELSE Head(left)),
           <<>>, chars)

Line(words) == [kind |-> "line", words |-> words]

StatLine(w, board, i) ==
  LET s    == board.stats[i]
      el   == board.tiles[s.at].element
      name == el = "Passage" /\ s.p3 # 0 /\ IsBoard(w, s.p3)
      all  == [cycle |-> s.cycle, p1 |-> s.p1, p3 |-> IF name THEN 0 ELSE s.p3,
               p3Board |-> IF name THEN BoardName(w, s.p3) ELSE "",
               follower |-> Remapped(board, s.follower), leader |-> Remapped(board, s.leader),
               dataPos |-> s.dataPos]
      told == {f \in DOMAIN all : all[f] # Default(el)[f]}
  IN [kind |-> "stat", at |-> s.at, element |-> NameOf(el), fields |-> [f \in told |-> all[f]]]

Program(program) ==
  IF program = <<>> THEN <<>>
  ELSE LET lines == IF Wraps(program) THEN Wrapped(program) ELSE program
       IN <<Line("oop")>> \o [k \in DOMAIN lines |-> Line(lines[k])] \o <<Line("end")>>

(* The stats block and the end of the board.                               *)
StatLines(w, board) ==
  FoldLeft(LAMBDA lines, i : IF Representable(board, i)
                               THEN (lines \o <<StatLine(w, board, i)>>) \o Program(board.stats[i].program)
                               ELSE lines,
           <<>>, [i \in DOMAIN board.stats |-> i])
    \o <<Line("end"), Line("end")>>

GridChars(w, board, order, chars) ==
  [sq \in Squares |-> chars[CHOOSE k \in DOMAIN order : order[k] = EntryAt(w, board, sq)]]
LegendLines(order, chars) ==
  [k \in DOMAIN order |-> [char |-> chars[k], element |-> NameOf(order[k].element),
                           color |-> order[k].color, under |-> NameOf(order[k].under)]]

DecompileBoard(w, board) ==
  LET start == IF board.start = Off THEN board.respawn ELSE board.start
      order == LegendOrder(w, board)
      chars == FromPool(Preferred(order))
  IN [name |-> board.name, start |-> start,
      respawn |-> IF board.respawn = start THEN Off ELSE board.respawn,
      exit |-> IF board.exit # 0 /\ IsBoard(w, board.exit) THEN BoardName(w, board.exit) ELSE "",
      grid |-> GridChars(w, board, order, chars), legend |-> LegendLines(order, chars),
      lines |-> StatLines(w, board)]

Decompile(w) == [b \in DOMAIN w.boards |-> DecompileBoard(w, w.boards[b])]

-----------------------------------------------------------------------------
(* The compiler.  The lines of a stats block are read one by one: a line   *)
(* that is "end" ends what is open, a program as well as the block.        *)

Authored(line) ==
  line.fields @@ Default(line.element) @@ [at |-> line.at, element |-> line.element, program |-> <<>>]

(* Between stats a line that begins with # is a comment.                   *)
Comment(line) == line = Line("#command")

ReadLine(read, line) ==
  CASE read.open = "oop" /\ line # Line("end") ->
         [read EXCEPT !.stats[Len(read.stats)].program = Append(@, line.words)]
    [] read.open = "oop" -> [read EXCEPT !.open = "stats", !.fresh = FALSE]
    [] read.open = "stats" /\ line.kind = "stat" ->
         [read EXCEPT !.stats = Append(@, Authored(line)), !.fresh = TRUE]
    [] read.open = "stats" /\ Comment(line) -> read
    [] read.open = "stats" /\ line = Line("oop") /\ read.fresh -> [read EXCEPT !.open = "oop"]
    [] read.open = "stats" /\ line = Line("end") -> [read EXCEPT !.open = "board"]
    [] read.open = "board" /\ line = Line("end") -> [read EXCEPT !.open = "nothing"]
    [] OTHER -> [read EXCEPT !.open = "error"]

ReadLines(lines) == FoldLeft(ReadLine, [open |-> "stats", fresh |-> FALSE, stats |-> <<>>], lines)

(* The first board of a name is the one that is meant.                     *)
KnownBoard(t, name) == \E b \in DOMAIN t : t[b].name = name
BoardId(t, name) == Min({b \in DOMAIN t : t[b].name = name}) - 1

(* A quote opens a string, even where it stands for a key.                 *)
KeyRead(char) == char # "quote"
KeysNew(legend) == \A j, k \in DOMAIN legend : legend[j].char = legend[k].char => j = k

(* A door's color has a key.                                               *)
LegendRead(legend) ==
  /\ \A k \in DOMAIN legend : /\ KeyRead(legend[k].char)
                              /\ legend[k].element = "Door" => legend[k].color # "no key"
  /\ KeysNew(legend)

Meant(tb, sq) == tb.legend[CHOOSE k \in DOMAIN tb.legend : tb.legend[k].char = tb.grid[sq]]

GridCompiles(tb) ==
  /\ \A sq \in Squares : \E k \in DOMAIN tb.legend : tb.legend[k].char = tb.grid[sq]
  /\ {sq \in Squares : Meant(tb, sq).element = "Player"} = {tb.start}

ExitCompiles(t, tb) == tb.exit = "" \/ (KnownBoard(t, tb.exit) /\ BoardId(t, tb.exit) # 0)

StatCompiles(t, tb, stats, i) ==
  LET s == stats[i]
  IN /\ s.cycle >= 0 /\ {s.follower, s.leader} \subseteq -1..MAX_STAT
     /\ s.element \in MayHaveStat /\ Meant(tb, s.at).element = s.element
     /\ s.p3Board = "" \/ KnownBoard(t, s.p3Board)
     /\ Wraps(s.program)

NoOrphans(tb, stats) ==
  \A sq \in Squares \ {tb.start} :
    Meant(tb, sq).element \in NeedsStat => \E i \in DOMAIN stats : stats[i].at = sq

BoardCompiles(t, tb) ==
  LET read == ReadLines(tb.lines)
  IN /\ read.open = "nothing"
     /\ LegendRead(tb.legend) /\ ExitCompiles(t, tb) /\ GridCompiles(tb)
     /\ Len(read.stats) <= MAX_STAT /\ NoOrphans(tb, read.stats)
     /\ \A i \in DOMAIN read.stats : StatCompiles(t, tb, read.stats, i)

Compiles(t) == \A b \in DOMAIN t : BoardCompiles(t, t[b])

CompiledStat(t, s) ==
  [at |-> s.at, cycle |-> s.cycle, p1 |-> s.p1, follower |-> s.follower, leader |-> s.leader,
   p3 |-> IF s.p3Board = "" THEN s.p3 ELSE BoardId(t, s.p3Board),
   dataPos |-> s.dataPos, program |-> Wrapped(s.program)]

CompiledBoard(t, tb) ==
  LET stats == ReadLines(tb.lines).stats
  IN [name |-> tb.name, start |-> tb.start, under |-> Meant(tb, tb.start).under,
      respawn |-> IF tb.respawn = Off THEN tb.start ELSE tb.respawn,
      exit |-> IF tb.exit = "" THEN 0 ELSE BoardId(t, tb.exit),
      tiles |-> [sq \in Squares |-> [element |-> Meant(tb, sq).element, color |-> Meant(tb, sq).color]],
      stats |-> [i \in DOMAIN stats |-> CompiledStat(t, stats[i])]]

CompileZWDWorld(t) == [boards |-> [b \in DOMAIN t |-> CompiledBoard(t, t[b])]]

-----------------------------------------------------------------------------
Init == world \in Worlds /\ at = "loaded" /\ text = <<>> /\ back = [boards |-> <<>>]

(* DecompileZWDAuthorable gives nothing out that does not compile.         *)
DecompileZWDAuthorable ==
  /\ at = "loaded"
  /\ \/ Compiles(Decompile(world)) /\ at' = "exported" /\ text' = Decompile(world)
     \/ ~ Compiles(Decompile(world)) /\ at' = "refused" /\ UNCHANGED text
  /\ UNCHANGED <<world, back>>

CompileZWD ==
  /\ at = "exported" /\ at' = "compiled" /\ back' = CompileZWDWorld(text)
  /\ UNCHANGED <<world, text>>

Next == DecompileZWDAuthorable \/ CompileZWD
Spec == Init /\ [][Next]_vars

-----------------------------------------------------------------------------
(* The names of a world's boards tell them apart.                          *)
NamesTell(w) ==
  \A b, c \in DOMAIN w.boards : w.boards[b].name # "" /\ (w.boards[b].name = w.boards[c].name => b = c)

(* What a stat of the exported world refers to is what its copy refers to, *)
(* and nothing where that was left behind.                                 *)
SameStat(from, to, ref, got) ==
  IF ref > 0
  THEN IF ref \in Emitted(from) THEN got > 0 /\ to.stats[got].at = from.stats[ref].at ELSE got = -1
  ELSE got = ref

(* A world that is exported comes back: exits and passages lead to the     *)
(* same boards, the same stats follow each other although those the text   *)
(* cannot name are left behind, and the fields a line leaves out are what  *)
(* they were (zwd_decompile.go:378-388, 405-415; zwd.go:574-576).          *)
ComesBack ==
  at = "compiled" /\ NamesTell(world) =>
    \A b \in DOMAIN world.boards :
      LET from == world.boards[b]
          to   == back.boards[b]
      IN /\ to.exit = IF IsBoard(world, from.exit) THEN from.exit ELSE 0
         /\ \A i \in Emitted(from) :
              LET s == from.stats[i]
                  r == to.stats[EmittedIndex(from, i)]
              IN /\ <<r.at, r.cycle, r.p1, r.p3>> = <<s.at, s.cycle, s.p1, s.p3>>
                 /\ r.program = Wrapped(s.program)
                 /\ SameStat(from, to, s.follower, r.follower)
                 /\ SameStat(from, to, s.leader, r.leader)
=============================================================================
