---------------------------- MODULE RoomsProofs ----------------------------
(***************************************************************************)
(* Rooms for any set of players, boards, stats and pointers: the type      *)
(* invariant, bounds of the stat lists and of the tick cursor included,    *)
(* the agreement of the manager's two records of who is where, and who a   *)
(* player is.                                                              *)
(***************************************************************************)
EXTENDS Rooms, WellFoundedInduction, TLAPS

-----------------------------------------------------------------------------
(* What the operations on a stat list keep, for lists, tables and cursors  *)
(* of any size.                                                            *)

(* A set of numbers has a least one, and Min finds it. *)
LEMMA LeastNatural ==
  ASSUME NEW S \in SUBSET Nat, S # {}
  PROVE  \E x \in S : \A y \in S : x <= y
<1>1. IsWellFoundedOn(OpToRel(<, Nat), Nat)
  BY NatLessThanWellFounded, Zenon
<1>2. PICK x \in S : \A y \in S : ~ (<<y, x>> \in OpToRel(<, Nat))
  BY <1>1, WFMin, Zenon
<1>3. \A y \in S : ~ (y < x)
  BY <1>2 DEF OpToRel
<1> QED BY <1>3

LEMMA MinIsLeast ==
  ASSUME NEW S \in SUBSET Nat, S # {}
  PROVE  Min(S) \in S /\ \A y \in S : Min(S) <= y
BY LeastNatural DEF Min

(* What a list is once a stat is removed: one shorter, the stats above one *)
(* position down.                                                          *)
LEMMA StatsWithoutIs ==
  ASSUME NEW E, NEW list \in Seq(E), NEW i \in 1 .. Len(list)
  PROVE  /\ StatsWithout(list, i) \in Seq(E)
         /\ Len(StatsWithout(list, i)) = Len(list) - 1
         /\ \A j \in 1 .. Len(list) - 1 :
              StatsWithout(list, i)[j] = IF j < i THEN list[j] ELSE list[j + 1]
<1> DEFINE a == SubSeq(list, 1, i - 1)
           b == SubSeq(list, i + 1, Len(list))
<1>1. a \in Seq(E) /\ Len(a) = i - 1 OBVIOUS
<1>2. \A j \in 1 .. i - 1 : a[j] = list[j] OBVIOUS
<1>3. b \in Seq(E) /\ Len(b) = Len(list) - i OBVIOUS
<1>4. \A j \in 1 .. Len(list) - i : b[j] = list[j + i] OBVIOUS
<1>5. StatsWithout(list, i) = a \o b BY DEF StatsWithout, RemoveAt
<1> HIDE DEF a, b
<1>6. a \o b \in Seq(E) /\ Len(a \o b) = Len(list) - 1
  <2>1. a \o b \in Seq(E) BY <1>1, <1>3
  <2>2. Len(a \o b) = Len(a) + Len(b) BY <1>1, <1>3
  <2> QED BY <1>1, <1>3, <2>1, <2>2
<1>7. ASSUME NEW j \in 1 .. Len(list) - 1
      PROVE  (a \o b)[j] = IF j < i THEN list[j] ELSE list[j + 1]
  <2>1. (a \o b)[j] = IF j <= Len(a) THEN a[j] ELSE b[j - Len(a)]
    BY <1>1, <1>3
  <2>2. CASE j < i BY <2>1, <2>2, <1>1, <1>2
  <2>3. CASE ~ (j < i) BY <2>1, <2>3, <1>1, <1>4
  <2> QED BY <2>2, <2>3
<1> QED BY <1>5, <1>6, <1>7

(* The table keeps the entries of the other stats and gets no new one.     *)
LEMMA TableWithoutRange ==
  ASSUME NEW t, DOMAIN t \subseteq Int, NEW i \in Int
  PROVE  /\ Range(TableWithout(t, i)) \subseteq Range(t)
         /\ DOMAIN TableWithout(t, i) \subseteq Int
<1> DEFINE D == {k \in DOMAIN t : k < i} \cup {k - 1 : k \in {m \in DOMAIN t : m > i}}
<1>1. D \subseteq Int
  OBVIOUS
<1>2. ASSUME NEW j \in D
      PROVE  \E k \in DOMAIN t : TableWithout(t, i)[j] = t[k]
  <2>1. TableWithout(t, i)[j] = IF j < i THEN t[j] ELSE t[j + 1]
    BY DEF TableWithout
  <2>2. CASE j < i
    <3>1. j \in DOMAIN t
      BY <2>2
    <3> QED BY <2>1, <2>2, <3>1
  <2>3. CASE ~ (j < i)
    <3>1. j + 1 \in DOMAIN t
      BY <2>3
    <3> QED BY <2>1, <2>3, <3>1
  <2> QED BY <2>2, <2>3
<1>3. DOMAIN TableWithout(t, i) = D
  BY DEF TableWithout
<1> QED BY <1>1, <1>2, <1>3 DEF Range

-----------------------------------------------------------------------------
(* An engine in its tick loop: elements in E, pointers in P, at most max   *)
(* stats, the cursor on the list, just past its end or just before it.     *)
IsEngine(r, E, P, max) ==
  /\ r = [stats |-> r.stats, table |-> r.table, cursor |-> r.cursor]
  /\ r.stats \in Seq(E) /\ Len(r.stats) <= max
  /\ DOMAIN r.table \subseteq Int /\ Range(r.table) \subseteq P
  /\ r.cursor \in 0 .. Len(r.stats) + 1

LEMMA RemoveStatKeeps ==
  ASSUME NEW E, NEW P, NEW max \in Nat, NEW r, IsEngine(r, E, P, max),
         NEW i \in 1 .. Len(r.stats)
  PROVE  /\ IsEngine(RemoveStat(r, i), E, P, max)
         /\ RemoveStat(r, i).cursor = CursorWithout(r.cursor, i)
<1>1. /\ StatsWithout(r.stats, i) \in Seq(E)
      /\ Len(StatsWithout(r.stats, i)) = Len(r.stats) - 1
  BY StatsWithoutIs DEF IsEngine
<1>2. CursorWithout(r.cursor, i) \in 0 .. Len(r.stats)
  BY DEF IsEngine, CursorWithout
<1>3. /\ Range(TableWithout(r.table, i)) \subseteq P
      /\ DOMAIN TableWithout(r.table, i) \subseteq Int
  BY TableWithoutRange DEF IsEngine
<1> QED BY <1>1, <1>2, <1>3 DEF IsEngine, RemoveStat

LEMMA AddStatKeeps ==
  ASSUME NEW E, NEW P, NEW max \in Nat, NEW r, IsEngine(r, E, P, max), NEW el \in E
  PROVE  /\ IsEngine(AddStat(r, el, max), E, P, max)
         /\ AddStat(r, el, max).cursor = r.cursor
<1>1. CASE Len(r.stats) < max
  <2>1. Append(r.stats, el) \in Seq(E) /\ Len(Append(r.stats, el)) = Len(r.stats) + 1
    BY DEF IsEngine
  <2>2. AddStat(r, el, max) =
          [stats |-> Append(r.stats, el), table |-> r.table, cursor |-> r.cursor]
    BY <1>1 DEF IsEngine, AddStat
  <2> QED BY <1>1, <2>1, <2>2 DEF IsEngine
<1>2. CASE ~ (Len(r.stats) < max)
  BY <1>2 DEF AddStat
<1> QED BY <1>1, <1>2

LEMMA DisplayMessageKeeps ==
  ASSUME NEW E, NEW P, NEW max \in Nat, NEW r, IsEngine(r, E, P, max), "timer" \in E
  PROVE  /\ IsEngine(DisplayMessage(r, max), E, P, max)
         /\ Len(DisplayMessage(r, max).stats) >= Len(r.stats)
<1> DEFINE old == Showing(r.stats, "timer")
           s   == IF old = {} THEN r ELSE RemoveStat(r, Min(old))
<1>1. old \subseteq 1 .. Len(r.stats)
  BY DEF Showing, IsEngine
<1>2. /\ IsEngine(s, E, P, max)
      /\ old = {} => Len(s.stats) = Len(r.stats)
      /\ old # {} => Len(s.stats) = Len(r.stats) - 1
  <2>1. CASE old = {} BY <2>1
  <2>2. CASE old # {}
    <3>1. Min(old) \in 1 .. Len(r.stats)
      BY <1>1, <2>2, MinIsLeast DEF IsEngine
    <3>2. r.stats \in Seq(E)
      BY DEF IsEngine
    <3>3. Len(StatsWithout(r.stats, Min(old))) = Len(r.stats) - 1
      BY <3>1, <3>2, StatsWithoutIs
    <3>4. RemoveStat(r, Min(old)).stats = StatsWithout(r.stats, Min(old))
      BY DEF RemoveStat
    <3> QED BY <2>2, <3>1, <3>3, <3>4, RemoveStatKeeps
  <2> QED BY <2>1, <2>2
<1> HIDE DEF s
<1>3. IsEngine(AddStat(s, "timer", max), E, P, max)
  BY <1>2, AddStatKeeps
<1>4. Len(AddStat(s, "timer", max).stats) >= Len(r.stats)
  <2>1. CASE Len(s.stats) < max
    <3>1. AddStat(s, "timer", max).stats = Append(s.stats, "timer")
      BY <1>2, <2>1 DEF AddStat, IsEngine
    <3>2. Len(Append(s.stats, "timer")) = Len(s.stats) + 1
      BY <1>2 DEF IsEngine
    <3> QED BY <1>2, <3>1, <3>2 DEF IsEngine
  <2>2. CASE ~(Len(s.stats) < max)
    <3>1. AddStat(s, "timer", max) = s
      BY <2>2 DEF AddStat
    <3> QED BY <1>2, <2>2, <3>1 DEF IsEngine
  <2> QED BY <2>1, <2>2
<1> QED BY <1>3, <1>4 DEF DisplayMessage, s

-----------------------------------------------------------------------------
USE BoardAssumption, PlayerAssumption, CapAssumption, StoredBoardAssumption

IsRoomEngine(r) == IsEngine(r, Element, Pointer, MAX_STAT)

-----------------------------------------------------------------------------
(* Who is filed under a stat.  In an engine every state of the set held is *)
(* filed under the stat of an avatar, no two entries are the same pointer, *)
(* and all of them are in the set all.                                     *)
Holds(list, t, held) ==
  \A x \in held : \E i \in DOMAIN t \cap Showing(list, "player") : t[i] = x

Filing(r, held, all) ==
  IsInjective(r.table) /\ Range(r.table) \subseteq all /\ Holds(r.stats, r.table, held)

(* An engine s made from r files whatever r did.                           *)
Follows(r, s) ==
  /\ IsRoomEngine(s)
  /\ \A held, all : Filing(r, held, all) => Filing(s, held, all)

(* What a removal leaves filed, and where.                                 *)
LEMMA EntriesWithout ==
  ASSUME NEW t, DOMAIN t \subseteq Int, NEW i \in Int
  PROVE  /\ \A j \in DOMAIN TableWithout(t, i) :
              IF j < i THEN j \in DOMAIN t /\ TableWithout(t, i)[j] = t[j]
                       ELSE j + 1 \in DOMAIN t /\ TableWithout(t, i)[j] = t[j + 1]
         /\ \A k \in DOMAIN t : k < i => k \in DOMAIN TableWithout(t, i)
         /\ \A k \in DOMAIN t : k > i => k - 1 \in DOMAIN TableWithout(t, i)
<1> DEFINE D == {k \in DOMAIN t : k < i} \cup {k - 1 : k \in {m \in DOMAIN t : m > i}}
<1>1. DOMAIN TableWithout(t, i) = D
  BY DEF TableWithout
<1>2. \A j \in D : TableWithout(t, i)[j] = IF j < i THEN t[j] ELSE t[j + 1]
  BY DEF TableWithout
<1>3. ASSUME NEW j \in D, j < i PROVE j \in DOMAIN t
  BY <1>3
<1>4. ASSUME NEW j \in D, ~(j < i) PROVE j + 1 \in DOMAIN t
  BY <1>4
<1>5. \A k \in DOMAIN t : (k < i => k \in D) /\ (k > i => k - 1 \in D)
  OBVIOUS
<1> QED BY <1>1, <1>2, <1>3, <1>4, <1>5

LEMMA FiledWithout ==
  ASSUME NEW list \in Seq(Element), NEW t, DOMAIN t \subseteq Int, IsInjective(t),
         NEW i \in 1 .. Len(list)
  PROVE  /\ IsInjective(TableWithout(t, i))
         /\ Range(TableWithout(t, i)) \subseteq Range(t)
         /\ \A k \in DOMAIN t : k # i =>
              LET j == IF k < i THEN k ELSE k - 1
              IN  /\ j \in DOMAIN TableWithout(t, i) /\ TableWithout(t, i)[j] = t[k]
                  /\ k \in Showing(list, "player") => j \in Showing(StatsWithout(list, i), "player")
<1> DEFINE short == StatsWithout(list, i)
           tw    == TableWithout(t, i)
<1>1. /\ short \in Seq(Element) /\ Len(short) = Len(list) - 1
      /\ \A j \in 1 .. Len(list) - 1 : short[j] = IF j < i THEN list[j] ELSE list[j + 1]
  BY StatsWithoutIs
<1>2. /\ \A j \in DOMAIN tw : IF j < i THEN j \in DOMAIN t /\ tw[j] = t[j]
                                       ELSE j + 1 \in DOMAIN t /\ tw[j] = t[j + 1]
      /\ \A k \in DOMAIN t : k < i => k \in DOMAIN tw
      /\ \A k \in DOMAIN t : k > i => k - 1 \in DOMAIN tw
  BY EntriesWithout, SMTT(30)
<1>3. DOMAIN tw \subseteq Int /\ Range(tw) \subseteq Range(t)
  BY TableWithoutRange
<1> HIDE DEF short, tw
<1>4. IsInjective(tw)
  <2> SUFFICES ASSUME NEW j \in DOMAIN tw, NEW k \in DOMAIN tw, tw[j] = tw[k] PROVE j = k
    BY DEF IsInjective
  <2>1. \A m, n \in DOMAIN t : t[m] = t[n] => m = n
    BY DEF IsInjective
  <2> QED BY <1>2, <1>3, <2>1
<1>5. ASSUME NEW k \in DOMAIN t, k # i, NEW j, j = IF k < i THEN k ELSE k - 1
      PROVE  /\ j \in DOMAIN tw /\ tw[j] = t[k]
             /\ k \in Showing(list, "player") => j \in Showing(short, "player")
  <2>1. k \in Int
    OBVIOUS
  <2>2. CASE k < i
    <3>1. j = k /\ j \in DOMAIN tw /\ tw[j] = t[k]
      BY <1>2, <1>5, <2>2
    <3> QED BY <1>1, <2>1, <2>2, <3>1 DEF Showing
  <2>3. CASE k > i
    <3>1. j = k - 1 /\ j \in DOMAIN tw /\ ~(j < i) /\ j + 1 = k
      BY <1>2, <1>5, <2>1, <2>3
    <3>2. tw[j] = t[k]
      BY <1>2, <3>1
    <3> QED BY <1>1, <2>1, <2>3, <3>1, <3>2 DEF Showing
  <2> QED BY <1>5, <2>1, <2>2, <2>3
<1> QED BY <1>3, <1>4, <1>5 DEF short, tw

(* Removing what is nobody's avatar loses nobody's entry.                  *)
LEMMA RemoveFollows ==
  ASSUME NEW o, NEW r, Follows(o, r), NEW j \in 1 .. Len(r.stats), r.stats[j] # "player"
  PROVE  Follows(o, RemoveStat(r, j))
<1>1. r.stats \in Seq(Element) /\ DOMAIN r.table \subseteq Int
  BY DEF Follows, IsRoomEngine, IsEngine
<1>2. IsRoomEngine(RemoveStat(r, j))
  <2>1. IsEngine(r, Element, Pointer, MAX_STAT)
    BY DEF Follows, IsRoomEngine
  <2> QED BY <2>1, RemoveStatKeeps DEF IsRoomEngine
<1>3. /\ RemoveStat(r, j).stats = StatsWithout(r.stats, j)
      /\ RemoveStat(r, j).table = TableWithout(r.table, j)
  BY DEF RemoveStat
<1> DEFINE list == r.stats
           t    == r.table
           short == StatsWithout(list, j)
           tw   == TableWithout(t, j)
<1>4. ASSUME NEW held, NEW all, Filing(o, held, all)
      PROVE  Filing(RemoveStat(r, j), held, all)
  <2>1. IsInjective(t) /\ Range(t) \subseteq all /\ Holds(list, t, held)
    BY <1>4 DEF Follows, Filing
  <2>2. list \in Seq(Element) /\ DOMAIN t \subseteq Int /\ j \in 1 .. Len(list) /\ list[j] # "player"
    BY <1>1
  <2> HIDE DEF list, t
  <2>3. /\ IsInjective(tw) /\ Range(tw) \subseteq Range(t)
        /\ \A k \in DOMAIN t : k # j =>
             LET i == IF k < j THEN k ELSE k - 1
             IN  /\ i \in DOMAIN tw /\ tw[i] = t[k]
                 /\ k \in Showing(list, "player") => i \in Showing(short, "player")
    BY <2>1, <2>2, FiledWithout
  <2> HIDE DEF tw, short
  <2>4. Holds(short, tw, held)
    <3> SUFFICES ASSUME NEW x \in held
                 PROVE  \E i \in DOMAIN tw \cap Showing(short, "player") : tw[i] = x
      BY DEF Holds
    <3>1. PICK k \in DOMAIN t \cap Showing(list, "player") : t[k] = x
      BY <2>1 DEF Holds
    <3>2. k # j
      BY <2>2, <3>1 DEF Showing
    <3> QED BY <2>3, <3>1, <3>2
  <2>5. Filing([stats |-> short, table |-> tw, cursor |-> 0], held, all)
    BY <2>1, <2>3, <2>4 DEF Filing
  <2> QED BY <1>3, <2>5 DEF Filing, list, t, short, tw
<1> QED BY <1>2, <1>4 DEF Follows

(* A longer list has the same avatars, and perhaps one more.               *)
LEMMA AddFollows ==
  ASSUME NEW o, NEW r, Follows(o, r), NEW el \in Element
  PROVE  Follows(o, AddStat(r, el, MAX_STAT))
<1>1. /\ r.stats \in Seq(Element)
      /\ r = [stats |-> r.stats, table |-> r.table, cursor |-> r.cursor]
  BY DEF Follows, IsRoomEngine, IsEngine
<1>2. IsRoomEngine(AddStat(r, el, MAX_STAT))
  <2>1. IsEngine(r, Element, Pointer, MAX_STAT)
    BY DEF Follows, IsRoomEngine
  <2> QED BY <2>1, AddStatKeeps DEF IsRoomEngine
<1>3. CASE Len(r.stats) < MAX_STAT
  <2>1. /\ AddStat(r, el, MAX_STAT).stats = Append(r.stats, el)
        /\ AddStat(r, el, MAX_STAT).table = r.table
    BY <1>1, <1>3 DEF AddStat
  <2>2. Showing(r.stats, "player") \subseteq Showing(Append(r.stats, el), "player")
    BY <1>1 DEF Showing
  <2>3. \A held, all : Filing(r, held, all) => Filing(AddStat(r, el, MAX_STAT), held, all)
    BY <2>1, <2>2 DEF Filing, Holds
  <2> QED BY <1>2, <2>3 DEF Follows
<1>4. CASE ~(Len(r.stats) < MAX_STAT)
  BY <1>4 DEF AddStat
<1> QED BY <1>3, <1>4

LEMMA MessageFollows ==
  ASSUME NEW o, NEW r, Follows(o, r)
  PROVE  Follows(o, DisplayMessage(r, MAX_STAT))
<1> DEFINE old == Showing(r.stats, "timer")
           s   == IF old = {} THEN r ELSE RemoveStat(r, Min(old))
<1>1. old \subseteq 1 .. Len(r.stats) /\ \A j \in old : r.stats[j] = "timer"
  BY DEF Showing, Follows, IsRoomEngine, IsEngine
<1>2. Follows(o, s)
  <2>1. CASE old = {} BY <2>1
  <2>2. CASE old # {}
    <3>1. Min(old) \in old /\ Min(old) \in 1 .. Len(r.stats)
      BY <1>1, <2>2, MinIsLeast DEF Follows, IsRoomEngine, IsEngine
    <3>2. r.stats[Min(old)] # "player"
      BY <1>1, <3>1
    <3> QED BY <2>2, <3>1, <3>2, RemoveFollows
  <2> QED BY <2>1, <2>2
<1> HIDE DEF s
<1>3. Follows(o, AddStat(s, "timer", MAX_STAT))
  BY <1>2, AddFollows DEF Element
<1> QED BY <1>3 DEF DisplayMessage, s

LEMMA BackFollows ==
  ASSUME NEW o, NEW r, Follows(o, r), r.cursor # 0
  PROVE  Follows(o, StepBack(r))
<1>1. StepBack(r) = [stats |-> r.stats, table |-> r.table, cursor |-> r.cursor - 1]
  BY DEF StepBack, Follows, IsRoomEngine, IsEngine
<1>2. IsRoomEngine(StepBack(r))
  BY <1>1 DEF Follows, IsRoomEngine, IsEngine
<1>3. \A held, all : Filing(r, held, all) => Filing(StepBack(r), held, all)
  BY <1>1 DEF Filing
<1> QED BY <1>2, <1>3 DEF Follows

(* The stats that show an element are on the list. *)
LEMMA ShowingOnList ==
  ASSUME NEW r, IsRoomEngine(r), NEW element, NEW j \in Showing(r.stats, element)
  PROVE  j \in 1 .. Len(r.stats) /\ r.stats[j] = element
BY DEF Showing, IsRoomEngine, IsEngine

(* A room's engine, its cursor anywhere.                                   *)
LEMMA RoomFollows ==
  ASSUME TypeOK, NEW b \in Board, NEW c \in 0 .. Len(stats[b]) + 1,
         NEW r, r = [stats |-> stats[b], table |-> table[b], cursor |-> c]
  PROVE  Follows(r, r)
<1>1. stats[b] \in Seq(Element) /\ Len(stats[b]) <= MAX_STAT /\ IsTable(table[b])
  BY DEF TypeOK, RoomsTyped, BoardStats
<1> QED BY <1>1 DEF Follows, IsRoomEngine, IsEngine, IsTable

-----------------------------------------------------------------------------
LEMMA SteppingIsABoard ==
  ASSUME TypeOK, todo # {}
  PROVE  Stepping \in todo /\ Stepping \in Board
<1>1. \E b \in todo : \A c \in todo : b <= c
  BY LeastNatural DEF TypeOK, StepTyped
<1> QED BY <1>1 DEF Stepping, TypeOK, StepTyped

LEMMA SteppingStays == ASSUME UNCHANGED todo PROVE Stepping' = Stepping
BY DEF Stepping

(* Outside the tick loop the cursor is where the next one starts.          *)
LEMMA CursorAtStart ==
  ASSUME StepTyped, phase # "tick"
  PROVE  cursor = 1
BY DEF StepTyped

LEMMA EngineTyped ==
  ASSUME TypeOK, todo # {}, cursor \in DOMAIN stats[Stepping]
  PROVE  /\ Follows(Engine, Engine) /\ IsRoomEngine(Engine)
         /\ cursor \in 1 .. Len(stats[Stepping])
         /\ Engine.stats = stats[Stepping] /\ Engine.cursor = cursor
<1>1. Stepping \in Board /\ stats[Stepping] \in Seq(Element)
  BY SteppingIsABoard DEF TypeOK, RoomsTyped, BoardStats
<1>2. cursor \in 1 .. Len(stats[Stepping]) /\ cursor \in 0 .. Len(stats[Stepping]) + 1
  BY <1>1
<1>3. Follows(Engine, Engine)
  BY <1>1, <1>2, RoomFollows DEF Engine
<1> QED BY <1>2, <1>3 DEF Engine, Follows

LEMMA EmptyTyped ==
  <<>> \in BoardStats /\ IsTable(EmptyTable)
BY DEF BoardStats, EmptyTable, IsTable, Range

THEOREM InitTyped == Init => TypeOK
<1> SUFFICES ASSUME Init PROVE TypeOK
  OBVIOUS
<1>1. <<>> \in BoardStats /\ IsTable(EmptyTable)
  BY EmptyTyped
<1>2. <<>> \in Seq(RoomEvent) /\ <<>> \in Seq([player : Player, to : Board]) /\ <<>> \in Seq(Player)
      /\ <<>> \in Seq([stat : Nat, label : Nat]) /\ <<>> \in Seq([stat : Int, who : Pointer \cup {Null}])
  OBVIOUS
<1>3. RoomsTyped
  BY <1>1 DEF Init, RoomsTyped
<1>4. PlayersTyped
  <2>1. Blank \in [owner : Player \cup {Nobody}, reenter : Board \cup {Nowhere}]
    BY DEF Blank
  <2>2. /\ where = [p \in Player |-> Nowhere] /\ statID = [p \in Player |-> 0]
        /\ state = [p \in Player |-> Null] /\ reading = [p \in Player |-> FALSE]
        /\ heap = [x \in Pointer |-> Blank]
    BY DEF Init
  <2> QED BY <2>1, <2>2 DEF PlayersTyped
<1>5. RepliesTyped
  BY <1>2 DEF Init, RepliesTyped
<1>6. StepTyped
  BY <1>2 DEF Init, StepTyped
<1>7. HistoryTyped
  <2>1. blurred = FALSE /\ spent = 0
    BY DEF Init
  <2>2. blurred \in BOOLEAN
    BY <2>1
  <2>3. spent \in 0 .. MaxBusy
    BY <2>1
  <2> QED BY <2>2, <2>3 DEF HistoryTyped
<1> QED BY <1>3, <1>4, <1>5, <1>6, <1>7 DEF TypeOK
-----------------------------------------------------------------------------
(* What looking players up makes of a table: its entries stay, and the ids *)
(* it did not have get pointers of their own, which nothing refers to.     *)
LEMMA PlayerForAllIs ==
  ASSUME NEW t, NEW ids, NEW tables, News(t, ids, tables) # {}
  PROVE  /\ DOMAIN PlayerForAll(t, ids, tables) = DOMAIN t \cup ids
         /\ \A i \in DOMAIN t : PlayerForAll(t, ids, tables)[i] = t[i]
         /\ \A i \in ids \ DOMAIN t : PlayerForAll(t, ids, tables)[i] \in Unused(tables)
         /\ \A i, j \in ids \ DOMAIN t :
              PlayerForAll(t, ids, tables)[i] = PlayerForAll(t, ids, tables)[j] => i = j
<1> DEFINE new == CHOOSE f \in News(t, ids, tables) : TRUE
           u   == PlayerForAll(t, ids, tables)
<1>1. new \in News(t, ids, tables)
  OBVIOUS
<1> HIDE DEF new
<1>2. new \in [ids \ DOMAIN t -> Unused(tables)] /\ IsInjective(new)
  BY <1>1 DEF News
<1>3. u = [i \in DOMAIN t \cup ids |-> IF i \in DOMAIN t THEN t[i] ELSE new[i]]
  BY DEF PlayerForAll, new
<1> HIDE DEF u
<1>4. \A i, j \in ids \ DOMAIN t : new[i] = new[j] => i = j
  BY <1>2 DEF IsInjective
<1>5. /\ DOMAIN u = DOMAIN t \cup ids /\ \A i \in DOMAIN t : u[i] = t[i]
      /\ \A i \in ids \ DOMAIN t : u[i] \in Unused(tables)
      /\ \A i, j \in ids \ DOMAIN t : u[i] = u[j] => i = j
  BY <1>2, <1>3, <1>4
<1> QED BY <1>5 DEF u

LEMMA PlayerForAllTyped ==
  ASSUME NEW t, IsTable(t), NEW ids \in SUBSET Int, NEW tables, News(t, ids, tables) # {}
  PROVE  /\ IsTable(PlayerForAll(t, ids, tables))
         /\ DOMAIN PlayerForAll(t, ids, tables) = DOMAIN t \cup ids
<1>1. Unused(tables) \subseteq Pointer
  BY DEF Unused
<1> DEFINE u == PlayerForAll(t, ids, tables)
<1>2. /\ DOMAIN u = DOMAIN t \cup ids
      /\ \A i \in DOMAIN t : u[i] = t[i]
      /\ \A i \in ids \ DOMAIN t : u[i] \in Unused(tables)
      /\ \A i, j \in ids \ DOMAIN t : u[i] = u[j] => i = j
  BY PlayerForAllIs, Zenon
<1> HIDE DEF u
<1>3. \A i \in DOMAIN u : u[i] \in Pointer
  BY <1>1, <1>2 DEF IsTable, Range
<1>4. DOMAIN u \subseteq Int
  BY <1>2 DEF IsTable
<1> QED BY <1>2, <1>3, <1>4 DEF IsTable, Range, u

LEMMA LookedUpTyped ==
  ASSUME NEW t, IsTable(t), NEW u \in LookedUp(t)
  PROVE  IsTable(u)
<1>1. PICK ids \in SUBSET Lookups : News(t, ids, table) # {} /\ u = PlayerForAll(t, ids, table)
  BY DEF LookedUp
<1>2. ids \subseteq Int
  OBVIOUS
<1> QED BY <1>1, <1>2, PlayerForAllTyped

LEMMA ArrivalsAreIds ==
  ASSUME TypeOK, NEW b \in Board, NEW ids \in Arrivals(b)
  PROVE  ids \in SUBSET Int
<1>1. stored[b] \in Seq(Element)
  BY DEF TypeOK, RoomsTyped, BoardStats
<1>2. Showing(stored[b], "player") \subseteq Int
  BY <1>1 DEF Showing
<1> QED BY <1>2 DEF Arrivals, Drawn

-----------------------------------------------------------------------------
(* What a player's arrival and departure make of a list and a table.       *)
LEMMA SpawnTyped ==
  ASSUME NEW list \in BoardStats, NEW t, IsTable(t), NEW empty, NEW x \in Pointer,
         NEW s, s = Spawn(list, t, empty, x)
  PROVE  /\ s.stats \in BoardStats /\ s.id \in Int /\ IsTable(s.table)
         /\ s.table[s.id] \in Pointer
<1> DEFINE claimable == Showing(list, "player")
           claims    == empty /\ claimable # {}
           full      == ~claims /\ Len(list) >= MAX_STAT
           list2     == IF claims \/ full THEN list ELSE Append(list, "player")
           id        == IF claims THEN Min(claimable) ELSE Len(list2)
<1>1. /\ s.stats = list2 /\ s.id = id /\ s.table = PlayerFor(t, id, x)
  BY DEF Spawn
<1>2. list2 \in BoardStats
  <2>1. CASE claims \/ full BY <2>1
  <2>2. CASE ~ (claims \/ full)
    <3>1. list \in Seq(Element) /\ Len(list) < MAX_STAT /\ "player" \in Element
      BY <2>2 DEF BoardStats, Element
    <3>2. Append(list, "player") \in Seq(Element) /\ Len(Append(list, "player")) = Len(list) + 1
      BY <3>1
    <3> QED BY <2>2, <3>1, <3>2 DEF BoardStats
  <2> QED BY <2>1, <2>2
<1>3. id \in Int
  <2>1. CASE claims
    <3>1. claimable \subseteq Nat
      BY DEF Showing, BoardStats
    <3> QED BY <2>1, <3>1, MinIsLeast
  <2>2. CASE ~ claims
    BY <1>2, <2>2 DEF BoardStats
  <2> QED BY <2>1, <2>2
<1> HIDE DEF id
<1>4. IsTable(PlayerFor(t, id, x)) /\ PlayerFor(t, id, x)[id] \in Pointer
  BY <1>1, <1>3 DEF IsTable, PlayerFor, Range
<1> QED BY <1>1, <1>2, <1>3, <1>4

LEMMA LeftTyped ==
  ASSUME TypeOK, NEW b \in Board, NEW p \in Player
  PROVE  StatsLeft(b, p) \in BoardStats /\ IsTable(TableKept(b, p)) /\ MovedTo(b, p) \in SUBSET Int
<1>1. /\ stats[b] \in Seq(Element) /\ Len(stats[b]) <= MAX_STAT
      /\ IsTable(table[b]) /\ \A q \in Player : statID[q] \in Int
  BY DEF TypeOK, RoomsTyped, PlayersTyped, BoardStats
<1>2. StatsLeft(b, p) \in BoardStats
  <2>1. CASE statID[p] \in DOMAIN stats[b]
    <3>1. statID[p] \in 1 .. Len(stats[b])
      BY <1>1, <2>1
    <3>2. /\ StatsWithout(stats[b], statID[p]) \in Seq(Element)
          /\ Len(StatsWithout(stats[b], statID[p])) = Len(stats[b]) - 1
      BY <1>1, <3>1, StatsWithoutIs
    <3> QED BY <1>1, <2>1, <3>2 DEF StatsLeft, BoardStats
  <2>2. CASE statID[p] \notin DOMAIN stats[b]
    BY <1>1, <2>2 DEF StatsLeft, BoardStats
  <2> QED BY <2>1, <2>2
<1>3. IsTable(TableKept(b, p))
  BY <1>1, TableWithoutRange DEF TableKept, IsTable
<1>4. MovedTo(b, p) \in SUBSET Int
  <2>1. Above(b, p) \subseteq Player
    BY DEF Above
  <2>2. \A q \in Player : statID[q] - 1 \in Int
    BY <1>1
  <2> QED BY <2>1, <2>2 DEF MovedTo
<1> QED BY <1>2, <1>3, <1>4

LEMMA FreezeTyped ==
  ASSUME TypeOK, NEW b \in Board, NEW list \in BoardStats, FreezeIfEmpty(b, list)
  PROVE  stored' \in [Board -> BoardStats] /\ RepliesTyped'
<1>1. CASE Empties(members', b)
  <2>1. /\ stored' = [stored EXCEPT ![b] = list]
        /\ scrollReplies' = [scrollReplies EXCEPT ![b] = <<>>]
        /\ quitReplies' = [quitReplies EXCEPT ![b] = <<>>]
    BY <1>1 DEF FreezeIfEmpty
  <2>2. stored' \in [Board -> BoardStats]
    BY <2>1 DEF TypeOK, RoomsTyped
  <2>3. \A S : <<>> \in Seq(S)
    OBVIOUS
  <2>4. RepliesTyped'
    BY <2>1, <2>3 DEF TypeOK, RepliesTyped
  <2> QED BY <2>2, <2>4
<1>2. CASE ~ Empties(members', b)
  <2>1. UNCHANGED <<stored, scrollReplies, quitReplies>>
    BY <1>2 DEF FreezeIfEmpty, replyVars
  <2> QED BY <2>1 DEF TypeOK, RoomsTyped, RepliesTyped
<1> QED BY <1>1, <1>2

LEMMA RestatedTyped ==
  ASSUME TypeOK, NEW b \in Board, NEW p \in Player,
         News(TableKept(b, p), MovedTo(b, p), table) # {}
  PROVE  /\ Reindexed(b, p, statID) \in [Player -> Int]
         /\ Restated(b, p, TableLeft(b, p)) \in [Player -> Pointer \cup {Null}]
         /\ IsTable(TableLeft(b, p))
<1> DEFINE t == TableLeft(b, p)
<1>1. \A q \in Player : statID[q] \in Int /\ state[q] \in Pointer \cup {Null}
  BY DEF TypeOK, PlayersTyped
<1>2. IsTable(t) /\ DOMAIN t = DOMAIN TableKept(b, p) \cup MovedTo(b, p)
  BY LeftTyped, PlayerForAllTyped DEF TableLeft
<1> HIDE DEF t
<1>3. \A q \in Above(b, p) : t[statID[q] - 1] \in Pointer
  <2>1. \A q \in Above(b, p) : statID[q] - 1 \in DOMAIN t
    BY <1>2 DEF MovedTo
  <2> QED BY <1>2, <2>1 DEF IsTable, Range
<1>4. Reindexed(b, p, statID) \in [Player -> Int]
  BY <1>1 DEF Reindexed
<1>5. Restated(b, p, t) \in [Player -> Pointer \cup {Null}]
  BY <1>1, <1>3 DEF Restated
<1> QED BY <1>2, <1>4, <1>5 DEF t

LEMMA CollectedTyped ==
  ASSUME NEW h \in [Pointer -> [owner : Player \cup {Nobody}, reenter : Board \cup {Nowhere}]]
  PROVE  Collected(h) \in [Pointer -> [owner : Player \cup {Nobody}, reenter : Board \cup {Nowhere}]]
BY DEF Collected, Blank

LEMMA LeavePlayerTyped ==
  ASSUME TypeOK, NEW p \in Player, Present(p), LeavePlayer(p)
  PROVE  RoomsTyped' /\ PlayersTyped' /\ RepliesTyped' /\ HistoryTyped'
<1> DEFINE b     == where[p]
           left  == [members EXCEPT ![b] = @ \ {p}]
           list  == StatsLeft(b, p)
           t     == TableLeft(b, p)
           empty == Empties(left, b)
<1>1. b \in Board
  BY DEF TypeOK, PlayersTyped, Present
<1>2. /\ News(TableKept(b, p), MovedTo(b, p), table) # {}
      /\ members' = left
      /\ live' = live \ (IF empty THEN {b} ELSE {})
      /\ stats' = [stats EXCEPT ![b] = IF empty THEN <<>> ELSE list]
      /\ table' = [table EXCEPT ![b] = IF empty THEN EmptyTable ELSE t]
      /\ FreezeIfEmpty(b, list)
  BY DEF LeavePlayer
<1>3. /\ where' = [where EXCEPT ![p] = Nowhere]
      /\ statID' = [Reindexed(b, p, statID) EXCEPT ![p] = 0]
      /\ state' = [Restated(b, p, t) EXCEPT ![p] = Null]
      /\ reading' = [reading EXCEPT ![p] = FALSE]
      /\ heap' = Collected(heap)
      /\ blurred' = (blurred \/ ~InStep(b))
      /\ spent' = spent
  BY DEF LeavePlayer
<1>4. list \in BoardStats
  BY <1>1, LeftTyped
<1>5. /\ Reindexed(b, p, statID) \in [Player -> Int]
      /\ Restated(b, p, t) \in [Player -> Pointer \cup {Null}]
      /\ IsTable(t)
  BY <1>1, <1>2, RestatedTyped
<1>6. <<>> \in BoardStats /\ IsTable(EmptyTable)
  BY EmptyTyped
<1> HIDE DEF b, left, list, t, empty
<1>7. stored' \in [Board -> BoardStats] /\ RepliesTyped'
  BY <1>1, <1>2, <1>4, FreezeTyped
<1>8. RoomsTyped'
  <2>1. left \in [Board -> SUBSET Player]
    BY <1>1 DEF left, TypeOK, RoomsTyped
  <2> QED BY <1>1, <1>2, <1>4, <1>5, <1>6, <1>7, <2>1 DEF TypeOK, RoomsTyped
<1>9. PlayersTyped'
  <2>1. /\ where' \in [Player -> Board \cup {Nowhere}]
        /\ statID' \in [Player -> Int]
        /\ state' \in [Player -> Pointer \cup {Null}]
        /\ reading' \in [Player -> BOOLEAN]
    BY <1>3, <1>5 DEF TypeOK, PlayersTyped
  <2>2. heap' \in [Pointer -> [owner : Player \cup {Nobody}, reenter : Board \cup {Nowhere}]]
    BY <1>3, CollectedTyped DEF TypeOK, PlayersTyped
  <2> QED BY <2>1, <2>2 DEF PlayersTyped
<1>10. HistoryTyped'
  BY <1>3 DEF TypeOK, HistoryTyped
<1> QED BY <1>7, <1>8, <1>9, <1>10

LEMMA TransferPlayerTyped ==
  ASSUME TypeOK, NEW p \in Player, NEW to \in Board, Present(p), TransferPlayer(p, to)
  PROVE  RoomsTyped' /\ PlayersTyped' /\ RepliesTyped' /\ HistoryTyped'
<1> DEFINE b     == where[p]
           left  == [members EXCEPT ![b] = @ \ {p}]
           after == [left EXCEPT ![to] = @ \cup {p}]
           list  == StatsLeft(b, p)
           t     == TableLeft(b, p)
           found == statID[p] \in DOMAIN table[b]
           copy  == IF found THEN heap[table[b][statID[p]]] ELSE Blank
           onto  == IF to = b THEN list ELSE Opened(to)
           tables == [table EXCEPT ![b] = t]
           empty == Empties(after, b)
<1>a. PICK ids \in Arrivals(to) :
        LET opened == PlayerForAll(tables[to], ids, tables)
            opens  == [tables EXCEPT ![to] = opened]
            s == Spawn(onto, opened, left[to] = {}, Fresh(opens))
            x == s.table[s.id]
        IN  /\ News(TableKept(b, p), MovedTo(b, p), table) # {}
            /\ News(tables[to], ids, tables) # {} /\ Unused(opens) # {}
            /\ members' = after
            /\ live' = (live \cup {to}) \ (IF empty THEN {b} ELSE {})
            /\ stats' = [stats EXCEPT ![b] = IF empty THEN <<>> ELSE list, ![to] = s.stats]
            /\ table' = [table EXCEPT ![b] = IF empty THEN EmptyTable ELSE t, ![to] = s.table]
            /\ FreezeIfEmpty(b, list)
            /\ where' = [where EXCEPT ![p] = to]
            /\ statID' = [Reindexed(b, p, statID) EXCEPT ![p] = s.id]
            /\ state' = [Restated(b, p, t) EXCEPT ![p] = x]
            /\ reading' = [reading EXCEPT ![p] = FALSE]
            /\ heap' = Collected([heap EXCEPT ![x] = copy])
            /\ blurred' = (blurred \/ ~InStep(b) \/ s.full)
            /\ UNCHANGED spent
  BY DEF TransferPlayer
<1> DEFINE opened == PlayerForAll(tables[to], ids, tables)
           opens  == [tables EXCEPT ![to] = opened]
           s      == Spawn(onto, opened, left[to] = {}, Fresh(opens))
           x      == s.table[s.id]
<1>1. b \in Board
  BY DEF TypeOK, PlayersTyped, Present
<1>2. /\ News(TableKept(b, p), MovedTo(b, p), table) # {}
      /\ News(tables[to], ids, tables) # {} /\ Unused(opens) # {}
      /\ members' = after
      /\ live' = (live \cup {to}) \ (IF empty THEN {b} ELSE {})
      /\ stats' = [stats EXCEPT ![b] = IF empty THEN <<>> ELSE list, ![to] = s.stats]
      /\ table' = [table EXCEPT ![b] = IF empty THEN EmptyTable ELSE t, ![to] = s.table]
      /\ FreezeIfEmpty(b, list)
  BY <1>a
<1>3. /\ where' = [where EXCEPT ![p] = to]
      /\ statID' = [Reindexed(b, p, statID) EXCEPT ![p] = s.id]
      /\ state' = [Restated(b, p, t) EXCEPT ![p] = x]
      /\ reading' = [reading EXCEPT ![p] = FALSE]
      /\ heap' = Collected([heap EXCEPT ![x] = copy])
      /\ blurred' = (blurred \/ ~InStep(b) \/ s.full)
      /\ spent' = spent
  BY <1>a
<1>4. list \in BoardStats
  BY <1>1, LeftTyped
<1>5. /\ Reindexed(b, p, statID) \in [Player -> Int]
      /\ Restated(b, p, t) \in [Player -> Pointer \cup {Null}]
      /\ IsTable(t)
  BY <1>1, <1>2, RestatedTyped
<1>6. <<>> \in BoardStats /\ IsTable(EmptyTable)
  BY EmptyTyped
<1>7. onto \in BoardStats /\ IsTable(opened) /\ Fresh(opens) \in Pointer
  <2>1. onto \in BoardStats
    BY <1>4 DEF TypeOK, RoomsTyped, Opened
  <2>2. IsTable(tables[to])
    BY <1>1, <1>5 DEF TypeOK, RoomsTyped
  <2>3. IsTable(opened)
    BY <1>2, <2>2, ArrivalsAreIds, PlayerForAllTyped
  <2>4. Fresh(opens) \in Pointer
    <3> HIDE DEF opens
    <3> QED BY <1>2 DEF Fresh, Unused
  <2> QED BY <2>1, <2>3, <2>4
<1>8. copy \in [owner : Player \cup {Nobody}, reenter : Board \cup {Nowhere}]
  <2>1. CASE found
    <3>1. table[b][statID[p]] \in Pointer
      BY <1>1, <2>1 DEF TypeOK, RoomsTyped, IsTable, Range
    <3> QED BY <2>1, <3>1 DEF TypeOK, PlayersTyped
  <2>2. CASE ~ found
    BY <2>2 DEF Blank
  <2> QED BY <2>1, <2>2
<1> HIDE DEF onto, opened, opens
<1>9. s.stats \in BoardStats /\ s.id \in Int /\ IsTable(s.table) /\ x \in Pointer
  BY <1>7, SpawnTyped
<1> HIDE DEF b, left, after, list, t, found, copy, s, x, empty
<1>10. stored' \in [Board -> BoardStats] /\ RepliesTyped'
  BY <1>1, <1>2, <1>4, FreezeTyped
<1>11. RoomsTyped'
  <2>1. members' \in [Board -> SUBSET Player]
    BY <1>1, <1>2 DEF after, left, TypeOK, RoomsTyped
  <2>2. stats' \in [Board -> BoardStats]
    BY <1>2, <1>4, <1>6, <1>9 DEF TypeOK, RoomsTyped
  <2>3. DOMAIN table' = Board /\ \A c \in Board : IsTable(table'[c])
    BY <1>2, <1>5, <1>6, <1>9 DEF TypeOK, RoomsTyped
  <2>4. live' \subseteq Board
    BY <1>2 DEF TypeOK, RoomsTyped
  <2> QED BY <1>10, <2>1, <2>2, <2>3, <2>4 DEF RoomsTyped
<1>12. PlayersTyped'
  <2>1. /\ where' \in [Player -> Board \cup {Nowhere}]
        /\ statID' \in [Player -> Int]
        /\ state' \in [Player -> Pointer \cup {Null}]
        /\ reading' \in [Player -> BOOLEAN]
    BY <1>3, <1>5, <1>9 DEF TypeOK, PlayersTyped
  <2>2. [heap EXCEPT ![x] = copy] \in
          [Pointer -> [owner : Player \cup {Nobody}, reenter : Board \cup {Nowhere}]]
    BY <1>8 DEF TypeOK, PlayersTyped
  <2>3. heap' \in [Pointer -> [owner : Player \cup {Nobody}, reenter : Board \cup {Nowhere}]]
    BY <1>3, <2>2, CollectedTyped
  <2> QED BY <2>1, <2>3 DEF PlayersTyped
<1>13. HistoryTyped'
  BY <1>3 DEF TypeOK, HistoryTyped
<1> QED BY <1>10, <1>11, <1>12, <1>13

-----------------------------------------------------------------------------
(* Every action keeps the type invariant.                                  *)
LEMMA JoinTyped ==
  ASSUME TypeOK, NEW p \in Player, NEW b \in Board, Join(p, b)
  PROVE  TypeOK'
<1>1. PICK ids \in Arrivals(b) :
        LET opened == PlayerForAll(table[b], ids, table)
            opens  == [table EXCEPT ![b] = opened]
            s == Spawn(Opened(b), opened, members[b] = {}, Fresh(opens))
            x == s.table[s.id]
        IN  /\ News(table[b], ids, table) # {} /\ Unused(opens) # {}
            /\ stats' = [stats EXCEPT ![b] = s.stats]
            /\ table' = [table EXCEPT ![b] = s.table]
            /\ statID' = [statID EXCEPT ![p] = s.id]
            /\ state' = [state EXCEPT ![p] = x]
            /\ heap' = [heap EXCEPT ![x] = [owner |-> p, reenter |-> b]]
            /\ blurred' = (blurred \/ s.full)
            /\ UNCHANGED spent
  BY DEF Join
<1>2. /\ live' = live \cup {b}
      /\ members' = [members EXCEPT ![b] = @ \cup {p}]
      /\ where' = [where EXCEPT ![p] = b]
      /\ phase # "tick"
      /\ UNCHANGED <<stored, reading, scrollReplies, quitReplies, phase, todo, cursor, events,
                     transfers, quitters>>
  BY DEF Join, replyVars, stepVars
<1> DEFINE opened == PlayerForAll(table[b], ids, table)
           opens  == [table EXCEPT ![b] = opened]
           s == Spawn(Opened(b), opened, members[b] = {}, Fresh(opens))
           x == s.table[s.id]
<1>3. Opened(b) \in BoardStats /\ IsTable(table[b])
  BY DEF Opened, TypeOK, RoomsTyped
<1>4. IsTable(opened)
  BY <1>1, <1>3, ArrivalsAreIds, PlayerForAllTyped
<1>5. Fresh(opens) \in Pointer
  <2>1. Unused(opens) # {}
    BY <1>1
  <2> HIDE DEF opens
  <2> QED BY <2>1 DEF Fresh, Unused
<1>6. /\ stats' = [stats EXCEPT ![b] = s.stats]
      /\ table' = [table EXCEPT ![b] = s.table]
      /\ statID' = [statID EXCEPT ![p] = s.id]
      /\ state' = [state EXCEPT ![p] = x]
      /\ heap' = [heap EXCEPT ![x] = [owner |-> p, reenter |-> b]]
      /\ blurred' = (blurred \/ s.full) /\ spent' = spent
  BY <1>1
<1> HIDE DEF opened, opens
<1>7. s.stats \in BoardStats /\ s.id \in Int /\ IsTable(s.table) /\ x \in Pointer
  BY <1>3, <1>4, <1>5, SpawnTyped
<1> HIDE DEF s, x
<1>8. RoomsTyped'
  BY <1>2, <1>6, <1>7 DEF TypeOK, RoomsTyped
<1>9. PlayersTyped'
  BY <1>2, <1>6, <1>7 DEF TypeOK, PlayersTyped
<1>10. RepliesTyped' /\ StepTyped'
  BY <1>2 DEF TypeOK, RepliesTyped, StepTyped
<1>11. HistoryTyped'
  BY <1>6 DEF TypeOK, HistoryTyped
<1> QED BY <1>8, <1>9, <1>10, <1>11 DEF TypeOK

LEMMA LeaveTyped ==
  ASSUME TypeOK, NEW p \in Player, Leave(p)
  PROVE  TypeOK'
<1>1. RoomsTyped' /\ PlayersTyped' /\ RepliesTyped' /\ HistoryTyped'
  BY LeavePlayerTyped DEF Leave
<1>2. StepTyped'
  BY DEF Leave, stepVars, TypeOK, StepTyped
<1> QED BY <1>1, <1>2 DEF TypeOK

LEMMA SpendsTyped ==
  ASSUME HistoryTyped, NEW n \in Nat, Spends(n), blurred' \in BOOLEAN
  PROVE  HistoryTyped'
BY DEF HistoryTyped, Spends

ScrollReply == [stat : Nat, label : Nat]

LEMMA SubmitTyped ==
  ASSUME TypeOK, NEW p \in Player, SubmitQuitReply(p) \/ SubmitScrollReply(p)
  PROVE  TypeOK'
<1>1. where[p] \in Board
  BY DEF TypeOK, PlayersTyped, SubmitQuitReply, SubmitScrollReply, Present
<1>2. RoomsTyped' /\ UNCHANGED <<blurred, phase, todo, cursor, events, transfers, quitters>>
      /\ phase # "tick"
  BY DEF SubmitQuitReply, SubmitScrollReply, roomVars, stepVars, TypeOK, RoomsTyped
<1>3. StepTyped'
  BY <1>2 DEF TypeOK, StepTyped
<1>4. CASE SubmitQuitReply(p)
  <2> DEFINE r == [stat |-> statID[p], who |-> state[p]]
  <2>1. r \in [stat : Int, who : Pointer \cup {Null}]
    BY DEF TypeOK, PlayersTyped
  <2>2. /\ quitReplies' = [quitReplies EXCEPT ![where[p]] = Append(@, r)]
        /\ UNCHANGED <<scrollReplies, where, statID, state, reading, heap>> /\ Spends(1)
    BY <1>4 DEF SubmitQuitReply, playerVars
  <2> HIDE DEF r
  <2>3. quitReplies[where[p]] \in Seq([stat : Int, who : Pointer \cup {Null}])
    BY <1>1 DEF TypeOK, RepliesTyped
  <2>4. Append(quitReplies[where[p]], r) \in Seq([stat : Int, who : Pointer \cup {Null}])
    BY <2>1, <2>3
  <2>5. RepliesTyped' /\ PlayersTyped'
    BY <2>2, <2>4 DEF TypeOK, RepliesTyped, PlayersTyped
  <2>6. HistoryTyped'
    BY <1>2, <2>2, SpendsTyped DEF TypeOK, HistoryTyped
  <2> QED BY <1>2, <1>3, <2>5, <2>6 DEF TypeOK
<1>5. CASE SubmitScrollReply(p)
  <2>1. PICK k \in ReplyTo, n \in 0 .. MaxLabel :
          /\ Spends(n + 1)
          /\ scrollReplies' = [scrollReplies EXCEPT ![where[p]] = Append(@, [stat |-> k, label |-> n])]
    BY <1>5 DEF SubmitScrollReply
  <2>2. /\ reading' = [reading EXCEPT ![p] = FALSE]
        /\ UNCHANGED <<where, statID, state, heap, quitReplies>>
    BY <1>5 DEF SubmitScrollReply
  <2> DEFINE r == [stat |-> k, label |-> n]
  <2>3. r \in ScrollReply
    BY DEF ScrollReply
  <2>4. scrollReplies' = [scrollReplies EXCEPT ![where[p]] = Append(@, r)]
    BY <2>1
  <2> HIDE DEF r
  <2>5. scrollReplies \in [Board -> Seq(ScrollReply)]
    BY DEF TypeOK, RepliesTyped, ScrollReply
  <2>6. Append(scrollReplies[where[p]], r) \in Seq(ScrollReply)
    BY <1>1, <2>3, <2>5
  <2>7. RepliesTyped'
    <3>1. scrollReplies' \in [Board -> Seq(ScrollReply)]
      BY <2>4, <2>5, <2>6
    <3> QED BY <2>2, <3>1 DEF TypeOK, RepliesTyped, ScrollReply
  <2>8. PlayersTyped'
    BY <2>2 DEF TypeOK, PlayersTyped
  <2>9. HistoryTyped'
    <3>1. n + 1 \in Nat /\ Spends(n + 1)
      BY <2>1
    <3> QED BY <1>2, <3>1, SpendsTyped DEF TypeOK, HistoryTyped
  <2> QED BY <1>2, <1>3, <2>7, <2>8, <2>9 DEF TypeOK
<1> QED BY <1>4, <1>5

LEMMA BeginStepTyped ==
  ASSUME TypeOK, BeginStep
  PROVE  TypeOK'
<1>1. StepTyped'
  BY DEF BeginStep, TypeOK, RoomsTyped, StepTyped
<1>2. RoomsTyped' /\ PlayersTyped' /\ RepliesTyped'
  BY DEF BeginStep, roomVars, playerVars, replyVars, TypeOK, RoomsTyped, PlayersTyped, RepliesTyped
<1>3. HistoryTyped'
  BY DEF BeginStep, historyVars, TypeOK, HistoryTyped
<1> QED BY <1>1, <1>2, <1>3 DEF TypeOK

LEMMA NextRoomTyped ==
  ASSUME TypeOK, todo # {}, NextRoom, UNCHANGED <<transfers, quitters>>,
         cursor' = 1, events' \in Seq(RoomEvent)
  PROVE  StepTyped'
<1>1. phase' \in {"apply", "replies"} /\ todo' \subseteq Board /\ (phase' = "replies" => todo' # {})
  BY DEF NextRoom, TypeOK, StepTyped
<1> QED BY <1>1 DEF TypeOK, StepTyped

(* A room whose list and table were changed between two steps of its own,  *)
(* its players looked up or not.                                           *)
LEMMA RoomTyped ==
  ASSUME TypeOK, todo # {}, NEW r, IsRoomEngine(r), NEW t, IsTable(t),
         stats' = [stats EXCEPT ![Stepping] = r.stats],
         table' = [table EXCEPT ![Stepping] = t],
         UNCHANGED <<stored, live, members>>
  PROVE  RoomsTyped' /\ Len(stats'[Stepping]) = Len(r.stats)
<1>1. r.stats \in BoardStats
  BY DEF IsRoomEngine, IsEngine, BoardStats
<1>2. Stepping \in Board
  BY SteppingIsABoard
<1> QED BY <1>1, <1>2 DEF TypeOK, RoomsTyped

(* The scroll reply at hand, and where it stands.                          *)
LEMMA ReplyAtHand ==
  ASSUME TypeOK, todo # {}, scrollReplies[Stepping] # <<>>
  PROVE  /\ Stepping \in Board
         /\ Head(scrollReplies[Stepping]) \in ScrollReply
         /\ Tail(scrollReplies[Stepping]) \in Seq(ScrollReply)
         /\ AtScroll(stats[Stepping], Head(scrollReplies[Stepping]).stat) =>
              LET k == Head(scrollReplies[Stepping]).stat
              IN  k \in 1 .. Len(stats[Stepping]) /\ stats[Stepping][k] = "scroll"
<1> DEFINE replies == scrollReplies[Stepping]
           list    == stats[Stepping]
<1>1. Stepping \in Board
  BY SteppingIsABoard
<1>2. replies \in Seq(ScrollReply) /\ replies # <<>>
  BY <1>1 DEF TypeOK, RepliesTyped, ScrollReply
<1>3. list \in Seq(Element)
  BY <1>1 DEF TypeOK, RoomsTyped, BoardStats
<1> HIDE DEF replies, list
<1>4. Head(replies) \in ScrollReply /\ Tail(replies) \in Seq(ScrollReply)
  BY <1>2
<1>5. \A k : AtScroll(list, k) => k \in 1 .. Len(list) /\ list[k] = "scroll"
  BY <1>3 DEF AtScroll, Showing
<1> QED BY <1>1, <1>4, <1>5 DEF replies, list

(* Each change a label makes leaves an engine that follows the room's.     *)
LEMMA LabelFollows ==
  ASSUME TypeOK, RunLabel
  PROVE  \E r, at :
           /\ Command(r, at) /\ at \in Nat
           /\ Follows([stats |-> stats[Stepping], table |-> table[Stepping],
                       cursor |-> Head(scrollReplies[Stepping]).stat], r)
           /\ events' \in Seq(RoomEvent)
<1> DEFINE b  == Stepping
           at == Head(scrollReplies[b]).stat
           o  == [stats |-> stats[b], table |-> table[b], cursor |-> at]
<1>1. todo # {} /\ scrollReplies[b] # <<>> /\ AtScroll(stats[b], at)
  BY DEF RunLabel, TypeOK, StepTyped
<1>2. b \in Board /\ at \in 1 .. Len(stats[b]) /\ stats[b] \in Seq(Element)
  BY <1>1, ReplyAtHand DEF TypeOK, RoomsTyped, BoardStats
<1>3. Follows(o, o)
  <2>1. at \in 0 .. Len(stats[b]) + 1
    BY <1>2
  <2> QED BY <1>2, <2>1, RoomFollows
<1>4. events \in Seq(RoomEvent)
  BY DEF TypeOK, StepTyped
<1>5. \A r : Follows(o, r) => r.cursor \in Nat
  BY DEF Follows, IsRoomEngine, IsEngine
<1>6. \/ Command(AddStat(o, "hostile", MAX_STAT), at) /\ UNCHANGED events
      \/ LET s == DisplayMessage(o, MAX_STAT) IN Command(s, s.cursor) /\ UNCHANGED events
      \/ \E j \in DOMAIN stats[b] \ Showing(stats[b], "player") :
           LET s == RemoveStat(o, j)
           IN  Command(s, IF j = at THEN 0 ELSE s.cursor) /\ UNCHANGED events
      \/ \E i \in Showing(stats[b], "player") :
           Command(o, at) /\ events' = Append(events, Event("scroll", i, 0))
  BY DEF RunLabel
<1>7. o.stats = stats[b]
  OBVIOUS
<1> HIDE DEF at, o
<1>8. CASE Command(AddStat(o, "hostile", MAX_STAT), at) /\ UNCHANGED events
  <2>1. Follows(o, AddStat(o, "hostile", MAX_STAT))
    BY <1>3, AddFollows DEF Element
  <2> QED BY <1>2, <1>4, <1>8, <2>1 DEF at, o
<1>9. CASE LET s == DisplayMessage(o, MAX_STAT) IN Command(s, s.cursor) /\ UNCHANGED events
  <2>1. Follows(o, DisplayMessage(o, MAX_STAT))
    BY <1>3, MessageFollows
  <2> QED BY <1>4, <1>5, <1>9, <2>1 DEF at, o
<1>10. ASSUME NEW j \in DOMAIN stats[b] \ Showing(stats[b], "player"),
              Command(RemoveStat(o, j), IF j = at THEN 0 ELSE RemoveStat(o, j).cursor),
              UNCHANGED events
       PROVE  \E r, k : /\ Command(r, k) /\ k \in Nat
                        /\ Follows(o, r) /\ events' \in Seq(RoomEvent)
  <2>1. j \in 1 .. Len(o.stats) /\ o.stats[j] # "player"
    BY <1>2, <1>7, <1>10 DEF Showing
  <2>2. Follows(o, RemoveStat(o, j))
    BY <1>3, <2>1, RemoveFollows
  <2>3. (IF j = at THEN 0 ELSE RemoveStat(o, j).cursor) \in Nat
    BY <1>5, <2>2
  <2> QED BY <1>4, <1>10, <2>2, <2>3
<1>11. ASSUME NEW i \in Showing(stats[b], "player"), Command(o, at),
              events' = Append(events, Event("scroll", i, 0))
       PROVE  \E r, k : /\ Command(r, k) /\ k \in Nat
                        /\ Follows(o, r) /\ events' \in Seq(RoomEvent)
  <2>1. Event("scroll", i, 0) \in RoomEvent
    BY <1>2 DEF Showing, Event, RoomEvent, EventKind
  <2>2. events' \in Seq(RoomEvent)
    BY <1>4, <1>11, <2>1
  <2> QED BY <1>2, <1>3, <1>11, <2>2
<1>12. \E r, k : /\ Command(r, k) /\ k \in Nat /\ Follows(o, r) /\ events' \in Seq(RoomEvent)
  BY <1>6, <1>8, <1>9, <1>10, <1>11 DEF at, o
<1> QED BY <1>12 DEF at, o

LEMMA RunLabelTyped ==
  ASSUME TypeOK, RunLabel
  PROVE  TypeOK'
<1>1. /\ phase = "replies" /\ todo # {} /\ scrollReplies[Stepping] # <<>>
      /\ Head(scrollReplies[Stepping]).label > 0
      /\ UNCHANGED <<stored, live, members, where, statID, state, reading, heap, quitReplies,
                     phase, todo, cursor, transfers, quitters, blurred, spent>>
  BY DEF RunLabel, playerVars, historyVars, TypeOK, StepTyped
<1>2. PICK r, at : /\ Command(r, at) /\ at \in Nat /\ IsRoomEngine(r) /\ events' \in Seq(RoomEvent)
  BY LabelFollows DEF Follows
<1>3. PICK t \in LookedUp(r.table) : table' = [table EXCEPT ![Stepping] = t]
  BY <1>2 DEF Command
<1>4. IsTable(t)
  <2>1. IsTable(r.table)
    BY <1>2 DEF IsRoomEngine, IsEngine, IsTable
  <2> QED BY <2>1, LookedUpTyped
<1>5. RoomsTyped'
  BY <1>1, <1>2, <1>3, <1>4, RoomTyped DEF Command
<1>6. RepliesTyped'
  <2> DEFINE h == [stat |-> at, label |-> Head(scrollReplies[Stepping]).label - 1]
             rest == Tail(scrollReplies[Stepping])
  <2>1. Head(scrollReplies[Stepping]).label \in Nat /\ rest \in Seq(ScrollReply) /\ Stepping \in Board
    BY <1>1, ReplyAtHand DEF ScrollReply
  <2>2. h \in ScrollReply
    BY <1>1, <1>2, <2>1 DEF ScrollReply
  <2>3. scrollReplies' = [scrollReplies EXCEPT ![Stepping] = <<h>> \o rest]
    BY <1>2 DEF Command
  <2>4. scrollReplies \in [Board -> Seq(ScrollReply)]
    BY DEF TypeOK, RepliesTyped, ScrollReply
  <2> HIDE DEF h, rest
  <2>5. <<h>> \o rest \in Seq(ScrollReply)
    BY <2>1, <2>2
  <2>6. scrollReplies' \in [Board -> Seq(ScrollReply)]
    BY <2>3, <2>4, <2>5
  <2> QED BY <1>1, <2>6 DEF TypeOK, RepliesTyped, ScrollReply
<1>7. PlayersTyped' /\ HistoryTyped'
  BY <1>1 DEF TypeOK, PlayersTyped, HistoryTyped
<1>8. StepTyped'
  BY <1>1, <1>2 DEF TypeOK, StepTyped
<1> QED BY <1>5, <1>6, <1>7, <1>8 DEF TypeOK

LEMMA DrainFollows ==
  ASSUME TypeOK, DrainScrollReply
  PROVE  \E r : /\ stats' = [stats EXCEPT ![Stepping] = r.stats]
                /\ table' = [table EXCEPT ![Stepping] = r.table]
                /\ Follows([stats |-> stats[Stepping], table |-> table[Stepping], cursor |-> 1], r)
<1> DEFINE b == Stepping
           k == Head(scrollReplies[b]).stat
           r == [stats |-> stats[b], table |-> table[b], cursor |-> 1]
           s == IF AtScroll(stats[b], k) THEN RemoveStat(r, k) ELSE r
<1>1. /\ scrollReplies[b] # <<>> /\ todo # {}
      /\ stats' = [stats EXCEPT ![b] = s.stats]
      /\ table' = [table EXCEPT ![b] = s.table]
  BY DEF DrainScrollReply, TypeOK, StepTyped
<1>2. b \in Board /\ (AtScroll(stats[b], k) => k \in 1 .. Len(stats[b]) /\ stats[b][k] = "scroll")
  BY <1>1, ReplyAtHand
<1>3. Follows(r, r) /\ r.stats = stats[b]
  <2>1. 1 \in 0 .. Len(stats[b]) + 1
    BY <1>2 DEF TypeOK, RoomsTyped, BoardStats
  <2> QED BY <1>2, <2>1, RoomFollows
<1>4. Follows(r, s)
  <2>1. CASE AtScroll(stats[b], k)
    <3>1. k \in 1 .. Len(r.stats) /\ r.stats[k] # "player"
      BY <1>2, <2>1
    <3> HIDE DEF r, k
    <3>2. Follows(r, RemoveStat(r, k))
      BY <1>3, <3>1, RemoveFollows
    <3> QED BY <2>1, <3>2
  <2>2. CASE ~AtScroll(stats[b], k)
    BY <1>3, <2>2
  <2> QED BY <2>1, <2>2
<1> QED BY <1>1, <1>4

LEMMA DrainScrollReplyTyped ==
  ASSUME TypeOK, DrainScrollReply
  PROVE  TypeOK'
<1>1. /\ phase = "replies" /\ todo # {} /\ scrollReplies[Stepping] # <<>>
      /\ scrollReplies' = [scrollReplies EXCEPT ![Stepping] = Tail(@)]
      /\ UNCHANGED <<stored, live, members, where, statID, state, reading, heap, quitReplies,
                     phase, todo, cursor, events, transfers, quitters, blurred, spent>>
  BY DEF DrainScrollReply, playerVars, stepVars, historyVars, TypeOK, StepTyped
<1>2. PICK r : /\ stats' = [stats EXCEPT ![Stepping] = r.stats]
               /\ table' = [table EXCEPT ![Stepping] = r.table]
               /\ IsRoomEngine(r)
  BY DrainFollows DEF Follows
<1>3. IsTable(r.table)
  BY <1>2 DEF IsRoomEngine, IsEngine, IsTable
<1>4. RoomsTyped'
  BY <1>1, <1>2, <1>3, RoomTyped
<1>5. RepliesTyped'
  <2>1. Stepping \in Board /\ Tail(scrollReplies[Stepping]) \in Seq(ScrollReply)
    BY <1>1, ReplyAtHand
  <2>2. scrollReplies \in [Board -> Seq(ScrollReply)]
    BY DEF TypeOK, RepliesTyped, ScrollReply
  <2>3. scrollReplies' \in [Board -> Seq(ScrollReply)]
    BY <1>1, <2>1, <2>2
  <2> QED BY <1>1, <2>3 DEF TypeOK, RepliesTyped, ScrollReply
<1>6. PlayersTyped' /\ HistoryTyped'
  BY <1>1 DEF TypeOK, PlayersTyped, HistoryTyped
<1>7. StepTyped'
  BY <1>1 DEF TypeOK, StepTyped
<1> QED BY <1>4, <1>5, <1>6, <1>7 DEF TypeOK

LEMMA DrainQuitReplyTyped ==
  ASSUME TypeOK, DrainQuitReply
  PROVE  TypeOK'
<1> DEFINE b == Stepping
           r == Head(quitReplies[b])
           e == Event("quit", r.stat, 0)
           Q == [stat : Int, who : Pointer \cup {Null}]
<1>1. /\ quitReplies[b] # <<>> /\ quitReplies' = [quitReplies EXCEPT ![b] = Tail(@)]
      /\ events' = IF r.stat \in DOMAIN stats[b] THEN Append(events, e) ELSE events
      /\ UNCHANGED <<phase, todo, cursor, transfers, quitters>> /\ phase # "tick"
  BY DEF DrainQuitReply
<1>2. UNCHANGED <<stored, live, members, stats, table, where, statID, state, reading, heap,
                  scrollReplies, blurred, spent>>
  BY DEF DrainQuitReply, roomVars, playerVars, historyVars
<1>3. b \in Board
  BY SteppingIsABoard DEF DrainQuitReply, TypeOK, StepTyped
<1>4. quitReplies[b] \in Seq(Q)
  BY <1>3 DEF TypeOK, RepliesTyped
<1>5. Tail(quitReplies[b]) \in Seq(Q) /\ r \in Q
  <2> DEFINE qs == quitReplies[b]
  <2>1. qs \in Seq(Q) /\ qs # <<>>
    BY <1>1, <1>4
  <2> HIDE DEF qs, Q
  <2>2. Tail(qs) \in Seq(Q) /\ Head(qs) \in Q
    BY <2>1
  <2> QED BY <2>2 DEF qs
<1>6. e \in RoomEvent
  BY <1>5 DEF Event, RoomEvent, EventKind
<1> HIDE DEF e, Q
<1>7. events' \in Seq(RoomEvent)
  <2>1. events \in Seq(RoomEvent)
    BY DEF TypeOK, StepTyped
  <2>2. Append(events, e) \in Seq(RoomEvent)
    BY <1>6, <2>1
  <2> QED BY <1>1, <2>1, <2>2
<1>8. RoomsTyped' /\ PlayersTyped' /\ HistoryTyped'
  BY <1>2 DEF TypeOK, RoomsTyped, PlayersTyped, HistoryTyped
<1>9. RepliesTyped'
  BY <1>1, <1>2, <1>5 DEF TypeOK, RepliesTyped, Q
<1>10. StepTyped'
  BY <1>1, <1>7 DEF TypeOK, StepTyped
<1> QED BY <1>8, <1>9, <1>10 DEF TypeOK

LEMMA BeginTicksTyped ==
  ASSUME TypeOK, BeginTicks
  PROVE  TypeOK'
<1>1. RoomsTyped' /\ PlayersTyped' /\ RepliesTyped' /\ HistoryTyped'
  BY DEF BeginTicks, roomVars, playerVars, replyVars, historyVars,
         TypeOK, RoomsTyped, PlayersTyped, RepliesTyped, HistoryTyped
<1>2. cursor' = 1 /\ todo' = todo /\ todo # {} /\ phase' = "tick" /\ stats' = stats
      /\ UNCHANGED <<events, transfers, quitters>>
  BY DEF BeginTicks, roomVars, TypeOK, StepTyped
<1>3. Len(stats[Stepping]) \in Nat /\ Stepping' = Stepping
  BY <1>2, SteppingIsABoard, SteppingStays DEF TypeOK, RoomsTyped, BoardStats
<1>4. StepTyped'
  BY <1>2, <1>3 DEF TypeOK, StepTyped
<1> QED BY <1>1, <1>4 DEF TypeOK

(* A turn that leaves an engine, and events of the room.                   *)
LEMMA TurnTyped ==
  ASSUME TypeOK, phase = "tick", NEW element, NEW r, IsRoomEngine(r), NEW more \in Seq(RoomEvent),
         Turn(element, r, more)
  PROVE  RoomsTyped' /\ PlayersTyped' /\ RepliesTyped' /\ StepTyped'
<1>1. /\ todo # {} /\ stats' = [stats EXCEPT ![Stepping] = r.stats]
      /\ cursor' = r.cursor + 1 /\ events' = events \o more
      /\ UNCHANGED <<stored, live, members, where, statID, state, reading, heap,
                     scrollReplies, quitReplies, phase, todo, transfers, quitters>>
  BY DEF Turn, playerVars, replyVars, TypeOK, StepTyped
<1>2. PICK t \in LookedUp(r.table) : table' = [table EXCEPT ![Stepping] = t]
  BY DEF Turn
<1>3. IsTable(t)
  <2>1. IsTable(r.table)
    BY DEF IsRoomEngine, IsEngine, IsTable
  <2> QED BY <2>1, LookedUpTyped
<1>4. RoomsTyped' /\ Len(stats'[Stepping]) = Len(r.stats)
  BY <1>1, <1>2, <1>3, RoomTyped
<1>5. PlayersTyped' /\ RepliesTyped'
  BY <1>1 DEF TypeOK, PlayersTyped, RepliesTyped
<1>6. StepTyped'
  <2>1. events' \in Seq(RoomEvent)
    BY <1>1 DEF TypeOK, StepTyped
  <2>2. r.cursor \in 0 .. Len(r.stats) + 1 /\ Len(r.stats) \in Nat
    BY DEF IsRoomEngine, IsEngine
  <2>3. cursor' \in 1 .. Len(stats'[Stepping]) + 2
    BY <1>1, <1>4, <2>2
  <2>4. Stepping' = Stepping
    BY <1>1, SteppingStays
  <2> QED BY <1>1, <2>1, <2>3, <2>4 DEF TypeOK, StepTyped
<1> QED BY <1>4, <1>5, <1>6

(* Whatever the stat at the cursor does, its turn leaves an engine that    *)
(* files what it filed: no busy turn removes an avatar.                    *)
LEMMA TurnsFollow ==
  ASSUME TypeOK, todo # {}, cursor \in DOMAIN stats[Stepping], BusyTurn
  PROVE  \E element, r, more :
           Turn(element, r, more) /\ Follows(Engine, r) /\ more \in Seq(RoomEvent)
<1> DEFINE Goal == \E element, r, more :
                     Turn(element, r, more) /\ Follows(Engine, r) /\ more \in Seq(RoomEvent)
           o    == Engine
           self == RemoveStat(o, cursor)
           back == StepBack(self)
<1> SUFFICES Goal
  OBVIOUS
<1>1. /\ Follows(o, o) /\ o.cursor = cursor /\ o.stats = stats[Stepping]
      /\ cursor \in 1 .. Len(o.stats)
  BY EngineTyped
<1>2. <<>> \in Seq(RoomEvent)
  OBVIOUS
<1>3. ASSUME NEW element, NEW r, Turn(element, r, <<>>), Follows(o, r) PROVE Goal
  BY <1>2, <1>3
<1>4. ASSUME NEW element, NEW kind \in EventKind, NEW i \in Int, NEW arg \in Nat,
             kind = "transfer" => arg \in Board, Turn(element, o, <<Event(kind, i, arg)>>)
      PROVE  Goal
  <2>1. Event(kind, i, arg) \in RoomEvent
    BY <1>4 DEF Event, RoomEvent
  <2>2. <<Event(kind, i, arg)>> \in Seq(RoomEvent)
    BY <2>1
  <2> QED BY <1>1, <1>4, <2>2
<1>5. ASSUME stats[Stepping][cursor] # "player" PROVE Follows(o, self) /\ Follows(o, back)
  <2>1. o.stats[cursor] # "player"
    BY <1>1, <1>5
  <2>2. self.cursor = cursor /\ cursor # 0
    BY <1>1 DEF RemoveStat, CursorWithout
  <2> HIDE DEF o
  <2>3. Follows(o, self)
    BY <1>1, <2>1, RemoveFollows
  <2> HIDE DEF self
  <2> QED BY <2>2, <2>3, BackFollows
<1>6. ASSUME NEW r, Follows(o, r), NEW j \in Showing(r.stats, "hostile")
      PROVE  Follows(o, RemoveStat(r, j))
  <2>1. j \in 1 .. Len(r.stats) /\ r.stats[j] # "player"
    BY <1>6, ShowingOnList DEF Follows
  <2> HIDE DEF o
  <2> QED BY <1>6, <2>1, RemoveFollows
<1>7. ASSUME NEW r, Follows(o, r) PROVE Follows(o, DisplayMessage(r, MAX_STAT))
  <2> HIDE DEF o
  <2> QED BY <1>7, MessageFollows
<1>8. Follows(o, AddStat(o, "hostile", MAX_STAT))
  <2> HIDE DEF o
  <2> QED BY <1>1, AddFollows DEF Element
<1>9. \A i \in Showing(stats[Stepping], "player") : i \in Int
  BY <1>1, ShowingOnList DEF Follows
<1> HIDE DEF self, back, Goal
<1>10. CASE TickLookingUp
  BY <1>1, <1>3, <1>10 DEF TickLookingUp, o
<1>11. CASE MessageTimerTick
  <2>1. Turn("timer", back, <<>>) /\ stats[Stepping][cursor] = "timer"
    BY <1>11 DEF MessageTimerTick, Turn, back, self, o
  <2> QED BY <1>3, <1>5, <2>1
<1>12. CASE HostileDies
  <2>1. /\ Turn("hostile", back, <<>>) \/ Turn("hostile", self, <<>>)
        /\ stats[Stepping][cursor] = "hostile"
    BY <1>12 DEF HostileDies, Turn, back, self, o
  <2> QED BY <1>3, <1>5, <2>1
<1>13. CASE HostileAttacks
  <2> DEFINE s == IF cursor > 1 THEN back ELSE self
  <2>1. \/ Turn("hostile", Ouch(s), <<>>)
        \/ \E j \in Showing(s.stats, "hostile") : Turn("hostile", RemoveStat(s, j), <<>>)
    BY <1>13 DEF HostileAttacks, back, self, o
  <2>2. stats[Stepping][cursor] = "hostile"
    BY <2>1 DEF Turn
  <2>3. Follows(o, s)
    BY <1>5, <2>2
  <2> HIDE DEF s
  <2>4. CASE Turn("hostile", Ouch(s), <<>>)
    <3>1. Follows(o, Ouch(s))
      BY <1>7, <2>3 DEF Ouch
    <3> QED BY <1>3, <2>4, <3>1
  <2>5. ASSUME NEW j \in Showing(s.stats, "hostile"), Turn("hostile", RemoveStat(s, j), <<>>)
        PROVE  Goal
    <3>1. Follows(o, RemoveStat(s, j))
      BY <1>6, <2>3
    <3> QED BY <1>3, <2>5, <3>1
  <2> QED BY <2>1, <2>4, <2>5
<1>14. CASE Shoot
  <2>1. PICK element \in {"player", "hostile"} :
          \/ Turn(element, AddStat(o, "hostile", MAX_STAT), <<>>)
          \/ Turn(element, Ouch(o), <<>>)
          \/ \E j \in Showing(stats[Stepping], "hostile") : Turn(element, RemoveStat(o, j), <<>>)
    BY <1>14 DEF Shoot, o
  <2>2. CASE Turn(element, AddStat(o, "hostile", MAX_STAT), <<>>)
    BY <1>3, <1>8, <2>2
  <2>3. CASE Turn(element, Ouch(o), <<>>)
    <3>1. Follows(o, Ouch(o))
      BY <1>1, <1>7 DEF Ouch
    <3> QED BY <1>3, <2>3, <3>1
  <2>4. ASSUME NEW j \in Showing(stats[Stepping], "hostile"), Turn(element, RemoveStat(o, j), <<>>)
        PROVE  Goal
    <3>1. Follows(o, RemoveStat(o, j))
      BY <1>1, <1>6
    <3> QED BY <1>3, <2>4, <3>1
  <2> QED BY <2>1, <2>2, <2>3, <2>4
<1>15. CASE ObjectSpeaks
  <2>1. CASE Turn("hostile", DisplayMessage(o, MAX_STAT), <<>>)
    <3>1. Follows(o, DisplayMessage(o, MAX_STAT))
      BY <1>1, <1>7
    <3> QED BY <1>3, <2>1, <3>1
  <2>2. ASSUME NEW i \in Showing(stats[Stepping], "player"),
               Turn("hostile", o, <<Event("scroll", i, 0)>>)
        PROVE  Goal
    <3>1. i \in Int /\ "scroll" \in EventKind /\ 0 \in Nat
      BY <1>9 DEF EventKind
    <3> QED BY <1>4, <2>2, <3>1
  <2> QED BY <1>15, <2>1, <2>2 DEF ObjectSpeaks, o
<1>16. CASE PlayerAttacks
  <2>1. PICK r \in {o, Ouch(o)} :
          LET s == IF cursor > 1 /\ cursor <= r.cursor THEN StepBack(r) ELSE r
          IN  \E j \in Showing(r.stats, "hostile") : Turn("player", RemoveStat(s, j), <<>>)
    BY <1>16 DEF PlayerAttacks, o
  <2> DEFINE s == IF cursor > 1 /\ cursor <= r.cursor THEN StepBack(r) ELSE r
  <2>2. Follows(o, r)
    <3>1. Follows(o, Ouch(o))
      BY <1>1, <1>7 DEF Ouch
    <3> QED BY <1>1, <2>1, <3>1
  <2>3. Follows(o, s) /\ s.stats = r.stats
    <3>1. CASE cursor > 1 /\ cursor <= r.cursor
      <4>1. r.cursor # 0 /\ s = StepBack(r)
        BY <1>1, <3>1
      <4>2. StepBack(r).stats = r.stats
        BY <2>2 DEF StepBack, Follows, IsRoomEngine, IsEngine
      <4>3. Follows(o, StepBack(r))
        <5> HIDE DEF o
        <5> QED BY <2>2, <4>1, BackFollows
      <4> QED BY <4>1, <4>2, <4>3
    <3>2. CASE ~ (cursor > 1 /\ cursor <= r.cursor)
      BY <2>2, <3>2
    <3> QED BY <3>1, <3>2
  <2> HIDE DEF s
  <2>4. PICK j \in Showing(s.stats, "hostile") : Turn("player", RemoveStat(s, j), <<>>)
    BY <2>1, <2>3 DEF s
  <2>5. Follows(o, RemoveStat(s, j))
    BY <1>6, <2>3
  <2> QED BY <1>3, <2>4, <2>5
<1>17. CASE PlayerTouches
  <2>1. Turn("player", DisplayMessage(o, MAX_STAT), <<>>)
    BY <1>17 DEF PlayerTouches, o
  <2>2. Follows(o, DisplayMessage(o, MAX_STAT))
    BY <1>1, <1>7
  <2> QED BY <1>3, <2>1, <2>2
<1>18. CASE PlayerTravels
  <2>1. PICK to \in Board : Turn("player", o, <<Event("transfer", cursor, to)>>)
    BY <1>18 DEF PlayerTravels, o
  <2>2. cursor \in Int /\ "transfer" \in EventKind /\ to \in Nat
    BY <1>1 DEF EventKind
  <2> QED BY <1>4, <2>1, <2>2
<1>19. CASE PlayerReads
  <2>1. Turn("player", o, <<Event("scroll", cursor, 0)>>)
    BY <1>19 DEF PlayerReads, o
  <2>2. cursor \in Int /\ "scroll" \in EventKind /\ 0 \in Nat
    BY <1>1 DEF EventKind
  <2> QED BY <1>4, <2>1, <2>2
<1> QED
  BY <1>10, <1>11, <1>12, <1>13, <1>14, <1>15, <1>16, <1>17, <1>18, <1>19 DEF BusyTurn

(* A scroll used up leaves an engine too; what it files is known as long   *)
(* as the stat removed is the scroll.                                      *)
LEMMA UsedScrollFollows ==
  ASSUME TypeOK, todo # {}, cursor \in DOMAIN stats[Stepping], PlayerUsesScroll
  PROVE  \E r : /\ Turn("player", r, <<>>) /\ IsRoomEngine(r)
                /\ blurred' \in BOOLEAN /\ (~blurred' => ~blurred /\ Follows(Engine, r))
<1> DEFINE o == Engine
<1>1. PICK r \in {o, DisplayMessage(o, MAX_STAT)}, k \in Showing(stats[Stepping], "scroll") :
        /\ Turn("player", RemoveStat(r, k), <<>>)
        /\ blurred' = (blurred \/ r.stats[k] # "scroll")
  BY DEF PlayerUsesScroll
<1>2. Follows(o, o) /\ o.stats = stats[Stepping] /\ IsRoomEngine(o)
  BY EngineTyped
<1> HIDE DEF o
<1>3. Follows(o, r) /\ Len(r.stats) >= Len(o.stats)
  <2>1. Follows(o, DisplayMessage(o, MAX_STAT))
    BY <1>2, MessageFollows
  <2>2. Len(DisplayMessage(o, MAX_STAT).stats) >= Len(o.stats)
    <3>1. IsEngine(o, Element, Pointer, MAX_STAT) /\ "timer" \in Element
      BY <1>2 DEF IsRoomEngine, Element
    <3> QED BY <3>1, DisplayMessageKeeps
  <2>3. Len(o.stats) \in Nat
    BY <1>2 DEF IsRoomEngine, IsEngine
  <2> QED BY <1>1, <1>2, <2>1, <2>2, <2>3
<1>4. k \in 1 .. Len(r.stats)
  <2>1. k \in 1 .. Len(o.stats)
    BY <1>2, ShowingOnList
  <2>2. Len(r.stats) \in Nat /\ Len(o.stats) \in Nat
    BY <1>2, <1>3 DEF Follows, IsRoomEngine, IsEngine
  <2> QED BY <1>3, <2>1, <2>2
<1>5. IsRoomEngine(RemoveStat(r, k))
  <2>1. IsEngine(r, Element, Pointer, MAX_STAT)
    BY <1>3 DEF Follows, IsRoomEngine
  <2> QED BY <1>4, <2>1, RemoveStatKeeps DEF IsRoomEngine
<1>6. ASSUME ~blurred' PROVE ~blurred /\ Follows(o, RemoveStat(r, k))
  <2>1. r.stats[k] # "player"
    BY <1>1, <1>6
  <2> QED BY <1>1, <1>3, <1>4, <1>6, <2>1, RemoveFollows
<1>7. blurred' \in BOOLEAN
  BY <1>1
<1> QED BY <1>1, <1>5, <1>6, <1>7 DEF o

LEMMA TickQuietlyTyped ==
  ASSUME TypeOK, phase = "tick", cursor \in DOMAIN stats[Stepping], TickQuietly
  PROVE  TypeOK'
<1>1. /\ cursor' = cursor + 1
      /\ UNCHANGED <<stored, live, members, stats, table, where, statID, state, reading, heap,
                     scrollReplies, quitReplies, phase, todo, events, transfers, quitters,
                     blurred, spent>>
  BY DEF TickQuietly, roomVars, playerVars, replyVars, historyVars
<1>2. RoomsTyped' /\ PlayersTyped' /\ RepliesTyped' /\ HistoryTyped'
  BY <1>1 DEF TypeOK, RoomsTyped, PlayersTyped, RepliesTyped, HistoryTyped
<1>3. cursor \in 1 .. Len(stats[Stepping]) /\ Len(stats[Stepping]) \in Nat
  <2>1. Stepping \in Board
    BY SteppingIsABoard DEF TypeOK, StepTyped
  <2> QED BY <2>1 DEF TypeOK, RoomsTyped, BoardStats
<1>4. StepTyped'
  BY <1>1, <1>3, SteppingStays DEF TypeOK, StepTyped
<1> QED BY <1>2, <1>4 DEF TypeOK

LEMMA TickTurnTyped ==
  ASSUME TypeOK, TickTurn
  PROVE  TypeOK'
<1>1. phase = "tick" /\ todo # {} /\ cursor \in DOMAIN stats[Stepping]
  BY DEF TickTurn, TypeOK, StepTyped
<1>2. CASE TickQuietly
  BY <1>1, <1>2, TickQuietlyTyped
<1>3. CASE BusyTurn /\ UNCHANGED blurred /\ Spends(1)
  <2>1. RoomsTyped' /\ PlayersTyped' /\ RepliesTyped' /\ StepTyped'
    BY <1>1, <1>3, TurnsFollow, TurnTyped DEF Follows
  <2>2. HistoryTyped'
    BY <1>3, SpendsTyped DEF TypeOK, HistoryTyped
  <2> QED BY <2>1, <2>2 DEF TypeOK
<1>4. CASE PlayerUsesScroll /\ Spends(1)
  <2>1. PICK r : Turn("player", r, <<>>) /\ IsRoomEngine(r) /\ blurred' \in BOOLEAN
    BY <1>1, <1>4, UsedScrollFollows
  <2>2. RoomsTyped' /\ PlayersTyped' /\ RepliesTyped' /\ StepTyped'
    <3>1. <<>> \in Seq(RoomEvent)
      OBVIOUS
    <3> QED BY <1>1, <2>1, <3>1, TurnTyped
  <2>3. HistoryTyped'
    BY <1>4, <2>1, SpendsTyped DEF TypeOK
  <2> QED BY <2>2, <2>3 DEF TypeOK
<1> QED BY <1>2, <1>3, <1>4 DEF TickTurn

LEMMA EndTyped ==
  ASSUME TypeOK, EndTicks \/ EndRoom
  PROVE  TypeOK'
<1>1. RoomsTyped' /\ PlayersTyped' /\ RepliesTyped' /\ HistoryTyped'
  BY DEF EndTicks, EndRoom, roomVars, playerVars, replyVars, historyVars,
         TypeOK, RoomsTyped, PlayersTyped, RepliesTyped, HistoryTyped
<1>2. CASE EndTicks
  <2>1. StepTyped'
    BY <1>2 DEF EndTicks, TypeOK, StepTyped
  <2> QED BY <1>1, <2>1 DEF TypeOK
<1>3. CASE EndRoom
  <2>1. cursor' = 1 /\ todo # {} /\ events' \in Seq(RoomEvent) /\ NextRoom
        /\ UNCHANGED <<transfers, quitters>>
    BY <1>3 DEF EndRoom, TypeOK, StepTyped
  <2>2. StepTyped'
    BY <2>1, NextRoomTyped
  <2> QED BY <1>1, <2>2 DEF TypeOK
<1> QED BY <1>2, <1>3

LEMMA PanicTyped ==
  ASSUME TypeOK, Panic
  PROVE  TypeOK'
<1> DEFINE b == Stepping
           gone == members[b]
<1>1. /\ live' = live \ {b}
      /\ members' = [members EXCEPT ![b] = {}]
      /\ stats' = [stats EXCEPT ![b] = <<>>]
      /\ table' = [table EXCEPT ![b] = EmptyTable]
      /\ scrollReplies' = [scrollReplies EXCEPT ![b] = <<>>]
      /\ quitReplies' = [quitReplies EXCEPT ![b] = <<>>]
      /\ UNCHANGED <<stored, blurred, spent>>
  BY DEF Panic, Dropped, historyVars
<1>2. /\ where' = [p \in Player |-> IF p \in gone THEN Nowhere ELSE where[p]]
      /\ statID' = [p \in Player |-> IF p \in gone THEN 0 ELSE statID[p]]
      /\ state' = [p \in Player |-> IF p \in gone THEN Null ELSE state[p]]
      /\ reading' = [p \in Player |-> IF p \in gone THEN FALSE ELSE reading[p]]
      /\ heap' = Collected(heap)
  BY DEF Panic
<1>3. todo # {} /\ NextRoom /\ events' = <<>> /\ cursor' = 1 /\ UNCHANGED <<transfers, quitters>>
  BY DEF Panic, TypeOK, StepTyped
<1> HIDE DEF b, gone
<1>4. RoomsTyped'
  BY <1>1, EmptyTyped DEF TypeOK, RoomsTyped
<1>5. PlayersTyped'
  <2>1. /\ where' \in [Player -> Board \cup {Nowhere}]
        /\ statID' \in [Player -> Int]
        /\ state' \in [Player -> Pointer \cup {Null}]
    BY <1>2 DEF TypeOK, PlayersTyped
  <2>2. heap' \in [Pointer -> [owner : Player \cup {Nobody}, reenter : Board \cup {Nowhere}]]
    BY <1>2, CollectedTyped DEF TypeOK, PlayersTyped
  <2>3. reading' \in [Player -> BOOLEAN]
    <3>1. \A p \in Player : (IF p \in gone THEN FALSE ELSE reading[p]) \in BOOLEAN
      BY Zenon DEF TypeOK, PlayersTyped
    <3>2. reading' = [p \in Player |-> IF p \in gone THEN FALSE ELSE reading[p]]
      BY <1>2
    <3> QED BY <3>1, <3>2, Zenon
  <2> QED BY <2>1, <2>2, <2>3 DEF PlayersTyped
<1>6. RepliesTyped'
  <2>1. \A S : <<>> \in Seq(S)
    OBVIOUS
  <2> QED BY <1>1, <2>1 DEF TypeOK, RepliesTyped
<1>7. StepTyped'
  <2>1. <<>> \in Seq(RoomEvent)
    OBVIOUS
  <2> QED BY <1>3, <2>1, NextRoomTyped
<1>8. HistoryTyped'
  BY <1>1 DEF TypeOK, HistoryTyped
<1> QED BY <1>4, <1>5, <1>6, <1>7, <1>8 DEF TypeOK

LEMMA ResolveEventTyped ==
  ASSUME TypeOK, ResolveEvent
  PROVE  TypeOK'
<1> DEFINE ev    == Head(events)
           found == Named(Stepping, ev.stat)
           p     == Min(found)
<1>1. /\ events # <<>> /\ events' = Tail(events)
      /\ transfers' = IF found # {} /\ ev.kind = "transfer"
                      THEN Append(transfers, [player |-> p, to |-> ev.arg]) ELSE transfers
      /\ quitters' = IF found # {} /\ ev.kind = "quit" THEN Append(quitters, p) ELSE quitters
      /\ reading' = IF found # {} /\ ev.kind = "scroll" THEN [reading EXCEPT ![p] = TRUE] ELSE reading
      /\ UNCHANGED <<phase, todo, cursor>> /\ phase # "tick"
  BY DEF ResolveEvent
<1>2. UNCHANGED <<stored, live, members, stats, table, where, statID, state, heap,
                  scrollReplies, quitReplies, blurred, spent>>
  BY DEF ResolveEvent, roomVars, replyVars, historyVars
<1>3. events \in Seq(RoomEvent)
  BY DEF TypeOK, StepTyped
<1>4. ev \in RoomEvent /\ Tail(events) \in Seq(RoomEvent)
  BY <1>1, <1>3
<1>5. found # {} => p \in Player
  <2>1. found \subseteq Player /\ found \subseteq Nat
    BY DEF Named
  <2> HIDE DEF found
  <2> QED BY <2>1, MinIsLeast
<1> HIDE DEF ev, found, p
<1>6. ev.arg \in Nat /\ (ev.kind = "transfer" => ev.arg \in Board)
  BY <1>4 DEF RoomEvent
<1>7. RoomsTyped' /\ RepliesTyped' /\ HistoryTyped'
  BY <1>2 DEF TypeOK, RoomsTyped, RepliesTyped, HistoryTyped
<1>8. PlayersTyped'
  BY <1>1, <1>2, <1>5, <1>6 DEF TypeOK, PlayersTyped
<1>9. transfers' \in Seq([player : Player, to : Board])
  <2>1. transfers \in Seq([player : Player, to : Board])
    BY DEF TypeOK, StepTyped
  <2>2. CASE found # {} /\ ev.kind = "transfer"
    <3> DEFINE t == [player |-> p, to |-> ev.arg]
    <3>1. t \in [player : Player, to : Board]
      BY <2>2, <1>5, <1>6
    <3>2. transfers' = Append(transfers, t)
      BY <2>2, <1>1
    <3> HIDE DEF t
    <3> QED BY <2>1, <3>1, <3>2
  <2>3. CASE ~ (found # {} /\ ev.kind = "transfer")
    BY <2>1, <2>3, <1>1
  <2> QED BY <2>2, <2>3
<1>10. quitters' \in Seq(Player)
  <2>1. quitters \in Seq(Player)
    BY DEF TypeOK, StepTyped
  <2> QED BY <2>1, <1>1, <1>5
<1>11. StepTyped'
  BY <1>1, <1>4, <1>9, <1>10 DEF TypeOK, StepTyped
<1> QED BY <1>7, <1>8, <1>11 DEF TypeOK

LEMMA HeadOfTransfers ==
  ASSUME TypeOK, transfers # <<>>
  PROVE  /\ Head(transfers).player \in Player /\ Head(transfers).to \in Board
         /\ Tail(transfers) \in Seq([player : Player, to : Board])
<1> DEFINE T == [player : Player, to : Board]
<1>1. transfers \in Seq(T)
  BY DEF TypeOK, StepTyped
<1> HIDE DEF T
<1>2. Head(transfers) \in T /\ Tail(transfers) \in Seq(T)
  BY <1>1
<1> QED BY <1>2 DEF T

LEMMA ApplyTransferTyped ==
  ASSUME TypeOK, ApplyTransfer
  PROVE  TypeOK'
<1> DEFINE t == Head(transfers)
<1>1. t.player \in Player /\ t.to \in Board /\ Tail(transfers) \in Seq([player : Player, to : Board])
  BY HeadOfTransfers DEF ApplyTransfer
<1>2. StepTyped'
  <2>1. transfers' = Tail(transfers) /\ UNCHANGED <<phase, todo, cursor, events, quitters>>
        /\ phase # "tick"
    BY DEF ApplyTransfer
  <2> QED BY <2>1, <1>1 DEF TypeOK, StepTyped
<1>3. RoomsTyped' /\ PlayersTyped' /\ RepliesTyped' /\ HistoryTyped'
  <2>1. CASE Present(t.player)
    <3>1. TransferPlayer(t.player, t.to)
      BY <2>1 DEF ApplyTransfer
    <3> QED BY <1>1, <2>1, <3>1, TransferPlayerTyped
  <2>2. CASE ~ Present(t.player)
    <3>1. UNCHANGED <<roomVars, playerVars, replyVars, historyVars>>
      BY <2>2 DEF ApplyTransfer
    <3> QED BY <3>1 DEF roomVars, playerVars, replyVars, historyVars,
                       TypeOK, RoomsTyped, PlayersTyped, RepliesTyped, HistoryTyped
  <2> QED BY <2>1, <2>2
<1> QED BY <1>2, <1>3 DEF TypeOK

LEMMA ApplyQuitTyped ==
  ASSUME TypeOK, ApplyQuit
  PROVE  TypeOK'
<1> DEFINE p == Head(quitters)
<1>1. quitters \in Seq(Player) /\ quitters # <<>>
  BY DEF ApplyQuit, TypeOK, StepTyped
<1>2. p \in Player /\ Tail(quitters) \in Seq(Player)
  BY <1>1
<1>3. StepTyped'
  <2>1. quitters' = Tail(quitters) /\ UNCHANGED <<phase, todo, cursor, events, transfers>>
        /\ phase # "tick"
    BY DEF ApplyQuit
  <2> QED BY <2>1, <1>2 DEF TypeOK, StepTyped
<1>4. RoomsTyped' /\ PlayersTyped' /\ RepliesTyped' /\ HistoryTyped'
  <2>1. CASE Present(p)
    <3>1. LeavePlayer(p)
      BY <2>1 DEF ApplyQuit
    <3> QED BY <1>2, <2>1, <3>1, LeavePlayerTyped
  <2>2. CASE ~ Present(p)
    <3>1. UNCHANGED <<roomVars, playerVars, replyVars, historyVars>>
      BY <2>2 DEF ApplyQuit
    <3> QED BY <3>1 DEF roomVars, playerVars, replyVars, historyVars,
                       TypeOK, RoomsTyped, PlayersTyped, RepliesTyped, HistoryTyped
  <2> QED BY <2>1, <2>2
<1> QED BY <1>3, <1>4 DEF TypeOK

LEMMA SyncTyped ==
  ASSUME TypeOK, SyncPlayerStatIDs
  PROVE  TypeOK'
<1>1. RoomsTyped' /\ RepliesTyped' /\ HistoryTyped'
  BY DEF SyncPlayerStatIDs, roomVars, replyVars, historyVars,
         TypeOK, RoomsTyped, RepliesTyped, HistoryTyped
<1>2. StepTyped'
  BY DEF SyncPlayerStatIDs, TypeOK, StepTyped
<1>3. PlayersTyped'
  <2>1. UNCHANGED <<where, state, reading, heap>>
    BY DEF SyncPlayerStatIDs
  <2>2. ASSUME NEW p \in Player
        PROVE  (IF Present(p) /\ state[p] \in Range(table[where[p]])
                THEN CHOOSE i \in DOMAIN table[where[p]] : table[where[p]][i] = state[p]
                ELSE statID[p]) \in Int
    <3>1. CASE Present(p) /\ state[p] \in Range(table[where[p]])
      <4>1. where[p] \in Board
        BY <3>1 DEF Present, TypeOK, PlayersTyped
      <4>2. DOMAIN table[where[p]] \subseteq Int
        BY <4>1 DEF TypeOK, RoomsTyped, IsTable
      <4>3. \E i \in DOMAIN table[where[p]] : table[where[p]][i] = state[p]
        BY <3>1 DEF Range
      <4>4. (CHOOSE i \in DOMAIN table[where[p]] : table[where[p]][i] = state[p]) \in Int
        BY <4>2, <4>3
      <4> QED BY <3>1, <4>4
    <3>2. CASE ~ (Present(p) /\ state[p] \in Range(table[where[p]]))
      BY <3>2 DEF TypeOK, PlayersTyped
    <3> QED BY <3>1, <3>2
  <2>3. statID' \in [Player -> Int]
    BY <2>2 DEF SyncPlayerStatIDs
  <2> QED BY <2>1, <2>3 DEF TypeOK, PlayersTyped
<1> QED BY <1>1, <1>2, <1>3 DEF TypeOK

(* The type invariant is inductive as it stands: no action takes a board   *)
(* past MAX_STAT stats, nor the tick loop's cursor more than two past the  *)
(* end of the list of the room it steps or below that list's start,        *)
(* whatever is removed and however the cursor steps back.                  *)
THEOREM TypeInvariant == Spec => []TypeOK
<1>1. Init => TypeOK
  BY InitTyped
<1>2. TypeOK /\ [Next]_vars => TypeOK'
  <2> SUFFICES ASSUME TypeOK, [Next]_vars PROVE TypeOK'
    OBVIOUS
  <2>1. CASE Connection
    BY <2>1, JoinTyped, LeaveTyped, SubmitTyped DEF Connection
  <2>2. CASE BeginStep
    BY <2>2, BeginStepTyped
  <2>3. CASE RunLabel \/ DrainScrollReply \/ DrainQuitReply \/ BeginTicks
    BY <2>3, RunLabelTyped, DrainScrollReplyTyped, DrainQuitReplyTyped, BeginTicksTyped
  <2>4. CASE TickTurn \/ EndTicks \/ Panic
    BY <2>4, TickTurnTyped, EndTyped, PanicTyped
  <2>5. CASE ResolveEvent \/ EndRoom
    BY <2>5, ResolveEventTyped, EndTyped
  <2>6. CASE ApplyTransfer \/ ApplyQuit \/ SyncPlayerStatIDs
    BY <2>6, ApplyTransferTyped, ApplyQuitTyped, SyncTyped
  <2>7. CASE UNCHANGED vars
    <3>1. UNCHANGED <<stats, phase, todo, cursor, events, transfers, quitters>> /\ Stepping' = Stepping
      BY <2>7, SteppingStays DEF vars, roomVars, stepVars
    <3>2. StepTyped'
      BY <3>1 DEF TypeOK, StepTyped
    <3> QED BY <2>7, <3>2 DEF vars, roomVars, playerVars, replyVars, historyVars,
                TypeOK, RoomsTyped, PlayersTyped, RepliesTyped, HistoryTyped
  <2> QED BY <2>1, <2>2, <2>3, <2>4, <2>5, <2>6, <2>7 DEF Next, RestOfStep
<1> QED BY <1>1, <1>2, PTL DEF Spec

-----------------------------------------------------------------------------
(* A turn moves no player, nor changes what is stored.                     *)
LEMMA TicksStay ==
  ASSUME TypeOK, TickTurn
  PROVE  UNCHANGED <<members, where, live, stored, state, heap, phase>>
<1>1. todo # {} /\ cursor \in DOMAIN stats[Stepping]
  BY DEF TickTurn, TypeOK, StepTyped
<1>2. ASSUME NEW element, NEW r, NEW more, Turn(element, r, more)
      PROVE  UNCHANGED <<members, where, live, stored, state, heap, phase>>
  BY <1>2 DEF Turn, playerVars
<1>3. CASE TickQuietly
  BY <1>3 DEF TickQuietly, roomVars, playerVars
<1>4. CASE BusyTurn
  BY <1>1, <1>2, <1>4, TurnsFollow
<1>5. CASE PlayerUsesScroll
  BY <1>1, <1>2, <1>5, UsedScrollFollows
<1> QED BY <1>3, <1>4, <1>5 DEF TickTurn

(* The membership sets follow the players through every departure.         *)
LEMMA LeavePlayerAgrees ==
  ASSUME TypeOK, MembershipAgrees, NEW p \in Player, Present(p), LeavePlayer(p)
  PROVE  MembershipAgrees'
<1> DEFINE b    == where[p]
           left == [members EXCEPT ![b] = @ \ {p}]
<1>1. /\ members' = left
      /\ live' = live \ (IF left[b] = {} THEN {b} ELSE {})
      /\ where' = [where EXCEPT ![p] = Nowhere]
  BY DEF LeavePlayer, Empties
<1>2. b \in Board /\ b # Nowhere /\ p \in members[b]
  <2>1. b \in Board /\ b # Nowhere
    BY DEF Present, TypeOK, PlayersTyped
  <2> QED BY <2>1 DEF MembershipAgrees
<1> HIDE DEF b
<1>3. members \in [Board -> SUBSET Player] /\ where \in [Player -> Board \cup {Nowhere}]
  BY DEF TypeOK, RoomsTyped, PlayersTyped
<1>4. \A q \in Player, c \in Board : q \in members'[c] <=> where'[q] = c
  <2> TAKE q \in Player, c \in Board
  <2>1. q \in members[c] <=> where[q] = c
    BY DEF MembershipAgrees
  <2>2. members'[c] = IF c = b THEN members[b] \ {p} ELSE members[c]
    BY <1>1, <1>2, <1>3
  <2>3. where'[q] = IF q = p THEN Nowhere ELSE where[q]
    BY <1>1, <1>3
  <2> QED BY <2>1, <2>2, <2>3, <1>2 DEF b
<1>5. live' = {c \in Board : members'[c] # {}}
  <2>1. live = {c \in Board : members[c] # {}}
    BY DEF MembershipAgrees
  <2>2. \A c \in Board : members'[c] = IF c = b THEN left[b] ELSE members[c]
    BY <1>1, <1>2, <1>3
  <2> QED BY <2>1, <2>2, <1>1, <1>2
<1> QED BY <1>4, <1>5 DEF MembershipAgrees

(* ... and through every transfer, back onto the same board included.      *)
LEMMA TransferPlayerAgrees ==
  ASSUME TypeOK, MembershipAgrees, NEW p \in Player, NEW to \in Board,
         Present(p), TransferPlayer(p, to)
  PROVE  MembershipAgrees'
<1> DEFINE b     == where[p]
           left  == [members EXCEPT ![b] = @ \ {p}]
           after == [left EXCEPT ![to] = @ \cup {p}]
<1>1. /\ members' = after
      /\ live' = (live \cup {to}) \ (IF after[b] = {} THEN {b} ELSE {})
      /\ where' = [where EXCEPT ![p] = to]
  BY DEF TransferPlayer, Empties
<1>2. b \in Board /\ p \in members[b]
  <2>1. b \in Board
    BY DEF Present, TypeOK, PlayersTyped
  <2> QED BY <2>1 DEF MembershipAgrees
<1> HIDE DEF b
<1>3. members \in [Board -> SUBSET Player] /\ where \in [Player -> Board \cup {Nowhere}]
  BY DEF TypeOK, RoomsTyped, PlayersTyped
<1>4. \A c \in Board : after[c] = (IF c = b THEN members[b] \ {p} ELSE members[c])
                                  \cup (IF c = to THEN {p} ELSE {})
  BY <1>2, <1>3
<1> HIDE DEF after
<1>5. \A q \in Player, c \in Board : q \in members'[c] <=> where'[q] = c
  <2> TAKE q \in Player, c \in Board
  <2>1. q \in members[c] <=> where[q] = c
    BY DEF MembershipAgrees
  <2>2. where'[q] = IF q = p THEN to ELSE where[q]
    BY <1>1, <1>3
  <2> QED BY <2>1, <2>2, <1>1, <1>2, <1>4 DEF b
<1>6. live' = {c \in Board : members'[c] # {}}
  <2>1. live = {c \in Board : members[c] # {}}
    BY DEF MembershipAgrees
  <2> QED BY <2>1, <1>1, <1>2, <1>4
<1> QED BY <1>5, <1>6 DEF MembershipAgrees

LEMMA JoinAgrees ==
  ASSUME TypeOK, MembershipAgrees, NEW p \in Player, NEW b \in Board, Join(p, b)
  PROVE  MembershipAgrees'
<1>1. /\ where[p] = Nowhere
      /\ live' = live \cup {b}
      /\ members' = [members EXCEPT ![b] = @ \cup {p}]
      /\ where' = [where EXCEPT ![p] = b]
  BY DEF Join, Present
<1>2. members \in [Board -> SUBSET Player] /\ where \in [Player -> Board \cup {Nowhere}]
  BY DEF TypeOK, RoomsTyped, PlayersTyped
<1>3. /\ \A q \in Player, c \in Board : q \in members[c] <=> where[q] = c
      /\ live = {c \in Board : members[c] # {}}
  BY DEF MembershipAgrees
<1>4. \A q \in Player, c \in Board : q \in members'[c] <=> where'[q] = c
  BY <1>1, <1>2, <1>3
<1>5. live' = {c \in Board : members'[c] # {}}
  BY <1>1, <1>2, <1>3
<1> QED BY <1>4, <1>5 DEF MembershipAgrees

LEMMA PanicAgrees ==
  ASSUME TypeOK, MembershipAgrees, Panic
  PROVE  MembershipAgrees'
<1> DEFINE b == Stepping
<1>1. /\ live' = live \ {b}
      /\ members' = [members EXCEPT ![b] = {}]
      /\ where' = [p \in Player |-> IF p \in members[b] THEN Nowhere ELSE where[p]]
  BY DEF Panic
<1>2. b \in Board
  BY SteppingIsABoard DEF Panic, TypeOK, StepTyped
<1> HIDE DEF b
<1>3. members \in [Board -> SUBSET Player] /\ where \in [Player -> Board \cup {Nowhere}]
  BY DEF TypeOK, RoomsTyped, PlayersTyped
<1>4. /\ \A q \in Player, c \in Board : q \in members[c] <=> where[q] = c
      /\ live = {c \in Board : members[c] # {}}
  BY DEF MembershipAgrees
<1>5. \A q \in Player, c \in Board : q \in members'[c] <=> where'[q] = c
  BY <1>1, <1>2, <1>3, <1>4
<1>6. live' = {c \in Board : members'[c] # {}}
  BY <1>1, <1>2, <1>3, <1>4
<1> QED BY <1>5, <1>6 DEF MembershipAgrees

(* The rooms' membership sets and the manager's record of where each player*)
(* is never disagree, and exactly the rooms with players are live.         *)
THEOREM MembershipInvariant == Spec => []MembershipAgrees
<1>1. Init => MembershipAgrees
  BY DEF Init, MembershipAgrees
<1>2. TypeOK /\ MembershipAgrees /\ [Next]_vars => MembershipAgrees'
  <2> SUFFICES ASSUME TypeOK, MembershipAgrees, [Next]_vars PROVE MembershipAgrees'
    OBVIOUS
  <2>1. ASSUME UNCHANGED <<members, where, live>> PROVE MembershipAgrees'
    BY <2>1 DEF MembershipAgrees
  <2>2. CASE Connection
    <3>1. ASSUME NEW p \in Player, SubmitQuitReply(p) \/ SubmitScrollReply(p)
          PROVE  MembershipAgrees'
      BY <3>1, <2>1 DEF SubmitQuitReply, SubmitScrollReply, roomVars, playerVars
    <3>2. ASSUME NEW p \in Player, Leave(p) PROVE MembershipAgrees'
      BY <3>2, LeavePlayerAgrees DEF Leave
    <3> QED BY <2>2, <3>1, <3>2, JoinAgrees DEF Connection
  <2>3. CASE BeginStep \/ RunLabel \/ DrainScrollReply \/ DrainQuitReply \/ BeginTicks
    BY <2>3, <2>1 DEF BeginStep, RunLabel, DrainScrollReply, DrainQuitReply, BeginTicks, roomVars,
                      playerVars
  <2>4. CASE TickTurn
    BY <2>4, <2>1, TicksStay
  <2>5. CASE EndTicks \/ ResolveEvent \/ EndRoom \/ SyncPlayerStatIDs
    BY <2>5, <2>1 DEF EndTicks, ResolveEvent, EndRoom, SyncPlayerStatIDs, roomVars, playerVars
  <2>6. CASE Panic
    BY <2>6, PanicAgrees
  <2>7. CASE ApplyTransfer
    <3> DEFINE t == Head(transfers)
    <3>1. t.player \in Player /\ t.to \in Board
      BY <2>7, HeadOfTransfers DEF ApplyTransfer
    <3>2. CASE Present(t.player)
      BY <2>7, <3>1, <3>2, TransferPlayerAgrees DEF ApplyTransfer
    <3>3. CASE ~ Present(t.player)
      BY <2>7, <3>3, <2>1 DEF ApplyTransfer, roomVars, playerVars
    <3> QED BY <3>2, <3>3
  <2>8. CASE ApplyQuit
    <3> DEFINE p == Head(quitters)
    <3>1. p \in Player
      BY <2>8 DEF ApplyQuit, TypeOK, StepTyped
    <3>2. CASE Present(p)
      BY <2>8, <3>1, <3>2, LeavePlayerAgrees DEF ApplyQuit
    <3>3. CASE ~ Present(p)
      BY <2>8, <3>3, <2>1 DEF ApplyQuit, roomVars, playerVars
    <3> QED BY <3>2, <3>3
  <2>9. CASE UNCHANGED vars
    BY <2>9, <2>1 DEF vars, roomVars, playerVars
  <2> QED BY <2>2, <2>3, <2>4, <2>5, <2>6, <2>7, <2>8, <2>9 DEF Next, RestOfStep
<1> QED BY <1>1, <1>2, TypeInvariant, PTL DEF Spec

-----------------------------------------------------------------------------
(* Each action that moves players is a step of Whereabouts.                *)
LEMMA KeepsAfterFreeze ==
  ASSUME RoomsTyped, RoomsTyped', MembershipAgrees', NEW b \in Board, NEW list \in BoardStats,
         FreezeIfEmpty(b, list)
  PROVE  W!Keeps(b)
<1>1. /\ stored \in [Board -> BoardStats]
      /\ members' \in [Board -> SUBSET Player]
      /\ \A q \in Player, c \in Board : q \in members'[c] <=> where'[q] = c
  BY DEF RoomsTyped, MembershipAgrees
<1>2. CASE members'[b] = {}
  <2>1. ~ \E q \in Player : where'[q] = b
    BY <1>1, <1>2
  <2>2. stored' = [stored EXCEPT ![b] = list]
    BY <1>2 DEF FreezeIfEmpty, Empties
  <2>3. stored'[b] = list
    BY <1>1, <2>2
  <2> QED BY <2>1, <2>2, <2>3 DEF W!Keeps
<1>3. CASE members'[b] # {}
  <2>1. \E q \in Player : where'[q] = b
    BY <1>1, <1>3
  <2>2. UNCHANGED stored
    BY <1>3 DEF FreezeIfEmpty, Empties
  <2> QED BY <2>1, <2>2 DEF W!Keeps
<1> QED BY <1>2, <1>3

LEMMA LeavePlayerDeparts ==
  ASSUME TypeOK, RoomsTyped', MembershipAgrees', NEW p \in Player, Present(p), LeavePlayer(p)
  PROVE  W!Depart(p)
<1>1. where[p] # Nowhere /\ where[p] \in Board
  BY DEF Present, TypeOK, PlayersTyped
<1>2. /\ where' = [where EXCEPT ![p] = Nowhere]
      /\ FreezeIfEmpty(where[p], StatsLeft(where[p], p))
  BY DEF LeavePlayer
<1>3. StatsLeft(where[p], p) \in BoardStats
  BY <1>1, LeftTyped
<1>4. W!Keeps(where[p])
  BY <1>1, <1>2, <1>3, KeepsAfterFreeze DEF TypeOK
<1> QED BY <1>1, <1>2, <1>4 DEF W!Depart

LEMMA TransferPlayerTravels ==
  ASSUME TypeOK, RoomsTyped', MembershipAgrees', NEW p \in Player, NEW to \in Board,
         Present(p), TransferPlayer(p, to)
  PROVE  W!Travel(p, to)
<1>1. where[p] # Nowhere /\ where[p] \in Board
  BY DEF Present, TypeOK, PlayersTyped
<1>2. /\ where' = [where EXCEPT ![p] = to]
      /\ FreezeIfEmpty(where[p], StatsLeft(where[p], p))
  BY DEF TransferPlayer
<1>3. StatsLeft(where[p], p) \in BoardStats
  BY <1>1, LeftTyped
<1>4. W!Keeps(where[p])
  BY <1>1, <1>2, <1>3, KeepsAfterFreeze DEF TypeOK
<1> QED BY <1>1, <1>2, <1>4 DEF W!Travel

LEMMA PanicDrops ==
  ASSUME TypeOK, MembershipAgrees, Panic
  PROVE  \E b \in Board : W!Drop(b)
<1>1. Stepping \in Board
  BY SteppingIsABoard DEF Panic, TypeOK, StepTyped
<1>2. /\ where' = [p \in Player |-> IF p \in members[Stepping] THEN Nowhere ELSE where[p]]
      /\ UNCHANGED stored
  BY DEF Panic, Dropped
<1>3. \A p \in Player : p \in members[Stepping] <=> where[p] = Stepping
  BY <1>1 DEF MembershipAgrees
<1>4. where' = [p \in Player |-> IF where[p] = Stepping THEN Nowhere ELSE where[p]]
  BY <1>2, <1>3
<1> QED BY <1>1, <1>2, <1>4 DEF W!Drop

(* The room manager implements Whereabouts: no action moves a player in a  *)
(* way it does not allow, or replaces what is stored of a board somebody is*)
(* on.                                                                     *)
THEOREM RoomsKeepWhereabouts == Spec => KeepsWhereabouts
<1>1. Init => W!Init
  BY DEF Init, W!Init
<1>2. TypeOK /\ TypeOK' /\ MembershipAgrees /\ MembershipAgrees' /\ [Next]_vars
      => [W!Next]_(W!vars)
  <2> SUFFICES ASSUME TypeOK, TypeOK', MembershipAgrees, MembershipAgrees', [Next]_vars
               PROVE  [W!Next]_(W!vars)
    OBVIOUS
  <2> RoomsTyped'
    BY DEF TypeOK
  <2>1. ASSUME UNCHANGED <<where, stored>> PROVE [W!Next]_(W!vars)
    BY <2>1 DEF W!vars
  <2>2. CASE Connection
    <3>1. ASSUME NEW p \in Player, SubmitQuitReply(p) \/ SubmitScrollReply(p)
          PROVE  [W!Next]_(W!vars)
      BY <3>1, <2>1 DEF SubmitQuitReply, SubmitScrollReply, roomVars, playerVars
    <3>2. ASSUME NEW p \in Player, Leave(p) PROVE [W!Next]_(W!vars)
      BY <3>2, LeavePlayerDeparts DEF Leave, W!Next
    <3>3. ASSUME NEW p \in Player, NEW b \in Board, Join(p, b) PROVE [W!Next]_(W!vars)
      BY <3>3 DEF Join, Present, W!Arrive, W!Next
    <3> QED BY <2>2, <3>1, <3>2, <3>3 DEF Connection
  <2>3. CASE BeginStep \/ RunLabel \/ DrainScrollReply \/ DrainQuitReply \/ BeginTicks
    BY <2>3, <2>1 DEF BeginStep, RunLabel, DrainScrollReply, DrainQuitReply, BeginTicks, roomVars,
                      playerVars
  <2>4. CASE TickTurn
    BY <2>4, <2>1, TicksStay
  <2>5. CASE EndTicks \/ ResolveEvent \/ EndRoom \/ SyncPlayerStatIDs
    BY <2>5, <2>1 DEF EndTicks, ResolveEvent, EndRoom, SyncPlayerStatIDs, roomVars, playerVars
  <2>6. CASE Panic
    BY <2>6, PanicDrops DEF W!Next
  <2>7. CASE ApplyTransfer
    <3> DEFINE t == Head(transfers)
    <3>1. t.player \in Player /\ t.to \in Board
      BY <2>7, HeadOfTransfers DEF ApplyTransfer
    <3>2. CASE Present(t.player)
      <4>1. W!Travel(t.player, t.to)
        BY <2>7, <3>1, <3>2, TransferPlayerTravels DEF ApplyTransfer
      <4> QED BY <3>1, <4>1 DEF W!Next
    <3>3. CASE ~ Present(t.player)
      BY <2>7, <3>3, <2>1 DEF ApplyTransfer, roomVars, playerVars
    <3> QED BY <3>2, <3>3
  <2>8. CASE ApplyQuit
    <3> DEFINE p == Head(quitters)
    <3>1. p \in Player
      BY <2>8 DEF ApplyQuit, TypeOK, StepTyped
    <3>2. CASE Present(p)
      <4>1. W!Depart(p)
        BY <2>8, <3>1, <3>2, LeavePlayerDeparts DEF ApplyQuit
      <4> QED BY <3>1, <4>1 DEF W!Next
    <3>3. CASE ~ Present(p)
      BY <2>8, <3>3, <2>1 DEF ApplyQuit, roomVars, playerVars
    <3> QED BY <3>2, <3>3
  <2>9. CASE UNCHANGED vars
    BY <2>9, <2>1 DEF vars, roomVars, playerVars
  <2> QED BY <2>2, <2>3, <2>4, <2>5, <2>6, <2>7, <2>8, <2>9 DEF Next, RestOfStep
<1> QED BY <1>1, <1>2, TypeInvariant, MembershipInvariant, PTL DEF Spec, KeepsWhereabouts, W!Spec

-----------------------------------------------------------------------------
(* Who a player is: as long as no stat id was used in a room where it had  *)
(* gone stale, every player's state is filed under the stat that is their  *)
(* avatar.                                                                 *)

Here(b) == {p \in Player : where[p] = b}
HeldOn(b) == {state[p] : p \in Here(b)}

StatesOwned ==
  \A p \in Player : Present(p) => state[p] \in Pointer /\ heap[state[p]].owner = p

StatesDistinct ==
  \A p, q \in Player : Present(p) /\ Present(q) /\ state[p] = state[q] => p = q

(* No pointer is filed twice, on one board or on two.                      *)
Apart(tables) ==
  \A b, c \in Board : \A i \in DOMAIN tables[b], j \in DOMAIN tables[c] :
    tables[b][i] = tables[c][j] => b = c /\ i = j

TablesFiled == Apart(table) /\ \A b \in Board : Holds(stats[b], table[b], HeldOn(b))

Faithful == StatesOwned /\ StatesDistinct /\ TablesFiled

(* Between steps the manager's stat ids are where the states are filed;    *)
(* during a step they may be stale, and the states are still filed.        *)
IDsFiled == \A p \in Player : Present(p) => Filed(p, statID[p])

IdentityInv == ~blurred => Faithful /\ (phase = "idle" => IDsFiled)

(* The pointers nothing refers to. *)
Spare == Pointer \ Held

LEMMA SpareIs ==
  /\ \A b \in Board : Range(table[b]) \cap Spare = {}
  /\ \A p \in Player : state[p] \notin Spare
BY DEF Spare, Held

LEMMA UnusedIsSpare ==
  ASSUME NEW tables
  PROVE  /\ Unused(tables) \subseteq Spare
         /\ \A b \in Board : Range(tables[b]) \cap Unused(tables) = {}
         /\ Unused(tables) # {} => Fresh(tables) \in Unused(tables)
<1>1. Unused(tables) # {} => Fresh(tables) \in Unused(tables)
  BY DEF Fresh
<1> QED BY <1>1 DEF Unused, Spare

(* One board's table replaced by one with pointers of its own, or pointers *)
(* no board had.                                                           *)
LEMMA Refiled ==
  ASSUME NEW T, DOMAIN T = Board, Apart(T), NEW b \in Board, NEW t, IsInjective(t),
         NEW spare, Range(t) \subseteq Range(T[b]) \cup spare,
         \A c \in Board : Range(T[c]) \cap spare = {}
  PROVE  Apart([T EXCEPT ![b] = t])
<1> DEFINE U == [T EXCEPT ![b] = t]
<1>1. U[b] = t /\ \A c \in Board : c # b => U[c] = T[c]
  OBVIOUS
<1> HIDE DEF U
<1>2. \A i, j \in DOMAIN t : t[i] = t[j] => i = j
  BY DEF IsInjective
<1>3. ASSUME NEW c \in Board, c # b, NEW i \in DOMAIN t, NEW j \in DOMAIN T[c]
      PROVE  t[i] # T[c][j]
  <2>1. t[i] \in Range(T[b]) \cup spare /\ T[c][j] \in Range(T[c])
    BY DEF Range
  <2>2. CASE t[i] \in spare
    BY <2>1, <2>2
  <2>3. CASE t[i] \in Range(T[b])
    <3>1. PICK k \in DOMAIN T[b] : T[b][k] = t[i]
      BY <2>3 DEF Range
    <3> QED BY <1>3, <3>1 DEF Apart
  <2> QED BY <2>1, <2>2, <2>3
<1> SUFFICES ASSUME NEW c \in Board, NEW d \in Board, NEW i \in DOMAIN U[c], NEW j \in DOMAIN U[d],
                    U[c][i] = U[d][j]
             PROVE  c = d /\ i = j
  BY DEF Apart, U
<1>4. CASE c = b /\ d = b
  BY <1>1, <1>2, <1>4
<1>5. CASE c = b /\ d # b
  BY <1>1, <1>3, <1>5
<1>6. CASE c # b /\ d = b
  BY <1>1, <1>3, <1>6
<1>7. CASE c # b /\ d # b
  BY <1>1, <1>7 DEF Apart
<1> QED BY <1>4, <1>5, <1>6, <1>7

LEMMA TableInjective ==
  ASSUME TablesFiled, NEW b \in Board
  PROVE  IsInjective(table[b])
BY DEF TablesFiled, Apart, IsInjective

(* Looking players up leaves what is filed where it is, and adds pointers  *)
(* nothing refers to.                                                      *)
LEMMA LookedUpFiled ==
  ASSUME NEW t, IsInjective(t), NEW ids, NEW tables, News(t, ids, tables) # {},
         Range(t) \cap Unused(tables) = {}
  PROVE  LET u == PlayerForAll(t, ids, tables)
         IN  /\ IsInjective(u) /\ Range(u) \subseteq Range(t) \cup Unused(tables)
             /\ DOMAIN u = DOMAIN t \cup ids /\ \A k \in DOMAIN t : u[k] = t[k]
<1> DEFINE u == PlayerForAll(t, ids, tables)
<1>1. /\ DOMAIN u = DOMAIN t \cup ids
      /\ \A i \in DOMAIN t : u[i] = t[i]
      /\ \A i \in ids \ DOMAIN t : u[i] \in Unused(tables)
      /\ \A i, j \in ids \ DOMAIN t : u[i] = u[j] => i = j
  BY PlayerForAllIs, Zenon
<1> HIDE DEF u
<1>2. \A i, j \in DOMAIN t : t[i] = t[j] => i = j
  BY DEF IsInjective
<1>3. \A i \in DOMAIN t : t[i] \notin Unused(tables)
  BY DEF Range
<1>4. IsInjective(u)
  <2> SUFFICES ASSUME NEW i \in DOMAIN u, NEW j \in DOMAIN u, u[i] = u[j] PROVE i = j
    BY DEF IsInjective
  <2>1. CASE i \in DOMAIN t /\ j \in DOMAIN t
    BY <1>1, <1>2, <2>1
  <2>2. CASE i \notin DOMAIN t /\ j \notin DOMAIN t
    BY <1>1, <2>2
  <2>3. CASE (i \in DOMAIN t) # (j \in DOMAIN t)
    BY <1>1, <1>3, <2>3
  <2> QED BY <2>1, <2>2, <2>3
<1>5. Range(u) \subseteq Range(t) \cup Unused(tables)
  BY <1>1 DEF Range
<1> QED BY <1>1, <1>4, <1>5 DEF u

(* A state filed on another board is not one of this board's, nor spare.   *)
LEMMA NotOthers ==
  ASSUME TypeOK, TablesFiled, NEW b \in Board, NEW y \in Range(table[b]) \cup Spare,
         NEW q \in Player, Present(q), where[q] # b
  PROVE  y # state[q]
<1>1. where[q] \in Board /\ state[q] \in HeldOn(where[q])
  BY DEF Present, TypeOK, PlayersTyped, HeldOn, Here
<1>2. PICK i \in DOMAIN table[where[q]] : table[where[q]][i] = state[q]
  BY <1>1 DEF TablesFiled, Holds
<1>3. CASE y \in Spare
  BY <1>3, SpareIs
<1>4. CASE y \in Range(table[b])
  <2>1. PICK j \in DOMAIN table[b] : table[b][j] = y
    BY <1>4 DEF Range
  <2>2. \A d \in Board : \A k \in DOMAIN table[d], m \in DOMAIN table[b] :
          table[d][k] = table[b][m] => d = b
    BY DEF TablesFiled, Apart
  <2>3. table[where[q]][i] # table[b][j]
    BY <1>1, <1>2, <2>1, <2>2
  <2> QED BY <1>2, <2>1, <2>3
<1> QED BY <1>3, <1>4

(* What somebody holds is not collected.                                   *)
LEMMA KeptOnCollecting ==
  ASSUME NEW h, NEW p \in Player, state'[p] \in Pointer
  PROVE  Collected(h)[state'[p]] = h[state'[p]]
<1>1. state'[p] \in {state'[q] : q \in Player}
  OBVIOUS
<1>2. {state'[q] : q \in Player} \subseteq Held'
  BY DEF Held
<1> QED BY <1>1, <1>2 DEF Collected

(* A new arrival's stat is an avatar, and the state found or filed there   *)
(* is nobody's.                                                            *)
Housed(list, t, held, x, s) ==
  /\ s.id \in DOMAIN s.table \cap Showing(s.stats, "player")
  /\ s.table[s.id] \notin held /\ s.table[s.id] \in Range(t) \cup {x}
  /\ IsInjective(s.table) /\ Range(s.table) \subseteq Range(t) \cup {x}
  /\ Holds(s.stats, s.table, held \cup {s.table[s.id]})
  /\ \A k \in DOMAIN t : k \in DOMAIN s.table /\ s.table[k] = t[k]
  /\ Showing(list, "player") \subseteq Showing(s.stats, "player")

LEMMA SpawnFiled ==
  ASSUME NEW list \in BoardStats, NEW t, DOMAIN t \subseteq Int, IsInjective(t), NEW held,
         Holds(list, t, held), NEW empty \in BOOLEAN, empty => held = {},
         NEW x, x \notin Range(t), x \notin held, ~Spawn(list, t, empty, x).full
  PROVE  Housed(list, t, held, x, Spawn(list, t, empty, x))
<1> DEFINE claimable == Showing(list, "player")
           claims    == empty /\ claimable # {}
           full      == ~claims /\ Len(list) >= MAX_STAT
           list2     == IF claims \/ full THEN list ELSE Append(list, "player")
           id        == IF claims THEN Min(claimable) ELSE Len(list2)
           new       == PlayerFor(t, id, x)
           s         == Spawn(list, t, empty, x)
<1>1. /\ s.stats = list2 /\ s.id = id /\ s.table = new /\ s.full = full
  BY DEF Spawn
<1>2. list \in Seq(Element) /\ ~full
  BY <1>1 DEF BoardStats
<1>3. /\ id \in Showing(list2, "player")
      /\ held # {} => id \notin Showing(list, "player")
      /\ Showing(list, "player") \subseteq Showing(list2, "player")
  <2>1. CASE claims
    <3>1. claimable \subseteq Nat
      BY <1>2 DEF Showing
    <3>2. Min(claimable) \in claimable
      BY <2>1, <3>1, MinIsLeast
    <3> QED BY <2>1, <3>2
  <2>2. CASE ~claims
    <3>1. list2 = Append(list, "player") /\ id = Len(list) + 1
      BY <1>2, <2>2
    <3> HIDE DEF list2, id
    <3>2. /\ DOMAIN Append(list, "player") = 1 .. Len(list) + 1
          /\ Append(list, "player")[Len(list) + 1] = "player"
          /\ \A j \in 1 .. Len(list) : Append(list, "player")[j] = list[j]
      BY <1>2 DEF Element
    <3>3. DOMAIN list = 1 .. Len(list) /\ Len(list) \in Nat
      BY <1>2
    <3>4. Len(list) + 1 \in 1 .. Len(list) + 1 /\ Len(list) + 1 \notin DOMAIN list
      BY <3>3
    <3> QED BY <3>1, <3>2, <3>3, <3>4 DEF Showing
  <2> QED BY <2>1, <2>2
<1>4. /\ DOMAIN new = DOMAIN t \cup {id} /\ \A k \in DOMAIN t : new[k] = t[k]
      /\ id \notin DOMAIN t => new[id] = x
  BY DEF PlayerFor
<1> HIDE DEF list2, id, full, claims, new
<1>5. Range(new) \subseteq Range(t) \cup {x} /\ new[id] \in Range(new)
  BY <1>4 DEF Range
<1>6. \A m, n \in DOMAIN t : t[m] = t[n] => m = n
  BY DEF IsInjective
<1>7. new[id] \notin held
  <2>1. CASE id \notin DOMAIN t
    BY <1>4, <2>1
  <2>2. CASE id \in DOMAIN t
    <3> SUFFICES ASSUME t[id] \in held PROVE FALSE
      BY <1>4, <2>2
    <3>1. PICK i \in DOMAIN t \cap Showing(list, "player") : t[i] = t[id]
      BY DEF Holds
    <3>2. i = id
      BY <1>6, <2>2, <3>1
    <3> QED BY <1>3, <3>1, <3>2
  <2> QED BY <2>1, <2>2
<1>8. IsInjective(new)
  <2> SUFFICES ASSUME NEW j \in DOMAIN new, NEW k \in DOMAIN new, new[j] = new[k] PROVE j = k
    BY DEF IsInjective
  <2>1. \A m \in DOMAIN t : t[m] # x
    BY DEF Range
  <2> QED BY <1>4, <1>6, <2>1
<1>9. Holds(list2, new, held \cup {new[id]})
  <2> SUFFICES ASSUME NEW y \in held \cup {new[id]}
               PROVE  \E i \in DOMAIN new \cap Showing(list2, "player") : new[i] = y
    BY DEF Holds
  <2>1. CASE y = new[id]
    BY <1>3, <1>4, <2>1
  <2>2. CASE y \in held
    <3>1. PICK i \in DOMAIN t \cap Showing(list, "player") : t[i] = y
      BY <2>2 DEF Holds
    <3> QED BY <1>3, <1>4, <3>1
  <2> QED BY <2>1, <2>2
<1> HIDE DEF s
<1> SUFFICES Housed(list, t, held, x, s)
  BY DEF s
<1> QED BY <1>1, <1>3, <1>4, <1>5, <1>7, <1>8, <1>9 DEF Housed

(* Where the stat ids are in step, a departure takes away one entry and    *)
(* moves the ids of those above with theirs; no state changes hands.       *)
LEMMA LeftFiled ==
  ASSUME TypeOK, Faithful, NEW p \in Player, NEW b \in Board, where[p] = b, InStep(b)
  PROVE  /\ IsInjective(TableLeft(b, p)) /\ Range(TableLeft(b, p)) \subseteq Range(table[b])
         /\ DOMAIN TableLeft(b, p) \subseteq Int
         /\ Holds(StatsLeft(b, p), TableLeft(b, p), {state[q] : q \in Here(b) \ {p}})
         /\ \A q \in Player : Restated(b, p, TableLeft(b, p))[q] = state[q]
         /\ \A q \in Here(b) \ {p} :
              /\ Reindexed(b, p, statID)[q] \in DOMAIN TableLeft(b, p)
                                                \cap Showing(StatsLeft(b, p), "player")
              /\ TableLeft(b, p)[Reindexed(b, p, statID)[q]] = state[q]
<1> DEFINE i    == statID[p]
           list == stats[b]
           t    == table[b]
           short == StatsWithout(list, i)
           tw   == TableWithout(t, i)
           ids  == MovedTo(b, p)
<1>1. list \in Seq(Element) /\ DOMAIN t \subseteq Int /\ IsInjective(t)
  BY TableInjective DEF TypeOK, RoomsTyped, BoardStats, IsTable, Faithful
<1>2. /\ \A q \in Here(b) : /\ statID[q] \in DOMAIN t \cap Showing(list, "player")
                            /\ t[statID[q]] = state[q]
      /\ p \in Here(b)
  BY DEF InStep, Here
<1>3. i \in 1 .. Len(list) /\ i \in DOMAIN stats[b] /\ t[i] = state[p]
  BY <1>1, <1>2 DEF Showing
<1>4. ASSUME NEW q \in Here(b) \ {p} PROVE statID[q] # i
  <2>1. Present(p) /\ Present(q) /\ q \in Player /\ q \in Here(b) /\ q # p
    BY <1>2, <1>4 DEF Here, Present, BoardAssumption
  <2>2. state[q] # state[p]
    BY <2>1 DEF Faithful, StatesDistinct
  <2> QED BY <1>2, <1>3, <2>1, <2>2
<1>5. /\ StatsLeft(b, p) = short /\ TableKept(b, p) = tw
      /\ TableLeft(b, p) = PlayerForAll(tw, ids, table)
  BY <1>3 DEF StatsLeft, TableKept, TableLeft
<1>6. Above(b, p) \subseteq Here(b) \ {p} /\ \A q \in Above(b, p) : statID[q] > i
  BY DEF Above, Here
<1>7. ids = {statID[q] - 1 : q \in Above(b, p)}
  BY DEF MovedTo
<1>8. \A q \in Player : q \in Here(b) \ {p} /\ statID[q] > i => q \in Above(b, p)
  BY DEF Above, Here
<1> HIDE DEF i, list, t, short, tw, ids
<1>9. /\ IsInjective(tw) /\ Range(tw) \subseteq Range(t)
      /\ \A k \in DOMAIN t : k # i =>
           LET j == IF k < i THEN k ELSE k - 1
           IN  /\ j \in DOMAIN tw /\ tw[j] = t[k]
               /\ k \in Showing(list, "player") => j \in Showing(short, "player")
  BY <1>1, <1>3, FiledWithout DEF short, tw
<1>10. DOMAIN tw \subseteq Int
  BY <1>1, <1>3, TableWithoutRange DEF tw
<1>11. ASSUME NEW q \in Here(b) \ {p}
       PROVE  LET j == IF q \in Above(b, p) THEN statID[q] - 1 ELSE statID[q]
              IN  j \in DOMAIN tw \cap Showing(short, "player") /\ tw[j] = state[q]
  <2>1. /\ q \in Player /\ statID[q] \in DOMAIN t /\ statID[q] \in Showing(list, "player")
        /\ t[statID[q]] = state[q] /\ statID[q] # i
    BY <1>2, <1>4 DEF Here
  <2>2. statID[q] \in Int /\ i \in Int
    BY <1>1, <1>3, <2>1
  <2>3. CASE q \in Above(b, p)
    <3>1. ~(statID[q] < i)
      BY <1>6, <2>2, <2>3
    <3> QED BY <1>9, <2>1, <2>3, <3>1
  <2>4. CASE q \notin Above(b, p)
    <3>1. statID[q] < i
      BY <1>8, <1>11, <2>1, <2>2, <2>4
    <3> QED BY <1>9, <2>1, <2>4, <3>1
  <2> QED BY <2>3, <2>4
<1>12. PlayerForAll(tw, ids, table) = tw
  <2>1. ids \subseteq DOMAIN tw
    BY <1>6, <1>7, <1>11
  <2>2. tw = [j \in DOMAIN tw |-> tw[j]]
    BY DEF tw, TableWithout
  <2> QED BY <2>1, <2>2 DEF PlayerForAll
<1>13. \A q \in Player : Restated(b, p, tw)[q] = state[q]
  BY <1>6, <1>11 DEF Restated
<1>14. \A q \in Here(b) \ {p} :
         /\ Reindexed(b, p, statID)[q] \in DOMAIN tw \cap Showing(short, "player")
         /\ tw[Reindexed(b, p, statID)[q]] = state[q]
  <2>1. \A q \in Here(b) : Reindexed(b, p, statID)[q] =
                             IF q \in Above(b, p) THEN statID[q] - 1 ELSE statID[q]
    BY DEF Reindexed, Here
  <2> QED BY <1>11, <2>1
<1>15. Holds(short, tw, {state[q] : q \in Here(b) \ {p}})
  BY <1>11 DEF Holds
<1>16. TableLeft(b, p) = tw
  BY <1>5, <1>12
<1> QED BY <1>5, <1>9, <1>10, <1>13, <1>14, <1>15, <1>16 DEF t

LEMMA LeaveKeepsFaith ==
  ASSUME TypeOK, MembershipAgrees, Faithful, NEW p \in Player, Present(p), LeavePlayer(p),
         InStep(where[p])
  PROVE  /\ Faithful'
         /\ IDsFiled => IDsFiled'
<1> DEFINE b     == where[p]
           left  == [members EXCEPT ![b] = @ \ {p}]
           list  == StatsLeft(b, p)
           t     == TableLeft(b, p)
           empty == Empties(left, b)
<1>1. /\ b \in Board /\ members \in [Board -> SUBSET Player]
      /\ stats \in [Board -> BoardStats] /\ DOMAIN table = Board
      /\ where \in [Player -> Board \cup {Nowhere}] /\ statID \in [Player -> Int]
      /\ state \in [Player -> Pointer \cup {Null}]
  BY DEF TypeOK, RoomsTyped, PlayersTyped, Present
<1>2. /\ stats' = [stats EXCEPT ![b] = IF empty THEN <<>> ELSE list]
      /\ table' = [table EXCEPT ![b] = IF empty THEN EmptyTable ELSE t]
      /\ where' = [where EXCEPT ![p] = Nowhere]
      /\ statID' = [Reindexed(b, p, statID) EXCEPT ![p] = 0]
      /\ state' = [Restated(b, p, t) EXCEPT ![p] = Null]
      /\ heap' = Collected(heap)
  BY DEF LeavePlayer
<1>3. /\ IsInjective(t) /\ Range(t) \subseteq Range(table[b])
      /\ Holds(list, t, {state[q] : q \in Here(b) \ {p}})
      /\ \A q \in Player : Restated(b, p, t)[q] = state[q]
      /\ \A q \in Here(b) \ {p} :
           /\ Reindexed(b, p, statID)[q] \in DOMAIN t \cap Showing(list, "player")
           /\ t[Reindexed(b, p, statID)[q]] = state[q]
  BY <1>1, LeftFiled
<1>4. empty => Here(b) \ {p} = {}
  <2>1. \A q \in Player : q \in members[b] <=> where[q] = b
    BY <1>1 DEF MembershipAgrees
  <2>2. left[b] = members[b] \ {p}
    BY <1>1
  <2> QED BY <2>1, <2>2 DEF Empties, Here
<1> HIDE DEF b, left, list, t, empty
<1>5. /\ \A q \in Player : where'[q] = IF q = p THEN Nowhere ELSE where[q]
      /\ \A q \in Player : state'[q] = IF q = p THEN Null ELSE state[q]
  <2>1. DOMAIN Restated(b, p, t) = Player
    BY DEF Restated
  <2> QED BY <1>1, <1>2, <1>3, <2>1
<1>6. \A q \in Player : Present(q)' <=> Present(q) /\ q # p
  BY <1>5 DEF Present
<1>7. StatesOwned'
  <2> SUFFICES ASSUME NEW q \in Player, Present(q)'
               PROVE  state'[q] \in Pointer /\ heap'[state'[q]].owner = q
    BY DEF StatesOwned
  <2>1. state'[q] = state[q] /\ state[q] \in Pointer /\ heap[state[q]].owner = q
    BY <1>5, <1>6 DEF Faithful, StatesOwned
  <2>2. heap'[state'[q]] = heap[state'[q]]
    BY <1>2, <2>1, KeptOnCollecting
  <2> QED BY <2>1, <2>2
<1>8. StatesDistinct'
  BY <1>5, <1>6 DEF Faithful, StatesDistinct
<1>9. \A c \in Board : HeldOn(c)' =
        IF c = b THEN {state[q] : q \in Here(b) \ {p}} ELSE {state[q] : q \in Here(c)}
  <2> TAKE c \in Board
  <2>1. Here(c)' = IF c = b THEN Here(b) \ {p} ELSE Here(c)
    BY <1>1, <1>5 DEF Here, b
  <2>2. \A q \in Here(c)' : state'[q] = state[q]
    BY <1>1, <1>5 DEF Here
  <2>3. HeldOn(c)' = {state'[q] : q \in Here(c)'}
    BY DEF HeldOn
  <2> QED BY <2>1, <2>2, <2>3
<1>10. TablesFiled'
  <2>1. Apart(table')
    <3> DEFINE u == IF empty THEN EmptyTable ELSE t
    <3>1. IsInjective(u) /\ Range(u) \subseteq Range(table[b]) \cup {}
      BY <1>3 DEF IsInjective, EmptyTable, Range
    <3>2. table' = [table EXCEPT ![b] = u] /\ Apart(table) /\ DOMAIN table = Board
      BY <1>1, <1>2 DEF Faithful, TablesFiled
    <3> HIDE DEF u
    <3> DEFINE none == {}
    <3>3. Range(u) \subseteq Range(table[b]) \cup none /\ \A c \in Board : Range(table[c]) \cap none = {}
      BY <3>1
    <3> HIDE DEF none
    <3>4. Apart([table EXCEPT ![b] = u])
      BY <1>1, <3>1, <3>2, <3>3, Refiled, Zenon
    <3> QED BY <3>2, <3>4
  <2>2. ASSUME NEW c \in Board PROVE Holds(stats'[c], table'[c], HeldOn(c)')
    <3>1. CASE c # b
      <4>1. stats'[c] = stats[c] /\ table'[c] = table[c]
        BY <1>1, <1>2, <3>1
      <4>2. HeldOn(c)' = HeldOn(c)
        BY <1>9, <3>1 DEF HeldOn
      <4> QED BY <4>1, <4>2 DEF Faithful, TablesFiled
    <3>2. CASE c = b /\ ~empty
      <4>1. stats'[c] = list /\ table'[c] = t
        BY <1>1, <1>2, <3>2
      <4> QED BY <1>3, <1>9, <3>2, <4>1
    <3>3. CASE c = b /\ empty
      BY <1>4, <1>9, <3>3 DEF Holds
    <3> QED BY <3>1, <3>2, <3>3
  <2> QED BY <2>1, <2>2 DEF TablesFiled, Apart
<1>11. ASSUME IDsFiled PROVE IDsFiled'
  <2> SUFFICES ASSUME NEW q \in Player, Present(q)' PROVE Filed(q, statID[q])'
    BY DEF IDsFiled
  <2>1. q # p /\ Present(q) /\ Filed(q, statID[q]) /\ where'[q] = where[q] /\ state'[q] = state[q]
    BY <1>5, <1>6, <1>11 DEF IDsFiled
  <2>2. statID'[q] = Reindexed(b, p, statID)[q]
    BY <1>2, <2>1 DEF Reindexed
  <2>3. CASE where[q] = b
    <3>1. q \in Here(b) \ {p} /\ ~empty
      BY <1>4, <2>1, <2>3 DEF Here
    <3>2. stats'[b] = list /\ table'[b] = t
      BY <1>1, <1>2, <3>1
    <3> QED BY <1>3, <2>1, <2>2, <2>3, <3>1, <3>2 DEF Filed
  <2>4. CASE where[q] # b
    <3>1. statID'[q] = statID[q]
      BY <2>1, <2>2, <2>4 DEF Reindexed, Above
    <3>2. stats'[where[q]] = stats[where[q]] /\ table'[where[q]] = table[where[q]]
      BY <1>1, <1>2, <2>1, <2>4 DEF Present
    <3> QED BY <2>1, <3>1, <3>2 DEF Filed
  <2> QED BY <2>3, <2>4
<1> QED BY <1>7, <1>8, <1>10, <1>11 DEF Faithful

LEMMA OpenedHolds ==
  ASSUME TypeOK, MembershipAgrees, TablesFiled, NEW b \in Board
  PROVE  /\ Opened(b) \in BoardStats /\ Holds(Opened(b), table[b], HeldOn(b))
         /\ members[b] = {} => HeldOn(b) = {}
<1>1. Opened(b) \in BoardStats
  BY DEF Opened, TypeOK, RoomsTyped
<1>2. ASSUME members[b] = {} PROVE HeldOn(b) = {}
  <2>1. \A q \in Player : q \in members[b] <=> where[q] = b
    BY DEF MembershipAgrees
  <2>2. Here(b) = {}
    BY <1>2, <2>1 DEF Here
  <2> QED BY <2>2 DEF HeldOn
<1>3. b \notin live => members[b] = {}
  BY DEF MembershipAgrees
<1>4. Holds(Opened(b), table[b], HeldOn(b))
  BY <1>2, <1>3 DEF Opened, TablesFiled, Holds
<1> QED BY <1>1, <1>2, <1>4

LEMMA JoinKeepsFaith ==
  ASSUME TypeOK, MembershipAgrees, Faithful, IDsFiled, NEW p \in Player, NEW b \in Board,
         Join(p, b), ~blurred'
  PROVE  Faithful' /\ IDsFiled'
<1>1. PICK ids \in Arrivals(b) :
        LET opened == PlayerForAll(table[b], ids, table)
            opens  == [table EXCEPT ![b] = opened]
            s == Spawn(Opened(b), opened, members[b] = {}, Fresh(opens))
            x == s.table[s.id]
        IN  /\ News(table[b], ids, table) # {} /\ Unused(opens) # {}
            /\ stats' = [stats EXCEPT ![b] = s.stats]
            /\ table' = [table EXCEPT ![b] = s.table]
            /\ statID' = [statID EXCEPT ![p] = s.id]
            /\ state' = [state EXCEPT ![p] = x]
            /\ heap' = [heap EXCEPT ![x] = [owner |-> p, reenter |-> b]]
            /\ blurred' = (blurred \/ s.full)
            /\ UNCHANGED spent
  BY DEF Join
<1> DEFINE opened == PlayerForAll(table[b], ids, table)
           opens  == [table EXCEPT ![b] = opened]
           first  == members[b] = {}
           f      == Fresh(opens)
           list   == Opened(b)
           held   == HeldOn(b)
           s      == Spawn(list, opened, first, f)
           x      == s.table[s.id]
<1>2. /\ stats \in [Board -> BoardStats] /\ DOMAIN table = Board
      /\ where \in [Player -> Board \cup {Nowhere}] /\ statID \in [Player -> Int]
      /\ state \in [Player -> Pointer \cup {Null}] /\ DOMAIN heap = Pointer
      /\ IsTable(table[b])
  BY DEF TypeOK, RoomsTyped, PlayersTyped
<1>3. /\ list \in BoardStats /\ Holds(list, table[b], held) /\ (first => held = {})
      /\ first \in BOOLEAN
  BY OpenedHolds DEF Faithful
<1>4. ~s.full /\ where[p] = Nowhere
  BY <1>1 DEF Join, Present
<1>5. /\ IsInjective(opened) /\ Range(opened) \subseteq Range(table[b]) \cup Spare
      /\ DOMAIN opened \subseteq Int
      /\ \A k \in DOMAIN table[b] : k \in DOMAIN opened /\ opened[k] = table[b][k]
  <2>1. Range(table[b]) \cap Unused(table) = {} /\ Unused(table) \subseteq Spare
    BY UnusedIsSpare
  <2>2. IsInjective(table[b]) /\ News(table[b], ids, table) # {}
    BY <1>1, TableInjective DEF Faithful
  <2>3. ids \in SUBSET Int
    BY ArrivalsAreIds
  <2>4. DOMAIN opened \subseteq Int
    BY <1>2, <2>2, <2>3, PlayerForAllTyped DEF IsTable
  <2>5. /\ IsInjective(opened) /\ Range(opened) \subseteq Range(table[b]) \cup Unused(table)
        /\ DOMAIN opened = DOMAIN table[b] \cup ids
        /\ \A k \in DOMAIN table[b] : opened[k] = table[b][k]
    BY <2>1, <2>2, LookedUpFiled, Zenon
  <2> QED BY <2>1, <2>4, <2>5
<1>6. f \in Spare /\ f \notin Range(opened) /\ f \notin held
  <2>1. /\ Unused(opens) \subseteq Spare /\ Fresh(opens) \in Unused(opens)
        /\ Range(opens[b]) \cap Unused(opens) = {}
    <3>1. Unused(opens) # {}
      BY <1>1
    <3> HIDE DEF opens
    <3> QED BY <3>1, UnusedIsSpare
  <2>2. opens[b] = opened
    BY <1>2
  <2> HIDE DEF opens, opened
  <2> QED BY <2>1, <2>2, SpareIs DEF HeldOn, Here
<1>7. Holds(list, opened, held)
  BY <1>3, <1>5 DEF Holds
<1>8. /\ stats' = [stats EXCEPT ![b] = s.stats]
      /\ table' = [table EXCEPT ![b] = s.table]
      /\ statID' = [statID EXCEPT ![p] = s.id]
      /\ state' = [state EXCEPT ![p] = x]
      /\ heap' = [heap EXCEPT ![x] = [owner |-> p, reenter |-> b]]
      /\ where' = [where EXCEPT ![p] = b]
  BY <1>1 DEF Join
<1>9. s = Spawn(list, opened, first, f)
  OBVIOUS
<1> HIDE DEF opened, opens, first, f, list, s, held, x
<1>10. /\ s.id \in DOMAIN s.table \cap Showing(s.stats, "player")
       /\ x \notin held /\ x \in Range(opened) \cup {f}
       /\ IsInjective(s.table) /\ Range(s.table) \subseteq Range(opened) \cup {f}
       /\ Holds(s.stats, s.table, held \cup {x})
       /\ \A k \in DOMAIN opened : k \in DOMAIN s.table /\ s.table[k] = opened[k]
       /\ Showing(list, "player") \subseteq Showing(s.stats, "player")
  <2>1. Housed(list, opened, held, f, s)
    BY <1>3, <1>4, <1>5, <1>6, <1>7, <1>9, SpawnFiled
  <2> QED BY <2>1 DEF x, Housed
<1>11. x \in Range(table[b]) \cup Spare /\ x \in Pointer
  <2>1. x \in Range(table[b]) \cup Spare
    BY <1>5, <1>6, <1>10
  <2> QED BY <1>2, <2>1 DEF IsTable, Spare
<1>12. \A q \in Player : Present(q) => x # state[q]
  <2> SUFFICES ASSUME NEW q \in Player, Present(q) PROVE x # state[q]
    OBVIOUS
  <2>1. CASE where[q] = b
    BY <1>10, <2>1 DEF held, HeldOn, Here
  <2>2. CASE where[q] # b
    BY <1>11, <2>2, NotOthers DEF Faithful
  <2> QED BY <2>1, <2>2
<1>13. /\ \A q \in Player : where'[q] = IF q = p THEN b ELSE where[q]
       /\ \A q \in Player : state'[q] = IF q = p THEN x ELSE state[q]
       /\ \A q \in Player : statID'[q] = IF q = p THEN s.id ELSE statID[q]
  BY <1>2, <1>8
<1>14. \A q \in Player : Present(q)' <=> Present(q) \/ q = p
  BY <1>13 DEF Present
<1>15. StatesOwned'
  <2> SUFFICES ASSUME NEW q \in Player, Present(q)'
               PROVE  state'[q] \in Pointer /\ heap'[state'[q]].owner = q
    BY DEF StatesOwned
  <2>1. CASE q = p
    <3>1. heap'[x] = [owner |-> p, reenter |-> b]
      BY <1>2, <1>8, <1>11
    <3> QED BY <1>11, <1>13, <2>1, <3>1
  <2>2. CASE q # p
    <3>1. Present(q) /\ state'[q] = state[q] /\ state[q] \in Pointer /\ heap[state[q]].owner = q
      BY <1>13, <1>14, <2>2 DEF Faithful, StatesOwned
    <3>2. heap'[state[q]] = heap[state[q]]
      BY <1>2, <1>8, <1>12, <3>1
    <3> QED BY <3>1, <3>2
  <2> QED BY <2>1, <2>2
<1>16. StatesDistinct'
  BY <1>12, <1>13, <1>14 DEF Faithful, StatesDistinct
<1>17. stats'[b] = s.stats /\ table'[b] = s.table
       /\ \A c \in Board : c # b => stats'[c] = stats[c] /\ table'[c] = table[c]
  BY <1>2, <1>8
<1>18. TablesFiled'
  <2>1. Apart(table')
    <3> DEFINE u == s.table
    <3>1. IsInjective(u) /\ Range(u) \subseteq Range(table[b]) \cup Spare
      BY <1>5, <1>6, <1>10
    <3>2. table' = [table EXCEPT ![b] = u] /\ Apart(table) /\ DOMAIN table = Board
      BY <1>2, <1>8 DEF Faithful, TablesFiled
    <3> HIDE DEF u
    <3>3. Apart([table EXCEPT ![b] = u])
      BY <3>1, <3>2, SpareIs, Refiled
    <3> QED BY <3>2, <3>3
  <2>2. ASSUME NEW c \in Board PROVE Holds(stats'[c], table'[c], HeldOn(c)')
    <3>1. Here(c)' = IF c = b THEN Here(b) \cup {p} ELSE Here(c)
      BY <1>4, <1>13 DEF Here
    <3>2. p \notin Here(c) /\ \A q \in Here(c) : state'[q] = state[q]
      BY <1>4, <1>13 DEF Here
    <3>3. HeldOn(c)' = IF c = b THEN held \cup {x} ELSE HeldOn(c)
      BY <1>13, <3>1, <3>2 DEF HeldOn, held
    <3> QED BY <1>10, <1>17, <3>3 DEF Faithful, TablesFiled
  <2> QED BY <2>1, <2>2 DEF TablesFiled, Apart
<1>19. IDsFiled'
  <2> SUFFICES ASSUME NEW q \in Player, Present(q)' PROVE Filed(q, statID[q])'
    BY DEF IDsFiled
  <2>1. CASE q = p
    BY <1>10, <1>13, <1>17, <2>1 DEF Filed, x
  <2>2. CASE q # p
    <3>1. Present(q) /\ where'[q] = where[q] /\ state'[q] = state[q] /\ statID'[q] = statID[q]
          /\ where[q] \in Board
      BY <1>2, <1>13, <1>14, <2>2 DEF Present
    <3>2. statID[q] \in DOMAIN table[where[q]] /\ table[where[q]][statID[q]] = state[q]
          /\ statID[q] \in Showing(stats[where[q]], "player")
      BY <3>1 DEF IDsFiled, Filed
    <3>3. CASE where[q] = b
      <4>1. list = stats[b]
        <5>1. q \in members[b]
          BY <3>1, <3>3 DEF MembershipAgrees
        <5> QED BY <5>1 DEF MembershipAgrees, list, Opened
      <4> QED BY <1>5, <1>10, <1>17, <3>1, <3>2, <3>3, <4>1 DEF Filed
    <3>4. CASE where[q] # b
      <4>1. stats'[where[q]] = stats[where[q]] /\ table'[where[q]] = table[where[q]]
        BY <1>17, <3>1, <3>4
      <4> QED BY <3>1, <3>2, <4>1 DEF Filed
    <3> QED BY <3>3, <3>4
  <2> QED BY <2>1, <2>2
<1> QED BY <1>15, <1>16, <1>18, <1>19 DEF Faithful

LEMMA TransferKeepsFaith ==
  ASSUME TypeOK, MembershipAgrees, Faithful, NEW p \in Player, Present(p), NEW to \in Board,
         TransferPlayer(p, to), ~blurred'
  PROVE  Faithful'
<1> DEFINE b     == where[p]
           left  == [members EXCEPT ![b] = @ \ {p}]
           after == [left EXCEPT ![to] = @ \cup {p}]
           list  == StatsLeft(b, p)
           t     == TableLeft(b, p)
           tabs  == [table EXCEPT ![b] = t]
           found == statID[p] \in DOMAIN table[b]
           copy  == IF found THEN heap[table[b][statID[p]]] ELSE Blank
           empty == Empties(after, b)
           onto  == IF to = b THEN list ELSE Opened(to)
           first == left[to] = {}
           held  == {state[q] : q \in Here(to) \ {p}}
<1>1. PICK ids \in Arrivals(to) :
        LET opened == PlayerForAll(tabs[to], ids, tabs)
            opens  == [tabs EXCEPT ![to] = opened]
            s == Spawn(onto, opened, first, Fresh(opens))
            x == s.table[s.id]
        IN  /\ News(tabs[to], ids, tabs) # {} /\ Unused(opens) # {}
            /\ stats' = [stats EXCEPT ![b] = IF empty THEN <<>> ELSE list, ![to] = s.stats]
            /\ table' = [table EXCEPT ![b] = IF empty THEN EmptyTable ELSE t, ![to] = s.table]
            /\ where' = [where EXCEPT ![p] = to]
            /\ state' = [Restated(b, p, t) EXCEPT ![p] = x]
            /\ heap' = Collected([heap EXCEPT ![x] = copy])
            /\ blurred' = (blurred \/ ~InStep(b) \/ s.full)
  BY DEF TransferPlayer
<1> DEFINE opened == PlayerForAll(tabs[to], ids, tabs)
           opens  == [tabs EXCEPT ![to] = opened]
           f      == Fresh(opens)
           s      == Spawn(onto, opened, first, f)
           x      == s.table[s.id]
<1>2. /\ b \in Board /\ members \in [Board -> SUBSET Player]
      /\ stats \in [Board -> BoardStats] /\ DOMAIN table = Board
      /\ where \in [Player -> Board \cup {Nowhere}]
      /\ state \in [Player -> Pointer \cup {Null}] /\ DOMAIN heap = Pointer
      /\ \A c \in Board : IsTable(table[c])
  BY DEF TypeOK, RoomsTyped, PlayersTyped, Present
<1>3. InStep(b) /\ ~s.full
  BY <1>1
<1>4. /\ IsInjective(t) /\ Range(t) \subseteq Range(table[b]) /\ DOMAIN t \subseteq Int
      /\ Holds(list, t, {state[q] : q \in Here(b) \ {p}})
      /\ \A q \in Player : Restated(b, p, t)[q] = state[q]
  BY <1>2, <1>3, LeftFiled
<1>5. list \in BoardStats /\ first \in BOOLEAN
  BY <1>2, LeftTyped
<1>6. copy.owner = p
  <2>1. found /\ table[b][statID[p]] = state[p]
    BY <1>3 DEF InStep
  <2> QED BY <2>1 DEF Faithful, StatesOwned
<1>7. \A q \in Player, c \in Board : q \in members[c] <=> where[q] = c
  BY DEF MembershipAgrees
<1>8. /\ stats' = [stats EXCEPT ![b] = IF empty THEN <<>> ELSE list, ![to] = s.stats]
      /\ table' = [table EXCEPT ![b] = IF empty THEN EmptyTable ELSE t, ![to] = s.table]
      /\ where' = [where EXCEPT ![p] = to]
      /\ state' = [Restated(b, p, t) EXCEPT ![p] = x]
      /\ heap' = Collected([heap EXCEPT ![x] = copy])
  BY <1>1
<1>9. News(tabs[to], ids, tabs) # {} /\ Unused(opens) # {} /\ s = Spawn(onto, opened, first, f)
  BY <1>1
<1>10. Apart(tabs) /\ \A c \in Board : Range(tabs[c]) \subseteq Range(table[c])
  <2> DEFINE none == {}
  <2>1. Range(t) \subseteq Range(table[b]) \cup none /\ \A c \in Board : Range(table[c]) \cap none = {}
    BY <1>4
  <2>2. \A c \in Board : tabs[c] = IF c = b THEN t ELSE table[c]
    BY <1>2
  <2>3. Apart(table)
    BY DEF Faithful, TablesFiled
  <2> HIDE DEF none, t
  <2>4. Apart([table EXCEPT ![b] = t])
    BY <1>2, <1>4, <2>1, <2>3, Refiled, Zenon
  <2> QED BY <1>4, <2>2, <2>4
<1>11. tabs[to] = (IF to = b THEN t ELSE table[to]) /\ DOMAIN tabs = Board
  BY <1>2
<1>12. IsInjective(tabs[to]) /\ DOMAIN tabs[to] \subseteq Int
  <2>1. IsInjective(tabs[to])
    BY <1>10 DEF Apart, IsInjective
  <2> QED BY <1>2, <1>4, <1>11, <2>1 DEF IsTable
<1> HIDE DEF tabs, t, list
<1>13. /\ IsInjective(opened) /\ Range(opened) \subseteq Range(tabs[to]) \cup Spare
       /\ DOMAIN opened \subseteq Int
       /\ \A k \in DOMAIN tabs[to] : k \in DOMAIN opened /\ opened[k] = tabs[to][k]
  <2>1. Range(tabs[to]) \cap Unused(tabs) = {} /\ Unused(tabs) \subseteq Spare
    BY UnusedIsSpare
  <2>2. ids \subseteq Int
    BY ArrivalsAreIds
  <2>3. /\ IsInjective(opened) /\ Range(opened) \subseteq Range(tabs[to]) \cup Unused(tabs)
        /\ DOMAIN opened = DOMAIN tabs[to] \cup ids
        /\ \A k \in DOMAIN tabs[to] : opened[k] = tabs[to][k]
    BY <1>9, <1>12, <2>1, LookedUpFiled, Zenon
  <2> QED BY <1>12, <2>1, <2>2, <2>3
<1> HIDE DEF opened
<1>14. f \in Spare /\ f \notin Range(opened) /\ f \notin held
  <2>1. /\ Unused(opens) \subseteq Spare /\ Fresh(opens) \in Unused(opens)
        /\ Range(opens[to]) \cap Unused(opens) = {}
    <3> HIDE DEF opens
    <3> QED BY <1>9, UnusedIsSpare
  <2>2. opens[to] = opened
    BY <1>11
  <2> HIDE DEF opens
  <2> QED BY <2>1, <2>2, SpareIs DEF Here
<1>15. first => held = {}
  <2>1. left[to] = IF to = b THEN members[to] \ {p} ELSE members[to]
    BY <1>2
  <2>2. \A q \in Player : q \in members[to] <=> where[q] = to
    BY <1>7
  <2>3. where[p] = b
    OBVIOUS
  <2> HIDE DEF left, b
  <2>4. ASSUME left[to] = {} PROVE Here(to) \ {p} = {}
    BY <2>1, <2>2, <2>3, <2>4 DEF Here
  <2> QED BY <2>4
<1>16. onto \in BoardStats /\ Holds(onto, opened, held)
  <2>1. Holds(onto, tabs[to], held)
    <3>1. CASE to = b
      BY <1>4, <1>11, <3>1
    <3>2. CASE to # b
      <4>1. Here(to) \ {p} = Here(to)
        BY <3>2 DEF Here
      <4>2. Holds(Opened(to), table[to], HeldOn(to))
        BY OpenedHolds DEF Faithful
      <4>3. HeldOn(to) = held
        BY <4>1 DEF HeldOn
      <4> QED BY <1>11, <3>2, <4>2, <4>3
    <3> QED BY <3>1, <3>2
  <2>2. onto \in BoardStats
    BY <1>5, OpenedHolds DEF Faithful
  <2> QED BY <1>13, <2>1, <2>2 DEF Holds
<1> HIDE DEF onto, first, f, opens, s, held
<1>17. Housed(onto, opened, held, f, s)
  BY <1>3, <1>5, <1>9, <1>13, <1>14, <1>15, <1>16, SpawnFiled
<1>18. /\ x \notin held /\ x \in Range(opened) \cup {f}
       /\ IsInjective(s.table) /\ Range(s.table) \subseteq Range(tabs[to]) \cup Spare
       /\ Holds(s.stats, s.table, held \cup {x})
  BY <1>13, <1>14, <1>17 DEF Housed
<1> HIDE DEF x
<1>19. x \in Range(table[to]) \cup Spare /\ x \in Pointer
  <2>1. x \in Range(table[to]) \cup Spare
    BY <1>10, <1>13, <1>14, <1>18
  <2> QED BY <1>2, <2>1 DEF IsTable, Spare
<1>20. \A q \in Player : Present(q) /\ q # p => x # state[q]
  <2> SUFFICES ASSUME NEW q \in Player, Present(q), q # p PROVE x # state[q]
    OBVIOUS
  <2>1. CASE where[q] = to
    BY <1>18, <2>1 DEF held, Here
  <2>2. CASE where[q] # to
    BY <1>19, <2>2, NotOthers DEF Faithful
  <2> QED BY <2>1, <2>2
<1>21. empty => to # b /\ Here(b) \ {p} = {}
  <2>1. after[b] = (members[b] \ {p}) \cup (IF b = to THEN {p} ELSE {})
    BY <1>2
  <2>2. \A q \in Player : q \in members[b] <=> where[q] = b
    BY <1>2, <1>7
  <2>3. empty <=> after[b] = {}
    BY DEF Empties
  <2> HIDE DEF empty, after, b
  <2> QED BY <2>1, <2>2, <2>3 DEF Here
<1> HIDE DEF b, left, after, found, copy, empty
<1>22. /\ \A q \in Player : where'[q] = IF q = p THEN to ELSE where[q]
       /\ \A q \in Player : state'[q] = IF q = p THEN x ELSE state[q]
  <2>1. DOMAIN Restated(b, p, t) = Player
    BY DEF Restated
  <2> QED BY <1>2, <1>4, <1>8, <2>1
<1>23. \A q \in Player : Present(q)' <=> Present(q) \/ q = p
  BY <1>22 DEF Present
<1>24. StatesOwned'
  <2> SUFFICES ASSUME NEW q \in Player, Present(q)'
               PROVE  state'[q] \in Pointer /\ heap'[state'[q]].owner = q
    BY DEF StatesOwned
  <2> DEFINE h == [heap EXCEPT ![x] = copy]
  <2>1. h[x] = copy /\ \A y \in Pointer \ {x} : h[y] = heap[y]
    BY <1>2, <1>19
  <2>2. heap' = Collected(h)
    BY <1>8
  <2> HIDE DEF h
  <2>3. CASE q = p
    <3>1. state'[q] = x /\ heap'[state'[q]] = h[state'[q]]
      BY <1>19, <1>22, <2>2, <2>3, KeptOnCollecting
    <3> QED BY <1>6, <1>19, <2>1, <2>3, <3>1
  <2>4. CASE q # p
    <3>1. state'[q] = state[q] /\ state[q] \in Pointer \ {x} /\ heap[state[q]].owner = q
      BY <1>20, <1>22, <1>23, <2>4 DEF Faithful, StatesOwned
    <3>2. heap'[state'[q]] = h[state'[q]]
      BY <2>2, <3>1, KeptOnCollecting
    <3> QED BY <2>1, <3>1, <3>2
  <2> QED BY <2>3, <2>4
<1>25. StatesDistinct'
  BY <1>20, <1>22, <1>23 DEF Faithful, StatesDistinct
<1>26. Apart(table')
  <2> DEFINE u   == IF empty THEN EmptyTable ELSE t
             one == [table EXCEPT ![b] = u]
             none == {}
  <2>1. IsInjective(u) /\ Range(u) \subseteq Range(table[b]) \cup none
    BY <1>4 DEF IsInjective, EmptyTable, Range
  <2>2. table' = [one EXCEPT ![to] = s.table] /\ DOMAIN one = Board
    BY <1>2, <1>8
  <2>3. \A c \in Board : Range(table[c]) \cap none = {}
    OBVIOUS
  <2>4. Apart(table)
    BY DEF Faithful, TablesFiled
  <2>5. one[to] = tabs[to]
    BY <1>2, <1>11, <1>21
  <2>6. \A c \in Board : Range(one[c]) \cap Spare = {}
    <3>1. \A c \in Board : one[c] = IF c = b THEN u ELSE table[c]
      BY <1>2
    <3> HIDE DEF one, u
    <3> QED BY <1>2, <2>1, <3>1, SpareIs
  <2> HIDE DEF u, none
  <2>7. Apart(one)
    BY <1>2, <2>1, <2>3, <2>4, Refiled, Zenon
  <2> HIDE DEF one
  <2>8. Range(s.table) \subseteq Range(one[to]) \cup Spare /\ IsInjective(s.table)
    BY <1>18, <2>5
  <2> DEFINE last == s.table
  <2>9. Range(last) \subseteq Range(one[to]) \cup Spare /\ IsInjective(last)
    BY <2>8
  <2>10. table' = [one EXCEPT ![to] = last]
    BY <2>2
  <2> HIDE DEF last
  <2>11. Apart([one EXCEPT ![to] = last])
    BY <2>2, <2>6, <2>7, <2>9, Refiled, Zenon
  <2> QED BY <2>10, <2>11
<1>27. ASSUME NEW c \in Board PROVE Holds(stats'[c], table'[c], HeldOn(c)')
  <2>1. Here(c)' = (Here(c) \ {p}) \cup (IF c = to THEN {p} ELSE {})
    BY <1>2, <1>22 DEF Here
  <2>2. \A q \in Here(c) \ {p} : state'[q] = state[q]
    BY <1>22 DEF Here
  <2>3. HeldOn(c)' = {state'[q] : q \in Here(c)'}
    BY DEF HeldOn
  <2>4. CASE c = to
    <3>1. stats'[c] = s.stats /\ table'[c] = s.table
      BY <1>2, <1>8, <2>4
    <3>2. HeldOn(c)' = held \cup {x}
      BY <1>22, <2>1, <2>2, <2>3, <2>4 DEF held
    <3> QED BY <1>18, <3>1, <3>2
  <2>5. CASE c # to /\ c # b
    <3>1. stats'[c] = stats[c] /\ table'[c] = table[c]
      BY <1>2, <1>8, <2>5
    <3>2. Here(c) \ {p} = Here(c)
      BY <2>5 DEF Here, b
    <3>3. HeldOn(c)' = HeldOn(c)
      BY <2>1, <2>2, <2>3, <2>5, <3>2 DEF HeldOn
    <3> QED BY <3>1, <3>3 DEF Faithful, TablesFiled
  <2>6. CASE c # to /\ c = b /\ ~empty
    <3>1. stats'[c] = list /\ table'[c] = t
      BY <1>2, <1>8, <2>6
    <3>2. HeldOn(c)' = {state[q] : q \in Here(b) \ {p}}
      BY <2>1, <2>2, <2>3, <2>6
    <3> QED BY <1>4, <3>1, <3>2
  <2>7. CASE c # to /\ c = b /\ empty
    <3>1. HeldOn(c)' = {}
      BY <1>21, <2>1, <2>3, <2>7
    <3> QED BY <3>1 DEF Holds
  <2> QED BY <2>4, <2>5, <2>6, <2>7
<1> QED BY <1>24, <1>25, <1>26, <1>27 DEF Faithful, TablesFiled, Apart

-----------------------------------------------------------------------------
(* While a room ticks its players stay: what it does to its stats and its  *)
(* table follows them, and what a turn looks up besides is nobody's.       *)
LEMMA RoomKeepsFaith ==
  ASSUME TypeOK, todo # {}, Faithful, UNCHANGED <<where, state, heap>>, NEW c, NEW r,
         Follows([stats |-> stats[Stepping], table |-> table[Stepping], cursor |-> c], r),
         NEW t, t = r.table \/ t \in LookedUp(r.table),
         stats' = [stats EXCEPT ![Stepping] = r.stats],
         table' = [table EXCEPT ![Stepping] = t]
  PROVE  Faithful'
<1> DEFINE b == Stepping
           o == [stats |-> stats[b], table |-> table[b], cursor |-> c]
           all == Range(table[b])
           held == HeldOn(b)
<1>1. b \in Board /\ stats \in [Board -> BoardStats] /\ DOMAIN table = Board
  BY SteppingIsABoard DEF TypeOK, RoomsTyped
<1>2. Filing(o, held, all)
  BY <1>1, TableInjective DEF Faithful, TablesFiled, Filing
<1>3. Follows(o, r)
  OBVIOUS
<1>4. stats' = [stats EXCEPT ![b] = r.stats] /\ table' = [table EXCEPT ![b] = t]
  OBVIOUS
<1> HIDE DEF b, o, held
<1>5. Filing(r, held, all)
  BY <1>2, <1>3 DEF Follows
<1>6. /\ IsInjective(t) /\ Range(t) \subseteq all \cup Spare
      /\ \A k \in DOMAIN r.table : k \in DOMAIN t /\ t[k] = r.table[k]
  <2> DEFINE u == r.table
  <2>1. IsInjective(u) /\ Range(u) \subseteq all
    BY <1>5 DEF Filing
  <2>2. CASE t = u
    BY <2>1, <2>2
  <2>3. CASE t \in LookedUp(u)
    <3>1. PICK ids : t = PlayerForAll(u, ids, table) /\ News(u, ids, table) # {}
      BY <2>3 DEF LookedUp
    <3>2. Range(table[b]) \cap Unused(table) = {} /\ Unused(table) \subseteq Spare
      BY <1>1, UnusedIsSpare
    <3> HIDE DEF u
    <3>3. LET v == PlayerForAll(u, ids, table)
          IN  /\ IsInjective(v) /\ Range(v) \subseteq Range(u) \cup Unused(table)
              /\ DOMAIN v = DOMAIN u \cup ids /\ \A k \in DOMAIN u : v[k] = u[k]
      <4>1. Range(u) \cap Unused(table) = {}
        BY <2>1, <3>2
      <4> QED BY <2>1, <3>1, <4>1, LookedUpFiled, Zenon
    <3>4. \A k \in DOMAIN u : k \in DOMAIN t /\ t[k] = u[k]
      BY <3>1, <3>3
    <3>5. IsInjective(t) /\ Range(t) \subseteq all \cup Spare
      BY <2>1, <3>1, <3>2, <3>3
    <3> QED BY <3>4, <3>5 DEF u
  <2> QED BY <2>2, <2>3
<1>7. Holds(r.stats, t, held)
  BY <1>5, <1>6 DEF Filing, Holds
<1>8. Apart([table EXCEPT ![b] = t])
  <2>1. Apart(table) /\ \A d \in Board : Range(table[d]) \cap Spare = {}
    BY SpareIs DEF Faithful, TablesFiled
  <2> QED BY <1>1, <1>6, <2>1, Refiled, Zenon
<1>9. \A d \in Board : HeldOn(d)' = HeldOn(d)
  BY DEF HeldOn, Here
<1>10. TablesFiled'
  <2>1. Apart(table')
    BY <1>4, <1>8
  <2>2. ASSUME NEW d \in Board PROVE Holds(stats'[d], table'[d], HeldOn(d)')
    <3>1. CASE d = b
      <4>1. stats'[d] = r.stats /\ table'[d] = t
        BY <1>1, <1>4, <3>1
      <4> QED BY <1>7, <1>9, <3>1, <4>1 DEF held
    <3>2. CASE d # b
      <4>1. stats'[d] = stats[d] /\ table'[d] = table[d]
        BY <1>1, <1>4, <3>2
      <4> QED BY <1>9, <4>1 DEF Faithful, TablesFiled
    <3> QED BY <3>1, <3>2
  <2> QED BY <2>1, <2>2 DEF TablesFiled, Apart
<1>11. StatesOwned' /\ StatesDistinct'
  BY DEF Faithful, StatesOwned, StatesDistinct, Present
<1> QED BY <1>10, <1>11 DEF Faithful

(* Whatever moves no player and no stat keeps what is filed.               *)
LEMMA UntouchedFaith ==
  ASSUME UNCHANGED <<stats, table, where, statID, state, heap>>
  PROVE  (Faithful => Faithful') /\ (IDsFiled => IDsFiled')
<1>1. StatesOwned => StatesOwned'
  BY DEF StatesOwned, Present
<1>2. StatesDistinct => StatesDistinct'
  BY DEF StatesDistinct, Present
<1>3. TablesFiled => TablesFiled'
  <2>1. Apart(table) => Apart(table')
    OBVIOUS
  <2>2. \A b \in Board : HeldOn(b)' = HeldOn(b)
    BY DEF HeldOn, Here
  <2> QED BY <2>1, <2>2 DEF TablesFiled, Apart
<1>4. IDsFiled => IDsFiled'
  BY DEF IDsFiled, Filed, Present
<1> QED BY <1>1, <1>2, <1>3, <1>4 DEF Faithful

(* A scroll that is removed under a stat id that had moved sets blurred.   *)
LEMMA TurnsKeepFaith ==
  ASSUME TypeOK, Faithful, TickTurn, ~blurred'
  PROVE  Faithful'
<1>1. todo # {} /\ cursor \in DOMAIN stats[Stepping]
  BY DEF TickTurn, TypeOK, StepTyped
<1>2. UNCHANGED <<where, state, heap>>
  BY TicksStay
<1>3. ASSUME NEW element, NEW r, NEW more, Turn(element, r, more), Follows(Engine, r)
      PROVE  Faithful'
  <2>1. PICK t \in LookedUp(r.table) : table' = [table EXCEPT ![Stepping] = t]
    BY <1>3 DEF Turn
  <2>2. /\ stats' = [stats EXCEPT ![Stepping] = r.stats]
        /\ Follows([stats |-> stats[Stepping], table |-> table[Stepping], cursor |-> cursor], r)
    BY <1>3 DEF Turn, Engine
  <2> QED BY <1>1, <1>2, <2>1, <2>2, RoomKeepsFaith
<1>4. CASE TickQuietly
  <2>1. blurred' = blurred /\ UNCHANGED <<stats, table, where, statID, state, heap>>
    BY <1>4 DEF TickQuietly, roomVars, playerVars, historyVars
  <2> QED BY <2>1, UntouchedFaith
<1>5. CASE BusyTurn /\ UNCHANGED blurred
  BY <1>1, <1>3, <1>5, TurnsFollow
<1>6. CASE PlayerUsesScroll
  <2>1. PICK r : Turn("player", r, <<>>) /\ (~blurred' => ~blurred /\ Follows(Engine, r))
    BY <1>1, <1>6, UsedScrollFollows
  <2> QED BY <1>3, <2>1
<1> QED BY <1>4, <1>5, <1>6 DEF TickTurn

LEMMA RunLabelKeepsFaith ==
  ASSUME TypeOK, Faithful, RunLabel
  PROVE  Faithful'
<1>1. todo # {} /\ UNCHANGED <<where, state, heap>>
  BY DEF RunLabel, playerVars, TypeOK, StepTyped
<1>2. PICK r, at :
        /\ Command(r, at)
        /\ Follows([stats |-> stats[Stepping], table |-> table[Stepping],
                    cursor |-> Head(scrollReplies[Stepping]).stat], r)
  BY LabelFollows
<1>3. PICK t \in LookedUp(r.table) : table' = [table EXCEPT ![Stepping] = t]
  BY <1>2 DEF Command
<1>4. stats' = [stats EXCEPT ![Stepping] = r.stats]
  BY <1>2 DEF Command
<1> QED BY <1>1, <1>2, <1>3, <1>4, RoomKeepsFaith

LEMMA DrainKeepsFaith ==
  ASSUME TypeOK, Faithful, DrainScrollReply
  PROVE  Faithful'
<1>1. todo # {} /\ UNCHANGED <<where, state, heap>>
  BY DEF DrainScrollReply, playerVars, TypeOK, StepTyped
<1>2. PICK r : /\ stats' = [stats EXCEPT ![Stepping] = r.stats]
               /\ table' = [table EXCEPT ![Stepping] = r.table]
               /\ Follows([stats |-> stats[Stepping], table |-> table[Stepping], cursor |-> 1], r)
  BY DrainFollows
<1> QED BY <1>1, <1>2, RoomKeepsFaith

(* A room that panics takes its players' entries with it, and nobody's     *)
(* else.                                                                   *)
LEMMA PanicKeepsFaith ==
  ASSUME TypeOK, MembershipAgrees, Faithful, Panic
  PROVE  Faithful'
<1> DEFINE b    == Stepping
           gone == members[b]
<1>1. /\ stats' = [stats EXCEPT ![b] = <<>>]
      /\ table' = [table EXCEPT ![b] = EmptyTable]
      /\ where' = [p \in Player |-> IF p \in gone THEN Nowhere ELSE where[p]]
      /\ state' = [p \in Player |-> IF p \in gone THEN Null ELSE state[p]]
      /\ heap' = Collected(heap)
  BY DEF Panic
<1>2. /\ b \in Board /\ stats \in [Board -> BoardStats] /\ DOMAIN table = Board
      /\ \A p \in Player : p \in gone <=> where[p] = b
  BY SteppingIsABoard DEF Panic, TypeOK, StepTyped, RoomsTyped, MembershipAgrees
<1> HIDE DEF b, gone
<1>3. \A p \in Player : /\ Present(p)' <=> Present(p) /\ p \notin gone
                        /\ p \notin gone => where'[p] = where[p] /\ state'[p] = state[p]
                        /\ p \in gone => where'[p] = Nowhere /\ state'[p] = Null
  BY <1>1 DEF Present
<1>4. StatesOwned'
  <2> SUFFICES ASSUME NEW p \in Player, Present(p)'
               PROVE  state'[p] \in Pointer /\ heap'[state'[p]].owner = p
    BY DEF StatesOwned
  <2>1. state'[p] = state[p] /\ state[p] \in Pointer /\ heap[state[p]].owner = p
    BY <1>3 DEF Faithful, StatesOwned
  <2>2. heap'[state'[p]] = heap[state'[p]]
    BY <1>1, <2>1, KeptOnCollecting
  <2> QED BY <2>1, <2>2
<1>5. StatesDistinct'
  BY <1>3 DEF Faithful, StatesDistinct
<1>6. Apart(table')
  <2> DEFINE none == {}
             last == EmptyTable
  <2>1. IsInjective(last) /\ Range(last) \subseteq Range(table[b]) \cup none
    BY DEF IsInjective, EmptyTable, Range
  <2>2. Apart(table) /\ \A c \in Board : Range(table[c]) \cap none = {}
    BY DEF Faithful, TablesFiled
  <2>3. table' = [table EXCEPT ![b] = last]
    BY <1>1
  <2> HIDE DEF none, last
  <2>4. Apart([table EXCEPT ![b] = last])
    BY <1>2, <2>1, <2>2, Refiled, Zenon
  <2> QED BY <2>3, <2>4
<1>7. ASSUME NEW c \in Board PROVE Holds(stats'[c], table'[c], HeldOn(c)')
  <2>1. HeldOn(c)' = {state'[q] : q \in Here(c)'}
    BY DEF HeldOn
  <2>2. CASE c # b
    <3>1. stats'[c] = stats[c] /\ table'[c] = table[c]
      BY <1>1, <1>2, <2>2
    <3>2. Here(c)' = Here(c) /\ \A p \in Here(c) : state'[p] = state[p]
      BY <1>2, <1>3, <2>2 DEF Here
    <3>3. HeldOn(c)' = HeldOn(c)
      BY <2>1, <3>2 DEF HeldOn
    <3> QED BY <3>1, <3>3 DEF Faithful, TablesFiled
  <2>3. CASE c = b
    <3>1. Here(c)' = {}
      BY <1>2, <1>3, <2>3 DEF Here
    <3> QED BY <2>1, <3>1 DEF Holds
  <2> QED BY <2>2, <2>3
<1> QED BY <1>4, <1>5, <1>6, <1>7 DEF Faithful, TablesFiled, Apart

(* Every state is filed once, so that the step's end finds each where it   *)
(* is: under the stat that is its player's avatar.                         *)
LEMMA SyncFilesIDs ==
  ASSUME TypeOK, Faithful, SyncPlayerStatIDs
  PROVE  Faithful' /\ IDsFiled'
<1>1. UNCHANGED <<stats, table, where, state, heap>>
  BY DEF SyncPlayerStatIDs, roomVars
<1>2. Faithful'
  <2>1. StatesOwned' /\ StatesDistinct'
    BY <1>1 DEF Faithful, StatesOwned, StatesDistinct, Present
  <2>2. TablesFiled'
    BY <1>1 DEF Faithful, TablesFiled, Apart, HeldOn, Here
  <2> QED BY <2>1, <2>2 DEF Faithful
<1>3. IDsFiled'
  <2> SUFFICES ASSUME NEW p \in Player, Present(p)' PROVE Filed(p, statID[p])'
    BY DEF IDsFiled
  <2>1. Present(p) /\ where[p] \in Board /\ state[p] \in HeldOn(where[p])
    BY <1>1 DEF Present, TypeOK, PlayersTyped, Here, HeldOn
  <2> DEFINE t == table[where[p]]
  <2>2. PICK i \in DOMAIN t \cap Showing(stats[where[p]], "player") : t[i] = state[p]
    BY <2>1 DEF Faithful, TablesFiled, Holds
  <2>3. IsInjective(t)
    BY <2>1, TableInjective DEF Faithful
  <2>4. statID'[p] = CHOOSE j \in DOMAIN t : t[j] = state[p]
    BY <2>1, <2>2 DEF SyncPlayerStatIDs, Range
  <2> HIDE DEF t
  <2>5. statID'[p] \in DOMAIN t /\ t[statID'[p]] = state[p]
    BY <2>2, <2>4
  <2>6. statID'[p] = i
    BY <2>2, <2>3, <2>5 DEF IsInjective
  <2> QED BY <1>1, <2>2, <2>6 DEF Filed, t
<1> QED BY <1>2, <1>3

-----------------------------------------------------------------------------
(* Each action keeps the invariant.  A transfer, a quit or a used-up scroll*)
(* applied where the ids had gone stale sets blurred, and so does a spawn  *)
(* on a full board; the invariant then says nothing.                       *)
LEMMA ConnectionKeepsIdentity ==
  ASSUME TypeOK, MembershipAgrees, IdentityInv, Connection
  PROVE  IdentityInv'
<1> SUFFICES ASSUME ~blurred' PROVE Faithful' /\ IDsFiled'
  BY DEF IdentityInv
<1>1. ASSUME NEW p \in Player, NEW b \in Board, Join(p, b) PROVE Faithful' /\ IDsFiled'
  <2>1. ~blurred /\ phase = "idle"
    BY <1>1 DEF Join
  <2> QED BY <1>1, <2>1, JoinKeepsFaith DEF IdentityInv
<1>2. ASSUME NEW p \in Player, Leave(p) PROVE Faithful' /\ IDsFiled'
  <2>1. ~blurred /\ phase = "idle" /\ InStep(where[p]) /\ LeavePlayer(p) /\ Present(p)
    BY <1>2 DEF Leave, LeavePlayer
  <2> QED BY <2>1, LeaveKeepsFaith DEF IdentityInv
<1>3. ASSUME NEW p \in Player, SubmitQuitReply(p) \/ SubmitScrollReply(p)
      PROVE  Faithful' /\ IDsFiled'
  <2>1. /\ blurred' = blurred /\ phase = "idle"
        /\ UNCHANGED <<stats, table, where, statID, state, heap>>
    BY <1>3 DEF SubmitQuitReply, SubmitScrollReply, roomVars, playerVars
  <2> QED BY <2>1, UntouchedFaith DEF IdentityInv
<1> QED BY <1>1, <1>2, <1>3 DEF Connection

LEMMA ApplyKeepsIdentity ==
  ASSUME TypeOK, MembershipAgrees, IdentityInv, ApplyTransfer \/ ApplyQuit
  PROVE  IdentityInv'
<1>1. phase' # "idle"
  BY DEF ApplyTransfer, ApplyQuit
<1> SUFFICES ASSUME ~blurred' PROVE Faithful'
  BY <1>1 DEF IdentityInv
<1>2. ASSUME UNCHANGED <<roomVars, playerVars, replyVars, historyVars>> PROVE Faithful'
  <2>1. blurred' = blurred /\ UNCHANGED <<stats, table, where, statID, state, heap>>
    BY <1>2 DEF roomVars, playerVars, historyVars
  <2> QED BY <2>1, UntouchedFaith DEF IdentityInv
<1>3. CASE ApplyTransfer
  <2> DEFINE t == Head(transfers)
  <2>1. t.player \in Player /\ t.to \in Board
    BY <1>3, HeadOfTransfers DEF ApplyTransfer
  <2>2. CASE Present(t.player)
    <3>1. TransferPlayer(t.player, t.to)
      BY <1>3, <2>2 DEF ApplyTransfer
    <3>2. ~blurred
      BY <3>1 DEF TransferPlayer
    <3> QED BY <2>1, <2>2, <3>1, <3>2, TransferKeepsFaith DEF IdentityInv
  <2>3. CASE ~ Present(t.player)
    BY <1>2, <1>3, <2>3 DEF ApplyTransfer
  <2> QED BY <2>2, <2>3
<1>4. CASE ApplyQuit
  <2> DEFINE p == Head(quitters)
  <2>1. p \in Player
    BY <1>4 DEF ApplyQuit, TypeOK, StepTyped
  <2>2. CASE Present(p)
    <3>1. LeavePlayer(p)
      BY <1>4, <2>2 DEF ApplyQuit
    <3>2. ~blurred /\ InStep(where[p])
      BY <3>1 DEF LeavePlayer
    <3> QED BY <2>1, <2>2, <3>1, <3>2, LeaveKeepsFaith DEF IdentityInv
  <2>3. CASE ~ Present(p)
    BY <1>2, <1>4, <2>3 DEF ApplyQuit
  <2> QED BY <2>2, <2>3
<1> QED BY <1>3, <1>4

LEMMA StepKeepsIdentity ==
  ASSUME TypeOK, MembershipAgrees, IdentityInv, RestOfStep
  PROVE  IdentityInv'
<1>1. CASE RunLabel \/ DrainScrollReply
  <2>1. phase' = "replies" /\ blurred' = blurred
    BY <1>1 DEF RunLabel, DrainScrollReply, stepVars, historyVars
  <2> QED BY <1>1, <2>1, RunLabelKeepsFaith, DrainKeepsFaith DEF IdentityInv
<1>2. CASE DrainQuitReply \/ BeginTicks \/ EndTicks \/ ResolveEvent \/ EndRoom
  <2>1. phase' # "idle" /\ blurred' = blurred /\ UNCHANGED <<stats, table, where, statID, state, heap>>
    BY <1>2 DEF DrainQuitReply, BeginTicks, EndTicks, ResolveEvent, EndRoom, NextRoom,
                roomVars, playerVars, historyVars
  <2> QED BY <2>1, UntouchedFaith DEF IdentityInv
<1>3. CASE TickTurn
  <2>1. phase' = "tick"
    BY <1>3, TicksStay DEF TickTurn
  <2>2. ASSUME ~blurred' PROVE ~blurred /\ Faithful'
    <3>1. ~blurred
      <4>1. CASE TickQuietly \/ (BusyTurn /\ UNCHANGED blurred)
        BY <2>2, <4>1 DEF TickQuietly, historyVars
      <4>2. CASE PlayerUsesScroll
        BY <2>2, <4>2 DEF PlayerUsesScroll
      <4> QED BY <1>3, <4>1, <4>2 DEF TickTurn
    <3> QED BY <1>3, <2>2, <3>1, TurnsKeepFaith DEF IdentityInv
  <2> QED BY <2>1, <2>2 DEF IdentityInv
<1>4. CASE Panic
  <2>1. phase' # "idle" /\ blurred' = blurred
    BY <1>4 DEF Panic, NextRoom, historyVars
  <2> QED BY <1>4, <2>1, PanicKeepsFaith DEF IdentityInv
<1>5. CASE SyncPlayerStatIDs
  <2>1. blurred' = blurred
    BY <1>5 DEF SyncPlayerStatIDs, historyVars
  <2> QED BY <1>5, <2>1, SyncFilesIDs DEF IdentityInv
<1> QED BY <1>1, <1>2, <1>3, <1>4, <1>5, ApplyKeepsIdentity DEF RestOfStep

(* What the invariant says of each player and of the tables.               *)
LEMMA FaithfulIsIdentity ==
  ASSUME TypeOK, IdentityInv
  PROVE  IdentityKept
<1> SUFFICES ASSUME ~blurred
             PROVE  /\ \A p \in Player : Present(p) =>
                         /\ heap[state[p]].owner = p
                         /\ \E i \in DOMAIN table[where[p]] : Filed(p, i)
                         /\ phase = "idle" => Filed(p, statID[p])
                    /\ StatesDistinct
                    /\ Apart(table)
  BY DEF IdentityKept, StatesDistinct, Apart
<1>1. StatesOwned /\ StatesDistinct /\ TablesFiled /\ (phase = "idle" => IDsFiled)
  BY DEF IdentityInv, Faithful
<1>2. ASSUME NEW p \in Player, Present(p) PROVE \E i \in DOMAIN table[where[p]] : Filed(p, i)
  <2>1. where[p] \in Board /\ state[p] \in HeldOn(where[p])
    BY <1>2 DEF Present, TypeOK, PlayersTyped, Here, HeldOn
  <2>2. PICK i \in DOMAIN table[where[p]] \cap Showing(stats[where[p]], "player") :
               table[where[p]][i] = state[p]
    BY <1>1, <2>1 DEF TablesFiled, Holds
  <2> QED BY <2>2 DEF Filed
<1> QED BY <1>1, <1>2 DEF StatesOwned, TablesFiled, IDsFiled

(* Through any interleaving of joins, leaves, submissions and steps, and   *)
(* whatever a turn looks up, every player keeps a state of their own, filed*)
(* under the stat that is their avatar and nowhere else, and between steps *)
(* the manager knows which: unless a transfer, a quit or a scroll being    *)
(* used up was applied in a room whose stat ids had moved during the tick, *)
(* or a player was spawned on a full board.                                *)
THEOREM IdentityKeptAlways == Spec => []IdentityKept
<1>1. Init => IdentityInv
  <2> SUFFICES ASSUME Init PROVE Faithful /\ IDsFiled
    BY DEF IdentityInv
  <2>1. \A p \in Player : ~Present(p)
    BY DEF Init, Present
  <2>2. \A b \in Board : table[b] = EmptyTable /\ Here(b) = {}
    BY DEF Init, Here, BoardAssumption
  <2>3. Apart(table)
    BY <2>2 DEF Apart, EmptyTable
  <2>4. \A b \in Board : Holds(stats[b], table[b], HeldOn(b))
    BY <2>2 DEF Holds, HeldOn
  <2> QED BY <2>1, <2>3, <2>4 DEF Faithful, StatesOwned, StatesDistinct, TablesFiled, IDsFiled
<1>2. TypeOK /\ MembershipAgrees /\ IdentityInv /\ [Next]_vars => IdentityInv'
  <2> SUFFICES ASSUME TypeOK, MembershipAgrees, IdentityInv, [Next]_vars PROVE IdentityInv'
    OBVIOUS
  <2>1. CASE BeginStep
    <3>1. blurred' = blurred /\ phase = "idle" /\ UNCHANGED <<stats, table, where, statID, state, heap>>
      BY <2>1 DEF BeginStep, roomVars, playerVars, historyVars
    <3> QED BY <3>1, UntouchedFaith DEF IdentityInv
  <2>2. CASE UNCHANGED vars
    <3>1. UNCHANGED <<blurred, phase, stats, table, where, statID, state, heap>>
      BY <2>2 DEF vars, roomVars, playerVars, stepVars, historyVars
    <3> QED BY <3>1, UntouchedFaith DEF IdentityInv
  <2> QED BY <2>1, <2>2, ConnectionKeepsIdentity, StepKeepsIdentity DEF Next
<1>3. IdentityInv /\ TypeOK => IdentityKept
  BY FaithfulIsIdentity
<1> QED BY <1>1, <1>2, <1>3, TypeInvariant, MembershipInvariant, PTL DEF Spec

=============================================================================
