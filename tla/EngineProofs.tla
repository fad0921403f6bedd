------------------------------ MODULE EngineProofs ------------------------------
(***************************************************************************)
(* Theorems about the programs of objects, for boards of any size, any     *)
(* programs and any number of commands in a turn.                          *)
(***************************************************************************)
EXTENDS Engine, Sequences, FiniteSetTheorems, WellFoundedInduction, TLAPS

-----------------------------------------------------------------------------
(* Numbers, and what is defined step by step *)

LEMMA LeastNatural ==
  ASSUME NEW S \in SUBSET Nat, S # {}
  PROVE  \E x \in S : \A y \in S : x <= y
<1>1. IsWellFoundedOn(OpToRel(<, Nat), Nat)
  BY NatLessThanWellFounded, Zenon
<1>2. PICK x \in S : \A y \in S : ~ (<<y, x>> \in OpToRel(<, Nat))
  BY <1>1, WFMin, Zenon
<1>3. \A y \in S : ~ (y < x)
  BY <1>2 DEF OpToRel
<1> QED BY <1>3

LEMMA MinIsLeast ==
  ASSUME NEW S \in SUBSET Nat, S # {}
  PROVE  Min(S) \in S /\ \A y \in S : Min(S) <= y
BY LeastNatural DEF Min

LEMMA MaxIsGreatest ==
  ASSUME NEW n \in Nat, NEW S \in SUBSET (1..n), S # {}
  PROVE  Programs!Max(S) \in S /\ \A y \in S : y <= Programs!Max(S)
<1> DEFINE T == {n - y : y \in S}
<1>1. T \in SUBSET Nat /\ T # {}
  <2>1. PICK y \in S : TRUE
    OBVIOUS
  <2>2. n - y \in T
    OBVIOUS
  <2> QED BY <2>2
<1>2. PICK t \in T : \A u \in T : t <= u
  BY <1>1, LeastNatural
<1>3. PICK x \in S : t = n - x
  OBVIOUS
<1>4. ASSUME NEW y \in S PROVE x >= y
  <2>1. n - y \in T /\ x \in Nat /\ y \in Nat
    OBVIOUS
  <2>2. n - x <= n - y
    BY <1>2, <1>3, <2>1
  <2> QED BY <2>1, <2>2
<1> HIDE DEF T
<1>5. PICK x0 \in S : \A y \in S : x0 >= y
  BY <1>3, <1>4
<1>6. Programs!Max(S) \in S /\ \A y \in S : Programs!Max(S) >= y
  BY <1>5 DEF Programs!Max
<1> QED BY <1>6

(* What holds of the beginning and is passed on holds up to the end.       *)
LEMMA UpTo ==
  ASSUME NEW N \in Nat, NEW S, 0 \in S, \A k \in 1..N : k - 1 \in S => k \in S
  PROVE  0..N \subseteq S
<1> SUFFICES ASSUME (0..N) \ S # {} PROVE FALSE
  OBVIOUS
<1>1. (0..N) \ S \in SUBSET Nat
  OBVIOUS
<1>2. PICK m \in (0..N) \ S : \A y \in (0..N) \ S : m <= y
  BY <1>1, LeastNatural
<1>3. m \in 1..N /\ m - 1 \in 0..N
  BY <1>2
<1> QED BY <1>2, <1>3

(* A function that is defined step by step, each step within X.            *)
Iterates(g, N, x0, F) ==
  g[0] = x0 /\ \A k \in 1..N : g[k] = F[<<g[k - 1], k>>]

LEMMA IterationExists ==
  ASSUME NEW N \in Nat, NEW X, NEW x0 \in X, NEW F \in [X \X Nat -> X]
  PROVE  \E g \in [0..N -> X] : Iterates(g, N, x0, F)
<1> DEFINE S == {m \in 0..N : \E g \in [0..m -> X] : Iterates(g, m, x0, F)}
<1>1. 0 \in S
  <2>1. [k \in 0..0 |-> x0] \in [0..0 -> X] /\ Iterates([k \in 0..0 |-> x0], 0, x0, F)
    BY DEF Iterates
  <2> QED BY <2>1
<1>2. ASSUME NEW k \in 1..N, k - 1 \in S PROVE k \in S
  <2>1. PICK g \in [0..(k - 1) -> X] : Iterates(g, k - 1, x0, F)
    BY <1>2
  <2> DEFINE h == [j \in 0..k |-> IF j = k THEN F[<<g[k - 1], k>>] ELSE g[j]]
  <2>2. g[k - 1] \in X /\ <<g[k - 1], k>> \in X \X Nat
    OBVIOUS
  <2>3. h \in [0..k -> X]
    BY <2>2
  <2>4. h[0] = x0
    BY <2>1 DEF Iterates
  <2>5. ASSUME NEW j \in 1..k PROVE h[j] = F[<<h[j - 1], j>>]
    <3>1. j - 1 \in 0..k /\ j - 1 # k /\ h[j - 1] = g[j - 1]
      OBVIOUS
    <3>2. CASE j = k
      BY <3>1, <3>2
    <3>3. CASE j # k
      <4>1. j \in 1..(k - 1) /\ h[j] = g[j]
        BY <3>3
      <4> QED BY <2>1, <3>1, <4>1 DEF Iterates
    <3> QED BY <3>2, <3>3
  <2> HIDE DEF h
  <2> QED BY <2>3, <2>4, <2>5 DEF Iterates
<1>3. 0..N \subseteq S
  <2> HIDE DEF S
  <2> QED BY <1>1, <1>2, UpTo
<1> QED BY <1>3

-----------------------------------------------------------------------------
(* What an editor keeps *)

Stat   == Programs!Slot
Known  == Text \cup {NoText}
Record == [data : Known, len : (-MAX_STAT)..1]

Stats  == [Stat -> Record]
Files  == [count : 0..MAX_STAT, stats : Stats]

ProgramsTyped ==
  /\ current \in Board /\ count \in 0..MAX_STAT /\ stats \in Stats
  /\ file \in [Board -> Files]
  /\ given \in [Board -> [Stat -> Known]]

(* The records r of n stats say what was given, by a program of their own  *)
(* or by an earlier stat that was given the same.                          *)
Tells(r, n, g) ==
  \A i \in 1..n :
    /\ r[i].len = 0 <=> g[i] = NoText
    /\ r[i].len > 0 => r[i].data = g[i]
    /\ r[i].len < 0 => -r[i].len \in 1..(i - 1) /\ g[-r[i].len] = g[i]

(* On the open board even bound stats have their text.                     *)
Holds(s, n, g) == Tells(s, n, g) /\ \A i \in 1..n : s[i].data = g[i]

Lost == shifted \cup leftover

ProgramsInv ==
  /\ ProgramsTyped
  /\ count = file[current].count
  /\ \A b \in Board, i \in Stat : i > file[b].count => given[b][i] = NoText
  /\ \A b \in Board \ Lost : Tells(file[b].stats, file[b].count, given[b])
  /\ current \notin Lost => Holds(stats, count, given[current])

-----------------------------------------------------------------------------
(* Closing and opening a board                                             *)

LEMMA StatIs == Stat = 1..MAX_STAT /\ MAX_STAT \in Nat
BY ProgramsAssumption DEF Stat, Programs!Slot

LEMMA NewStatTyped ==
  /\ Programs!NewStat \in Record /\ Programs!NewStat.len = 0 /\ Programs!NewStat.data = NoText
BY ProgramsAssumption DEF Programs!NewStat, Record, Known

(* Closing keeps the texts, and binds to an earlier stat of the same text. *)
LEMMA BoundIs ==
  ASSUME NEW s \in Stats, NEW n \in 0..MAX_STAT
  PROVE  /\ Programs!Bound(s, n) \in Stats
         /\ \A i \in Stat :
              /\ Programs!Bound(s, n)[i].data = s[i].data
              /\ \/ Programs!Bound(s, n)[i].len = s[i].len
                 \/ /\ s[i].len > 0 /\ Programs!Bound(s, n)[i].len < 0
                    /\ -Programs!Bound(s, n)[i].len \in 1..(i - 1)
                    /\ s[-Programs!Bound(s, n)[i].len].data = s[i].data
<1> DEFINE same(i) == {j \in 1..(i - 1) : s[j].data = s[i].data}
           b(i)    == IF i <= n /\ s[i].len > 0 /\ same(i) # {}
                      THEN [s[i] EXCEPT !.len = -Programs!Max(same(i))] ELSE s[i]
<1>1. Programs!Bound(s, n) = [i \in Stat |-> b(i)]
  BY DEF Programs!Bound, Stat
<1>2. ASSUME NEW i \in Stat
      PROVE  /\ b(i) \in Record /\ b(i).data = s[i].data
             /\ \/ b(i).len = s[i].len
                \/ /\ s[i].len > 0 /\ b(i).len < 0 /\ -b(i).len \in 1..(i - 1)
                   /\ s[-b(i).len].data = s[i].data
  <2>1. s[i] \in Record
    BY DEF Stats
  <2>2. CASE i <= n /\ s[i].len > 0 /\ same(i) # {}
    <3>1. same(i) \in SUBSET (1..(i - 1)) /\ i - 1 \in Nat
      BY StatIs
    <3>2. PICK m \in same(i) : m = Programs!Max(same(i))
      BY <2>2, <3>1, MaxIsGreatest
    <3>3. m \in 1..(i - 1) /\ s[m].data = s[i].data /\ m \in 1..MAX_STAT
      BY <3>2, StatIs
    <3>4. b(i) = [s[i] EXCEPT !.len = -m]
      BY <2>2, <3>2
    <3> HIDE DEF b, same
    <3>5. -m \in (-MAX_STAT)..1 /\ -m < 0 /\ -(-m) = m
      BY <3>3, StatIs
    <3>6. b(i) \in Record /\ b(i).len = -m /\ b(i).data = s[i].data
      BY <2>1, <3>4, <3>5 DEF Record
    <3> QED BY <2>2, <3>3, <3>5, <3>6
  <2>3. CASE ~(i <= n /\ s[i].len > 0 /\ same(i) # {})
    BY <2>1, <2>3
  <2> QED BY <2>2, <2>3
<1> HIDE DEF b
<1> QED BY <1>1, <1>2 DEF Stats

LEMMA StoredIs ==
  ASSUME NEW s \in Stats, NEW n \in 0..MAX_STAT
  PROVE  /\ Programs!Stored(s, n) \in Files
         /\ Programs!Stored(s, n).count = n
         /\ \A i \in 1..n :
              /\ Programs!Stored(s, n).stats[i].len = s[i].len
              /\ s[i].len > 0 => Programs!Stored(s, n).stats[i].data = s[i].data
<1> DEFINE rec(i) == IF i > n THEN Programs!NewStat
                     ELSE IF s[i].len > 0 THEN s[i] ELSE [data |-> NoText, len |-> s[i].len]
<1>1. Programs!Stored(s, n) = [count |-> n, stats |-> [i \in Stat |-> rec(i)]]
  BY DEF Programs!Stored, Stat
<1>2. ASSUME NEW i \in Stat
      PROVE  rec(i) \in Record /\ (i <= n => rec(i).len = s[i].len /\ (s[i].len > 0 => rec(i).data = s[i].data))
  <2>1. s[i] \in Record
    BY DEF Stats
  <2>2. n \in Int /\ i \in Int
    BY StatIs
  <2>3. CASE i > n
    BY <2>2, <2>3, NewStatTyped
  <2>4. CASE ~(i > n) /\ s[i].len > 0
    BY <2>1, <2>4
  <2>5. CASE ~(i > n) /\ ~(s[i].len > 0)
    BY <2>1, <2>5 DEF Record, Known
  <2> QED BY <2>3, <2>4, <2>5
<1> HIDE DEF rec
<1>3. 1..n \subseteq Stat
  BY StatIs
<1> QED BY <1>1, <1>2, <1>3 DEF Files, Stats

(* What is closed and stored tells what the open board holds.              *)
LEMMA ClosedHolds ==
  ASSUME NEW s \in Stats, NEW n \in 0..MAX_STAT, NEW g \in [Stat -> Known], Holds(s, n, g)
  PROVE  /\ Holds(Programs!Bound(s, n), n, g)
         /\ Tells(Programs!Stored(Programs!Bound(s, n), n).stats, n, g)
<1> DEFINE b == Programs!Bound(s, n)
<1>1. b \in Stats /\ 1..n \subseteq Stat
  BY BoundIs, StatIs
<1>2. ASSUME NEW i \in 1..n
      PROVE  /\ b[i].len = 0 <=> g[i] = NoText
             /\ b[i].data = g[i]
             /\ b[i].len < 0 => -b[i].len \in 1..(i - 1) /\ g[-b[i].len] = g[i]
  <2>1. /\ b[i].data = s[i].data
        /\ \/ b[i].len = s[i].len
           \/ /\ s[i].len > 0 /\ b[i].len < 0 /\ -b[i].len \in 1..(i - 1)
              /\ s[-b[i].len].data = s[i].data
    BY <1>1, BoundIs
  <2>2. \A j \in 1..n : s[j].data = g[j]
    BY DEF Holds
  <2>3. /\ s[i].len = 0 <=> g[i] = NoText
        /\ s[i].len < 0 => -s[i].len \in 1..(i - 1) /\ g[-s[i].len] = g[i]
    BY DEF Holds, Tells
  <2>4. s[i].len \in Int /\ b[i].len \in Int /\ 1..(i - 1) \subseteq 1..n
    BY <1>1 DEF Stats, Record
  <2> HIDE DEF b
  <2>5. CASE b[i].len = s[i].len
    BY <2>1, <2>2, <2>3, <2>5
  <2>6. CASE s[i].len > 0 /\ b[i].len < 0 /\ -b[i].len \in 1..(i - 1)
             /\ s[-b[i].len].data = s[i].data
    BY <2>1, <2>2, <2>3, <2>4, <2>6
  <2> QED BY <2>1, <2>5, <2>6
<1> HIDE DEF b
<1>3. Holds(b, n, g)
  BY <1>2 DEF Holds, Tells
<1>4. \A i \in 1..n : /\ Programs!Stored(b, n).stats[i].len = b[i].len
                      /\ b[i].len > 0 => Programs!Stored(b, n).stats[i].data = b[i].data
  BY <1>1, StoredIs
<1>5. Tells(Programs!Stored(b, n).stats, n, g)
  BY <1>2, <1>4 DEF Tells
<1> QED BY <1>3, <1>5 DEF b

LEMMA LoadStatIs ==
  ASSUME NEW f \in Files, NEW was \in Stats, NEW k \in Stat
  PROVE  LET now == Programs!LoadStat(f, was, k)
             rec == f.stats[k]
         IN /\ now \in Stats
            /\ \A i \in Stat \ {k} : now[i] = was[i]
            /\ k > f.count => now = was
            /\ k <= f.count /\ rec.len > 0 => now[k] = rec
            /\ k <= f.count /\ rec.len = 0 => now[k].len = 0 /\ now[k].data = was[k].data
            /\ k <= f.count /\ rec.len < 0 /\ -rec.len # k => now[k] = was[-rec.len]
<1> DEFINE rec    == f.stats[k]
           loaded == [was EXCEPT ![k].len = rec.len]
<1>1. rec \in Record /\ was[k] \in Record /\ rec.len \in Int /\ f.count \in Int /\ k \in Int
  BY StatIs DEF Files, Stats, Record
<1>2. /\ loaded \in Stats /\ loaded[k].len = rec.len /\ loaded[k].data = was[k].data
      /\ \A i \in Stat \ {k} : loaded[i] = was[i]
  BY <1>1 DEF Stats, Record
<1>3. rec.len < 0 => -rec.len \in Stat
  BY <1>1, StatIs DEF Record
<1>4. Programs!LoadStat(f, was, k) =
        IF k > f.count THEN was
        ELSE IF rec.len > 0 THEN [was EXCEPT ![k] = rec]
        ELSE IF rec.len < 0 THEN [was EXCEPT ![k] = loaded[-rec.len]]
        ELSE loaded
  BY DEF Programs!LoadStat
<1> HIDE DEF rec, loaded
<1>5. CASE k > f.count
  BY <1>1, <1>4, <1>5 DEF rec
<1>6. CASE ~(k > f.count) /\ rec.len > 0
  BY <1>1, <1>4, <1>6 DEF Stats, rec
<1>7. CASE ~(k > f.count) /\ rec.len < 0
  BY <1>1, <1>2, <1>3, <1>4, <1>7 DEF Stats, rec
<1>8. CASE ~(k > f.count) /\ rec.len = 0
  BY <1>1, <1>2, <1>4, <1>8 DEF rec
<1> QED BY <1>1, <1>5, <1>6, <1>7, <1>8

(* Opening goes through the slots one by one.                              *)
LEMMA BoardOpenIs ==
  ASSUME NEW f \in Files, NEW s \in Stats
  PROVE  \E o \in [0..MAX_STAT -> Stats] :
           /\ o[0] = s
           /\ \A k \in Stat : o[k] = Programs!LoadStat(f, o[k - 1], k)
           /\ Programs!BoardOpen(f, s) = o[MAX_STAT]
<1> DEFINE F       == [p \in Stats \X Nat |->
                        IF p[2] \in Stat THEN Programs!LoadStat(f, p[1], p[2]) ELSE p[1]]
           step(g) == [k \in 0..MAX_STAT |->
                        IF k = 0 THEN s ELSE Programs!LoadStat(f, g[k - 1], k)]
           o       == CHOOSE g : g = step(g)
<1>1. F \in [Stats \X Nat -> Stats]
  BY LoadStatIs
<1>2. PICK g \in [0..MAX_STAT -> Stats] : Iterates(g, MAX_STAT, s, F)
  BY <1>1, IterationExists, StatIs
<1>3. g = step(g)
  <2>1. ASSUME NEW k \in 1..MAX_STAT PROVE g[k] = Programs!LoadStat(f, g[k - 1], k)
    <3>1. g[k - 1] \in Stats /\ k \in Nat /\ k \in Stat
      BY StatIs
    <3>2. F[<<g[k - 1], k>>] = Programs!LoadStat(f, g[k - 1], k)
      BY <3>1
    <3> QED BY <1>2, <3>2 DEF Iterates
  <2> QED BY <1>2, <2>1, StatIs DEF Iterates
<1>4. o = step(o)
  BY <1>3
<1>5. Programs!BoardOpen(f, s) = o[MAX_STAT]
  BY DEF Programs!BoardOpen
<1> HIDE DEF o, F
<1>6. DOMAIN o = 0..MAX_STAT /\ o[0] = s
  BY <1>4, StatIs
<1>7. \A k \in Stat : o[k] = Programs!LoadStat(f, o[k - 1], k)
  BY <1>4, StatIs
<1>8. o \in [0..MAX_STAT -> Stats]
  <2> DEFINE S == {k \in 0..MAX_STAT : o[k] \in Stats}
  <2>1. 0 \in S
    BY <1>6, StatIs
  <2>2. ASSUME NEW k \in 1..MAX_STAT, k - 1 \in S PROVE k \in S
    BY <1>7, <2>2, LoadStatIs, StatIs
  <2>3. 0..MAX_STAT \subseteq S
    <3> HIDE DEF S
    <3> QED BY <2>1, <2>2, UpTo, StatIs
  <2> QED BY <1>4, <2>3
<1> QED BY <1>5, <1>6, <1>7, <1>8

(* A board that tells what was given is opened with what was given, by a   *)
(* program of its own each, over whatever was there before.                *)
LEMMA OpenedHolds ==
  ASSUME NEW f \in Files, NEW s \in Stats, NEW g \in [Stat -> Known],
         Tells(f.stats, f.count, g)
  PROVE  /\ Programs!BoardOpen(f, s) \in Stats
         /\ \A i \in 1..f.count :
              IF g[i] = NoText
              THEN Programs!BoardOpen(f, s)[i].len = 0 /\ Programs!BoardOpen(f, s)[i].data = s[i].data
              ELSE Programs!BoardOpen(f, s)[i].len > 0 /\ Programs!BoardOpen(f, s)[i].data = g[i]
<1>1. PICK o \in [0..MAX_STAT -> Stats] :
        /\ o[0] = s
        /\ \A k \in Stat : o[k] = Programs!LoadStat(f, o[k - 1], k)
        /\ Programs!BoardOpen(f, s) = o[MAX_STAT]
  BY BoardOpenIs
<1> DEFINE Right(k, i) == IF g[i] = NoText THEN o[k][i].len = 0 /\ o[k][i].data = s[i].data
                          ELSE o[k][i].len > 0 /\ o[k][i].data = g[i]
           S == {k \in 0..MAX_STAT : /\ \A i \in 1..f.count : i <= k => Right(k, i)
                                     /\ \A i \in Stat : i > k => o[k][i] = s[i]}
<1>2. f.count \in 0..MAX_STAT /\ f.stats \in Stats
  BY DEF Files
<1>3. 0 \in S
  BY <1>1, <1>2, StatIs
<1>4. ASSUME NEW k \in 1..MAX_STAT, k - 1 \in S PROVE k \in S
  <2>1. /\ k \in Stat /\ k - 1 \in 0..MAX_STAT /\ o[k - 1] \in Stats
        /\ o[k] = Programs!LoadStat(f, o[k - 1], k)
    BY <1>1, StatIs
  <2>2. /\ \A i \in 1..f.count : i <= k - 1 => Right(k - 1, i)
        /\ \A i \in Stat : i > k - 1 => o[k - 1][i] = s[i]
    BY <1>4
  <2> DEFINE rec == f.stats[k]
  <2>3. /\ \A i \in Stat \ {k} : o[k][i] = o[k - 1][i]
        /\ k <= f.count /\ rec.len > 0 => o[k][k] = rec
        /\ k <= f.count /\ rec.len = 0 => o[k][k].len = 0 /\ o[k][k].data = o[k - 1][k].data
        /\ k <= f.count /\ rec.len < 0 /\ -rec.len # k => o[k][k] = o[k - 1][-rec.len]
    BY <2>1, LoadStatIs
  <2>4. ASSUME NEW i \in 1..f.count, i <= k, i # k PROVE Right(k, i)
    <3>1. i \in Stat \ {k} /\ i <= k - 1
      BY <1>2, <2>4, StatIs
    <3> QED BY <2>2, <2>3, <3>1
  <2>5. ASSUME k \in 1..f.count PROVE Right(k, k)
    <3>1. /\ rec.len = 0 <=> g[k] = NoText
          /\ rec.len > 0 => rec.data = g[k]
          /\ rec.len < 0 => -rec.len \in 1..(k - 1) /\ g[-rec.len] = g[k]
      BY <2>5 DEF Tells
    <3>2. rec.len \in Int /\ k <= f.count
      BY <1>2, <2>1, <2>5 DEF Stats, Record
    <3> HIDE DEF rec
    <3>3. CASE rec.len < 0
      <4>1. -rec.len \in 1..f.count /\ -rec.len <= k - 1 /\ -rec.len # k
        BY <1>2, <2>5, <3>1, <3>3
      <4>2. Right(k - 1, -rec.len)
        BY <2>2, <4>1
      <4>3. o[k][k] = o[k - 1][-rec.len] /\ g[-rec.len] = g[k] /\ g[k] # NoText
        BY <2>3, <3>1, <3>2, <3>3, <4>1
      <4> QED BY <4>2, <4>3
    <3>4. CASE rec.len = 0
      <4>1. o[k - 1][k] = s[k]
        BY <2>1, <2>2
      <4> QED BY <2>3, <3>1, <3>2, <3>4, <4>1
    <3>5. CASE rec.len > 0
      BY <2>3, <3>1, <3>2, <3>5
    <3> QED BY <3>2, <3>3, <3>4, <3>5
  <2>6. ASSUME NEW i \in Stat, i > k PROVE o[k][i] = s[i]
    <3>1. i \in Stat \ {k} /\ i > k - 1
      BY <2>6, StatIs
    <3> QED BY <2>2, <2>3, <3>1
  <2> QED BY <2>4, <2>5, <2>6
<1>5. 0..MAX_STAT \subseteq S
  <2> HIDE DEF S
  <2> QED BY <1>3, <1>4, UpTo, StatIs
<1>6. MAX_STAT \in S /\ o[MAX_STAT] \in Stats
  BY <1>5, StatIs
<1> QED BY <1>1, <1>2, <1>6

-----------------------------------------------------------------------------
(* Steps of an editor *)

(* An edit of the open board keeps what it does not lose.                  *)
LEMMA CloseKeeps ==
  ASSUME ProgramsInv, NEW s \in Stats, NEW n \in 0..MAX_STAT, Programs!BoardClose(s, n),
         given' \in [Board -> [Stat -> Known]],
         \A b \in Board \ {current} : given'[b] = given[b] /\ (b \in Lost => b \in Lost'),
         \A i \in Stat : i > n => given'[current][i] = NoText,
         current \notin Lost' => Holds(s, n, given'[current])
  PROVE  ProgramsInv'
<1> DEFINE b == Programs!Bound(s, n)
<1>1. /\ stats' = b /\ count' = n /\ current' = current
      /\ file' = [file EXCEPT ![current] = Programs!Stored(b, n)]
  BY DEF Programs!BoardClose
<1>2. b \in Stats
  BY BoundIs
<1>3. Programs!Stored(b, n) \in Files /\ Programs!Stored(b, n).count = n
  BY <1>2, StoredIs
<1>4. current \in Board /\ file \in [Board -> Files] /\ given'[current] \in [Stat -> Known]
  BY DEF ProgramsInv, ProgramsTyped
<1>5. /\ file'[current] = Programs!Stored(b, n)
      /\ \A c \in Board \ {current} : file'[c] = file[c]
      /\ file' \in [Board -> Files]
  BY <1>1, <1>3, <1>4
<1>6. current \notin Lost' => /\ Holds(b, n, given'[current])
                             /\ Tells(Programs!Stored(b, n).stats, n, given'[current])
  BY <1>4, ClosedHolds
<1> HIDE DEF b
<1>7. ProgramsTyped'
  BY <1>1, <1>2, <1>4, <1>5 DEF ProgramsTyped
<1>8. count' = file'[current'].count
  BY <1>1, <1>3, <1>5
<1>9. \A c \in Board, i \in Stat : i > file'[c].count => given'[c][i] = NoText
  BY <1>3, <1>5 DEF ProgramsInv
<1>10. ASSUME NEW c \in Board, c \notin Lost'
       PROVE  Tells(file'[c].stats, file'[c].count, given'[c])
  <2>1. CASE c = current
    BY <1>3, <1>5, <1>6, <1>10, <2>1
  <2>2. CASE c # current
    BY <1>5, <1>10, <2>2 DEF ProgramsInv
  <2> QED BY <2>1, <2>2
<1>11. current' \notin Lost' => Holds(stats', count', given'[current'])
  BY <1>1, <1>6
<1> QED BY <1>7, <1>8, <1>9, <1>10, <1>11 DEF ProgramsInv

(* Shutting the open board and opening b over s, whatever is in s, keeps   *)
(* all but b if something is left over.                                    *)
LEMMA OpenKeeps ==
  ASSUME ProgramsInv, NEW b \in Board, NEW s \in Stats,
         current' = b, file' = Programs!Closed,
         stats' = Programs!BoardOpen(Programs!Closed[b], s), count' = Programs!Closed[b].count,
         given' = given, shifted' = shifted, leftover \subseteq leftover',
         \/ b \in leftover'
         \/ \A i \in 1..count' : stats'[i].len = 0 => stats'[i].data = NoText
         \/ \A i \in Stat : s[i].data = NoText
  PROVE  ProgramsInv'
<1> DEFINE c == Programs!Stored(Programs!Bound(stats, count), count)
<1>1. /\ current \in Board /\ stats \in Stats /\ count \in 0..MAX_STAT
      /\ file \in [Board -> Files] /\ given \in [Board -> [Stat -> Known]]
  BY DEF ProgramsInv, ProgramsTyped
<1>2. c \in Files /\ c.count = count
  BY <1>1, BoundIs, StoredIs
<1>3. file' = [file EXCEPT ![current] = c]
  BY DEF Programs!Closed
<1>4. /\ file' \in [Board -> Files] /\ file'[current] = c
      /\ \A d \in Board \ {current} : file'[d] = file[d]
  BY <1>1, <1>2, <1>3
<1>5. Lost \subseteq Lost'
  BY DEF Lost
<1>6. ASSUME NEW d \in Board, d \notin Lost'
      PROVE  Tells(file'[d].stats, file'[d].count, given[d])
  <2>1. CASE d = current
    <3>1. Holds(stats, count, given[current])
      BY <1>5, <1>6, <2>1 DEF ProgramsInv
    <3>2. Tells(c.stats, count, given[current])
      BY <1>1, <3>1, ClosedHolds
    <3> QED BY <1>2, <1>4, <2>1, <3>2
  <2>2. CASE d # current
    BY <1>4, <1>5, <1>6, <2>2 DEF ProgramsInv
  <2> QED BY <2>1, <2>2
<1> HIDE DEF c
<1>7. file'[b] \in Files /\ given[b] \in [Stat -> Known] /\ count' = file'[b].count
      /\ stats' = Programs!BoardOpen(file'[b], s)
  BY <1>1, <1>4
<1>8. count' \in 0..MAX_STAT /\ stats' \in Stats
  <2>1. \E o \in [0..MAX_STAT -> Stats] : Programs!BoardOpen(file'[b], s) = o[MAX_STAT]
    BY <1>7, BoardOpenIs
  <2> QED BY <1>7, <2>1, StatIs DEF Files
<1>9. \A d \in Board, i \in Stat : i > file'[d].count => given[d][i] = NoText
  BY <1>2, <1>4 DEF ProgramsInv
<1>10. ASSUME b \notin Lost' PROVE Holds(stats', count', given[b])
  <2>1. Tells(file'[b].stats, count', given[b])
    BY <1>6, <1>7, <1>10
  <2>2. \A i \in 1..count' :
          IF given[b][i] = NoText THEN stats'[i].len = 0 /\ stats'[i].data = s[i].data
          ELSE stats'[i].len > 0 /\ stats'[i].data = given[b][i]
    BY <1>7, <2>1, OpenedHolds
  <2>3. 1..count' \subseteq Stat
    BY <1>8, StatIs
  <2>4. \A i \in 1..count' : given[b][i] = NoText => stats'[i].data = NoText
    BY <1>10, <2>2, <2>3 DEF Lost
  <2>5. \A i \in 1..count' : stats'[i].len \in Int
    BY <1>8, <2>3 DEF Stats, Record
  <2> QED BY <2>2, <2>4, <2>5 DEF Holds, Tells
<1>11. ProgramsTyped'
  BY <1>1, <1>4, <1>8 DEF ProgramsTyped
<1> QED BY <1>6, <1>7, <1>9, <1>10, <1>11 DEF ProgramsInv

LEMMA RemoveStatIs ==
  ASSUME NEW s \in Stats, NEW n \in 0..MAX_STAT, NEW i \in 1..n
  PROVE  /\ Programs!RemoveStat(s, i, n) \in Stats
         /\ \A j \in 1..(n - 1) :
              Programs!RemoveStat(s, i, n)[j] = IF j < i THEN s[j] ELSE s[j + 1]
<1>1. i \in Stat /\ n \in Nat /\ s[i] \in Record /\ 1..(n - 1) \subseteq Stat
  BY StatIs DEF Stats
<1>2. [s EXCEPT ![i].data = NoText] \in Stats
  BY <1>1 DEF Stats, Record, Known
<1>3. /\ Programs!Without(s, i, n) \in Stats
      /\ \A j \in Stat : Programs!Without(s, i, n)[j] = IF j \in i..(n - 1) THEN s[j + 1] ELSE s[j]
  <2>1. \A j \in Stat : j \in i..(n - 1) => j + 1 \in Stat
    BY StatIs
  <2>2. Programs!Without(s, i, n) = [j \in Stat |-> IF j \in i..(n - 1) THEN s[j + 1] ELSE s[j]]
    BY DEF Programs!Without, Stat
  <2> QED BY <2>1, <2>2 DEF Stats
<1>4. CASE i = n /\ s[i].len # 0 /\ \A j \in (1..n) \ {i} : s[j].data # s[i].data
  <2>1. Programs!RemoveStat(s, i, n) = [s EXCEPT ![i].data = NoText]
    BY <1>4 DEF Programs!RemoveStat
  <2> QED BY <1>1, <1>2, <1>4, <2>1 DEF Stats
<1>5. CASE ~(i = n /\ s[i].len # 0 /\ \A j \in (1..n) \ {i} : s[j].data # s[i].data)
  <2>1. Programs!RemoveStat(s, i, n) = Programs!Without(s, i, n)
    BY <1>5 DEF Programs!RemoveStat
  <2>2. \A j \in 1..(n - 1) : j \in i..(n - 1) <=> ~(j < i)
    BY <1>1
  <2> QED BY <1>1, <1>3, <2>1, <2>2
<1> QED BY <1>4, <1>5

(* Erasing an object moves nothing a binding names, or the board is lost.  *)
LEMMA EraseKeeps ==
  ASSUME ProgramsInv, NEW i \in Stat, Programs!Erase(i)
  PROVE  ProgramsInv'
<1> DEFINE s == Programs!RemoveStat(stats, i, count)
           g == [j \in Stat |-> IF j = count THEN NoText
                                ELSE IF j \in i..(count - 1) THEN given[current][j + 1]
                                ELSE given[current][j]]
<1>1. /\ current \in Board /\ stats \in Stats /\ count \in 1..MAX_STAT /\ i \in 1..count
      /\ given \in [Board -> [Stat -> Known]]
  BY StatIs DEF ProgramsInv, ProgramsTyped, Programs!Erase
<1>2. Programs!BoardClose(s, count - 1) /\ given' = [given EXCEPT ![current] = g]
  BY DEF Programs!Erase, Stat
<1>3. g \in [Stat -> Known]
  <2>1. \A j \in Stat : j \in i..(count - 1) => j + 1 \in Stat
    BY <1>1, StatIs
  <2> QED BY <1>1, <2>1 DEF Known
<1>4. s \in Stats /\ count - 1 \in 0..MAX_STAT
  <2>1. count \in 0..MAX_STAT /\ count - 1 \in 0..MAX_STAT
    BY <1>1, StatIs
  <2> QED BY <1>1, <2>1, RemoveStatIs
<1>5. /\ given' \in [Board -> [Stat -> Known]] /\ given'[current] = g
      /\ \A b \in Board \ {current} : given'[b] = given[b]
  BY <1>1, <1>2, <1>3
<1>6. Lost \subseteq Lost'
  BY DEF Lost, Programs!Erase
<1>7. ASSUME NEW j \in Stat, j > count - 1 PROVE g[j] = NoText
  <2>1. j > count => given[current][j] = NoText
    BY <1>1 DEF ProgramsInv
  <2> QED BY <1>1, <1>7, <2>1, StatIs
<1>8. ASSUME current \notin Lost' PROVE Holds(s, count - 1, g)
  <2>1. Holds(stats, count, given[current])
    BY <1>6, <1>8 DEF ProgramsInv
  <2>2. \A j \in i..count : ~(stats[j].len < 0)
    BY <1>8 DEF Lost, Programs!Erase
  <2>3. ASSUME NEW j \in 1..(count - 1)
        PROVE  /\ s[j].len = 0 <=> g[j] = NoText
               /\ s[j].len > 0 => s[j].data = g[j]
               /\ s[j].len < 0 => -s[j].len \in 1..(j - 1) /\ g[-s[j].len] = g[j]
               /\ s[j].data = g[j]
    <3>1. j \in Stat /\ j # count /\ s[j] = IF j < i THEN stats[j] ELSE stats[j + 1]
      BY <1>1, RemoveStatIs, StatIs
    <3> DEFINE k == IF j < i THEN j ELSE j + 1
    <3>2. k \in 1..count /\ s[j] = stats[k] /\ g[j] = given[current][k]
      BY <1>1, <3>1
    <3>3. /\ stats[k].len = 0 <=> given[current][k] = NoText
          /\ stats[k].len > 0 => stats[k].data = given[current][k]
          /\ stats[k].len < 0 => -stats[k].len \in 1..(k - 1)
                                   /\ given[current][-stats[k].len] = given[current][k]
          /\ stats[k].data = given[current][k]
      BY <2>1, <3>2 DEF Holds, Tells
    <3>4. ASSUME stats[k].len < 0 PROVE -s[j].len \in 1..(j - 1) /\ g[-s[j].len] = g[j]
      <4>1. j < i /\ k = j
        BY <1>1, <2>2, <3>2, <3>4
      <4>2. -s[j].len \in 1..(j - 1)
        BY <3>2, <3>3, <3>4, <4>1
      <4>3. -s[j].len \in Stat /\ -s[j].len # count /\ -s[j].len \notin i..(count - 1)
        BY <1>1, <4>1, <4>2, StatIs
      <4>4. g[-s[j].len] = given[current][-s[j].len]
        BY <4>3
      <4> QED BY <3>2, <3>3, <3>4, <4>2, <4>4
    <3> HIDE DEF k, g, s
    <3> QED BY <3>2, <3>3, <3>4
  <2> HIDE DEF s, g
  <2> QED BY <2>3 DEF Holds, Tells
<1> HIDE DEF s, g
<1> QED BY <1>2, <1>4, <1>5, <1>6, <1>7, <1>8, CloseKeeps

(* Giving an object a program, its sharers keep theirs.                    *)
LEMMA SaveKeeps ==
  ASSUME ProgramsInv, NEW i \in Stat, NEW t \in Known, Programs!SaveProgram(i, t)
  PROVE  ProgramsInv'
<1> DEFINE new == [data |-> t, len |-> IF t = NoText THEN 0 ELSE 1]
           own == IF stats[i].len < 0 THEN stats[-stats[i].len] ELSE stats[i]
           s   == [j \in Stat |-> IF j = i THEN new
                                  ELSE IF j <= count /\ stats[j].len = -i THEN own ELSE stats[j]]
           g   == [given[current] EXCEPT ![i] = t]
<1>1. /\ current \in Board /\ stats \in Stats /\ count \in 0..MAX_STAT /\ i \in 1..count
      /\ given \in [Board -> [Stat -> Known]]
  BY StatIs DEF ProgramsInv, ProgramsTyped, Programs!SaveProgram
<1>2. new \in Record
  BY StatIs DEF Record
<1>3. own \in Record
  <2>1. stats[i] \in Record
    BY <1>1 DEF Stats
  <2>2. stats[i].len < 0 => -stats[i].len \in Stat
    BY <2>1, StatIs DEF Record
  <2> QED BY <1>1, <2>1, <2>2 DEF Stats
<1>4. [Programs!Unbound(stats, i, count) EXCEPT ![i] = new] = s
  BY <1>1 DEF Programs!Unbound, Stat
<1>5. Programs!BoardClose(s, count) /\ given' = [given EXCEPT ![current] = g]
  BY <1>1, <1>4 DEF Programs!SaveProgram
<1>6. s \in Stats
  BY <1>1, <1>2, <1>3 DEF Stats
<1>7. Lost' = Lost
  BY DEF Lost, Programs!SaveProgram
<1>8. /\ given' \in [Board -> [Stat -> Known]] /\ given'[current] = g
      /\ \A b \in Board \ {current} : given'[b] = given[b]
  BY <1>1, <1>5
<1>9. ASSUME NEW j \in Stat, j > count PROVE g[j] = NoText
  BY <1>1, <1>9 DEF ProgramsInv
<1>10. ASSUME current \notin Lost PROVE Holds(s, count, g)
  <2>1. Holds(stats, count, given[current])
    BY <1>10 DEF ProgramsInv
  <2> DEFINE Fine(r, j) == /\ r.len = 0 <=> g[j] = NoText
                           /\ r.data = g[j]
                           /\ r.len < 0 => -r.len \in 1..(j - 1) /\ g[-r.len] = g[j]
  <2>2. ASSUME NEW j \in 1..count
        PROVE  /\ stats[j].len = 0 <=> given[current][j] = NoText
               /\ stats[j].data = given[current][j]
               /\ stats[j].len < 0 => -stats[j].len \in 1..(j - 1)
                                        /\ given[current][-stats[j].len] = given[current][j]
    BY <2>1 DEF Holds, Tells
  <2>3. /\ \A j \in 1..count : j \in Stat /\ stats[j].len \in Int
        /\ g[i] = t /\ \A j \in 1..count : j # i => g[j] = given[current][j]
    BY <1>1, StatIs DEF Stats, Record
  <2>4. ASSUME NEW j \in 1..count PROVE Fine(s[j], j)
    <3>1. CASE j = i
      <4>1. s[j] = new
        BY <2>3, <3>1
      <4> QED BY <2>3, <3>1, <4>1, ProgramsAssumption
    <3>2. CASE j # i /\ stats[j].len = -i
      <4>1. s[j] = own
        BY <2>3, <3>2
      <4>2. stats[j].len < 0 /\ i \in 1..(j - 1) /\ given[current][i] = given[current][j]
        BY <1>1, <2>2, <3>2
      <4> DEFINE m == IF stats[i].len < 0 THEN -stats[i].len ELSE i
      <4>3. m \in 1..i /\ own = stats[m] /\ given[current][m] = given[current][i]
        BY <1>1, <2>2
      <4>4. m \in 1..count /\ m <= j - 1
        BY <1>1, <4>2, <4>3
      <4> HIDE DEF m, own
      <4>5. /\ stats[m].len = 0 <=> g[j] = NoText
            /\ stats[m].data = g[j]
        BY <2>2, <2>3, <3>2, <4>2, <4>3, <4>4
      <4>6. ASSUME stats[m].len < 0
            PROVE  -stats[m].len \in 1..(j - 1) /\ g[-stats[m].len] = g[j]
        <5>1. -stats[m].len \in 1..(m - 1) /\ given[current][-stats[m].len] = given[current][m]
          BY <2>2, <4>4, <4>6
        <5>2. -stats[m].len \in 1..count /\ -stats[m].len # i /\ -stats[m].len \in 1..(j - 1)
          BY <1>1, <4>3, <4>4, <5>1
        <5> QED BY <2>3, <3>2, <4>2, <4>3, <5>1, <5>2
      <4> QED BY <4>1, <4>3, <4>5, <4>6
    <3>3. CASE j # i /\ stats[j].len # -i
      <4>1. s[j] = stats[j]
        BY <2>3, <3>3
      <4>2. ASSUME stats[j].len < 0 PROVE -stats[j].len \in 1..(j - 1) /\ g[-stats[j].len] = g[j]
        <5>1. -stats[j].len \in 1..(j - 1) /\ given[current][-stats[j].len] = given[current][j]
          BY <2>2, <4>2
        <5>2. -stats[j].len \in 1..count /\ -stats[j].len # i
          BY <1>1, <2>3, <3>3, <5>1
        <5> QED BY <2>3, <3>3, <5>1, <5>2
      <4> HIDE DEF g, s
      <4> QED BY <2>2, <2>3, <3>3, <4>1, <4>2
    <3> QED BY <3>1, <3>2, <3>3
  <2> HIDE DEF s, g
  <2> QED BY <2>4 DEF Holds, Tells
<1> HIDE DEF s, g
<1> QED BY <1>1, <1>5, <1>6, <1>7, <1>8, <1>9, <1>10, CloseKeeps

LEMMA ClearKeeps ==
  ASSUME ProgramsInv, Programs!ClearBoard
  PROVE  ProgramsInv'
<1>1. current \in Board /\ stats \in Stats /\ count \in 0..MAX_STAT /\ given \in [Board -> [Stat -> Known]]
  BY DEF ProgramsInv, ProgramsTyped
<1> DEFINE One(s, k) == Programs!ClearLast(s, count - k + 1)
           F       == [p \in Stats \X Nat |-> IF p[2] \in Stat THEN One(p[1], p[2]) ELSE p[1]]
           step(g) == [k \in 0..MAX_STAT |-> IF k = 0 THEN stats ELSE One(g[k - 1], k)]
           c       == CHOOSE g : g = step(g)
<1>2. ASSUME NEW s \in Stats, NEW k \in Stat PROVE One(s, k) \in Stats
  <2>1. count - k + 1 > 0 => count - k + 1 \in 0..MAX_STAT /\ count - k + 1 \in 1..(count - k + 1)
    BY <1>1, StatIs
  <2> QED BY <2>1, RemoveStatIs DEF Programs!ClearLast
<1>3. F \in [Stats \X Nat -> Stats]
  BY <1>2
<1>4. PICK g \in [0..MAX_STAT -> Stats] : Iterates(g, MAX_STAT, stats, F)
  BY <1>1, <1>3, IterationExists, StatIs
<1>5. g = step(g)
  <2>1. ASSUME NEW k \in 1..MAX_STAT PROVE g[k] = One(g[k - 1], k)
    <3>1. g[k - 1] \in Stats /\ k \in Nat /\ k \in Stat
      BY StatIs
    <3>2. F[<<g[k - 1], k>>] = One(g[k - 1], k)
      BY <3>1
    <3> QED BY <1>4, <3>2 DEF Iterates
  <2> HIDE DEF One
  <2> QED BY <1>4, <2>1, StatIs DEF Iterates
<1>6. c = step(c)
  BY <1>5
<1>7. /\ Programs!BoardClose(c[MAX_STAT], 0)
      /\ given' = [given EXCEPT ![current] = [i \in Stat |-> NoText]]
      /\ shifted' = shifted \ {current} /\ leftover' = leftover \ {current}
  BY DEF Programs!ClearBoard, Stat
<1> HIDE DEF c, F, One
<1>8. c[MAX_STAT] \in Stats
  <2> DEFINE S == {k \in 0..MAX_STAT : c[k] \in Stats}
  <2>1. 0 \in S
    BY <1>1, <1>6, StatIs
  <2>2. ASSUME NEW k \in 1..MAX_STAT, k - 1 \in S PROVE k \in S
    BY <1>2, <1>6, <2>2, StatIs
  <2>3. 0..MAX_STAT \subseteq S
    <3> HIDE DEF S
    <3> QED BY <2>1, <2>2, UpTo, StatIs
  <2> QED BY <2>3, StatIs
<1>9. /\ given' \in [Board -> [Stat -> Known]] /\ \A i \in Stat : given'[current][i] = NoText
      /\ \A b \in Board \ {current} : given'[b] = given[b]
  BY <1>1, <1>7 DEF Known
<1>10. \A b \in Board \ {current} : b \in Lost => b \in Lost'
  BY <1>7 DEF Lost
<1>11. Holds(c[MAX_STAT], 0, given'[current])
  BY DEF Holds, Tells
<1>12. 0 \in 0..MAX_STAT
  BY StatIs
<1> QED BY <1>7, <1>8, <1>9, <1>10, <1>11, <1>12, CloseKeeps

LEMMA ProgramsBegin == EngineInit => ProgramsInv
<1> SUFFICES ASSUME Programs!Init PROVE ProgramsInv
  BY DEF EngineInit
<1>1. /\ current \in Board /\ stats = [i \in Stat |-> Programs!NewStat] /\ count = 0
      /\ file = [b \in Board |-> Programs!Empty]
      /\ given = [b \in Board |-> [i \in Stat |-> NoText]]
      /\ Programs!Empty = [count |-> 0, stats |-> [i \in Stat |-> Programs!NewStat]]
  BY DEF Programs!Init, Programs!Fresh, Programs!Empty, Stat
<1>2. stats \in Stats /\ Programs!Empty \in Files /\ Programs!Empty.count = 0
  BY <1>1, NewStatTyped, StatIs DEF Stats, Files
<1>3. ProgramsTyped
  BY <1>1, <1>2, StatIs DEF ProgramsTyped, Known
<1>4. count = file[current].count /\ \A b \in Board : file[b].count = 0
  BY <1>1, <1>2
<1>5. \A b \in Board : Tells(file[b].stats, 0, given[b])
  BY DEF Tells
<1>6. Holds(stats, 0, given[current])
  BY DEF Holds, Tells
<1> QED BY <1>1, <1>3, <1>4, <1>5, <1>6 DEF ProgramsInv

LEMMA ProgramsStep ==
  ASSUME ProgramsInv, Programs!Next
  PROVE  ProgramsInv'
<1>1. /\ current \in Board /\ stats \in Stats /\ count \in 0..MAX_STAT
      /\ given \in [Board -> [Stat -> Known]]
      /\ \A i \in Stat : i > count => given[current][i] = NoText
      /\ current \notin Lost => Holds(stats, count, given[current])
  BY DEF ProgramsInv, ProgramsTyped
<1>2. CASE Programs!EditOther
  <2>1. Programs!BoardClose(stats, count) /\ given' = given /\ Lost' = Lost
    BY <1>2 DEF Programs!EditOther, Lost
  <2> QED BY <1>1, <2>1, CloseKeeps
<1>3. CASE Programs!PlaceElement
  <2> DEFINE s == [stats EXCEPT ![count + 1] = Programs!NewStat]
  <2>1. /\ count < MAX_STAT /\ Programs!BoardClose(s, count + 1)
        /\ given' = given /\ Lost' = Lost
    BY <1>3 DEF Programs!PlaceElement, Programs!AddStat, Lost
  <2>2. count + 1 \in 0..MAX_STAT /\ count + 1 \in Stat /\ s \in Stats
    BY <1>1, <2>1, NewStatTyped, StatIs DEF Stats
  <2>3. ASSUME current \notin Lost PROVE Holds(s, count + 1, given[current])
    <3>1. Tells(stats, count, given[current]) /\ \A i \in 1..count : stats[i].data = given[current][i]
      BY <1>1, <2>3 DEF Holds
    <3>2. s[count + 1] = Programs!NewStat /\ given[current][count + 1] = NoText
      BY <1>1, <2>2, StatIs DEF Stats
    <3>3. \A i \in 1..count : i \in Stat /\ i # count + 1 /\ s[i] = stats[i]
      BY <1>1, <2>2, StatIs DEF Stats
    <3>4. \A i \in 1..(count + 1) : i = count + 1 \/ i \in 1..count
      BY <1>1
    <3> HIDE DEF s
    <3> QED BY <3>1, <3>2, <3>3, <3>4, NewStatTyped DEF Holds, Tells
  <2>4. \A i \in Stat : i > count + 1 => given[current][i] = NoText
    BY <1>1, StatIs
  <2> HIDE DEF s
  <2> QED BY <1>1, <2>1, <2>2, <2>3, <2>4, CloseKeeps
<1>4. CASE Programs!ClearBoard
  BY <1>4, ClearKeeps
<1>5. ASSUME NEW i \in Stat, Programs!Erase(i) PROVE ProgramsInv'
  BY <1>5, EraseKeeps
<1>6. ASSUME NEW i \in Stat, NEW t \in Known, Programs!SaveProgram(i, t) PROVE ProgramsInv'
  BY <1>6, SaveKeeps
<1>7. ASSUME NEW b \in Board, Programs!Opened(b, Programs!Closed) PROVE ProgramsInv'
  <2>1. /\ current' = b /\ file' = Programs!Closed
        /\ stats' = Programs!BoardOpen(Programs!Closed[b], stats) /\ count' = Programs!Closed[b].count
        /\ given' = given /\ shifted' = shifted
        /\ leftover' = IF Programs!Leftover(stats', count') THEN leftover \cup {b} ELSE leftover
    BY <1>7 DEF Programs!Opened
  <2>2. \/ b \in leftover'
        \/ \A i \in 1..count' : stats'[i].len = 0 => stats'[i].data = NoText
    BY <2>1 DEF Programs!Leftover
  <2>3. leftover \subseteq leftover'
    BY <2>1
  <2> QED BY <1>1, <2>1, <2>2, <2>3, OpenKeeps
<1>8. ASSUME NEW b \in Board, Programs!NewEditorSession(b) PROVE ProgramsInv'
  <2>1. /\ current' = b /\ file' = Programs!Closed
        /\ stats' = Programs!BoardOpen(Programs!Closed[b], Programs!Fresh)
        /\ count' = Programs!Closed[b].count
        /\ given' = given /\ shifted' = shifted /\ leftover' = leftover
    BY <1>8 DEF Programs!NewEditorSession
  <2>2. Programs!Fresh = [i \in Stat |-> Programs!NewStat]
    BY DEF Programs!Fresh, Stat
  <2>3. Programs!Fresh \in Stats /\ \A i \in Stat : Programs!Fresh[i].data = NoText
    BY <2>2, NewStatTyped DEF Stats
  <2> QED BY <2>1, <2>3, OpenKeeps
<1>9. \/ Programs!EditOther \/ Programs!PlaceElement \/ Programs!ClearBoard
      \/ \E b \in Board : Programs!Opened(b, Programs!Closed) \/ Programs!NewEditorSession(b)
      \/ \E i \in Stat : Programs!Erase(i) \/ \E t \in Known : Programs!SaveProgram(i, t)
  BY <1>1 DEF Programs!Next, Programs!WorldBytes, Programs!SwitchBoard, Stat, Known
<1> QED BY <1>2, <1>3, <1>4, <1>5, <1>6, <1>7, <1>8, <1>9

LEMMA ProgramsPlayed == ProgramsInv => ProgramsKept
<1> SUFFICES ASSUME ProgramsInv, NEW b \in Board, b \notin Lost
             PROVE  Programs!Played(file[b]) = given[b]
  BY DEF ProgramsKept, Programs!ProgramsKept, Lost
<1> DEFINE f == file[b]
           o == Programs!BoardOpen(f, Programs!Fresh)
<1>1. /\ f \in Files /\ given[b] \in [Stat -> Known] /\ Tells(f.stats, f.count, given[b])
      /\ \A i \in Stat : i > f.count => given[b][i] = NoText
  BY DEF ProgramsInv, ProgramsTyped
<1>2. Programs!Fresh \in Stats
  BY NewStatTyped DEF Stats, Programs!Fresh, Stat
<1>3. \A i \in 1..f.count :
        IF given[b][i] = NoText THEN o[i].len = 0 ELSE o[i].len > 0 /\ o[i].data = given[b][i]
  BY <1>1, <1>2, OpenedHolds
<1>4. Programs!Played(f) = [i \in Stat |-> IF i <= f.count THEN Programs!Runs(o, i) ELSE NoText]
  BY DEF Programs!Played, Stat
<1>5. f.count \in Nat
  BY <1>1, StatIs DEF Files
<1> HIDE DEF f, o
<1>6. ASSUME NEW i \in Stat
      PROVE  (IF i <= f.count THEN Programs!Runs(o, i) ELSE NoText) = given[b][i]
  <2>1. CASE i <= f.count
    <3>1. i \in 1..f.count
      BY <1>5, <2>1, StatIs
    <3> QED BY <1>3, <2>1, <3>1 DEF Programs!Runs
  <2>2. CASE ~(i <= f.count)
    BY <1>1, <1>5, <2>2, StatIs
  <2> QED BY <2>1, <2>2
<1> QED BY <1>1, <1>4, <1>6 DEF f

LEMMA ProgramsKeep == EngineSpec => []ProgramsInv
<1>1. ProgramsInv /\ [EngineNext]_<<part, eng, programsVars>> => ProgramsInv'
  <2> SUFFICES ASSUME ProgramsInv, [EngineNext]_<<part, eng, programsVars>> PROVE ProgramsInv'
    OBVIOUS
  <2>1. CASE EditProgram
    BY <2>1, ProgramsStep DEF EditProgram
  <2>2. CASE UNCHANGED programsVars
    BY <2>2 DEF programsVars, ProgramsInv, ProgramsTyped, Lost
  <2> QED BY <2>1, <2>2 DEF EngineNext, RunObject
<1> QED BY <1>1, ProgramsBegin, PTL DEF EngineSpec

(* Every object plays the program its author last saved (BoardClose,       *)
(* BoardOpen and the editor's saveProgram): through any bindings, edits,   *)
(* erasures, boards and sessions, unless the board lost it, for any number *)
(* of boards, objects and texts.                                           *)
THEOREM ProgramsKeptAlways == EngineSpec => []ProgramsKept
BY ProgramsKeep, ProgramsPlayed, PTL

-----------------------------------------------------------------------------
(* What runs: the state of a board, and what a step makes of it            *)

USE ScenesAssumption DEF Slot

(* Who touched an object is still remembered to have, wherever both stand. *)
AudienceKnown(e) ==
  \A k \in Slot : e.aud[k] # 0 =>
    /\ k <= e.n /\ e.stat[k].kind = "object" /\ e.aud[k] \in 1..e.n
    /\ <<e.stat[e.aud[k]].who, e.stat[k].who>> \in e.knock

TurnShaped(e) ==
  /\ LET r == e.run
     IN r = [slot |-> r.slot, near |-> r.near, whose |-> r.whose, ins |-> r.ins, said |-> r.said,
             last |-> r.last, cmd |-> r.cmd, stop |-> r.stop, become |-> r.become,
             shifted |-> r.shifted]
  /\ e.run.slot \in {0} \cup 2..MaxStats /\ e.run.ins \in Nat
  /\ e.run.shifted \in BOOLEAN /\ (~e.run.shifted => e.run.slot <= e.n)

Fit(e) ==
  /\ Shaped(e) /\ ToldApart(e) /\ e.stat[1].kind = "player"
  /\ e.aud \in [Slot -> 0..MaxStats] /\ AudienceKnown(e) /\ e.heard = TRUE
  /\ TurnShaped(e)

(* Every object of f is one of e, and where it was if it was locked and is *)
(* not w.                                                                  *)
Follows(e, f, w) ==
  \A j \in 1..f.n : f.stat[j].kind = "object" =>
    \E k \in 1..e.n :
      /\ e.stat[k].kind = "object" /\ e.stat[k].who = f.stat[j].who
      /\ (e.stat[k].lock /\ e.stat[k].who # w) => f.stat[j].lock /\ f.stat[j].pos = e.stat[k].pos

(* The same turn goes on in f.                                             *)
SameTurn(e, f) ==
  /\ f.run.slot = e.run.slot /\ (e.run.shifted => f.run.shifted)
  /\ f.run.ins = e.run.ins /\ f.run.cmd = e.run.cmd
  /\ f.run.last = e.run.last /\ f.run.become = e.run.become /\ f.run.said = e.run.said

(* The object whose turn it is stays in its slot or the turn knows it.     *)
SameSlot(e, f) ==
  ~f.run.shifted /\ e.run.slot # 0 => f.stat[e.run.slot].who = e.stat[e.run.slot].who

(* What adding and removing stats makes of e.                              *)
Becomes(e, f) == Fit(f) /\ SameTurn(e, f) /\ SameSlot(e, f) /\ \A w : Follows(e, f, w)

IsStat(v) ==
  v = [who |-> v.who, kind |-> v.kind, text |-> v.text, pos |-> v.pos, lock |-> v.lock,
       walk |-> v.walk, gone |-> v.gone]

LEMMA StatWith ==
  ASSUME NEW v, IsStat(v), NEW x
  PROVE  /\ LET u == [v EXCEPT !.gone = x]
            IN IsStat(u) /\ u.who = v.who /\ u.kind = v.kind /\ u.lock = v.lock /\ u.pos = v.pos
         /\ LET u == [v EXCEPT !.text = x]
            IN IsStat(u) /\ u.who = v.who /\ u.kind = v.kind /\ u.lock = v.lock /\ u.pos = v.pos
         /\ LET u == [v EXCEPT !.walk = x]
            IN IsStat(u) /\ u.who = v.who /\ u.kind = v.kind /\ u.lock = v.lock /\ u.pos = v.pos
         /\ LET u == [v EXCEPT !.lock = x]
            IN IsStat(u) /\ u.who = v.who /\ u.kind = v.kind /\ u.lock = x /\ u.pos = v.pos
         /\ LET u == [v EXCEPT !.pos = x]
            IN IsStat(u) /\ u.who = v.who /\ u.kind = v.kind /\ u.lock = v.lock /\ u.pos = x
BY DEF IsStat

LEMMA BecomesStill ==
  ASSUME NEW e, Fit(e)
  PROVE  Becomes(e, e)
BY DEF Becomes, SameTurn, SameSlot, Follows

LEMMA FollowsOn ==
  ASSUME NEW e, NEW f, NEW g, NEW w, Follows(e, f, w), Follows(f, g, w)
  PROVE  Follows(e, g, w)
<1> SUFFICES ASSUME NEW j \in 1..g.n, g.stat[j].kind = "object"
             PROVE  \E k \in 1..e.n :
                      /\ e.stat[k].kind = "object" /\ e.stat[k].who = g.stat[j].who
                      /\ (e.stat[k].lock /\ e.stat[k].who # w)
                           => g.stat[j].lock /\ g.stat[j].pos = e.stat[k].pos
  BY DEF Follows
<1>1. PICK m \in 1..f.n :
        /\ f.stat[m].kind = "object" /\ f.stat[m].who = g.stat[j].who
        /\ (f.stat[m].lock /\ f.stat[m].who # w) => g.stat[j].lock /\ g.stat[j].pos = f.stat[m].pos
  BY DEF Follows
<1>2. PICK k \in 1..e.n :
        /\ e.stat[k].kind = "object" /\ e.stat[k].who = f.stat[m].who
        /\ (e.stat[k].lock /\ e.stat[k].who # w) => f.stat[m].lock /\ f.stat[m].pos = e.stat[k].pos
  BY <1>1 DEF Follows
<1> QED BY <1>1, <1>2

LEMMA BecomesOn ==
  ASSUME NEW e, NEW f, NEW g, Becomes(e, f), Becomes(f, g)
  PROVE  Becomes(e, g)
<1>1. \A w : Follows(e, g, w)
  BY FollowsOn DEF Becomes
<1>2. SameTurn(e, g)
  BY DEF Becomes, SameTurn
<1>3. SameSlot(e, g)
  BY DEF Becomes, SameTurn, SameSlot
<1> QED BY <1>1, <1>2, <1>3 DEF Becomes

(* A change that moves nobody: the stats are who they were.                *)
Unmoved(e, f) ==
  /\ Shaped(f) /\ f.n = e.n
  /\ \A k \in Slot : f.stat[k].who = e.stat[k].who /\ f.stat[k].kind = e.stat[k].kind

LEMMA UnmovedFit ==
  ASSUME NEW e, NEW f, Fit(e), Unmoved(e, f),
         f.aud = e.aud, f.knock = e.knock, f.heard = e.heard,
         TurnShaped(f)
  PROVE  Fit(f)
<1>1. 1 \in Slot /\ 1..e.n \subseteq Slot /\ f.n \in Nat
  BY DEF Fit, Shaped, Unmoved
<1>2. ToldApart(f) /\ f.stat[1].kind = "player"
  BY <1>1 DEF ToldApart, Fit, Unmoved
<1>3. AudienceKnown(f)
  <2> SUFFICES ASSUME NEW k \in Slot, f.aud[k] # 0
               PROVE  /\ k <= f.n /\ f.stat[k].kind = "object" /\ f.aud[k] \in 1..f.n
                      /\ <<f.stat[f.aud[k]].who, f.stat[k].who>> \in f.knock
    BY DEF AudienceKnown
  <2>1. /\ k <= e.n /\ e.stat[k].kind = "object" /\ e.aud[k] \in 1..e.n
        /\ <<e.stat[e.aud[k]].who, e.stat[k].who>> \in e.knock
    BY DEF Fit, AudienceKnown
  <2>2. /\ f.aud[k] = e.aud[k] /\ f.stat[f.aud[k]].who = e.stat[e.aud[k]].who
        /\ f.stat[k].who = e.stat[k].who /\ f.stat[k].kind = e.stat[k].kind /\ f.n = e.n
    BY <1>1, <2>1 DEF Unmoved
  <2> QED BY <2>1, <2>2
<1> QED BY <1>2, <1>3 DEF Fit, Unmoved

LEMMA AddStatBecomes ==
  ASSUME NEW e, Fit(e), NEW kind, kind # "object"
  PROVE  /\ Becomes(e, AddStat(e, kind)) /\ AddStat(e, kind).run = e.run
         /\ AddStat(e, kind).panic = e.panic
<1>1. CASE e.n = MaxStats
  BY <1>1, BecomesStill DEF AddStat
<1>2. CASE e.n # MaxStats
  <2> DEFINE f == AddStat(e, kind)
  <2>1. /\ e = [n |-> e.n, stat |-> e.stat, aud |-> e.aud, pl |-> e.pl, run |-> e.run,
                knock |-> e.knock, heard |-> e.heard, panic |-> e.panic]
        /\ e.n \in 1..MaxStats /\ DOMAIN e.stat = Slot
    BY DEF Fit, Shaped
  <2>2. f = [n |-> e.n + 1, stat |-> [e.stat EXCEPT ![e.n + 1] = Plain(kind, Nobody)], aud |-> e.aud,
             pl |-> e.pl, run |-> e.run, knock |-> e.knock, heard |-> e.heard, panic |-> e.panic]
    BY <1>2, <2>1 DEF AddStat
  <2>3. /\ e.n + 1 \in Slot /\ f.stat[e.n + 1] = Plain(kind, Nobody)
        /\ \A k \in Slot \ {e.n + 1} : f.stat[k] = e.stat[k]
    BY <1>2, <2>1, <2>2
  <2>4. /\ f.n = e.n + 1 /\ f.aud = e.aud /\ f.run = e.run /\ f.knock = e.knock /\ f.heard = e.heard
        /\ f.panic = e.panic
    BY <2>2
  <2>5. /\ Plain(kind, Nobody).kind = kind /\ Plain(kind, Nobody).who = Nobody
    BY DEF Plain
  <2>6. Shaped(f)
    <3>1. f.n \in 1..MaxStats /\ DOMAIN f.stat = Slot
      BY <1>2, <2>1, <2>2
    <3>2. \A k \in Slot :
           f.stat[k] = [who |-> f.stat[k].who, kind |-> f.stat[k].kind, text |-> f.stat[k].text,
                        pos |-> f.stat[k].pos, lock |-> f.stat[k].lock, walk |-> f.stat[k].walk,
                        gone |-> f.stat[k].gone]
      BY <2>3 DEF Fit, Shaped, Plain
    <3> QED BY <2>2, <3>1, <3>2 DEF Shaped
  <2> HIDE DEF f
  <2>7. \A k \in 1..f.n : k = e.n + 1 \/ (k \in 1..e.n /\ k # e.n + 1 /\ k \in Slot)
    BY <2>1, <2>3, <2>4
  <2>8. ToldApart(f)
    <3> SUFFICES ASSUME NEW k \in 1..f.n, f.stat[k].kind = "object"
                 PROVE  f.stat[k].who # Nobody /\ \A j \in (1..f.n) \ {k} : f.stat[j].who # f.stat[k].who
      BY DEF ToldApart
    <3>1. k \in 1..e.n /\ f.stat[k] = e.stat[k]
      BY <2>3, <2>5, <2>7
    <3>2. f.stat[k].who # Nobody
      BY <3>1 DEF ToldApart, Fit
    <3>3. ASSUME NEW j \in (1..f.n) \ {k} PROVE f.stat[j].who # f.stat[k].who
      <4>1. CASE j = e.n + 1
        BY <2>3, <2>5, <3>2, <4>1
      <4>2. CASE j # e.n + 1
        <5>1. j \in (1..e.n) \ {k} /\ f.stat[j] = e.stat[j]
          BY <2>3, <2>7, <4>2
        <5> QED BY <3>1, <5>1 DEF ToldApart, Fit
      <4> QED BY <4>1, <4>2
    <3> QED BY <3>2, <3>3
  <2>9. f.stat[1].kind = "player"
    <3>1. 1 \in Slot \ {e.n + 1} /\ e.stat[1].kind = "player"
      BY <2>1 DEF Fit
    <3> QED BY <2>3, <3>1
  <2>10. AudienceKnown(f)
    <3> SUFFICES ASSUME NEW k \in Slot, f.aud[k] # 0
                 PROVE  /\ k <= f.n /\ f.stat[k].kind = "object" /\ f.aud[k] \in 1..f.n
                        /\ <<f.stat[f.aud[k]].who, f.stat[k].who>> \in f.knock
      BY DEF AudienceKnown
    <3>1. /\ k <= e.n /\ e.stat[k].kind = "object" /\ e.aud[k] \in 1..e.n
          /\ <<e.stat[e.aud[k]].who, e.stat[k].who>> \in e.knock
      BY <2>4 DEF Fit, AudienceKnown
    <3>2. k # e.n + 1 /\ e.aud[k] # e.n + 1 /\ e.aud[k] \in Slot
      BY <2>1, <3>1
    <3>3. f.stat[k] = e.stat[k] /\ f.stat[f.aud[k]] = e.stat[e.aud[k]] /\ f.aud[k] = e.aud[k]
      BY <2>3, <2>4, <3>2
    <3>4. k <= f.n /\ f.aud[k] \in 1..f.n
      BY <2>1, <2>4, <3>1, <3>3
    <3> QED BY <2>4, <3>1, <3>3, <3>4
  <2>11. TurnShaped(f)
    BY <2>1, <2>4 DEF Fit, TurnShaped
  <2>12. Fit(f)
    BY <2>4, <2>6, <2>8, <2>9, <2>10, <2>11 DEF Fit
  <2>13. SameTurn(e, f)
    BY <2>4 DEF SameTurn
  <2>14. SameSlot(e, f)
    <3>1. ~e.run.shifted => e.run.slot # e.n + 1 /\ e.run.slot \in {0} \cup Slot
      BY <2>1 DEF Fit, TurnShaped
    <3> QED BY <2>3, <2>4, <3>1 DEF SameSlot
  <2>15. ASSUME NEW w PROVE Follows(e, f, w)
    BY <2>3, <2>5, <2>7 DEF Follows
  <2> QED BY <2>4, <2>12, <2>13, <2>14, <2>15 DEF Becomes, f
<1> QED BY <1>1, <1>2

(* What a removal leaves in a slot stood there or above.                   *)
Formerly(e, i, k) == IF i <= k /\ k < e.n THEN k + 1 ELSE k

Removed(e, f, i) ==
  /\ Shaped(f) /\ f.n = e.n - 1 /\ f.panic = e.panic /\ f.heard = e.heard
  /\ f.aud = AudienceWithout(e.aud, i, e.n)
  /\ f.knock = {q \in e.knock : q[2] # e.stat[i].who}
  /\ f.run = [e.run EXCEPT !.shifted = @ \/ i <= e.run.slot]
  /\ \A k \in Slot :
       LET m == Formerly(e, i, k)
       IN /\ m \in Slot
          /\ f.stat[k].who = e.stat[m].who /\ f.stat[k].kind = e.stat[m].kind
          /\ f.stat[k].lock = e.stat[m].lock /\ f.stat[k].pos = e.stat[m].pos
  /\ \A k \in Slot : k < i => f.stat[k] = e.stat[k]

LEMMA RemoveStatLeaves ==
  ASSUME NEW e, Fit(e), NEW i \in 2..e.n
  PROVE  Removed(e, RemoveStat(e, i), i)
<1> DEFINE alone == e.stat[i].text # <<>> /\ \A k \in 2..e.n : k # i => e.stat[k].text # e.stat[i].text
           freed == [e.stat EXCEPT ![i].gone = alone]
           left  == [k \in Slot |-> IF i <= k /\ k < e.n THEN freed[k + 1] ELSE freed[k]]
           f     == RemoveStat(e, i)
<1>1. /\ e = [n |-> e.n, stat |-> e.stat, aud |-> e.aud, pl |-> e.pl, run |-> e.run,
              knock |-> e.knock, heard |-> e.heard, panic |-> e.panic]
      /\ e.n \in 1..MaxStats /\ DOMAIN e.stat = Slot /\ i \in Slot
  BY DEF Fit, Shaped
<1>2. f = [n |-> e.n - 1, stat |-> left, aud |-> AudienceWithout(e.aud, i, e.n), pl |-> e.pl,
           run |-> [e.run EXCEPT !.shifted = @ \/ i <= e.run.slot],
           knock |-> {q \in e.knock : q[2] # e.stat[i].who}, heard |-> e.heard, panic |-> e.panic]
  <2> DEFINE run == [e.run EXCEPT !.shifted = @ \/ i <= e.run.slot]
             aud == AudienceWithout(e.aud, i, e.n)
             knocks == {q \in e.knock : q[2] # e.stat[i].who}
  <2>1. f = [e EXCEPT !.n = @ - 1, !.stat = left, !.aud = aud, !.run = run, !.knock = knocks]
    BY DEF RemoveStat
  <2> HIDE DEF f, alone, freed, left, run, aud, knocks
  <2>2. f = [n |-> e.n - 1, stat |-> left, aud |-> aud, pl |-> e.pl, run |-> run, knock |-> knocks,
             heard |-> e.heard, panic |-> e.panic]
    BY <1>1, <2>1
  <2> QED BY <2>2 DEF run, aud, knocks
<1> HIDE DEF f, alone
<1>3. ASSUME NEW k \in Slot
      PROVE  /\ IsStat(freed[k]) /\ freed[k].who = e.stat[k].who /\ freed[k].kind = e.stat[k].kind
             /\ freed[k].lock = e.stat[k].lock /\ freed[k].pos = e.stat[k].pos
             /\ k # i => freed[k] = e.stat[k]
  <2>1. IsStat(e.stat[k])
    BY DEF Fit, Shaped, IsStat
  <2>2. freed[k] = IF k = i THEN [e.stat[k] EXCEPT !.gone = alone] ELSE e.stat[k]
    BY <1>1
  <2> HIDE DEF freed
  <2>3. CASE k = i
    BY <2>1, <2>2, <2>3 DEF IsStat
  <2>4. CASE k # i
    BY <2>1, <2>2, <2>4
  <2> QED BY <2>3, <2>4
<1> HIDE DEF freed
<1>4. ASSUME NEW k \in Slot
      PROVE  LET m == IF i <= k /\ k < e.n THEN k + 1 ELSE k
             IN m \in Slot /\ left[k] = freed[m]
  BY <1>1
<1>5. DOMAIN left = Slot /\ e.n - 1 \in 1..MaxStats
  BY <1>1
<1> HIDE DEF left
<1>6. ASSUME NEW k \in Slot
      PROVE  LET m == IF i <= k /\ k < e.n THEN k + 1 ELSE k
             IN /\ m \in Slot /\ IsStat(left[k])
                /\ left[k].who = e.stat[m].who /\ left[k].kind = e.stat[m].kind
                /\ left[k].lock = e.stat[m].lock /\ left[k].pos = e.stat[m].pos
                /\ k < i => left[k] = e.stat[k]
  <2> DEFINE m == IF i <= k /\ k < e.n THEN k + 1 ELSE k
  <2>1. m \in Slot /\ left[k] = freed[m] /\ (k < i => m = k /\ k # i)
    BY <1>1, <1>4
  <2> HIDE DEF m
  <2>2. /\ IsStat(left[k]) /\ left[k].who = e.stat[m].who /\ left[k].kind = e.stat[m].kind
        /\ left[k].lock = e.stat[m].lock /\ left[k].pos = e.stat[m].pos
        /\ k < i => left[k] = e.stat[k]
    BY <1>3, <2>1
  <2> QED BY <2>1, <2>2 DEF m
<1>7. /\ f.n = e.n - 1 /\ f.panic = e.panic /\ f.heard = e.heard /\ f.stat = left
      /\ f.aud = AudienceWithout(e.aud, i, e.n)
      /\ f.knock = {q \in e.knock : q[2] # e.stat[i].who}
      /\ f.run = [e.run EXCEPT !.shifted = @ \/ i <= e.run.slot]
  BY <1>2
<1>8. Shaped(f)
  BY <1>2, <1>5, <1>6, <1>7 DEF Shaped, IsStat
<1> QED BY <1>6, <1>7, <1>8 DEF f, Formerly, Removed

(* Who is left touched what is left, whatever numbers they have now.       *)
LEMMA RemoveStatAudience ==
  ASSUME NEW e, Fit(e), NEW i \in 2..e.n
  PROVE  /\ RemoveStat(e, i).aud \in [Slot -> 0..MaxStats]
         /\ AudienceKnown(RemoveStat(e, i))
<1> DEFINE f      == RemoveStat(e, i)
           old(k) == Formerly(e, i, k)
           named  == [k \in Slot |-> IF e.aud[k] = i THEN 0
                                     ELSE IF e.aud[k] > i THEN e.aud[k] - 1 ELSE e.aud[k]]
<1>10. Removed(e, f, i)
  BY RemoveStatLeaves
<1> HIDE DEF f
<1>1. /\ e.n \in 1..MaxStats /\ i \in Slot /\ e.aud \in [Slot -> 0..MaxStats]
  BY DEF Fit, Shaped
<1>2. /\ f.aud = AudienceWithout(e.aud, i, e.n) /\ f.n = e.n - 1
      /\ f.knock = {q \in e.knock : q[2] # e.stat[i].who}
      /\ \A k \in Slot : /\ old(k) \in Slot /\ f.stat[k].who = e.stat[old(k)].who
                         /\ f.stat[k].kind = e.stat[old(k)].kind
  BY <1>10 DEF Removed
<1>9. \A k \in Slot : old(k) = IF i <= k /\ k < e.n THEN k + 1 ELSE k
  BY DEF Formerly
<1>3. f.aud = [k \in Slot |-> IF k >= e.n THEN 0 ELSE IF k >= i THEN named[k + 1] ELSE named[k]]
  BY <1>2 DEF AudienceWithout
<1> HIDE DEF old
<1>4. named \in [Slot -> 0..MaxStats]
  BY <1>1
<1>5. ASSUME NEW k \in Slot
      PROVE  /\ f.aud[k] \in 0..MaxStats
             /\ f.aud[k] # 0 => k < e.n /\ f.aud[k] = named[old(k)]
  <2> HIDE DEF named
  <2>1. CASE k >= e.n
    BY <1>1, <1>3, <1>9, <2>1
  <2>2. CASE k < e.n /\ k >= i
    <3>1. k + 1 \in Slot
      BY <1>1, <2>2
    <3> QED BY <1>1, <1>3, <1>4, <1>9, <2>2, <3>1
  <2>3. CASE k < e.n /\ k < i
    BY <1>1, <1>3, <1>4, <1>9, <2>3
  <2> QED BY <1>1, <2>1, <2>2, <2>3
<1>6. ASSUME NEW k \in Slot, f.aud[k] # 0
      PROVE  /\ k <= f.n /\ f.stat[k].kind = "object" /\ f.aud[k] \in 1..f.n
             /\ <<f.stat[f.aud[k]].who, f.stat[k].who>> \in f.knock
  <2> DEFINE m == old(k)
             a == e.aud[m]
  <2>1. k < e.n /\ f.aud[k] = named[m] /\ m \in Slot /\ m # i
    <3>1. k < e.n /\ f.aud[k] = named[old(k)] /\ old(k) \in Slot
      BY <1>2, <1>5, <1>6
    <3> QED BY <1>1, <1>9, <3>1
  <2>2. a # 0 /\ a # i /\ f.aud[k] = IF a > i THEN a - 1 ELSE a
    BY <1>1, <1>6, <2>1
  <2> HIDE DEF m, a, named
  <2>3. /\ m <= e.n /\ e.stat[m].kind = "object" /\ a \in 1..e.n
        /\ <<e.stat[a].who, e.stat[m].who>> \in e.knock
    BY <2>1, <2>2 DEF Fit, AudienceKnown, a
  <2>4. f.aud[k] \in 1..f.n /\ f.aud[k] \in Slot /\ old(f.aud[k]) = a
    <3>3. f.n = e.n - 1
      BY <1>2
    <3>4. (IF a > i THEN a - 1 ELSE a) \in 1..(e.n - 1)
      BY <1>1, <2>2, <2>3
    <3>1. f.n = e.n - 1 /\ f.aud[k] \in 1..f.n
      BY <2>2, <3>3, <3>4
    <3>2. f.aud[k] \in Slot
      BY <1>1, <3>1
    <3> QED BY <1>1, <1>9, <2>2, <2>3, <3>1, <3>2
  <2>5. f.stat[f.aud[k]].who = e.stat[a].who /\ f.stat[k].who = e.stat[m].who
        /\ f.stat[k].kind = e.stat[m].kind
    BY <1>2, <2>4 DEF m
  <2>6. e.stat[m].who # e.stat[i].who
    <3>1. m \in 1..e.n /\ i \in (1..e.n) \ {m}
      BY <1>1, <2>1, <2>3
    <3> QED BY <2>3, <3>1 DEF Fit, ToldApart
  <2>7. k <= f.n
    <3>1. f.n = e.n - 1
      BY <1>2
    <3> QED BY <1>1, <2>1, <3>1
  <2>8. <<e.stat[a].who, e.stat[m].who>>[2] = e.stat[m].who
    OBVIOUS
  <2>9. <<e.stat[a].who, e.stat[m].who>> \in f.knock
    BY <1>2, <2>3, <2>6, <2>8
  <2> QED BY <2>3, <2>4, <2>5, <2>7, <2>9
<1>7. f.aud \in [Slot -> 0..MaxStats]
  BY <1>3, <1>5
<1>8. AudienceKnown(f)
  BY <1>6 DEF AudienceKnown
<1> QED BY <1>7, <1>8 DEF f

LEMMA RemoveStatBecomes ==
  ASSUME NEW e, Fit(e), NEW i \in 2..e.n
  PROVE  Becomes(e, RemoveStat(e, i)) /\ RemoveStat(e, i).panic = e.panic
<1> DEFINE f      == RemoveStat(e, i)
           old(k) == Formerly(e, i, k)
<1>16. Removed(e, f, i)
  BY RemoveStatLeaves
<1> HIDE DEF f
<1>1. /\ e.n \in 1..MaxStats /\ i \in Slot
  BY DEF Fit, Shaped
<1>2. /\ Shaped(f) /\ f.n = e.n - 1 /\ f.panic = e.panic /\ f.heard = e.heard
      /\ f.run = [e.run EXCEPT !.shifted = @ \/ i <= e.run.slot]
      /\ \A k \in Slot :
           /\ old(k) \in Slot
           /\ f.stat[k].who = e.stat[old(k)].who /\ f.stat[k].kind = e.stat[old(k)].kind
           /\ f.stat[k].lock = e.stat[old(k)].lock /\ f.stat[k].pos = e.stat[old(k)].pos
      /\ \A k \in Slot : k < i => f.stat[k] = e.stat[k]
  BY <1>16 DEF Removed
<1>3. f.aud \in [Slot -> 0..MaxStats] /\ AudienceKnown(f)
  BY RemoveStatAudience DEF f
<1>15. \A k \in Slot : old(k) = IF i <= k /\ k < e.n THEN k + 1 ELSE k
  BY DEF Formerly
<1> HIDE DEF old
<1>4. \A k \in 1..f.n : k \in Slot /\ old(k) \in 1..e.n /\ old(k) # i
  BY <1>1, <1>2, <1>15
<1>5. \A j, k \in 1..f.n : j # k => old(j) # old(k)
  BY <1>1, <1>2, <1>15
<1> DEFINE r == e.run
<1>6. /\ r = [slot |-> r.slot, near |-> r.near, whose |-> r.whose, ins |-> r.ins, said |-> r.said,
              last |-> r.last, cmd |-> r.cmd, stop |-> r.stop, become |-> r.become,
              shifted |-> r.shifted]
      /\ r.slot \in {0} \cup 2..MaxStats /\ r.ins \in Nat /\ r.shifted \in BOOLEAN
      /\ ~r.shifted => r.slot <= e.n
  BY DEF Fit, TurnShaped
<1>7. /\ f.run = [slot |-> r.slot, near |-> r.near, whose |-> r.whose, ins |-> r.ins, said |-> r.said,
                  last |-> r.last, cmd |-> r.cmd, stop |-> r.stop, become |-> r.become,
                  shifted |-> r.shifted \/ i <= r.slot]
  BY <1>2, <1>6
<1> HIDE DEF r
<1>8. TurnShaped(f)
  <2>1. (r.shifted \/ i <= r.slot) \in BOOLEAN
    BY <1>6
  <2>2. ~(r.shifted \/ i <= r.slot) => r.slot <= f.n
    BY <1>1, <1>2, <1>6
  <2>3. /\ f.run.slot = r.slot /\ f.run.ins = r.ins /\ f.run.shifted = (r.shifted \/ i <= r.slot)
    BY <1>7
  <2>4. f.run = [slot |-> f.run.slot, near |-> f.run.near, whose |-> f.run.whose, ins |-> f.run.ins,
                 said |-> f.run.said, last |-> f.run.last, cmd |-> f.run.cmd, stop |-> f.run.stop,
                 become |-> f.run.become, shifted |-> f.run.shifted]
    BY <1>7
  <2> QED BY <1>6, <2>1, <2>2, <2>3, <2>4 DEF TurnShaped
<1>9. ToldApart(f)
  <2> SUFFICES ASSUME NEW k \in 1..f.n, f.stat[k].kind = "object"
               PROVE  f.stat[k].who # Nobody /\ \A j \in (1..f.n) \ {k} : f.stat[j].who # f.stat[k].who
    BY DEF ToldApart
  <2>1. old(k) \in 1..e.n /\ e.stat[old(k)].kind = "object" /\ f.stat[k].who = e.stat[old(k)].who
    BY <1>2, <1>4
  <2>2. ASSUME NEW j \in (1..f.n) \ {k} PROVE f.stat[j].who # f.stat[k].who
    <3>1. old(j) \in (1..e.n) \ {old(k)} /\ f.stat[j].who = e.stat[old(j)].who
      BY <1>2, <1>4, <1>5
    <3> HIDE DEF old
    <3> QED BY <2>1, <3>1 DEF Fit, ToldApart
  <2> HIDE DEF old
  <2> QED BY <2>1, <2>2 DEF Fit, ToldApart
<1>10. f.stat[1].kind = "player"
  <2>1. 1 \in Slot /\ 1 < i /\ e.stat[1].kind = "player"
    BY <1>1 DEF Fit
  <2> QED BY <1>2, <2>1
<1>11. Fit(f)
  BY <1>2, <1>3, <1>8, <1>9, <1>10 DEF Fit
<1>12. SameTurn(e, f)
  BY <1>6, <1>7 DEF SameTurn, r
<1>13. SameSlot(e, f)
  <2>1. f.run.shifted = (r.shifted \/ i <= r.slot) /\ f.run.slot = r.slot
    BY <1>7
  <2>2. ~f.run.shifted => r.slot < i
    <3>1. ~f.run.shifted => ~(i <= r.slot)
      BY <2>1, Zenon
    <3> QED BY <1>1, <1>6, <3>1
  <2>3. r.slot # 0 => r.slot \in Slot
    BY <1>6
  <2> QED BY <1>2, <2>2, <2>3 DEF SameSlot, r
<1>14. ASSUME NEW w PROVE Follows(e, f, w)
  BY <1>2, <1>4 DEF Follows
<1> QED BY <1>2, <1>11, <1>12, <1>13, <1>14 DEF Becomes, f

LEMMA SlotsOf ==
  ASSUME NEW e, Fit(e)
  PROVE  /\ e.n \in 1..MaxStats /\ 1 \in Slot /\ 1..e.n \subseteq Slot /\ e.n \in Nat
         /\ e.stat[1].kind = "player"
BY DEF Fit, Shaped

LEMMA DisplayMessageBecomes ==
  ASSUME NEW e, Fit(e)
  PROVE  Becomes(e, DisplayMessage(e)) /\ DisplayMessage(e).panic = e.panic
<1> DEFINE i == Min(TimerSlots(e))
           f == IF TimerSlots(e) = {} THEN e ELSE RemoveStat(e, i)
<1>1. Becomes(e, f) /\ f.panic = e.panic
  <2>1. CASE TimerSlots(e) = {}
    BY <2>1, BecomesStill
  <2>2. CASE TimerSlots(e) # {}
    <3>1. TimerSlots(e) \in SUBSET (2..e.n)
      BY SlotsOf DEF TimerSlots
    <3>2. TimerSlots(e) \in SUBSET Nat
      BY <3>1, SlotsOf
    <3>3. i \in TimerSlots(e)
      BY <2>2, <3>2, MinIsLeast
    <3>4. i \in 2..e.n
      BY <3>1, <3>3
    <3> HIDE DEF i
    <3> QED BY <2>2, <3>4, RemoveStatBecomes
  <2> QED BY <2>1, <2>2
<1> HIDE DEF f
<1>2. Becomes(f, AddStat(f, "timer")) /\ AddStat(f, "timer").panic = f.panic
  BY <1>1, AddStatBecomes DEF Becomes
<1>3. DisplayMessage(e) = AddStat(f, "timer")
  BY DEF DisplayMessage, f, i
<1> QED BY <1>1, <1>2, <1>3, BecomesOn

LEMMA PushesBecome ==
  ASSUME NEW e, Fit(e), NEW f \in Pushes(e)
  PROVE  Becomes(e, f) /\ f.panic = e.panic
BY BecomesStill, RemoveStatBecomes DEF Pushes

(* What happens to players is told apart from what happens to stats.       *)
LEMMA PlayersBecome ==
  ASSUME NEW e, Fit(e), NEW pl
  PROVE  LET f == [e EXCEPT !.pl = pl]
         IN Becomes(e, f) /\ f.run = e.run /\ f.panic = e.panic /\ f.stat = e.stat /\ f.n = e.n
<1> DEFINE f == [e EXCEPT !.pl = pl]
<1>1. e = [n |-> e.n, stat |-> e.stat, aud |-> e.aud, pl |-> e.pl, run |-> e.run,
           knock |-> e.knock, heard |-> e.heard, panic |-> e.panic]
  BY DEF Fit, Shaped
<1>2. f = [n |-> e.n, stat |-> e.stat, aud |-> e.aud, pl |-> pl, run |-> e.run,
           knock |-> e.knock, heard |-> e.heard, panic |-> e.panic]
  BY <1>1
<1>3. /\ f.n = e.n /\ f.stat = e.stat /\ f.aud = e.aud /\ f.run = e.run /\ f.knock = e.knock
      /\ f.heard = e.heard /\ f.panic = e.panic /\ f.pl = pl
  BY <1>2
<1> HIDE DEF f
<1>4. Shaped(f)
  BY <1>2, <1>3 DEF Fit, Shaped
<1>5. Fit(f)
  <2>1. Unmoved(e, f) /\ TurnShaped(f)
    BY <1>3, <1>4 DEF Unmoved, Fit, TurnShaped
  <2> QED BY <1>3, <2>1, UnmovedFit
<1>6. SameTurn(e, f) /\ SameSlot(e, f) /\ \A w : Follows(e, f, w)
  BY <1>3 DEF SameTurn, SameSlot, Follows
<1> QED BY <1>3, <1>5, <1>6 DEF Becomes, f

LEMMA KillPlayerBecomes ==
  ASSUME NEW e, Fit(e), NEW i
  PROVE  Becomes(e, KillPlayer(e, i)) /\ KillPlayer(e, i).panic = e.panic
<1>1. CASE i <= e.n /\ e.stat[i].kind = "player"
  <2> DEFINE pl == [e.pl EXCEPT ![e.stat[i].who].down = TRUE]
  <2>1. KillPlayer(e, i) = [e EXCEPT !.pl = pl]
    BY <1>1 DEF KillPlayer
  <2> HIDE DEF pl
  <2> QED BY <2>1, PlayersBecome
<1>2. CASE ~(i <= e.n /\ e.stat[i].kind = "player")
  BY <1>2, BecomesStill DEF KillPlayer
<1> QED BY <1>1, <1>2

LEMMA DamageStatBecomes ==
  ASSUME NEW e, Fit(e), NEW i \in 1..e.n
  PROVE  Becomes(e, DamageStat(e, i)) /\ DamageStat(e, i).panic = e.panic
<1> DEFINE p    == e.stat[i].who
           pl   == [e.pl EXCEPT ![p].hp = @ - 1]
           less == [e EXCEPT !.pl = pl]
           hurt == DisplayMessage(less)
<1>1. DamageStat(e, i) = IF e.stat[i].kind # "player" THEN RemoveStat(e, i)
                         ELSE IF e.pl[p].hp = 0 THEN e
                         ELSE IF hurt.pl[p].hp = 0 THEN KillPlayer(hurt, i) ELSE hurt
  BY DEF DamageStat
<1> HIDE DEF pl
<1>2. Becomes(e, less) /\ less.panic = e.panic
  BY PlayersBecome
<1> HIDE DEF less
<1>3. Becomes(e, hurt) /\ hurt.panic = e.panic
  <2>1. Becomes(less, hurt) /\ hurt.panic = less.panic
    BY <1>2, DisplayMessageBecomes DEF Becomes
  <2> QED BY <1>2, <2>1, BecomesOn
<1> HIDE DEF hurt
<1>4. Becomes(e, KillPlayer(hurt, i)) /\ KillPlayer(hurt, i).panic = e.panic
  <2>1. Becomes(hurt, KillPlayer(hurt, i)) /\ KillPlayer(hurt, i).panic = hurt.panic
    BY <1>3, KillPlayerBecomes DEF Becomes
  <2> QED BY <1>3, <2>1, BecomesOn
<1>5. e.stat[i].kind # "player" => i \in 2..e.n
  BY SlotsOf
<1>6. e.stat[i].kind # "player" => Becomes(e, RemoveStat(e, i)) /\ RemoveStat(e, i).panic = e.panic
  BY <1>5, RemoveStatBecomes
<1>7. Becomes(e, e)
  BY BecomesStill
<1> HIDE DEF p
<1> QED BY <1>1, <1>3, <1>4, <1>6, <1>7

LEMMA PlaceBecomes ==
  ASSUME NEW e, Fit(e), NEW k \in {0} \cup 2..e.n, NEW kind
  PROVE  Becomes(e, Place(e, k, kind)) /\ Place(e, k, kind).panic = e.panic
<1> DEFINE f == IF k = 0 THEN e ELSE RemoveStat(e, k)
<1>1. Becomes(e, f) /\ f.panic = e.panic
  <2>1. CASE k = 0
    BY <2>1, BecomesStill
  <2>2. CASE k # 0
    <3>1. k \in 2..e.n
      BY <2>2
    <3> QED BY <2>2, <3>1, RemoveStatBecomes
  <2> QED BY <2>1, <2>2
<1>2. Place(e, k, kind) = IF k # 0 /\ e.stat[k].kind \in {kind, "player"} THEN e
                          ELSE IF kind = "fodder" THEN AddStat(f, kind) ELSE f
  BY DEF Place
<1> HIDE DEF f
<1>3. kind = "fodder" => Becomes(e, AddStat(f, kind)) /\ AddStat(f, kind).panic = e.panic
  <2> SUFFICES ASSUME kind = "fodder" PROVE Becomes(e, AddStat(f, kind)) /\ AddStat(f, kind).panic = e.panic
    OBVIOUS
  <2>1. Becomes(f, AddStat(f, kind)) /\ AddStat(f, kind).panic = f.panic
    BY <1>1, AddStatBecomes DEF Becomes
  <2> QED BY <1>1, <2>1, BecomesOn
<1>4. Becomes(e, e)
  BY BecomesStill
<1> QED BY <1>1, <1>2, <1>3, <1>4

LEMMA ChangeOneBecomes ==
  ASSUME NEW e, Fit(e), NEW from, NEW kind
  PROVE  Becomes(e, ChangeOne(e, from, kind)) /\ ChangeOne(e, from, kind).panic = e.panic
<1>1. CASE OnBoard(e, from) = {}
  BY <1>1, BecomesStill DEF ChangeOne
<1>2. CASE OnBoard(e, from) # {}
  <2>1. OnBoard(e, from) \in SUBSET (2..e.n)
    BY DEF OnBoard
  <2>2. OnBoard(e, from) \in SUBSET Nat
    BY <2>1, SlotsOf
  <2>3. Min(OnBoard(e, from)) \in 2..e.n
    BY <1>2, <2>1, <2>2, MinIsLeast
  <2> QED BY <1>2, <2>3, PlaceBecomes DEF ChangeOne
<1> QED BY <1>1, <1>2

(* The stats of f are those of e, and outside X where they were.           *)
Rewritten(e, f, X) ==
  /\ Unmoved(e, f) /\ f.aud = e.aud /\ f.run = e.run /\ f.knock = e.knock
  /\ f.heard = e.heard /\ f.panic = e.panic
  /\ \A k \in Slot \ X : f.stat[k].lock = e.stat[k].lock /\ f.stat[k].pos = e.stat[k].pos

LEMMA RewrittenFit ==
  ASSUME NEW e, NEW f, NEW X, Fit(e), Rewritten(e, f, X)
  PROVE  Fit(f) /\ SameTurn(e, f) /\ SameSlot(e, f) /\ f.panic = e.panic /\ f.run = e.run
<1>1. TurnShaped(f)
  BY DEF Rewritten, Unmoved, Fit, TurnShaped
<1>2. Fit(f)
  BY <1>1, UnmovedFit DEF Rewritten
<1>3. SameSlot(e, f)
  <2>1. e.run.slot # 0 => e.run.slot \in Slot
    BY DEF Fit, TurnShaped
  <2> QED BY <2>1 DEF Rewritten, Unmoved, SameSlot
<1> QED BY <1>2, <1>3 DEF Rewritten, SameTurn

LEMMA RewrittenFollows ==
  ASSUME NEW e, NEW f, NEW X, NEW w, Fit(e), Rewritten(e, f, X),
         \A k \in X : e.stat[k].lock => e.stat[k].who = w
  PROVE  Follows(e, f, w)
<1> SUFFICES ASSUME NEW j \in 1..f.n, f.stat[j].kind = "object"
             PROVE  /\ j \in 1..e.n /\ e.stat[j].kind = "object" /\ e.stat[j].who = f.stat[j].who
                    /\ (e.stat[j].lock /\ e.stat[j].who # w)
                         => f.stat[j].lock /\ f.stat[j].pos = e.stat[j].pos
  BY DEF Follows
<1>1. j \in 1..e.n /\ j \in Slot
  BY SlotsOf DEF Rewritten, Unmoved
<1>2. e.stat[j].kind = "object" /\ e.stat[j].who = f.stat[j].who
  BY <1>1 DEF Rewritten, Unmoved
<1>3. ASSUME e.stat[j].lock, e.stat[j].who # w
      PROVE  f.stat[j].lock /\ f.stat[j].pos = e.stat[j].pos
  <2>1. j \notin X
    BY <1>3
  <2>2. f.stat[j].lock = e.stat[j].lock /\ f.stat[j].pos = e.stat[j].pos
    BY <1>1, <2>1 DEF Rewritten
  <2> QED BY <1>3, <2>2
<1> QED BY <1>1, <1>2, <1>3

(* Other stats in e's place.                                               *)
LEMMA StatsRewritten ==
  ASSUME NEW e, Fit(e), NEW stat, NEW X, DOMAIN stat = Slot,
         \A k \in Slot : /\ IsStat(stat[k]) /\ stat[k].who = e.stat[k].who
                         /\ stat[k].kind = e.stat[k].kind
                         /\ k \notin X => stat[k].lock = e.stat[k].lock /\ stat[k].pos = e.stat[k].pos
  PROVE  LET f == [e EXCEPT !.stat = stat] IN Rewritten(e, f, X) /\ f.stat = stat
<1> DEFINE f == [e EXCEPT !.stat = stat]
<1>1. e = [n |-> e.n, stat |-> e.stat, aud |-> e.aud, pl |-> e.pl, run |-> e.run,
           knock |-> e.knock, heard |-> e.heard, panic |-> e.panic]
  BY DEF Fit, Shaped
<1>2. f = [n |-> e.n, stat |-> stat, aud |-> e.aud, pl |-> e.pl, run |-> e.run,
           knock |-> e.knock, heard |-> e.heard, panic |-> e.panic]
  BY <1>1
<1>3. /\ f.n = e.n /\ f.stat = stat /\ f.aud = e.aud /\ f.run = e.run /\ f.knock = e.knock
      /\ f.heard = e.heard /\ f.panic = e.panic /\ f.pl = e.pl
  BY <1>2
<1> HIDE DEF f
<1>4. Shaped(f)
  BY <1>2, <1>3, SlotsOf DEF Shaped, IsStat
<1>5. Unmoved(e, f)
  BY <1>3, <1>4 DEF Unmoved
<1> QED BY <1>3, <1>5 DEF Rewritten, f

LEMMA StatsAre ==
  ASSUME NEW e, Fit(e)
  PROVE  DOMAIN e.stat = Slot /\ \A k \in Slot : IsStat(e.stat[k])
BY DEF Fit, Shaped, IsStat

(* Who may hear what is sent.                                              *)
Hearing(e, i, outside) == {k \in Slot : ~e.stat[k].lock \/ (k = i /\ ~outside)}

LEMMA OopSendRewrites ==
  ASSUME NEW e, Fit(e), NEW i, NEW to, NEW l, NEW outside \in BOOLEAN
  PROVE  Rewritten(e, OopSend(e, i, to, l, outside), Hearing(e, i, outside))
<1> DEFINE hearers == {k \in Reached(e, i, to, "label", l) : Hears(e, i, k, outside)}
           X       == Hearing(e, i, outside)
           at(k)   == FindLabel(e.stat[k].text, "label", l)
           stat    == [k \in Slot |-> IF k \in hearers THEN [e.stat[k] EXCEPT !.pos = at(k)] ELSE e.stat[k]]
<1>1. OopSend(e, i, to, l, outside) = [e EXCEPT !.stat = stat]
  BY DEF OopSend
<1>2. \A k \in Slot : k \in hearers => k \in X
  BY DEF Hears, Hearing
<1> HIDE DEF hearers, X, at
<1>3. DOMAIN stat = Slot
  OBVIOUS
<1>4. ASSUME NEW k \in Slot
      PROVE  /\ IsStat(stat[k]) /\ stat[k].who = e.stat[k].who /\ stat[k].kind = e.stat[k].kind
             /\ k \notin X => stat[k].lock = e.stat[k].lock /\ stat[k].pos = e.stat[k].pos
  <2>1. IsStat(e.stat[k])
    BY StatsAre
  <2>2. CASE k \in hearers
    <3>1. stat[k] = [e.stat[k] EXCEPT !.pos = at(k)]
      BY <2>2
    <3> QED BY <1>2, <2>1, <2>2, <3>1 DEF IsStat
  <2>3. CASE k \notin hearers
    BY <2>1, <2>3
  <2> QED BY <2>2, <2>3
<1> HIDE DEF stat
<1>5. Rewritten(e, [e EXCEPT !.stat = stat], X)
  BY <1>3, <1>4, StatsRewritten
<1> QED BY <1>1, <1>5 DEF X

(* Only texts change.                                                      *)
LEMMA TextsOn ==
  ASSUME NEW e, NEW f, NEW g, Rewritten(e, f, {}), Rewritten(f, g, {})
  PROVE  Rewritten(e, g, {})
BY DEF Rewritten, Unmoved

LEMMA TextsStill ==
  ASSUME NEW e, Fit(e)
  PROVE  Rewritten(e, e, {})
BY DEF Rewritten, Unmoved, Fit

LEMMA MarkedRewrites ==
  ASSUME NEW e, Fit(e), NEW ks, NEW k \in Slot, NEW op
  PROVE  Rewritten(e, Marked(e, ks, k, op), {})
<1> DEFINE text == [j \in DOMAIN e.stat[k].text |->
                      IF j \in ks THEN [e.stat[k].text[j] EXCEPT !.op = op] ELSE e.stat[k].text[j]]
           stat == [e.stat EXCEPT ![k].text = text]
<1>1. Marked(e, ks, k, op) = [e EXCEPT !.stat = stat]
  BY DEF Marked
<1> HIDE DEF text
<1>2. DOMAIN stat = Slot
  BY StatsAre
<1>3. ASSUME NEW m \in Slot
      PROVE  /\ IsStat(stat[m]) /\ stat[m].who = e.stat[m].who /\ stat[m].kind = e.stat[m].kind
             /\ stat[m].lock = e.stat[m].lock /\ stat[m].pos = e.stat[m].pos
  <2>1. IsStat(e.stat[m]) /\ DOMAIN e.stat = Slot
    BY StatsAre
  <2>2. CASE m = k
    <3>1. stat[m] = [e.stat[m] EXCEPT !.text = text]
      BY <2>1, <2>2
    <3> QED BY <2>1, <3>1 DEF IsStat
  <2>3. CASE m # k
    BY <2>1, <2>3
  <2> QED BY <2>2, <2>3
<1> HIDE DEF stat
<1> QED BY <1>1, <1>2, <1>3, StatsRewritten

LEMMA MarkRewrites ==
  ASSUME NEW e, Fit(e), NEW i \in 2..MaxStats, NEW to, NEW l, NEW from, NEW op
  PROVE  Rewritten(e, Mark(e, i, to, l, from, op), {})
<1> DEFINE reached == {k \in Reached(e, i, to, from, l) : Labels(e.stat[k].text, from, l) # {}}
           rest(m) == IF to = "here" THEN m ELSE IF ByName(to) THEN to ELSE ""
           one(f, k, m) ==
             LET g == Marked(f, First(f, k, from, m), k, op)
             IN IF op = "zapped" THEN g ELSE Marked(g, Further(g, k, rest(m)), k, op)
           j == Min(reached)
           h == one(e, j, l)
           stat == [k \in Slot |-> IF k \in reached THEN one(e, k, l).stat[k] ELSE e.stat[k]]
<1>1. Mark(e, i, to, l, from, op) =
        IF reached = {} THEN e
        ELSE IF ~ByName(to) THEN [e EXCEPT !.stat = stat]
        ELSE IF j < i /\ Labels(h.stat[i].text, from, to) # {} THEN one(h, i, to) ELSE h
  BY DEF Mark
<1>2. i \in Slot /\ reached \in SUBSET Slot
  BY SlotsOf DEF Reached, Lookup
<1>3. ASSUME NEW f, Fit(f), NEW k \in Slot, NEW m PROVE Rewritten(f, one(f, k, m), {})
  <2> DEFINE g == Marked(f, First(f, k, from, m), k, op)
  <2>1. Rewritten(f, g, {}) /\ Fit(g)
    BY <1>3, MarkedRewrites, RewrittenFit
  <2> HIDE DEF g, rest
  <2>2. Rewritten(g, Marked(g, Further(g, k, rest(m)), k, op), {})
    BY <2>1, MarkedRewrites
  <2>3. Rewritten(f, Marked(g, Further(g, k, rest(m)), k, op), {})
    BY <2>1, <2>2, TextsOn
  <2> QED BY <2>1, <2>3 DEF g
<1> HIDE DEF reached, one
<1>4. reached # {} => j \in Slot
  <2>1. reached \in SUBSET Nat
    BY <1>2
  <2> QED BY <1>2, <2>1, MinIsLeast
<1> HIDE DEF j
<1>5. Rewritten(e, [e EXCEPT !.stat = stat], {})
  <2>1. DOMAIN stat = Slot
    OBVIOUS
  <2>2. ASSUME NEW k \in Slot
        PROVE  /\ IsStat(stat[k]) /\ stat[k].who = e.stat[k].who /\ stat[k].kind = e.stat[k].kind
               /\ stat[k].lock = e.stat[k].lock /\ stat[k].pos = e.stat[k].pos
    <3> DEFINE f == one(e, k, l)
    <3>1. Rewritten(e, f, {}) /\ Fit(f)
      BY <1>3, RewrittenFit
    <3> HIDE DEF f
    <3>2. IsStat(e.stat[k]) /\ IsStat(f.stat[k])
      BY <3>1, StatsAre
    <3>3. stat[k] = IF k \in reached THEN f.stat[k] ELSE e.stat[k]
      BY DEF f
    <3> HIDE DEF stat
    <3> QED BY <3>1, <3>2, <3>3 DEF Rewritten, Unmoved
  <2> HIDE DEF stat
  <2> QED BY <2>1, <2>2, StatsRewritten
<1>6. reached # {} => Rewritten(e, h, {}) /\ Fit(h)
  BY <1>3, <1>4, RewrittenFit
<1> HIDE DEF h, stat
<1>7. reached # {} => Rewritten(e, one(h, i, to), {})
  <2> SUFFICES ASSUME reached # {} PROVE Rewritten(e, one(h, i, to), {})
    OBVIOUS
  <2>1. Rewritten(h, one(h, i, to), {})
    BY <1>2, <1>3, <1>6
  <2> QED BY <1>6, <2>1, TextsOn
<1>8. Rewritten(e, e, {})
  BY TextsStill
<1> QED BY <1>1, <1>5, <1>6, <1>7, <1>8

-----------------------------------------------------------------------------
(* A turn *)

(* What a turn makes of e as far as f: whose turn it is, w, may have moved *)
(* in its program, and once it lost its slot anybody may have.             *)
Goes(e, f, w) ==
  /\ Fit(f) /\ f.run.slot = e.run.slot /\ (e.run.shifted => f.run.shifted)
  /\ ~f.run.shifted =>
       /\ Follows(e, f, w)
       /\ e.run.slot # 0 => f.stat[e.run.slot].who = e.stat[e.run.slot].who

(* The slot the turn is in holds w, or the turn knows it does not.         *)
Turns(e, w) ==
  Fit(e) /\ e.run.slot # 0 /\ (~e.run.shifted => e.stat[e.run.slot].who = w)

(* The like, whoever moved.                                                *)
Passes(e, f) == \A w : Goes(e, f, w)

LEMMA GoesFurther ==
  ASSUME NEW e, NEW f, NEW g, NEW w, Goes(e, f, w), Goes(f, g, w)
  PROVE  Goes(e, g, w)
BY FollowsOn DEF Goes

LEMMA GoesTurns ==
  ASSUME NEW e, NEW f, NEW w, Turns(e, w), Goes(e, f, w)
  PROVE  Turns(f, w)
BY DEF Goes, Turns

LEMMA BecomesGoes ==
  ASSUME NEW e, NEW f, NEW w, Becomes(e, f)
  PROVE  Goes(e, f, w)
BY DEF Becomes, Goes, SameTurn, SameSlot

LEMMA RewrittenGoes ==
  ASSUME NEW e, NEW f, NEW X, NEW w, Fit(e), Rewritten(e, f, X),
         ~e.run.shifted => \A k \in X : e.stat[k].lock => e.stat[k].who = w
  PROVE  Goes(e, f, w)
<1>1. Fit(f) /\ f.run = e.run /\ SameSlot(e, f)
  BY RewrittenFit
<1>2. ~f.run.shifted => Follows(e, f, w)
  BY <1>1, RewrittenFollows
<1> QED BY <1>1, <1>2 DEF Goes, SameSlot

(* Another stat in the slot the turn is in, of the same name and kind.     *)
LEMMA SlotGoes ==
  ASSUME NEW e, NEW w, Turns(e, w), NEW v, IsStat(v),
         v.who = e.stat[e.run.slot].who, v.kind = e.stat[e.run.slot].kind
  PROVE  LET f == [e EXCEPT !.stat[e.run.slot] = v]
         IN /\ Goes(e, f, w) /\ f.run = e.run /\ f.panic = e.panic
            /\ f.stat[e.run.slot] = v
<1> DEFINE i    == e.run.slot
           stat == [e.stat EXCEPT ![i] = v]
           f    == [e EXCEPT !.stat = stat]
<1>1. i \in Slot /\ Fit(e)
  BY DEF Turns, Fit, TurnShaped
<1>2. DOMAIN stat = Slot /\ stat[i] = v
  BY <1>1, StatsAre
<1>3. ASSUME NEW k \in Slot
      PROVE  /\ IsStat(stat[k]) /\ stat[k].who = e.stat[k].who /\ stat[k].kind = e.stat[k].kind
             /\ k \notin {i} => stat[k].lock = e.stat[k].lock /\ stat[k].pos = e.stat[k].pos
  <2>1. IsStat(e.stat[k]) /\ DOMAIN e.stat = Slot
    BY <1>1, StatsAre
  <2> QED BY <1>1, <2>1
<1> HIDE DEF stat
<1>4. Rewritten(e, f, {i}) /\ f.stat = stat
  BY <1>1, <1>2, <1>3, StatsRewritten
<1> HIDE DEF f
<1>5. ~e.run.shifted => \A k \in {i} : e.stat[k].lock => e.stat[k].who = w
  BY DEF Turns
<1>6. Goes(e, f, w) /\ f.run = e.run /\ f.panic = e.panic
  BY <1>1, <1>4, <1>5, RewrittenGoes DEF Rewritten
<1> QED BY <1>2, <1>4, <1>6 DEF f, stat

IsRun(r) ==
  r = [slot |-> r.slot, near |-> r.near, whose |-> r.whose, ins |-> r.ins, said |-> r.said,
       last |-> r.last, cmd |-> r.cmd, stop |-> r.stop, become |-> r.become, shifted |-> r.shifted]

WithRun(e, r)     == [e EXCEPT !.run = r]
Stopping(e, stop) == [e EXCEPT !.run.stop = stop]

LEMMA RunIs ==
  ASSUME NEW e, Fit(e)
  PROVE  IsRun(e.run) /\ e.run.ins \in Nat
BY DEF Fit, TurnShaped, IsRun

LEMMA RunGoes ==
  ASSUME NEW e, Fit(e), NEW r, IsRun(r), r.ins \in Nat,
         r.slot = e.run.slot, r.shifted = e.run.shifted
  PROVE  LET f == WithRun(e, r)
         IN Passes(e, f) /\ f.run = r /\ f.panic = e.panic /\ f.stat = e.stat /\ f.n = e.n
<1> DEFINE f == WithRun(e, r)
<1>1. e = [n |-> e.n, stat |-> e.stat, aud |-> e.aud, pl |-> e.pl, run |-> e.run,
           knock |-> e.knock, heard |-> e.heard, panic |-> e.panic]
  BY DEF Fit, Shaped
<1>2. f = [n |-> e.n, stat |-> e.stat, aud |-> e.aud, pl |-> e.pl, run |-> r,
           knock |-> e.knock, heard |-> e.heard, panic |-> e.panic]
  BY <1>1 DEF WithRun
<1>3. /\ f.n = e.n /\ f.stat = e.stat /\ f.aud = e.aud /\ f.run = r /\ f.knock = e.knock
      /\ f.heard = e.heard /\ f.panic = e.panic /\ f.pl = e.pl
  BY <1>2
<1> HIDE DEF f
<1>4. Shaped(f)
  <2>1. f.n \in 1..MaxStats /\ DOMAIN f.stat = Slot /\ \A k \in Slot : IsStat(f.stat[k])
    BY <1>3, StatsAre, SlotsOf
  <2> QED BY <1>2, <1>3, <2>1 DEF Shaped, IsStat
<1>5. Fit(f)
  <2>1. Unmoved(e, f) /\ TurnShaped(f)
    BY <1>3, <1>4 DEF Unmoved, Fit, TurnShaped, IsRun
  <2> QED BY <1>3, <2>1, UnmovedFit
<1>6. ASSUME NEW w PROVE Goes(e, f, w)
  BY <1>3, <1>5 DEF Goes, Follows
<1> QED BY <1>3, <1>6 DEF Passes, f

LEMMA PanicGoes ==
  ASSUME NEW e, NEW w, Fit(e), NEW panic
  PROVE  LET f == [e EXCEPT !.panic = panic] IN Goes(e, f, w) /\ f.run = e.run /\ f.panic = panic
<1> DEFINE f == [e EXCEPT !.panic = panic]
<1>1. e = [n |-> e.n, stat |-> e.stat, aud |-> e.aud, pl |-> e.pl, run |-> e.run,
           knock |-> e.knock, heard |-> e.heard, panic |-> e.panic]
  BY DEF Fit, Shaped
<1>2. f = [n |-> e.n, stat |-> e.stat, aud |-> e.aud, pl |-> e.pl, run |-> e.run,
           knock |-> e.knock, heard |-> e.heard, panic |-> panic]
  BY <1>1
<1>3. /\ f.n = e.n /\ f.stat = e.stat /\ f.aud = e.aud /\ f.run = e.run /\ f.knock = e.knock
      /\ f.heard = e.heard /\ f.panic = panic /\ f.pl = e.pl
  BY <1>2
<1> HIDE DEF f
<1>4. Shaped(f)
  BY <1>2, <1>3 DEF Fit, Shaped
<1>5. Fit(f)
  <2>1. Unmoved(e, f) /\ TurnShaped(f)
    BY <1>3, <1>4 DEF Unmoved, Fit, TurnShaped
  <2> QED BY <1>3, <2>1, UnmovedFit
<1>6. Goes(e, f, w)
  BY <1>3, <1>5 DEF Goes, Follows
<1> QED BY <1>3, <1>6 DEF f

(* The rest of a line.                                                     *)
LEMMA SkippedGoes ==
  ASSUME NEW w, Turns(eng, w), NEW e, Goes(eng, e, w)
  PROVE  /\ Goes(eng, Skipped(e), w) /\ Skipped(e).run = e.run
         /\ e.run.shifted = eng.run.shifted => Skipped(e).panic \/ Skipped(e) = e
<1> DEFINE moved == e.run.shifted /\ ~eng.run.shifted
           v     == [e.stat[i0] EXCEPT !.pos = @ + 1]
           f     == [e EXCEPT !.stat[i0] = v]
           lost  == [e EXCEPT !.panic = TRUE]
<1>1. Turns(e, w) /\ Fit(e) /\ e.run.slot = i0 /\ i0 \in Slot
  <2>1. i0 \in Slot
    BY DEF Turns, Fit, TurnShaped, i0
  <2> QED BY <2>1, GoesTurns DEF Goes, Turns, i0
<1>2. IsStat(e.stat[i0])
  BY <1>1, StatsAre
<1>3. IsStat(v) /\ v.who = e.stat[i0].who /\ v.kind = e.stat[i0].kind
  BY <1>2 DEF IsStat
<1>4. Skipped(e) = IF e.stat[i0].gone THEN lost
                   ELSE IF moved /\ e.stat[i0].pos \in 1..Len(e.stat[i0].text) THEN f ELSE e
  BY DEF Skipped
<1> HIDE DEF v
<1>5. Goes(e, f, w) /\ f.run = e.run
  BY <1>1, <1>3, SlotGoes
<1>6. Goes(e, lost, w) /\ lost.run = e.run /\ lost.panic = TRUE
  BY <1>1, PanicGoes
<1> HIDE DEF f, lost
<1>7. Goes(eng, f, w) /\ Goes(eng, lost, w)
  BY <1>5, <1>6, GoesFurther
<1> QED BY <1>4, <1>5, <1>6, <1>7

LEMMA StoppedGoes ==
  ASSUME NEW e, Fit(e), NEW stop
  PROVE  LET f == Stopping(e, stop)
         IN /\ Passes(e, f) /\ f.stat = e.stat /\ f.panic = e.panic /\ f.run.stop = stop
            /\ f.run.ins = e.run.ins /\ f.run.cmd = e.run.cmd /\ f.run.slot = e.run.slot
            /\ f.run.shifted = e.run.shifted
<1> DEFINE r == [e.run EXCEPT !.stop = stop]
<1>1. /\ IsRun(r) /\ r.ins = e.run.ins /\ r.slot = e.run.slot /\ r.shifted = e.run.shifted
      /\ r.cmd = e.run.cmd /\ r.stop = stop
  <2>1. IsRun(e.run)
    BY RunIs
  <2> QED BY <2>1 DEF IsRun
<1>2. e.run.ins \in Nat
  BY RunIs
<1> DEFINE f == Stopping(e, stop)
<1>4. f = WithRun(e, r)
  BY DEF r, Stopping, WithRun
<1> HIDE DEF f
<1> HIDE DEF r
<1>3. Passes(e, f) /\ f.run = r /\ f.panic = e.panic /\ f.stat = e.stat
  <2>1. IsRun(r) /\ r.ins \in Nat /\ r.slot = e.run.slot /\ r.shifted = e.run.shifted
    BY <1>1, <1>2
  <2> QED BY <1>4, <2>1, RunGoes
<1> QED BY <1>1, <1>3 DEF f

(* What holds at the end of an instruction that counts.                    *)
LEMMA LoopEndsGoes ==
  ASSUME NEW w, Turns(eng, w), NEW e, Goes(eng, e, w), LoopEnds(e)
  PROVE  /\ Goes(eng, eng', w) /\ eng'.run.ins = e.run.ins /\ eng'.run.cmd = e.run.cmd
         /\ e.run.stop => eng'.run.stop
         /\ ~eng'.run.stop => e.run.ins <= MAX_INS
         /\ e.run.shifted = eng.run.shifted => eng'.panic \/ eng'.stat = e.stat
<1> DEFINE g == Skipped(e)
<1>1. /\ Goes(eng, g, w) /\ g.run = e.run
      /\ e.run.shifted = eng.run.shifted => g.panic \/ g = e
  BY SkippedGoes
<1>7. PICK stop : stop = (g.run.stop \/ e.run.ins > MAX_INS)
  OBVIOUS
<1> DEFINE f == Stopping(g, stop)
<1>2. eng' = f
  BY <1>7 DEF LoopEnds, Stopping
<1> HIDE DEF g
<1>3. e.run.ins \in Nat
  BY RunIs DEF Goes
<1>4. (e.run.stop => stop) /\ (~stop => e.run.ins <= MAX_INS)
  <2>1. ~stop => ~(e.run.ins > MAX_INS)
    BY <1>7, Zenon
  <2>2. g.run.stop => stop
    BY <1>7, Zenon
  <2> QED BY <1>1, <1>3, <2>1, <2>2
<1>5. /\ Goes(g, f, w) /\ f.stat = g.stat /\ f.panic = g.panic /\ f.run.stop = stop
      /\ f.run.ins = g.run.ins /\ f.run.cmd = g.run.cmd
  <2>1. Fit(g)
    BY <1>1 DEF Goes
  <2> QED BY <2>1, StoppedGoes DEF Passes
<1> HIDE DEF f
<1>6. Goes(eng, f, w)
  BY <1>1, <1>5, GoesFurther
<1> QED BY <1>1, <1>2, <1>4, <1>5, <1>6

-----------------------------------------------------------------------------
(* Instructions *)

StatAt(e, i, v) == [e EXCEPT !.stat[i] = v]
PosAt(e, i, x)  == [e EXCEPT !.stat[i].pos = x]

LEMMA StatAtGoes ==
  ASSUME NEW e, NEW w, Turns(e, w), NEW i, i = e.run.slot, NEW v, IsStat(v),
         v.who = e.stat[i].who, v.kind = e.stat[i].kind
  PROVE  /\ Goes(e, StatAt(e, i, v), w) /\ StatAt(e, i, v).run = e.run
         /\ StatAt(e, i, v).panic = e.panic /\ StatAt(e, i, v).stat[i] = v
BY SlotGoes DEF StatAt

LEMMA TurnsIn ==
  ASSUME NEW e, NEW w, Turns(e, w)
  PROVE  e.run.slot \in Slot /\ Fit(e) /\ IsStat(e.stat[e.run.slot])
<1>1. e.run.slot \in Slot
  BY DEF Turns, Fit, TurnShaped
<1> QED BY <1>1, StatsAre DEF Turns

LEMMA PosAtGoes ==
  ASSUME NEW e, NEW w, Turns(e, w), NEW i, i = e.run.slot, NEW x
  PROVE  /\ Goes(e, PosAt(e, i, x), w) /\ PosAt(e, i, x).run = e.run
         /\ PosAt(e, i, x).panic = e.panic /\ PosAt(e, i, x).stat[i].pos = x
<1> DEFINE v == [e.stat[i] EXCEPT !.pos = x]
<1>1. IsStat(e.stat[i])
  BY TurnsIn
<1>2. IsStat(v) /\ v.who = e.stat[i].who /\ v.kind = e.stat[i].kind /\ v.pos = x
  BY <1>1 DEF IsStat
<1>3. PosAt(e, i, x) = StatAt(e, i, v)
  BY DEF PosAt, StatAt
<1> HIDE DEF v
<1> QED BY <1>2, <1>3, StatAtGoes

(* A line was read.                                                        *)
LEMMA ReadGoes ==
  ASSUME NEW w, Turns(eng, w)
  PROVE  /\ Goes(eng, Read, w) /\ Read.run.ins = eng.run.ins /\ Read.run.cmd = <<>>
         /\ Read.run.shifted = eng.run.shifted /\ Read.panic = eng.panic
         /\ eng.run.cmd = <<>> => Read.stat[i0].pos = Me.pos + 1
<1>1. IsRun(eng.run) /\ eng.run.ins \in Nat /\ Fit(eng)
  BY RunIs DEF Turns
<1>2. CASE eng.run.cmd # <<>>
  <2> DEFINE r == [eng.run EXCEPT !.cmd = <<>>]
  <2>1. IsRun(r) /\ r.ins = eng.run.ins /\ r.cmd = <<>> /\ r.shifted = eng.run.shifted
        /\ r.slot = eng.run.slot
    BY <1>1 DEF IsRun
  <2>2. Read = WithRun(eng, r)
    BY <1>2 DEF Read, WithRun
  <2> HIDE DEF r
  <2>3. Passes(eng, Read) /\ Read.run = r /\ Read.panic = eng.panic
    BY <1>1, <2>1, <2>2, RunGoes
  <2> QED BY <1>2, <2>1, <2>3 DEF Passes
<1>3. CASE eng.run.cmd = <<>>
  <2> DEFINE g == PosAt(eng, i0, Me.pos + 1)
             r == [g.run EXCEPT !.last = Me.pos]
  <2>1. Goes(eng, g, w) /\ g.run = eng.run /\ g.panic = eng.panic /\ g.stat[i0].pos = Me.pos + 1
    BY PosAtGoes DEF i0
  <2>2. Read = WithRun(g, r)
    <3>1. eng = [n |-> eng.n, stat |-> eng.stat, aud |-> eng.aud, pl |-> eng.pl, run |-> eng.run,
                 knock |-> eng.knock, heard |-> eng.heard, panic |-> eng.panic]
      BY <1>1 DEF Fit, Shaped
    <3> QED BY <1>3, <3>1 DEF Read, WithRun, PosAt, Me
  <2> HIDE DEF g
  <2>3. IsRun(r) /\ r.ins = eng.run.ins /\ r.cmd = <<>> /\ r.shifted = eng.run.shifted
        /\ r.slot = g.run.slot /\ r.shifted = g.run.shifted
    BY <1>1, <1>3, <2>1 DEF IsRun
  <2>4. Fit(g)
    BY <2>1 DEF Goes
  <2> HIDE DEF r
  <2>5. Passes(g, Read) /\ Read.run = r /\ Read.panic = g.panic /\ Read.stat = g.stat
    BY <1>1, <2>2, <2>3, <2>4, RunGoes
  <2>6. Goes(eng, Read, w)
    BY <2>1, <2>5, GoesFurther DEF Passes
  <2> QED BY <1>3, <2>1, <2>3, <2>5, <2>6
<1> QED BY <1>2, <1>3

(* A command was counted.                                                  *)
Steps(e, w) == Goes(eng, e, w) /\ e.run.ins = eng.run.ins + 1 /\ e.run.cmd = <<>>

LEMMA CountedSteps ==
  ASSUME NEW w, Turns(eng, w)
  PROVE  Steps(Counted, w)
<1> DEFINE r == [Read.run EXCEPT !.ins = @ + 1]
<1>1. /\ Goes(eng, Read, w) /\ Read.run.ins = eng.run.ins /\ Read.run.cmd = <<>>
      /\ Read.run.shifted = eng.run.shifted /\ Fit(Read)
  BY ReadGoes DEF Goes
<1>2. IsRun(Read.run) /\ Read.run.ins \in Nat
  BY <1>1, RunIs
<1>3. /\ IsRun(r) /\ r.ins = eng.run.ins + 1 /\ r.ins \in Nat /\ r.cmd = <<>>
      /\ r.shifted = Read.run.shifted /\ r.slot = Read.run.slot
  BY <1>1, <1>2 DEF IsRun
<1>4. Counted = WithRun(Read, r)
  BY DEF Counted, WithRun
<1> HIDE DEF r
<1>5. Passes(Read, Counted) /\ Counted.run = r
  BY <1>1, <1>3, <1>4, RunGoes
<1>6. Goes(eng, Counted, w)
  BY <1>1, <1>5, GoesFurther DEF Passes
<1> QED BY <1>3, <1>5, <1>6 DEF Steps

LEMMA StepsTurn ==
  ASSUME NEW e, NEW w, Turns(eng, w), Steps(e, w)
  PROVE  Turns(e, w) /\ Fit(e) /\ e.run.slot = i0
BY GoesTurns DEF Steps, Goes, i0

LEMMA BecomesSteps ==
  ASSUME NEW e, NEW f, NEW w, Steps(e, w), Becomes(e, f)
  PROVE  Steps(f, w)
<1>1. Goes(eng, f, w)
  BY BecomesGoes, GoesFurther DEF Steps
<1> QED BY <1>1 DEF Steps, Becomes, SameTurn

LEMMA RewrittenSteps ==
  ASSUME NEW e, NEW f, NEW w, NEW X, Turns(eng, w), Steps(e, w), Rewritten(e, f, X),
         ~e.run.shifted => \A k \in X : e.stat[k].lock => e.stat[k].who = w
  PROVE  Steps(f, w)
<1>1. Goes(e, f, w)
  BY StepsTurn, RewrittenGoes
<1>2. Goes(eng, f, w)
  BY <1>1, GoesFurther DEF Steps
<1> QED BY <1>2 DEF Steps, Rewritten

LEMMA StatAtSteps ==
  ASSUME NEW e, NEW w, Turns(eng, w), Steps(e, w), NEW v, IsStat(v),
         v.who = e.stat[i0].who, v.kind = e.stat[i0].kind
  PROVE  Steps(StatAt(e, i0, v), w)
<1>1. Goes(e, StatAt(e, i0, v), w) /\ StatAt(e, i0, v).run = e.run
  BY StepsTurn, StatAtGoes
<1>2. Goes(eng, StatAt(e, i0, v), w)
  BY <1>1, GoesFurther DEF Steps
<1> QED BY <1>1, <1>2 DEF Steps

LEMMA PosAtSteps ==
  ASSUME NEW e, NEW w, Turns(eng, w), Steps(e, w), NEW x
  PROVE  Steps(PosAt(e, i0, x), w)
<1>1. Goes(e, PosAt(e, i0, x), w) /\ PosAt(e, i0, x).run = e.run
  BY StepsTurn, PosAtGoes
<1>2. Goes(eng, PosAt(e, i0, x), w)
  BY <1>1, GoesFurther DEF Steps
<1> QED BY <1>1, <1>2 DEF Steps

(* What an instruction does, and leaves to be done.                        *)
Plays(w) == Goes(eng, eng', w) /\ GoesOn

LEMMA LoopEndsPlays ==
  ASSUME NEW w, Turns(eng, w), NEW e, Steps(e, w), LoopEnds(e)
  PROVE  Plays(w)
<1>1. Goes(eng, e, w) /\ e.run.ins = eng.run.ins + 1 /\ e.run.cmd = <<>>
  BY DEF Steps
<1>2. /\ Goes(eng, eng', w) /\ eng'.run.ins = e.run.ins /\ eng'.run.cmd = e.run.cmd
      /\ ~eng'.run.stop => e.run.ins <= MAX_INS
  BY <1>1, LoopEndsGoes
<1> QED BY <1>1, <1>2 DEF Plays, GoesOn

LEMMA StopsPlays ==
  ASSUME NEW w, Turns(eng, w), NEW e, Goes(eng, e, w), Stops(e)
  PROVE  Plays(w)
<1> DEFINE f == Stopping(e, TRUE)
<1>1. Passes(e, f) /\ f.run.stop = TRUE
  BY StoppedGoes DEF Goes
<1>2. LoopEnds(f)
  BY DEF Stops, Stopping
<1> HIDE DEF f
<1>3. Goes(eng, f, w)
  BY <1>1, GoesFurther DEF Passes
<1>4. Goes(eng, eng', w) /\ eng'.run.stop
  BY <1>1, <1>2, <1>3, LoopEndsGoes
<1> QED BY <1>4 DEF Plays, GoesOn

LEMMA CmdPlays ==
  ASSUME NEW w, Turns(eng, w), NEW e, Steps(e, w), eng' = [e EXCEPT !.run.cmd = <<Line.then>>]
  PROVE  Plays(w)
<1> DEFINE r == [e.run EXCEPT !.cmd = <<Line.then>>]
<1>1. IsRun(e.run) /\ Fit(e) /\ e.run.ins \in Nat
  BY StepsTurn, RunIs
<1>2. /\ IsRun(r) /\ r.ins = e.run.ins /\ r.cmd = <<Line.then>>
      /\ r.shifted = e.run.shifted /\ r.slot = e.run.slot
  BY <1>1 DEF IsRun
<1>3. eng' = WithRun(e, r)
  BY DEF WithRun
<1> HIDE DEF r
<1>4. Passes(e, eng') /\ eng'.run = r
  <2>1. Passes(e, WithRun(e, r)) /\ WithRun(e, r).run = r
    BY <1>1, <1>2, RunGoes
  <2> QED BY <1>3, <2>1
<1>5. Goes(eng, eng', w)
  BY <1>4, GoesFurther DEF Passes, Steps
<1>6. <<Line.then>> # <<>>
  OBVIOUS
<1>7. eng'.run.ins = eng.run.ins + 1 /\ eng'.run.cmd = <<Line.then>>
  BY <1>2, <1>4 DEF Steps
<1> QED BY <1>5, <1>6, <1>7 DEF Plays, GoesOn

(* What is read and does not count.                                        *)
LEMMA UncountedPlays ==
  ASSUME NEW w, Turns(eng, w), Passed \/ Say \/ Step \/ (Reads("bare") /\ LoopEnds(Read))
  PROVE  Plays(w)
<1>1. /\ Goes(eng, Read, w) /\ Read.run.ins = eng.run.ins /\ Read.run.cmd = <<>>
      /\ Read.run.shifted = eng.run.shifted /\ Read.panic = eng.panic /\ Fit(Read)
      /\ eng.run.cmd = <<>> => Read.stat[i0].pos = Me.pos + 1
  BY ReadGoes DEF Goes
<1>2. ASSUME NEW e, Goes(eng, e, w), e.run.ins = eng.run.ins, e.run.cmd = <<>>, LoopEnds(e),
             e.run.shifted = eng.run.shifted, e.stat[i0].pos = Read.stat[i0].pos
      PROVE  Plays(w)
  <2>1. /\ Goes(eng, eng', w) /\ eng'.run.ins = eng.run.ins /\ eng'.run.cmd = <<>>
        /\ ~eng'.run.stop => e.run.ins <= MAX_INS
        /\ eng'.panic \/ eng'.stat = e.stat
    BY <1>2, LoopEndsGoes
  <2>2. eng'.panic \/ eng.run.cmd # <<>> \/ eng'.stat[i0].pos = Me.pos + 1
    BY <1>1, <1>2, <2>1
  <2> QED BY <1>2, <2>1, <2>2 DEF Plays, GoesOn
<1>3. CASE Passed \/ (Reads("bare") /\ LoopEnds(Read))
  BY <1>1, <1>2, <1>3 DEF Passed
<1>4. CASE Say
  <2> DEFINE said == IF Read.run.said = 2 THEN 2 ELSE Read.run.said + 1
             r == [Read.run EXCEPT !.said = said]
             e == WithRun(Read, r)
  <2>1. LoopEnds(e)
    BY <1>4 DEF Say, WithRun
  <2>2. IsRun(Read.run) /\ Read.run.ins \in Nat
    BY <1>1, RunIs
  <2>3. /\ IsRun(r) /\ r.ins = Read.run.ins /\ r.cmd = Read.run.cmd
        /\ r.shifted = Read.run.shifted /\ r.slot = Read.run.slot
    BY <2>2 DEF IsRun
  <2> HIDE DEF r
  <2>4. Passes(Read, e) /\ e.run = r /\ e.stat = Read.stat
    BY <1>1, <2>2, <2>3, RunGoes
  <2> HIDE DEF e
  <2>5. Goes(eng, e, w)
    BY <1>1, <2>4, GoesFurther DEF Passes
  <2> QED BY <1>1, <1>2, <2>1, <2>3, <2>4, <2>5
<1>5. CASE Step
  <2>1. PICK free \in BOOLEAN, e \in Pushes(Read) :
          Stops(IF ~free /\ Line.op = "/" THEN PosAt(e, i0, e.run.last) ELSE e)
    BY <1>5 DEF Step, PosAt
  <2>2. Goes(eng, e, w)
    BY <1>1, PushesBecome, BecomesGoes, GoesFurther
  <2>3. Goes(eng, PosAt(e, i0, e.run.last), w)
    <3>1. Turns(e, w) /\ e.run.slot = i0
      BY <2>2, GoesTurns DEF Goes, i0
    <3>2. Goes(e, PosAt(e, i0, e.run.last), w)
      BY <3>1, PosAtGoes
    <3> QED BY <2>2, <3>2, GoesFurther
  <2>4. CASE ~free /\ Line.op = "/"
    BY <2>1, <2>3, <2>4, StopsPlays
  <2>5. CASE ~(~free /\ Line.op = "/")
    BY <2>1, <2>2, <2>5, StopsPlays
  <2> QED BY <2>4, <2>5
<1> QED BY <1>3, <1>4, <1>5

(* The last "#" of a program is where a turn may stay.                     *)
LEMMA BarePlays ==
  ASSUME NEW w, Turns(eng, w), Bare
  PROVE  Plays(w)
<1>1. CASE ~AtEnd
  BY <1>1, UncountedPlays DEF Bare
<1>2. CASE AtEnd
  <2> DEFINE r == [eng.run EXCEPT !.last = Me.pos]
  <2>1. eng' = WithRun(eng, r)
    BY <1>2 DEF Bare, WithRun
  <2>2. IsRun(eng.run) /\ eng.run.ins \in Nat /\ Fit(eng)
    BY RunIs DEF Turns
  <2>3. IsRun(r) /\ r.ins = eng.run.ins /\ r.shifted = eng.run.shifted /\ r.slot = eng.run.slot
    BY <2>2 DEF IsRun
  <2> HIDE DEF r
  <2>4. Goes(eng, eng', w)
    BY <2>1, <2>2, <2>3, RunGoes DEF Passes
  <2>5. Spins
    BY <1>2 DEF Spins, Bare
  <2> QED BY <2>4, <2>5 DEF Plays, GoesOn
<1> QED BY <1>1, <1>2

LEMMA MovesPlay ==
  ASSUME NEW w, Turns(eng, w), Go \/ Try \/ Shoot
  PROVE  Plays(w)
<1>1. Steps(Counted, w) /\ Fit(Counted)
  BY CountedSteps, StepsTurn
<1>2. ASSUME NEW e \in Pushes(Counted) PROVE Steps(e, w)
  BY <1>1, PushesBecome, BecomesSteps
<1>3. CASE Go
  <2>1. PICK free \in BOOLEAN, e \in Pushes(Counted) :
          eng' = LET f == Stopping(Skipped(e), TRUE)
                 IN IF free THEN f ELSE PosAt(f, i0, f.run.last)
    BY <1>3 DEF Go, Stopping, PosAt
  <2> DEFINE g == Skipped(e)
             f == Stopping(g, TRUE)
             h == PosAt(f, i0, f.run.last)
  <2>2. eng' = IF free THEN f ELSE h
    BY <2>1
  <2>3. Goes(eng, g, w) /\ Fit(g)
    BY <1>2, SkippedGoes DEF Steps, Goes
  <2> HIDE DEF g
  <2>4. Passes(g, f) /\ f.run.stop = TRUE
    BY <2>3, StoppedGoes
  <2> HIDE DEF f
  <2>5. Goes(eng, f, w)
    BY <2>3, <2>4, GoesFurther DEF Passes
  <2>6. Turns(f, w) /\ f.run.slot = i0
    BY <2>5, GoesTurns DEF Goes, i0
  <2>7. Goes(f, h, w) /\ h.run = f.run
    BY <2>6, PosAtGoes
  <2> HIDE DEF h
  <2>8. Goes(eng, h, w)
    BY <2>5, <2>7, GoesFurther
  <2>9. Goes(eng, eng', w) /\ eng'.run.stop = TRUE
    BY <2>2, <2>4, <2>5, <2>7, <2>8
  <2> QED BY <2>9 DEF Plays, GoesOn
<1>4. CASE Try
  BY <1>2, <1>4, StopsPlays, CmdPlays DEF Try, Steps
<1>5. CASE Shoot
  <2>1. PICK e \in Pushes(Counted) \cup {AddStat(Counted, "fodder")} : Stops(e)
    BY <1>5 DEF Shoot
  <2>2. Steps(AddStat(Counted, "fodder"), w)
    BY <1>1, AddStatBecomes, BecomesSteps
  <2>3. Goes(eng, e, w)
    BY <1>2, <2>2 DEF Steps
  <2> QED BY <2>1, <2>3, StopsPlays
<1> QED BY <1>3, <1>4, <1>5

(* What an object says of itself.                                          *)
Reread(s, text, pos)     == [s EXCEPT !.text = text, !.pos = pos]
Replacing(q, kind)       == [q EXCEPT !.become = kind, !.stop = TRUE]

LEMMA StatReread ==
  ASSUME NEW s, IsStat(s), NEW text, NEW pos
  PROVE  LET x == Reread(s, text, pos) IN IsStat(x) /\ x.who = s.who /\ x.kind = s.kind
<1>1. s = [who |-> s.who, kind |-> s.kind, text |-> s.text, pos |-> s.pos, lock |-> s.lock,
           walk |-> s.walk, gone |-> s.gone]
  BY DEF IsStat
<1> DEFINE x == Reread(s, text, pos)
<1>3. x = [s EXCEPT !.text = text, !.pos = pos]
  BY DEF Reread
<1> HIDE DEF x
<1>2. x = [who |-> s.who, kind |-> s.kind, text |-> text, pos |-> pos, lock |-> s.lock,
        walk |-> s.walk, gone |-> s.gone]
  BY <1>1, <1>3
<1> QED BY <1>2 DEF IsStat, x

LEMMA RunReplaced ==
  ASSUME NEW q, IsRun(q), NEW kind
  PROVE  LET x == Replacing(q, kind)
         IN IsRun(x) /\ x.ins = q.ins /\ x.stop = TRUE /\ x.shifted = q.shifted /\ x.slot = q.slot
<1>1. q = [slot |-> q.slot, near |-> q.near, whose |-> q.whose, ins |-> q.ins, said |-> q.said,
           last |-> q.last, cmd |-> q.cmd, stop |-> q.stop, become |-> q.become,
           shifted |-> q.shifted]
  BY DEF IsRun
<1> DEFINE x == Replacing(q, kind)
<1>3. x = [q EXCEPT !.become = kind, !.stop = TRUE]
  BY DEF Replacing
<1> HIDE DEF x
<1>2. x = [slot |-> q.slot, near |-> q.near, whose |-> q.whose, ins |-> q.ins, said |-> q.said,
           last |-> q.last, cmd |-> q.cmd, stop |-> TRUE, become |-> kind, shifted |-> q.shifted]
  BY <1>1, <1>3
<1> QED BY <1>2 DEF IsRun, x

LEMMA OwnPlays ==
  ASSUME NEW w, Turns(eng, w), Walk \/ If \/ End \/ Idle \/ Restart \/ Lock \/ Become \/ Bind
  PROVE  Plays(w)
<1>1. Steps(Counted, w) /\ Goes(eng, Counted, w) /\ Fit(Counted) /\ Turns(Counted, w)
      /\ Counted.run.slot = i0
  BY CountedSteps, StepsTurn DEF Steps
<1> DEFINE s == Counted.stat[i0]
<1>2. IsStat(s)
  BY <1>1, TurnsIn
<1>3. CASE Walk
  <2> DEFINE v == [s EXCEPT !.walk = Line.on]
  <2>1. IsStat(v) /\ v.who = s.who /\ v.kind = s.kind
    BY <1>2 DEF IsStat
  <2>2. LoopEnds(StatAt(Counted, i0, v))
    BY <1>3 DEF Walk, StatAt
  <2> HIDE DEF v
  <2> QED BY <1>1, <2>1, <2>2, StatAtSteps, LoopEndsPlays
<1>4. CASE If
  BY <1>1, <1>4, LoopEndsPlays, CmdPlays DEF If
<1>5. CASE End \/ Restart
  <2>1. PICK x \in {0, 1} : LoopEnds(PosAt(Counted, i0, x))
    BY <1>5 DEF End, Restart, PosAt
  <2> QED BY <1>1, <2>1, PosAtSteps, LoopEndsPlays
<1>6. CASE Idle
  BY <1>1, <1>6, StopsPlays DEF Idle
<1>7. CASE Lock
  <2>1. PICK x : LoopEnds([Counted EXCEPT !.stat[i0].lock = x])
    BY <1>7 DEF Lock
  <2> DEFINE v == [s EXCEPT !.lock = x]
  <2>2. IsStat(v) /\ v.who = s.who /\ v.kind = s.kind
    BY <1>2 DEF IsStat
  <2>3. LoopEnds(StatAt(Counted, i0, v))
    BY <2>1 DEF StatAt
  <2> HIDE DEF v
  <2> QED BY <1>1, <2>2, <2>3, StatAtSteps, LoopEndsPlays
<1>8. CASE Become
  <2> DEFINE r == Replacing(Counted.run, Line.kind)
             e == WithRun(Counted, r)
  <2>1. LoopEnds(e)
    BY <1>8 DEF Become, WithRun, Replacing
  <2>2. IsRun(Counted.run) /\ Counted.run.ins \in Nat
    BY <1>1, RunIs
  <2>3. /\ IsRun(r) /\ r.ins = Counted.run.ins /\ r.stop = TRUE
        /\ r.shifted = Counted.run.shifted /\ r.slot = Counted.run.slot
    BY <2>2, RunReplaced
  <2> HIDE DEF r
  <2>4. Passes(Counted, e) /\ e.run = r
    BY <1>1, <2>2, <2>3, RunGoes
  <2> HIDE DEF e
  <2>5. Goes(eng, e, w)
    BY <1>1, <2>4, GoesFurther DEF Passes
  <2>6. Goes(eng, eng', w) /\ eng'.run.stop
    BY <2>1, <2>3, <2>4, <2>5, LoopEndsGoes
  <2> QED BY <2>6 DEF Plays, GoesOn
<1>9. CASE Bind
  <2> DEFINE found == Lookup(Counted, i0, Line.to)
             text  == eng.stat[Min(found)].text
             v     == Reread(s, text, 1)
  <2>1. IsStat(v) /\ v.who = s.who /\ v.kind = s.kind
    BY <1>2, StatReread
  <2>2. LoopEnds(IF found = {} THEN Counted ELSE StatAt(Counted, i0, v))
    <3>1. LoopEnds(IF found = {} THEN Counted
                   ELSE [Counted EXCEPT !.stat[i0].text = text, !.stat[i0].pos = 1])
      BY <1>9 DEF Bind
    <3>2. [Counted EXCEPT !.stat[i0].text = text, !.stat[i0].pos = 1] = StatAt(Counted, i0, v)
      <4>1. i0 \in Slot /\ DOMAIN Counted.stat = Slot
        BY <1>1, TurnsIn, StatsAre
      <4>2. Counted = [n |-> Counted.n, stat |-> Counted.stat, aud |-> Counted.aud, pl |-> Counted.pl,
                       run |-> Counted.run, knock |-> Counted.knock, heard |-> Counted.heard,
                       panic |-> Counted.panic]
        BY <1>1 DEF Fit, Shaped
      <4> HIDE DEF text
      <4> QED BY <4>1, <4>2 DEF StatAt, Reread
    <3> HIDE DEF found, text, v
    <3> QED BY <3>1, <3>2
  <2> HIDE DEF found, text, v
  <2>3. Steps(StatAt(Counted, i0, v), w)
    BY <1>1, <2>1, StatAtSteps
  <2>4. CASE found = {}
    BY <1>1, <2>2, <2>4, LoopEndsPlays
  <2>5. CASE found # {}
    BY <2>2, <2>3, <2>5, LoopEndsPlays
  <2> QED BY <2>4, <2>5
<1> QED BY <1>3, <1>4, <1>5, <1>6, <1>7, <1>8, <1>9

(* What an object does to players.                                         *)
WithPlayers(e, pl) == [e EXCEPT !.pl = pl]

LEMMA PlayersStep ==
  ASSUME NEW w, Turns(eng, w), NEW e, Steps(e, w), NEW pl
  PROVE  Steps(WithPlayers(e, pl), w)
<1>1. Becomes(e, WithPlayers(e, pl))
  BY StepsTurn, PlayersBecome DEF WithPlayers
<1> QED BY <1>1, BecomesSteps

LEMMA GivesPlay ==
  ASSUME NEW w, Turns(eng, w), Give \/ Take \/ EndGame
  PROVE  Plays(w)
<1>1. Steps(Counted, w) /\ Fit(Counted)
  BY CountedSteps, StepsTurn
<1>2. CASE Give
  <2> DEFINE pl == [Counted.pl EXCEPT ![eng.run.whose].hp = IF @ = Full THEN Full ELSE @ + 1]
  <2>1. LoopEnds(WithPlayers(Counted, pl))
    BY <1>2 DEF Give, WithPlayers
  <2> HIDE DEF pl
  <2> QED BY <1>1, <2>1, PlayersStep, LoopEndsPlays
<1>3. CASE Take
  <2> DEFINE pl == [Counted.pl EXCEPT ![eng.run.whose].hp = @ - 1]
  <2>1. LoopEnds(WithPlayers(Counted, pl)) \/ eng' = [Counted EXCEPT !.run.cmd = <<Line.then>>]
    BY <1>3 DEF Take, WithPlayers
  <2> HIDE DEF pl
  <2>2. Steps(WithPlayers(Counted, pl), w)
    BY <1>1, PlayersStep
  <2> QED BY <1>1, <2>1, <2>2, LoopEndsPlays, CmdPlays
<1>4. CASE EndGame
  <2> DEFINE pl == [Counted.pl EXCEPT ![eng.run.whose].hp = 0]
             e  == WithPlayers(Counted, pl)
  <2>1. LoopEnds(Counted) \/ LoopEnds(KillPlayer(e, eng.run.near))
    BY <1>4 DEF EndGame, WithPlayers
  <2> HIDE DEF pl
  <2>2. Steps(e, w)
    BY <1>1, PlayersStep
  <2> HIDE DEF e
  <2>3. Steps(KillPlayer(e, eng.run.near), w)
    <3>1. Becomes(e, KillPlayer(e, eng.run.near))
      BY <2>2, StepsTurn, KillPlayerBecomes
    <3> QED BY <2>2, <3>1, BecomesSteps
  <2> QED BY <1>1, <2>1, <2>3, LoopEndsPlays
<1> QED BY <1>2, <1>3, <1>4

(* What an object says to others: it reaches who is not locked, and itself.*)
LEMMA SendsPlay ==
  ASSUME NEW w, Turns(eng, w), Zap \/ Restore \/ Send
  PROVE  Plays(w)
<1>1. Steps(Counted, w) /\ Fit(Counted) /\ Turns(Counted, w) /\ Counted.run.slot = i0
  BY CountedSteps, StepsTurn
<1>2. i0 \in 2..MaxStats
  BY DEF Turns, Fit, TurnShaped, i0
<1>3. ASSUME NEW from, NEW op
      PROVE  Steps(Mark(Counted, i0, Line.to, Line.label, from, op), w)
  <2>1. Rewritten(Counted, Mark(Counted, i0, Line.to, Line.label, from, op), {})
    BY <1>1, <1>2, MarkRewrites
  <2> QED BY <1>1, <2>1, RewrittenSteps
<1>4. CASE Zap \/ Restore
  BY <1>3, <1>4, LoopEndsPlays DEF Zap, Restore
<1>5. CASE Send
  <2> DEFINE e == OopSend(Counted, i0, Line.to, Line.label, FALSE)
             X == Hearing(Counted, i0, FALSE)
  <2>1. LoopEnds(e) \/ LoopEnds(PosAt(e, i0, 0))
    BY <1>5 DEF Send, PosAt
  <2>2. Rewritten(Counted, e, X)
    BY <1>1, OopSendRewrites
  <2>3. ~Counted.run.shifted => \A k \in X : Counted.stat[k].lock => Counted.stat[k].who = w
    BY <1>1 DEF Turns, Hearing
  <2> HIDE DEF e, X
  <2>4. Steps(e, w)
    BY <1>1, <2>2, <2>3, RewrittenSteps
  <2> QED BY <2>1, <2>4, PosAtSteps, LoopEndsPlays
<1> QED BY <1>4, <1>5

(* What an object does to the board.                                       *)
LEMMA PutPlays ==
  ASSUME NEW w, Turns(eng, w), Put
  PROVE  Plays(w)
<1>1. PICK e \in Pushes(Counted) :
        \E k \in {0} \cup {k \in 2..e.n : e.stat[k].kind \in {"object", "fodder"}} :
          LoopEnds(Place(e, k, Line.kind))
  BY DEF Put
<1>2. PICK k \in {0} \cup 2..e.n : LoopEnds(Place(e, k, Line.kind))
  BY <1>1
<1>3. Steps(e, w)
  BY CountedSteps, StepsTurn, PushesBecome, BecomesSteps
<1>4. Becomes(e, Place(e, k, Line.kind))
  BY <1>3, StepsTurn, PlaceBecomes
<1>5. Steps(Place(e, k, Line.kind), w)
  BY <1>3, <1>4, BecomesSteps
<1> QED BY <1>2, <1>5, LoopEndsPlays

Changes(g, N, e, from, kind) ==
  g = [m \in 0..N |-> IF m = 0 THEN e ELSE ChangeOne(g[m - 1], from, kind)]

LEMMA ChangesExist ==
  ASSUME NEW e, NEW from, NEW kind, NEW N \in Nat
  PROVE  \E g : Changes(g, N, e, from, kind)
<1> DEFINE Is(g, n) == Changes(g, n, e, from, kind)
           S == {n \in 0..N : \E g : Is(g, n)}
<1>1. 0 \in S
  <2>1. Is([m \in 0..0 |-> e], 0)
    BY DEF Changes
  <2> HIDE DEF Is
  <2> QED BY <2>1
<1>2. ASSUME NEW k \in 1..N, k - 1 \in S PROVE k \in S
  <2>1. PICK g : Is(g, k - 1)
    BY <1>2
  <2> DEFINE h == [m \in 0..k |-> IF m = k THEN ChangeOne(g[k - 1], from, kind) ELSE g[m]]
  <2>2. ASSUME NEW m \in 0..k
        PROVE  h[m] = IF m = 0 THEN e ELSE ChangeOne(h[m - 1], from, kind)
    <3>1. CASE m = k
      <4>1. k - 1 \in 0..k /\ k - 1 # k /\ h[k - 1] = g[k - 1] /\ h[k] = ChangeOne(g[k - 1], from, kind)
        OBVIOUS
      <4> QED BY <3>1, <4>1
    <3>2. CASE m # k
      <4>1. m \in 0..(k - 1) /\ h[m] = g[m]
        BY <3>2
      <4>2. h[m] = IF m = 0 THEN e ELSE ChangeOne(g[m - 1], from, kind)
        BY <2>1, <4>1 DEF Changes
      <4>3. m # 0 => m - 1 \in 0..k /\ m - 1 # k /\ h[m - 1] = g[m - 1]
        BY <4>1
      <4> QED BY <4>2, <4>3
    <3> QED BY <3>1, <3>2
  <2>3. h = [m \in 0..k |-> h[m]]
    OBVIOUS
  <2> HIDE DEF h
  <2>4. Is(h, k)
    BY <2>2, <2>3 DEF Changes
  <2> HIDE DEF Is
  <2> QED BY <2>4
<1>3. 0..N \subseteq S
  <2> HIDE DEF S
  <2> QED BY <1>1, <1>2, UpTo
<1> HIDE DEF Is
<1>4. PICK g : Is(g, N)
  BY <1>3
<1> QED BY <1>4 DEF Is

LEMMA ChangePlays ==
  ASSUME NEW w, Turns(eng, w), Change
  PROVE  Plays(w)
<1> DEFINE from  == Line.from
           kind  == Line.kind
           e     == Counted
           found == Cardinality(OnBoard(e, from))
           left  == CHOOSE g : Changes(g, found, e, from, kind)
<1>1. LoopEnds(left[found])
  BY DEF Change, Changes
<1>2. Steps(e, w) /\ Fit(e)
  BY CountedSteps, StepsTurn
<1> HIDE DEF from, kind, e
<1>3. found \in Nat
  <2>1. IsFiniteSet(2..e.n)
    BY <1>2, SlotsOf, FS_Interval
  <2>2. OnBoard(e, from) \subseteq 2..e.n
    BY DEF OnBoard
  <2> QED BY <2>1, <2>2, FS_Subset, FS_CardinalityType
<1> HIDE DEF found
<1>4. \E g : Changes(g, found, e, from, kind)
  BY <1>3, ChangesExist
<1>5. Changes(left, found, e, from, kind)
  BY <1>4
<1> HIDE DEF left
<1>6. /\ left[0] = e
      /\ \A m \in 1..found : left[m] = ChangeOne(left[m - 1], from, kind)
  BY <1>3, <1>5 DEF Changes
<1> DEFINE S == {m \in 0..found : Steps(left[m], w)}
<1>7. 0 \in S
  BY <1>2, <1>3, <1>6
<1>8. ASSUME NEW m \in 1..found, m - 1 \in S PROVE m \in S
  <2>1. Steps(left[m - 1], w)
    BY <1>8
  <2>2. Becomes(left[m - 1], left[m])
    BY <1>6, <2>1, StepsTurn, ChangeOneBecomes
  <2>3. Steps(left[m], w) /\ m \in 0..found
    BY <1>3, <2>1, <2>2, BecomesSteps
  <2> QED BY <2>3
<1>9. Steps(left[found], w)
  <2>1. 0..found \subseteq S
    <3> HIDE DEF S
    <3> QED BY <1>3, <1>7, <1>8, UpTo
  <2> QED BY <1>3, <2>1
<1> QED BY <1>1, <1>9, LoopEndsPlays

LEMMA BadPlays ==
  ASSUME NEW w, Turns(eng, w), Bad
  PROVE  Plays(w)
<1> DEFINE e == DisplayMessage(Counted)
<1>1. LoopEnds(PosAt(e, i0, 0))
  BY DEF Bad, OopError, PosAt
<1>2. Steps(e, w)
  BY CountedSteps, StepsTurn, DisplayMessageBecomes, BecomesSteps
<1> HIDE DEF e
<1> QED BY <1>1, <1>2, PosAtSteps, LoopEndsPlays

-----------------------------------------------------------------------------
(* The end of a turn, and what comes between turns *)

(* A window is shown to whoever touched the object, and forgets it.        *)
LEMMA WindowFits ==
  ASSUME NEW e, Fit(e), e.run.slot = i0, i0 # 0
  PROVE  Fit(Window(e)) /\ Window(e).stat = e.stat /\ Window(e).n = e.n
<1>1. CASE i0 > e.n
  BY <1>1 DEF Window
<1>2. CASE ~(i0 > e.n)
  <2> DEFINE a     == e.aud[i0]
             who   == e.stat[i0].who
             aud   == [e.aud EXCEPT ![i0] = 0]
             heard == e.heard /\ (a # 0 => e.run.shifted \/ <<e.stat[a].who, who>> \in e.knock)
             knock == e.knock \ Knockers(e, who)
             f     == Window(e)
  <2>1. /\ e = [n |-> e.n, stat |-> e.stat, aud |-> e.aud, pl |-> e.pl, run |-> e.run,
                knock |-> e.knock, heard |-> e.heard, panic |-> e.panic]
        /\ e.aud \in [Slot -> 0..MaxStats]
    BY DEF Fit, Shaped
  <2>2. f = [e EXCEPT !.aud = aud, !.heard = heard, !.knock = knock]
    BY <1>2 DEF Window
  <2>3. i0 \in Slot /\ i0 \in 1..e.n
    <3>1. e.n \in 1..MaxStats
      BY SlotsOf
    <3>2. e.run.slot \in {0} \cup 2..MaxStats
      BY DEF Fit, TurnShaped
    <3>3. i0 \in 2..MaxStats
      BY <3>2
    <3> HIDE DEF i0
    <3> QED BY <1>2, <3>1, <3>3
  <2>4. heard = TRUE
    BY <2>3 DEF Fit, AudienceKnown
  <2>5. \A q : q \in knock <=> q \in e.knock /\ q[2] # who
    BY DEF Knockers
  <2>6. aud \in [Slot -> 0..MaxStats] /\ \A k \in Slot : aud[k] = IF k = i0 THEN 0 ELSE e.aud[k]
    BY <2>1, <2>3
  <2> HIDE DEF f, aud, heard, knock
  <2>7. f = [n |-> e.n, stat |-> e.stat, aud |-> aud, pl |-> e.pl, run |-> e.run,
             knock |-> knock, heard |-> heard, panic |-> e.panic]
    BY <2>1, <2>2
  <2>8. /\ f.n = e.n /\ f.stat = e.stat /\ f.aud = aud /\ f.run = e.run /\ f.knock = knock
        /\ f.heard = TRUE /\ f.panic = e.panic /\ f.pl = e.pl
    BY <2>4, <2>7
  <2>9. Shaped(f)
    BY <2>7, <2>8 DEF Fit, Shaped
  <2>10. ToldApart(f) /\ TurnShaped(f) /\ f.stat[1].kind = "player"
    BY <2>8 DEF Fit, ToldApart, TurnShaped
  <2>11. AudienceKnown(f)
    <3> SUFFICES ASSUME NEW k \in Slot, aud[k] # 0
                 PROVE  /\ k <= e.n /\ e.stat[k].kind = "object" /\ aud[k] \in 1..e.n
                        /\ <<e.stat[aud[k]].who, e.stat[k].who>> \in knock
      BY <2>8 DEF AudienceKnown
    <3>1. k # i0 /\ aud[k] = e.aud[k]
      BY <2>6
    <3>2. /\ k <= e.n /\ e.stat[k].kind = "object" /\ e.aud[k] \in 1..e.n
          /\ <<e.stat[e.aud[k]].who, e.stat[k].who>> \in e.knock
      BY <3>1 DEF Fit, AudienceKnown
    <3>3. k \in 1..e.n /\ i0 \in (1..e.n) \ {k}
      BY <2>3, <3>1, <3>2
    <3>4. e.stat[k].who # who
      BY <3>2, <3>3 DEF Fit, ToldApart
    <3>5. <<e.stat[e.aud[k]].who, e.stat[k].who>>[2] = e.stat[k].who
      OBVIOUS
    <3> HIDE DEF who
    <3>6. <<e.stat[e.aud[k]].who, e.stat[k].who>> \in knock
      BY <2>5, <3>2, <3>4, <3>5
    <3> QED BY <3>1, <3>2, <3>6
  <2>12. Fit(f)
    BY <2>6, <2>8, <2>9, <2>10, <2>11 DEF Fit
  <2> QED BY <2>8, <2>12 DEF f
<1> QED BY <1>1, <1>2

(* A message, a window or neither, and what becomes of the object.         *)
Ends(e, w) == Fit(e) /\ (~eng.run.shifted => Follows(eng, e, w))

LEMMA BecomesEnds ==
  ASSUME NEW e, NEW f, NEW w, Ends(e, w), Becomes(e, f)
  PROVE  Ends(f, w)
BY FollowsOn DEF Ends, Becomes

LEMMA ShownEnds ==
  ASSUME NEW e, NEW w, Ends(e, w), e.run.slot = i0, i0 # 0
  PROVE  Ends(Shown(e), w)
<1>1. Ends(Window(e), w)
  <2>1. Fit(Window(e)) /\ Window(e).stat = e.stat /\ Window(e).n = e.n
    BY WindowFits DEF Ends
  <2> QED BY <2>1 DEF Ends, Follows
<1>2. Ends(DisplayMessage(e), w)
  BY DisplayMessageBecomes, BecomesEnds DEF Ends
<1> QED BY <1>1, <1>2 DEF Shown

LEMMA ReplacedEnds ==
  ASSUME NEW e, NEW w, Ends(e, w), i0 \in 2..MaxStats
  PROVE  Ends(Replaced(e), w)
<1> DEFINE i == IF i0 > e.n THEN e.n ELSE i0
           f == DamageStat(e, i)
<1>1. Fit(e) /\ i \in 1..e.n
  BY SlotsOf DEF Ends
<1>2. Replaced(e) \in {e, f, AddStat(f, "fodder")}
  BY DEF Replaced
<1> HIDE DEF i
<1>3. Becomes(e, f)
  BY <1>1, DamageStatBecomes
<1> HIDE DEF f
<1>4. Ends(f, w) /\ Fit(f)
  BY <1>3, BecomesEnds DEF Becomes
<1>5. Ends(AddStat(f, "fodder"), w)
  BY <1>4, AddStatBecomes, BecomesEnds
<1> QED BY <1>2, <1>4, <1>5

(* A turn is over: slots nothing stands in are read by nobody.             *)
Settled(e, n) ==
  [e EXCEPT !.run = Still, !.stat = [k \in Slot |-> IF k <= n THEN @[k] ELSE Plain("timer", Nobody)]]

LEMMA SettledEnds ==
  ASSUME NEW e, NEW w, Ends(e, w)
  PROVE  Ends(Settled(e, e.n), w) /\ Settled(e, e.n).run = Still
<1> DEFINE stat == [k \in Slot |-> IF k <= e.n THEN e.stat[k] ELSE Plain("timer", Nobody)]
           f    == Settled(e, e.n)
<1>1. /\ e = [n |-> e.n, stat |-> e.stat, aud |-> e.aud, pl |-> e.pl, run |-> e.run,
              knock |-> e.knock, heard |-> e.heard, panic |-> e.panic]
      /\ Fit(e) /\ e.n \in 1..MaxStats /\ 1..e.n \subseteq Slot
  BY SlotsOf DEF Ends, Fit, Shaped
<1>2. f = [e EXCEPT !.run = Still, !.stat = stat]
  BY DEF Settled
<1>3. /\ DOMAIN stat = Slot /\ \A k \in Slot : IsStat(stat[k])
      /\ \A k \in 1..e.n : stat[k] = e.stat[k]
  <2>1. ASSUME NEW k \in Slot PROVE IsStat(stat[k])
    <3>1. IsStat(e.stat[k]) /\ IsStat(Plain("timer", Nobody))
      BY <1>1, StatsAre DEF Plain, IsStat
    <3> QED BY <3>1
  <2> QED BY <1>1, <2>1
<1> HIDE DEF f, stat
<1>4. f = [n |-> e.n, stat |-> stat, aud |-> e.aud, pl |-> e.pl, run |-> Still,
           knock |-> e.knock, heard |-> e.heard, panic |-> e.panic]
  BY <1>1, <1>2
<1>5. /\ f.n = e.n /\ f.stat = stat /\ f.aud = e.aud /\ f.run = Still /\ f.knock = e.knock
      /\ f.heard = e.heard /\ f.panic = e.panic /\ f.pl = e.pl
  BY <1>4
<1>6. Shaped(f)
  BY <1>1, <1>3, <1>4, <1>5 DEF Shaped, IsStat
<1>7. ToldApart(f) /\ f.stat[1].kind = "player"
  <2>1. \A k \in 1..f.n : f.stat[k] = e.stat[k]
    BY <1>3, <1>5
  <2>2. 1 \in 1..e.n /\ ToldApart(e) /\ e.stat[1].kind = "player"
    BY <1>1 DEF Fit
  <2> QED BY <1>5, <2>1, <2>2 DEF ToldApart
<1>8. AudienceKnown(f)
  <2> SUFFICES ASSUME NEW k \in Slot, e.aud[k] # 0
               PROVE  /\ k <= e.n /\ stat[k].kind = "object" /\ e.aud[k] \in 1..e.n
                      /\ <<stat[e.aud[k]].who, stat[k].who>> \in e.knock
    BY <1>5 DEF AudienceKnown
  <2>1. /\ k <= e.n /\ e.stat[k].kind = "object" /\ e.aud[k] \in 1..e.n
        /\ <<e.stat[e.aud[k]].who, e.stat[k].who>> \in e.knock
    BY <1>1 DEF Fit, AudienceKnown
  <2>2. k \in 1..e.n
    BY <1>1, <2>1
  <2> QED BY <1>3, <2>1, <2>2
<1>9. TurnShaped(f)
  BY <1>1, <1>5 DEF TurnShaped, Still
<1>10. Fit(f)
  BY <1>1, <1>5, <1>6, <1>7, <1>8, <1>9 DEF Fit
<1>11. Follows(e, f, w)
  BY <1>3, <1>5 DEF Follows
<1> QED BY <1>5, <1>10, <1>11, FollowsOn DEF Ends, f

(* Nobody who is locked hears what comes from outside.                     *)
LEMMA OutsideEnds ==
  ASSUME NEW e, NEW w, Ends(e, w), NEW i, NEW to, NEW l
  PROVE  Ends(OopSend(e, i, to, l, TRUE), w)
<1> DEFINE f == OopSend(e, i, to, l, TRUE)
           X == Hearing(e, i, TRUE)
<1>1. Fit(e) /\ Rewritten(e, f, X)
  BY OopSendRewrites DEF Ends
<1>2. \A k \in X : e.stat[k].lock => e.stat[k].who = w
  BY DEF Hearing
<1> HIDE DEF f, X
<1>3. Fit(f) /\ Follows(e, f, w)
  BY <1>1, <1>2, RewrittenFit, RewrittenFollows
<1> QED BY <1>3, FollowsOn DEF Ends, f

LEMMA EndTurnEnds ==
  ASSUME NEW w, Turns(eng, w), EndTurn
  PROVE  Ends(eng', w) /\ eng'.run = Still
<1> DEFINE x == IF eng.run.stop THEN eng ELSE PosAt(eng, i0, 0)
           e == Replaced(Shown(x))
           g == OopSend(e, i0, "here", "thud", TRUE)
<1>1. PICK bumps \in BOOLEAN : eng' = Settled(IF bumps /\ e.stat[i0].walk THEN g ELSE e, e.n)
  BY DEF EndTurn, Settled, PosAt
<1>2. i0 \in 2..MaxStats /\ i0 # 0 /\ Fit(eng)
  BY DEF Turns, Fit, TurnShaped, i0
<1>3. Ends(x, w) /\ x.run.slot = i0
  <2>1. Ends(eng, w) /\ eng.run.slot = i0
    BY <1>2, BecomesStill DEF Ends, Becomes, i0
  <2>2. Goes(eng, PosAt(eng, i0, 0), w) /\ PosAt(eng, i0, 0).run = eng.run
    BY PosAtGoes DEF i0
  <2>3. Ends(PosAt(eng, i0, 0), w) /\ PosAt(eng, i0, 0).run.slot = i0
    BY <2>2 DEF Ends, Goes, i0
  <2> QED BY <2>1, <2>3
<1> HIDE DEF x
<1>4. Ends(e, w)
  BY <1>2, <1>3, ShownEnds, ReplacedEnds
<1> HIDE DEF e
<1>5. Ends(g, w) /\ g.n = e.n
  <2>1. Ends(g, w)
    BY <1>4, OutsideEnds
  <2>2. Rewritten(e, g, Hearing(e, i0, TRUE))
    BY <1>4, OopSendRewrites DEF Ends
  <2> HIDE DEF g
  <2> QED BY <2>1, <2>2 DEF Rewritten, Unmoved
<1> HIDE DEF g
<1>6. CASE bumps /\ e.stat[i0].walk
  BY <1>1, <1>5, <1>6, SettledEnds
<1>7. CASE ~(bumps /\ e.stat[i0].walk)
  BY <1>1, <1>4, <1>7, SettledEnds
<1> QED BY <1>6, <1>7

Acts == IF i0 = 0 THEN Nobody ELSE Me.who

(* What every step of a board leaves as it was.                            *)
Keeps ==
  /\ Fit(eng') /\ GoesOn
  /\ (~eng.run.shifted /\ ~eng'.run.shifted /\ ~(\E i \in Slot, l \in {"touch", "shot"} : Reply(i, l)))
       => Follows(eng, eng', Acts)

LEMMA InstructionKeeps ==
  ASSUME Fit(eng), Instruction
  PROVE  Keeps
<1>1. i0 # 0
  BY DEF Instruction, Passed, Say, Bare, Step, Go, Try, Shoot, Walk, If, Give, Take, EndGame, End, Idle,
         Restart, Lock, Zap, Restore, Send, Become, Put, Change, Bind, Bad, EndTurn, Reads, Running
<1>2. Turns(eng, Acts)
  BY <1>1 DEF Turns, Acts, Me, i0
<1>3. CASE EndTurn
  <2>1. Ends(eng', Acts) /\ eng'.run = Still
    BY <1>2, <1>3, EndTurnEnds
  <2>2. GoesOn
    BY <2>1 DEF GoesOn, Still
  <2> QED BY <2>1, <2>2 DEF Ends, Keeps
<1>4. CASE ~EndTurn
  <2>1. Plays(Acts)
    BY <1>2, <1>4, UncountedPlays, BarePlays, MovesPlay, OwnPlays, GivesPlay, SendsPlay, PutPlays, ChangePlays,
       BadPlays DEF Instruction
  <2> QED BY <2>1 DEF Plays, Goes, Keeps
<1> QED BY <1>3, <1>4

LEMMA BeginTurnKeeps ==
  ASSUME Fit(eng), NEW i, BeginTurn(i)
  PROVE  Keeps
<1>1. PICK p \in 1..eng.n :
        eng' = [eng EXCEPT !.run = [Still EXCEPT !.slot = i, !.near = p, !.whose = eng.stat[p].who]]
  BY DEF BeginTurn
<1> DEFINE r == [Still EXCEPT !.slot = i, !.near = p, !.whose = eng.stat[p].who]
<1>2. i \in 2..eng.n /\ i \in 2..MaxStats /\ i0 = 0
  BY SlotsOf DEF BeginTurn
<1>13. r = [Still EXCEPT !.slot = i, !.near = p, !.whose = eng.stat[p].who]
  OBVIOUS
<1> HIDE DEF r
<1>12. r = [slot |-> i, near |-> p, whose |-> eng.stat[p].who, ins |-> 0, said |-> 0, last |-> 0,
            cmd |-> <<>>, stop |-> FALSE, become |-> "no", shifted |-> FALSE]
  BY <1>13 DEF Still
<1>3. IsRun(r) /\ r.slot = i /\ r.ins = 0 /\ r.shifted = FALSE
  BY <1>12 DEF IsRun
<1>4. eng = [n |-> eng.n, stat |-> eng.stat, aud |-> eng.aud, pl |-> eng.pl, run |-> eng.run,
             knock |-> eng.knock, heard |-> eng.heard, panic |-> eng.panic]
  BY DEF Fit, Shaped
<1>5. eng' = [n |-> eng.n, stat |-> eng.stat, aud |-> eng.aud, pl |-> eng.pl, run |-> r,
              knock |-> eng.knock, heard |-> eng.heard, panic |-> eng.panic]
  BY <1>1, <1>4, <1>13
<1>6. /\ eng'.n = eng.n /\ eng'.stat = eng.stat /\ eng'.aud = eng.aud /\ eng'.run = r
      /\ eng'.knock = eng.knock /\ eng'.heard = eng.heard /\ eng'.panic = eng.panic /\ eng'.pl = eng.pl
  BY <1>5
<1>7. Shaped(eng')
  BY <1>5, <1>6 DEF Fit, Shaped
<1>8. TurnShaped(eng')
  <2>1. r.slot \in {0} \cup 2..MaxStats /\ r.ins \in Nat
    BY <1>2, <1>3
  <2>2. r.slot <= eng.n /\ r.shifted \in BOOLEAN
    <3>1. eng.n \in 1..MaxStats
      BY SlotsOf
    <3>2. r.slot <= eng.n
      BY <1>2, <1>3, <3>1
    <3>3. r.shifted \in BOOLEAN
      BY <1>3, Zenon
    <3> QED BY <3>2, <3>3
  <2> QED BY <1>3, <1>6, <2>1, <2>2 DEF TurnShaped, IsRun
<1>9. Unmoved(eng, eng')
  BY <1>6, <1>7 DEF Unmoved
<1>10. Fit(eng')
  BY <1>6, <1>8, <1>9, UnmovedFit
<1>11. Follows(eng, eng', Acts)
  BY <1>6 DEF Follows
<1> QED BY <1>2, <1>10, <1>11 DEF Keeps, GoesOn

(* Between turns nobody is in turn.                                        *)
LEMMA BetweenKeeps ==
  ASSUME i0 = 0, Ends(eng', Acts)
  PROVE  Keeps
BY DEF Keeps, Ends, GoesOn

LEMMA TouchKeeps ==
  ASSUME Fit(eng), NEW p, NEW i, Touch(p, i)
  PROVE  Keeps
<1> DEFINE aud   == [eng.aud EXCEPT ![i] = p]
           pair  == <<eng.stat[p].who, eng.stat[i].who>>
           knock == eng.knock \cup {pair}
           g     == [eng EXCEPT !.aud = aud, !.knock = knock]
<1>1. eng' = OopSend(g, i, "here", "touch", TRUE) /\ i0 = 0
  BY DEF Touch
<1>2. /\ eng = [n |-> eng.n, stat |-> eng.stat, aud |-> eng.aud, pl |-> eng.pl, run |-> eng.run,
                knock |-> eng.knock, heard |-> eng.heard, panic |-> eng.panic]
      /\ eng.aud \in [Slot -> 0..MaxStats] /\ eng.n \in 1..MaxStats
      /\ p \in 1..eng.n /\ i \in 2..eng.n /\ eng.stat[i].kind = "object"
  BY SlotsOf DEF Touch, Fit, Shaped
<1>3. i \in Slot /\ p \in 0..MaxStats
  BY <1>2
<1>4. aud \in [Slot -> 0..MaxStats] /\ \A k \in Slot : aud[k] = IF k = i THEN p ELSE eng.aud[k]
  BY <1>2, <1>3
<1>5. pair \in knock /\ eng.knock \subseteq knock
  OBVIOUS
<1> HIDE DEF aud, knock
<1>13. g = [eng EXCEPT !.aud = aud, !.knock = knock]
  OBVIOUS
<1> HIDE DEF g
<1>6. g = [n |-> eng.n, stat |-> eng.stat, aud |-> aud, pl |-> eng.pl, run |-> eng.run,
           knock |-> knock, heard |-> eng.heard, panic |-> eng.panic]
  BY <1>2, <1>13
<1>7. /\ g.n = eng.n /\ g.stat = eng.stat /\ g.aud = aud /\ g.run = eng.run /\ g.knock = knock
      /\ g.heard = eng.heard /\ g.panic = eng.panic /\ g.pl = eng.pl
  BY <1>6
<1>8. Shaped(g)
  BY <1>6, <1>7 DEF Fit, Shaped
<1>9. ToldApart(g) /\ TurnShaped(g) /\ g.stat[1].kind = "player"
  BY <1>7 DEF Fit, ToldApart, TurnShaped
<1>10. AudienceKnown(g)
  <2> SUFFICES ASSUME NEW k \in Slot, aud[k] # 0
               PROVE  /\ k <= eng.n /\ eng.stat[k].kind = "object" /\ aud[k] \in 1..eng.n
                      /\ <<eng.stat[aud[k]].who, eng.stat[k].who>> \in knock
    BY <1>7 DEF AudienceKnown
  <2>1. CASE k = i
    <3>1. aud[k] = p /\ k <= eng.n
      BY <1>2, <1>4, <2>1
    <3> QED BY <1>2, <1>5, <2>1, <3>1
  <2>2. CASE k # i
    <3>1. aud[k] = eng.aud[k]
      BY <1>4, <2>2
    <3>2. /\ k <= eng.n /\ eng.stat[k].kind = "object" /\ eng.aud[k] \in 1..eng.n
          /\ <<eng.stat[eng.aud[k]].who, eng.stat[k].who>> \in eng.knock
      BY <3>1 DEF Fit, AudienceKnown
    <3> QED BY <1>5, <3>1, <3>2
  <2> QED BY <2>1, <2>2
<1>11. Fit(g)
  BY <1>4, <1>7, <1>8, <1>9, <1>10 DEF Fit
<1>12. Ends(g, Acts)
  BY <1>7, <1>11 DEF Ends, Follows
<1> QED BY <1>1, <1>12, OutsideEnds, BetweenKeeps

LEMMA NextKeeps ==
  ASSUME Fit(eng), Next
  PROVE  Keeps
<1>1. Ends(eng, Acts)
  BY BecomesStill DEF Ends, Becomes
<1>2. CASE Instruction
  BY <1>2, InstructionKeeps
<1>3. ASSUME NEW i, BeginTurn(i) PROVE Keeps
  BY <1>3, BeginTurnKeeps
<1>4. ASSUME NEW i, Shot(i) PROVE Keeps
  BY <1>1, <1>4, OutsideEnds, BetweenKeeps DEF Shot
<1>5. ASSUME NEW i, Leave(i) PROVE Keeps
  <2>1. Becomes(eng, RemoveStat(eng, i))
    BY <1>5, RemoveStatBecomes DEF Leave
  <2> QED BY <1>1, <1>5, <2>1, BecomesEnds, BetweenKeeps DEF Leave
<1>6. ASSUME NEW p, NEW i, Touch(p, i) PROVE Keeps
  BY <1>6, TouchKeeps
<1>7. ASSUME NEW i \in Slot, NEW l \in {"touch", "shot"}, Reply(i, l) PROVE Keeps
  <2>1. i0 = 0 /\ eng' = OopSend(eng, i, "here", l, FALSE)
    BY <1>7 DEF Reply
  <2>2. Fit(eng')
    <3>1. Rewritten(eng, OopSend(eng, i, "here", l, FALSE), Hearing(eng, i, FALSE))
      BY OopSendRewrites
    <3> QED BY <2>1, <3>1, RewrittenFit
  <2> QED BY <1>7, <2>1, <2>2 DEF Keeps, GoesOn
<1>8. CASE Energize
  BY <1>1, <1>8, OutsideEnds, BetweenKeeps DEF Energize
<1>9. ASSUME NEW p, Respawn(p) PROVE Keeps
  <2> DEFINE pl == [eng.pl EXCEPT ![p] = [hp |-> Full, down |-> FALSE]]
  <2>1. i0 = 0 /\ eng' = WithPlayers(eng, pl)
    BY <1>9 DEF Respawn, WithPlayers
  <2> HIDE DEF pl
  <2>2. Becomes(eng, WithPlayers(eng, pl))
    BY PlayersBecome DEF WithPlayers
  <2> QED BY <1>1, <2>1, <2>2, BecomesEnds, BetweenKeeps
<1> QED BY <1>2, <1>3, <1>4, <1>5, <1>6, <1>7, <1>8, <1>9 DEF Next

-----------------------------------------------------------------------------
(* What holds of every board *)

LEMMA SceneFits ==
  ASSUME NEW e \in Scenes
  PROVE  Fit(e)
<1>1. /\ Shaped(e) /\ ToldApart(e) /\ e.stat[1].kind = "player"
      /\ e.aud = [k \in Slot |-> 0] /\ e.run = Still /\ e.heard = TRUE
  OBVIOUS
<1>2. e.aud \in [Slot -> 0..MaxStats] /\ AudienceKnown(e)
  BY <1>1 DEF AudienceKnown
<1>3. TurnShaped(e)
  BY <1>1 DEF TurnShaped, Still, Shaped
<1> QED BY <1>1, <1>2, <1>3 DEF Fit

LEMMA LeavesLockedHolds ==
  ASSUME Fit(eng), Keeps
  PROVE  LeavesLocked
<1> SUFFICES ASSUME ~eng.run.shifted, Follows(eng, eng', Acts),
                    NEW k \in Locked(eng), NEW j \in Locked(eng'),
                    eng.stat[k].who = eng'.stat[j].who, k # eng.run.slot
             PROVE  eng.stat[k].pos = eng'.stat[j].pos
  BY DEF LeavesLocked, Keeps
<1>1. eng.n \in 1..MaxStats /\ eng'.n \in 1..MaxStats
  BY SlotsOf DEF Keeps
<1>2. k \in 1..eng.n /\ eng.stat[k].kind = "object" /\ eng.stat[k].lock
  BY <1>1 DEF Locked
<1>3. j \in 1..eng'.n /\ eng'.stat[j].kind = "object"
  BY <1>1 DEF Locked
<1>4. PICK m \in 1..eng.n :
        /\ eng.stat[m].kind = "object" /\ eng.stat[m].who = eng'.stat[j].who
        /\ (eng.stat[m].lock /\ eng.stat[m].who # Acts)
             => eng'.stat[j].lock /\ eng'.stat[j].pos = eng.stat[m].pos
  BY <1>3 DEF Follows
<1>5. m = k
  BY <1>2, <1>4 DEF Fit, ToldApart
<1>6. eng.stat[k].who # Acts
  <2>1. CASE i0 = 0
    BY <1>2, <2>1 DEF Acts, Fit, ToldApart
  <2>2. CASE i0 # 0
    <3>1. i0 \in (1..eng.n) \ {k}
      <4>1. eng.run.slot \in {0} \cup 2..MaxStats /\ eng.run.slot <= eng.n
        BY DEF Fit, TurnShaped
      <4> QED BY <1>1, <2>2, <4>1 DEF i0
    <3>2. Acts = eng.stat[i0].who
      BY <2>2 DEF Acts, Me
    <3> QED BY <1>2, <3>1, <3>2 DEF Fit, ToldApart
  <2> QED BY <2>1, <2>2
<1> QED BY <1>2, <1>4, <1>5, <1>6

ObjectsInv == Fit(eng)

LEMMA ObjectsStep ==
  ASSUME ObjectsInv, [EngineNext]_<<part, eng, programsVars>>
  PROVE  ObjectsInv' /\ [GoesOn]_eng /\ [LeavesLocked]_eng
<1>1. CASE RunObject
  <2>1. Keeps
    BY <1>1, NextKeeps DEF RunObject, ObjectsInv
  <2>2. LeavesLocked
    BY <2>1, LeavesLockedHolds DEF ObjectsInv
  <2> QED BY <2>1, <2>2 DEF Keeps, ObjectsInv
<1>2. CASE EditProgram
  BY <1>2 DEF EditProgram, ObjectsInv
<1>3. CASE UNCHANGED <<part, eng, programsVars>>
  BY <1>3 DEF ObjectsInv
<1> QED BY <1>1, <1>2, <1>3 DEF EngineNext

LEMMA ObjectsKeep == EngineSpec => []ObjectsInv
<1>1. EngineInit => ObjectsInv
  BY SceneFits DEF EngineInit, Init, ObjectsInv
<1>2. ObjectsInv /\ [EngineNext]_<<part, eng, programsVars>> => ObjectsInv'
  BY ObjectsStep
<1> QED BY <1>1, <1>2, PTL DEF EngineSpec

(* Whoever reads an object's window knocked on that object since its last  *)
(* one (ElementObjectTouch, OopExecute's window), whatever was added to    *)
(* the board, removed from it or renumbered between the touch and the      *)
(* window, or during the turn.                                             *)
THEOREM KnockersReadAlways == EngineSpec => []KnockersRead
<1>1. ObjectsInv => KnockersRead
  BY DEF ObjectsInv, Fit, KnockersRead
<1> QED BY <1>1, ObjectsKeep, PTL

(* Every instruction ends its turn, counts one of the MAX_INS commands of  *)
(* it, or goes on to the next line (OopExecute): for any programs, and     *)
(* whichever of them the slot has after the stats moved.                   *)
THEOREM TurnsEndAlways == EngineSpec => TurnsEnd
<1>1. ObjectsInv /\ [EngineNext]_<<part, eng, programsVars>> => [GoesOn]_eng
  BY ObjectsStep
<1> QED BY <1>1, ObjectsKeep, PTL DEF EngineSpec, TurnsEnd

(* A locked object stays where it is in its program for whatever comes     *)
(* from outside (OopSend's lock), through every renumbering of the stats,  *)
(* unless the object in turn has lost its slot.                            *)
THEOREM LocksHoldAlways == EngineSpec => LocksHold
<1>1. ObjectsInv /\ [EngineNext]_<<part, eng, programsVars>> => [LeavesLocked]_eng
  BY ObjectsStep
<1> QED BY <1>1, ObjectsKeep, PTL DEF EngineSpec, LocksHold
=============================================================================
