---------------------------- MODULE ServicesProofs ----------------------------
(***************************************************************************)
(* Theorems about the services, for any boards, players, names, budgets    *)
(* and bounds.                                                             *)
(***************************************************************************)
EXTENDS Services, Sequences, FiniteSetTheorems, WellFoundedInduction, TLAPS

-----------------------------------------------------------------------------
(* The gazette: what a day may cost.                                       *)

LEMMA GazetteCardinality == \A S : Gazette!Cardinality(S) = Cardinality(S)
BY DEF Gazette!Cardinality, Cardinality

Days == 1 .. LastDay

(* The days after d that f keeps anything of, and whether there are too    *)
(* many of them for d to be kept.                                          *)
Newer(f, none, d) == {e \in Days : e > d /\ f[e] # none}
Old(f, none, d)   == Cardinality(Newer(f, none, d)) >= Retention

LEMMA NewerFinite ==
  ASSUME NEW f, NEW none, NEW d
  PROVE  IsFiniteSet(Newer(f, none, d)) /\ Cardinality(Newer(f, none, d)) \in Nat
<1>1. IsFiniteSet(Days)
  BY FS_Interval, GazetteAssumption DEF Days
<1>2. Newer(f, none, d) \subseteq Days
  BY DEF Newer
<1> QED BY <1>1, <1>2, FS_Subset, FS_CardinalityType

LEMMA OldByMore ==
  ASSUME NEW f, NEW none, NEW d, NEW g, NEW zero, NEW e,
         Newer(f, none, d) \subseteq Newer(g, zero, e), Old(f, none, d)
  PROVE  Old(g, zero, e)
BY NewerFinite, FS_Subset, GazetteAssumption DEF Old

(* Pruning keeps a day or forgets it, and forgets it only for newer ones.  *)
LEMMA PrunedIs ==
  ASSUME NEW f, DOMAIN f = Days, NEW none
  PROVE  /\ DOMAIN Gazette!Pruned(f, none) = Days
         /\ \A d \in Days : Gazette!Pruned(f, none)[d] = IF Old(f, none, d) THEN none ELSE f[d]
<1> DEFINE kept == {d \in DOMAIN f : f[d] # none}
<1>1. \A d \in Days : {e \in kept : e > d} = Newer(f, none, d)
  BY DEF Newer
<1>2. \A d \in Days : (Cardinality(Newer(f, none, d)) < Retention) <=> ~Old(f, none, d)
  BY NewerFinite, GazetteAssumption DEF Old
<1>3. \A d \in Days : Gazette!Pruned(f, none)[d] =
                        IF Cardinality({e \in kept : e > d}) < Retention THEN f[d] ELSE none
  BY GazetteCardinality DEF Gazette!Pruned
<1>4. DOMAIN Gazette!Pruned(f, none) = Days
  BY DEF Gazette!Pruned
<1> HIDE DEF kept
<1> QED BY <1>1, <1>2, <1>3, <1>4

(* It keeps as many as there is room for.                                  *)
LEMMA PrunedKeepsNewest ==
  ASSUME NEW f, DOMAIN f = Days, NEW none, NEW d \in Days, Old(f, none, d)
  PROVE  Old(Gazette!Pruned(f, none), none, d)
<1> DEFINE g    == Gazette!Pruned(f, none)
           gone == {e \in Newer(f, none, d) : Old(f, none, e)}
<1>1. \A e \in Days : g[e] = IF Old(f, none, e) THEN none ELSE f[e]
  BY PrunedIs
<1> HIDE DEF g
<1>2. CASE gone = {}
  <2>1. Newer(f, none, d) \subseteq Newer(g, none, d)
    BY <1>1, <1>2 DEF Newer
  <2> QED BY <2>1, OldByMore DEF g
<1>3. CASE gone # {}
  <2>1. gone \subseteq Days
    BY DEF Newer
  <2>2. PICK e \in gone : \A x \in gone : x <= e
    <3>1. {LastDay - x : x \in gone} \in SUBSET Nat /\ {LastDay - x : x \in gone} # {}
      BY <1>3, <2>1, GazetteAssumption DEF Days
    <3>2. IsWellFoundedOn(OpToRel(<, Nat), Nat)
      BY NatLessThanWellFounded
    <3>3. PICK k \in {LastDay - x : x \in gone} :
            \A j \in {LastDay - x : x \in gone} : ~ (<<j, k>> \in OpToRel(<, Nat))
      BY <3>1, <3>2, WFMin
    <3>4. \A j \in {LastDay - x : x \in gone} : ~ (j < k)
      BY <3>1, <3>3 DEF OpToRel
    <3>5. PICK e \in gone : k = LastDay - e
      OBVIOUS
    <3>6. ASSUME NEW x \in gone PROVE x <= e
      <4>1. ~ (LastDay - x < LastDay - e)
        BY <3>4, <3>5
      <4> QED BY <2>1, <4>1, GazetteAssumption DEF Days
    <3> QED BY <3>6
  <2>3. e \in Days /\ e > d /\ Old(f, none, e)
    BY DEF Newer
  <2>4. Newer(f, none, e) \subseteq Newer(g, none, d)
    <3> SUFFICES ASSUME NEW x \in Newer(f, none, e) PROVE x \in Newer(g, none, d)
      OBVIOUS
    <3>1. x \in Days /\ x > e /\ f[x] # none
      BY DEF Newer
    <3>2. d \in Nat /\ e \in Nat /\ x \in Nat
      BY <2>3, <3>1 DEF Days
    <3>3. x > d /\ x \in Newer(f, none, d)
      BY <2>3, <3>1, <3>2 DEF Newer
    <3>4. ~Old(f, none, x)
      BY <2>2, <3>1, <3>2, <3>3
    <3> QED BY <1>1, <3>1, <3>3, <3>4 DEF Newer
  <2> QED BY <2>3, <2>4, OldByMore DEF g
<1> QED BY <1>2, <1>3

(* Attempts are remembered of days that have rows, or had them and will not*)
(* again: newer days have as many as are kept.                             *)
Unread(d) == Old(days, Gazette!NoRows, d)

Backed(f) ==
  /\ f \in [Days -> 0 .. DailyWrites]
  /\ \A d \in Days : f[d] # 0 => days[d] # Gazette!NoRows \/ Unread(d)

LedgerInv ==
  /\ days \in [Days -> [Gazette!Row -> Nat]] /\ today \in Days
  /\ \A d \in Days : Unread(d) => days[d] = Gazette!NoRows

EditorInv ==
  /\ Backed(tries) /\ Backed(editionFile.attempts)
  /\ \A copy \in saving : Backed(copy.attempts)
  /\ spent \in [Days -> Nat]
  /\ \A d \in Days \ overdue :
       spent[d] <= DailyWrites /\ (spent[d] <= tries[d] \/ Unread(d))
  /\ \A q \in asked : q.day \in Days /\ (days[q.day] # Gazette!NoRows \/ Unread(q.day))
  /\ \A f \in flying : f[1] \in Days
  /\ \A f, g \in flying : f[1] = g[1] => f = g

GazetteInv == LedgerInv /\ EditorInv

(* A day whose attempts are forgotten is one that cannot be written again. *)
LEMMA ForgottenAreUnread ==
  ASSUME NEW f, Backed(f), NEW d \in Days, Old(f, 0, d)
  PROVE  Unread(d)
<1>1. CASE \E e \in Newer(f, 0, d) : Unread(e)
  <2>1. PICK e \in Newer(f, 0, d) : Unread(e)
    BY <1>1
  <2>2. Newer(days, Gazette!NoRows, e) \subseteq Newer(days, Gazette!NoRows, d)
    BY DEF Newer, Days
  <2> QED BY <2>1, <2>2, OldByMore DEF Unread
<1>2. CASE \A e \in Newer(f, 0, d) : ~Unread(e)
  <2>1. Newer(f, 0, d) \subseteq Newer(days, Gazette!NoRows, d)
    BY <1>2 DEF Newer, Backed
  <2> QED BY <2>1, OldByMore DEF Unread
<1> QED BY <1>1, <1>2

LEMMA PrunedBacked ==
  ASSUME NEW f, Backed(f)
  PROVE  /\ Backed(Gazette!Pruned(f, 0))
         /\ \A d \in Days : f[d] <= Gazette!Pruned(f, 0)[d] \/ Unread(d)
<1> DEFINE g == Gazette!Pruned(f, 0)
<1>1. f \in [Days -> 0 .. DailyWrites]
  BY DEF Backed
<1>2. DOMAIN g = Days /\ \A d \in Days : g[d] = IF Old(f, 0, d) THEN 0 ELSE f[d]
  BY <1>1, PrunedIs
<1>3. g \in [Days -> 0 .. DailyWrites]
  <2>1. g = [d \in Days |-> g[d]]
    BY <1>2 DEF Gazette!Pruned
  <2>2. \A d \in Days : g[d] \in 0 .. DailyWrites
    BY <1>1, <1>2, GazetteAssumption
  <2> QED BY <2>1, <2>2
<1> HIDE DEF g
<1>4. \A d \in Days : g[d] # 0 => f[d] # 0
  BY <1>2
<1>5. \A d \in Days : f[d] <= g[d] \/ Unread(d)
  BY <1>1, <1>2, ForgottenAreUnread, GazetteAssumption
<1> QED BY <1>3, <1>4, <1>5 DEF Backed, g

(* The ledger moves on: rows are added and the oldest days go.             *)
LEMMA LedgerMovesOn ==
  ASSUME LedgerInv, NEW f \in [Days -> [Gazette!Row -> Nat]],
         \A d \in Days : days[d] # Gazette!NoRows => f[d] # Gazette!NoRows,
         days' = Gazette!PrunedRows(f), today' \in Days
  PROVE  /\ LedgerInv'
         /\ \A d \in Days : Unread(d) => Unread(d)'
         /\ \A d \in Days : days[d] # Gazette!NoRows => days'[d] # Gazette!NoRows \/ Unread(d)'
<1> DEFINE none == Gazette!NoRows
<1>1. DOMAIN days' = Days /\ \A d \in Days : days'[d] = IF Old(f, none, d) THEN none ELSE f[d]
  BY PrunedIs DEF Gazette!PrunedRows
<1>2. days' \in [Days -> [Gazette!Row -> Nat]]
  <2>1. none \in [Gazette!Row -> Nat]
    BY DEF Gazette!NoRows
  <2>2. days' = [d \in Days |-> days'[d]]
    BY <1>1 DEF Gazette!PrunedRows, Gazette!Pruned
  <2> QED BY <1>1, <2>1, <2>2
<1> HIDE DEF none
<1>3. \A d \in Days : Old(f, none, d) => Old(days', none, d)
  BY PrunedKeepsNewest DEF Gazette!PrunedRows, none
<1>4. \A d \in Days : Old(days', none, d) => Old(f, none, d)
  <2> SUFFICES ASSUME NEW d \in Days, Old(days', none, d) PROVE Old(f, none, d)
    OBVIOUS
  <2>1. Newer(days', none, d) \subseteq Newer(f, none, d)
    BY <1>1 DEF Newer
  <2> QED BY <2>1, OldByMore
<1>5. \A d \in Days : Old(days, none, d) => Old(f, none, d)
  <2> SUFFICES ASSUME NEW d \in Days, Old(days, none, d) PROVE Old(f, none, d)
    OBVIOUS
  <2>1. Newer(days, none, d) \subseteq Newer(f, none, d)
    BY DEF Newer, none
  <2> QED BY <2>1, OldByMore
<1>6. \A d \in Days : Unread(d)' <=> Old(days', none, d)
  BY DEF Unread, none, Gazette!NoRows, Gazette!Row
<1> QED BY <1>1, <1>2, <1>3, <1>4, <1>5, <1>6 DEF LedgerInv, Unread, none, Gazette!NoRows, Gazette!Row

(* Backed of what is not the ledger's, before and after.                   *)
LEMMA BackedKeeps ==
  ASSUME NEW f, Backed(f),
         \A d \in Days : Unread(d) => Unread(d)',
         \A d \in Days : days[d] # Gazette!NoRows => days'[d] # Gazette!NoRows \/ Unread(d)'
  PROVE  /\ f \in [Days -> 0 .. DailyWrites]
         /\ \A d \in Days : f[d] # 0 => days'[d] # Gazette!NoRows \/ Unread(d)'
BY DEF Backed

LEMMA RecordKeeps ==
  ASSUME GazetteInv, NEW r \in Gazette!Row, Gazette!Record(r)
  PROVE  GazetteInv'
<1> DEFINE f == [days EXCEPT ![today] = [days[today] EXCEPT ![r] = days[today][r] + 1]]
<1>1. days \in [Days -> [Gazette!Row -> Nat]] /\ today \in Days
  BY DEF GazetteInv, LedgerInv
<1>2. f \in [Days -> [Gazette!Row -> Nat]]
  BY <1>1
<1>3. \A d \in Days : days[d] # Gazette!NoRows => f[d] # Gazette!NoRows
  <2>1. f[today][r] # 0
    BY <1>1
  <2>2. f[today] # Gazette!NoRows
    BY <2>1 DEF Gazette!NoRows
  <2> QED BY <1>1, <2>2
<1>4. days' = Gazette!PrunedRows(f)
  BY DEF Gazette!Record
<1>5. UNCHANGED <<today, tries, asked, flying, saving, editionFile, spent, overdue>>
  BY DEF Gazette!Record, Gazette!editorVars, Gazette!ghosts
<1> HIDE DEF f
<1>6. /\ LedgerInv'
      /\ \A d \in Days : Unread(d) => Unread(d)'
      /\ \A d \in Days : days[d] # Gazette!NoRows => days'[d] # Gazette!NoRows \/ Unread(d)'
  BY <1>1, <1>2, <1>3, <1>4, <1>5, LedgerMovesOn DEF GazetteInv
<1>7. EditorInv'
  BY <1>5, <1>6, BackedKeeps DEF GazetteInv, EditorInv, Backed, Gazette!NoRows, Gazette!Row
<1> QED BY <1>6, <1>7 DEF GazetteInv

LEMMA RestartKeeps ==
  ASSUME GazetteInv, Gazette!Restart
  PROVE  GazetteInv'
<1>1. /\ days' = Gazette!PrunedRows(days) /\ today' = today /\ editionFile' = editionFile
      /\ tries' = Gazette!Pruned(editionFile.attempts, 0) /\ spent' = tries'
      /\ asked' = {} /\ flying' = {} /\ saving' = {} /\ overdue' = {}
  BY DEF Gazette!Restart, Gazette!LedgerLoaded, Gazette!EditorLoaded
<1>2. /\ LedgerInv'
      /\ \A d \in Days : Unread(d) => Unread(d)'
      /\ \A d \in Days : days[d] # Gazette!NoRows => days'[d] # Gazette!NoRows \/ Unread(d)'
  <2> DEFINE f == days
  <2>1. /\ f \in [Days -> [Gazette!Row -> Nat]] /\ days' = Gazette!PrunedRows(f) /\ LedgerInv
        /\ \A d \in Days : days[d] # Gazette!NoRows => f[d] # Gazette!NoRows
        /\ today' \in Days
    BY <1>1 DEF GazetteInv, LedgerInv
  <2> HIDE DEF f
  <2> QED BY <2>1, LedgerMovesOn
<1>3. Backed(tries') /\ Backed(editionFile.attempts)
  BY <1>1, PrunedBacked DEF GazetteInv, EditorInv
<1>4. \A d \in Days : spent'[d] <= tries'[d] /\ spent'[d] <= DailyWrites
  BY <1>1, <1>3, GazetteAssumption DEF Backed
<1>5. Backed(tries)' /\ Backed(editionFile.attempts)'
  BY <1>1, <1>2, <1>3, BackedKeeps DEF Backed, Gazette!NoRows, Gazette!Row
<1>6. spent' \in [Days -> Nat]
  BY <1>1, <1>3, GazetteAssumption DEF Backed
<1>7. EditorInv'
  BY <1>1, <1>4, <1>5, <1>6 DEF EditorInv
<1> QED BY <1>2, <1>7 DEF GazetteInv

(* Steps that leave the ledger's rows alone.                               *)
LEMMA SameRows ==
  ASSUME LedgerInv, UNCHANGED days, today' \in Days
  PROVE  /\ LedgerInv' /\ \A d \in Days : Unread(d)' <=> Unread(d)
         /\ \A f : Backed(f) => /\ f \in [Days -> 0 .. DailyWrites]
                                /\ \A d \in Days : f[d] # 0 => days'[d] # Gazette!NoRows \/ Unread(d)'
<1>1. \A d \in Days : Unread(d)' <=> Unread(d)
  BY DEF Unread, Gazette!NoRows, Gazette!Row
<1> QED BY <1>1 DEF LedgerInv, Backed, Gazette!NoRows, Gazette!Row

(* A request whose day the ledger still has finds what was spent on it in  *)
(* the attempts; one whose day is gone is overdue from then on.            *)
LEMMA RefreshKeeps ==
  ASSUME GazetteInv, NEW q \in asked, Gazette!Refresh(q)
  PROVE  GazetteInv'
<1> DEFINE d == q.day
<1>1. /\ d \notin Gazette!InFlight
      /\ tries[d] < DailyWrites
      /\ asked' = asked \ {q}
      /\ flying' = flying \union {<<d, q.rows>>}
      /\ tries' = [tries EXCEPT ![d] = @ + 1]
      /\ spent' = [spent EXCEPT ![d] = @ + 1]
      /\ overdue' = IF Gazette!Rows(d) = {} THEN overdue \union {d} ELSE overdue
      /\ UNCHANGED <<today, days, saving, editionFile>>
  BY DEF Gazette!Refresh, Gazette!Eligible, Gazette!ledgerVars
<1>2. d \in Days /\ (days[d] # Gazette!NoRows \/ Unread(d))
  BY DEF GazetteInv, EditorInv
<1>3. ~ \E f \in flying : f[1] = d
  BY <1>1 DEF Gazette!InFlight
<1> HIDE DEF d
<1>4. tries \in [Days -> 0 .. DailyWrites] /\ spent \in [Days -> Nat]
  BY DEF GazetteInv, EditorInv, Backed
<1>5. /\ LedgerInv' /\ \A e \in Days : Unread(e)' <=> Unread(e)
      /\ \A g : Backed(g) => /\ g \in [Days -> 0 .. DailyWrites]
                             /\ \A e \in Days : g[e] # 0 => days'[e] # Gazette!NoRows \/ Unread(e)'
  BY <1>1, SameRows DEF GazetteInv, LedgerInv
<1>6. tries' \in [Days -> 0 .. DailyWrites] /\ spent' \in [Days -> Nat]
  <2>1. tries[d] + 1 \in 0 .. DailyWrites /\ spent[d] + 1 \in Nat
    BY <1>1, <1>2, <1>4, GazetteAssumption
  <2> QED BY <1>1, <1>4, <2>1
<1>7. /\ tries'[d] = tries[d] + 1 /\ spent'[d] = spent[d] + 1
      /\ \A e \in Days \ {d} : tries'[e] = tries[e] /\ spent'[e] = spent[e]
  BY <1>1, <1>2, <1>4
<1>8. Backed(tries)'
  BY <1>1, <1>2, <1>5, <1>6, <1>7 DEF GazetteInv, EditorInv, Backed, Gazette!NoRows, Gazette!Row
<1>9. Backed(editionFile.attempts)' /\ \A copy \in saving' : Backed(copy.attempts)'
  BY <1>1, <1>5 DEF GazetteInv, EditorInv, Backed, Gazette!NoRows, Gazette!Row
<1>10. ASSUME NEW e \in Days \ overdue'
       PROVE  spent'[e] <= DailyWrites /\ (spent'[e] <= tries'[e] \/ Unread(e)')
  <2>1. e \notin overdue
    BY <1>1
  <2>2. CASE e # d
    BY <1>5, <1>7, <2>1, <2>2 DEF GazetteInv, EditorInv
  <2>3. CASE e = d
    <3>1. Gazette!Rows(d) # {}
      BY <1>1, <2>3
    <3>2. ~Unread(d)
      BY <1>2, <3>1, GazetteAssumption DEF GazetteInv, LedgerInv, Gazette!Rows, Gazette!NoRows
    <3>3. spent[d] <= tries[d]
      BY <1>2, <2>1, <2>3, <3>2 DEF GazetteInv, EditorInv
    <3> QED BY <1>1, <1>2, <1>4, <1>7, <2>3, <3>3, GazetteAssumption
  <2> QED BY <2>2, <2>3
<1>11. \A p \in asked' : p.day \in Days /\ (days'[p.day] # Gazette!NoRows \/ Unread(p.day)')
  BY <1>1, <1>5 DEF GazetteInv, EditorInv
<1>12. /\ \A f \in flying' : f[1] \in Days
       /\ \A f, g \in flying' : f[1] = g[1] => f = g
  BY <1>1, <1>2, <1>3 DEF GazetteInv, EditorInv
<1>13. EditorInv'
  BY <1>6, <1>8, <1>9, <1>10, <1>11, <1>12 DEF EditorInv, Gazette!NoRows, Gazette!Row
<1> QED BY <1>5, <1>13 DEF GazetteInv

(* The author's reply: the attempts are pruned, or left.                   *)
LEMMA AnsweredKeeps ==
  ASSUME GazetteInv, NEW f \in flying, Gazette!Printed(f) \/ Gazette!ReplyRefused(f)
  PROVE  GazetteInv'
<1>1. /\ flying' = flying \ {f}
      /\ UNCHANGED <<today, days, asked, saving, editionFile, spent, overdue>>
  BY DEF Gazette!Printed, Gazette!ReplyRefused, Gazette!Answered, Gazette!ledgerVars, Gazette!ghosts
<1>2. tries' = Gazette!Pruned(tries, 0) \/ tries' = tries
  BY DEF Gazette!Printed, Gazette!ReplyRefused
<1>3. /\ Backed(tries')
      /\ \A d \in Days \ overdue : spent[d] <= tries'[d] \/ Unread(d)
  <2>1. CASE tries' = tries
    BY <2>1 DEF GazetteInv, EditorInv
  <2>2. CASE tries' = Gazette!Pruned(tries, 0)
    <3>1. Backed(tries') /\ \A d \in Days : tries[d] <= tries'[d] \/ Unread(d)
      BY <2>2, PrunedBacked DEF GazetteInv, EditorInv
    <3>2. \A d \in Days : tries[d] \in Int /\ tries'[d] \in Int /\ spent[d] \in Int
      BY <3>1, GazetteAssumption DEF GazetteInv, EditorInv, Backed
    <3> QED BY <3>1, <3>2 DEF GazetteInv, EditorInv
  <2> QED BY <1>2, <2>1, <2>2
<1>4. /\ LedgerInv' /\ \A d \in Days : Unread(d)' <=> Unread(d)
      /\ \A g : Backed(g) => /\ g \in [Days -> 0 .. DailyWrites]
                             /\ \A d \in Days : g[d] # 0 => days'[d] # Gazette!NoRows \/ Unread(d)'
  BY <1>1, SameRows DEF GazetteInv, LedgerInv
<1>5. Backed(tries)'
  BY <1>3, <1>4 DEF Backed, Gazette!NoRows, Gazette!Row
<1>6. Backed(editionFile.attempts)' /\ \A copy \in saving' : Backed(copy.attempts)'
  BY <1>1, <1>4 DEF GazetteInv, EditorInv, Backed, Gazette!NoRows, Gazette!Row
<1>7. \A q \in asked' : q.day \in Days /\ (days'[q.day] # Gazette!NoRows \/ Unread(q.day)')
  BY <1>1, <1>4 DEF GazetteInv, EditorInv
<1>8. EditorInv'
  BY <1>1, <1>3, <1>4, <1>5, <1>6, <1>7 DEF GazetteInv, EditorInv, Gazette!NoRows, Gazette!Row
<1> QED BY <1>4, <1>8 DEF GazetteInv

(* What is written was copied, and what is copied is what is remembered.   *)
LEMMA SavingKeeps ==
  ASSUME GazetteInv, UNCHANGED <<today, days, tries, flying, spent, overdue>>,
         asked' \subseteq asked,
         Backed(editionFile'.attempts), \A copy \in saving' : Backed(copy.attempts)
  PROVE  GazetteInv'
<1>1. /\ LedgerInv' /\ \A d \in Days : Unread(d)' <=> Unread(d)
      /\ \A g : Backed(g) => /\ g \in [Days -> 0 .. DailyWrites]
                             /\ \A d \in Days : g[d] # 0 => days'[d] # Gazette!NoRows \/ Unread(d)'
  BY SameRows DEF GazetteInv, LedgerInv
<1>2. Backed(tries)' /\ Backed(editionFile.attempts)' /\ \A c \in saving' : Backed(c.attempts)'
  BY <1>1 DEF GazetteInv, EditorInv, Backed, Gazette!NoRows, Gazette!Row
<1>3. \A q \in asked' : q.day \in Days /\ (days'[q.day] # Gazette!NoRows \/ Unread(q.day)')
  BY <1>1 DEF GazetteInv, EditorInv
<1>4. EditorInv'
  BY <1>1, <1>2, <1>3 DEF GazetteInv, EditorInv, Gazette!NoRows, Gazette!Row
<1> QED BY <1>1, <1>4 DEF GazetteInv

LEMMA QuietKeeps ==
  ASSUME GazetteInv, UNCHANGED <<days, tries, asked, flying, saving, editionFile, spent, overdue>>,
         today' \in Days
  PROVE  GazetteInv'
<1>1. /\ LedgerInv' /\ \A d \in Days : Unread(d)' <=> Unread(d)
      /\ \A g : Backed(g) => /\ g \in [Days -> 0 .. DailyWrites]
                             /\ \A d \in Days : g[d] # 0 => days'[d] # Gazette!NoRows \/ Unread(d)'
  BY SameRows DEF GazetteInv
<1>2. Backed(tries)' /\ Backed(editionFile.attempts)' /\ \A c \in saving' : Backed(c.attempts)'
  BY <1>1 DEF GazetteInv, EditorInv, Backed, Gazette!NoRows, Gazette!Row
<1>3. \A q \in asked' : q.day \in Days /\ (days'[q.day] # Gazette!NoRows \/ Unread(q.day)')
  BY <1>1 DEF GazetteInv, EditorInv
<1>4. EditorInv'
  BY <1>1, <1>2, <1>3 DEF GazetteInv, EditorInv, Gazette!NoRows, Gazette!Row
<1> QED BY <1>1, <1>4 DEF GazetteInv

(* Ask, of a day with rows.                                                *)
LEMMA AskKeeps ==
  ASSUME GazetteInv, NEW d \in Days, Gazette!Ask(d)
  PROVE  GazetteInv'
<1> DEFINE q == [day |-> d, rows |-> days[d], today |-> today]
<1>1. /\ Gazette!Rows(d) # {} /\ asked' = asked \union {q}
      /\ UNCHANGED <<today, days, tries, flying, saving, editionFile, spent, overdue>>
  BY DEF Gazette!Ask, Gazette!ledgerVars, Gazette!ghosts
<1>2. q.day = d /\ days[d] # Gazette!NoRows
  BY <1>1 DEF Gazette!Rows, Gazette!NoRows
<1> HIDE DEF q
<1>3. /\ LedgerInv' /\ \A e \in Days : Unread(e)' <=> Unread(e)
      /\ \A g : Backed(g) => /\ g \in [Days -> 0 .. DailyWrites]
                             /\ \A e \in Days : g[e] # 0 => days'[e] # Gazette!NoRows \/ Unread(e)'
  BY <1>1, SameRows DEF GazetteInv, LedgerInv
<1>4. Backed(tries)' /\ Backed(editionFile.attempts)' /\ \A c \in saving' : Backed(c.attempts)'
  BY <1>1, <1>3 DEF GazetteInv, EditorInv, Backed, Gazette!NoRows, Gazette!Row
<1>5. \A p \in asked' : p.day \in Days /\ (days'[p.day] # Gazette!NoRows \/ Unread(p.day)')
  BY <1>1, <1>2, <1>3 DEF GazetteInv, EditorInv
<1>6. EditorInv'
  BY <1>1, <1>3, <1>4, <1>5 DEF GazetteInv, EditorInv, Gazette!NoRows, Gazette!Row
<1> QED BY <1>3, <1>6 DEF GazetteInv

LEMMA GazetteInit == Gazette!Init => GazetteInv
<1> SUFFICES ASSUME Gazette!Init PROVE GazetteInv
  OBVIOUS
<1> DEFINE zero == [d \in Days |-> 0]
<1>1. /\ today = 1 /\ days = [d \in Days |-> Gazette!NoRows] /\ tries = zero /\ spent = zero
      /\ asked = {} /\ flying = {} /\ saving = {} /\ editionFile.attempts = zero
  BY DEF Gazette!Init, Gazette!Empty, Gazette!Day, Days
<1>2. LedgerInv
  <2>1. Gazette!NoRows \in [Gazette!Row -> Nat]
    BY DEF Gazette!NoRows
  <2> QED BY <1>1, <2>1, GazetteAssumption DEF LedgerInv, Days
<1>3. Backed(zero)
  BY GazetteAssumption DEF Backed
<1>4. EditorInv
  BY <1>1, <1>3, GazetteAssumption DEF EditorInv
<1> QED BY <1>2, <1>4 DEF GazetteInv

LEMMA GazetteNext == GazetteInv /\ [Gazette!Next]_(Gazette!vars) => GazetteInv'
<1> SUFFICES ASSUME GazetteInv, [Gazette!Next]_(Gazette!vars) PROVE GazetteInv'
  OBVIOUS
<1>0. today \in Days
  BY DEF GazetteInv, LedgerInv
<1>1. ASSUME NEW r \in Gazette!Row, Gazette!Record(r) PROVE GazetteInv'
  BY <1>1, RecordKeeps
<1>2. ASSUME Gazette!Flush PROVE GazetteInv'
  BY <1>0, <1>2, QuietKeeps DEF Gazette!Flush, Gazette!editorVars, Gazette!ghosts
<1>3. ASSUME Gazette!NextDay PROVE GazetteInv'
  <2>1. today' \in Days
    BY <1>0, <1>3, GazetteAssumption DEF Gazette!NextDay, Days
  <2> QED BY <1>3, <2>1, QuietKeeps
          DEF Gazette!NextDay, Gazette!ledgerVars, Gazette!editorVars, Gazette!ghosts
<1>4. ASSUME NEW d \in Gazette!Day, Gazette!Ask(d) PROVE GazetteInv'
  BY <1>4, AskKeeps DEF Gazette!Day, Days
<1>5. ASSUME NEW d \in Gazette!Day, Gazette!Rested(d) PROVE GazetteInv'
  BY <1>0, <1>5, QuietKeeps DEF Gazette!Rested, Gazette!ledgerVars, Gazette!ghosts
<1>6. ASSUME NEW q \in asked, Gazette!Refresh(q) PROVE GazetteInv'
  BY <1>6, RefreshKeeps
<1>7. ASSUME NEW q \in asked, Gazette!NotEligible(q) PROVE GazetteInv'
  <2>1. /\ UNCHANGED <<today, days, tries, flying, saving, editionFile, spent, overdue>>
        /\ asked' \subseteq asked
    BY <1>7 DEF Gazette!NotEligible, Gazette!ledgerVars, Gazette!ghosts
  <2>2. Backed(editionFile'.attempts) /\ \A copy \in saving' : Backed(copy.attempts)
    BY <2>1 DEF GazetteInv, EditorInv
  <2> QED BY <2>1, <2>2, SavingKeeps
<1>8. ASSUME NEW f \in flying, Gazette!Printed(f) \/ Gazette!ReplyRefused(f) PROVE GazetteInv'
  BY <1>8, AnsweredKeeps
<1>9. ASSUME NEW d \in answered, Gazette!Copied(d) PROVE GazetteInv'
  <2> DEFINE c == [day |-> d, editions |-> editions, attempts |-> tries]
  <2>1. /\ UNCHANGED <<today, days, tries, asked, flying, editionFile, spent, overdue>>
        /\ saving' = saving \union {c}
    BY <1>9 DEF Gazette!Copied, Gazette!ledgerVars, Gazette!ghosts
  <2>2. c.attempts = tries
    OBVIOUS
  <2> HIDE DEF c
  <2>3. Backed(editionFile'.attempts) /\ \A copy \in saving' : Backed(copy.attempts)
    BY <2>1, <2>2 DEF GazetteInv, EditorInv
  <2> QED BY <2>1, <2>3, SavingKeeps
<1>10. ASSUME NEW copy \in saving, Gazette!Save(copy) PROVE GazetteInv'
  <2>1. /\ UNCHANGED <<today, days, tries, asked, flying, spent, overdue>>
        /\ saving' = saving \ {copy}
        /\ editionFile' = editionFile \/ editionFile'.attempts = copy.attempts
    BY <1>10 DEF Gazette!Save, Gazette!ledgerVars, Gazette!ghosts
  <2>2. Backed(editionFile'.attempts) /\ \A c \in saving' : Backed(c.attempts)
    BY <2>1 DEF GazetteInv, EditorInv
  <2> QED BY <2>1, <2>2, SavingKeeps
<1>11. ASSUME Gazette!Restart PROVE GazetteInv'
  BY <1>11, RestartKeeps
<1>12. ASSUME UNCHANGED Gazette!vars PROVE GazetteInv'
  BY <1>0, <1>12, QuietKeeps DEF Gazette!vars, Gazette!ledgerVars, Gazette!editorVars, Gazette!ghosts
<1> QED BY <1>1, <1>2, <1>3, <1>4, <1>5, <1>6, <1>7, <1>8, <1>9, <1>10, <1>11, <1>12 DEF Gazette!Next

(* A day costs no more than its cap, however long a process runs, whatever *)
(* the two stores forget and in whatever order the answers come: an attempt*)
(* is forgotten only when newer days have pushed the day's rows out. What  *)
(* is left is a request that read those rows before and goes on after: its *)
(* day is in overdue.                                                      *)
THEOREM SpendBoundedAlways == Gazette!Spec => []SpendBounded
<1>1. GazetteInv => SpendBounded
  <2> SUFFICES ASSUME GazetteInv PROVE SpendBounded
    OBVIOUS
  <2>1. \A d \in Days \ overdue : spent[d] <= DailyWrites
    BY DEF GazetteInv, EditorInv
  <2> QED BY <2>1 DEF SpendBounded, Gazette!SpendBounded, Gazette!Day, Days, GazetteInv, EditorInv
<1> QED BY <1>1, GazetteInit, GazetteNext, PTL DEF Gazette!Spec

-----------------------------------------------------------------------------
(* A generated world: what is accepted, and what its player is told.       *)

(* The boards that are stubs are the ones listed, from the first painting  *)
(* on; a round of repairs touches none of them; and what has come as far as*)
(* the last gate is what was assembled, and survived.                      *)
PaintInv ==
  /\ sections \in [Board -> Painting!Section] /\ data \in [Board -> Painting!Section]
  /\ at \in {"repaint", "validate", "repair", "gate", "accepted"} =>
       /\ \A b \in Board : sections[b] # "none"
       /\ stubbed = {b \in Board : sections[b] = Painting!Stub}
  /\ at = "repair" => todo \subseteq Board \ stubbed
  /\ at \in {"gate", "accepted"} =>
       data = sections /\ \A b \in Board : data[b] \in {"good", Painting!Stub}

LEMMA PaintingsAre ==
  ASSUME NEW bs \in SUBSET Board, NEW p \in Painting!Paintings(bs)
  PROVE  DOMAIN p = bs /\ \A b \in bs : p[b].section \in {"none", "good", "crash"}
<1>1. DOMAIN p = bs /\ \A b \in bs : p[b] \in Painting!Painted(attempts[b])
  BY DEF Painting!Paintings
<1> QED BY <1>1 DEF Painting!Painted

LEMMA TakenIs ==
  ASSUME NEW bs \in SUBSET Board, NEW p \in Painting!Paintings(bs),
         NEW other \in [Board -> Painting!Section]
  PROVE  LET t == Painting!Taken(p, other)
         IN  /\ t \in [Board -> Painting!Section]
             /\ Painting!Lost(p) = {b \in bs : p[b].section = "none"}
             /\ \A b \in Board : IF b \in bs \ Painting!Lost(p) THEN t[b] \in {"good", "crash"}
                                                               ELSE t[b] = other[b]
BY PaintingsAre DEF Painting!Taken, Painting!Lost, Painting!Section

LEMMA PaintKeeps ==
  ASSUME PaintInv, Painting!Paint
  PROVE  PaintInv'
<1> DEFINE other == [b \in Board |-> Painting!Stub]
<1>1. PICK p \in Painting!Paintings(Board) :
        stubbed' = Painting!Lost(p) /\ sections' = Painting!Taken(p, other)
  BY DEF Painting!Paint, Painting!Batches
<1>2. at' = "repaint" /\ data' = data
  BY DEF Painting!Paint, Painting!Goto
<1>3. other \in [Board -> Painting!Section] /\ \A b \in Board : other[b] = "stub"
  BY DEF Painting!Stub, Painting!Section
<1> HIDE DEF other
<1>4. /\ sections' \in [Board -> Painting!Section]
      /\ \A b \in Board : IF b \in Painting!Lost(p) THEN sections'[b] = "stub"
                                                    ELSE sections'[b] \in {"good", "crash"}
      /\ Painting!Lost(p) \subseteq Board
  BY <1>1, <1>3, TakenIs
<1> QED BY <1>1, <1>2, <1>4 DEF PaintInv, Painting!Stub

LEMMA RepaintKeeps ==
  ASSUME PaintInv, Painting!Repaint
  PROVE  PaintInv'
<1> DEFINE again == {b \in stubbed : attempts[b] < maxAttempts}
<1>1. PICK p \in Painting!Paintings(again) :
        sections' = Painting!Taken(p, sections) /\ stubbed' = Painting!StillStubbed(again, p)
  BY DEF Painting!Repaint
<1>2. at = "repaint" /\ at' \in {"failed", "validate"} /\ data' = data
  BY DEF Painting!Repaint, Painting!Goto
<1>3. /\ stubbed = {b \in Board : sections[b] = "stub"} /\ again \subseteq stubbed
      /\ \A b \in Board : sections[b] # "none"
  BY <1>2 DEF PaintInv, Painting!Stub
<1> HIDE DEF again
<1>4. /\ sections' \in [Board -> Painting!Section]
      /\ Painting!Lost(p) \subseteq again
      /\ \A b \in Board : IF b \in again \ Painting!Lost(p)
                          THEN sections'[b] \in {"good", "crash"} ELSE sections'[b] = sections[b]
  BY <1>1, <1>3, TakenIs DEF PaintInv
<1>5. stubbed' = {b \in Board : sections'[b] = "stub"}
  BY <1>1, <1>3, <1>4 DEF Painting!StillStubbed
<1> QED BY <1>2, <1>3, <1>4, <1>5 DEF PaintInv, Painting!Stub

LEMMA ValidateKeeps ==
  ASSUME PaintInv, Painting!Validate
  PROVE  PaintInv'
<1>1. PICK odd \in Painting!CrossBoardProblems, talk \in Painting!ObjectPreludes :
        LET problems == Painting!Crashed \cup odd \cup talk
        IN  \/ Painting!Repairable(problems) \/ Painting!Accepted(problems)
            \/ Painting!StubCrashing(problems)
  BY DEF Painting!Validate
<1> DEFINE problems == Painting!Crashed \cup odd \cup talk
<1>2. /\ stubbed = {b \in Board : sections[b] = "stub"} /\ \A b \in Board : sections[b] # "none"
      /\ sections \in [Board -> Painting!Section] /\ data \in [Board -> Painting!Section]
  BY DEF Painting!Validate, PaintInv, Painting!Stub
<1>3. problems \subseteq Board \ stubbed /\ Painting!Crashed \subseteq problems
  BY <1>2 DEF Painting!CrossBoardProblems, Painting!ObjectPreludes, Painting!Crashed
<1> HIDE DEF problems
<1>4. CASE Painting!Repairable(problems)
  BY <1>2, <1>3, <1>4 DEF Painting!Repairable, Painting!Goto, PaintInv, Painting!Stub
<1>5. CASE Painting!Accepted(problems)
  <2>1. at' = "gate" /\ data' = sections /\ UNCHANGED <<sections, stubbed>> /\ Painting!Crashed = {}
    BY <1>3, <1>5 DEF Painting!Accepted, Painting!Goto
  <2>2. \A b \in Board : sections[b] \in {"good", "stub"}
    BY <1>2, <2>1 DEF Painting!Crashed, Painting!Section
  <2> QED BY <1>2, <2>1, <2>2 DEF PaintInv, Painting!Stub
<1>6. CASE Painting!StubCrashing(problems)
  <2>1. /\ at' = "gate" /\ data' = sections' /\ stubbed' = stubbed \cup Painting!Crashed
        /\ sections' = [b \in Board |-> IF b \in Painting!Crashed THEN "stub" ELSE sections[b]]
    BY <1>6 DEF Painting!StubCrashing, Painting!StubCrashingBoards, Painting!Goto, Painting!Stub
  <2>2. \A b \in Board : b \notin Painting!Crashed => sections[b] \in {"good", "stub"}
    BY <1>2 DEF Painting!Crashed, Painting!Section
  <2>3. Painting!Crashed \subseteq Board
    BY DEF Painting!Crashed
  <2>4. sections' \in [Board -> Painting!Section] /\ \A b \in Board : sections'[b] \in {"good", "stub"}
    BY <2>1, <2>2 DEF Painting!Section
  <2>5. stubbed' = {b \in Board : sections'[b] = "stub"}
    BY <1>2, <2>1, <2>3
  <2> QED BY <2>1, <2>4, <2>5 DEF PaintInv, Painting!Stub
<1> QED BY <1>1, <1>4, <1>5, <1>6 DEF problems

LEMMA RepairKeeps ==
  ASSUME PaintInv, Painting!Repair
  PROVE  PaintInv'
<1>1. PICK p \in Painting!Paintings(todo) : sections' = Painting!Taken(p, sections)
  BY DEF Painting!Repair
<1>2. at' = "validate" /\ stubbed' = stubbed /\ data' = data
  BY DEF Painting!Repair, Painting!Goto
<1>3. /\ stubbed = {b \in Board : sections[b] = "stub"} /\ todo \subseteq Board \ stubbed
      /\ \A b \in Board : sections[b] # "none"
      /\ sections \in [Board -> Painting!Section]
  BY DEF PaintInv, Painting!Stub, Painting!Repair
<1>4. /\ sections' \in [Board -> Painting!Section]
      /\ \A b \in Board : \/ b \in todo /\ sections'[b] \in {"good", "crash"}
                          \/ sections'[b] = sections[b]
  BY <1>1, <1>3, TakenIs
<1> QED BY <1>2, <1>3, <1>4 DEF PaintInv, Painting!Stub

(* However its boards were painted, salvaged, repaired and painted again, a*)
(* world that is accepted survives play, and its stubs are the ones the    *)
(* player is told of and may have painted again.                           *)
THEOREM ShippedAsToldAlways == Painting!Spec => []ShippedAsTold
<1>1. Painting!Init => PaintInv
  BY DEF Painting!Init, Painting!Blank, PaintInv, Painting!Section
<1>2. PaintInv /\ [Painting!Next]_(Painting!vars) => PaintInv'
  <2> SUFFICES ASSUME PaintInv, [Painting!Next]_(Painting!vars) PROVE PaintInv'
    OBVIOUS
  <2>1. CASE Painting!CompileFails
    BY <2>1 DEF Painting!CompileFails, Painting!Fail, Painting!Goto, PaintInv
  <2>2. CASE Painting!LastGate
    BY <2>2 DEF Painting!LastGate, Painting!Gate, Painting!Goto, PaintInv, Painting!Stub
  <2>3. CASE Painting!RetryBoard
    BY <2>3 DEF Painting!RetryBoard, Painting!Goto, PaintInv
  <2>4. CASE UNCHANGED Painting!vars
    BY <2>4 DEF Painting!vars, PaintInv
  <2> QED BY <2>1, <2>2, <2>3, <2>4, PaintKeeps, RepaintKeeps, ValidateKeeps, RepairKeeps DEF Painting!Next
<1>3. PaintInv => ShippedAsTold
  BY DEF PaintInv, ShippedAsTold, Painting!ShippedSurvives, Painting!StubsTold
<1> QED BY <1>1, <1>2, <1>3, PTL DEF Painting!Spec

-----------------------------------------------------------------------------
(* Worlds that are published: what becomes of a name's file.               *)

Served == [at : {"rest", "fetch", "write", "claim", "host"}, kind : {None, "save", "play"},
           by : Account \union {Guest}, name : Name \union {None},
           claim : Account \union {None}, before : BOOLEAN]
Maker == Account \union {Museum, Broken, None}

WorldsTyped ==
  /\ worldFile \in [Name -> Maker] /\ access \in [Name -> Account \union {None}]
  /\ hosted \in [Name \union TestName -> Maker] /\ played \in [Name \union TestName -> BOOLEAN]
PublishedTypes == WorldsTyped /\ req \in [Request -> Served]

(* What a request that works on a name has seen and done still holds.      *)
SaveStands(r, n) ==
  r.kind = "save" =>
    /\ r.at \in {"write", "claim"} => {r.claim, access[n]} \subseteq {None, r.by}
    /\ r.at \in {"claim", "host"} => worldFile[n] = r.by
PlayStands(r, n) ==
  r.kind = "play" =>
    /\ r.at = "host" => worldFile[n] = Museum
    /\ r.at \in {"write", "host"} /\ ~r.before => hosted[n] = None /\ access[n] = None

(* What a name stands for is whole: an instance or a record has its file.   *)
NameWhole(n) ==
  /\ played[n] => hosted[n] # None
  /\ hosted[n] # None => worldFile[n] # None
  /\ access[n] # None => worldFile[n] \in {access[n], Museum, Broken}

(* A name that is one request's at a time has one at most.                 *)
NameStands(n) ==
  /\ \A p, q \in Request : req[p].name = n /\ req[q].name = n => p = q
  /\ \A q \in Request : req[q].name = n => SaveStands(req[q], n) /\ PlayStands(req[q], n)
  /\ NameWhole(n)

RequestsAtWork ==
  \A q \in Request : LET r == req[q] IN
    /\ r.at # "rest" => r.name \in Name
    /\ r.at = "fetch" => r.kind = "play"
    /\ r.at = "claim" => r.kind = "save"
    /\ r.at # "rest" /\ r.kind = "save" => r.by \in Account

PublishedInv ==
  PublishedTypes /\ RequestsAtWork /\ \A n \in Name \ raced : NameStands(n)

(* A request's step keeps what stands of a name when it leaves the name    *)
(* alone, or is the only one that works on it.                             *)
LEMMA StepStands ==
  ASSUME PublishedTypes, NEW q \in Request, NEW r, req' = [req EXCEPT ![q] = r],
         NEW m \in Name, NameStands(m), NameWhole(m)',
         r.name = m => /\ \A p \in Request : req[p].name = m => p = q
                       /\ SaveStands(r, m)' /\ PlayStands(r, m)',
         \/ worldFile'[m] = worldFile[m] /\ access'[m] = access[m] /\ hosted'[m] = hosted[m]
         \/ req[q].name = m
  PROVE  NameStands(m)'
<1>1. \A p \in Request : req'[p] = IF p = q THEN r ELSE req[p]
  BY DEF PublishedTypes
<1>2. ASSUME NEW p \in Request, req'[p].name = m
      PROVE  (SaveStands(req[p], m) /\ PlayStands(req[p], m))'
  <2>1. CASE p = q
    BY <1>1, <1>2, <2>1
  <2>2. CASE p # q
    <3>1. req'[p] = req[p] /\ req[p].name = m
      BY <1>1, <1>2, <2>2
    <3>2. req[q].name # m
      BY <3>1, <2>2 DEF NameStands
    <3>3. worldFile'[m] = worldFile[m] /\ access'[m] = access[m] /\ hosted'[m] = hosted[m]
      BY <3>2
    <3>4. SaveStands(req[p], m) /\ PlayStands(req[p], m)
      BY <3>1 DEF NameStands
    <3> QED BY <3>1, <3>3, <3>4 DEF SaveStands, PlayStands
  <2> QED BY <2>1, <2>2
<1>3. \A p, o \in Request : req'[p].name = m /\ req'[o].name = m => p = o
  BY <1>1 DEF NameStands
<1> QED BY <1>2, <1>3 DEF NameStands, NameWhole

(* A request that begins, as r, on a name that may be another's already.    *)
LEMMA BeginsStands ==
  ASSUME PublishedInv, NEW q \in Request, NEW r \in Served, PublishedWorlds!Begins(q, r),
         r.name \in Name, r.at \in {"fetch", "write"}, r.at = "fetch" => r.kind = "play",
         r.kind = "save" => r.by \in Account,
         UNCHANGED <<worldFile, access, hosted, played>>,
         (SaveStands(r, r.name) /\ PlayStands(r, r.name))'
  PROVE  PublishedInv'
<1>1. /\ req' = [req EXCEPT ![q] = r]
      /\ raced' = IF PublishedWorlds!AtWork(r.name) = {} THEN raced ELSE raced \union {r.name}
  BY DEF PublishedWorlds!Begins
<1>2. PublishedTypes' /\ RequestsAtWork'
  BY <1>1 DEF PublishedInv, PublishedTypes, WorldsTyped, RequestsAtWork
<1>3. ASSUME NEW m \in Name \ raced' PROVE NameStands(m)'
  <2>1. NameStands(m) /\ (m = r.name => \A p \in Request : req[p].name # m)
    BY <1>1, <1>3 DEF PublishedInv, PublishedWorlds!AtWork
  <2>2. NameWhole(m)'
    BY <2>1 DEF NameStands, NameWhole
  <2> QED BY <1>1, <2>1, <2>2, StepStands DEF PublishedInv
<1> QED BY <1>2, <1>3 DEF PublishedInv

LEMMA SaveAskedKeeps ==
  ASSUME PublishedInv, NEW q \in Request, NEW a \in Account, NEW n \in Name,
         PublishedWorlds!SaveAsked(q, a, n)
  PROVE  PublishedInv'
<1>1. PICK r :
        r = [PublishedWorlds!NoRequest EXCEPT !.at = "write", !.kind = "save", !.by = a, !.name = n,
               !.claim = IF access[n] = None /\ a # Guest THEN a ELSE access[n]]
  OBVIOUS
<1>2. /\ r \in Served /\ r.at = "write" /\ r.kind = "save" /\ r.by = a /\ r.name = n
      /\ {r.claim, access[n]} \subseteq {None, a}
  BY <1>1 DEF PublishedWorlds!NoRequest, Served, PublishedInv, PublishedTypes, WorldsTyped,
              PublishedWorlds!SaveAsked, PublishedWorlds!CanEdit
<1>3. PublishedWorlds!Begins(q, r) /\ UNCHANGED <<worldFile, access, hosted, played>>
  BY <1>1 DEF PublishedWorlds!SaveAsked
<1>4. (SaveStands(r, r.name) /\ PlayStands(r, r.name))'
  BY <1>2, <1>3 DEF SaveStands, PlayStands
<1> QED BY <1>2, <1>3, <1>4, BeginsStands

LEMMA NoRequestIs ==
  /\ PublishedWorlds!NoRequest \in Served /\ PublishedWorlds!NoRequest.name \notin Name
  /\ PublishedWorlds!NoRequest.at = "rest"
BY PublishedAssumption DEF PublishedWorlds!NoRequest, Served

(* A request that goes on, or ends, as r: what is left to show of it.      *)
LEMMA GoesStands ==
  ASSUME PublishedInv, NEW q \in Request, NEW r \in Served, PublishedWorlds!Goes(q, r),
         r = PublishedWorlds!NoRequest \/ r.name = req[q].name,
         WorldsTyped', \/ r = PublishedWorlds!NoRequest
                       \/ r.kind = req[q].kind /\ r.by = req[q].by /\ req[q].name \in Name /\ req[q].at # "rest"
                          /\ r.at # "fetch" /\ (r.at = "claim" => r.kind = "save"),
         \A m \in Name \ {req[q].name} :
           /\ worldFile'[m] = worldFile[m] /\ access'[m] = access[m] /\ hosted'[m] = hosted[m]
           /\ played'[m] = played[m],
         ASSUME NEW n \in Name \ raced, req[q].name = n, NameStands(n)
         PROVE  NameWhole(n)' /\ (r.name = n => SaveStands(r, n)' /\ PlayStands(r, n)')
  PROVE  PublishedInv'
<1>1. req' = [req EXCEPT ![q] = r] /\ raced' = raced
  BY DEF PublishedWorlds!Goes
<1>2. PublishedTypes' /\ RequestsAtWork'
  <2>1. PublishedTypes'
    BY <1>1 DEF PublishedInv, PublishedTypes
  <2>2. /\ r.at # "rest" => r.name \in Name
        /\ r.at = "fetch" => r.kind = "play"
        /\ r.at = "claim" => r.kind = "save"
        /\ r.at # "rest" /\ r.kind = "save" => r.by \in Account
    BY NoRequestIs DEF PublishedInv, RequestsAtWork
  <2> QED BY <1>1, <2>1, <2>2 DEF PublishedInv, PublishedTypes, RequestsAtWork
<1>3. ASSUME NEW m \in Name \ raced' PROVE NameStands(m)'
  <2>1. NameStands(m)
    BY <1>1, <1>3 DEF PublishedInv
  <2>2. CASE req[q].name = m
    <3>1. NameWhole(m)' /\ (r.name = m => SaveStands(r, m)' /\ PlayStands(r, m)')
      BY <1>1, <1>3, <2>1, <2>2
    <3>2. \A p \in Request : req[p].name = m => p = q
      BY <2>1, <2>2 DEF NameStands
    <3> QED BY <1>1, <2>1, <2>2, <3>1, <3>2, StepStands DEF PublishedInv
  <2>3. CASE req[q].name # m
    <3>1. NameWhole(m)'
      BY <2>1, <2>3 DEF NameStands, NameWhole
    <3>2. r.name # m
      BY <2>3, NoRequestIs
    <3> QED BY <1>1, <2>1, <2>3, <3>1, <3>2, StepStands DEF PublishedInv
  <2> QED BY <2>2, <2>3
<1> QED BY <1>2, <1>3 DEF PublishedInv

LEMMA WriteFailsKeeps ==
  ASSUME PublishedInv, NEW q \in Request, req[q].name \in Name,
         PublishedWorlds!WriteFails(q), PublishedWorlds!Ends(q),
         UNCHANGED <<access, hosted, played>>
  PROVE  PublishedInv'
<1>1. /\ \A n \in Name : worldFile'[n] = worldFile[n] \/ (n = req[q].name /\ worldFile'[n] = Broken)
      /\ WorldsTyped'
  <2>1. worldFile \in [Name -> Maker] /\ Broken \in Maker
    BY DEF PublishedInv, PublishedTypes, WorldsTyped, Maker
  <2>2. worldFile' = worldFile \/ worldFile' = [worldFile EXCEPT ![req[q].name] = Broken]
    BY DEF PublishedWorlds!WriteFails
  <2>3. worldFile' \in [Name -> Maker]
    BY <2>1, <2>2
  <2>4. WorldsTyped'
    BY <2>3 DEF PublishedInv, PublishedTypes, WorldsTyped
  <2> QED BY <2>1, <2>2, <2>4
<1>2. ASSUME NEW n \in Name, NameStands(n) PROVE NameWhole(n)'
  BY <1>1, <1>2, PublishedAssumption DEF NameStands, NameWhole
<1> QED BY <1>1, <1>2, NoRequestIs, GoesStands DEF PublishedWorlds!Ends

LEMMA RemovedKeeps ==
  ASSUME PublishedInv, NEW q \in Request, req[q].name \in Name, ~req[q].before,
         req[q].at \in {"write", "host"}, req[q].kind = "play",
         worldFile' = PublishedWorlds!Removed(q), PublishedWorlds!Ends(q),
         UNCHANGED <<access, hosted, played>>
  PROVE  PublishedInv'
<1>1. worldFile \in [Name -> Maker] /\ None \in Maker /\ WorldsTyped
  BY DEF PublishedInv, PublishedTypes, WorldsTyped, Maker
<1>2. /\ worldFile' \in [Name -> Maker]
      /\ \A n \in Name : worldFile'[n] = IF n = req[q].name THEN None ELSE worldFile[n]
  BY <1>1 DEF PublishedWorlds!Removed
<1>3. WorldsTyped'
  BY <1>1, <1>2 DEF WorldsTyped
<1>4. ASSUME NEW n \in Name, req[q].name = n, NameStands(n) PROVE NameWhole(n)'
  BY <1>2, <1>4 DEF NameStands, NameWhole, PlayStands
<1> QED BY <1>2, <1>3, <1>4, NoRequestIs, GoesStands DEF PublishedWorlds!Ends

LEMMA SaveWritesKeeps ==
  ASSUME PublishedInv, NEW q \in Request, PublishedWorlds!SaveWrites(q)
  PROVE  PublishedInv'
<1>0. /\ req[q] \in Served /\ req[q].name \in Name /\ req[q].at = "write" /\ req[q].kind = "save"
      /\ req[q].by \in Account /\ WorldsTyped /\ UNCHANGED <<access, hosted, played>>
  BY DEF PublishedWorlds!SaveWrites, PublishedInv, PublishedTypes, RequestsAtWork
<1>1. CASE worldFile' = [worldFile EXCEPT ![req[q].name] = req[q].by]
           /\ PublishedWorlds!Goes(q, [req[q] EXCEPT !.at = "claim"])
  <2>1. PICK r : r = [req[q] EXCEPT !.at = "claim"]
    OBVIOUS
  <2>2. /\ r \in Served /\ r.at = "claim" /\ r.kind = "save" /\ r.name = req[q].name
        /\ r.by = req[q].by /\ r.claim = req[q].claim /\ PublishedWorlds!Goes(q, r)
    BY <1>0, <1>1, <2>1 DEF Served
  <2>3. WorldsTyped'
    BY <1>0, <1>1 DEF WorldsTyped, Maker
  <2>4. ASSUME NEW n \in Name, req[q].name = n, NameStands(n)
        PROVE  NameWhole(n)' /\ SaveStands(r, n)' /\ PlayStands(r, n)'
    <3>1. SaveStands(req[q], n) /\ worldFile'[n] = r.by /\ r.by # None
      BY <1>0, <1>1, <2>2, <2>4, PublishedAssumption DEF NameStands, WorldsTyped
    <3>2. {r.claim, access[n]} \subseteq {None, r.by}
      BY <1>0, <2>2, <3>1 DEF SaveStands
    <3> QED BY <1>0, <2>2, <2>4, <3>1, <3>2 DEF NameStands, NameWhole, SaveStands, PlayStands
  <2> QED BY <1>0, <1>1, <2>2, <2>3, <2>4, GoesStands DEF WorldsTyped
<1>2. CASE PublishedWorlds!WriteFails(q) /\ PublishedWorlds!Ends(q)
  BY <1>0, <1>2, WriteFailsKeeps
<1> QED BY <1>1, <1>2 DEF PublishedWorlds!SaveWrites

LEMMA SaveClaimsKeeps ==
  ASSUME PublishedInv, NEW q \in Request, PublishedWorlds!SaveClaims(q)
  PROVE  PublishedInv'
<1>0. /\ req[q] \in Served /\ req[q].name \in Name /\ req[q].at = "claim" /\ req[q].kind = "save"
      /\ req[q].by \in Account /\ WorldsTyped /\ UNCHANGED <<worldFile, hosted, played>>
  BY DEF PublishedWorlds!SaveClaims, PublishedInv, PublishedTypes, RequestsAtWork
<1>1. PICK r : r = [req[q] EXCEPT !.at = "host"]
  OBVIOUS
<1>2. /\ r \in Served /\ r.at = "host" /\ r.kind = "save" /\ r.name = req[q].name
      /\ r.by = req[q].by /\ r.claim = req[q].claim
  BY <1>0, <1>1 DEF Served
<1>3. ASSUME NEW n \in Name, req[q].name = n, NameStands(n)
      PROVE  worldFile[n] = r.by /\ r.by # None /\ {r.claim, access[n]} \subseteq {None, r.by}
  BY <1>0, <1>2, <1>3, PublishedAssumption DEF NameStands, SaveStands
<1>4. /\ WorldsTyped'
      /\ \A n \in Name : access'[n] = access[n] \/ (n = req[q].name /\ access'[n] = r.claim)
  <2>1. access \in [Name -> Account \union {None}] /\ r.claim \in Account \union {None}
    BY <1>0, <1>2 DEF WorldsTyped, Served
  <2>2. access' = access \/ access' = [access EXCEPT ![req[q].name] = r.claim]
    BY <1>2 DEF PublishedWorlds!SaveClaims
  <2>3. access' \in [Name -> Account \union {None}]
    BY <2>1, <2>2
  <2>4. WorldsTyped'
    BY <1>0, <2>3 DEF WorldsTyped
  <2> QED BY <2>1, <2>2, <2>4
<1>5. ASSUME NEW n \in Name, NameStands(n) PROVE NameWhole(n)'
  BY <1>0, <1>2, <1>3, <1>4, <1>5 DEF NameStands, NameWhole
<1>6. CASE PublishedWorlds!Goes(q, r)
  <2>1. ASSUME NEW n \in Name, req[q].name = n, NameStands(n)
        PROVE  SaveStands(r, n)' /\ PlayStands(r, n)'
    BY <1>0, <1>2, <1>3, <2>1 DEF SaveStands, PlayStands
  <2> QED BY <1>0, <1>2, <1>4, <1>5, <1>6, <2>1, GoesStands
<1>7. CASE PublishedWorlds!Ends(q)
  BY <1>0, <1>2, <1>4, <1>5, <1>7, NoRequestIs, GoesStands DEF PublishedWorlds!Ends
<1> QED BY <1>1, <1>6, <1>7 DEF PublishedWorlds!SaveClaims

LEMMA SaveHostsKeeps ==
  ASSUME PublishedInv, NEW q \in Request, PublishedWorlds!SaveHosts(q)
  PROVE  PublishedInv'
<1>0. /\ req[q] \in Served /\ req[q].name \in Name /\ req[q].at = "host" /\ req[q].kind = "save"
      /\ req[q].by \in Account /\ WorldsTyped /\ UNCHANGED <<worldFile, access, played>>
      /\ PublishedWorlds!Ends(q)
  BY DEF PublishedWorlds!SaveHosts, PublishedInv, PublishedTypes, RequestsAtWork
<1>1. /\ WorldsTyped'
      /\ \A n \in Name : hosted'[n] = hosted[n] \/ (n = req[q].name /\ hosted'[n] = req[q].by)
  <2>1. hosted \in [Name \union TestName -> Maker] /\ req[q].by \in Maker
    BY <1>0 DEF WorldsTyped, Maker
  <2>2. hosted' = hosted \/ hosted' = [hosted EXCEPT ![req[q].name] = req[q].by]
    BY DEF PublishedWorlds!SaveHosts, PublishedWorlds!Hosts
  <2>3. hosted' \in [Name \union TestName -> Maker]
    BY <2>1, <2>2
  <2>4. WorldsTyped'
    BY <1>0, <2>3 DEF WorldsTyped
  <2> QED BY <2>1, <2>2, <2>4
<1>2. ASSUME NEW n \in Name, NameStands(n) PROVE NameWhole(n)'
  BY <1>0, <1>1, <1>2, PublishedAssumption DEF NameStands, NameWhole, SaveStands
<1> QED BY <1>0, <1>1, <1>2, NoRequestIs, GoesStands DEF PublishedWorlds!Ends

LEMMA PlayAskedKeeps ==
  ASSUME PublishedInv, NEW q \in Request, NEW n \in Name, PublishedWorlds!PlayAsked(q, n)
  PROVE  PublishedInv'
<1>1. PICK r : r = [PublishedWorlds!NoRequest EXCEPT !.at = "fetch", !.kind = "play", !.name = n]
  OBVIOUS
<1>2. r \in Served /\ r.at = "fetch" /\ r.kind = "play" /\ r.name = n
  BY <1>1 DEF PublishedWorlds!NoRequest, Served
<1>3. PublishedWorlds!Begins(q, r) /\ UNCHANGED <<worldFile, access, hosted, played>>
  BY <1>1 DEF PublishedWorlds!PlayAsked
<1> QED BY <1>2, <1>3, BeginsStands DEF SaveStands, PlayStands

LEMMA FetchedKeeps ==
  ASSUME PublishedInv, NEW q \in Request,
         \/ PublishedWorlds!PlayRefused(q) \/ PublishedWorlds!PlayChoices(q)
         \/ PublishedWorlds!PlayStats(q)
  PROVE  PublishedInv'
<1>0. /\ req[q] \in Served /\ req[q].name \in Name /\ req[q].at = "fetch" /\ req[q].kind = "play"
      /\ WorldsTyped /\ UNCHANGED <<worldFile, access, hosted, played>>
  BY DEF PublishedWorlds!PlayRefused, PublishedWorlds!PlayChoices, PublishedWorlds!PlayStats,
         PublishedInv, PublishedTypes, RequestsAtWork
<1>1. ASSUME NEW n \in Name, NameStands(n) PROVE NameWhole(n)'
  BY <1>0, <1>1 DEF NameStands, NameWhole
<1>2. CASE PublishedWorlds!Ends(q)
  BY <1>0, <1>1, <1>2, NoRequestIs, GoesStands DEF PublishedWorlds!Ends, WorldsTyped
<1>3. CASE PublishedWorlds!PlayStats(q)
  <2>1. PICK r : r = [req[q] EXCEPT !.at = "write", !.before = worldFile[req[q].name] # None]
    OBVIOUS
  <2>2. /\ r \in Served /\ r.at = "write" /\ r.kind = "play" /\ r.name = req[q].name
        /\ r.by = req[q].by /\ r.before = (worldFile[r.name] # None)
    BY <1>0, <2>1 DEF Served
  <2>3. ASSUME NEW n \in Name, req[q].name = n, NameStands(n)
        PROVE  SaveStands(r, n)' /\ PlayStands(r, n)'
    BY <1>0, <2>2, <2>3, PublishedAssumption DEF NameStands, NameWhole, SaveStands, PlayStands, WorldsTyped
  <2>4. PublishedWorlds!Goes(q, r)
    BY <1>3, <2>1 DEF PublishedWorlds!PlayStats
  <2> QED BY <1>0, <1>1, <2>2, <2>3, <2>4, GoesStands DEF WorldsTyped
<1> QED BY <1>2, <1>3 DEF PublishedWorlds!PlayRefused, PublishedWorlds!PlayChoices

LEMMA PlayWritesKeeps ==
  ASSUME PublishedInv, NEW q \in Request, PublishedWorlds!PlayWrites(q)
  PROVE  PublishedInv'
<1>0. /\ req[q] \in Served /\ req[q].name \in Name /\ req[q].at = "write" /\ req[q].kind = "play"
      /\ WorldsTyped /\ UNCHANGED <<access, hosted, played>>
      /\ worldFile \in [Name -> Maker] /\ {Museum, None} \subseteq Maker
  BY DEF PublishedWorlds!PlayWrites, PublishedInv, PublishedTypes, RequestsAtWork, WorldsTyped, Maker
<1>1. CASE worldFile' = [worldFile EXCEPT ![req[q].name] = Museum]
           /\ PublishedWorlds!Goes(q, [req[q] EXCEPT !.at = "host"])
  <2>1. PICK r : r = [req[q] EXCEPT !.at = "host"]
    OBVIOUS
  <2>2. /\ r \in Served /\ r.at = "host" /\ r.kind = "play" /\ r.name = req[q].name
        /\ r.by = req[q].by /\ r.before = req[q].before /\ PublishedWorlds!Goes(q, r)
    BY <1>0, <1>1, <2>1 DEF Served
  <2>3. WorldsTyped'
    BY <1>0, <1>1 DEF WorldsTyped
  <2>4. ASSUME NEW n \in Name, req[q].name = n, NameStands(n)
        PROVE  NameWhole(n)' /\ SaveStands(r, n)' /\ PlayStands(r, n)'
    <3>1. worldFile'[n] = Museum /\ Museum # None
      BY <1>0, <1>1, <2>4, PublishedAssumption
    <3>2. NameWhole(n)'
      BY <1>0, <2>4, <3>1 DEF NameStands, NameWhole
    <3>3. ~r.before => hosted[n] = None /\ access[n] = None
      BY <1>0, <2>2, <2>4 DEF NameStands, PlayStands
    <3> QED BY <1>0, <2>2, <3>1, <3>2, <3>3 DEF SaveStands, PlayStands
  <2> QED BY <1>0, <1>1, <2>2, <2>3, <2>4, GoesStands
<1>2. CASE /\ PublishedWorlds!Ends(q)
           /\ IF req[q].before THEN PublishedWorlds!WriteFails(q)
              ELSE worldFile' = PublishedWorlds!Removed(q)
  <2>1. CASE req[q].before
    BY <1>0, <1>2, <2>1, WriteFailsKeeps
  <2>2. CASE ~req[q].before
    BY <1>0, <1>2, <2>2, RemovedKeeps
  <2> QED BY <2>1, <2>2
<1> QED BY <1>1, <1>2 DEF PublishedWorlds!PlayWrites

LEMMA PlayHostsKeeps ==
  ASSUME PublishedInv, NEW q \in Request, PublishedWorlds!PlayHosts(q)
  PROVE  PublishedInv'
<1>0. /\ req[q] \in Served /\ req[q].name \in Name /\ req[q].at = "host" /\ req[q].kind = "play"
      /\ WorldsTyped /\ UNCHANGED <<access, played>> /\ PublishedWorlds!Ends(q)
  BY DEF PublishedWorlds!PlayHosts, PublishedInv, PublishedTypes, RequestsAtWork
<1>1. CASE PublishedWorlds!MayHost(req[q].name)
  <2>1. UNCHANGED worldFile /\ hosted' = [hosted EXCEPT ![req[q].name] = Museum]
    BY <1>1 DEF PublishedWorlds!PlayHosts, PublishedWorlds!Hosts
  <2>2. hosted \in [Name \union TestName -> Maker] /\ Museum \in Maker
    BY <1>0 DEF WorldsTyped, Maker
  <2>3. WorldsTyped' /\ \A n \in Name : n # req[q].name => hosted'[n] = hosted[n]
    BY <1>0, <2>1, <2>2 DEF WorldsTyped
  <2>4. ASSUME NEW n \in Name, req[q].name = n, NameStands(n) PROVE NameWhole(n)'
    BY <1>0, <2>1, <2>2, <2>4, PublishedAssumption DEF NameStands, NameWhole, PlayStands
  <2> QED BY <1>0, <2>1, <2>3, <2>4, NoRequestIs, GoesStands DEF PublishedWorlds!Ends
<1>2. CASE ~PublishedWorlds!MayHost(req[q].name)
  <2>1. worldFile' = PublishedWorlds!Removed(q) /\ UNCHANGED hosted
    BY <1>2 DEF PublishedWorlds!PlayHosts
  <2>2. CASE req[q].before
    <3>1. worldFile' = worldFile
      BY <1>0, <2>1, <2>2 DEF PublishedWorlds!Removed, WorldsTyped
    <3>2. ASSUME NEW n \in Name, NameStands(n) PROVE NameWhole(n)'
      BY <1>0, <2>1, <3>1, <3>2 DEF NameStands, NameWhole
    <3>3. WorldsTyped'
      BY <1>0, <2>1, <3>1 DEF WorldsTyped
    <3> QED BY <1>0, <2>1, <3>1, <3>2, <3>3, NoRequestIs, GoesStands DEF PublishedWorlds!Ends
  <2>3. CASE ~req[q].before
    BY <1>0, <2>1, <2>3, RemovedKeeps
  <2> QED BY <2>2, <2>3
<1> QED BY <1>1, <1>2

(* What no request does: a test play, and players who come and go.         *)
LEMMA OthersStand ==
  ASSUME PublishedInv, WorldsTyped', UNCHANGED <<worldFile, access, req>>,
         raced \subseteq raced',
         ASSUME NEW m \in Name \ raced', NameStands(m)
         PROVE  /\ NameWhole(m)'
                /\ \/ hosted'[m] \in {hosted[m], None}
                   \/ \A p \in Request : req[p].name # m
  PROVE  PublishedInv'
<1>1. ASSUME NEW m \in Name \ raced' PROVE NameStands(m)'
  <2>1. NameStands(m) /\ NameWhole(m)'
    BY <1>1 DEF PublishedInv
  <2>2. CASE hosted'[m] \in {hosted[m], None}
    <3>1. ASSUME NEW q \in Request, req[q].name = m
          PROVE  (SaveStands(req[q], m) /\ PlayStands(req[q], m))'
      <4>1. SaveStands(req[q], m) /\ PlayStands(req[q], m)
        BY <2>1, <3>1 DEF NameStands
      <4> QED BY <2>2, <4>1 DEF SaveStands, PlayStands
    <3> QED BY <2>1, <3>1 DEF NameStands, NameWhole
  <2>3. CASE \A p \in Request : req[p].name # m
    BY <2>1, <2>3 DEF NameStands, NameWhole
  <2> QED BY <1>1, <2>1, <2>2, <2>3
<1> QED BY <1>1 DEF PublishedInv, PublishedTypes, RequestsAtWork

LEMMA EnterKeeps ==
  ASSUME PublishedInv, NEW n \in Name \union TestName, PublishedWorlds!Enter(n)
  PROVE  PublishedInv'
<1>1. /\ UNCHANGED <<worldFile, access, req>> /\ played' = [played EXCEPT ![n] = TRUE]
      /\ raced' = IF PublishedWorlds!AtWork(n) = {} THEN raced ELSE raced \union {n}
  BY DEF PublishedWorlds!Enter
<1>2. /\ hosted \in [Name \union TestName -> Maker] /\ played \in [Name \union TestName -> BOOLEAN]
      /\ worldFile \in [Name -> Maker] /\ WorldsTyped
  BY DEF PublishedInv, PublishedTypes, WorldsTyped
<1>3. \/ hosted[n] # None /\ hosted' = hosted
      \/ /\ hosted[n] = None /\ n \in Name /\ worldFile[n] # None
         /\ hosted' = [hosted EXCEPT ![n] = worldFile[n]]
  BY DEF PublishedWorlds!Enter, PublishedWorlds!Hosts
<1>4. hosted' \in [Name \union TestName -> Maker]
  BY <1>2, <1>3
<1>5. \A m \in Name : IF m = n THEN hosted'[m] # None /\ (worldFile[m] # None \/ hosted[m] # None)
                               ELSE hosted'[m] = hosted[m] /\ played'[m] = played[m]
  BY <1>1, <1>2, <1>3
<1>6. ASSUME NEW m \in Name \ raced', NameStands(m)
      PROVE  /\ NameWhole(m)'
             /\ hosted'[m] \in {hosted[m], None} \/ \A p \in Request : req[p].name # m
  <2>1. NameWhole(m)'
    BY <1>1, <1>5, <1>6 DEF NameStands, NameWhole
  <2>2. m = n => \A p \in Request : req[p].name # m
    BY <1>1, <1>6 DEF PublishedWorlds!AtWork
  <2> QED BY <1>5, <2>1, <2>2
<1>7. WorldsTyped'
  BY <1>1, <1>2, <1>4 DEF WorldsTyped
<1> QED BY <1>1, <1>6, <1>7, OthersStand

LEMMA ComeAndGoKeeps ==
  ASSUME PublishedInv, NEW n \in Name \union TestName,
         PublishedWorlds!Leave(n) \/ PublishedWorlds!Evict(n)
  PROVE  PublishedInv'
<1>1. /\ hosted \in [Name \union TestName -> Maker] /\ played \in [Name \union TestName -> BOOLEAN]
      /\ None \in Maker /\ WorldsTyped
  BY DEF PublishedInv, PublishedTypes, WorldsTyped, Maker
<1>2. /\ UNCHANGED <<worldFile, access, req, raced>>
      /\ \/ hosted' = hosted /\ played' = [played EXCEPT ![n] = FALSE]
         \/ ~played[n] /\ hosted' = [hosted EXCEPT ![n] = None] /\ played' = played
  BY DEF PublishedWorlds!Leave, PublishedWorlds!Evict
<1>3. /\ hosted' \in [Name \union TestName -> Maker] /\ played' \in [Name \union TestName -> BOOLEAN]
  BY <1>1, <1>2
<1>4. ASSUME NEW m \in Name
      PROVE  /\ hosted'[m] \in {hosted[m], None}
             /\ played'[m] => played[m] /\ hosted'[m] = hosted[m]
  BY <1>1, <1>2
<1>5. WorldsTyped'
  BY <1>1, <1>2, <1>3 DEF WorldsTyped
<1>6. ASSUME NEW m \in Name, NameStands(m) PROVE NameWhole(m)'
  BY <1>2, <1>4, <1>6 DEF NameStands, NameWhole
<1> QED BY <1>2, <1>4, <1>5, <1>6, OthersStand

LEMMA TestPlayKeeps ==
  ASSUME PublishedInv, NEW a \in Account, NEW n \in TestName, PublishedWorlds!TestPlay(a, n)
  PROVE  PublishedInv'
<1>1. /\ UNCHANGED <<worldFile, access, played, req, raced>> /\ hosted' = [hosted EXCEPT ![n] = a]
  BY DEF PublishedWorlds!TestPlay, PublishedWorlds!Hosts
<1>2. hosted \in [Name \union TestName -> Maker] /\ a \in Maker /\ WorldsTyped
  BY DEF PublishedInv, PublishedTypes, WorldsTyped, Maker
<1>3. WorldsTyped' /\ \A m \in Name : hosted'[m] = hosted[m]
  BY <1>1, <1>2, PublishedAssumption DEF WorldsTyped
<1>4. ASSUME NEW m \in Name, NameStands(m) PROVE NameWhole(m)'
  BY <1>1, <1>3, <1>4 DEF NameStands, NameWhole
<1> QED BY <1>1, <1>3, <1>4, OthersStand

(* Whatever step of a request fails and whoever comes and goes, a world    *)
(* that was published, on a name one request worked on at a time, has its  *)
(* file, and it is its owner's or the Museum's.                            *)
THEOREM PublishedStandAlways == PublishedWorlds!Spec => []PublishedStand
<1>1. PublishedWorlds!Init => PublishedInv
  <2> SUFFICES ASSUME PublishedWorlds!Init PROVE PublishedInv
    OBVIOUS
  <2>1. /\ worldFile = [n \in Name |-> IF n \in Canonical THEN Museum ELSE None]
        /\ access = [n \in Name |-> None] /\ hosted = [n \in Name \union TestName |-> None]
        /\ played = [n \in Name \union TestName |-> FALSE]
        /\ \A q \in Request : req[q] = PublishedWorlds!NoRequest
        /\ req \in [Request -> Served]
    BY NoRequestIs DEF PublishedWorlds!Init
  <2>2. PublishedTypes /\ RequestsAtWork
    BY <2>1, NoRequestIs DEF PublishedTypes, WorldsTyped, Maker, RequestsAtWork
  <2>3. ASSUME NEW n \in Name PROVE NameStands(n)
    BY <2>1, NoRequestIs DEF NameStands, NameWhole
  <2> QED BY <2>2, <2>3 DEF PublishedInv
<1>2. PublishedInv /\ [PublishedWorlds!Next]_(PublishedWorlds!vars) => PublishedInv'
  <2> SUFFICES ASSUME PublishedInv, [PublishedWorlds!Next]_(PublishedWorlds!vars) PROVE PublishedInv'
    OBVIOUS
  <2>1. ASSUME NEW q \in Request, PublishedWorlds!Serve(q) PROVE PublishedInv'
    BY <2>1, SaveAskedKeeps, SaveWritesKeeps, SaveClaimsKeeps, SaveHostsKeeps, PlayAskedKeeps,
       FetchedKeeps, PlayWritesKeeps, PlayHostsKeeps DEF PublishedWorlds!Serve
  <2>2. CASE UNCHANGED PublishedWorlds!vars
    BY <2>2 DEF PublishedWorlds!vars, PublishedInv, PublishedTypes, WorldsTyped, RequestsAtWork,
                NameStands, NameWhole, SaveStands, PlayStands
  <2> QED BY <2>1, <2>2, EnterKeeps, ComeAndGoKeeps, TestPlayKeeps DEF PublishedWorlds!Next
<1>3. PublishedInv => PublishedStand
  BY DEF PublishedInv, NameStands, NameWhole, PublishedStand, PublishedWorlds!PublishedStand
<1> QED BY <1>1, <1>2, <1>3, PTL DEF PublishedWorlds!Spec

-----------------------------------------------------------------------------
(* A title board that is watched: what is on its way to a screen.          *)

Plain(f) == f = [c \in DOMAIN f |-> f[c]]

LEMMA OverIsPlain == \A p, f : Plain(Titles!Over(p, f))
BY DEF Plain, Titles!Over

(* Cells laid over others that are laid over a screen.                     *)
LEMMA OverTwice ==
  \A c, p, f : Titles!Over(Titles!Over(c, p), f) = Titles!Over(c, Titles!Over(p, f))
BY DEF Titles!Over

LEMMA OverNothing ==
  ASSUME NEW f
  PROVE  /\ DOMAIN Titles!Over(Titles!NoCells, f) = DOMAIN f
         /\ \A c \in DOMAIN f : Titles!Over(Titles!NoCells, f)[c] = f[c]
         /\ Plain(f) => Titles!Over(Titles!NoCells, f) = f
         /\ \A p : Titles!Over(p, Titles!Over(Titles!NoCells, f)) = Titles!Over(p, f)
<1>1. DOMAIN Titles!NoCells = {}
  BY DEF Titles!NoCells
<1>2. Titles!Over(Titles!NoCells, f) = [c \in DOMAIN f |-> f[c]]
  BY <1>1 DEF Titles!Over
<1> QED BY <1>2 DEF Plain, Titles!Over

(* Who is not subscribed has nothing gathered, and who has subscribed to   *)
(* the board they show has what has changed since gathered or drained.     *)
TitleInv ==
  /\ Plain(board)
  /\ pending = [w \in Watcher |-> pending[w]] /\ signal = [w \in Watcher |-> signal[w]]
  /\ taken = [w \in Watcher |-> taken[w]] /\ screen = [w \in Watcher |-> screen[w]]
  /\ \A w \in Watcher :
       /\ Plain(screen[w])
       /\ w \in subs => DOMAIN screen[w] # {}
       /\ w \notin subs => pending[w] = Titles!NoCells /\ taken[w] = Titles!NoCells
  /\ subs \subseteq Watcher /\ behind \subseteq subs
  /\ Titles!NoCellLost

LEMMA TitleTickKeeps ==
  ASSUME TitleInv, Titles!Tick
  PROVE  TitleInv'
<1>1. PICK cells :
        /\ board' = Titles!Over(cells, board)
        /\ pending' = [w \in Watcher |-> IF w \in subs THEN Titles!Merged(cells, w) ELSE pending[w]]
        /\ signal' = [w \in Watcher |-> signal[w] \/ w \in subs]
  BY DEF Titles!Tick
<1>2. UNCHANGED <<subs, taken, screen, behind>>
  BY DEF Titles!Tick
<1>3. ASSUME NEW w \in subs \ behind
      PROVE  Titles!Over(pending'[w], Titles!Over(taken[w], screen[w])) = board' /\ signal'[w]
  <2>1. pending'[w] = Titles!Over(cells, pending[w]) /\ signal'[w]
    BY <1>1 DEF TitleInv, Titles!Merged
  <2>2. Titles!Over(pending[w], Titles!Over(taken[w], screen[w])) = board
    BY DEF TitleInv, Titles!NoCellLost
  <2> QED BY <1>1, <2>1, <2>2, OverTwice
<1>4. Titles!NoCellLost'
  BY <1>2, <1>3 DEF Titles!NoCellLost
<1>5. Plain(board')
  BY <1>1, OverIsPlain
<1> QED BY <1>1, <1>2, <1>4, <1>5 DEF TitleInv, Plain

LEMMA StreamKeeps ==
  ASSUME TitleInv, NEW w \in Watcher, Titles!Drain(w) \/ Titles!Send(w)
  PROVE  TitleInv'
<1>1. UNCHANGED <<board, subs, behind>>
  BY DEF Titles!Drain, Titles!Send
<1>2. \A v \in Watcher \ {w} : /\ pending'[v] = pending[v] /\ taken'[v] = taken[v]
                               /\ screen'[v] = screen[v] /\ signal'[v] = signal[v]
  BY DEF Titles!Drain, Titles!Send, TitleInv
<1>3. /\ pending' = [v \in Watcher |-> pending'[v]] /\ signal' = [v \in Watcher |-> signal'[v]]
      /\ taken' = [v \in Watcher |-> taken'[v]] /\ screen' = [v \in Watcher |-> screen'[v]]
  BY DEF Titles!Drain, Titles!Send, TitleInv
<1>4. CASE Titles!Drain(w)
  <2>1. /\ taken[w] = Titles!NoCells /\ taken'[w] = pending[w] /\ pending'[w] = Titles!NoCells
        /\ screen' = screen
    BY <1>4 DEF Titles!Drain, TitleInv
  <2>2. w \in subs \ behind => Titles!Over(pending'[w], Titles!Over(taken'[w], screen'[w])) = board
    <3>1. Titles!Over(pending[w], Titles!Over(Titles!NoCells, screen[w])) = Titles!Over(pending[w], screen[w])
      BY OverNothing
    <3>2. /\ Titles!Over(Titles!NoCells, Titles!Over(pending[w], screen[w])) = Titles!Over(pending[w], screen[w])
          /\ Plain(screen[w])
      BY OverNothing, OverIsPlain DEF TitleInv
    <3>3. w \in subs \ behind => Titles!Over(pending[w], Titles!Over(taken[w], screen[w])) = board
      BY DEF TitleInv, Titles!NoCellLost
    <3> QED BY <2>1, <3>1, <3>2, <3>3
  <2> QED BY <1>1, <1>2, <1>3, <2>1, <2>2 DEF TitleInv, Titles!NoCellLost
<1>5. CASE Titles!Send(w)
  <2>1. /\ taken[w] # Titles!NoCells /\ taken'[w] = Titles!NoCells /\ pending' = pending
        /\ screen'[w] = Titles!Over(taken[w], screen[w]) /\ signal' = signal
    BY <1>5 DEF Titles!Send, TitleInv
  <2>2. /\ Plain(screen'[w]) /\ DOMAIN screen[w] \subseteq DOMAIN screen'[w]
    BY <2>1, OverIsPlain DEF Titles!Over
  <2>3. w \in subs \ behind => Titles!Over(pending'[w], Titles!Over(taken'[w], screen'[w])) = board
    <3>1. \A f : Plain(f) => Titles!Over(Titles!NoCells, f) = f
      BY OverNothing
    <3>2. Titles!Over(taken'[w], screen'[w]) = Titles!Over(taken[w], screen[w])
      BY <2>1, <2>2, <3>1
    <3> QED BY <2>1, <3>2 DEF TitleInv, Titles!NoCellLost
  <2> QED BY <1>1, <1>2, <1>3, <2>1, <2>2, <2>3 DEF TitleInv, Titles!NoCellLost
<1> QED BY <1>4, <1>5

LEMMA ComeToTitleKeeps ==
  ASSUME TitleInv, NEW w \in Watcher, Titles!Fetch(w) \/ Titles!Subscribe(w) \/ Titles!Cancel(w)
  PROVE  TitleInv'
<1>1. CASE Titles!Fetch(w)
  <2>1. /\ UNCHANGED <<board, subs, behind, pending, signal, taken>> /\ screen[w] = Titles!Unseen
        /\ screen' = [screen EXCEPT ![w] = board]
    BY <1>1 DEF Titles!Fetch
  <2>2. w \notin subs
    BY <2>1 DEF TitleInv, Titles!Unseen
  <2>3. /\ screen' = [v \in Watcher |-> screen'[v]]
        /\ \A v \in Watcher : screen'[v] = IF v = w THEN board ELSE screen[v]
    BY <2>1 DEF TitleInv
  <2> QED BY <2>1, <2>2, <2>3, ZenonT(30) DEF TitleInv, Titles!NoCellLost, Plain
<1>2. CASE Titles!Subscribe(w)
  <2>1. /\ UNCHANGED <<board, screen, pending, signal, taken>> /\ screen[w] # <<>> /\ w \notin subs
        /\ subs' = subs \union {w}
        /\ behind' = IF screen[w] = board THEN behind ELSE behind \union {w}
    BY <1>2 DEF Titles!Subscribe, Titles!Unseen
  <2>2. DOMAIN screen[w] # {}
    <3>1. screen[w] = [c \in DOMAIN screen[w] |-> screen[w][c]]
      BY DEF TitleInv, Plain
    <3>2. SUFFICES ASSUME DOMAIN screen[w] = {} PROVE FALSE
      OBVIOUS
    <3>3. screen[w] = [c \in {} |-> screen[w][c]]
      BY <3>1, <3>2
    <3>4. [c \in {} |-> screen[w][c]] = <<>>
      OBVIOUS
    <3> QED BY <2>1, <3>3, <3>4
  <2>3. screen[w] = board => Titles!Over(pending[w], Titles!Over(taken[w], screen[w])) = board
    BY <2>1, OverNothing DEF TitleInv
  <2> QED BY <2>1, <2>2, <2>3 DEF TitleInv, Titles!NoCellLost
<1>3. CASE Titles!Cancel(w)
  <2>1. /\ board' = board /\ subs' = subs \ {w} /\ behind' = behind \ {w}
        /\ pending' = [pending EXCEPT ![w] = Titles!NoCells] /\ signal' = [signal EXCEPT ![w] = FALSE]
        /\ taken' = [taken EXCEPT ![w] = Titles!NoCells] /\ screen' = [screen EXCEPT ![w] = Titles!Unseen]
    BY <1>3 DEF Titles!Cancel
  <2>2. \A v \in Watcher \ {w} : /\ pending'[v] = pending[v] /\ taken'[v] = taken[v]
                                 /\ screen'[v] = screen[v] /\ signal'[v] = signal[v]
    BY <2>1 DEF TitleInv
  <2>3. /\ pending'[w] = Titles!NoCells /\ taken'[w] = Titles!NoCells /\ screen'[w] = Titles!Unseen
        /\ Plain(Titles!Unseen)
    BY <2>1 DEF TitleInv, Plain, Titles!Unseen
  <2>4. /\ pending' = [v \in Watcher |-> pending'[v]] /\ signal' = [v \in Watcher |-> signal'[v]]
        /\ taken' = [v \in Watcher |-> taken'[v]] /\ screen' = [v \in Watcher |-> screen'[v]]
    BY <2>1 DEF TitleInv
  <2> QED BY <2>1, <2>2, <2>3, <2>4 DEF TitleInv, Titles!NoCellLost
<1> QED BY <1>1, <1>2, <1>3

LEMMA TitleInitial == Titles!Init => TitleInv
<1> SUFFICES ASSUME Titles!Init PROVE TitleInv
  OBVIOUS
<1>1. /\ Plain(Titles!Blank) /\ Plain(Titles!Unseen)
  BY DEF Plain, Titles!Blank, Titles!Unseen
<1> QED BY <1>1 DEF Titles!Init, TitleInv, Titles!NoCellLost

LEMMA TitleNext == TitleInv /\ [Titles!Next]_(Titles!vars) => TitleInv'
<1> SUFFICES ASSUME TitleInv, [Titles!Next]_(Titles!vars) PROVE TitleInv'
  OBVIOUS
<1>1. CASE UNCHANGED Titles!vars
  BY <1>1 DEF Titles!vars, TitleInv, Titles!NoCellLost
<1> QED BY <1>1, TitleTickKeeps, StreamKeeps, ComeToTitleKeeps DEF Titles!Next

-----------------------------------------------------------------------------
(* A recording that is watched: one playback, and what is on its way to a  *)
(* screen.                                                                 *)

LEMMA ReplayCardinality == \A S : Replays!Cardinality(S) = Cardinality(S)
BY DEF Replays!Cardinality, Cardinality

(* A tick its room runs in takes a board's image one further.              *)
LEMMA ImageMovesOn ==
  ASSUME NEW t \in Nat
  PROVE  /\ Replays!Image(t) \in Nat
         /\ t + 1 \in RoomTicks => Replays!Image(t + 1) = Replays!Image(t) + 1
<1> DEFINE Till(n) == {k \in RoomTicks : k <= n}
<1>1. \A k \in RoomTicks : k \in Nat
  BY ReplayAssumption
<1>2. \A n \in Nat : IsFiniteSet(Till(n)) /\ Cardinality(Till(n)) \in Nat
  <2> TAKE n \in Nat
  <2>1. Till(n) \subseteq 0 .. n
    BY <1>1
  <2>2. IsFiniteSet(0 .. n)
    BY FS_Interval
  <2> QED BY <2>1, <2>2, FS_Subset, FS_CardinalityType
<1>3. \A n : Replays!Image(n) = Cardinality(Till(n))
  BY ReplayCardinality DEF Replays!Image
<1>4. ASSUME t + 1 \in RoomTicks PROVE Till(t + 1) = Till(t) \union {t + 1} /\ t + 1 \notin Till(t)
  <2>1. \A k \in RoomTicks : k <= t + 1 <=> k <= t \/ k = t + 1
    BY <1>1
  <2>2. t + 1 <= t + 1 /\ ~(t + 1 <= t)
    OBVIOUS
  <2> QED BY <1>4, <2>1, <2>2
<1> HIDE DEF Till
<1> QED BY <1>2, <1>3, <1>4, FS_AddElement

Frame == [kind : {"none", "snapshot", "diff"}, pass : Nat, image : Nat]
Playback == [pass : 0 .. MaxPass, tick : Nat, paused : BOOLEAN, done : BOOLEAN]
ReplayTypes ==
  /\ replay \in Playback /\ passes \in 0 .. MaxPass
  /\ asking \in [Watcher -> 0 .. (MaxPass + 1)] /\ sub \in [Watcher -> 0 .. (MaxPass + 1)]
  /\ queued \in [Watcher -> Frame] /\ greeting \in [Watcher -> Frame]
  /\ shown = [w \in Watcher |-> shown[w]]

(* The passes that are being opened are each one watcher's, and none is    *)
(* the playback's.                                                         *)
Opening == {w \in Watcher : asking[w] \in 1 .. MaxPass}
PassesApart ==
  /\ replay.pass <= passes
  /\ \A w \in Opening : asking[w] <= passes /\ asking[w] # replay.pass
  /\ \A v, w \in Opening : asking[v] = asking[w] => v = w
  /\ open = ({asking[w] : w \in Watcher} \union {replay.pass}) \ {0, Replays!Owed}

(* A spectator has last seen the playback's engine, or is owed a snapshot; *)
(* who has one frame at most on its way will be shown where it has come to.*)
Reached == [pass |-> replay.pass, image |-> Replays!Image(replay.tick)]
FramesReach(w) ==
  /\ queued[w] = Replays!NoFrame \/ greeting[w] = Replays!NoFrame
  /\ sub[w] # Replays!Away /\ sub[w] = Replays!Engine /\ Replays!Engine # 0
       => Replays!Shown(Replays!Shown(shown[w], queued[w]), greeting[w]) = Reached
ReplayInv ==
  /\ ReplayTypes /\ PassesApart
  /\ replay.pass = 0 => replay = Replays!NoReplay
  /\ \A w \in Watcher :
       /\ sub[w] # Replays!Away => replay.pass # 0 /\ sub[w] \in {0, Replays!Engine}
       /\ sub[w] = Replays!Away => queued[w] = Replays!NoFrame
       /\ asking[w] # 0 => greeting[w] = Replays!NoFrame
       /\ asking[w] = Replays!Owed => sub[w] # Replays!Away
       /\ w \notin crossed => FramesReach(w)

LEMMA OpensKeeps ==
  ASSUME ReplayInv, NEW w \in Watcher, asking[w] = 0, greeting[w] = Replays!NoFrame,
         Replays!Opens(w)
  PROVE  ReplayInv'
<1>1. /\ passes < MaxPass /\ passes' = passes + 1 /\ open' = open \union {passes + 1}
      /\ asking' = [asking EXCEPT ![w] = passes + 1]
      /\ UNCHANGED <<replay, sub, queued, greeting, shown, crossed>>
  BY DEF Replays!Opens
<1>2. ReplayTypes /\ PassesApart /\ MaxPass \in Nat /\ passes + 1 \in 1 .. MaxPass
  <2>1. MaxPass \in Nat
    BY ReplayAssumption
  <2> QED BY <1>1, <2>1 DEF ReplayInv, ReplayTypes
<1>3. /\ asking' \in [Watcher -> 0 .. (MaxPass + 1)]
      /\ \A v \in Watcher : asking'[v] = IF v = w THEN passes + 1 ELSE asking[v]
  BY <1>1, <1>2 DEF ReplayTypes
<1>4. ReplayTypes'
  BY <1>1, <1>2, <1>3 DEF ReplayTypes
<1>5. PassesApart'
  <2>1. replay.pass \in Nat /\ \A v \in Watcher : asking[v] \in 0 .. (MaxPass + 1)
    BY <1>2 DEF ReplayTypes, Playback
  <2>2. /\ replay'.pass <= passes' /\ \A v \in Opening' : asking'[v] <= passes' /\ asking'[v] # replay'.pass
    BY <1>1, <1>2, <1>3, <2>1 DEF PassesApart, Opening, ReplayTypes
  <2>3. \A u, v \in Opening' : asking'[u] = asking'[v] => u = v
    BY <1>1, <1>2, <1>3, <2>1 DEF PassesApart, Opening, ReplayTypes
  <2>4. {asking'[v] : v \in Watcher} \union {0} = {asking[v] : v \in Watcher} \union {0, passes + 1}
    BY <1>3
  <2>5. open' = ({asking'[v] : v \in Watcher} \union {replay'.pass}) \ {0, Replays!Owed}
    BY <1>1, <1>2, <2>4 DEF PassesApart, Replays!Owed, ReplayTypes
  <2> QED BY <2>2, <2>3, <2>5 DEF PassesApart, Replays!Owed
<1>6. passes + 1 # Replays!Owed
  BY <1>2 DEF Replays!Owed
<1> QED BY <1>1, <1>3, <1>4, <1>5, <1>6
        DEF ReplayInv, FramesReach, Reached, Replays!Engine, Replays!Live, Replays!Away, Replays!Owed

LEMMA InstallKeeps ==
  ASSUME ReplayInv, NEW w \in Watcher, Replays!Install(w)
  PROVE  ReplayInv'
<1>1. /\ asking[w] \in 1 .. MaxPass /\ sub[w] = Replays!Away
      /\ asking' = [asking EXCEPT ![w] = 0]
      /\ UNCHANGED <<passes, sub, queued, greeting, shown, crossed>>
  BY DEF Replays!Install
<1>2. ReplayTypes /\ PassesApart /\ MaxPass \in Nat /\ StartTick \in Nat /\ w \in Opening
  BY <1>1, ReplayAssumption DEF ReplayInv, Opening
<1>3. /\ asking' \in [Watcher -> 0 .. (MaxPass + 1)]
      /\ \A v \in Watcher : asking'[v] = IF v = w THEN 0 ELSE asking[v]
  BY <1>1, <1>2 DEF ReplayTypes
<1>4. {asking'[v] : v \in Watcher} \union {0, asking[w]} = {asking[v] : v \in Watcher} \union {0}
  BY <1>3
<1>5. asking[w] \notin {asking'[v] : v \in Watcher} /\ asking[w] # Replays!Owed
  BY <1>1, <1>2, <1>3 DEF PassesApart, Opening, Replays!Owed
<1>6. \A v \in Opening' : v \in Opening \ {w} /\ asking'[v] = asking[v]
  BY <1>2, <1>3 DEF Opening
<1>7. CASE replay = Replays!NoReplay
  <2>1. replay' = [Replays!NoReplay EXCEPT !.pass = asking[w], !.tick = StartTick] /\ open' = open
    BY <1>7 DEF Replays!Install
  <2>2. replay'.pass = asking[w] /\ replay' \in Playback /\ replay.pass = 0
    <3>1. replay' = [pass |-> asking[w], tick |-> StartTick, paused |-> FALSE, done |-> FALSE]
      BY <2>1 DEF Replays!NoReplay
    <3>2. asking[w] \in 0 .. MaxPass
      BY <1>1, <1>2
    <3> QED BY <1>2, <1>7, <3>1, <3>2 DEF Replays!NoReplay, Playback
  <2>3. ReplayTypes'
    BY <1>1, <1>2, <1>3, <2>2 DEF ReplayTypes
  <2>4. PassesApart'
    <3>1. open' = ({asking'[v] : v \in Watcher} \union {replay'.pass}) \ {0, Replays!Owed}
      BY <1>2, <1>4, <1>5, <2>1, <2>2 DEF PassesApart
    <3>2. replay'.pass <= passes'
      BY <1>1, <1>2, <2>2 DEF PassesApart
    <3>3. \A v \in Opening' : asking'[v] <= passes' /\ asking'[v] # replay'.pass
      BY <1>1, <1>2, <1>3, <1>6, <2>2 DEF PassesApart
    <3>4. \A u, v \in Opening' : asking'[u] = asking'[v] => u = v
      BY <1>2, <1>3, <1>6 DEF PassesApart
    <3> QED BY <3>1, <3>2, <3>3, <3>4 DEF PassesApart, Replays!Owed
  <2>5. \A v \in Watcher : sub[v] = Replays!Away
    BY <2>2 DEF ReplayInv
  <2>6. replay'.pass # 0
    BY <1>1, <1>2, <2>2
  <2>7. ASSUME NEW v \in Watcher
        PROVE  /\ sub'[v] = Replays!Away /\ queued'[v] = Replays!NoFrame
               /\ asking'[v] # 0 => greeting'[v] = Replays!NoFrame
               /\ asking'[v] # Replays!Owed
    BY <1>1, <1>2, <1>3, <2>5 DEF ReplayInv, Replays!Owed
  <2> QED BY <2>3, <2>4, <2>6, <2>7 DEF ReplayInv, FramesReach, Replays!Away, Replays!Owed
<1>8. CASE replay # Replays!NoReplay
  <2>1. replay' = replay /\ open' = open \ {asking[w]}
    BY <1>8 DEF Replays!Install, Replays!ClosedSecond
  <2>2. ReplayTypes'
    BY <1>1, <1>2, <1>3, <2>1 DEF ReplayTypes
  <2>3. PassesApart'
    <3>1. open' = ({asking'[v] : v \in Watcher} \union {replay'.pass}) \ {0, Replays!Owed}
      <4>1. asking[w] # replay.pass
        BY <1>2 DEF PassesApart
      <4> QED BY <1>2, <1>4, <1>5, <2>1, <4>1 DEF PassesApart
    <3>2. \A v \in Opening' : asking'[v] <= passes' /\ asking'[v] # replay'.pass
      BY <1>1, <1>2, <1>3, <1>6, <2>1 DEF PassesApart
    <3>3. \A u, v \in Opening' : asking'[u] = asking'[v] => u = v
      BY <1>2, <1>3, <1>6 DEF PassesApart
    <3> QED BY <1>1, <1>2, <2>1, <3>1, <3>2, <3>3 DEF PassesApart, Replays!Owed
  <2>4. Replays!Engine' = Replays!Engine /\ Reached' = Reached
    BY <2>1 DEF Reached, Replays!Engine, Replays!Live
  <2>5. ASSUME NEW v \in Watcher
        PROVE  /\ sub'[v] # Replays!Away => replay'.pass # 0 /\ sub'[v] \in {0, Replays!Engine'}
               /\ sub'[v] = Replays!Away => queued'[v] = Replays!NoFrame
               /\ asking'[v] # 0 => greeting'[v] = Replays!NoFrame
               /\ asking'[v] = Replays!Owed => sub'[v] # Replays!Away
               /\ v \notin crossed' => FramesReach(v)'
    <3>1. sub'[v] # Replays!Away => replay'.pass # 0 /\ sub'[v] \in {0, Replays!Engine'}
      BY <1>1, <2>1, <2>4 DEF ReplayInv
    <3>2. asking'[v] \in {0, asking[v]}
      BY <1>3
    <3>3. asking'[v] = Replays!Owed => asking[v] = Replays!Owed
      BY <1>2, <3>2 DEF Replays!Owed
    <3>4. v \notin crossed' => FramesReach(v)'
      BY <1>1, <2>4 DEF ReplayInv, FramesReach, Replays!Away
    <3> QED BY <1>1, <3>1, <3>2, <3>3, <3>4 DEF ReplayInv
  <2> QED BY <2>1, <2>2, <2>3, <2>5 DEF ReplayInv, Replays!Away, Replays!Owed
<1> QED BY <1>7, <1>8

(* A watcher who is greeted, on joining or for the restart they asked for. *)
LEMMA GreetedKeeps ==
  ASSUME ReplayInv, NEW w \in Watcher, Replays!Greeted(w), replay.pass # 0,
         \/ asking[w] = 0 /\ asking' = asking
         \/ asking[w] = Replays!Owed /\ asking' = [asking EXCEPT ![w] = 0]
  PROVE  ReplayInv'
<1>1. /\ sub' = [sub EXCEPT ![w] = Replays!Engine]
      /\ greeting' = [greeting EXCEPT ![w] = Replays!Snapshot]
      /\ crossed' = IF queued[w] = Replays!NoFrame THEN crossed ELSE crossed \union {w}
      /\ UNCHANGED <<replay, passes, open, queued, shown>>
  BY DEF Replays!Greeted
<1>2. ReplayTypes /\ PassesApart /\ MaxPass \in Nat /\ replay.pass \in 1 .. MaxPass
      /\ replay.tick \in Nat
  BY ReplayAssumption DEF ReplayInv, ReplayTypes, Playback
<1>3. /\ Replays!Snapshot = [kind |-> "snapshot", pass |-> replay.pass, image |-> Replays!Image(replay.tick)]
      /\ Replays!Snapshot \in Frame
  BY <1>2, ImageMovesOn DEF Replays!Snapshot, Frame
<1>4. Replays!Engine \in 0 .. MaxPass /\ Replays!Engine' = Replays!Engine
  BY <1>1, <1>2 DEF Replays!Engine, Replays!Live
<1>5. /\ asking' \in [Watcher -> 0 .. (MaxPass + 1)]
      /\ \A v \in Watcher : asking'[v] = IF v = w THEN 0 ELSE asking[v]
  BY <1>2 DEF ReplayTypes
<1>6. /\ sub' \in [Watcher -> 0 .. (MaxPass + 1)] /\ greeting' \in [Watcher -> Frame]
      /\ sub'[w] = Replays!Engine /\ greeting'[w] = Replays!Snapshot
      /\ \A v \in Watcher \ {w} : sub'[v] = sub[v] /\ greeting'[v] = greeting[v]
  BY <1>1, <1>2, <1>3, <1>4 DEF ReplayTypes
<1>7. ReplayTypes'
  BY <1>1, <1>2, <1>5, <1>6 DEF ReplayTypes
<1>8. PassesApart'
  <2>1. asking[w] \in {0, Replays!Owed} /\ Opening' = Opening
    BY <1>2, <1>5 DEF Opening, Replays!Owed
  <2>2. {asking'[v] : v \in Watcher} \union {0, Replays!Owed} = {asking[v] : v \in Watcher} \union {0, Replays!Owed}
    BY <1>5, <2>1
  <2>3. \A v \in Opening : asking'[v] = asking[v]
    BY <1>5, <2>1 DEF Opening, Replays!Owed
  <2>4. open' = ({asking'[v] : v \in Watcher} \union {replay'.pass}) \ {0, Replays!Owed}
    BY <1>1, <1>2, <2>2 DEF PassesApart
  <2> QED BY <1>1, <1>2, <2>1, <2>3, <2>4 DEF PassesApart, Replays!Owed
<1>9. w \notin crossed' => FramesReach(w)'
  BY <1>1, <1>3, <1>6 DEF FramesReach, Reached, Replays!Shown, Replays!NoFrame
<1>10. ASSUME NEW v \in Watcher \ {w}, v \notin crossed' PROVE FramesReach(v)'
  BY <1>1, <1>4, <1>6, <1>10 DEF ReplayInv, FramesReach, Reached, Replays!Away
<1> QED BY <1>1, <1>2, <1>4, <1>5, <1>6, <1>7, <1>8, <1>9, <1>10
        DEF ReplayInv, Replays!Away, Replays!Owed

LEMMA NothingShown == \A s : Replays!Shown(s, Replays!NoFrame) = s
BY DEF Replays!Shown, Replays!NoFrame

LEMMA WrittenKeeps ==
  ASSUME ReplayInv, NEW w \in Watcher, Replays!Write(w) \/ Replays!WriteGreeting(w)
  PROVE  ReplayInv'
<1>1. UNCHANGED <<replay, passes, open, asking, sub, crossed>>
  BY DEF Replays!Write, Replays!WriteGreeting
<1>2. ReplayTypes /\ Replays!NoFrame \in Frame
  BY DEF ReplayInv, Replays!NoFrame, Frame
<1>3. /\ queued' \in [Watcher -> Frame] /\ greeting' \in [Watcher -> Frame]
      /\ shown' = [v \in Watcher |-> shown'[v]]
  BY <1>2 DEF Replays!Write, Replays!WriteGreeting, ReplayTypes
<1>4. \A v \in Watcher \ {w} : /\ queued'[v] = queued[v] /\ greeting'[v] = greeting[v]
                               /\ shown'[v] = shown[v]
  BY <1>2 DEF Replays!Write, Replays!WriteGreeting, ReplayTypes
<1>5. \/ /\ shown'[w] = Replays!Shown(shown[w], queued[w]) /\ queued'[w] = Replays!NoFrame
         /\ greeting'[w] = greeting[w]
      \/ /\ shown'[w] = Replays!Shown(shown[w], greeting[w]) /\ greeting'[w] = Replays!NoFrame
         /\ queued'[w] = queued[w] /\ greeting[w] # Replays!NoFrame
  BY <1>2 DEF Replays!Write, Replays!WriteGreeting, ReplayTypes
<1>6. Replays!Engine' = Replays!Engine /\ Reached' = Reached
  BY <1>1 DEF Reached, Replays!Engine, Replays!Live
<1>7. ASSUME NEW v \in Watcher, v \notin crossed, FramesReach(v) PROVE FramesReach(v)'
  BY <1>1, <1>4, <1>5, <1>6, <1>7, NothingShown DEF FramesReach, Replays!Away
<1>8. \A v \in Watcher : /\ queued'[v] \in {queued[v], Replays!NoFrame}
                         /\ greeting'[v] \in {greeting[v], Replays!NoFrame}
  BY <1>4, <1>5
<1>9. ReplayTypes' /\ PassesApart'
  BY <1>1, <1>3 DEF ReplayInv, ReplayTypes, PassesApart, Opening, Replays!Owed
<1> QED BY <1>1, <1>6, <1>7, <1>8, <1>9 DEF ReplayInv, Replays!Away, Replays!Owed

LEMMA LeaveKeeps ==
  ASSUME ReplayInv, NEW w \in Watcher, Replays!Leave(w)
  PROVE  ReplayInv'
<1>1. /\ UNCHANGED <<replay, passes, open, asking, greeting>> /\ crossed' = crossed \ {w}
      /\ asking[w] = 0 /\ greeting[w] = Replays!NoFrame
      /\ sub' = [sub EXCEPT ![w] = Replays!Away] /\ queued' = [queued EXCEPT ![w] = Replays!NoFrame]
      /\ shown' = [shown EXCEPT ![w] = Replays!Nothing]
  BY DEF Replays!Leave, Replays!Idle
<1>2. ReplayTypes /\ Replays!NoFrame \in Frame /\ Replays!Away \in 0 .. (MaxPass + 1) /\ Replays!Owed # 0
  BY ReplayAssumption DEF ReplayInv, Replays!NoFrame, Frame, Replays!Away, Replays!Owed
<1>3. /\ queued' \in [Watcher -> Frame] /\ sub' \in [Watcher -> 0 .. (MaxPass + 1)]
      /\ shown' = [v \in Watcher |-> shown'[v]]
  BY <1>1, <1>2 DEF ReplayTypes
<1>4. /\ sub'[w] = Replays!Away /\ queued'[w] = Replays!NoFrame
      /\ \A v \in Watcher \ {w} : sub'[v] = sub[v] /\ queued'[v] = queued[v] /\ shown'[v] = shown[v]
  BY <1>1, <1>2 DEF ReplayTypes
<1>5. Replays!Engine' = Replays!Engine /\ Reached' = Reached
  BY <1>1 DEF Reached, Replays!Engine, Replays!Live
<1>6. FramesReach(w)'
  BY <1>1, <1>4 DEF FramesReach, Replays!Away
<1>7. ASSUME NEW v \in Watcher \ {w}, v \notin crossed' PROVE FramesReach(v)'
  BY <1>1, <1>4, <1>5, <1>7 DEF ReplayInv, FramesReach, Replays!Away
<1>8. ReplayTypes' /\ PassesApart'
  BY <1>1, <1>2, <1>3 DEF ReplayInv, ReplayTypes, PassesApart, Opening, Replays!Owed
<1> QED BY <1>1, <1>2, <1>4, <1>5, <1>6, <1>7, <1>8 DEF ReplayInv, Replays!Away, Replays!Owed

LEMMA PauseKeeps ==
  ASSUME ReplayInv, NEW w \in Watcher, Replays!Pause(w)
  PROVE  ReplayInv'
<1>1. /\ UNCHANGED <<passes, open, asking, sub, queued, greeting, shown, crossed>>
      /\ replay' = [replay EXCEPT !.paused = ~@] /\ sub[w] # Replays!Away
  BY DEF Replays!Pause
<1>2. ReplayTypes /\ replay.pass # 0
  BY <1>1 DEF ReplayInv
<1>3. replay' \in Playback /\ replay'.pass = replay.pass /\ replay'.tick = replay.tick
  BY <1>1, <1>2 DEF ReplayTypes, Playback
<1>4. Replays!Engine' = Replays!Engine /\ Reached' = Reached
  BY <1>3 DEF Reached, Replays!Engine, Replays!Live
<1>5. ReplayTypes' /\ PassesApart'
  BY <1>1, <1>3 DEF ReplayInv, ReplayTypes, PassesApart, Opening, Replays!Owed
<1>6. ASSUME NEW v \in Watcher, v \notin crossed PROVE FramesReach(v)'
  BY <1>1, <1>4, <1>6 DEF ReplayInv, FramesReach, Replays!Away
<1> QED BY <1>1, <1>2, <1>3, <1>4, <1>5, <1>6 DEF ReplayInv, Replays!Away, Replays!Owed

LEMMA RestartReplayKeeps ==
  ASSUME ReplayInv, NEW w \in Watcher, Replays!Restart(w)
  PROVE  ReplayInv'
<1>1. /\ sub[w] # Replays!Away /\ asking[w] \in 1 .. MaxPass
      /\ replay' = [Replays!NoReplay EXCEPT !.pass = asking[w], !.tick = StartTick]
      /\ open' = open \ {replay.pass} /\ asking' = [asking EXCEPT ![w] = Replays!Owed]
      /\ sub' = [v \in Watcher |-> IF sub[v] = Replays!Away THEN Replays!Away ELSE 0]
      /\ crossed' = crossed \union
           {v \in Watcher : queued[v] # Replays!NoFrame \/ greeting[v] # Replays!NoFrame}
      /\ UNCHANGED <<passes, queued, greeting, shown>>
  BY DEF Replays!Restart, Replays!Forgotten
<1>2. ReplayTypes /\ PassesApart /\ MaxPass \in Nat /\ StartTick \in Nat /\ w \in Opening
      /\ replay.pass # 0 /\ replay.pass \in 0 .. MaxPass
  BY <1>1, ReplayAssumption DEF ReplayInv, Opening, ReplayTypes, Playback
<1>3. /\ asking' \in [Watcher -> 0 .. (MaxPass + 1)] /\ sub' \in [Watcher -> 0 .. (MaxPass + 1)]
      /\ \A v \in Watcher : asking'[v] = IF v = w THEN Replays!Owed ELSE asking[v]
  BY <1>1, <1>2 DEF ReplayTypes, Replays!Owed, Replays!Away
<1>4. replay' = [pass |-> asking[w], tick |-> StartTick, paused |-> FALSE, done |-> FALSE]
  BY <1>1 DEF Replays!NoReplay
<1>5. replay' \in Playback /\ replay'.pass = asking[w] /\ replay'.pass # 0
  <2>1. asking[w] \in 0 .. MaxPass /\ asking[w] # 0
    BY <1>1, <1>2
  <2> QED BY <1>2, <1>4, <2>1 DEF Playback
<1>6. ReplayTypes'
  BY <1>1, <1>2, <1>3, <1>5 DEF ReplayTypes
<1>7. PassesApart'
  <2>1. \A v \in Opening' : v \in Opening \ {w} /\ asking'[v] = asking[v]
    BY <1>2, <1>3 DEF Opening, Replays!Owed
  <2>2. {asking'[v] : v \in Watcher} \union {asking[w], Replays!Owed}
          = {asking[v] : v \in Watcher} \union {Replays!Owed}
    BY <1>3
  <2>3. replay.pass \notin {asking[v] : v \in Watcher} /\ replay.pass # Replays!Owed
    BY <1>2 DEF PassesApart, Opening, Replays!Owed
  <2>4. asking[w] # Replays!Owed /\ asking[w] # 0
    BY <1>1, <1>2 DEF Replays!Owed
  <2>5. open' = ({asking'[v] : v \in Watcher} \union {replay'.pass}) \ {0, Replays!Owed}
    BY <1>1, <1>2, <1>5, <2>2, <2>3, <2>4 DEF PassesApart
  <2>6. replay'.pass <= passes' /\ \A v \in Opening' : asking'[v] <= passes' /\ asking'[v] # replay'.pass
    BY <1>1, <1>2, <1>5, <2>1 DEF PassesApart
  <2>7. \A u, v \in Opening' : asking'[u] = asking'[v] => u = v
    BY <1>2, <2>1 DEF PassesApart
  <2> QED BY <2>5, <2>6, <2>7 DEF PassesApart, Replays!Owed
<1>8. ASSUME NEW v \in Watcher
      PROVE  /\ sub'[v] # Replays!Away => sub'[v] = 0
             /\ sub'[v] = Replays!Away => queued'[v] = Replays!NoFrame
             /\ asking'[v] # 0 => greeting'[v] = Replays!NoFrame
             /\ asking'[v] = Replays!Owed => sub'[v] # Replays!Away
             /\ v \notin crossed' => FramesReach(v)'
  <2>1. sub'[v] = IF sub[v] = Replays!Away THEN Replays!Away ELSE 0
    BY <1>1
  <2>2. asking[w] # 0 /\ Replays!Away # 0
    BY <1>1, <1>2 DEF Replays!Away
  <2>3. v \notin crossed' => queued'[v] = Replays!NoFrame
    BY <1>1
  <2>4. sub'[v] \in {0, Replays!Away}
    BY <2>1
  <2>5. v \notin crossed' => FramesReach(v)'
    BY <2>3, <2>4 DEF FramesReach, Replays!Away
  <2> QED BY <1>1, <1>3, <2>1, <2>2, <2>5 DEF ReplayInv
<1> QED BY <1>5, <1>6, <1>7, <1>8 DEF ReplayInv, Replays!Away, Replays!Owed

(* A step of the playback: a diff goes only to those whose screen, with    *)
(* nothing on its way, is the image before it.                             *)
LEMMA ReplayTickKeeps ==
  ASSUME ReplayInv, Replays!Tick
  PROVE  ReplayInv'
<1> PICK r : r = IF replay.tick = LastTick THEN [replay EXCEPT !.done = TRUE]
                 ELSE [replay EXCEPT !.tick = @ + 1]
  OBVIOUS
<1> PICK e : e = IF Replays!Live(r.tick) THEN r.pass ELSE 0
  OBVIOUS
<1>1. /\ replay' = r
      /\ queued' = [w \in Watcher |-> Replays!FrameFor(w, r, e)]
      /\ sub' = [w \in Watcher |-> IF sub[w] = Replays!Away THEN Replays!Away ELSE e]
  BY DEF Replays!Tick
<1>2. /\ UNCHANGED <<passes, open, asking, greeting, shown>> /\ replay # Replays!NoReplay
      /\ crossed' = crossed \union {w \in Watcher : greeting[w] # Replays!NoFrame}
      /\ \A w \in Watcher : queued[w] = Replays!NoFrame
  BY DEF Replays!Tick
<1>3. /\ ReplayTypes /\ PassesApart /\ MaxPass \in Nat /\ replay \in Playback /\ replay.tick \in Nat
      /\ replay.pass \in 1 .. MaxPass
  BY <1>2, ReplayAssumption DEF ReplayInv, ReplayTypes, Playback
<1>4. /\ r \in Playback /\ r.pass = replay.pass /\ r.tick \in Nat
      /\ \/ r.tick = replay.tick + 1 /\ r.done = replay.done
         \/ r.tick = replay.tick /\ r.done
  <2>1. CASE replay.tick = LastTick
    BY <1>3, <2>1 DEF Playback
  <2>2. CASE replay.tick # LastTick
    <3>1. r = [replay EXCEPT !.tick = replay.tick + 1] /\ replay.tick + 1 \in Nat
      BY <1>3, <2>2
    <3> QED BY <1>3, <3>1 DEF Playback
  <2> QED BY <2>1, <2>2
<1>5. e = Replays!Engine' /\ e \in {0, r.pass} /\ (e # 0 <=> r.tick \in RoomTicks)
  BY <1>1, <1>3, <1>4 DEF Replays!Engine, Replays!Live
<1>6. e \in 0 .. MaxPass /\ e # Replays!Away
  BY <1>3, <1>4, <1>5 DEF Replays!Away
<1>7. Replays!Image(r.tick) \in Nat
  BY <1>4, ImageMovesOn
<1>8. ASSUME NEW w \in Watcher
      PROVE  /\ Replays!FrameFor(w, r, e) \in Frame
             /\ sub[w] = Replays!Away => Replays!FrameFor(w, r, e) = Replays!NoFrame
  <2>1. r.pass \in Nat
    BY <1>3, <1>4
  <2>2. Replays!NoFrame \in Frame
    BY DEF Replays!NoFrame, Frame
  <2>3. \A k \in {"snapshot", "diff"} : [kind |-> k, pass |-> r.pass, image |-> Replays!Image(r.tick)] \in Frame
    BY <1>7, <2>1 DEF Frame
  <2>4. CASE sub[w] = Replays!Away
    BY <1>6, <2>2, <2>4 DEF Replays!FrameFor
  <2>5. CASE sub[w] \notin {Replays!Away, e}
    BY <2>3, <2>5 DEF Replays!FrameFor
  <2>6. CASE sub[w] = e /\ e # 0 /\ ~r.done
    BY <1>6, <2>3, <2>6 DEF Replays!FrameFor
  <2>7. CASE sub[w] = e /\ ~(e # 0 /\ ~r.done)
    BY <1>6, <2>2, <2>7 DEF Replays!FrameFor
  <2> QED BY <2>4, <2>5, <2>6, <2>7
<1>9. queued' \in [Watcher -> Frame] /\ sub' \in [Watcher -> 0 .. (MaxPass + 1)]
  <2>1. {e, Replays!Away} \subseteq 0 .. (MaxPass + 1)
    BY <1>3, <1>6 DEF Replays!Away
  <2> QED BY <1>1, <1>8, <2>1
<1>10. ReplayTypes'
  BY <1>1, <1>2, <1>3, <1>4, <1>9 DEF ReplayTypes
<1>11. PassesApart'
  BY <1>1, <1>2, <1>3, <1>4 DEF PassesApart, Opening, Replays!Owed
<1>12. ASSUME NEW w \in Watcher, w \notin crossed', sub[w] # Replays!Away, e # 0
       PROVE  Replays!Shown(shown[w], Replays!FrameFor(w, r, e))
                = [pass |-> r.pass, image |-> Replays!Image(r.tick)]
  <2>1. CASE sub[w] # e
    BY <1>12, <2>1 DEF Replays!FrameFor, Replays!Shown
  <2>2. CASE sub[w] = e
    <3>1. sub[w] = Replays!Engine /\ Replays!Engine # 0
      BY <1>12, <2>2 DEF ReplayInv
    <3>2. shown[w] = [pass |-> replay.pass, image |-> Replays!Image(replay.tick)]
      <4>1. FramesReach(w) /\ queued[w] = Replays!NoFrame /\ greeting[w] = Replays!NoFrame
        BY <1>2, <1>12 DEF ReplayInv
      <4> QED BY <1>12, <3>1, <4>1, NothingShown DEF FramesReach, Reached
    <3>3. CASE r.tick = replay.tick /\ r.done
      <4>1. Replays!FrameFor(w, r, e) = Replays!NoFrame
        BY <1>12, <2>2, <3>3 DEF Replays!FrameFor
      <4> QED BY <1>4, <3>2, <3>3, <4>1, NothingShown
    <3>4. CASE r.tick = replay.tick + 1 /\ r.done = replay.done
      <4>1. ~r.done
        BY <3>4 DEF Replays!Tick
      <4>2. Replays!FrameFor(w, r, e) = [kind |-> "diff", pass |-> r.pass, image |-> Replays!Image(r.tick)]
        BY <1>12, <2>2, <4>1 DEF Replays!FrameFor
      <4>3. /\ Replays!Image(r.tick) = Replays!Image(replay.tick) + 1
            /\ Replays!Image(replay.tick) \in Nat
        BY <1>3, <1>5, <1>12, <3>4, ImageMovesOn
      <4> QED BY <1>4, <3>2, <4>2, <4>3 DEF Replays!Shown
    <3> QED BY <1>4, <3>3, <3>4
  <2> QED BY <2>1, <2>2
<1>13. ASSUME NEW w \in Watcher, w \notin crossed' PROVE FramesReach(w)'
  <2>1. greeting'[w] = Replays!NoFrame
    BY <1>2, <1>13
  <2>2. ASSUME sub'[w] # Replays!Away, Replays!Engine' # 0
        PROVE  Replays!Shown(Replays!Shown(shown'[w], queued'[w]), greeting'[w]) = Reached'
    <3>1. sub[w] # Replays!Away /\ queued'[w] = Replays!FrameFor(w, r, e)
      BY <1>1, <2>2 DEF Replays!Away
    <3>2. Replays!Shown(shown'[w], queued'[w]) = Reached'
      BY <1>1, <1>2, <1>5, <1>12, <1>13, <2>2, <3>1 DEF Reached
    <3> QED BY <2>1, <3>2, NothingShown
  <2> QED BY <2>1, <2>2 DEF FramesReach, Replays!Away
<1>14. ASSUME NEW w \in Watcher
       PROVE  /\ sub'[w] # Replays!Away => sub'[w] = e
              /\ sub'[w] = Replays!Away => sub[w] = Replays!Away /\ queued'[w] = Replays!NoFrame
  BY <1>1, <1>6, <1>8
<1>15. replay'.pass # 0
  BY <1>1, <1>3, <1>4
<1> QED BY <1>2, <1>5, <1>10, <1>11, <1>13, <1>14, <1>15 DEF ReplayInv, Replays!Away, Replays!Owed

LEMMA ReplayInitial == Replays!Init => ReplayInv
<1> SUFFICES ASSUME Replays!Init PROVE ReplayInv
  OBVIOUS
<1>1. /\ Replays!NoReplay \in Playback /\ Replays!NoFrame \in Frame
      /\ {0, Replays!Away} \subseteq 0 .. (MaxPass + 1) /\ 0 # Replays!Owed
  BY ReplayAssumption
     DEF Replays!NoReplay, Playback, Replays!NoFrame, Frame, Replays!Away, Replays!Owed
<1>2. ReplayTypes
  BY <1>1, ReplayAssumption DEF Replays!Init, ReplayTypes
<1>3. \A w \in Watcher : asking[w] = 0 /\ sub[w] = Replays!Away /\ queued[w] = Replays!NoFrame
                         /\ greeting[w] = Replays!NoFrame
  BY DEF Replays!Init
<1>4. PassesApart
  BY <1>3 DEF Replays!Init, PassesApart, Opening, Replays!NoReplay
<1> QED BY <1>1, <1>2, <1>3, <1>4 DEF Replays!Init, ReplayInv, FramesReach

LEMMA ReplayNext == ReplayInv /\ [Replays!Next]_(Replays!vars) => ReplayInv'
<1> SUFFICES ASSUME ReplayInv, [Replays!Next]_(Replays!vars) PROVE ReplayInv'
  OBVIOUS
<1>1. ASSUME NEW w \in Watcher,
             Replays!Build(w) \/ Replays!RestartAsked(w) \/ Replays!Join(w) \/ Replays!Restarted(w)
      PROVE  ReplayInv'
  <2>1. CASE Replays!Build(w) \/ Replays!RestartAsked(w)
    BY <2>1, OpensKeeps DEF Replays!Build, Replays!RestartAsked, Replays!Idle
  <2>2. CASE Replays!Join(w)
    BY <2>2, GreetedKeeps DEF Replays!Join, Replays!Idle, ReplayInv
  <2>3. CASE Replays!Restarted(w)
    BY <2>3, GreetedKeeps DEF Replays!Restarted, ReplayInv
  <2> QED BY <1>1, <2>1, <2>2, <2>3
<1>2. CASE UNCHANGED Replays!vars
  <2>1. ReplayTypes' /\ PassesApart' /\ Replays!Engine' = Replays!Engine /\ Reached' = Reached
    BY <1>2 DEF Replays!vars, ReplayInv, ReplayTypes, PassesApart, Opening, Replays!Owed, Reached,
                Replays!Engine, Replays!Live
  <2>2. \A w \in Watcher : FramesReach(w) => FramesReach(w)'
    BY <1>2, <2>1 DEF Replays!vars, FramesReach, Replays!Away
  <2> QED BY <1>2, <2>1, <2>2 DEF Replays!vars, ReplayInv, Replays!Away, Replays!Owed
<1> QED BY <1>1, <1>2, InstallKeeps, LeaveKeeps, PauseKeeps, RestartReplayKeeps, WrittenKeeps,
           ReplayTickKeeps DEF Replays!Next

(* Nobody who watches a title board misses a cell, however slow their      *)
(* stream; and however many open a recording or start it over at once, its *)
(* open files are the playback's and those being opened, and who has been  *)
(* written all they were built is shown the image it has reached.          *)
THEOREM WatchersShownAlways == Titles!Spec /\ Replays!Spec => []WatchersShown
<1>1. TitleInv => Titles!NoCellLost
  BY DEF TitleInv
<1>2. ReplayInv => Replays!OnePlayback
  <2> SUFFICES ASSUME ReplayInv PROVE Replays!OnePlayback
    OBVIOUS
  <2>1. ASSUME NEW w \in Watcher \ crossed, sub[w] # Replays!Away, sub[w] = Replays!Engine,
               Replays!Engine # 0, queued[w] = Replays!NoFrame, greeting[w] = Replays!NoFrame
        PROVE  shown[w] = [pass |-> replay.pass, image |-> Replays!Image(replay.tick)]
    <3>1. FramesReach(w)
      BY <2>1 DEF ReplayInv
    <3> QED BY <2>1, <3>1, NothingShown DEF FramesReach, Reached
  <2> QED BY <2>1 DEF ReplayInv, PassesApart, Replays!OnePlayback
<1>3. Titles!NoCellLost /\ Replays!OnePlayback => WatchersShown
  BY DEF WatchersShown
<1> QED BY <1>1, <1>2, <1>3, TitleInitial, TitleNext, ReplayInitial, ReplayNext, PTL
        DEF Titles!Spec, Replays!Spec

-----------------------------------------------------------------------------
(* A board that is streamed, to any players and watchers.                  *)

Board0(P) == P \union {"floor"}
Frames(P) == UNION {[s -> BOOLEAN] : s \in SUBSET Board0(P)}
Connections(P) == [at : {"out", "joining", "in", "dead", "early"}, greeting : Frames(P),
                   queue : Seq(Frames(P)), screen : {<<>>} \union [Board0(P) -> BOOLEAN], engine : Nat]

(* What a connection has on its way to its screen, in order: the first     *)
(* frame of one that joins is still its own goroutine's.                   *)
Way(r) == IF r.at = "joining" THEN <<r.greeting>> ELSE r.queue

(* Once those frames are drawn over the screen, cell k shows v.            *)
ShowsAfter(k, frames, scr, v) ==
  /\ \A i \in DOMAIN frames :
       k \in DOMAIN frames[i] /\ (\A j \in DOMAIN frames : j > i => k \notin DOMAIN frames[j])
         => frames[i][k] = v
  /\ (\A i \in DOMAIN frames : k \notin DOMAIN frames[i]) => scr[k] = v

(* A whole screen is there or comes first, and each cell that has not been *)
(* drawn since the last tick shows what it is: in what the tick took, or   *)
(* once the frames before it are drawn.                                    *)
Follows(r, out, whole, drawn, scr) ==
  /\ DOMAIN r.screen = whole \/ (Way(r) # <<>> /\ DOMAIN Way(r)[1] = whole)
  /\ \A k \in whole \ drawn :
       IF k \in DOMAIN out THEN out[k] = scr[k] ELSE ShowsAfter(k, Way(r), r.screen, scr[k])

(* A player on the board, and connected, follows it.                       *)
StreamInv(P, W, Q, E) ==
  /\ present \subseteq P /\ floor \in BOOLEAN /\ {era, eras} \subseteq Nat /\ dirty \subseteq Board0(P)
  /\ present # {} => era # 0
  /\ conn \in [P \union W -> Connections(P)] /\ outgoing \in [P \union W -> Frames(P)]
  /\ \A c \in P \union W :
       /\ conn[c].at = "joining" => conn[c].queue = <<>> /\ DOMAIN conn[c].greeting = Board0(P)
       /\ conn[c].at = "out" => outgoing[c] = <<>>
  /\ \A p \in present : conn[p].at \in {"joining", "in"} =>
       Follows(conn[p], outgoing[p], Board0(P), dirty, Streams(P, W, Q, E)!Screen)

LEMMA EmptyFrame == ASSUME NEW P PROVE <<>> \in Frames(P) /\ DOMAIN <<>> = {} /\ <<>> \in Seq(Frames(P))
<1>1. <<>> \in [{} -> BOOLEAN]
  OBVIOUS
<1> QED BY <1>1 DEF Frames

Seen(P, f, here) == [k \in Board0(P) |-> IF k = "floor" THEN f ELSE k \in here]

LEMMA ScreenIs ==
  ASSUME NEW P, NEW f \in BOOLEAN, NEW here
  PROVE  DOMAIN Seen(P, f, here) = Board0(P) /\ Seen(P, f, here) \in Frames(P)
<1> DEFINE shows(k) == IF k = "floor" THEN f ELSE k \in here
<1>1. Seen(P, f, here) = [k \in Board0(P) |-> shows(k)]
  BY DEF Seen
<1>2. \A k : shows(k) \in BOOLEAN
  <2> TAKE k
  <2>1. (k \in here) \in BOOLEAN
    OBVIOUS
  <2> QED BY <2>1
<1> HIDE DEF shows
<1>3. Seen(P, f, here) \in [Board0(P) -> BOOLEAN]
  BY <1>1, <1>2
<1> QED BY <1>3 DEF Frames

(* A board that changes in cells that are drawn is followed still.         *)
LEMMA FollowsOn ==
  ASSUME NEW r, NEW out, NEW whole, NEW drawn, NEW scr, NEW more, NEW next,
         Follows(r, out, whole, drawn, scr), drawn \subseteq more,
         \A k \in whole \ more : next[k] = scr[k]
  PROVE  Follows(r, out, whole, more, next)
BY DEF Follows

(* Who is greeted with the whole board follows it.                         *)
LEMMA GreetedFollows ==
  ASSUME NEW r, NEW whole, NEW drawn, NEW scr, r.at = "joining", r.greeting = scr, DOMAIN scr = whole
  PROVE  Follows(r, <<>>, whole, drawn, scr)
<1>1. Way(r) = <<scr>> /\ DOMAIN <<scr>> = {1} /\ <<scr>>[1] = scr /\ DOMAIN <<>> = {}
  BY DEF Way
<1> QED BY <1>1 DEF Follows, ShowsAfter

(* The first frame on the way is drawn.                                    *)
LEMMA DrawnFollows ==
  ASSUME NEW P, NEW W, NEW Q, NEW E, NEW r \in Connections(P), NEW out, NEW drawn, NEW scr,
         r.at = "in", r.queue # <<>>, NEW s \in Connections(P), s.at = "in", s.queue = Tail(r.queue),
         s.screen = Streams(P, W, Q, E)!Drawn(r.screen, Head(r.queue)),
         Follows(r, out, Board0(P), drawn, scr)
  PROVE  Follows(s, out, Board0(P), drawn, scr)
<1> DEFINE q == r.queue
<1>1. q \in Seq(Frames(P)) /\ q # <<>> /\ Way(r) = q /\ Way(s) = Tail(q)
  BY DEF Way, Connections
<1>2. /\ Len(q) \in Nat \ {0} /\ DOMAIN q = 1 .. Len(q) /\ Head(q) = q[1] /\ q[1] \in Frames(P)
      /\ DOMAIN Tail(q) = 1 .. (Len(q) - 1) /\ \A i \in 1 .. (Len(q) - 1) : Tail(q)[i] = q[i + 1]
  BY <1>1
<1>3. s.screen = Streams(P, W, Q, E)!Drawn(r.screen, q[1])
  BY <1>2
<1>4. "floor" \in Board0(P) /\ DOMAIN q[1] \subseteq Board0(P)
  BY <1>2 DEF Board0, Frames
<1>5. DOMAIN r.screen = Board0(P) \/ DOMAIN q[1] = Board0(P)
  BY <1>1 DEF Follows
<1>6. /\ DOMAIN s.screen = Board0(P)
      /\ \A k \in Board0(P) : s.screen[k] = IF k \in DOMAIN q[1] THEN q[1][k] ELSE r.screen[k]
  BY <1>3, <1>4, <1>5 DEF Streams!Drawn, Streams!Cell, Streams!Blank, Board0
<1> HIDE DEF q
<1>7. ASSUME NEW k \in Board0(P), ShowsAfter(k, q, r.screen, scr[k])
      PROVE  ShowsAfter(k, Tail(q), s.screen, scr[k])
  <2>1. ASSUME NEW i \in DOMAIN Tail(q), k \in DOMAIN Tail(q)[i],
               \A j \in DOMAIN Tail(q) : j > i => k \notin DOMAIN Tail(q)[j]
        PROVE  Tail(q)[i][k] = scr[k]
    <3>1. i + 1 \in DOMAIN q /\ Tail(q)[i] = q[i + 1]
      BY <1>2, <2>1
    <3>2. ASSUME NEW j \in DOMAIN q, j > i + 1 PROVE k \notin DOMAIN q[j]
      <4>1. j - 1 \in DOMAIN Tail(q) /\ j - 1 > i /\ Tail(q)[j - 1] = q[j]
        BY <1>2, <2>1, <3>2
      <4> QED BY <2>1, <4>1
    <3> QED BY <1>7, <2>1, <3>1, <3>2 DEF ShowsAfter
  <2>2. ASSUME \A i \in DOMAIN Tail(q) : k \notin DOMAIN Tail(q)[i] PROVE s.screen[k] = scr[k]
    <3>1. \A j \in DOMAIN q : j > 1 => k \notin DOMAIN q[j]
      <4> SUFFICES ASSUME NEW j \in DOMAIN q, j > 1 PROVE k \notin DOMAIN q[j]
        OBVIOUS
      <4>1. j - 1 \in DOMAIN Tail(q) /\ Tail(q)[j - 1] = q[j]
        BY <1>2
      <4> QED BY <2>2, <4>1
    <3>2. CASE k \in DOMAIN q[1]
      BY <1>2, <1>6, <1>7, <3>1, <3>2 DEF ShowsAfter
    <3>3. CASE k \notin DOMAIN q[1]
      <4>1. \A j \in DOMAIN q : k \notin DOMAIN q[j]
        BY <1>2, <3>1, <3>3
      <4> QED BY <1>6, <1>7, <3>3, <4>1 DEF ShowsAfter
    <3> QED BY <3>2, <3>3
  <2> QED BY <2>1, <2>2 DEF ShowsAfter
<1> QED BY <1>1, <1>6, <1>7 DEF Follows

(* What the tick took is queued behind the others.                         *)
LEMMA QueuedFollows ==
  ASSUME NEW P, NEW r \in Connections(P), NEW out \in Frames(P), NEW drawn, NEW scr,
         r.at = "in", NEW s \in Connections(P), s.at = "in", s.queue = Append(r.queue, out),
         s.screen = r.screen, Follows(r, out, Board0(P), drawn, scr)
  PROVE  Follows(s, <<>>, Board0(P), drawn, scr)
<1> DEFINE q == r.queue
<1>1. q \in Seq(Frames(P)) /\ Way(r) = q /\ Way(s) = Append(q, out)
  BY DEF Way, Connections
<1>2. /\ Len(q) \in Nat /\ DOMAIN q = 1 .. Len(q) /\ DOMAIN Append(q, out) = 1 .. (Len(q) + 1)
      /\ \A i \in 1 .. Len(q) : Append(q, out)[i] = q[i]
      /\ Append(q, out)[Len(q) + 1] = out
  BY <1>1
<1>3. DOMAIN s.screen = Board0(P) \/ (Way(s) # <<>> /\ DOMAIN Way(s)[1] = Board0(P))
  <2>1. q # <<>> => 1 \in 1 .. Len(q)
    BY <1>1
  <2>2. Append(q, out) # <<>>
    BY <1>1
  <2>3. DOMAIN r.screen = Board0(P) \/ (q # <<>> /\ DOMAIN q[1] = Board0(P))
    BY <1>1 DEF Follows
  <2> HIDE DEF q
  <2> QED BY <1>1, <1>2, <2>1, <2>2, <2>3
<1> HIDE DEF q
<1>4. ASSUME NEW k \in Board0(P) \ drawn PROVE ShowsAfter(k, Append(q, out), r.screen, scr[k])
  <2>1. IF k \in DOMAIN out THEN out[k] = scr[k] ELSE ShowsAfter(k, q, r.screen, scr[k])
    BY <1>1, <1>4 DEF Follows
  <2>2. CASE k \in DOMAIN out
    BY <1>2, <2>1, <2>2 DEF ShowsAfter
  <2>3. CASE k \notin DOMAIN out
    BY <1>2, <2>1, <2>3 DEF ShowsAfter
  <2> QED BY <2>2, <2>3
<1>5. DOMAIN <<>> = {}
  OBVIOUS
<1> QED BY <1>1, <1>3, <1>4, <1>5 DEF Follows

(* A step that changes one connection, and the board only in cells drawn.  *)
LEMMA OneConnection ==
  ASSUME NEW P, NEW W, NEW Q, NEW E, StreamInv(P, W, Q, E),
         NEW c \in P \union W, NEW r \in Connections(P), NEW out \in Frames(P),
         conn' = [conn EXCEPT ![c] = r], outgoing' = [outgoing EXCEPT ![c] = out],
         present' \subseteq P, dirty' \subseteq Board0(P), floor' = floor, {era', eras'} \subseteq Nat, present' # {} => era' # 0,
         r.at = "joining" => r.queue = <<>> /\ DOMAIN r.greeting = Board0(P),
         r.at = "out" => out = <<>>,
         c \in present' /\ r.at \in {"joining", "in"}
           => Follows(r, out, Board0(P), dirty', Streams(P, W, Q, E)!Screen'),
         \A q \in present' \ {c} :
           /\ q \in present /\ dirty \subseteq dirty'
           /\ \A k \in Board0(P) \ dirty' : (k \in present') = (k \in present)
  PROVE  StreamInv(P, W, Q, E)'
<1>1. /\ conn' \in [P \union W -> Connections(P)] /\ outgoing' \in [P \union W -> Frames(P)]
      /\ conn'[c] = r /\ outgoing'[c] = out
      /\ \A q \in (P \union W) \ {c} : conn'[q] = conn[q] /\ outgoing'[q] = outgoing[q]
  BY DEF StreamInv
<1>2. ASSUME NEW q \in present', conn'[q].at \in {"joining", "in"}
      PROVE  Follows(conn'[q], outgoing'[q], Board0(P), dirty', Streams(P, W, Q, E)!Screen')
  <2>1. CASE q = c
    BY <1>1, <1>2, <2>1
  <2>2. CASE q # c
    <3>1. q \in present /\ q \in P /\ conn'[q] = conn[q] /\ outgoing'[q] = outgoing[q]
      BY <1>1, <2>2
    <3>2. Follows(conn[q], outgoing[q], Board0(P), dirty, Streams(P, W, Q, E)!Screen)
      BY <1>2, <3>1 DEF StreamInv
    <3>3. \A k \in Board0(P) \ dirty' : Streams(P, W, Q, E)!Screen'[k] = Streams(P, W, Q, E)!Screen[k]
      BY <1>2, <2>2 DEF Streams!Screen, Streams!Cell, Board0
    <3> QED BY <1>2, <2>2, <3>1, <3>2, <3>3, FollowsOn
  <2> QED BY <2>1, <2>2
<1>3. floor' \in BOOLEAN
  BY DEF StreamInv
<1>4. ASSUME NEW q \in P \union W
      PROVE  /\ conn'[q].at = "joining" => conn'[q].queue = <<>> /\ DOMAIN conn'[q].greeting = Board0(P)
             /\ conn'[q].at = "out" => outgoing'[q] = <<>>
  BY <1>1 DEF StreamInv
<1> QED BY <1>1, <1>2, <1>3, <1>4 DEF StreamInv

LEMMA FrameDrawn ==
  ASSUME NEW P, NEW W, NEW Q, NEW E, NEW f \in Frames(P),
         NEW s \in {<<>>} \union [Board0(P) -> BOOLEAN]
  PROVE  Streams(P, W, Q, E)!Drawn(s, f) \in {<<>>} \union [Board0(P) -> BOOLEAN]
<1>1. f \in [DOMAIN f -> BOOLEAN] /\ "floor" \in Board0(P)
  BY DEF Frames, Board0
<1> QED BY <1>1 DEF Streams!Drawn, Streams!Cell, Streams!Blank, Board0

LEMMA QueueKeeps ==
  ASSUME NEW P, NEW W, NEW Q, NEW E, StreamInv(P, W, Q, E), NEW c \in P \union W,
         \/ Streams(P, W, Q, E)!WriteNow(c) \/ Streams(P, W, Q, E)!Greet(c)
         \/ Streams(P, W, Q, E)!ReadLoopExit(c) \/ Streams(P, W, Q, E)!Deliver(c)
  PROVE  StreamInv(P, W, Q, E)'
<1>1. /\ UNCHANGED <<present, floor, era, eras, dirty>>
      /\ Streams(P, W, Q, E)!Screen' = Streams(P, W, Q, E)!Screen
  BY DEF Streams!WriteNow, Streams!Greet, Streams!ReadLoopExit, Streams!Deliver, Streams!Screen
<1>2. /\ conn[c] \in Connections(P) /\ outgoing[c] \in Frames(P) /\ conn[c].queue \in Seq(Frames(P))
      /\ outgoing = [outgoing EXCEPT ![c] = outgoing[c]]
      /\ present' \subseteq P /\ {era', eras'} \subseteq Nat /\ (present' # {} => era' # 0)
      /\ dirty' \subseteq Board0(P)
      /\ conn[c].at = "joining" => conn[c].queue = <<>> /\ DOMAIN conn[c].greeting = Board0(P)
  BY <1>1 DEF StreamInv, Connections
<1>3. c \in present /\ conn[c].at \in {"joining", "in"} =>
        Follows(conn[c], outgoing[c], Board0(P), dirty, Streams(P, W, Q, E)!Screen)
  BY DEF StreamInv
<1>4. \A r \in Connections(P), out \in Frames(P) :
        /\ conn' = [conn EXCEPT ![c] = r] /\ outgoing' = [outgoing EXCEPT ![c] = out]
        /\ r.at = "joining" => r.queue = <<>> /\ DOMAIN r.greeting = Board0(P)
        /\ r.at = "out" => out = <<>>
        /\ c \in present /\ r.at \in {"joining", "in"}
             => Follows(r, out, Board0(P), dirty, Streams(P, W, Q, E)!Screen)
        => StreamInv(P, W, Q, E)'
  BY <1>1, <1>2, OneConnection
<1>5. CASE Streams(P, W, Q, E)!WriteNow(c)
  <2>1. PICK r : r = [conn[c] EXCEPT !.queue = Tail(@),
                        !.screen = Streams(P, W, Q, E)!Drawn(@, Head(conn[c].queue))]
    OBVIOUS
  <2>2. conn' = [conn EXCEPT ![c] = r] /\ outgoing' = outgoing /\ conn[c].queue # <<>>
    BY <1>2, <1>5, <2>1 DEF Streams!WriteNow, StreamInv
  <2>3. /\ r \in Connections(P) /\ r.at = conn[c].at /\ r.queue = Tail(conn[c].queue)
        /\ r.screen = Streams(P, W, Q, E)!Drawn(conn[c].screen, Head(conn[c].queue))
    <3>1. Head(conn[c].queue) \in Frames(P) /\ Tail(conn[c].queue) \in Seq(Frames(P))
      BY <1>2, <2>2
    <3>2. Streams(P, W, Q, E)!Drawn(conn[c].screen, Head(conn[c].queue))
            \in {<<>>} \union [Board0(P) -> BOOLEAN]
      BY <1>2, <3>1, FrameDrawn DEF Connections
    <3> QED BY <1>2, <2>1, <3>1, <3>2 DEF Connections
  <2>4. r.at # "joining" /\ (r.at = "out" => outgoing[c] = <<>>)
    BY <1>2, <2>2, <2>3 DEF StreamInv
  <2>5. c \in present /\ r.at = "in" => Follows(r, outgoing[c], Board0(P), dirty, Streams(P, W, Q, E)!Screen)
    <3> SUFFICES ASSUME c \in present, r.at = "in"
                 PROVE  Follows(r, outgoing[c], Board0(P), dirty, Streams(P, W, Q, E)!Screen)
      OBVIOUS
    <3>1. Follows(conn[c], outgoing[c], Board0(P), dirty, Streams(P, W, Q, E)!Screen)
      BY <1>3, <2>3
    <3>2. conn[c].at = "in" /\ conn[c] \in Connections(P)
      BY <1>2, <2>3
    <3>3. conn[c].queue # <<>>
      BY <2>2
    <3> QED BY <2>3, <3>1, <3>2, <3>3, DrawnFollows
  <2> QED BY <1>2, <1>4, <2>2, <2>3, <2>4, <2>5
<1>6. CASE Streams(P, W, Q, E)!Greet(c)
  <2>1. PICK r : r = Streams(P, W, Q, E)!Write([conn[c] EXCEPT !.at = "in", !.greeting = <<>>], conn[c].greeting)
    OBVIOUS
  <2>2. conn' = [conn EXCEPT ![c] = r] /\ outgoing' = outgoing /\ conn[c].at = "joining"
    BY <1>6, <2>1 DEF Streams!Greet, StreamInv, Streams!NoFrame
  <2>3. conn[c].queue = <<>> /\ Append(<<>>, conn[c].greeting) = <<conn[c].greeting>>
        /\ <<conn[c].greeting>> \in Seq(Frames(P))
    BY <1>2, <2>2 DEF Connections
  <2>4. \/ r = [conn[c] EXCEPT !.at = "dead", !.greeting = <<>>]
        \/ r = [conn[c] EXCEPT !.at = "in", !.greeting = <<>>, !.queue = <<conn[c].greeting>>]
    BY <1>2, <2>1, <2>3 DEF Streams!Write, Connections
  <2>5. r \in Connections(P) /\ r.screen = conn[c].screen
        /\ (r.at = "dead" \/ (r.at = "in" /\ r.queue = <<conn[c].greeting>>))
    BY <1>2, <2>3, <2>4, EmptyFrame, ZenonT(30) DEF Connections
  <2>6. r.at = "in" => Way(r) = Way(conn[c])
    BY <2>2, <2>5 DEF Way
  <2>7. c \in present /\ r.at = "in" => Follows(r, outgoing[c], Board0(P), dirty, Streams(P, W, Q, E)!Screen)
    BY <1>3, <2>2, <2>5, <2>6 DEF Follows
  <2> QED BY <1>2, <1>4, <2>2, <2>5, <2>7
<1>7. CASE Streams(P, W, Q, E)!ReadLoopExit(c)
  <2>1. PICK r : r = Streams(P, W, Q, E)!NoConn
    OBVIOUS
  <2>2. conn' = [conn EXCEPT ![c] = r] /\ outgoing' = [outgoing EXCEPT ![c] = <<>>]
    BY <1>7, <2>1 DEF Streams!ReadLoopExit, Streams!NoFrame
  <2>3. r \in Connections(P) /\ r.at = "out"
    BY <2>1, EmptyFrame DEF Streams!NoConn, Streams!NoFrame, Streams!Blank, Connections
  <2> QED BY <1>4, <2>2, <2>3, EmptyFrame
<1>8. CASE Streams(P, W, Q, E)!Deliver(c)
  <2>1. PICK r : r = IF conn[c].at = "joining" THEN [Streams(P, W, Q, E)!NoConn EXCEPT !.at = "early"]
                     ELSE Streams(P, W, Q, E)!Write(conn[c], outgoing[c])
    OBVIOUS
  <2>2. conn' = [conn EXCEPT ![c] = r] /\ outgoing' = [outgoing EXCEPT ![c] = <<>>]
    BY <1>2, <1>8, <2>1 DEF Streams!Deliver, Streams!NoFrame, StreamInv
  <2>3. CASE conn[c].at = "joining"
    <3>1. r \in Connections(P) /\ r.at = "early"
      BY <2>1, <2>3, EmptyFrame DEF Streams!NoConn, Streams!NoFrame, Streams!Blank, Connections
    <3> QED BY <1>4, <2>2, <3>1, EmptyFrame
  <2>4. CASE conn[c].at \in {"dead", "out", "early"}
    <3>1. r = conn[c]
      BY <2>1, <2>4 DEF Streams!Write
    <3> QED BY <1>2, <1>4, <2>2, <2>4, <3>1, EmptyFrame
  <2>5. CASE conn[c].at = "in"
    <3>1. \/ r = [conn[c] EXCEPT !.at = "dead", !.queue = <<>>]
          \/ r = [conn[c] EXCEPT !.queue = Append(conn[c].queue, outgoing[c])]
      BY <2>1, <2>5 DEF Streams!Write
    <3>2. Append(conn[c].queue, outgoing[c]) \in Seq(Frames(P))
      BY <1>2
    <3>3. /\ r \in Connections(P) /\ r.screen = conn[c].screen
          /\ \/ r.at = "dead"
             \/ (r.at = "in" /\ r.queue = Append(conn[c].queue, outgoing[c]))
      <4>1. <<>> \in Seq(Frames(P))
        BY EmptyFrame
      <4>2. CASE r = [conn[c] EXCEPT !.at = "dead", !.queue = <<>>]
        BY <1>2, <4>1, <4>2 DEF Connections
      <4>3. CASE r = [conn[c] EXCEPT !.queue = Append(conn[c].queue, outgoing[c])]
        BY <1>2, <2>5, <3>2, <4>3 DEF Connections
      <4> QED BY <3>1, <4>2, <4>3
    <3>4. c \in present /\ r.at = "in" => Follows(r, <<>>, Board0(P), dirty, Streams(P, W, Q, E)!Screen)
      BY <1>2, <1>3, <2>5, <3>3, QueuedFollows
    <3> QED BY <1>4, <2>2, <3>3, <3>4, EmptyFrame
  <2> QED BY <1>2, <2>3, <2>4, <2>5 DEF Connections
<1> QED BY <1>5, <1>6, <1>7, <1>8

LEMMA ComeKeeps ==
  ASSUME NEW P, NEW W, NEW Q, NEW E, StreamInv(P, W, Q, E), NEW p \in P \union W,
         \/ p \in P /\ (Streams(P, W, Q, E)!Join(p) \/ Streams(P, W, Q, E)!Resume(p))
         \/ p \in W /\ Streams(P, W, Q, E)!Watch(p)
  PROVE  StreamInv(P, W, Q, E)'
<1>1. conn[p].at = "out" /\ outgoing' = outgoing /\ outgoing[p] = <<>> /\ floor' = floor
      /\ outgoing = [outgoing EXCEPT ![p] = <<>>] /\ floor \in BOOLEAN
  BY DEF Streams!Join, Streams!Resume, Streams!Watch, StreamInv
<1>2. /\ Streams(P, W, Q, E)!Screen' \in Frames(P) /\ DOMAIN Streams(P, W, Q, E)!Screen' = Board0(P)
  <2>1. Streams(P, W, Q, E)!Screen' = Seen(P, floor', present')
    BY DEF Streams!Screen, Streams!Cell, Seen, Board0
  <2> QED BY <1>1, <2>1, ScreenIs
<1>3. /\ present' \subseteq P /\ {era', eras'} \subseteq Nat /\ (present' # {} => era' # 0)
      /\ present' \subseteq present \union {p} /\ present \subseteq present'
      /\ dirty' \subseteq Board0(P)
  BY DEF Streams!Join, Streams!Resume, Streams!Watch, Streams!Live, Streams!Taken, Board0, StreamInv
<1>4. PICK r \in Connections(P) :
        /\ conn' = [conn EXCEPT ![p] = r] /\ r.at = "joining" /\ r.queue = <<>>
        /\ r.greeting = Streams(P, W, Q, E)!Screen'
  <2>1. ASSUME NEW s \in Frames(P)
        PROVE  LET r == Streams(P, W, Q, E)!Greeted(s)
               IN  /\ r \in Connections(P) /\ r.at = "joining" /\ r.queue = <<>> /\ r.greeting = s
                   /\ \A e \in Nat : [r EXCEPT !.engine = e] \in Connections(P)
    <3>1. PICK n : n = Streams(P, W, Q, E)!NoConn
      OBVIOUS
    <3>2. n \in Connections(P) /\ n.queue = <<>>
      BY <3>1, EmptyFrame DEF Streams!NoConn, Streams!NoFrame, Streams!Blank, Connections
    <3>3. PICK r : r = [n EXCEPT !.at = "joining", !.greeting = s]
      OBVIOUS
    <3>4. /\ r \in Connections(P) /\ r.at = "joining" /\ r.queue = <<>> /\ r.greeting = s
      BY <2>1, <3>2, <3>3 DEF Connections
    <3>5. \A e \in Nat : [r EXCEPT !.engine = e] \in Connections(P)
      BY <3>4 DEF Connections
    <3>6. Streams(P, W, Q, E)!Greeted(s) = r
      BY <3>1, <3>3 DEF Streams!Greeted
    <3> QED BY <3>4, <3>5, <3>6
  <2>2. CASE Streams(P, W, Q, E)!Join(p)
    <3>1. conn' = [conn EXCEPT ![p] = Streams(P, W, Q, E)!Greeted(Streams(P, W, Q, E)!Screen')]
      BY <2>2 DEF Streams!Join
    <3> QED BY <1>2, <2>1, <3>1
  <2>3. CASE Streams(P, W, Q, E)!Resume(p)
    <3>1. /\ conn' = [conn EXCEPT ![p] = Streams(P, W, Q, E)!Greeted(Streams(P, W, Q, E)!Screen)]
          /\ Streams(P, W, Q, E)!Screen' = Streams(P, W, Q, E)!Screen
      BY <2>3 DEF Streams!Resume, Streams!Screen
    <3> QED BY <1>2, <2>1, <3>1
  <2>4. CASE Streams(P, W, Q, E)!Watch(p)
    <3>1. PICK g : g = Streams(P, W, Q, E)!Greeted(Streams(P, W, Q, E)!Screen)
      OBVIOUS
    <3>2. /\ conn' = [conn EXCEPT ![p] = [g EXCEPT !.engine = era]] /\ era \in Nat
          /\ Streams(P, W, Q, E)!Screen' = Streams(P, W, Q, E)!Screen
      BY <2>4, <3>1 DEF Streams!Watch, Streams!Screen, StreamInv
    <3>3. /\ g \in Connections(P) /\ g.at = "joining" /\ g.queue = <<>>
          /\ g.greeting = Streams(P, W, Q, E)!Screen' /\ [g EXCEPT !.engine = era] \in Connections(P)
      BY <1>2, <2>1, <3>1, <3>2
    <3> QED BY <3>2, <3>3 DEF Connections
  <2> QED BY <2>2, <2>3, <2>4
<1>5. ASSUME NEW q \in present' \ {p}
      PROVE  /\ q \in present /\ dirty \subseteq dirty'
             /\ \A k \in Board0(P) \ dirty' : (k \in present') = (k \in present)
  <2>1. q \in present /\ q # p
    BY <1>3, <1>5
  <2>2. CASE p \in P /\ Streams(P, W, Q, E)!Join(p)
    <3>1. present' = present \union {p} /\ dirty' = dirty \union {p}
      BY <2>1, <2>2 DEF Streams!Join, Streams!Taken
    <3> QED BY <2>1, <3>1
  <2>3. CASE p \in P /\ Streams(P, W, Q, E)!Resume(p)
    <3>1. present' = present /\ dirty' = dirty
      BY <2>1, <2>3 DEF Streams!Resume, Streams!Taken
    <3> QED BY <2>1, <3>1
  <2>4. CASE p \in W /\ Streams(P, W, Q, E)!Watch(p)
    BY <2>1, <2>4 DEF Streams!Watch
  <2> QED BY <2>2, <2>3, <2>4
<1>6. Follows(r, <<>>, Board0(P), dirty', Streams(P, W, Q, E)!Screen')
  BY <1>2, <1>4, GreetedFollows
<1> QED BY <1>1, <1>2, <1>3, <1>4, <1>5, <1>6, EmptyFrame, OneConnection

LEMMA ExpireKeeps ==
  ASSUME NEW P, NEW W, NEW Q, NEW E, StreamInv(P, W, Q, E), NEW p \in P,
         Streams(P, W, Q, E)!ExpireDetached(p)
  PROVE  StreamInv(P, W, Q, E)'
<1>1. /\ conn[p].at = "out" /\ outgoing[p] = <<>> /\ UNCHANGED <<floor, eras, conn, outgoing>>
      /\ conn = [conn EXCEPT ![p] = conn[p]] /\ outgoing = [outgoing EXCEPT ![p] = <<>>]
      /\ conn[p] \in Connections(P) /\ present' = present \ {p} /\ era' \in {0, era}
      /\ (present' # {} => era' = era) /\ {era, eras} \subseteq Nat /\ present \subseteq P
      /\ p \in P \union W
  BY DEF Streams!ExpireDetached, Streams!Gone, StreamInv
<1>2. ASSUME NEW q \in present' \ {p}
      PROVE  /\ q \in present /\ dirty \subseteq dirty'
             /\ \A k \in Board0(P) \ dirty' : (k \in present') = (k \in present)
  <2>1. era' # 0
    BY <1>1, <1>2 DEF StreamInv
  <2>2. dirty' = dirty \union {p}
    BY <2>1 DEF Streams!ExpireDetached
  <2> QED BY <1>1, <1>2, <2>2
<1>3. present' # {} => era' # 0
  BY <1>1 DEF StreamInv
<1>4. p \notin present' /\ present' \subseteq P /\ {era', eras'} \subseteq Nat
      /\ dirty' \subseteq Board0(P)
  BY <1>1 DEF Streams!ExpireDetached, StreamInv, Board0
<1> QED BY <1>1, <1>2, <1>3, <1>4, EmptyFrame, OneConnection

(* A step of the board: who stays on it is sent every cell drawn since the *)
(* last one, and no other cell has changed.                                *)
LEMMA StreamTickKeeps ==
  ASSUME NEW P, NEW W, NEW Q, NEW E, StreamInv(P, W, Q, E), Streams(P, W, Q, E)!Tick
  PROVE  StreamInv(P, W, Q, E)'
<1>1. PICK gone \in SUBSET present, change \in BOOLEAN :
        LET drawn == dirty \cup gone \cup (IF change THEN {"floor"} ELSE {})
            diff  == Streams(P, W, Q, E)!Restrict(Streams(P, W, Q, E)!Screen', drawn)
        IN  /\ floor' = (IF change THEN ~floor ELSE floor)
            /\ Streams(P, W, Q, E)!Gone(gone)
            /\ outgoing' = [c \in P \union W |->
                 IF c \in Streams(P, W, Q, E)!Attached \cap present' THEN diff
                 ELSE IF c \in Streams(P, W, Q, E)!Attached \cap W
                 THEN Streams(P, W, Q, E)!Watched(conn[c], diff)
                 ELSE <<>>]
  BY DEF Streams!Tick, Streams!Conn, Streams!NoFrame
<1> DEFINE drawn == dirty \cup gone \cup (IF change THEN {"floor"} ELSE {})
<1> PICK diff : diff = Streams(P, W, Q, E)!Restrict(Streams(P, W, Q, E)!Screen', drawn)
  OBVIOUS
<1>0. /\ Streams(P, W, Q, E)!Gone(gone) /\ floor' = (IF change THEN ~floor ELSE floor)
      /\ outgoing' = [c \in P \union W |->
           IF c \in Streams(P, W, Q, E)!Attached \cap present' THEN diff
           ELSE IF c \in Streams(P, W, Q, E)!Attached \cap W
           THEN Streams(P, W, Q, E)!Watched(conn[c], diff)
           ELSE <<>>]
  BY <1>1
<1> PICK scr : scr = Streams(P, W, Q, E)!Screen'
  OBVIOUS
<1>2. /\ outgoing = [c \in P \union W |-> <<>>] /\ dirty' = {} /\ eras' = eras
      /\ conn' = [c \in P \union W |-> IF c \in W /\ c \in Streams(P, W, Q, E)!Attached
                                       THEN [conn[c] EXCEPT !.engine = era'] ELSE conn[c]]
  BY DEF Streams!Tick, Streams!Conn, Streams!NoFrame
<1>3. /\ present' = present \ gone /\ era' \in {0, era} /\ (present' # {} => era' = era)
      /\ floor' \in BOOLEAN /\ {era, eras} \subseteq Nat /\ present \subseteq P
      /\ \A k \in Board0(P) \ drawn : scr[k] = Streams(P, W, Q, E)!Screen[k]
  <2>1. /\ present' = present \ gone /\ era' \in {0, era} /\ (present' # {} => era' = era)
        /\ floor' \in BOOLEAN /\ {era, eras} \subseteq Nat /\ present \subseteq P
    BY <1>0 DEF Streams!Gone, StreamInv
  <2>2. ASSUME NEW k \in Board0(P) \ drawn PROVE scr[k] = Streams(P, W, Q, E)!Screen[k]
    BY <1>0, <2>1, <2>2 DEF Streams!Screen, Streams!Cell, Board0
  <2> QED BY <2>1, <2>2
<1>4. scr \in Frames(P) /\ DOMAIN scr = Board0(P)
  <2>1. scr = Seen(P, floor', present')
    BY DEF Streams!Screen, Streams!Cell, Seen, Board0
  <2> QED BY <1>3, <2>1, ScreenIs
<1>5. /\ diff \in Frames(P) /\ DOMAIN diff = drawn /\ drawn \subseteq Board0(P)
      /\ \A k \in drawn : diff[k] = scr[k]
  <2>1. drawn \subseteq Board0(P)
    BY <1>3 DEF StreamInv, Board0
  <2>2. diff = [k \in drawn |-> scr[k]]
    BY DEF Streams!Restrict
  <2>3. scr \in [Board0(P) -> BOOLEAN]
    BY <1>4 DEF Frames
  <2> HIDE DEF drawn
  <2>4. diff \in [drawn -> BOOLEAN]
    BY <2>1, <2>2, <2>3
  <2> QED BY <2>1, <2>2, <2>4 DEF Frames
<1> HIDE DEF drawn
<1>6. outgoing' \in [P \union W -> Frames(P)]
  <2>1. \A r : Streams(P, W, Q, E)!Watched(r, diff) \in Frames(P)
    BY <1>4, <1>5, EmptyFrame DEF Streams!Watched, Streams!NoFrame
  <2> QED BY <1>0, <1>5, <2>1, EmptyFrame
<1>7. /\ conn' \in [P \union W -> Connections(P)]
      /\ \A c \in P \union W : /\ conn'[c].at = conn[c].at /\ conn'[c].queue = conn[c].queue
                               /\ conn'[c].greeting = conn[c].greeting
                               /\ conn'[c].screen = conn[c].screen
  <2>1. conn \in [P \union W -> Connections(P)] /\ era' \in Nat
    BY <1>3 DEF StreamInv
  <2>2. ASSUME NEW r \in Connections(P)
        PROVE  LET s == [r EXCEPT !.engine = era']
               IN  /\ s \in Connections(P) /\ s.at = r.at /\ s.queue = r.queue
                   /\ s.greeting = r.greeting /\ s.screen = r.screen
    BY <2>1, <2>2 DEF Connections
  <2> QED BY <1>2, <2>1, <2>2
<1>8. ASSUME NEW p \in present', conn'[p].at \in {"joining", "in"}
      PROVE  Follows(conn'[p], outgoing'[p], Board0(P), {}, scr)
  <2>1. p \in P /\ p \in present /\ conn[p].at \in {"joining", "in"}
    BY <1>3, <1>7, <1>8
  <2>2. p \in Streams(P, W, Q, E)!Attached /\ outgoing'[p] = diff
    BY <1>0, <1>8, <2>1 DEF Streams!Attached, Streams!Conn
  <2>3. Follows(conn[p], <<>>, Board0(P), dirty, Streams(P, W, Q, E)!Screen)
    BY <1>2, <2>1 DEF StreamInv
  <2>4. Way(conn'[p]) = Way(conn[p]) /\ conn'[p].screen = conn[p].screen
    BY <1>7, <2>1 DEF Way
  <2>5. ASSUME NEW k \in Board0(P), k \notin drawn
        PROVE  ShowsAfter(k, Way(conn[p]), conn[p].screen, scr[k])
    BY <1>3, <2>3, <2>5, EmptyFrame DEF Follows, drawn
  <2> QED BY <1>5, <2>2, <2>3, <2>4, <2>5 DEF Follows
<1>9. ASSUME NEW c \in P \union W
      PROVE  /\ conn'[c].at = "joining" => conn'[c].queue = <<>> /\ DOMAIN conn'[c].greeting = Board0(P)
             /\ conn'[c].at = "out" => outgoing'[c] = <<>>
  BY <1>0, <1>7 DEF StreamInv, Streams!Attached
<1>10. present' # {} => era' # 0
  BY <1>3 DEF StreamInv
<1>11. /\ present' \subseteq P /\ floor' \in BOOLEAN /\ {era', eras'} \subseteq Nat
       /\ dirty' = {} /\ {} \subseteq Board0(P)
  BY <1>2, <1>3
<1> QED BY <1>6, <1>7, <1>8, <1>9, <1>10, <1>11 DEF StreamInv

LEMMA StreamInitial ==
  ASSUME NEW P, NEW W, NEW Q, NEW E, Streams(P, W, Q, E)!Init
  PROVE  StreamInv(P, W, Q, E)
<1>1. PICK n : n = Streams(P, W, Q, E)!NoConn
  OBVIOUS
<1>2. n \in Connections(P) /\ n.at = "out"
  BY <1>1, EmptyFrame DEF Streams!NoConn, Streams!NoFrame, Streams!Blank, Connections
<1>3. /\ present = {} /\ floor = FALSE /\ era = 0 /\ eras = 0 /\ dirty = {}
      /\ conn = [c \in P \union W |-> n] /\ outgoing = [c \in P \union W |-> <<>>]
  BY <1>1 DEF Streams!Init, Streams!Conn, Streams!NoFrame
<1>4. /\ conn \in [P \union W -> Connections(P)] /\ outgoing \in [P \union W -> Frames(P)]
      /\ \A c \in P \union W : conn[c].at = "out" /\ outgoing[c] = <<>>
  BY <1>2, <1>3, EmptyFrame
<1>5. /\ present \subseteq P /\ floor \in BOOLEAN /\ {era, eras} \subseteq Nat /\ dirty \subseteq Board0(P)
  <2>1. floor \in BOOLEAN
    BY <1>3
  <2> QED BY <1>3, <2>1
<1> QED BY <1>3, <1>4, <1>5 DEF StreamInv

LEMMA StreamNext ==
  ASSUME NEW P, NEW W, NEW Q, NEW E, StreamInv(P, W, Q, E),
         Streams(P, W, Q, E)!Next \/ UNCHANGED streamsVars
  PROVE  StreamInv(P, W, Q, E)'
<1>1. CASE UNCHANGED streamsVars
  BY <1>1 DEF streamsVars, StreamInv, Streams!Screen
<1>2. CASE Streams(P, W, Q, E)!Next
  BY <1>2, QueueKeeps, ComeKeeps, ExpireKeeps, StreamTickKeeps DEF Streams!Next, Streams!Conn
<1> QED BY <1>1, <1>2

LEMMA FollowersSee ==
  ASSUME NEW P, NEW W, NEW Q, NEW E, StreamInv(P, W, Q, E)
  PROVE  Streams(P, W, Q, E)!PlayersSee
<1> SUFFICES ASSUME NEW p \in present, Streams(P, W, Q, E)!Settled(p)
             PROVE  conn[p].screen = Streams(P, W, Q, E)!Screen
  BY DEF Streams!PlayersSee
<1>1. /\ conn[p].at = "in" /\ conn[p].queue = <<>> /\ outgoing[p] = <<>> /\ dirty = {}
      /\ DOMAIN <<>> = {} /\ p \in P \union W
  BY DEF Streams!Settled, Streams!NoFrame, StreamInv
<1>2. Follows(conn[p], <<>>, Board0(P), {}, Streams(P, W, Q, E)!Screen) /\ Way(conn[p]) = <<>>
  BY <1>1 DEF StreamInv, Way
<1>3. /\ DOMAIN conn[p].screen = Board0(P)
      /\ \A k \in Board0(P) : conn[p].screen[k] = Streams(P, W, Q, E)!Screen[k]
  BY <1>1, <1>2 DEF Follows, ShowsAfter
<1>4. conn[p].screen = [k \in Board0(P) |-> conn[p].screen[k]]
  BY <1>1, <1>3 DEF StreamInv, Connections
<1>5. Streams(P, W, Q, E)!Screen = [k \in Board0(P) |-> Streams(P, W, Q, E)!Screen[k]]
  BY DEF Streams!Screen, Streams!Cell, Board0
<1> QED BY <1>3, <1>4, <1>5

BoardStreamed ==
  IF service = "watched" THEN StreamInv(Observed, Observer, ObservedQueue, ObservedEra)
  ELSE StreamInv(Crowd, {}, CrowdQueue, CrowdEra)

(* Whoever comes, goes, comes back or is cut off meanwhile, a player on the*)
(* board to whom nothing is on its way sees it as it is, whether or not    *)
(* others watch it.                                                        *)
THEOREM PlayersSeeAlways == Spec => []PlayersSee
<1>1. Init => BoardStreamed
  BY StreamInitial DEF Init, BoardStreamed
<1>2. BoardStreamed /\ [Next]_<<service, paintingVars, zwdVars, publishedVars, scoresVars, challengeVars,
                                streamsVars, titlesVars, replaysVars, gazetteVars>> => BoardStreamed'
  <2> SUFFICES ASSUME BoardStreamed,
                      [Next]_<<service, paintingVars, zwdVars, publishedVars, scoresVars, challengeVars,
                               streamsVars, titlesVars, replaysVars, gazetteVars>>
               PROVE  BoardStreamed'
    OBVIOUS
  <2>1. /\ service' = service
        /\ \/ UNCHANGED streamsVars
           \/ service = "streams" /\ Streams(Crowd, {}, CrowdQueue, CrowdEra)!Next
           \/ service = "watched" /\ Streams(Observed, Observer, ObservedQueue, ObservedEra)!Next
    BY DEF Next, GenerateWorld, ExportWorld, PublishWorld, KeepScores, RunChallenges, StreamBoard,
           ShowTitle, ShowReplay, PrintGazette
  <2> QED BY <2>1, StreamNext DEF BoardStreamed
<1>3. BoardStreamed => PlayersSee
  BY FollowersSee DEF BoardStreamed, PlayersSee
<1> QED BY <1>1, <1>2, <1>3, PTL DEF Spec

-----------------------------------------------------------------------------
(* High scores: a list that is filled by entries named one after another.  *)

LEMMA ScoresCardinality == \A S : Scores!Cardinality(S) = Cardinality(S)
BY DEF Scores!Cardinality, Cardinality

Entry == [who : Player \union {NoOne}, score : Int]
Ladder == [1..HighScoreCount -> Entry]

(* The entries of t that are better than a score, those that come before   *)
(* the k-th, and the place that leaves it.                                 *)
Better(t, s) == {j \in 1..Len(t) : t[j].score > s}
Prior(t, k)  == {j \in 1..Len(t) : \/ t[j].score > t[k].score
                                   \/ t[j].score = t[k].score /\ j > k}
Place(t, k)  == Cardinality(Prior(t, k)) + 1

LEMMA PriorFinite ==
  ASSUME NEW t \in Seq(Entry), NEW S, S \subseteq 1..Len(t)
  PROVE  IsFiniteSet(S) /\ Cardinality(S) \in 0..Len(t)
<1>1. Len(t) \in Nat
  OBVIOUS
<1>2. IsFiniteSet(1..Len(t)) /\ Cardinality(1..Len(t)) = Len(t)
  BY <1>1, FS_Interval, SMTT(20)
<1>3. IsFiniteSet(S) /\ Cardinality(S) <= Cardinality(1..Len(t))
  BY <1>2, FS_Subset
<1> QED BY <1>1, <1>2, <1>3, FS_CardinalityType

(* An entry better than s comes before all that are not.                   *)
LEMMA PlacesDivide ==
  ASSUME NEW t \in Seq(Entry), NEW s \in Int, NEW k \in 1..Len(t)
  PROVE  /\ Place(t, k) \in 1..(Len(t) + 1)
         /\ t[k].score > s  => Place(t, k) <= Cardinality(Better(t, s))
         /\ t[k].score <= s => Place(t, k) > Cardinality(Better(t, s))
<1>1. t[k] \in Entry /\ \A j \in 1..Len(t) : t[j] \in Entry
  OBVIOUS
<1>2. /\ Prior(t, k) \subseteq 1..Len(t) /\ Better(t, s) \subseteq 1..Len(t)
      /\ IsFiniteSet(Prior(t, k)) /\ IsFiniteSet(Better(t, s))
      /\ Cardinality(Prior(t, k)) \in 0..Len(t) /\ Cardinality(Better(t, s)) \in 0..Len(t)
  BY PriorFinite DEF Prior, Better
<1>3. ASSUME t[k].score > s PROVE Cardinality(Prior(t, k)) < Cardinality(Better(t, s))
  <2>1. Prior(t, k) \subseteq Better(t, s) /\ k \in Better(t, s) /\ k \notin Prior(t, k)
    BY <1>1, <1>3 DEF Prior, Better, Entry
  <2> QED BY <1>2, <2>1, FS_Subset
<1>4. ASSUME t[k].score <= s PROVE Cardinality(Better(t, s)) <= Cardinality(Prior(t, k))
  <2>1. Better(t, s) \subseteq Prior(t, k)
    BY <1>1, <1>4 DEF Prior, Better, Entry
  <2> QED BY <1>2, <2>1, FS_Subset
<1>5. Len(t) \in Nat
  OBVIOUS
<1> QED BY <1>2, <1>3, <1>4, <1>5 DEF Place

(* A new entry comes after the better ones and before the rest.            *)
LEMMA PlacesAppended ==
  ASSUME NEW t \in Seq(Entry), NEW e \in Entry
  PROVE  /\ Place(Append(t, e), Len(t) + 1) = Cardinality(Better(t, e.score)) + 1
         /\ \A k \in 1..Len(t) :
              Place(Append(t, e), k) = IF t[k].score > e.score THEN Place(t, k) ELSE Place(t, k) + 1
<1> DEFINE u == Append(t, e)
<1>1. /\ Len(u) = Len(t) + 1 /\ u[Len(t) + 1] = e /\ Len(t) \in Nat
      /\ \A k \in 1..Len(t) : u[k] = t[k] /\ t[k] \in Entry
      /\ 1..Len(u) = 1..Len(t) \union {Len(t) + 1}
  OBVIOUS
<1> HIDE DEF u
<1>2. Prior(u, Len(t) + 1) = Better(t, e.score)
  BY <1>1 DEF Prior, Better, Entry
<1>3. ASSUME NEW k \in 1..Len(t)
      PROVE Place(u, k) = IF t[k].score > e.score THEN Place(t, k) ELSE Place(t, k) + 1
  <2>1. IsFiniteSet(Prior(t, k)) /\ Cardinality(Prior(t, k)) \in Nat /\ Len(t) + 1 \notin Prior(t, k)
    <3>1. Prior(t, k) \subseteq 1..Len(t)
      BY DEF Prior
    <3> QED BY <3>1, <1>1, PriorFinite
  <2>2. CASE t[k].score > e.score
    <3>1. Prior(u, k) = Prior(t, k)
      BY <1>1, <2>2 DEF Prior, Entry
    <3> QED BY <3>1, <2>2 DEF Place
  <2>3. CASE ~(t[k].score > e.score)
    <3>1. Prior(u, k) = Prior(t, k) \union {Len(t) + 1}
      BY <1>1, <2>3 DEF Prior, Entry
    <3> QED BY <3>1, <2>1, <2>3, FS_AddElement DEF Place
  <2> QED BY <2>2, <2>3
<1> QED BY <1>2, <1>3 DEF u, Place

(* The list holds the best of t, each in its place, and nothing else.      *)
Filled(list, t) ==
  /\ \A k \in 1..Len(t) : Place(t, k) <= HighScoreCount => list[Place(t, k)] = t[k]
  /\ \A i \in 1..HighScoreCount :
       IF i <= Len(t) THEN \E k \in 1..Len(t) : Place(t, k) = i ELSE list[i] = Scores!Empty

(* pos is the first place whose score is no better than s.                 *)
FirstFor(list, pos, s) ==
  /\ pos \in 1..HighScoreCount /\ s >= list[pos].score
  /\ \A i \in 1..HighScoreCount : s >= list[i].score => pos <= i

LEMMA FirstIsNext ==
  ASSUME NEW list \in Ladder, NEW t \in Seq(Entry), Filled(list, t),
         NEW s \in Int, s > 0, NEW pos, FirstFor(list, pos, s)
  PROVE  pos = Cardinality(Better(t, s)) + 1
<1> DEFINE c == Cardinality(Better(t, s))
<1>0. Len(t) \in Nat /\ HighScoreCount \in Nat /\ pos \in 1..HighScoreCount
  BY RankingAssumption DEF FirstFor
<1>1. c \in 0..Len(t)
  BY PriorFinite DEF Better
<1>2. \A i \in 1..HighScoreCount : i <= Len(t) =>
        \E k \in 1..Len(t) : Place(t, k) = i /\ list[i] = t[k]
  BY DEF Filled
<1>3. \A k \in 1..Len(t) : /\ t[k].score \in Int /\ Place(t, k) \in Int
                           /\ t[k].score > s  => Place(t, k) <= c
                           /\ t[k].score <= s => Place(t, k) > c
  <2> TAKE k \in 1..Len(t)
  <2>1. t[k] \in Entry
    OBVIOUS
  <2>2. t[k].score \in Int
    BY <2>1 DEF Entry
  <2> QED BY <2>2, <1>0, PlacesDivide
<1> HIDE DEF c
<1>4. ASSUME pos <= c PROVE FALSE
  <2>1. PICK k \in 1..Len(t) : Place(t, k) = pos /\ list[pos] = t[k]
    BY <1>0, <1>1, <1>2, <1>4
  <2>2. s >= t[k].score
    BY <2>1 DEF FirstFor
  <2> QED BY <2>1, <2>2, <1>0, <1>1, <1>3, <1>4
<1>5. ASSUME pos > c + 1 PROVE FALSE
  <2>1. c + 1 \in 1..HighScoreCount /\ ~(s >= list[c + 1].score)
    BY <1>0, <1>1, <1>5 DEF FirstFor
  <2>2. CASE c + 1 <= Len(t)
    <3>1. PICK k \in 1..Len(t) : Place(t, k) = c + 1 /\ list[c + 1] = t[k]
      BY <1>2, <2>1, <2>2
    <3> QED BY <3>1, <2>1, <1>1, <1>3
  <2>3. CASE ~(c + 1 <= Len(t))
    <3>1. list[c + 1] = Scores!Empty
      BY <2>1, <2>3 DEF Filled
    <3> QED BY <3>1, <2>1 DEF Scores!Empty
  <2> QED BY <2>2, <2>3
<1> QED BY <1>0, <1>1, <1>4, <1>5 DEF c

(* What is inserted at the first place for it keeps the list.              *)
LEMMA InsertedFills ==
  ASSUME NEW list \in Ladder, NEW t \in Seq(Entry), Filled(list, t),
         NEW e \in Entry, e.score > 0, NEW pos, FirstFor(list, pos, e.score),
         NEW new, new = [i \in 1..HighScoreCount |->
                           IF i < pos THEN list[i] ELSE IF i = pos THEN e ELSE list[i - 1]]
  PROVE  Filled(new, Append(t, e))
<1> DEFINE u == Append(t, e)
           c == Cardinality(Better(t, e.score))
<1>0. /\ Len(t) \in Nat /\ HighScoreCount \in Nat /\ pos \in 1..HighScoreCount
      /\ Len(u) = Len(t) + 1 /\ u[Len(t) + 1] = e /\ e.score \in Int
      /\ \A k \in 1..Len(t) : u[k] = t[k]
  BY RankingAssumption DEF FirstFor, Entry
<1>1. pos = c + 1 /\ c \in 0..Len(t)
  BY FirstIsNext, <1>0, PriorFinite DEF Better
<1>2. \A k \in 1..Len(t) : /\ Place(t, k) \in 1..(Len(t) + 1)
                           /\ t[k].score > e.score  => Place(t, k) < pos
                           /\ ~(t[k].score > e.score) => Place(t, k) >= pos
  <2> TAKE k \in 1..Len(t)
  <2>1. t[k].score \in Int
    <3>1. t[k] \in Entry
      OBVIOUS
    <3> QED BY <3>1 DEF Entry
  <2>2. /\ Place(t, k) \in 1..(Len(t) + 1)
        /\ t[k].score > e.score  => Place(t, k) <= c
        /\ t[k].score <= e.score => Place(t, k) > c
    BY <1>0, PlacesDivide
  <2> HIDE DEF c
  <2> QED BY <2>1, <2>2, <1>0, <1>1
<1>3. Place(u, Len(t) + 1) = pos
  BY <1>1, PlacesAppended
<1>4. \A k \in 1..Len(t) : Place(u, k) = IF Place(t, k) < pos THEN Place(t, k) ELSE Place(t, k) + 1
  BY <1>0, <1>2, PlacesAppended
<1>5. \A i \in 1..HighScoreCount :
         new[i] = IF i < pos THEN list[i] ELSE IF i = pos THEN e ELSE list[i - 1]
  OBVIOUS
<1> HIDE DEF u, c
<1>6. ASSUME NEW k \in 1..Len(u), Place(u, k) <= HighScoreCount PROVE new[Place(u, k)] = u[k]
  <2>1. CASE k = Len(t) + 1
    BY <2>1, <1>0, <1>3, <1>5
  <2>2. CASE k # Len(t) + 1
    <3>1. k \in 1..Len(t)
      BY <2>2, <1>0
    <3>2. CASE Place(t, k) < pos
      <4>1. Place(u, k) = Place(t, k) /\ Place(u, k) \in 1..HighScoreCount
        BY <3>1, <3>2, <1>0, <1>2, <1>4, <1>6
      <4> QED BY <4>1, <3>1, <3>2, <1>0, <1>5 DEF Filled
    <3>3. CASE ~(Place(t, k) < pos)
      <4>1. /\ Place(u, k) = Place(t, k) + 1 /\ Place(u, k) \in 1..HighScoreCount
            /\ Place(u, k) > pos /\ Place(t, k) <= HighScoreCount /\ Place(u, k) - 1 = Place(t, k)
        BY <3>1, <3>3, <1>0, <1>2, <1>4, <1>6
      <4>2. new[Place(u, k)] = list[Place(t, k)]
        BY <4>1, <1>0, <1>5
      <4>3. list[Place(t, k)] = t[k]
        BY <3>1, <4>1 DEF Filled
      <4> QED BY <4>2, <4>3, <3>1, <1>0
    <3> QED BY <3>2, <3>3
  <2> QED BY <2>1, <2>2
<1>7. ASSUME NEW i \in 1..HighScoreCount
      PROVE  IF i <= Len(u) THEN \E k \in 1..Len(u) : Place(u, k) = i ELSE new[i] = Scores!Empty
  <2>1. CASE i < pos
    <3>1. i <= Len(t) /\ i <= Len(u)
      BY <2>1, <1>0, <1>1
    <3>2. PICK k \in 1..Len(t) : Place(t, k) = i
      BY <3>1 DEF Filled
    <3> QED BY <3>1, <3>2, <2>1, <1>0, <1>4
  <2>2. CASE i = pos
    BY <2>2, <1>0, <1>1, <1>3
  <2>3. CASE i > pos
    <3>1. i - 1 \in 1..HighScoreCount
      BY <2>3, <1>0
    <3>2. CASE i <= Len(u)
      <4>1. PICK k \in 1..Len(t) : Place(t, k) = i - 1
        BY <3>1, <3>2, <1>0 DEF Filled
      <4> QED BY <4>1, <3>2, <2>3, <1>0, <1>4
    <3>3. CASE ~(i <= Len(u))
      <4>1. list[i - 1] = Scores!Empty /\ ~(i < pos) /\ i # pos
        BY <3>1, <3>3, <2>3, <1>0 DEF Filled
      <4> QED BY <4>1, <3>3, <1>5
    <3> QED BY <3>2, <3>3
  <2> QED BY <2>1, <2>2, <2>3, <1>0
<1> QED BY <1>6, <1>7 DEF Filled, u

(* A set of numbers that is not empty has a least one.                     *)
LEMMA LeastExists ==
  ASSUME NEW S, S \subseteq Nat, S # {}
  PROVE  \E i \in S : \A j \in S : i <= j
<1>1. PICK i \in S : \A j \in S : ~ (<<j, i>> \in OpToRel(<, Nat))
  BY NatLessThanWellFounded, WFMin
<1>2. \A j \in S : ~ (j < i)
  BY <1>1 DEF OpToRel
<1> QED BY <1>2

LEMMA RankIsFirst ==
  ASSUME highScores \in Ladder, NEW s \in Int, NEW pos, pos = Scores!RankScore(s), pos # 0
  PROVE  s > 0 /\ FirstFor(highScores, pos, s)
<1> DEFINE below == {i \in 1..HighScoreCount : s >= highScores[i].score}
<1>1. /\ below # {} /\ s > 0 /\ ~(below = {} \/ s <= 0)
      /\ pos = CHOOSE i \in below : \A j \in below : i <= j
  BY DEF Scores!RankScore, Scores!Slot
<1>2. below \subseteq Nat
  BY RankingAssumption
<1>3. \E i \in below : \A j \in below : i <= j
  BY <1>1, <1>2, LeastExists
<1>4. pos \in below /\ \A j \in below : pos <= j
  BY <1>1, <1>3
<1> QED BY <1>1, <1>4 DEF FirstFor

Asked == {p \in Player : quit[p].at \in {"asked", "closed"}}

ScoresTypes ==
  /\ highScores \in Ladder /\ named \in Seq(Entry) /\ late \in BOOLEAN
  /\ quit \in [Player -> [at : {"playing", "asked", "closed", "gone"}, score : Int, pos : Nat]]
  /\ \A p \in Asked : quit[p].score > 0 /\ quit[p].pos \in 1..HighScoreCount

(* Until a slot is filled late, what is asked for and was not overtaken is *)
(* the place a score would be given now.                                   *)
ScoresInv ==
  /\ ScoresTypes
  /\ late \/ /\ Filled(highScores, named)
             /\ \A p \in Asked \ overtaken : FirstFor(highScores, quit[p].pos, quit[p].score)

LEMMA QuitKeeps ==
  ASSUME ScoresInv, NEW p \in Player, Scores!QuitPlayer(p)
  PROVE  ScoresInv'
<1>1. PICK s \in Score : quit' = [quit EXCEPT ![p] =
        [at |-> IF Scores!RankScore(s) = 0 THEN "gone" ELSE "asked", score |-> s,
         pos |-> Scores!RankScore(s)]]
  BY DEF Scores!QuitPlayer
<1> DEFINE pos == Scores!RankScore(s)
<1>2. UNCHANGED <<highScores, named, overtaken, late>> /\ s \in Int
  BY RankingAssumption DEF Scores!QuitPlayer
<1>3. pos # 0 => s > 0 /\ FirstFor(highScores, pos, s)
  BY <1>2, RankIsFirst DEF ScoresInv, ScoresTypes
<1>4. pos \in Nat
  BY <1>3, RankingAssumption DEF FirstFor
<1>5. PICK r : r = [at |-> IF pos = 0 THEN "gone" ELSE "asked", score |-> s, pos |-> pos]
  OBVIOUS
<1>6. /\ r \in [at : {"playing", "asked", "closed", "gone"}, score : Int, pos : Nat]
      /\ r.at = "asked" => r.score > 0 /\ FirstFor(highScores, r.pos, r.score)
      /\ r.at # "closed" /\ quit' = [quit EXCEPT ![p] = r]
  BY <1>1, <1>2, <1>3, <1>4, <1>5
<1> HIDE DEF pos
<1>7. ScoresTypes'
  BY <1>2, <1>6, RankingAssumption DEF ScoresInv, ScoresTypes, Asked, FirstFor
<1>8. ASSUME ~late', NEW q \in Asked' \ overtaken'
      PROVE  FirstFor(highScores', quit'[q].pos, quit'[q].score)
  <2>1. CASE q = p
    <3>1. quit'[q] = r
      BY <2>1, <1>6 DEF ScoresInv, ScoresTypes
    <3> QED BY <3>1, <1>2, <1>6, <1>8 DEF Asked
  <2>2. CASE q # p
    <3>1. quit'[q] = quit[q]
      BY <2>2, <1>6 DEF ScoresInv, ScoresTypes
    <3>2. q \in Asked \ overtaken
      BY <3>1, <1>2, <1>8 DEF Asked
    <3> QED BY <3>1, <3>2, <1>2, <1>8 DEF ScoresInv
  <2> QED BY <2>1, <2>2
<1>9. late' \/ Filled(highScores', named')
  BY <1>2 DEF ScoresInv
<1> QED BY <1>7, <1>8, <1>9 DEF ScoresInv

LEMMA NamedKeeps ==
  ASSUME ScoresInv, NEW p \in Player, Scores!RecordHighScore(p)
  PROVE  ScoresInv'
<1> DEFINE given == [who |-> p, score |-> quit[p].score]
<1>1. PICK e : e = given
  OBVIOUS
<1>2. /\ quit[p].at = "asked" /\ quit[p].score \in Int /\ p \in Asked
      /\ highScores' = Scores!Inserted(quit[p].pos, e) /\ named' = Append(named, e)
      /\ overtaken' = (overtaken \union Asked) \ {p} /\ late' = (late \/ p \in overtaken)
  BY <1>1 DEF Scores!RecordHighScore, Scores!Pending, Asked, ScoresInv, ScoresTypes
<1>3. PICK r : r = [at |-> "gone", score |-> 0, pos |-> 0]
  OBVIOUS
<1>4. quit' = [quit EXCEPT ![p] = r]
  BY <1>3 DEF Scores!RecordHighScore
<1>5. PICK pos : pos = quit[p].pos
  OBVIOUS
<1>6. e \in Entry /\ e.score > 0 /\ pos \in 1..HighScoreCount
  BY <1>1, <1>2, <1>5 DEF Entry, ScoresInv, ScoresTypes
<1>7. highScores' = [i \in 1..HighScoreCount |->
        IF i < pos THEN highScores[i] ELSE IF i = pos THEN e ELSE highScores[i - 1]]
  BY <1>2, <1>5 DEF Scores!Inserted, Scores!Slot
<1>8. Asked' = Asked \ {p}
  <2>1. DOMAIN quit = Player /\ r.at = "gone"
    BY <1>3 DEF ScoresInv, ScoresTypes
  <2> QED BY <1>4, <2>1 DEF Asked
<1>9. ScoresTypes'
  <2>1. highScores' \in Ladder
    <3>1. \A i \in 1..HighScoreCount : i > pos => i - 1 \in 1..HighScoreCount
      BY <1>6, RankingAssumption
    <3>2. \A i \in 1..HighScoreCount :
             (IF i < pos THEN highScores[i] ELSE IF i = pos THEN e ELSE highScores[i - 1]) \in Entry
      <4>1. \A i \in 1..HighScoreCount : highScores[i] \in Entry
        BY DEF ScoresInv, ScoresTypes, Ladder
      <4> TAKE i \in 1..HighScoreCount
      <4>2. i < pos \/ i = pos \/ i > pos
        BY <1>6
      <4> QED BY <3>1, <4>1, <4>2, <1>6
    <3> QED BY <3>2, <1>7 DEF Ladder
  <2>2. named' \in Seq(Entry) /\ late' \in BOOLEAN
    BY <1>2, <1>6 DEF ScoresInv, ScoresTypes
  <2>3. quit' \in [Player -> [at : {"playing", "asked", "closed", "gone"}, score : Int, pos : Nat]]
    <3>1. r \in [at : {"playing", "asked", "closed", "gone"}, score : Int, pos : Nat]
      BY <1>3
    <3> QED BY <3>1, <1>4 DEF ScoresInv, ScoresTypes
  <2>4. \A q \in Asked' : quit'[q] = quit[q]
    BY <1>4, <1>8 DEF ScoresInv, ScoresTypes, Asked
  <2> QED BY <2>1, <2>2, <2>3, <2>4, <1>8 DEF ScoresInv, ScoresTypes
<1>10. ASSUME ~late' PROVE Filled(highScores', named')
  <2>1. ~late /\ p \notin overtaken
    BY <1>2, <1>10 DEF ScoresInv, ScoresTypes
  <2>2. FirstFor(highScores, pos, e.score) /\ Filled(highScores, named)
    BY <2>1, <1>1, <1>2, <1>5 DEF ScoresInv
  <2>3. highScores \in Ladder /\ named \in Seq(Entry)
    BY DEF ScoresInv, ScoresTypes
  <2> QED BY <2>2, <2>3, <1>2, <1>6, <1>7, InsertedFills
<1>11. Asked' \ overtaken' = {}
  BY <1>2, <1>8
<1>12. late' \/ /\ Filled(highScores', named')
                /\ \A q \in Asked' \ overtaken' : FirstFor(highScores', quit'[q].pos, quit'[q].score)
  BY <1>10, <1>11
<1> QED BY <1>9, <1>12 DEF ScoresInv

LEMMA ForgetKeeps ==
  ASSUME ScoresInv, UNCHANGED <<highScores, named, late>>,
         quit' \in [Player -> [at : {"playing", "asked", "closed", "gone"}, score : Int, pos : Nat]],
         \A p \in Asked' : p \in Asked /\ quit'[p].score = quit[p].score /\ quit'[p].pos = quit[p].pos,
         Asked' \ overtaken' \subseteq Asked \ overtaken
  PROVE  ScoresInv'
<1>1. ScoresTypes'
  BY DEF ScoresInv, ScoresTypes
<1>2. late' \/ Filled(highScores', named')
  BY DEF ScoresInv
<1>3. ASSUME ~late', NEW p \in Asked' \ overtaken'
      PROVE  FirstFor(highScores', quit'[p].pos, quit'[p].score)
  <2>1. p \in Asked \ overtaken /\ quit'[p].score = quit[p].score /\ quit'[p].pos = quit[p].pos
    BY <1>3
  <2> QED BY <2>1, <1>3 DEF ScoresInv
<1> QED BY <1>1, <1>2, <1>3 DEF ScoresInv

LEMMA NextScoresInv ==
  ASSUME ScoresInv, [Scores!Next]_(Scores!vars) PROVE ScoresInv'
<1>1. CASE UNCHANGED Scores!vars
  <2>1. UNCHANGED <<highScores, named, late, quit, overtaken>> /\ Asked' = Asked
    BY <1>1 DEF Scores!vars, Asked
  <2>2. quit \in [Player -> [at : {"playing", "asked", "closed", "gone"}, score : Int, pos : Nat]]
    BY DEF ScoresInv, ScoresTypes
  <2> QED BY <2>1, <2>2, ForgetKeeps
<1>2. ASSUME NEW p \in Player, Scores!Close(p) PROVE ScoresInv'
  <2>1. /\ quit[p].at = "asked" /\ quit' = [quit EXCEPT ![p].at = "closed"]
        /\ UNCHANGED <<highScores, named, overtaken, late>>
    BY <1>2 DEF Scores!Close
  <2>2. quit' \in [Player -> [at : {"playing", "asked", "closed", "gone"}, score : Int, pos : Nat]]
    BY <2>1 DEF ScoresInv, ScoresTypes
  <2>3. \A q \in Player : quit'[q].score = quit[q].score /\ quit'[q].pos = quit[q].pos
    BY <2>1 DEF ScoresInv, ScoresTypes
  <2>4. Asked' = Asked
    BY <2>1 DEF Asked, ScoresInv, ScoresTypes
  <2> QED BY <2>1, <2>2, <2>3, <2>4, ForgetKeeps DEF Asked
<1>3. ASSUME NEW p \in Player, Scores!DiscardPendingScore(p) PROVE ScoresInv'
  <2>1. PICK r : r = [at |-> "gone", score |-> 0, pos |-> 0]
    OBVIOUS
  <2>2. quit' = [quit EXCEPT ![p] = r] /\ UNCHANGED <<highScores, named, overtaken, late>>
    BY <1>3, <2>1 DEF Scores!DiscardPendingScore
  <2>3. r \in [at : {"playing", "asked", "closed", "gone"}, score : Int, pos : Nat] /\ r.at = "gone"
    BY <2>1
  <2>4. quit' \in [Player -> [at : {"playing", "asked", "closed", "gone"}, score : Int, pos : Nat]]
    BY <2>2, <2>3 DEF ScoresInv, ScoresTypes
  <2>5. \A q \in Asked' : q \in Asked /\ quit'[q] = quit[q]
    BY <2>2, <2>3 DEF Asked, ScoresInv, ScoresTypes
  <2> QED BY <2>2, <2>4, <2>5, ForgetKeeps
<1>4. CASE Scores!Rehost
  <2>1. PICK r : r = [at |-> "gone", score |-> 0, pos |-> 0]
    OBVIOUS
  <2>2. PICK none : none = Scores!NoQuit
    OBVIOUS
  <2>3. /\ quit' = [p \in Player |-> IF quit[p].at = "playing" THEN none ELSE r]
        /\ UNCHANGED <<highScores, named, late>>
    BY <1>4, <2>1, <2>2 DEF Scores!Rehost
  <2>4. /\ r \in [at : {"playing", "asked", "closed", "gone"}, score : Int, pos : Nat] /\ r.at = "gone"
        /\ none \in [at : {"playing", "asked", "closed", "gone"}, score : Int, pos : Nat]
        /\ none.at = "playing"
    BY <2>1, <2>2 DEF Scores!NoQuit
  <2>5. quit' \in [Player -> [at : {"playing", "asked", "closed", "gone"}, score : Int, pos : Nat]]
    BY <2>3, <2>4
  <2>6. Asked' = {}
    BY <2>3, <2>4 DEF Asked
  <2> QED BY <2>3, <2>5, <2>6, ForgetKeeps
<1>5. CASE Scores!Next
  BY <1>2, <1>3, <1>4, <1>5, QuitKeeps, NamedKeeps DEF Scores!Next
<1> QED BY <1>1, <1>5

LEMMA ScoresStand == Scores!Spec => []Scores!ScoresRanked
<1>1. Scores!Init => ScoresInv
  <2> SUFFICES ASSUME Scores!Init PROVE ScoresInv
    OBVIOUS
  <2>1. PICK none : none = Scores!NoQuit
    OBVIOUS
  <2>2. /\ none \in [at : {"playing", "asked", "closed", "gone"}, score : Int, pos : Nat]
        /\ none.at = "playing"
    BY <2>1 DEF Scores!NoQuit
  <2>3. PICK empty : empty = Scores!Empty
    OBVIOUS
  <2>4. empty \in Entry
    BY <2>3 DEF Scores!Empty, Entry
  <2>5. /\ quit = [p \in Player |-> none] /\ highScores = [i \in 1..HighScoreCount |-> empty]
        /\ named = <<>> /\ late = FALSE
    BY <2>1, <2>3 DEF Scores!Init, Scores!Slot
  <2>6. Asked = {}
    BY <2>2, <2>5 DEF Asked
  <2>7. ScoresTypes
    <3>1. named \in Seq(Entry)
      BY <2>5
    <3>2. late \in BOOLEAN
      BY <2>5, Zenon
    <3> QED BY <3>1, <3>2, <2>2, <2>4, <2>5, <2>6 DEF ScoresTypes, Ladder
  <2>8. Filled(highScores, named)
    <3>1. Len(named) = 0 /\ 1..Len(named) = {} /\ \A i \in 1..HighScoreCount : ~(i <= 0)
      BY <2>5, RankingAssumption
    <3> QED BY <3>1, <2>3, <2>5 DEF Filled
  <2> QED BY <2>6, <2>7, <2>8 DEF ScoresInv
<1>2. ScoresInv => Scores!ScoresRanked
  <2> SUFFICES ASSUME ScoresInv, ~late, NEW k \in DOMAIN named, Cardinality(Scores!Before(k)) + 1 <= HighScoreCount
               PROVE  highScores[Cardinality(Scores!Before(k)) + 1] = named[k]
    BY ScoresCardinality DEF Scores!ScoresRanked
  <2>1. DOMAIN named = 1..Len(named)
    BY DEF ScoresInv, ScoresTypes
  <2>2. Scores!Before(k) = Prior(named, k)
    BY <2>1 DEF Scores!Before, Prior
  <2> QED BY <2>1, <2>2 DEF ScoresInv, Filled, Place
<1> QED BY <1>1, <1>2, NextScoresInv, PTL DEF Scores!Spec

-----------------------------------------------------------------------------
(* Challenge runs: the rows of the leaderboard and their recordings.       *)

LEMMA ChallengeCardinality == \A S : Challenge!Cardinality(S) = Cardinality(S)
BY DEF Challenge!Cardinality, Cardinality

Outcome == [account : Account \union {Guest}, ticks : Nat, score : Nat, run : Run]

(* Being ahead is a weak order.                                            *)
LEMMA NoBetter ==
  ASSUME NEW x \in Outcome, NEW y \in Outcome, NEW z \in Outcome,
         ~Challenge!Ahead(x, y), ~Challenge!Ahead(y, z)
  PROVE  ~Challenge!Ahead(x, z)
BY DEF Challenge!Ahead, Outcome

LEMMA AheadAsymmetric ==
  ASSUME NEW x \in Outcome, NEW y \in Outcome, Challenge!Ahead(x, y)
  PROVE  ~Challenge!Ahead(y, x)
BY DEF Challenge!Ahead, Outcome

(* One row for each account, best first.                                   *)
Ordered(t) ==
  /\ t \in Seq(Outcome)
  /\ \A i, j \in 1..Len(t) : i < j => t[i].account # t[j].account /\ ~Challenge!Ahead(t[j], t[i])

(* The table u has x besides the rows of t.                                *)
With(u, t, x, k) ==
  /\ u \in Seq(Outcome) /\ Len(u) = Len(t) + 1 /\ k \in 0..Len(t)
  /\ \A i \in 1..Len(u) : u[i] = IF i <= k THEN t[i] ELSE IF i = k + 1 THEN x ELSE t[i - 1]

LEMMA InsertedWith ==
  ASSUME NEW t \in Seq(Outcome), NEW x \in Outcome, NEW k \in 0..Len(t)
  PROVE  With(Challenge!InsertAt(t, k + 1, x), t, x, k)
<1> DEFINE a == SubSeq(t, 1, k)
           b == SubSeq(t, k + 1, Len(t))
<1>0. Len(t) \in Nat /\ k \in Nat /\ k <= Len(t)
  OBVIOUS
<1>1. a \in Seq(Outcome) /\ Len(a) = k /\ \A i \in 1..k : a[i] = t[i]
  BY <1>0
<1>2. b \in Seq(Outcome) /\ Len(b) = Len(t) - k /\ \A i \in 1..(Len(t) - k) : b[i] = t[k + i]
  BY <1>0
<1>3. Challenge!InsertAt(t, k + 1, x) = (a \o <<x>>) \o b
  <2>1. (k + 1) - 1 = k
    BY <1>0
  <2> QED BY <2>1, Zenon DEF Challenge!InsertAt
<1> HIDE DEF a, b
<1> DEFINE c == a \o <<x>>
<1>4. /\ c \in Seq(Outcome) /\ Len(c) = k + 1
      /\ \A i \in 1..(k + 1) : c[i] = IF i <= k THEN t[i] ELSE x
  BY <1>0, <1>1
<1> HIDE DEF c
<1> DEFINE u == c \o b
<1>5. /\ u \in Seq(Outcome) /\ Len(u) = Len(t) + 1
      /\ \A i \in 1..(Len(t) + 1) : u[i] = IF i <= k + 1 THEN c[i] ELSE b[i - (k + 1)]
  BY <1>0, <1>2, <1>4
<1> HIDE DEF u
<1>6. ASSUME NEW i \in 1..(Len(t) + 1)
      PROVE  u[i] = IF i <= k THEN t[i] ELSE IF i = k + 1 THEN x ELSE t[i - 1]
  <2>1. CASE i <= k + 1
    BY <2>1, <1>0, <1>4, <1>5
  <2>2. CASE ~(i <= k + 1)
    <3>1. i - (k + 1) \in 1..(Len(t) - k) /\ k + (i - (k + 1)) = i - 1
      BY <2>2, <1>0
    <3>2. b[i - (k + 1)] = t[k + (i - (k + 1))]
      BY <3>1, <1>2
    <3>3. u[i] = b[i - (k + 1)]
      BY <2>2, <1>5
    <3>4. ~(i <= k) /\ i # k + 1
      BY <2>2, <1>0
    <3> QED BY <3>1, <3>2, <3>3, <3>4
  <2> QED BY <2>1, <2>2
<1>7. Challenge!InsertAt(t, k + 1, x) = u
  BY <1>3 DEF u, c
<1> QED BY <1>0, <1>5, <1>6, <1>7 DEF With

(* Among sorted rows, those that are not behind x come first.              *)
LEMMA RankedWith ==
  ASSUME NEW t, Ordered(t), NEW x \in Outcome
  PROVE  \E k \in 0..Len(t) :
           /\ With(Challenge!Ranked(x, t), t, x, k)
           /\ \A i \in 1..Len(t) : i <= k <=> ~Challenge!Ahead(x, t[i])
<1> DEFINE S == {i \in DOMAIN t : ~Challenge!Ahead(x, t[i])}
           k == Cardinality(S)
<1>0. t \in Seq(Outcome) /\ Len(t) \in Nat /\ DOMAIN t = 1..Len(t)
  BY DEF Ordered
<1>1. \A i \in 1..Len(t) : t[i] \in Outcome
  BY <1>0
<1>2. ASSUME NEW i \in S, NEW j \in 1..Len(t), j < i PROVE j \in S
  <2>1. ~Challenge!Ahead(x, t[i]) /\ ~Challenge!Ahead(t[i], t[j]) /\ i \in 1..Len(t)
    BY <1>0, <1>2 DEF Ordered
  <2> QED BY <2>1, <1>0, <1>1, NoBetter
<1>3. S \subseteq 1..Len(t) /\ IsFiniteSet(S) /\ k \in 0..Len(t)
  <2>1. IsFiniteSet(1..Len(t)) /\ Cardinality(1..Len(t)) = Len(t)
    BY <1>0, FS_Interval, SMTT(20)
  <2> QED BY <2>1, <1>0, FS_Subset, FS_CardinalityType
<1>4. S \subseteq 1..k
  <2> SUFFICES ASSUME NEW i \in S PROVE i <= k
    BY <1>3
  <2>1. 1..i \subseteq S
    BY <1>2, <1>3
  <2>2. Cardinality(1..i) = i
    BY <1>3, FS_Interval, SMTT(20)
  <2> QED BY <2>1, <2>2, <1>3, FS_Subset
<1>5. S = 1..k
  <2>1. IsFiniteSet(1..k) /\ Cardinality(1..k) = k
    BY <1>3, FS_Interval, SMTT(20)
  <2> QED BY <2>1, <1>4, FS_Subset
<1>6. Challenge!Ranked(x, t) = Challenge!InsertAt(t, k + 1, x)
  BY ChallengeCardinality DEF Challenge!Ranked
<1>7. \A i \in 1..Len(t) : i <= k <=> ~Challenge!Ahead(x, t[i])
  BY <1>0, <1>3, <1>5
<1> HIDE DEF S, k
<1> QED BY <1>0, <1>3, <1>6, <1>7, InsertedWith

LEMMA SuffixIs ==
  ASSUME NEW t \in Seq(Outcome), NEW k \in 0..Len(t), NEW b, b = SubSeq(t, k + 1, Len(t))
  PROVE  b \in Seq(Outcome) /\ Len(b) = Len(t) - k /\ \A i \in 1..(Len(t) - k) : b[i] = t[k + i]
<1>1. Len(t) \in Nat /\ k \in Nat /\ k <= Len(t)
  OBVIOUS
<1> QED BY <1>1

LEMMA CutIs ==
  ASSUME NEW u \in Seq(Outcome), NEW v, v = Challenge!Cut(u)
  PROVE  /\ v \in Seq(Outcome)
         /\ Len(v) = IF Len(u) > LeaderboardMax THEN LeaderboardMax ELSE Len(u)
         /\ \A i \in 1..Len(v) : v[i] = u[i] /\ i \in 1..Len(u)
<1>1. PICK n : n = IF Len(u) > LeaderboardMax THEN LeaderboardMax ELSE Len(u)
  OBVIOUS
<1>2. n \in Nat /\ n <= Len(u) /\ Len(u) \in Nat
  BY <1>1, RankingAssumption
<1>3. v = SubSeq(u, 1, n)
  BY <1>1 DEF Challenge!Cut
<1> QED BY <1>1, <1>2, <1>3

(* The table without the row of an account.                                *)
LEMMA WithoutIs ==
  ASSUME Ordered(rows), NEW x \in Outcome, NEW w, w = Challenge!Without(x)
  PROVE  /\ Ordered(w) /\ \A i \in 1..Len(w) : w[i].account # x.account
         /\ \A i \in 1..Len(w) : \E j \in 1..Len(rows) : w[i] = rows[j]
         /\ \/ Challenge!Own(x) = {} /\ w = rows
            \/ /\ Challenge!Row(x) \in 1..Len(rows) /\ rows[Challenge!Row(x)].account = x.account
               /\ Challenge!Own(x) # {} /\ Len(w) = Len(rows) - 1
               /\ \A j \in 1..Len(rows) : j # Challenge!Row(x) => \E i \in 1..Len(w) : w[i] = rows[j]
<1>0. rows \in Seq(Outcome) /\ Len(rows) \in Nat /\ DOMAIN rows = 1..Len(rows)
  BY DEF Ordered
<1>1. CASE Challenge!Own(x) = {}
  <2>1. w = rows
    BY <1>1 DEF Challenge!Without
  <2>2. \A i \in 1..Len(rows) : rows[i].account # x.account
    BY <1>0, <1>1 DEF Challenge!Own
  <2> QED BY <2>1, <2>2, <1>1
<1>2. CASE Challenge!Own(x) # {}
  <2>1. Challenge!Own(x) \subseteq 1..Len(rows)
    BY <1>0 DEF Challenge!Own
  <2>2. \E i \in Challenge!Own(x) : \A j \in Challenge!Own(x) : i <= j
    <3>1. Challenge!Own(x) \subseteq Nat
      BY <2>1
    <3> QED BY <3>1, <1>2, LeastExists
  <2>3. Challenge!Row(x) \in Challenge!Own(x)
    BY <2>2, Zenon DEF Challenge!Row
  <2>4. PICK r : r = Challenge!Row(x)
    OBVIOUS
  <2>5. r \in 1..Len(rows) /\ rows[r].account = x.account
    BY <2>1, <2>3, <2>4 DEF Challenge!Own
  <2>6. w = SubSeq(rows, 1, r - 1) \o SubSeq(rows, r + 1, Len(rows))
    BY <1>2, <2>4 DEF Challenge!Without, Challenge!RemoveAt
  <2>7. /\ w \in Seq(Outcome) /\ Len(w) = Len(rows) - 1
        /\ \A i \in 1..Len(w) : w[i] = IF i < r THEN rows[i] ELSE rows[i + 1]
    <3> DEFINE a == SubSeq(rows, 1, r - 1)
               b == SubSeq(rows, r + 1, Len(rows))
    <3>0. r - 1 \in Nat /\ r - 1 <= Len(rows) /\ r + 1 \in Nat /\ r + 1 >= 1
      BY <1>0, <2>5
    <3>1. a \in Seq(Outcome) /\ Len(a) = r - 1 /\ \A i \in 1..(r - 1) : a[i] = rows[i]
      BY <1>0, <3>0
    <3>2. b \in Seq(Outcome) /\ Len(b) = Len(rows) - r /\ \A i \in 1..(Len(rows) - r) : b[i] = rows[r + i]
      <4>1. r \in 0..Len(rows)
        BY <2>5
      <4> HIDE DEF a
      <4> QED BY <4>1, <1>0, SuffixIs
    <3>3. w = a \o b
      BY <2>6
    <3> HIDE DEF a, b
    <3>6. Len(a) + Len(b) = Len(rows) - 1 /\ Len(a) \in Nat /\ Len(b) \in Nat
      BY <3>1, <3>2, <1>0, <2>5
    <3>4. /\ w \in Seq(Outcome) /\ Len(w) = Len(rows) - 1
          /\ \A i \in 1..Len(w) : w[i] = IF i <= r - 1 THEN a[i] ELSE b[i - (r - 1)]
      BY <3>1, <3>2, <3>3, <3>6
    <3>5. ASSUME NEW i \in 1..Len(w) PROVE w[i] = IF i < r THEN rows[i] ELSE rows[i + 1]
      <4>1. CASE i < r
        BY <4>1, <3>1, <3>4, <2>5, <1>0
      <4>2. CASE ~(i < r)
        <5>1. i - (r - 1) \in 1..(Len(rows) - r) /\ r + (i - (r - 1)) = i + 1 /\ ~(i <= r - 1)
          BY <4>2, <3>4, <2>5, <1>0
        <5>2. w[i] = b[i - (r - 1)] /\ b[i - (r - 1)] = rows[r + (i - (r - 1))]
          BY <5>1, <3>2, <3>4
        <5> QED BY <4>2, <5>1, <5>2
      <4> QED BY <4>1, <4>2
    <3> QED BY <3>4, <3>5
  <2>8. \A i \in 1..Len(w) : IF i < r THEN i \in 1..Len(rows) ELSE i + 1 \in 1..Len(rows)
    BY <2>5, <2>7, <1>0
  <2>9. \A i \in 1..Len(w) : \E j \in 1..Len(rows) : w[i] = rows[j] /\ j # r
    <3> TAKE i \in 1..Len(w)
    <3>1. CASE i < r
      BY <3>1, <2>5, <2>7, <2>8, <1>0
    <3>2. CASE ~(i < r)
      <4>1. i + 1 \in 1..Len(rows) /\ w[i] = rows[i + 1] /\ i + 1 # r
        BY <3>2, <2>5, <2>7, <2>8, <1>0
      <4> QED BY <4>1
    <3> QED BY <3>1, <3>2
  <2>10. \A j \in 1..Len(rows) : j # r => rows[j].account # x.account
    BY <2>5, <1>0 DEF Ordered
  <2>11. Ordered(w)
    <3> SUFFICES ASSUME NEW i \in 1..Len(w), NEW j \in 1..Len(w), i < j
                 PROVE  w[i].account # w[j].account /\ ~Challenge!Ahead(w[j], w[i])
      BY <2>7 DEF Ordered
    <3>1. PICK m \in 1..Len(rows) : m = IF i < r THEN i ELSE i + 1
      BY <2>8
    <3>2. PICK n \in 1..Len(rows) : n = IF j < r THEN j ELSE j + 1
      BY <2>8
    <3>3. m < n /\ w[i] = rows[m] /\ w[j] = rows[n]
      BY <3>1, <3>2, <2>5, <2>7, <1>0
    <3> QED BY <3>3 DEF Ordered
  <2>12. \A j \in 1..Len(rows) : j # r => \E i \in 1..Len(w) : w[i] = rows[j]
    <3> TAKE j \in 1..Len(rows)
    <3> HAVE j # r
    <3>1. CASE j < r
      BY <3>1, <2>5, <2>7, <1>0
    <3>2. CASE ~(j < r)
      <4>1. j - 1 \in 1..Len(w) /\ ~(j - 1 < r) /\ (j - 1) + 1 = j
        BY <3>2, <2>5, <2>7, <1>0
      <4> QED BY <4>1, <2>7
    <3> QED BY <3>1, <3>2
  <2>13. \A i \in 1..Len(w) : w[i].account # x.account
    BY <2>9, <2>10
  <2>14. \A i \in 1..Len(w) : \E j \in 1..Len(rows) : w[i] = rows[j]
    BY <2>9
  <2> QED BY <1>2, <2>4, <2>5, <2>7, <2>11, <2>12, <2>13, <2>14
<1> QED BY <1>1, <1>2

(* What PostedStands says of one posted result and one table.              *)
Stands(p, t) ==
  \/ \E i \in 1..Len(t) : t[i].account = p.account /\ ~Challenge!Ahead(p, t[i])
  \/ Len(t) = LeaderboardMax /\ \A i \in 1..Len(t) : ~Challenge!Ahead(p, t[i])

LEMMA WithOrdered ==
  ASSUME NEW t, Ordered(t), NEW x \in Outcome, \A i \in 1..Len(t) : t[i].account # x.account,
         NEW u, NEW k \in 0..Len(t), With(u, t, x, k),
         \A i \in 1..Len(t) : i <= k <=> ~Challenge!Ahead(x, t[i])
  PROVE  Ordered(u)
<1>0. t \in Seq(Outcome) /\ Len(t) \in Nat /\ u \in Seq(Outcome) /\ Len(u) = Len(t) + 1
  BY DEF Ordered, With
<1>1. \A i \in 1..Len(t) : t[i] \in Outcome
  BY <1>0
<1> SUFFICES ASSUME NEW i \in 1..Len(u), NEW j \in 1..Len(u), i < j
             PROVE  u[i].account # u[j].account /\ ~Challenge!Ahead(u[j], u[i])
  BY <1>0 DEF Ordered
<1>2. CASE j <= k
  <2>1. u[i] = t[i] /\ u[j] = t[j] /\ i \in 1..Len(t) /\ j \in 1..Len(t)
    BY <1>0, <1>2 DEF With
  <2> QED BY <2>1 DEF Ordered
<1>3. CASE j = k + 1
  <2>1. u[i] = t[i] /\ u[j] = x /\ i \in 1..Len(t) /\ i <= k
    BY <1>0, <1>3 DEF With
  <2> QED BY <2>1
<1>4. CASE j > k + 1 /\ i = k + 1
  <2>1. u[i] = x /\ u[j] = t[j - 1] /\ j - 1 \in 1..Len(t) /\ ~(j - 1 <= k)
    BY <1>0, <1>4 DEF With
  <2>2. Challenge!Ahead(x, t[j - 1])
    BY <2>1
  <2> QED BY <2>1, <2>2, <1>1, AheadAsymmetric
<1>5. CASE j > k + 1 /\ i # k + 1
  <2>1. PICK m \in 1..Len(t) : m = IF i <= k THEN i ELSE i - 1
    BY <1>0, <1>5
  <2>2. u[i] = t[m] /\ u[j] = t[j - 1] /\ j - 1 \in 1..Len(t) /\ m < j - 1
    BY <1>0, <1>5, <2>1 DEF With
  <2> QED BY <2>2 DEF Ordered
<1> QED BY <1>0, <1>2, <1>3, <1>4, <1>5

LEMMA CutOrdered ==
  ASSUME NEW u, Ordered(u), NEW v, v = Challenge!Cut(u)
  PROVE  Ordered(v) /\ Len(v) <= LeaderboardMax
<1>1. u \in Seq(Outcome) /\ Len(u) \in Nat
  BY DEF Ordered
<1>2. /\ v \in Seq(Outcome) /\ Len(v) = IF Len(u) > LeaderboardMax THEN LeaderboardMax ELSE Len(u)
      /\ \A i \in 1..Len(v) : v[i] = u[i] /\ i \in 1..Len(u)
  BY <1>1, CutIs
<1>3. Len(v) <= LeaderboardMax
  BY <1>1, <1>2, RankingAssumption
<1>4. ASSUME NEW i \in 1..Len(v), NEW j \in 1..Len(v), i < j
      PROVE  v[i].account # v[j].account /\ ~Challenge!Ahead(v[j], v[i])
  BY <1>2, <1>4 DEF Ordered
<1> QED BY <1>2, <1>3, <1>4 DEF Ordered

(* An own row stands in the table, or only better ones are left.           *)
LEMMA CutStands ==
  ASSUME NEW u, Ordered(u), NEW v, v = Challenge!Cut(u), NEW p \in Outcome,
         NEW m \in 1..Len(u), u[m].account = p.account, ~Challenge!Ahead(p, u[m])
  PROVE  Stands(p, v)
<1>1. u \in Seq(Outcome) /\ Len(u) \in Nat /\ LeaderboardMax \in Nat
  BY RankingAssumption DEF Ordered
<1>2. /\ Len(v) = IF Len(u) > LeaderboardMax THEN LeaderboardMax ELSE Len(u)
      /\ \A i \in 1..Len(v) : v[i] = u[i] /\ i \in 1..Len(u)
  BY <1>1, CutIs
<1>3. CASE m <= Len(v)
  <2>1. m \in 1..Len(v)
    BY <1>1, <1>2, <1>3
  <2> QED BY <2>1, <1>2 DEF Stands
<1>4. CASE ~(m <= Len(v))
  <2>1. Len(v) = LeaderboardMax
    BY <1>1, <1>2, <1>4
  <2>2. ASSUME NEW i \in 1..Len(v) PROVE ~Challenge!Ahead(p, v[i])
    <3>1. i \in 1..Len(u) /\ i < m /\ v[i] = u[i]
      BY <1>1, <1>2, <1>4
    <3>2. ~Challenge!Ahead(u[m], u[i]) /\ u[m] \in Outcome /\ u[i] \in Outcome
      BY <3>1, <1>1 DEF Ordered
    <3> QED BY <3>1, <3>2, NoBetter
  <2> QED BY <2>1, <2>2 DEF Stands
<1> QED BY <1>3, <1>4

(* A submitted result takes no result off the table but for better ones.   *)
LEMMA SubmittedStands ==
  ASSUME Ordered(rows), Len(rows) <= LeaderboardMax, NEW x \in Outcome,
         NEW v, v = Challenge!Submitted(x)
  PROVE  /\ Ordered(v) /\ Len(v) <= LeaderboardMax
         /\ \A i \in 1..Len(v) : v[i] = x \/ \E j \in 1..Len(rows) : v[i] = rows[j]
         /\ Stands(x, v)
         /\ \A p \in Outcome : Stands(p, rows) => Stands(p, v)
<1>0. rows \in Seq(Outcome) /\ Len(rows) \in Nat /\ DOMAIN rows = 1..Len(rows)
  BY DEF Ordered
<1>1. \A i \in 1..Len(rows) : rows[i] \in Outcome
  BY <1>0
<1>2. CASE Challenge!Own(x) # {} /\ ~Challenge!Ahead(x, rows[Challenge!Row(x)])
  <2>1. v = Challenge!Cut(rows)
    BY <1>2 DEF Challenge!Submitted
  <2>2. /\ v \in Seq(Outcome) /\ Len(v) = Len(rows)
        /\ \A i \in 1..Len(v) : v[i] = rows[i] /\ i \in 1..Len(rows)
    BY <2>1, <1>0, CutIs, RankingAssumption
  <2>3. Ordered(v) /\ Len(v) <= LeaderboardMax
    BY <2>1, CutOrdered
  <2>4. \A p : Stands(p, rows) => Stands(p, v)
    BY <2>2 DEF Stands
  <2>5. PICK w : w = Challenge!Without(x)
    OBVIOUS
  <2>6. Challenge!Row(x) \in 1..Len(rows) /\ rows[Challenge!Row(x)].account = x.account
    BY <2>5, <1>2, WithoutIs
  <2>7. Stands(x, rows)
    BY <2>6, <1>2 DEF Stands
  <2>8. \A i \in 1..Len(v) : \E j \in 1..Len(rows) : v[i] = rows[j]
    BY <2>2
  <2> QED BY <2>3, <2>4, <2>7, <2>8
<1>3. CASE ~(Challenge!Own(x) # {} /\ ~Challenge!Ahead(x, rows[Challenge!Row(x)]))
  <2>1. PICK w : w = Challenge!Without(x)
    OBVIOUS
  <2>2. PICK u : u = Challenge!Ranked(x, w)
    OBVIOUS
  <2>3. v = Challenge!Cut(u)
    BY <1>3, <2>1, <2>2 DEF Challenge!Submitted
  <2>4. /\ Ordered(w) /\ \A i \in 1..Len(w) : w[i].account # x.account
        /\ \A i \in 1..Len(w) : \E j \in 1..Len(rows) : w[i] = rows[j]
    BY <2>1, WithoutIs
  <2>5. \/ Challenge!Own(x) = {} /\ w = rows
        \/ /\ Challenge!Row(x) \in 1..Len(rows) /\ rows[Challenge!Row(x)].account = x.account
           /\ Len(w) = Len(rows) - 1 /\ Challenge!Ahead(x, rows[Challenge!Row(x)])
           /\ \A j \in 1..Len(rows) : j # Challenge!Row(x) => \E i \in 1..Len(w) : w[i] = rows[j]
    BY <2>1, <1>3, WithoutIs
  <2>6. PICK k \in 0..Len(w) : /\ With(u, w, x, k)
                               /\ \A i \in 1..Len(w) : i <= k <=> ~Challenge!Ahead(x, w[i])
    BY <2>2, <2>4, RankedWith
  <2>7. Ordered(u)
    BY <2>4, <2>6, WithOrdered
  <2>8. Ordered(v) /\ Len(v) <= LeaderboardMax
    BY <2>3, <2>7, CutOrdered
  <2>9. w \in Seq(Outcome) /\ Len(w) \in Nat /\ u \in Seq(Outcome) /\ Len(u) = Len(w) + 1
    BY <2>4, <2>6 DEF Ordered, With
  <2>10. k + 1 \in 1..Len(u) /\ u[k + 1] = x
    BY <2>6, <2>9 DEF With
  <2>11. \A i \in 1..Len(w) : \E m \in 1..Len(u) : u[m] = w[i]
    <3> TAKE i \in 1..Len(w)
    <3>1. CASE i <= k
      BY <3>1, <2>6, <2>9 DEF With
    <3>2. CASE ~(i <= k)
      <4>1. i + 1 \in 1..Len(u) /\ ~(i + 1 <= k) /\ i + 1 # k + 1 /\ (i + 1) - 1 = i
        BY <3>2, <2>6, <2>9
      <4> QED BY <4>1, <2>6 DEF With
    <3> QED BY <3>1, <3>2
  <2>12. \A m \in 1..Len(u) : m # k + 1 => \E i \in 1..Len(w) : u[m] = w[i]
    <3> TAKE m \in 1..Len(u)
    <3> HAVE m # k + 1
    <3>1. CASE m <= k
      <4>1. m \in 1..Len(w)
        BY <3>1, <2>6, <2>9
      <4> QED BY <4>1, <3>1, <2>6 DEF With
    <3>2. CASE ~(m <= k)
      <4>1. m - 1 \in 1..Len(w)
        BY <3>2, <2>6, <2>9
      <4> QED BY <4>1, <3>2, <2>6 DEF With
    <3> QED BY <3>1, <3>2
  <2>13. /\ Len(v) = IF Len(u) > LeaderboardMax THEN LeaderboardMax ELSE Len(u)
         /\ \A i \in 1..Len(v) : v[i] = u[i] /\ i \in 1..Len(u)
    BY <2>3, <2>9, CutIs
  <2>14. \A i \in 1..Len(v) : v[i] = x \/ \E j \in 1..Len(rows) : v[i] = rows[j]
    <3> TAKE i \in 1..Len(v)
    <3>1. u[i] = x \/ \E m \in 1..Len(w) : u[i] = w[m]
      BY <2>10, <2>12, <2>13
    <3> QED BY <3>1, <2>4, <2>13
  <2>15. ~Challenge!Ahead(x, x)
    BY DEF Challenge!Ahead, Outcome
  <2>16. Stands(x, v)
    BY <2>3, <2>7, <2>10, <2>15, CutStands
  <2>17. ASSUME NEW p \in Outcome, Stands(p, rows) PROVE Stands(p, v)
    <3>1. ASSUME NEW i \in 1..Len(rows), ~Challenge!Ahead(p, rows[i]),
                 ~(\E m \in 1..Len(u) : u[m] = rows[i])
          PROVE  rows[i].account = x.account /\ ~Challenge!Ahead(p, x)
      <4>1. i = Challenge!Row(x) /\ rows[i].account = x.account /\ Challenge!Ahead(x, rows[i])
        BY <3>1, <2>5, <2>11
      <4>2. ~Challenge!Ahead(rows[i], x)
        BY <4>1, <1>1, AheadAsymmetric
      <4> QED BY <4>1, <4>2, <3>1, <1>1, NoBetter
    <3>2. ASSUME NEW i \in 1..Len(rows), rows[i].account = p.account, ~Challenge!Ahead(p, rows[i])
          PROVE  Stands(p, v)
      <4>1. CASE \E m \in 1..Len(u) : u[m] = rows[i]
        BY <4>1, <3>2, <2>3, <2>7, CutStands
      <4>2. CASE ~(\E m \in 1..Len(u) : u[m] = rows[i])
        <5>1. x.account = p.account /\ ~Challenge!Ahead(p, x)
          BY <4>2, <3>1, <3>2
        <5> QED BY <5>1, <2>3, <2>7, <2>10, CutStands
      <4> QED BY <4>1, <4>2
    <3>3. ASSUME Len(rows) = LeaderboardMax, \A i \in 1..Len(rows) : ~Challenge!Ahead(p, rows[i])
          PROVE  Stands(p, v)
      <4>1. Len(v) = LeaderboardMax
        BY <3>3, <2>5, <2>9, <2>13, <1>0
      <4>2. ASSUME NEW i \in 1..Len(v), v[i] = x PROVE ~Challenge!Ahead(p, x)
        <5>1. CASE Challenge!Own(x) = {} /\ w = rows
          <6>1. Len(u) \in 1..Len(u) /\ i \in 1..Len(u) /\ u[i] = x /\ i < Len(u)
            BY <4>1, <4>2, <5>1, <3>3, <2>9, <2>13
          <6>2. ~Challenge!Ahead(u[Len(u)], x) /\ u[Len(u)] \in Outcome /\ x.account # u[Len(u)].account
            BY <6>1, <2>7, <2>9 DEF Ordered
          <6>3. ~Challenge!Ahead(p, u[Len(u)])
            <7>1. u[Len(u)] # x
              BY <6>2
            <7>2. PICK m \in 1..Len(w) : u[Len(u)] = w[m]
              BY <7>1, <6>1, <2>10, <2>12
            <7> QED BY <7>2, <5>1, <3>3
          <6> QED BY <6>2, <6>3, NoBetter
        <5>2. CASE ~(Challenge!Own(x) = {} /\ w = rows)
          <6>1. PICK j \in 1..Len(rows) : Challenge!Ahead(x, rows[j])
            BY <5>2, <2>5
          <6>2. ~Challenge!Ahead(rows[j], x)
            BY <6>1, <1>1, AheadAsymmetric
          <6> QED BY <6>2, <3>3, <1>1, NoBetter
        <5> QED BY <5>1, <5>2
      <4>3. \A i \in 1..Len(v) : ~Challenge!Ahead(p, v[i])
        BY <4>2, <2>14, <3>3
      <4> QED BY <4>1, <4>3 DEF Stands
    <3> QED BY <3>2, <3>3, <2>17 DEF Stands
  <2> QED BY <2>8, <2>14, <2>16, <2>17
<1> QED BY <1>2, <1>3

RunRecord ==
  [at : {"none", "live", "gone"}, account : Account \union {Guest},
   player : {"none", "joined", "known", "left"}, ticks : Nat,
   step : {"run", "close", "submit", "done", "lost"}, score : Nat, attached : BOOLEAN,
   open : BOOLEAN, queue : Nat, lines : Nat, lost : BOOLEAN,
   told : {"nothing", "guest", "durable", "not stored"}]

(* Until its goal a run's recorder has every tick, written or waiting, or  *)
(* knows of one that was dropped; from the close on it is complete.        *)
SoundRun(rec) ==
  /\ rec.at = "none" => rec.step = "run" /\ rec.told = "nothing"
  /\ rec.told = "durable" => rec.step = "done"
  /\ rec.player \in {"none", "joined"} => rec.step \in {"run", "lost"}
  /\ rec.step = "close" => rec.at = "live"
  /\ rec.at = "live" /\ rec.step \in {"run", "close"} =>
       rec.attached /\ (rec.lost \/ rec.lines + rec.queue = rec.ticks)
  /\ rec.step \in {"submit", "done"} =>
       /\ ~rec.attached /\ ~rec.open /\ rec.queue = 0
       /\ rec.lost \/ rec.lines = rec.ticks

RunsSound == run \in [Run -> RunRecord] /\ \A r \in Run : SoundRun(run[r])

(* What was done with stays as it was.                                     *)
Lasts(rec, new) ==
  rec.step = "done" =>
    /\ new.step = "done" /\ new.account = rec.account /\ new.ticks = rec.ticks
    /\ new.score = rec.score /\ new.told = rec.told

(* What a step makes of a run, as far as the leaderboard goes: it submits  *)
(* nothing.                                                                *)
Moves(rec, new) ==
  new \in RunRecord /\ SoundRun(new) /\ Lasts(rec, new) /\ (new.told = "durable" => rec.told = "durable")

LEMMA RunFields ==
  ASSUME NEW rec \in RunRecord
  PROVE  /\ rec.ticks \in Nat /\ rec.queue \in Nat /\ rec.lines \in Nat /\ rec.score \in Nat
         /\ rec.account \in Account \union {Guest}
         /\ rec.attached \in BOOLEAN /\ rec.open \in BOOLEAN /\ rec.lost \in BOOLEAN
BY DEF RunRecord

LEMMA FlushIs ==
  ASSUME NEW rec \in RunRecord, SoundRun(rec)
  PROVE  \E q \in Nat, l \in BOOLEAN :
           /\ Challenge!Flush(rec) = [rec EXCEPT !.queue = q, !.lost = l]
           /\ rec.step \in {"submit", "done"} => q = rec.queue /\ l = rec.lost
           /\ rec.lost => l
           /\ rec.attached => l \/ q = rec.queue + 1
<1>1. CASE ~rec.attached
  <2>1. Challenge!Flush(rec) = rec /\ [rec EXCEPT !.queue = rec.queue, !.lost = rec.lost] = rec
    BY <1>1 DEF Challenge!Flush, RunRecord
  <2>2. rec.queue \in Nat /\ rec.lost \in BOOLEAN
    BY DEF RunRecord
  <2> QED BY <1>1, <2>1, <2>2
<1>2. CASE rec.attached /\ rec.queue < ChannelCap
  <2>1. Challenge!Flush(rec) = [rec EXCEPT !.queue = rec.queue + 1, !.lost = rec.lost]
    BY <1>2 DEF Challenge!Flush, RunRecord
  <2>2. rec.queue + 1 \in Nat /\ rec.lost \in BOOLEAN /\ rec.step \notin {"submit", "done"}
    BY <1>2, RunFields DEF SoundRun
  <2> QED BY <1>2, <2>1, <2>2
<1>3. CASE rec.attached /\ ~(rec.queue < ChannelCap)
  <2>1. Challenge!Flush(rec) = [rec EXCEPT !.queue = rec.queue, !.lost = TRUE]
    BY <1>3 DEF Challenge!Flush, RunRecord
  <2>2. rec.queue \in Nat /\ rec.step \notin {"submit", "done"}
    BY <1>3 DEF RunRecord, SoundRun
  <2> QED BY <1>3, <2>1, <2>2
<1> QED BY <1>1, <1>2, <1>3

LEMMA DrainedIs ==
  ASSUME NEW rec \in RunRecord, SoundRun(rec), NEW new, new = Challenge!Drained(rec)
  PROVE  /\ new \in RunRecord
         /\ new.at = rec.at /\ new.account = rec.account /\ new.player = rec.player
         /\ new.ticks = rec.ticks /\ new.step = rec.step /\ new.score = rec.score
         /\ new.lost = rec.lost /\ new.told = rec.told /\ ~new.attached /\ ~new.open
         /\ new.queue = 0 /\ new.lines = rec.lines + rec.queue
<1>1. rec.lines + rec.queue \in Nat
  BY RunFields
<1> QED BY <1>1 DEF Challenge!Drained, RunRecord

Cites(t) ==
  \A i \in 1..Len(t) : run[t[i].run].step = "done" /\ run[t[i].run].ticks = t[i].ticks

(* Both tables are in order and made of finished runs, and what was told   *)
(* to be durable stands in both.                                           *)
ChallengeInv ==
  /\ RunsSound
  /\ Ordered(rows) /\ Len(rows) <= LeaderboardMax /\ Cites(rows)
  /\ Ordered(file) /\ Len(file) <= LeaderboardMax /\ Cites(file)
  /\ \A r \in Run : run[r].told = "durable" =>
       Stands(Challenge!Result(r), rows) /\ Stands(Challenge!Result(r), file)

LEMMA ResultIs ==
  ASSUME NEW r \in Run, RunsSound
  PROVE  Challenge!Result(r) \in Outcome
BY RunFields DEF Challenge!Result, Outcome, RunsSound

LEMMA QuietRuns ==
  ASSUME ChallengeInv, run' \in [Run -> RunRecord], \A r \in Run : Moves(run[r], run'[r]),
         rows' \in {rows, file}, file' = file
  PROVE  ChallengeInv'
<1>1. RunsSound'
  BY DEF RunsSound, Moves
<1>2. /\ Ordered(rows') /\ Len(rows') <= LeaderboardMax /\ Cites(rows)' /\ Cites(file)'
      /\ Ordered(file') /\ Len(file') <= LeaderboardMax
  <2>1. ASSUME NEW t, Ordered(t), Cites(t), NEW i \in 1..Len(t)
        PROVE  run'[t[i].run].step = "done" /\ run'[t[i].run].ticks = t[i].ticks
    <3>1. t[i] \in Outcome
      BY <2>1 DEF Ordered
    <3>2. t[i].run \in Run
      BY <3>1 DEF Outcome
    <3> QED BY <2>1, <3>2 DEF Cites, Moves, Lasts
  <2>2. Ordered(rows') /\ Len(rows') <= LeaderboardMax /\ Cites(rows)'
    BY <2>1 DEF ChallengeInv, Cites
  <2>3. Ordered(file') /\ Len(file') <= LeaderboardMax /\ Cites(file)'
    BY <2>1 DEF ChallengeInv, Cites
  <2> QED BY <2>2, <2>3
<1>3. ASSUME NEW r \in Run, run'[r].told = "durable"
      PROVE  Stands(Challenge!Result(r)', rows') /\ Stands(Challenge!Result(r)', file')
  <2>1. run[r].told = "durable" /\ Lasts(run[r], run'[r]) /\ SoundRun(run[r])
    BY <1>3 DEF Moves, ChallengeInv, RunsSound
  <2>2. Challenge!Result(r)' = Challenge!Result(r)
    BY <2>1 DEF Lasts, SoundRun, Challenge!Result
  <2>3. Stands(Challenge!Result(r), rows) /\ Stands(Challenge!Result(r), file)
    BY <2>1 DEF ChallengeInv
  <2> QED BY <2>2, <2>3
<1> QED BY <1>1, <1>2, <1>3 DEF ChallengeInv

LEMMA OneMoves ==
  ASSUME ChallengeInv, NEW r \in Run, NEW new, Moves(run[r], new), run' = [run EXCEPT ![r] = new],
         UNCHANGED <<rows, file>>
  PROVE  ChallengeInv'
<1>1. run \in [Run -> RunRecord] /\ new \in RunRecord /\ \A q \in Run : SoundRun(run[q])
  BY DEF ChallengeInv, RunsSound, Moves
<1>2. run' \in [Run -> RunRecord] /\ run'[r] = new /\ \A q \in Run : q # r => run'[q] = run[q]
  BY <1>1
<1>3. \A q \in Run : Moves(run[q], run[q])
  BY <1>1 DEF Moves, Lasts
<1> QED BY <1>2, <1>3, QuietRuns

LEMMA RunStepKeeps ==
  ASSUME ChallengeInv, NEW r \in Run,
         \/ \E a \in Account : Challenge!StartChallengeRun(r, a)
         \/ Challenge!Join(r) \/ Challenge!SetPlayerID(r) \/ Challenge!Leave(r) \/ Challenge!Evict(r)
         \/ Challenge!Tick(r) \/ Challenge!WriteLoop(r) \/ Challenge!FinishClose(r)
  PROVE  ChallengeInv'
<1> DEFINE rec == run[r]
<1>0. rec \in RunRecord /\ SoundRun(rec) /\ (rec.at = "none" => rec.step = "run" /\ rec.told = "nothing")
  BY DEF ChallengeInv, RunsSound, SoundRun
<1>1. SUFFICES \E new : Moves(rec, new) /\ run' = [run EXCEPT ![r] = new] /\ UNCHANGED <<rows, file>>
  BY OneMoves
<1>2. ASSUME NEW a \in Account, Challenge!StartChallengeRun(r, a)
      PROVE  \E new : Moves(rec, new) /\ run' = [run EXCEPT ![r] = new] /\ UNCHANGED <<rows, file>>
  <2>1. PICK none : none = Challenge!NoRun
    OBVIOUS
  <2>2. none \in RunRecord
    BY <2>1 DEF Challenge!NoRun, RunRecord
  <2>3. rec.at = "none" /\ UNCHANGED <<rows, file>>
    BY <1>2 DEF Challenge!StartChallengeRun
  <2>4. CASE run' = [run EXCEPT ![r] = Challenge!Hosted(a)]
    <3>1. Moves(rec, Challenge!Hosted(a))
      <4>1. PICK new : new = Challenge!Hosted(a)
        OBVIOUS
      <4>2. new = [none EXCEPT !.at = "live", !.account = a, !.attached = TRUE, !.open = TRUE]
        BY <2>1, <4>1 DEF Challenge!Hosted
      <4>4. new \in RunRecord
        BY <2>2, <4>2 DEF RunRecord
      <4>5. /\ none.step = "run" /\ none.told = "nothing" /\ none.lines = 0 /\ none.queue = 0
            /\ none.ticks = 0
        BY <2>1 DEF Challenge!NoRun
      <4>6. /\ new.at = "live" /\ new.attached /\ new.step = none.step /\ new.told = none.told
            /\ new.lines = none.lines /\ new.queue = none.queue /\ new.ticks = none.ticks
        BY <2>2, <4>2 DEF RunRecord
      <4>3. /\ new \in RunRecord /\ new.at = "live" /\ new.step = "run" /\ new.attached
            /\ new.told = "nothing" /\ new.lines + new.queue = new.ticks
        BY <4>4, <4>5, <4>6
      <4> QED BY <4>1, <4>3, <1>0, <2>3 DEF Moves, SoundRun, Lasts
    <3> QED BY <3>1, <2>3, <2>4
  <2>5. CASE run' = [run EXCEPT ![r] = [Challenge!NoRun EXCEPT !.at = "gone"]]
    <3>1. PICK new : new = [none EXCEPT !.at = "gone"]
      OBVIOUS
    <3>2. new \in RunRecord /\ new.at = "gone" /\ new.step = "run" /\ new.told = "nothing"
      BY <2>1, <2>2, <3>1 DEF Challenge!NoRun, RunRecord
    <3>3. Moves(rec, new)
      BY <3>2, <1>0, <2>3 DEF Moves, SoundRun, Lasts
    <3> QED BY <3>1, <3>3, <2>1, <2>3, <2>5
  <2> QED BY <1>2, <2>4, <2>5 DEF Challenge!StartChallengeRun, Challenge!Set
<1>3. PICK dry : dry = Challenge!Drained(rec)
  OBVIOUS
<1>4. /\ dry \in RunRecord
      /\ dry.at = rec.at /\ dry.account = rec.account /\ dry.player = rec.player
      /\ dry.ticks = rec.ticks /\ dry.step = rec.step /\ dry.score = rec.score
      /\ dry.lost = rec.lost /\ dry.told = rec.told /\ ~dry.attached /\ ~dry.open
      /\ dry.queue = 0 /\ dry.lines = rec.lines + rec.queue
  BY <1>0, <1>3, DrainedIs
<1>5. PICK gone : gone = [dry EXCEPT !.at = "gone"]
  OBVIOUS
<1>6. rec.step # "close" => Moves(rec, gone)
  <2>1. /\ gone \in RunRecord /\ gone.at = "gone" /\ gone.account = rec.account
        /\ gone.player = rec.player /\ gone.ticks = rec.ticks /\ gone.step = rec.step
        /\ gone.score = rec.score /\ gone.lost = rec.lost /\ gone.told = rec.told
        /\ ~gone.attached /\ ~gone.open /\ gone.queue = 0 /\ gone.lines = rec.lines + rec.queue
    BY <1>4, <1>5 DEF RunRecord
  <2>2. rec.step \in {"submit", "done"} => gone.lines = rec.lines
    BY <2>1, <1>0, RunFields DEF SoundRun
  <2> QED BY <2>1, <2>2, <1>0 DEF Moves, SoundRun, Lasts
<1>7. CASE Challenge!Join(r)
  <2>1. rec.player = "none" /\ UNCHANGED <<rows, file>> /\ rec.step # "close" /\ rec.step \notin {"submit", "done"}
    BY <1>0, <1>7 DEF Challenge!Join, SoundRun
  <2>2. CASE run' = [run EXCEPT ![r] = [rec EXCEPT !.player = "joined"]]
    <3>1. PICK new : new = [rec EXCEPT !.player = "joined"]
      OBVIOUS
    <3>2. /\ new \in RunRecord /\ new.player = "joined" /\ new.at = rec.at /\ new.account = rec.account
          /\ new.ticks = rec.ticks /\ new.step = rec.step /\ new.score = rec.score
          /\ new.lost = rec.lost /\ new.told = rec.told /\ new.attached = rec.attached
          /\ new.open = rec.open /\ new.queue = rec.queue /\ new.lines = rec.lines
      BY <1>0, <3>1 DEF RunRecord
    <3>3. Moves(rec, new)
      BY <3>2, <2>1, <1>0 DEF Moves, SoundRun, Lasts
    <3> QED BY <3>1, <3>3, <2>1, <2>2
  <2>3. CASE run' = [run EXCEPT ![r] = [Challenge!Drained(rec) EXCEPT !.at = "gone"]]
    BY <2>1, <2>3, <1>3, <1>5, <1>6
  <2> QED BY <1>7, <2>2, <2>3 DEF Challenge!Join, Challenge!Set
<1>8. CASE Challenge!Evict(r)
  BY <1>3, <1>5, <1>6, <1>8 DEF Challenge!Evict, Challenge!Set
<1>9. ASSUME NEW s \in {"known", "left"}, run' = [run EXCEPT ![r] = [rec EXCEPT !.player = s]],
             UNCHANGED <<rows, file>>
      PROVE  \E new : Moves(rec, new) /\ run' = [run EXCEPT ![r] = new] /\ UNCHANGED <<rows, file>>
  <2>1. PICK new : new = [rec EXCEPT !.player = s]
    OBVIOUS
  <2>2. /\ new \in RunRecord /\ new.player = s /\ new.at = rec.at /\ new.account = rec.account
        /\ new.ticks = rec.ticks /\ new.step = rec.step /\ new.score = rec.score
        /\ new.lost = rec.lost /\ new.told = rec.told /\ new.attached = rec.attached
        /\ new.open = rec.open /\ new.queue = rec.queue /\ new.lines = rec.lines
    BY <1>0, <2>1 DEF RunRecord
  <2>3. Moves(rec, new)
    BY <2>2, <1>0 DEF Moves, SoundRun, Lasts
  <2> QED BY <2>1, <2>3, <1>9
<1>10. CASE Challenge!SetPlayerID(r) \/ Challenge!Leave(r)
  BY <1>9, <1>10 DEF Challenge!SetPlayerID, Challenge!Leave, Challenge!Set
<1>11. CASE Challenge!WriteLoop(r)
  <2>1. PICK new : new = [rec EXCEPT !.queue = rec.queue - 1, !.lines = rec.lines + 1]
    OBVIOUS
  <2>2. rec.queue > 0 /\ run' = [run EXCEPT ![r] = new] /\ UNCHANGED <<rows, file>>
    BY <1>11, <2>1 DEF Challenge!WriteLoop, Challenge!Set
  <2>3. /\ rec.queue - 1 \in Nat /\ rec.lines + 1 \in Nat
        /\ (rec.lines + 1) + (rec.queue - 1) = rec.lines + rec.queue
    BY <2>2, <1>0, RunFields
  <2>4. /\ new \in RunRecord /\ new.player = rec.player /\ new.at = rec.at /\ new.account = rec.account
        /\ new.ticks = rec.ticks /\ new.step = rec.step /\ new.score = rec.score
        /\ new.lost = rec.lost /\ new.told = rec.told /\ new.attached = rec.attached
        /\ new.open = rec.open /\ new.queue = rec.queue - 1 /\ new.lines = rec.lines + 1
    BY <1>0, <2>1, <2>3 DEF RunRecord
  <2>5. rec.step \notin {"submit", "done"}
    BY <1>0, <2>2 DEF SoundRun
  <2>6. Moves(rec, new)
    BY <2>3, <2>4, <2>5, <1>0 DEF Moves, SoundRun, Lasts
  <2> QED BY <2>2, <2>6
<1>12. CASE Challenge!FinishClose(r)
  <2>1. PICK s : s = IF rec.account = Guest THEN "done" ELSE "submit"
    OBVIOUS
  <2>2. PICK t : t = IF rec.account = Guest THEN "guest" ELSE rec.told
    OBVIOUS
  <2>3. PICK new : new = [dry EXCEPT !.step = s, !.told = t]
    OBVIOUS
  <2>4. rec.step = "close" /\ run' = [run EXCEPT ![r] = new] /\ UNCHANGED <<rows, file>>
    <3>1. new = [dry EXCEPT !.step = IF rec.account = Guest THEN "done" ELSE "submit",
                            !.told = IF rec.account = Guest THEN "guest" ELSE dry.told]
      BY <2>1, <2>2, <2>3, <1>4
    <3> QED BY <3>1, <1>3, <1>12 DEF Challenge!FinishClose, Challenge!Set
  <2>5. s \in {"submit", "done"} /\ t \in {"guest", rec.told} /\ t \in {"nothing", "guest", "durable", "not stored"}
    BY <1>0, <2>1, <2>2 DEF RunRecord
  <2>6. /\ new \in RunRecord /\ new.player = rec.player /\ new.at = rec.at
        /\ new.ticks = rec.ticks /\ new.step = s /\ new.told = t
        /\ new.lost = rec.lost /\ ~new.attached /\ ~new.open
        /\ new.queue = 0 /\ new.lines = rec.lines + rec.queue
    BY <1>4, <2>3, <2>5 DEF RunRecord
  <2>7. rec.at = "live" /\ rec.told # "durable" /\ (rec.lost \/ rec.lines + rec.queue = rec.ticks)
        /\ rec.player \notin {"none", "joined"}
    BY <1>0, <2>4 DEF SoundRun
  <2>8. Moves(rec, new)
    BY <2>4, <2>5, <2>6, <2>7 DEF Moves, SoundRun, Lasts
  <2> QED BY <2>4, <2>8
<1>13. CASE Challenge!Tick(r)
  <2>1. PICK q \in Nat, l \in BOOLEAN :
          /\ Challenge!Flush(rec) = [rec EXCEPT !.queue = q, !.lost = l]
          /\ rec.step \in {"submit", "done"} => q = rec.queue /\ l = rec.lost
          /\ rec.lost => l
          /\ rec.attached => l \/ q = rec.queue + 1
    BY <1>0, FlushIs
  <2>2. PICK n : n = IF rec.step = "run" THEN rec.ticks + 1 ELSE rec.ticks
    OBVIOUS
  <2>3. n \in Nat
    BY <2>2, <1>0, RunFields
  <2>4. PICK new : new = [Challenge!Flush(rec) EXCEPT !.ticks = IF rec.step = "run" THEN @ + 1 ELSE @]
    OBVIOUS
  <2>5. new = [rec EXCEPT !.queue = q, !.lost = l, !.ticks = n]
    BY <1>0, <2>1, <2>2, <2>4 DEF RunRecord
  <2>6. /\ new \in RunRecord /\ new.player = rec.player /\ new.at = rec.at /\ new.account = rec.account
        /\ new.ticks = n /\ new.step = rec.step /\ new.score = rec.score
        /\ new.lost = l /\ new.told = rec.told /\ new.attached = rec.attached
        /\ new.open = rec.open /\ new.queue = q /\ new.lines = rec.lines
    BY <1>0, <2>1, <2>3, <2>5 DEF RunRecord
  <2>7. rec.at = "live" /\ rec.step \in {"run", "done"} /\ UNCHANGED <<rows, file>>
    BY <1>13 DEF Challenge!Tick
  <2>8. rec.step = "run" => rec.attached /\ (l \/ rec.lines + q = n)
    BY <1>0, <2>1, <2>2, <2>7, RunFields DEF SoundRun
  <2>9. rec.step = "done" => q = 0 /\ n = rec.ticks /\ l = rec.lost
    BY <1>0, <2>1, <2>2 DEF SoundRun
  <2>10. CASE run' = [run EXCEPT ![r] = new]
    <3>1. Moves(rec, new)
      BY <2>6, <2>7, <2>8, <2>9, <1>0 DEF Moves, SoundRun, Lasts
    <3> QED BY <3>1, <2>7, <2>10
  <2>11. ASSUME rec.player = "known", rec.step = "run", NEW s \in RunScore,
                run' = [run EXCEPT ![r] = [new EXCEPT !.step = "close", !.score = s]]
         PROVE  \E x : Moves(rec, x) /\ run' = [run EXCEPT ![r] = x] /\ UNCHANGED <<rows, file>>
    <3>1. PICK met : met = [new EXCEPT !.step = "close", !.score = s]
      OBVIOUS
    <3>2. s \in Nat
      BY RankingAssumption
    <3>3. /\ met \in RunRecord /\ met.player = "known" /\ met.at = "live" /\ met.ticks = n
          /\ met.step = "close" /\ met.lost = l /\ met.told = rec.told
          /\ met.attached = rec.attached /\ met.queue = q /\ met.lines = rec.lines
      BY <2>6, <2>7, <2>11, <3>1, <3>2 DEF RunRecord
    <3>4. Moves(rec, met)
      BY <2>8, <2>11, <3>3, <1>0 DEF Moves, SoundRun, Lasts
    <3> QED BY <3>1, <3>4, <2>7, <2>11
  <2>12. \/ run' = [run EXCEPT ![r] = new]
         \/ /\ new.player = "known" /\ new.step = "run"
            /\ \E s \in RunScore : run' = [run EXCEPT ![r] = [new EXCEPT !.step = "close", !.score = s]]
    BY <1>13, <2>4 DEF Challenge!Tick, Challenge!Set
  <2> QED BY <2>6, <2>10, <2>11, <2>12
<1> QED BY <1>1, <1>2, <1>7, <1>8, <1>10, <1>11, <1>12, <1>13

LEMMA SubmitKeeps ==
  ASSUME ChallengeInv, NEW r \in Run, Challenge!Submit(r)
  PROVE  ChallengeInv'
<1>0. /\ run[r] \in RunRecord /\ SoundRun(run[r]) /\ run[r].step = "submit"
      /\ \A q \in Run : run[q] \in RunRecord /\ SoundRun(run[q])
  BY DEF ChallengeInv, RunsSound, Challenge!Submit
<1>1. PICK x : x = Challenge!Result(r)
  OBVIOUS
<1>2. /\ x \in Outcome /\ x.account = run[r].account /\ x.ticks = run[r].ticks
      /\ x.score = run[r].score /\ x.run = r
  BY <1>1, ResultIs DEF ChallengeInv, Challenge!Result
<1>3. rows' = Challenge!Submitted(x)
  BY <1>1 DEF Challenge!Submit
<1>4. PICK t : /\ t \in {"durable", "not stored"} /\ run' = [run EXCEPT ![r] = [run[r] EXCEPT !.step = "done", !.told = t]]
               /\ t = "durable" => file' = rows'
               /\ t # "durable" => file' = file
  BY DEF Challenge!Submit, Challenge!Set
<1>5. PICK new : new = [run[r] EXCEPT !.step = "done", !.told = t]
  OBVIOUS
<1>6. /\ new \in RunRecord /\ new.step = "done" /\ new.told = t /\ new.at = run[r].at
      /\ new.player = run[r].player
      /\ new.account = run[r].account /\ new.ticks = run[r].ticks /\ new.score = run[r].score
      /\ new.attached = run[r].attached /\ new.open = run[r].open /\ new.queue = run[r].queue
      /\ new.lines = run[r].lines /\ new.lost = run[r].lost
  BY <1>0, <1>4, <1>5 DEF RunRecord
<1>7. SoundRun(new)
  BY <1>0, <1>6 DEF SoundRun
<1>8. /\ run' \in [Run -> RunRecord] /\ run'[r] = new /\ \A q \in Run : q # r => run'[q] = run[q]
  BY <1>4, <1>5, <1>6 DEF ChallengeInv, RunsSound
<1>9. RunsSound'
  <2>1. \A q \in Run : SoundRun(run'[q])
    BY <1>0, <1>7, <1>8
  <2> QED BY <1>8, <2>1 DEF RunsSound
<1>10. /\ Ordered(rows') /\ Len(rows') <= LeaderboardMax
       /\ \A i \in 1..Len(rows') : rows'[i] = x \/ \E j \in 1..Len(rows) : rows'[i] = rows[j]
       /\ Stands(x, rows')
       /\ \A p \in Outcome : Stands(p, rows) => Stands(p, rows')
  BY <1>2, <1>3, SubmittedStands DEF ChallengeInv
<1>11. ASSUME NEW u, Ordered(u), Cites(u), NEW i \in 1..Len(u)
       PROVE  run'[u[i].run].step = "done" /\ run'[u[i].run].ticks = u[i].ticks
  <2>1. u[i] \in Outcome
    BY <1>11 DEF Ordered
  <2>2. u[i].run \in Run /\ run[u[i].run].step = "done" /\ run[u[i].run].ticks = u[i].ticks
    BY <2>1, <1>11 DEF Outcome, Cites
  <2> QED BY <2>2, <1>0, <1>8
<1>12. Cites(rows)'
  <2> SUFFICES ASSUME NEW i \in 1..Len(rows')
               PROVE  run'[rows'[i].run].step = "done" /\ run'[rows'[i].run].ticks = rows'[i].ticks
    BY DEF Cites
  <2>1. CASE rows'[i] = x
    BY <2>1, <1>2, <1>6, <1>8
  <2>2. CASE \E j \in 1..Len(rows) : rows'[i] = rows[j]
    BY <2>2, <1>11 DEF ChallengeInv
  <2> QED BY <2>1, <2>2, <1>10
<1>13. Ordered(file') /\ Len(file') <= LeaderboardMax /\ Cites(file)'
  <2>1. CASE t = "durable"
    BY <2>1, <1>4, <1>10, <1>12 DEF Cites
  <2>2. CASE t # "durable"
    <3>1. file' = file /\ Ordered(file) /\ Len(file) <= LeaderboardMax /\ Cites(file)
      BY <2>2, <1>4 DEF ChallengeInv
    <3>2. \A i \in 1..Len(file) :
            run'[file[i].run].step = "done" /\ run'[file[i].run].ticks = file[i].ticks
      BY <3>1, <1>11
    <3> QED BY <3>1, <3>2 DEF Cites
  <2> QED BY <2>1, <2>2
<1>14. ASSUME NEW q \in Run, run'[q].told = "durable"
       PROVE  Stands(Challenge!Result(q)', rows') /\ Stands(Challenge!Result(q)', file')
  <2>1. CASE q = r
    <3>1. Challenge!Result(q)' = x
      BY <2>1, <1>1, <1>6, <1>8 DEF Challenge!Result
    <3>2. file' = rows'
      BY <2>1, <1>4, <1>6, <1>8, <1>14
    <3> QED BY <3>1, <3>2, <1>10
  <2>2. CASE q # r
    <3>1. run'[q] = run[q] /\ run[q].told = "durable"
      BY <2>2, <1>8, <1>14
    <3>2. PICK p : p = Challenge!Result(q)
      OBVIOUS
    <3>3. Challenge!Result(q)' = p
      BY <3>1, <3>2 DEF Challenge!Result
    <3>4. p \in Outcome /\ Stands(p, rows) /\ Stands(p, file)
      BY <3>1, <3>2, ResultIs DEF ChallengeInv
    <3> QED BY <3>3, <3>4, <1>4, <1>10
  <2> QED BY <2>1, <2>2
<1> QED BY <1>9, <1>10, <1>12, <1>13, <1>14 DEF ChallengeInv

LEMMA CrashKeeps ==
  ASSUME ChallengeInv, Challenge!Restart
  PROVE  ChallengeInv'
<1>1. PICK none : none = Challenge!NoRun
  OBVIOUS
<1>2. none \in RunRecord
  BY <1>1 DEF Challenge!NoRun, RunRecord
<1>3. /\ none.at = "none" /\ none.step = "run" /\ none.told = "nothing"
  BY <1>1 DEF Challenge!NoRun
<1>4. rows' = file /\ file' = file
  BY DEF Challenge!Restart
<1>5. ASSUME NEW r \in Run PROVE run'[r] \in RunRecord /\ Moves(run[r], run'[r])
  <2>0. run[r] \in RunRecord /\ SoundRun(run[r])
    BY DEF ChallengeInv, RunsSound
  <2>1. CASE run[r].at = "none"
    <3>1. run'[r] = none
      BY <1>1, <2>1 DEF Challenge!Restart
    <3>2. run[r].step = "run"
      BY <2>0, <2>1 DEF SoundRun
    <3> QED BY <3>1, <3>2, <1>2, <1>3 DEF Moves, SoundRun, Lasts
  <2>2. CASE run[r].at # "none"
    <3>1. PICK s : s = IF run[r].step = "done" THEN "done" ELSE "lost"
      OBVIOUS
    <3>2. PICK new : new = [run[r] EXCEPT !.at = "gone", !.attached = FALSE, !.queue = 0, !.step = s]
      OBVIOUS
    <3>3. run'[r] = new
      BY <2>0, <2>2, <3>1, <3>2 DEF Challenge!Restart, RunRecord
    <3>4. s \in {"done", "lost"}
      BY <3>1
    <3>5. /\ new \in RunRecord /\ new.at = "gone" /\ new.step = s /\ new.told = run[r].told
          /\ new.player = run[r].player /\ new.account = run[r].account /\ new.ticks = run[r].ticks
          /\ new.score = run[r].score /\ ~new.attached /\ new.open = run[r].open
          /\ new.queue = 0 /\ new.lines = run[r].lines /\ new.lost = run[r].lost
      BY <2>0, <3>2, <3>4 DEF RunRecord
    <3>6. Moves(run[r], new)
      BY <2>0, <3>1, <3>5 DEF Moves, SoundRun, Lasts
    <3> QED BY <3>3, <3>5, <3>6
  <2> QED BY <2>1, <2>2
<1>6. run' \in [Run -> RunRecord]
  BY <1>5 DEF Challenge!Restart
<1> QED BY <1>4, <1>5, <1>6, QuietRuns

LEMMA RunsStand == Challenge!Spec => []Challenge!RowsStand
<1>1. Challenge!Init => ChallengeInv
  <2> SUFFICES ASSUME Challenge!Init PROVE ChallengeInv
    OBVIOUS
  <2>1. PICK none : none = Challenge!NoRun
    OBVIOUS
  <2>2. none \in RunRecord
    BY <2>1 DEF Challenge!NoRun, RunRecord
  <2>3. none.at = "none" /\ none.step = "run" /\ none.told = "nothing"
    BY <2>1 DEF Challenge!NoRun
  <2>4. run = [r \in Run |-> none] /\ rows = <<>> /\ file = <<>>
    BY <2>1 DEF Challenge!Init
  <2>5. RunsSound /\ \A r \in Run : run[r].told # "durable"
    BY <2>2, <2>3, <2>4 DEF RunsSound, SoundRun
  <2>6. \A t : t = <<>> => Ordered(t) /\ Len(t) <= LeaderboardMax /\ 1..Len(t) = {}
    BY RankingAssumption DEF Ordered
  <2> QED BY <2>4, <2>5, <2>6 DEF ChallengeInv, Cites
<1>2. ChallengeInv /\ [Challenge!Next]_(Challenge!vars) => ChallengeInv'
  <2> SUFFICES ASSUME ChallengeInv, [Challenge!Next]_(Challenge!vars) PROVE ChallengeInv'
    OBVIOUS
  <2>1. CASE UNCHANGED Challenge!vars
    <3>1. UNCHANGED <<run, rows, file>>
      BY <2>1 DEF Challenge!vars
    <3>2. run' \in [Run -> RunRecord] /\ \A r \in Run : Moves(run[r], run'[r])
      BY <3>1 DEF ChallengeInv, RunsSound, Moves, Lasts
    <3> QED BY <3>1, <3>2, QuietRuns
  <2>2. CASE Challenge!Next
    BY <2>2, RunStepKeeps, SubmitKeeps, CrashKeeps DEF Challenge!Next
  <2> QED BY <2>1, <2>2
<1>3. ChallengeInv => Challenge!RowsStand
  <2> SUFFICES ASSUME ChallengeInv PROVE Challenge!RowsStand
    OBVIOUS
  <2>1. rows \in Seq(Outcome) /\ DOMAIN rows = 1..Len(rows)
    BY DEF ChallengeInv, Ordered
  <2>2. ASSUME NEW p \in Challenge!Posted
        PROVE  \/ \E i \in DOMAIN rows : rows[i].account = p.account /\ ~Challenge!Ahead(p, rows[i])
               \/ Len(rows) = LeaderboardMax /\ \A i \in DOMAIN rows : ~Challenge!Ahead(p, rows[i])
    <3>1. PICK r \in Run : run[r].told = "durable" /\ p = Challenge!Result(r)
      BY DEF Challenge!Posted
    <3>2. Stands(p, rows)
      BY <3>1 DEF ChallengeInv
    <3> QED BY <3>2, <2>1 DEF Stands
  <2>3. ASSUME NEW i \in DOMAIN rows
        PROVE  ~run[rows[i].run].open /\ (run[rows[i].run].lost \/ run[rows[i].run].lines = rows[i].ticks)
    <3>1. i \in 1..Len(rows) /\ rows[i] \in Outcome
      BY <2>1
    <3>2. rows[i].run \in Run
      BY <3>1 DEF Outcome
    <3>3. SoundRun(run[rows[i].run]) /\ run[rows[i].run].step = "done" /\ run[rows[i].run].ticks = rows[i].ticks
      BY <3>1, <3>2 DEF ChallengeInv, RunsSound, Cites
    <3> QED BY <3>3 DEF SoundRun
  <2> QED BY <2>2, <2>3 DEF Challenge!RowsStand, Challenge!PostedStands, Challenge!RowsReplay
<1> QED BY <1>1, <1>2, <1>3, PTL DEF Challenge!Spec

(* The high scores are the best that were named, in order, as long as none *)
(* was named late; and a challenge's row that its player was told of stays *)
(* until it is beaten, through failed writes and crashes, and cites a whole*)
(* recording, unless the recorder had to drop a tick.                      *)
THEOREM RankingsStandAlways == Scores!Spec /\ Challenge!Spec => []RankingsStand
<1>1. Scores!ScoresRanked /\ Challenge!RowsStand => RankingsStand
  BY DEF RankingsStand
<1> QED BY <1>1, ScoresStand, RunsStand, PTL

allVars == <<service, paintingVars, zwdVars, publishedVars, scoresVars, challengeVars, streamsVars,
             titlesVars, replaysVars, gazetteVars>>

(* The services side by side keep what each of them promises.              *)
THEOREM ServicesSafe ==
  Spec => [](/\ ShippedAsTold /\ PublishedStand /\ RankingsStand /\ PlayersSee /\ WatchersShown
             /\ SpendBounded)
<1>1. Init => /\ Painting!Init /\ PublishedWorlds!Init /\ Scores!Init /\ Challenge!Init
              /\ Titles!Init /\ Replays!Init /\ Gazette!Init
  BY DEF Init
<1>2. [Next]_allVars =>
        /\ [Painting!Next]_(Painting!vars) /\ [PublishedWorlds!Next]_(PublishedWorlds!vars)
        /\ [Scores!Next]_(Scores!vars) /\ [Challenge!Next]_(Challenge!vars)
        /\ [Titles!Next]_(Titles!vars) /\ [Replays!Next]_(Replays!vars) /\ [Gazette!Next]_(Gazette!vars)
  <2> SUFFICES ASSUME [Next]_allVars
               PROVE  /\ Painting!Next \/ UNCHANGED Painting!vars
                      /\ PublishedWorlds!Next \/ UNCHANGED PublishedWorlds!vars
                      /\ Scores!Next \/ UNCHANGED Scores!vars
                      /\ Challenge!Next \/ UNCHANGED Challenge!vars
                      /\ Titles!Next \/ UNCHANGED Titles!vars
                      /\ Replays!Next \/ UNCHANGED Replays!vars
                      /\ Gazette!Next \/ UNCHANGED Gazette!vars
    OBVIOUS
  <2>1. /\ Painting!Next \/ UNCHANGED paintingVars
        /\ PublishedWorlds!Next \/ UNCHANGED publishedVars
        /\ Scores!Next \/ UNCHANGED scoresVars
        /\ Challenge!Next \/ UNCHANGED challengeVars
        /\ Titles!Next \/ UNCHANGED titlesVars
        /\ Replays!Next \/ UNCHANGED replaysVars
        /\ Gazette!Next \/ UNCHANGED gazetteVars
    BY DEF Next, allVars, GenerateWorld, ExportWorld, PublishWorld, KeepScores, RunChallenges,
           StreamBoard, ShowTitle, ShowReplay, PrintGazette
  <2>2. /\ UNCHANGED paintingVars => UNCHANGED Painting!vars
        /\ UNCHANGED publishedVars => UNCHANGED PublishedWorlds!vars
        /\ UNCHANGED scoresVars => UNCHANGED Scores!vars
        /\ UNCHANGED challengeVars => UNCHANGED Challenge!vars
        /\ UNCHANGED titlesVars => UNCHANGED Titles!vars
        /\ UNCHANGED replaysVars => UNCHANGED Replays!vars
        /\ UNCHANGED gazetteVars => UNCHANGED Gazette!vars
    BY DEF paintingVars, Painting!vars, publishedVars, PublishedWorlds!vars, scoresVars, Scores!vars,
           challengeVars, Challenge!vars, titlesVars, Titles!vars, replaysVars, Replays!vars,
           gazetteVars, Gazette!vars, Gazette!ledgerVars, Gazette!editorVars,
           Gazette!ghosts
  <2> QED BY <2>1, <2>2
<1>3. Spec => /\ Painting!Spec /\ PublishedWorlds!Spec /\ Scores!Spec /\ Challenge!Spec
              /\ Titles!Spec /\ Replays!Spec /\ Gazette!Spec
  BY <1>1, <1>2, PTL DEF Spec, allVars, Painting!Spec, PublishedWorlds!Spec, Scores!Spec, Challenge!Spec,
     Titles!Spec, Replays!Spec, Gazette!Spec
<1> QED BY <1>3, ShippedAsToldAlways, PublishedStandAlways, RankingsStandAlways, PlayersSeeAlways,
           WatchersShownAlways, SpendBoundedAlways, PTL
=============================================================================
