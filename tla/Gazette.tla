------------------------------- MODULE Gazette -------------------------------
(***************************************************************************)
(* The ZZT Gazette: the ledger of each day's deeds (gazette.go) and the    *)
(* editions an author is paid to write of them (gazette_edition.go).       *)
(*                                                                         *)
(* A deed bumps its row of today, and a new row is refused when the day or *)
(* its kind is full. The ledger is flushed on a cadence. A refresh of a day*)
(* reads its rows and the date, then asks the editor, under the editor's   *)
(* lock, whether the day may be written; it calls the author outside every *)
(* lock, prints what comes back, and saves the cache. What it costs is     *)
(* bounded by a fingerprint of the rows, by a gap between attempts, by one *)
(* call at a time, and by attempts per day.                                *)
(*                                                                         *)
(* A row is a pair of a kind and of what else tells rows of a kind apart   *)
(* (the subject and the account). The fingerprint of a day is its rows.    *)
(* The clock only moves on.                                                *)
(***************************************************************************)
EXTENDS Naturals, FiniteSets, Functions

CONSTANTS Kind, Subject,
          RowsPerKind, RowsPerDay,   \* gazetteRowsPerKind, gazetteRowsPerDay
          Retention,                 \* gazetteRetentionDays
          DailyWrites,
          LastDay, MaxCount,         \* bounds of the model: days, one row's count
          MaxAsked                   \* ... and a day's refreshes between reading and lock

Row == Kind \X Subject
Day == 1..LastDay
NoRows == [r \in Row |-> 0]

VARIABLES
  today,
  days, dirty, ledgerFile,           \* GazetteLedger, and gazette.json
  editions, attempts, recent,        \* GazetteEditor; recent: lastAttempt is within MinRefresh
  asked,                             \* refreshes that have read, and wait for the lock
  flying,                            \* the calls to the author: <<day, rows read>>
  answered,                          \* the days a call is back of, save() to come
  saving, editionFile,               \* copies save() has taken, and gazette-editions.json
  spent,                             \* ghost: calls made for a day, as far as the file tells
  overdue                            \* ghost: days called for when their rows were gone

ledgerVars == <<days, dirty, ledgerFile>>
ghosts == <<spent, overdue>>
editorVars == <<editions, attempts, recent, asked, flying, answered, saving, editionFile, ghosts>>
vars == <<today, ledgerVars, editorVars>>

Empty == [d \in Day |-> NoRows]
Init ==
  /\ today = 1
  /\ days = Empty /\ dirty = FALSE /\ ledgerFile = Empty
  /\ editions = Empty /\ attempts = [d \in Day |-> 0] /\ recent = {}
  /\ asked = {} /\ flying = {} /\ answered = {} /\ saving = {}
  /\ editionFile = [editions |-> Empty, attempts |-> attempts]
  /\ spent = attempts /\ overdue = {}

-----------------------------------------------------------------------------
(* The newest Retention of the days f keeps anything of stay.              *)
Pruned(f, none) ==
  LET kept == {d \in DOMAIN f : f[d] # none}
  IN  [d \in DOMAIN f |-> IF Cardinality({e \in kept : e > d}) < Retention THEN f[d] ELSE none]

PrunedRows(f) == Pruned(f, NoRows)

Rows(d) == {r \in Row : days[d][r] > 0}

Record(r) ==
  /\ days[today][r] < MaxCount
  /\ \/ r \in Rows(today)
     \/ /\ Cardinality(Rows(today)) < RowsPerDay
        /\ Cardinality({q \in Rows(today) : q[1] = r[1]}) < RowsPerKind
  /\ days' = PrunedRows([days EXCEPT ![today][r] = @ + 1])
  /\ dirty' = TRUE
  /\ UNCHANGED <<today, ledgerFile, editorVars>>

Flush ==
  /\ dirty
  /\ \/ ledgerFile' = days /\ dirty' = FALSE
     \/ UNCHANGED <<ledgerFile, dirty>>                      \* the write fails
  /\ UNCHANGED <<today, days, editorVars>>

NextDay ==
  /\ today < LastDay
  /\ today' = today + 1
  /\ UNCHANGED <<ledgerVars, editorVars>>

-----------------------------------------------------------------------------
(* Refresh, up to e.mu: the rows of the day, and the date. The rows are    *)
(* read first: a date that turns in between is that of a later reading, and*)
(* can only have the request refused.                                      *)
Ask(d) ==
  /\ Rows(d) # {}
  /\ Cardinality({q \in asked : q.day = d}) < MaxAsked
  /\ asked' = asked \union {[day |-> d, rows |-> days[d], today |-> today]}
  /\ UNCHANGED <<today, ledgerVars, editions, attempts, recent, flying, answered, saving,
                 editionFile, ghosts>>

(* A bug: a call that is out for the day is not waited for.                *)
EligibleWhileFlying(q) ==
  /\ editions[q.day] # q.rows
  /\ editions[q.day] # NoRows => q.day = q.today
  /\ attempts[q.day] < DailyWrites
  /\ q.day \notin recent

(* What lets a day be written, by what the request has read.               *)
InFlight == {f[1] : f \in flying} \union answered \union {copy.day : copy \in saving}

Eligible(q) ==
  /\ q.day \notin InFlight
  /\ editions[q.day] # q.rows
  /\ editions[q.day] # NoRows => q.day = q.today
  /\ attempts[q.day] < DailyWrites
  /\ q.day \notin recent

(* Under the lock: the call is made, or the request was for nothing.       *)
Refresh(q) ==
  /\ Eligible(q)
  /\ asked' = asked \ {q}
  /\ flying' = flying \union {<<q.day, q.rows>>}
  /\ attempts' = [attempts EXCEPT ![q.day] = @ + 1]
  /\ recent' = recent \union {q.day}
  /\ spent' = [spent EXCEPT ![q.day] = @ + 1]
  /\ overdue' = IF Rows(q.day) = {} THEN overdue \union {q.day} ELSE overdue
  /\ UNCHANGED <<today, ledgerVars, editions, answered, saving, editionFile>>

NotEligible(q) ==
  /\ ~Eligible(q)
  /\ asked' = asked \ {q}
  /\ UNCHANGED <<today, ledgerVars, editions, attempts, recent, flying, answered, saving,
                 editionFile, ghosts>>

(* MinRefresh has gone by since the day's last attempt.                    *)
Rested(d) ==
  /\ d \in recent
  /\ recent' = recent \ {d}
  /\ UNCHANGED <<today, ledgerVars, editions, attempts, asked, flying, answered, saving,
                 editionFile, ghosts>>

(* The author's answer is printed, if it is a paper; an error, or a reply  *)
(* that is refused whole, only costs the attempt.                          *)
Answered(f) ==
  /\ flying' = flying \ {f}
  /\ answered' = answered \union {f[1]}
  /\ UNCHANGED <<today, ledgerVars, recent, asked, saving, editionFile, ghosts>>

Printed(f) ==
  /\ editions' = Pruned([editions EXCEPT ![f[1]] = f[2]], NoRows)
  /\ attempts' = Pruned(attempts, 0)
  /\ Answered(f)
ReplyRefused(f) ==
  /\ UNCHANGED <<editions, attempts>>
  /\ Answered(f)

(* save() takes a copy of the cache under the lock and writes it without,  *)
(* in whatever order the copies of several days arrive; the day is in      *)
(* flight until then.                                                      *)
Copied(d) ==
  /\ answered' = answered \ {d}
  /\ saving' = saving \union {[day |-> d, editions |-> editions, attempts |-> attempts]}
  /\ UNCHANGED <<today, ledgerVars, editions, attempts, recent, asked, flying, editionFile, ghosts>>

Save(copy) ==
  /\ \/ editionFile' = [editions |-> copy.editions, attempts |-> copy.attempts]
     \/ UNCHANGED editionFile                                \* the write fails, untold
  /\ saving' = saving \ {copy}
  /\ UNCHANGED <<today, ledgerVars, editions, attempts, recent, asked, flying, answered, ghosts>>

(* Another process loads both files, after Run has flushed the ledger. A   *)
(* call or a request in flight is lost with its process.                   *)
LedgerLoaded == days' = PrunedRows(days) /\ ledgerFile' = days /\ dirty' = FALSE

EditorLoaded ==
  /\ editions' = Pruned(editionFile.editions, NoRows)
  /\ attempts' = Pruned(editionFile.attempts, 0)
  /\ recent' = {} /\ asked' = {} /\ flying' = {} /\ answered' = {} /\ saving' = {}
  /\ spent' = attempts' /\ overdue' = {}

Restart == LedgerLoaded /\ EditorLoaded /\ UNCHANGED <<today, editionFile>>

Next ==
  \/ \E r \in Row : Record(r)
  \/ Flush
  \/ NextDay
  \/ \E d \in Day : Ask(d) \/ Rested(d)
  \/ \E q \in asked : Refresh(q) \/ NotEligible(q)
  \/ \E f \in flying : Printed(f) \/ ReplyRefused(f)
  \/ \E d \in answered : Copied(d)
  \/ \E copy \in saving : Save(copy)
  \/ Restart

Spec == Init /\ [][Next]_vars

-----------------------------------------------------------------------------
(* What a process pays for a day is bounded, though both stores forget     *)
(* days on their own, a request reads the ledger before it has the lock,   *)
(* and calls are answered in any order: an attempt is forgotten only of a  *)
(* day whose rows are gone from the ledger. A request that had read them   *)
(* before is still served and counts from nothing again, which is why a day*)
(* that is called for without rows is none of these. And a day has one call*)
(* at a time (gazette_edition.go:30-34, "spend is bounded four ways").     *)
SpendBounded ==
  /\ \A d \in Day \ overdue : spent[d] <= DailyWrites
  /\ \A f, g \in flying : f[1] = g[1] => f = g
=============================================================================
