----------------------------- MODULE Challenge -----------------------------
(***************************************************************************)
(* Challenge runs and their leaderboard (challenge_run.go,                 *)
(* challenge_store.go), with the recorder that makes a row checkable       *)
(* (session_record.go).  A run is an instance of its own, started by one   *)
(* connection and stepped by the tick goroutine; its recorder hands ticks  *)
(* to a writer goroutine over a channel that drops what it has no room     *)
(* for.  The server may crash, and reads the leaderboard back.             *)
(*                                                                         *)
(* One challenge; whether its goal is met in a tick is free, a run's score *)
(* is one of Score, and a run is stepped at most MaxTicks times.           *)
(***************************************************************************)
EXTENDS Naturals, FiniteSets, Sequences, SequencesExt

CONSTANTS Run, Account,
          Guest,               \* AccountID of a guest: ""
          Score,
          MaxRuns,             \* challengeMaxConcurrentRuns
          LeaderboardMax,
          ChannelCap,          \* recordChannelCap
          MaxTicks

VARIABLES
  run,      \* the ChallengeRun of each key, its instance and its recorder
  rows,     \* the leaderboard in memory, best first
  file      \* the leaderboard on disk

vars == <<run, rows, file>>

(* at: hosted, or about to be or no longer; step: where the tick goroutine *)
(* is with a completion; lines: how many ticks are in the file; lost: some *)
(* were dropped; told: what the player was told of the result.             *)
NoRun == [at |-> "none", account |-> Guest, player |-> "none", ticks |-> 0, step |-> "run",
          score |-> 0, attached |-> FALSE, open |-> FALSE, queue |-> 0, lines |-> 0,
          lost |-> FALSE, told |-> "nothing"]

Init == /\ run = [r \in Run |-> NoRun]
        /\ rows = <<>> /\ file = <<>>

Set(r, rec) == run' = [run EXCEPT ![r] = rec]
Live == {r \in Run : run[r].at = "live"}

-----------------------------------------------------------------------------
(* The recorder                                                            *)

(* flush: the tick about to run goes into the channel, or is dropped.      *)
Flush(rec) ==
  IF ~rec.attached THEN rec
  ELSE IF rec.queue < ChannelCap THEN [rec EXCEPT !.queue = @ + 1]
  ELSE [rec EXCEPT !.lost = TRUE]

(* The writer goroutine takes a line from the channel.                     *)
WriteLoop(r) ==
  /\ run[r].queue > 0
  /\ Set(r, [run[r] EXCEPT !.queue = @ - 1, !.lines = @ + 1])
  /\ UNCHANGED <<rows, file>>

(* Close returns when the channel is drained and the file flushed.         *)
Drained(rec)  == [rec EXCEPT !.attached = FALSE, !.open = FALSE, !.lines = @ + rec.queue, !.queue = 0]

-----------------------------------------------------------------------------
(* The run                                                                 *)

Hosted(account) ==
  [NoRun EXCEPT !.at = "live", !.account = account, !.attached = TRUE, !.open = TRUE]

(* StartChallengeRun: refused when there are too many, and taken down when *)
(* its recording cannot be opened.                                         *)
StartChallengeRun(r, account) ==
  /\ run[r].at = "none" /\ Cardinality(Live) < MaxRuns
  /\ Set(r, Hosted(account)) \/ Set(r, [NoRun EXCEPT !.at = "gone"])
  /\ UNCHANGED <<rows, file>>

(* The connection's player joins; discardChallengeRun when it cannot.      *)
Join(r) ==
  /\ run[r].at = "live" /\ run[r].player = "none"
  /\ Set(r, [run[r] EXCEPT !.player = "joined"]) \/ Set(r, [Drained(run[r]) EXCEPT !.at = "gone"])
  /\ UNCHANGED <<rows, file>>

(* The run learns its PlayerID under a later hold of the lock.             *)
SetPlayerID(r) ==
  /\ run[r].player = "joined" /\ run[r].step = "run"
  /\ Set(r, [run[r] EXCEPT !.player = "known"])
  /\ UNCHANGED <<rows, file>>

(* The player quits, or is gone longer than the grace; the instance is then*)
(* evicted by the tick goroutine, and its recorder closed.                 *)
Leave(r) ==
  /\ run[r].at = "live" /\ run[r].player = "known"
  /\ Set(r, [run[r] EXCEPT !.player = "left"])
  /\ UNCHANGED <<rows, file>>

Evict(r) ==
  /\ run[r].at = "live" /\ run[r].player = "left" /\ run[r].step \in {"run", "done"}
  /\ Set(r, [Drained(run[r]) EXCEPT !.at = "gone"])
  /\ UNCHANGED <<rows, file>>

(* advanceChallengeLocked, with the step it counts: the goal is asked for  *)
(* while the run has a player and no result.                               *)
Tick(r) ==
  /\ run[r].at = "live" /\ run[r].step \in {"run", "done"} /\ run[r].ticks < MaxTicks
  /\ LET rec == [Flush(run[r]) EXCEPT !.ticks = IF run[r].step = "run" THEN @ + 1 ELSE @]
     IN \/ Set(r, rec)
        \/ /\ rec.player = "known" /\ rec.step = "run"
           /\ \E s \in Score : Set(r, [rec EXCEPT !.step = "close", !.score = s])
  /\ UNCHANGED <<rows, file>>

(* finishChallengeRun: the recorder is taken off and closed, then the      *)
(* result of an account is submitted.                                      *)
FinishClose(r) ==
  /\ run[r].step = "close"
  /\ Set(r, [Drained(run[r]) EXCEPT !.step = IF run[r].account = Guest THEN "done" ELSE "submit",
                                    !.told = IF run[r].account = Guest THEN "guest" ELSE @])
  /\ UNCHANGED <<rows, file>>

-----------------------------------------------------------------------------
(* The store                                                               *)

Ahead(x, y) == x.ticks < y.ticks \/ (x.ticks = y.ticks /\ x.score > y.score)

(* sortChallengeResults is stable, and the newest result sorts last among  *)
(* equals by its seq.                                                      *)
Ranked(x, others) ==
  LET k == Cardinality({i \in DOMAIN others : ~Ahead(x, others[i])})
  IN InsertAt(others, k + 1, x)

(* The row of x's account, the first if there were several.                *)
Own(x)     == {i \in DOMAIN rows : rows[i].account = x.account}
Row(x)     == CHOOSE i \in Own(x) : \A j \in Own(x) : i <= j
Without(x) == IF Own(x) = {} THEN rows ELSE RemoveAt(rows, Row(x))

Cut(table) == SubSeq(table, 1, IF Len(table) > LeaderboardMax THEN LeaderboardMax ELSE Len(table))

(* A bug: a slower run replaces the account's own best.                    *)
SubmittedLatest(x) == Cut(Ranked(x, Without(x)))

(* One row for each account: its best.                                     *)
Submitted(x) ==
  Cut(IF Own(x) # {} /\ ~Ahead(x, rows[Row(x)]) THEN rows ELSE Ranked(x, Without(x)))

Result(r) == [account |-> run[r].account, ticks |-> run[r].ticks, score |-> run[r].score, run |-> r]

(* Submit: the table in memory has the row whether or not the file is      *)
(* written, and the player is told only of what was.                       *)
Submit(r) ==
  /\ run[r].step = "submit"
  /\ rows' = Submitted(Result(r))
  /\ \/ file' = rows' /\ Set(r, [run[r] EXCEPT !.step = "done", !.told = "durable"])
     \/ UNCHANGED file /\ Set(r, [run[r] EXCEPT !.step = "done", !.told = "not stored"])

(* A crash: what the writers had not taken is lost.                        *)
Restart ==
  /\ rows' = file /\ UNCHANGED file
  /\ run' = [r \in Run |-> IF run[r].at = "none" THEN NoRun
                           ELSE [run[r] EXCEPT !.at = "gone", !.attached = FALSE, !.queue = 0,
                                   !.step = IF @ = "done" THEN @ ELSE "lost"]]

Next ==
  \/ \E r \in Run : \/ \E a \in Account : StartChallengeRun(r, a)
                    \/ Join(r) \/ SetPlayerID(r) \/ Leave(r) \/ Evict(r) \/ Tick(r)
                    \/ WriteLoop(r) \/ FinishClose(r) \/ Submit(r)
  \/ Restart

Spec == Init /\ [][Next]_vars

-----------------------------------------------------------------------------
TypeOK ==
  /\ \A r \in Run : run[r].queue \in 0..ChannelCap /\ run[r].ticks \in 0..MaxTicks
                    /\ run[r].attached => run[r].open
  /\ Len(rows) <= LeaderboardMax /\ Len(file) <= LeaderboardMax
  /\ Cardinality(Live) <= MaxRuns

(* What players were told of as stored.                                    *)
Posted == {Result(r) : r \in {q \in Run : run[q].told = "durable"}}

(* A result the player was told is durable stays on the table, across a    *)
(* crash and whatever failed to be written since, until its account or as  *)
(* many others as the table holds have done better.                        *)
PostedStands ==
  \A p \in Posted :
    \/ \E i \in DOMAIN rows : rows[i].account = p.account /\ ~Ahead(p, rows[i])
    \/ /\ Len(rows) = LeaderboardMax
       /\ \A i \in DOMAIN rows : ~Ahead(p, rows[i])

(* Every row of the table cites a recording that is closed, and that has   *)
(* each tick of the run up to its goal unless some had to be dropped, so   *)
(* that the replay and the ghost have what the row counts.                 *)
RowsReplay ==
  \A i \in DOMAIN rows :
    LET rec == run[rows[i].run]
    IN /\ ~rec.open
       /\ rec.lost \/ rec.lines = rows[i].ticks

RowsStand == PostedStands /\ RowsReplay
=============================================================================
