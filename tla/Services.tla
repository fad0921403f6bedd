------------------------------ MODULE Services ------------------------------
(***************************************************************************)
(* Services that share no state, one in each behavior: a world that is     *)
(* generated, one that is exported as text and compiled, one that is       *)
(* published or comes from the Museum, a room's high scores, the           *)
(* challenges' leaderboard, what a board's tick streams to those on it, a  *)
(* title board that is watched, a recording that is watched, and the       *)
(* gazette.                                                                *)
(***************************************************************************)
EXTENDS Integers, FiniteSets

CONSTANTS
  Board, maxAttempts, batchSize,                                  \* of Painting
  Width, MAX_STAT, ExportedWorlds, Pool,                          \* of ZWD
  Request, Account, Guest, Name, TestName, Canonical, None, Museum, Broken,  \* of PublishedWorlds
  Player, NoOne, Score, HighScoreCount,                           \* of Scores
  Run, RunScore, MaxRuns, LeaderboardMax, ChannelCap, MaxTicks,   \* of Challenge
  Crowd, CrowdQueue, CrowdEra,                                    \* of Streams, players alone
  Observed, Observer, ObservedQueue, ObservedEra,                \* ... and one that is watched
  Watcher, TitleCell, Shades,                                     \* of Titles
  LastTick, RoomTicks, StartTick, MaxPass,                        \* of Replays
  Kind, Subject, RowsPerKind, RowsPerDay, Retention, DailyWrites, \* of Gazette
  LastDay, MaxCount, MaxAsked

ASSUME GazetteAssumption == {Retention, DailyWrites} \subseteq Nat /\ LastDay \in Nat \ {0}

(* Nothing is nobody's name and no world's, and a test play's is its own.  *)
ASSUME PublishedAssumption ==
  None \notin Account \union Name \union {Museum, Broken} /\ Name \intersect TestName = {}

(* The ticks of a recording are counted from nought.                       *)
ASSUME ReplayAssumption == {StartTick, LastTick, MaxPass} \union RoomTicks \subseteq Nat

(* Scores are numbers, and there is room for some of them or for none.     *)
ASSUME RankingAssumption ==
  Score \union RunScore \subseteq Nat /\ {HighScoreCount, LeaderboardMax} \subseteq Nat

VARIABLES
  service,
  at, sections, attempts, stubbed, todo, round, clean, data,
  world, progress, text, back,
  worldFile, access, hosted, played, cache, req, raced,
  highScores, quit, named, overtaken, late,
  run, rows, file,
  present, floor, era, eras, dirty, conn, outgoing,
  board, subs, pending, signal, taken, screen, behind,
  replay, passes, open, asking, sub, queued, greeting, shown, crossed,
  today, days, stale, ledgerFile, editions, tries, recent, asked, flying, answered, saving,
  editionFile, spent, overdue

Painting == INSTANCE Painting
ZWD == INSTANCE ZWD WITH at <- progress, Worlds <- ExportedWorlds
PublishedWorlds == INSTANCE PublishedWorlds WITH file <- worldFile
Scores == INSTANCE Scores
Challenge == INSTANCE Challenge WITH Score <- RunScore
Streams(Players, Watchers, Queue, Eras) == INSTANCE Streams WITH
  Player <- Players, Watcher <- Watchers, ClientQueue <- Queue, MaxEra <- Eras
Titles == INSTANCE Titles WITH Cell <- TitleCell
Replays == INSTANCE Replays WITH outgoing <- queued, screen <- shown
Gazette == INSTANCE Gazette WITH dirty <- stale, attempts <- tries

NoWorld == [boards |-> <<>>]
Init ==
  /\ service \in {"painting", "zwd", "published", "scores", "challenge",
                 "streams", "watched", "titles", "replays", "gazette"}
  /\ IF service = "zwd" THEN ZWD!Init
     ELSE world = NoWorld /\ progress = "loaded" /\ text = <<>> /\ back = NoWorld
  /\ Painting!Init /\ PublishedWorlds!Init /\ Scores!Init /\ Challenge!Init
  /\ IF service = "watched" THEN Streams(Observed, Observer, ObservedQueue, ObservedEra)!Init
     ELSE Streams(Crowd, {}, CrowdQueue, CrowdEra)!Init
  /\ Titles!Init /\ Replays!Init /\ Gazette!Init

paintingVars == <<at, sections, attempts, stubbed, todo, round, clean, data>>
zwdVars == <<world, progress, text, back>>
publishedVars == <<worldFile, access, hosted, played, cache, req, raced>>
scoresVars == <<highScores, quit, named, overtaken, late>>
challengeVars == <<run, rows, file>>
streamsVars == <<present, floor, era, eras, dirty, conn, outgoing>>
titlesVars == <<board, subs, pending, signal, taken, screen, behind>>
replaysVars == <<replay, passes, open, asking, sub, queued, greeting, shown, crossed>>
gazetteVars == <<today, days, stale, ledgerFile, editions, tries, recent, asked, flying, answered,
                saving, editionFile, spent, overdue>>

GenerateWorld ==
  /\ service = "painting" /\ Painting!Next
  /\ UNCHANGED <<service, zwdVars, publishedVars, scoresVars, challengeVars, streamsVars,
                 titlesVars, replaysVars, gazetteVars>>
ExportWorld ==
  /\ service = "zwd" /\ ZWD!Next
  /\ UNCHANGED <<service, paintingVars, publishedVars, scoresVars, challengeVars, streamsVars,
                 titlesVars, replaysVars, gazetteVars>>
PublishWorld ==
  /\ service = "published" /\ PublishedWorlds!Next
  /\ UNCHANGED <<service, paintingVars, zwdVars, scoresVars, challengeVars, streamsVars,
                 titlesVars, replaysVars, gazetteVars>>
KeepScores ==
  /\ service = "scores" /\ Scores!Next
  /\ UNCHANGED <<service, paintingVars, zwdVars, publishedVars, challengeVars, streamsVars,
                 titlesVars, replaysVars, gazetteVars>>
RunChallenges ==
  /\ service = "challenge" /\ Challenge!Next
  /\ UNCHANGED <<service, paintingVars, zwdVars, publishedVars, scoresVars, streamsVars,
                 titlesVars, replaysVars, gazetteVars>>
StreamBoard ==
  /\ \/ service = "streams" /\ Streams(Crowd, {}, CrowdQueue, CrowdEra)!Next
     \/ service = "watched" /\ Streams(Observed, Observer, ObservedQueue, ObservedEra)!Next
  /\ UNCHANGED <<service, paintingVars, zwdVars, publishedVars, scoresVars, challengeVars,
                 titlesVars, replaysVars, gazetteVars>>
ShowTitle ==
  /\ service = "titles" /\ Titles!Next
  /\ UNCHANGED <<service, paintingVars, zwdVars, publishedVars, scoresVars, challengeVars,
                 streamsVars, replaysVars, gazetteVars>>
ShowReplay ==
  /\ service = "replays" /\ Replays!Next
  /\ UNCHANGED <<service, paintingVars, zwdVars, publishedVars, scoresVars, challengeVars,
                 streamsVars, titlesVars, gazetteVars>>
PrintGazette ==
  /\ service = "gazette" /\ Gazette!Next
  /\ UNCHANGED <<service, paintingVars, zwdVars, publishedVars, scoresVars, challengeVars,
                 streamsVars, titlesVars, replaysVars>>

Next ==
  \/ GenerateWorld \/ ExportWorld \/ PublishWorld \/ KeepScores \/ RunChallenges
  \/ StreamBoard \/ ShowTitle \/ ShowReplay \/ PrintGazette
Spec == Init /\ [][Next]_<<service, paintingVars, zwdVars, publishedVars, scoresVars, challengeVars,
                           streamsVars, titlesVars, replaysVars, gazetteVars>>

-----------------------------------------------------------------------------
(* What is accepted survives play, and its stubs are told of.              *)
ShippedAsTold == Painting!ShippedSurvives /\ Painting!StubsTold

(* A world that is exported as text comes back from the compiler.          *)
ComesBack == ZWD!ComesBack

(* A world that was published keeps its file, and it is its owner's.       *)
PublishedStand == PublishedWorlds!PublishedStand

(* The list of high scores is the best that were named, in order; a row of *)
(* the leaderboard that was posted stays, and its recording is whole.      *)
RankingsStand == Scores!ScoresRanked /\ Challenge!RowsStand

(* A player sees the board as it is.                                       *)
PlayersSee ==
  IF service = "watched" THEN Streams(Observed, Observer, ObservedQueue, ObservedEra)!PlayersSee
  ELSE Streams(Crowd, {}, CrowdQueue, CrowdEra)!PlayersSee

(* Nobody who watches a title board misses a cell, and who watches a       *)
(* recording sees one playback of it.                                      *)
WatchersShown == Titles!NoCellLost /\ Replays!OnePlayback

(* A day's edition is written no oftener than the day's cap, while the     *)
(* ledger has the day.                                                     *)
SpendBounded == Gazette!SpendBounded
=============================================================================
