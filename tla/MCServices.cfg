CONSTANTS
  b1 = b1
  b2 = b2
  b3 = b3
  p1 = p1
  p2 = p2
  p3 = p3
  p4 = p4
  NoOne = NoOne
  w1 = w1
  w2 = w2
  r1 = r1
  r2 = r2
  alice = alice
  bob = bob
  Guest = Guest
  q1 = q1
  q2 = q2
  town = town
  trial = trial
  None = None
  Museum = Museum
  Broken = Broken
  Board = {b1, b2, b3}
  maxAttempts = 3
  batchSize = 1
  Width = 4
  MAX_STAT = 3
  ExportedWorlds <- Samples
  Pool <- OneLetter
  Request = {q1, q2}
  Account = {alice, bob, Guest}
  Name = {town}
  TestName = {trial}
  Canonical = {}
  Player = {p1, p2, p3, p4}
  Score = {0, 1, 2}
  HighScoreCount = 2
  Run = {r1, r2}
  RunScore = {0}
  MaxRuns = 2
  LeaderboardMax = 1
  ChannelCap = 1
  MaxTicks = 2
  Crowd = {p1, p2}
  CrowdQueue = 2
  CrowdEra = 1
  Observed = {p1}
  Observer = {w1}
  ObservedQueue = 1
  ObservedEra = 2
  Watcher = {w1, w2}
  TitleCell = {1, 2}
  Shades = 2
  LastTick = 3
  RoomTicks = {1, 2}
  StartTick = 1
  MaxPass = 3
  Kind = {1}
  Subject = {1}
  RowsPerKind = 1
  RowsPerDay = 2
  Retention = 1
  DailyWrites = 2
  LastDay = 2
  MaxCount = 2
  MaxAsked = 1
SPECIFICATION Spec
INVARIANTS ShippedAsTold ComesBack PublishedStand RankingsStand PlayersSee WatchersShown SpendBounded
CHECK_DEADLOCK FALSE
