SPECIFICATION ProcessSpec
CONSTANTS
  MaxPlaced = 2
  MaxCrashes = 2
  NoFile = NoFile
  Watched = {a1, a2}
  Resets = {r1, r2}
  NoReset = NoReset
  NoAccount = NoAccount
  Retry = 2
  MaxRound = 2
  Horizon = 1
  Sessions = {s1, s2}
  Polls = {p1, p2}
  NoSession = NoSession
  Accounts = {b1}
  Legacy = {b1}
  Claims = {c1, c2}
  Handlers = {h1}
  Crons = {daily}
  Valid = {daily}
  DefaultCron = daily
  MaxLogs = 1
  MaxClaims = 2
  MaxFailures = 1
  MaxStops = 0
  MaxKills = 1
  NoRow = NoRow
  NoEntry = NoEntry
INVARIANTS
  OneClaimPerAccount
  RunningLogsHaveClaims
  RefusedOnlyWhenAmbiguous
  OnePoller
PROPERTIES
  ImplementsHandover
  FilesGo
  DueIsSynced
  PollsRelease
  ClaimsEnd
