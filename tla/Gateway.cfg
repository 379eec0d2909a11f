SPECIFICATION GatewaySpec
CONSTANTS
  Arrivals = {r1, r2, r3}
  Limits <- ChangingLimits
  Window = 3
  Second = 2
  MaxLag = 1
  MaxTime = 4
  MaxUpdates = 1
  MayDelete = TRUE
  NoState = NoState
  RoleNames <- RoleNamesValue
  InputItems <- InputItemsValue
  Instructions <- InstructionsValue
  MaxItems = 4
  Tokens <- TokensValue
  Chunks <- ChunksValue
  MaxChunks = 3
  FirstRandom = 10
  Accounts = {b1, b2}
  Legacy = {b1}
  Claims = {c1}
  Handlers = {h1}
  Crons = {daily, weekly, bad}
  Valid = {daily, weekly}
  DefaultCron = daily
  MaxLogs = 1
  MaxClaims = 1
  MaxFailures = 1
  MaxStops = 1
  MaxKills = 0
  NoRow = NoRow
  NoEntry = NoEntry
SYMMETRY ArrivalSymmetry
CHECK_DEADLOCK FALSE
INVARIANTS
  EntriesMatchRequests
  RetryAfterSuffices
  ResponsesTypeOK
  ConversionFaithful
  SameAsBuffered
  AuditTellsTheEnd
  NoStrayJob
  InstalledIsStored
  StartsAgain
  ScheduledLogsSettled
PROPERTIES
  AdmitWithinConcurrency
  RollingRPM
  EventsWellFormed
