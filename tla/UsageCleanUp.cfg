SPECIFICATION AdministrationSpec
CONSTANTS
  Cap = 2
  Base = 3
  Start = 5
  Step = 1
  Retention = 1
  MaxTime = 8
  MaxRecords = 4
  MaxFailures = 2
  MaxRestarts = 1
  PageSize = 1
  Queries <- SomeQueries
  Span = 2
  Bucket = 1
  Slack = 1
  Administrators = {a1, a2}
  Loop = Loop
  Words = {w1, w2}
  DefaultWord = w1
  Values = {v1}
  DefaultValue = v1
  Invalid = Invalid
  NoConfig = NoConfig
  MaxEdits = 1
  MaxFaults = 1
  MaxKills = 1
  Logins = {t1, t2}
  Tokens = {k1, k2}
  Limit = 2
  Window = 2
  Lifetime = 2
  MaxClock = 5
  Editors = {e1, e2}
  Upstreams = {m1, m2}
  Aliases = {x}
  NoSetting = NoSetting
  Callers = {c1, c2}
  Labels <- SomeLabels
  NewLabels <- LaterLabels
  Widest = 20
  SuccessTTL = 2
  FailureTTL = 1
  MaxMinute = 3
INVARIANTS
  TypesOK
  ReloadShowsTheSame
  NothingLost
  CredentialsReadable
  OneReloadAgrees
  LoginsLimited
PROPERTIES
  NamesStayUnique
  UpdateTold
  ViewsAddUp
