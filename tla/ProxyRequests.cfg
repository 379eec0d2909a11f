SPECIFICATION FairSpec
CONSTANTS
  a1 = a1
  q1 = q1
  s1 = s1
  r1 = r1
  Unused = Unused
  Deleted = Deleted
  Accounts <- AccountsValue
  Requests <- RequestsValue
  Syncs <- SyncsValue
  Refreshers <- RefreshersValue
  MaxTokens = 2
  MaxFailures = 1
  MaxRetries = 1
INVARIANTS
  RefreshTokenUsable
  AuditTellsEveryCall
PROPERTIES
  DisabledForCause
  SyncingEnds
