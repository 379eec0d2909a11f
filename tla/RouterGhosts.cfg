SPECIFICATION Spec
CONSTANTS
  a1 = a1
  a2 = a2
  a3 = a3
  Keys = {k1, k2, k3}
  Accounts = {a1, a2}
  Requests = {q1}
  Reasons = {}
  Created <- TwoCreated
  Tier <- AllLite
  Family = "other"
  Deletable = {}
  Strategies = {"fill", "round_robin"}
  Cycle = 2
  MaxErr = 0
  MaxFailures = 0
  MaxRestarts = 0
  SerialKeys = TRUE
  NoAccount = NoAccount
  NoKey = NoKey
SYMMETRY KeysAndRequests
PROPERTY SharesOnlyWhenFull
