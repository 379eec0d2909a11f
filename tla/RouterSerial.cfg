SPECIFICATION Spec
CONSTANTS
  a1 = a1
  a2 = a2
  a3 = a3
  Keys = {k1, k2}
  Accounts = {a1, a2}
  Requests = {q1, q2}
  Reasons = {"quota"}
  Created <- TwoCreated
  Tier <- AllLite
  Family = "other"
  Deletable = {k1, k2}
  Strategies = {"fill", "round_robin"}
  Cycle = 2
  MaxErr = 0
  MaxFailures = 0
  MaxRestarts = 1
  SerialKeys = TRUE
  NoAccount = NoAccount
  NoKey = NoKey
SYMMETRY KeysAndRequests
INVARIANT BindingPersisted
PROPERTY FillSticky
PROPERTY SharesOnlyForGhosts
