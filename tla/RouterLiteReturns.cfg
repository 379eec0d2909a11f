SPECIFICATION Spec
CONSTANTS
  a1 = a1
  a2 = a2
  a3 = a3
  Keys = {k1}
  Accounts = {a1, a2}
  Requests = {q1}
  Reasons = {"quota"}
  Created <- TwoCreated
  Tier <- ProLite
  Family = "deepseek"
  Deletable = {}
  Strategies = {"fill"}
  Cycle = 2
  MaxErr = 0
  MaxFailures = 0
  MaxRestarts = 0
  SerialKeys = TRUE
  NoAccount = NoAccount
  NoKey = NoKey
PROPERTY FillSticky
