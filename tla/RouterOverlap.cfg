SPECIFICATION Spec
CONSTANTS
  a1 = a1
  a2 = a2
  a3 = a3
  Keys = {k1}
  Accounts = {a1, a2, a3}
  Requests = {q1, q2}
  Reasons = {"quota"}
  Created <- ThreeCreated
  Tier <- ProMaxLite
  Family = "glm"
  Deletable = {k1}
  Strategies = {"fill"}
  Cycle = 6
  MaxErr = 0
  MaxFailures = 1
  MaxRestarts = 1
  SerialKeys = FALSE
  NoAccount = NoAccount
  NoKey = NoKey
SYMMETRY RequestsOnly
INVARIANT PlanRule
PROPERTY BindingSticky
