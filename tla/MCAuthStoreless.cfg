CONSTANTS
  Employees = {e1}
  Stores = {s1}
  Requests = {r1, r2}
  Nobody = nobody
  NoStore = nostore
  LockoutThreshold = 1
  LockoutDuration = 1
  AdminTTL = 1
  NonAdminTTL = 2
  HeartbeatFailureThreshold = 2
  HeartbeatSilence = 1
  MaxTime = 3
  MaxTokens = 3
  MaxPassword = 1
  MaxCount = 3
  e1 = e1
  e2 = e2
  s1 = s1
  s2 = s2
  r1 = r1
  r2 = r2
  r3 = r3
SPECIFICATION Spec
SYMMETRY RequestSymmetry
CONSTRAINT AccountsInOrder
INVARIANT
  StorelessMeansAdmin
