CONSTANTS
  OdooStores = {o1, o2}
  Names = {n1, n2}
  Geofences = {}
  Unset = unset
  Entries = {w1}
  Requests = {r1, r2}
  NoRow = norow
  MaxId = 3
  MaxTransactions = 2
  o1 = o1
  o2 = o2
  n1 = n1
  n2 = n2
  g1 = g1
  w1 = w1
  r1 = r1
  r2 = r2
SPECIFICATION FairSpec
INVARIANTS
  TypeOK
PROPERTIES
  NoLostEdit
  ImplementsVersions
  EveryRequestEnds
  GuardReleased
