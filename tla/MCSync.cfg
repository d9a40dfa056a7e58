CONSTANTS
  Callers = {g1, g2}
  Nobody = nobody
  MaxGrants = 3
  OdooEmployees = {1, 2, 3}
  OdooStores = {1, 2}
  NoRow = norow
  BatchSize = 1
  MaxEmployees = 2
  Edited = {1}
  MaxStores = 3
  MaxRuns = 2
  MaxEdits = 1
SPECIFICATION Spec
INVARIANTS
  TypeOK
  MembersAsTold
  GuardTracksRuns
  NobodyWaitsInVain
PROPERTY
  OneRenewal
SYMMETRY Symmetry
CONSTRAINT ThirdTokenAfter401
CHECK_DEADLOCK FALSE
