CONSTANTS
  Employees = {e1}
  Requests = {r1, r2, r3}
  Nobody = nobody
  TokenTTL = 1
  MaxTime = 2
  MaxTokens = 2
  e1 = e1
  r1 = r1
  r2 = r2
  r3 = r3
SPECIFICATION FairSpec
INVARIANTS
  TypeOK
  AtMostOneOutstanding
PROPERTIES
  NeverLeftWithoutToken
  NewestTokenSetsPassword
  ImplementsLinks
  EveryRequestEnds
CHECK_DEADLOCK FALSE
