CONSTANTS
  Emails = {m1, m2}
  IPs = {ip1, ip2}
  Requests = {r1, r2}
  EmailLimit = 1
  IPLimit = 2
  Window = 1
  MaxTime = 2
  MaxAttempts = 3
  m1 = m1
  m2 = m2
  ip1 = ip1
  ip2 = ip2
  r1 = r1
  r2 = r2
  r3 = r3
SPECIFICATION FairSpec
INVARIANTS
  TypeOK
  EmailCeiling
  IPCeiling
PROPERTY
  EveryAttemptEnds
CHECK_DEADLOCK FALSE
