CONSTANTS
  ip1 = ip1
  ip2 = ip2
  mac1 = mac1
  unset = unset
  IP <- MCIP
  MAC <- MCMAC
  Place <- MCPlace
  Radius <- MCRadius
  Unset <- MCUnset
  Distance <- LineDistance
  CandidateLists <- MCCandidateLists
SPECIFICATION Spec
INVARIANTS
  TypeOK
  MostTrustedMatchWins
