\* Two processes, one of which may be killed.
SPECIFICATION FairSpec
CONSTANTS
  p1 = p1
  p2 = p2
  p3 = p3
  Procs = {p1, p2}
  Hubs <- AllHubs
  Includes = {}
  Excludes <- NoReadme
  MaxRedirects = 1
  MaxTries = 2
  MaxKilled = 1
INVARIANTS
  TypeOK
  SuccessMeansInstalled
PROPERTIES
  LandsOnlyVerified
  EveryProcessEnds
