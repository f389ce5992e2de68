\* Three processes, one of which may be killed: two find its lock.
SPECIFICATION Spec
CONSTANTS
  p1 = p1
  p2 = p2
  p3 = p3
  Procs = {p1, p2, p3}
  Hubs <- SingleHub
  Includes = {}
  Excludes = {}
  MaxRedirects = 0
  MaxTries = 1
  MaxKilled = 1
PROPERTY LandsOnlyVerified
