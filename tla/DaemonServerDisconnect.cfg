\* A client disconnects.
SPECIFICATION Spec
CONSTANTS
  c1 = c1
  c2 = c2
  Conns = {c1, c2}
  Scripts <- AllScripts
  MaxChunks = 1
  MaxProgress = 1
  Stops = FALSE
INVARIANT SurvivesDisconnect
