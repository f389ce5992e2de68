\* Two clients: one with a synthesis and what interferes with it, one with anything.
SPECIFICATION FairSpec
CONSTANTS
  c1 = c1
  c2 = c2
  Conns = {c1, c2}
  Scripts <- AllScripts
  MaxChunks = 2
  MaxProgress = 1
  Stops = TRUE
INVARIANTS
  TypeOK
  WorkIsAccounted
  EngineStopsLast
PROPERTIES
  ImplementsConnection
  EveryRequestAnswered
  CloseEnds
