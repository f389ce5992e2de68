\* Sessions of three requests, safety and liveness.
SPECIFICATION FairSpec
CONSTANTS
  MaxRequests = 3
  MaxAudio = 2
  Asks <- SomeAsks
  Said <- SomeSaid
INVARIANTS
  TypeOK
  NoFailureWithoutTimeout
  HeardEverything
  ExitLosesNoAnswer
  NobodyLeftBehind
PROPERTIES
  EveryRequestSettles
  ShutdownSettles
