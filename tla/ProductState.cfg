\* Three calls of any kind, with failures and a restart.
SPECIFICATION FairSpec
CONSTANTS
  m1 = m1
  m2 = m2
  v1 = v1
  None = None
  Models <- TwoModels
  Voices <- OneVoice
  Scenarios <- AnyThree
  Applied <- SomeConfigs
  Stores <- SomeStores
  MaxCrashes = 1
INVARIANTS
  TypeOK
  SnapshotIsFile
  VoiceUseSticks
  RemovedStaysRemoved
PROPERTIES
  DeletesOnlyUnselected
  LeasedVoiceStays
  EveryCallEnds
