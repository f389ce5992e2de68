\* What a confirmed model.use promises, against the removal of another model.
SPECIFICATION FairSpec
CONSTANTS
  m1 = m1
  m2 = m2
  v1 = v1
  None = None
  Models <- TwoModels
  Voices <- OneVoice
  Scenarios <- AnyThree
  Applied <- SomeConfigs
  Stores <- SomeStores
  MaxCrashes = 0
INVARIANTS
  ModelUseSticks
