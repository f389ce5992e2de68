\* What the design document says of a voice.clone over an existing voice.
SPECIFICATION FairSpec
CONSTANTS
  m1 = m1
  m2 = m2
  v1 = v1
  None = None
  Models <- TwoModels
  Voices <- OneVoice
  Scenarios <- AnyThree
  Applied <- SomeConfigs
  Stores <- SomeStores
  MaxCrashes = 0
PROPERTIES
  CloneKeepsAProfile
