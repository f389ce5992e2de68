\* Five frames of a loaded engine, safety and liveness.
SPECIFICATION FairSpec
CONSTANTS
  Offered <- LoadedSession
  MaxChunks = 1
  Awaited = 2
  MaxAhead = 1
INVARIANTS
  BusyOnlyWhileUnanswered
  ShutdownAnswersEverything
PROPERTIES
  CancelFindsItsJob
  CancelIsPrompt
  HandledIsAnswered
  EndsAfterInput
