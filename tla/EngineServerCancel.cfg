\* What the protocol document says of an accepted cancel.
SPECIFICATION Spec
CONSTANTS
  Offered <- LoadedSession
  MaxChunks = 1
  Awaited = 2
  MaxAhead = 1
INVARIANTS
  AcceptedCancelEndsCancelled
