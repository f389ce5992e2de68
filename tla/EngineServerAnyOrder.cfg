\* Three frames of any kind, in any order.
SPECIFICATION Spec
CONSTANTS
  Offered <- AnyOrder
  MaxChunks = 1
  Awaited = 0
  MaxAhead = 3
INVARIANTS
  TypeOK
  MailboxIsFree
  BusyHasAJob
  RuntimeReleasedLast
PROPERTIES
  StateMovesLegally
  ImplementsService
