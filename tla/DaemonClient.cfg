\* Commands and a concurrent user, against any daemon.
SPECIFICATION FairSpec
CONSTANTS
  Programs <- AllPrograms
  MaxRequests = 5
  MaxNotes = 2
  MaxTransit = 2
  Said = {"ok", "accepted", "synthesis_failed"}
INVARIANTS
  TypeOK
  NoFailureWithoutTimeout
  HeardEverything
PROPERTIES
  ProgramEnds
