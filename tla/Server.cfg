SPECIFICATION FairSpec
CONSTANTS
  e1 = e1
  e2 = e2
  e3 = e3
  e4 = e4
  None = None
  Events = {e1, e2, e3, e4}
  QueueSize = 2
INVARIANTS
  TypeOK
  Conservation
  CloseFlushes
  CleanExitLosesNothing
  UsersFindItOpen
  
PROPERTIES
  ShutdownEnds
  AcceptedIsAttempted
  ImplementsLossyQueue
