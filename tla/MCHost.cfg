CONSTANTS
  CommandLines <- MCCommandLines
  MaxBufs = 3
  IntMax = 3
  Lanes <- MCLanes
SPECIFICATION Spec
INVARIANTS
  HostTypeOK
  CleanExit
  OnlyHeldReleased
  StagedExactly
  ExitTruthful
PROPERTIES
  ProtocolKept
