CONSTANTS
  Tensors <- MCTensors
  Requests <- MCRequests
  Align = 2
SPECIFICATION AllocSpec
INVARIANTS
  AllocTypeOK
  LiveApart
  SelfCheckSilent
  AcceptedIsComplete
PROPERTIES
  LowestGap
\* A call of allocate ends with its answer.
CHECK_DEADLOCK FALSE
