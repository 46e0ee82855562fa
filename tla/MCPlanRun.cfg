CONSTANTS
  Tensors <- MCTensors
  Requests <- MCRequests
  Align = 2
  Graphs <- MCGraphs
  Budgets <- MCBudgets
  Chunk = 2
  Buffers = 2
SPECIFICATION WholeSpec
INVARIANTS
  LiveBytesKept
  PlanReplays
  OutputsRight
  BytesAsPredicted
  OwnChecksSilent
