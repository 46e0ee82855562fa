CONSTANTS
  Tensors <- MCTensors
  Requests <- MCRequests
  Align = 2
  Graphs <- SharedGraphs
  Budgets <- MCBudgets
  Chunk = 2
  Buffers = 2
SPECIFICATION WholeSpec
INVARIANTS
  ConstsKeepTheirOwnRegion
