CONSTANTS
  Tensors <- MCTensors
  Requests <- MCRequests
  Align = 2
  Graphs <- ReshapeGraphs
  Budgets <- MCBudgets
  Chunk = 2
  Buffers = 2
SPECIFICATION WholeSpec
INVARIANTS
  AliasedStorageApart
