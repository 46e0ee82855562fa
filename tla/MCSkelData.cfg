CONSTANTS
  MaxMmaps = 2
  Fds <- TwoBuffers
  Sizes <- UnitSize
  Vas <- TwoVas
  MaxObj = 0
  BufSeqs <- NoBatches
  TenSeqs <- NoBatches
  Batches <- MCDataBatches
  KernelTable <- MCKernelTable
  MaxBufs = 8
  MaxTensors = 8
  MaxInvokes = 2
  CellsPerBuf = 1
  Junk = Junk
  NoLine = NoLine
SPECIFICATION DataSpec
INVARIANTS
  OkMeansComputed
  RefusedTouchesNothing
  NoStaleLine
