CONSTANTS
  MaxMmaps = 1
  Fds <- OneBuffer
  Sizes <- UnitSize
  Vas <- OneVa
  MaxObj = 0
  BufSeqs <- NoBatches
  TenSeqs <- NoBatches
  Batches <- MCControlBatches
  KernelTable <- MCKernelTable
  MaxBufs = 8
  MaxTensors = 8
  MaxInvokes = 2
  CellsPerBuf = 1
  Junk = Junk
  NoLine = NoLine
SPECIFICATION FairSkelSpec
INVARIANTS
  SkelTypeOK
  KernelOwnsVtcm
  HoldingIsRecorded
  SessionReturnsVtcm
  ReclaimedMeansReturned
  ResponseHonest
PROPERTIES
  LeaseImplemented
  RivalServed
  CallReturns
