CONSTANTS
  MaxMmaps = 2
  Fds <- MCFds
  Sizes <- MCSizes
  Vas <- MCVas
  MaxObj = 1
  BufSeqs <- MCBufSeqs
  TenSeqs <- MCTenSeqs
SPECIFICATION BufsSpec
INVARIANTS
  BufsTypeOK
  OneSlotPerFd
  HostViewAgrees
  SlotsBacked
  AddressesSound
