CONSTANTS
  Commands <- MCCommands
  MinTimeout = 1
  MaxTimeout = 2
  YesThreshold = 1
  Minute = 1
  Poll = 1
  Grace = 1
  Lag = 1
  Outputs <- MCOutputs
SPECIFICATION FairFarmSpec
INVARIANTS
  
  NeverAbandonsRunning
PROPERTIES
  VerdictReached
