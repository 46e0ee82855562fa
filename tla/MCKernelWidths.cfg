SPECIFICATION Spec
CONSTANTS
  LANES_FP16 = 64
  PF_H = 8
  PF_W = 64
  PF_PATCH = 4
  PF_GRID_H = 2
  PF_GRID_W = 16
  MM_B = 2
  MM_M = 6
  MM_K = 3
  T1_M = 2
  T2_M = 3
  T3_M = 2
  EP_K = 3
  RUNNER_MAX_N = 300
  Harnesses <- MCWidths
  RunnerInputs <- MCNone
INVARIANT KernelMeetsBaseline
CHECK_DEADLOCK FALSE
