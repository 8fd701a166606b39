\* The nonces of the plan against the abstract job, and a signal at any time.
CONSTANTS
  b1 = b1
  b2 = b2
  Plots <- OneDrive
  GlobalWorkSize = 1
  Buffers = 2
  Blocks = {b1, b2}
  BenchMode = 0
  NoncesPerWrite = 1
  IntRange = 128
  MaxFaults = 1
  Signals = TRUE
SPECIFICATION FairSpec
PROPERTIES
  JobSpec
  StopReachesJoin
CHECK_DEADLOCK FALSE
