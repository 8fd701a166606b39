\* A signal while the last task of a file is on its way.
CONSTANTS
  b1 = b1
  b2 = b2
  Plots <- OneDrive
  GlobalWorkSize = 1
  Buffers = 2
  Blocks = {b1, b2}
  BenchMode = 0
  NoncesPerWrite = 1
  IntRange = 128
  MaxFaults = 0
  Signals = TRUE
SPECIFICATION Spec
INVARIANT FinalIsIntact
CHECK_DEADLOCK FALSE
