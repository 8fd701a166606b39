\* A plan of more nonces than an int can count; bench mode will do.
CONSTANTS
  b1 = b1
  b2 = b2
  Plots <- FullDrive
  GlobalWorkSize = 1
  Buffers = 2
  Blocks = {b1, b2}
  BenchMode = 3
  NoncesPerWrite = 1
  IntRange = 2
  MaxFaults = 0
  Signals = FALSE
SPECIFICATION FairSpec
PROPERTY Finishes
CHECK_DEADLOCK FALSE
