\* What gets to the disk while disks and memory fail and nobody stops the
\* program.
CONSTANTS
  b1 = b1
  b2 = b2
  Plots <- TwoDrives
  GlobalWorkSize = 2
  Buffers = 2
  Blocks = {b1, b2}
  BenchMode = 0
  NoncesPerWrite = 1
  IntRange = 128
  MaxFaults = 2
  Signals = FALSE
SPECIFICATION FairSpec
INVARIANTS
  TypeOK
  BlockOwnership
  FlightAccounting
  NonceConservation
  WritesInOrder
  HashedBlockIntact
  FinalIsIntact
PROPERTY Finishes
CHECK_DEADLOCK FALSE
