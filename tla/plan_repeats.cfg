\* Three drives: the small file of the last one is finished before the large
\* one of the second.
CONSTANTS
  Drives = {"D", "E", "F"}
  Uses <- ThreeDriveUses
  StartNonce = 104
  NonceRange = 1024
  MaxNoncesPerFile = 8
  Aligns <- SmallAligns
  IntMax = 15
SPECIFICATION Spec
INVARIANT NoNonceTwice
CHECK_DEADLOCK FALSE
