\* One drive filled to the end, also behind a multiple of NonceRange, or one or
\* two of them and a limit on the nonces, by runs that end anywhere.
CONSTANTS
  Drives = {"D", "E"}
  Uses <- LastingUses
  StartNonce = 104
  NonceRange = 32
  MaxNoncesPerFile = 8
  Aligns <- SmallAligns
  IntMax = 15
SPECIFICATION FairSpec
INVARIANTS TypeOK NoNonceTwice LoneDriveFits ResumesUnfinished FillsDrives
PROPERTY GetsDone
CHECK_DEADLOCK FALSE
