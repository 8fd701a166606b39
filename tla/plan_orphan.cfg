\* Two drives: what a run leaves behind may not be plotted again.
CONSTANTS
  Drives = {"D", "E"}
  Uses <- TwoDriveUses
  StartNonce = 104
  NonceRange = 1024
  MaxNoncesPerFile = 8
  Aligns <- SmallAligns
  IntMax = 15
SPECIFICATION Spec
INVARIANT PlanFits
CHECK_DEADLOCK FALSE
