\* A file written, and verified after the disk damaged it.
CONSTANTS
  NoncesVector = 4
  NumHashes = 4
  HashWords = 2
  IntRange = 256
  Blank = Blank
  Sector = 2
  MaxFaults = 1
  Uses <- SmallUses
  StartNonce = 100
  ScoopsPerWrite = 4
  Verifications <- SmallVerifications
  DamagePlaces <- SomePlaces
  MaxDamage = 1
SPECIFICATION Spec
INVARIANTS VerifyTypeOK WrittenRight AlignedIO VerdictIsRight AcceptsPlots
PROPERTY StoreSpec
CHECK_DEADLOCK FALSE
