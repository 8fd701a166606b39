\* A damaged nonce between two batches.
CONSTANTS
  NoncesVector = 4
  NumHashes = 4
  HashWords = 2
  IntRange = 256
  Blank = Blank
  Sector = 2
  MaxFaults = 1
  Uses <- OneUse
  StartNonce = 100
  ScoopsPerWrite = 4
  Verifications <- OneVerification
  DamagePlaces <- SomePlaces
  MaxDamage = 1
SPECIFICATION Spec
INVARIANT GoodIsWhole
CHECK_DEADLOCK FALSE
