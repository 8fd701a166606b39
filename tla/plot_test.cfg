\* Covering steps: 1, 3, 4 (by default) and 9; a step that is not: 5.
CONSTANTS
  NumHashes = 8
  MessageCap = 2
  PlotId <- SomeId
  Nonces <- SomeNonces
  DefaultStep = 4
  StepArgs = {0, 1, 3, 5, 9}
  QueueLimit = 2
  Chunks = {0, 24, 40, 64, 65}
  MaxFed = 130
  Tails <- SomeTails
SPECIFICATION TestSpec
INVARIANTS
  TestTypeOK
  DigestOfMessage
  FreshIsPrefixed
  KernelHashIsRight
  ChainAbove
  LastSliceEnds
  PlotIsCombined
  PlotIsRight
PROPERTY PlotReturns
\* The last plot may be the end.
CHECK_DEADLOCK FALSE
