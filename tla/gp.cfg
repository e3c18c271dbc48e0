SPECIFICATION Spec
CONSTANTS
  BlockSize = 239
  MaxBlocks = 3
  ChainLength = 4
  CardKinds <- MCCards
  Keys = {k0, k1}
  FirstKey = k0
  Files <- MCFiles
  Levels = {1, 3}
  RawCases = {2, 3, 4}
  RawLengths = {240, 249}
  Most = 2
  MaxFaults = 1
  MaxElements = 1
  MaxCommands = 3
  MaxScripts = 2
  NULL = NULL
INVARIANTS BeliefHolds SessionAgrees RightKeyOpens LoadFits ExecutedIsReported
ACTION_CONSTRAINT Usual
PROPERTIES NoGap
CHECK_DEADLOCK FALSE
