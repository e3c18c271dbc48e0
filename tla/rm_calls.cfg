SPECIFICATION Spec
CONSTANTS
  Clients = {a, b}
  Handles = {h1, h2}
  NoHandle = NoHandle
  Atrs <- MCAtrs
  maxReaderHandles = 2
  contextMaxCardHandles = 1
  ShareModes = {"SHARED", "EXCLUSIVE"}
  Preferences <- MCPreferences
  Dispositions = {"LEAVE", "RESET"}
  DriverAnswers = {"SUCCESS"}
  ReaderFails = TRUE
  MaxLockCount = 2
SYMMETRY Symmetry
CONSTRAINT MCConstraint
ACTION_CONSTRAINT MCNoNewCard
VIEW MCView
INVARIANTS ContextsCountHandles LockHeldByOpenHandle TransactionKept ResetIsTold AtrReadAsISO
CHECK_DEADLOCK FALSE
