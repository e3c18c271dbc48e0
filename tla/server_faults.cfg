SPECIFICATION ServerSpec
CONSTANTS
  Codes = {c1, c2}
  InitPin = c1
  InitPuk = u0
  Texts = {t1}
  Keys = {k1, k2, k3}
  Requests <- HostRequests
  MaxTries = 2
  Capacity = 4
  Empty = Empty
  Blank = Blank
  Noise = Noise
  NoKey = NoKey
  Threads = {p1}
  Operations <- AllOperations
  UserCodes = {c1, c2}
  MaxFaults = 2
  None = None
  Error = Error
SYMMETRY KeySymmetry
ACTION_CONSTRAINT OneHalf
INVARIANTS AnswersOwnRequest ReplyHolds UsableInstance
