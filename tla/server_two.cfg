SPECIFICATION ServerSpec
CONSTANTS
  Codes = {c1, c2}
  InitPin = c1
  InitPuk = u0
  Texts = {t1}
  Keys = {k1, k2, k3, k4}
  Requests <- HostRequests
  MaxTries = 1
  Capacity = 3
  Empty = Empty
  Blank = Blank
  Noise = Noise
  NoKey = NoKey
  Threads = {p1, p2}
  Operations <- RaceOperations
  UserCodes = {c1}
  MaxFaults = 0
  None = None
  Error = Error
SYMMETRY ConnectionSymmetry
PROPERTY SecretsReadUnlocked
CONSTRAINT TwoConnectionsBound
