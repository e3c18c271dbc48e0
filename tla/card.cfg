\* One card, with every instruction, loss of power inside them included.
SPECIFICATION MCSpec
CONSTANTS
  Codes = {c1, c2}
  InitPin = c1
  InitPuk = u0
  Texts = {t1}
  Keys = {k1, k2}
  Requests <- MCRequests
  MaxTries = 2
  Capacity = 3
  Empty = Empty
  Blank = Blank
  Noise = Noise
  NoKey = NoKey
SYMMETRY KeySymmetry
VIEW View
CONSTRAINT OtherHalfUntouched
INVARIANTS TypeOK SecretsOnlyWhileUnlocked PendingCodeInForce
PROPERTIES PinChangesWithPuk DeadForever PasswordNotLost
