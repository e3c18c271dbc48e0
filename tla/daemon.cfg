SPECIFICATION Spec
CONSTANTS
  MaxSpares = 2
  Missing = {"nowhere"}
  None = None
  Daemons = {d1, d2}
  Clients = {c1, c2}
  MaxContexts = 1
  Files <- MCFiles
  Systemd = Systemd
  MaxSignals = 2
  MaxFaults = 1
SYMMETRY MCSymmetry
CONSTRAINT MCTwoTroubles
ACTION_CONSTRAINT NoOverlap
INVARIANTS DaemonFound ListIsSequence ValuesToTheirOwner
PROPERTIES FatherKnows
CHECK_DEADLOCK FALSE
