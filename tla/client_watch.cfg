SPECIFICATION FairSpec
CONSTANTS
  Threads = {t1}
  NoThread = NoThread
  Contexts = {c1}
  NoContext = NoContext
  Handles = {h1}
  NoHandle = NoHandle
  Names = {"WATCH", "WATCH_FOR", "CONNECT", "RECONNECT", "DISCONNECT", "BEGIN", "END", "STATUS", "CONTROL", "ATTRIB", "TRANSMIT", "LIST_READERS", "LIST_GROUPS", "RELEASE"}
  MaxEvents = 3
  MaxWaiting = 2
  CounterWrap = 2
CONSTRAINT MCInStep
INVARIANT FedBackQuiet
PROPERTY EventReported
CHECK_DEADLOCK FALSE
