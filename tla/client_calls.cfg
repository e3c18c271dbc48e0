SPECIFICATION Spec
CONSTANTS
  Threads = {t1, t2}
  NoThread = NoThread
  Contexts = {c1}
  NoContext = NoContext
  Handles = {h1}
  NoHandle = NoHandle
  Names = {"CONNECT", "DISCONNECT", "STATUS", "WATCH", "WATCH_FOR", "CANCEL", "RELEASE", "LIST_GROUPS"}
  MaxEvents = 2
  MaxWaiting = 2
  CounterWrap = 2
SYMMETRY MCSymmetry
VIEW MCView
CONSTRAINT MCInStep
INVARIANTS AnswersMatch MutexReturned HandlesAgree
PROPERTIES CardChangeSeen
CHECK_DEADLOCK FALSE
