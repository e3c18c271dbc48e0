SPECIFICATION Spec
CONSTANTS
  Devices = {"r1", "r2"}
  Libraries = {"vendor", "class"}
  Callers = {a}
  Entries <- MCEntries
  DriverTracker <- MCDrivers
  ReaderName <- MCReaderName
  Slots <- MCSlots
  Simultaneous <- MCSimultaneous
  ThreadSafe = {}
  SlotThreadSafe = {}
  DriverFails = {"load", "status"}
  MaxEvents = 3
  NULL = NULL
CONSTRAINT NothingWrong
ACTION_CONSTRAINT OneUnplugged
VIEW MCView
INVARIANTS CountersCountReaders CallKeepsReader NoOrphan
PROPERTY NamesSpec
CHECK_DEADLOCK FALSE
