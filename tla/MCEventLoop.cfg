\* Two fibers and one descriptor; the int clock is positive.
SPECIFICATION Spec
CONSTANTS
  Fiber = {a, b}
  FD = {f1}
  None = None
  MaxEvents = 1
  Half = 64
  Epoch = 1
  RolloverSlack = 1
  MaxUptime = 3
  Delays = {1, 2}
  IoTimeouts = {1, None}
  Conditions = {"READ", "WRITE", "ERR"}
  MaxTimeout = 2
  SlowReadings = TRUE
  MaxOps = 2
SYMMETRY Symmetry
INVARIANTS
  TypeOK
  WakerExists
  EntryOnce
  TimeoutMeetsItsWait
  NoEarlyWake
  DrainBeforeExit
CHECK_DEADLOCK FALSE
