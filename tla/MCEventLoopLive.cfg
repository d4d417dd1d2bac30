\* Liveness: two fibers, one descriptor, a negative int clock (108 is -20 in an
\* int of 7 bits) that does not advance between two readings of one pass.
\* No symmetry: it is not sound for liveness.
SPECIFICATION FairSpec
CONSTANTS
  Fiber = {a, b}
  FD = {f1}
  None = None
  MaxEvents = 1
  Half = 64
  Epoch = 108
  RolloverSlack = 1
  MaxUptime = 2
  Delays = {1}
  IoTimeouts = {1, None}
  Conditions = {"READ"}
  MaxTimeout = 1
  SlowReadings = FALSE
  MaxOps = 2
CHECK_DEADLOCK FALSE
PROPERTIES
  ScheduledRuns
  TimedCallEnds
  LoopExits
