\* A fiber sleeps for less than a millisecond; the int clock is positive.
SPECIFICATION Spec
CONSTANTS
  Fiber = {a}
  FD = {f1}
  None = None
  MaxEvents = 1
  Half = 64
  Epoch = 1
  RolloverSlack = 1
  MaxUptime = 3
  Delays = {0, 1}
  IoTimeouts = {None}
  Conditions = {"READ"}
  MaxTimeout = 2
  SlowReadings = FALSE
  MaxOps = 1
INVARIANT
  IdleWaitBounded
CHECK_DEADLOCK FALSE
