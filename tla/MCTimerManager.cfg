\* Two timers; the clock is set back within and beyond the rollover slack;
\* nothing is truncated.
SPECIFICATION Spec
CONSTANTS
  Timer = {t1, t2}
  Durations = {1, 2}
  Half = 64
  Epoch = 0
  RolloverSlack = 1
  SetBacks = {1, 3}
  MaxUptime = 3
SYMMETRY Symmetry
INVARIANTS
  KeysDistinct
  LiveMembers
  DeadlineKept
PROPERTIES
  NoSilentLoss
  ImplementsTimerService
CHECK_DEADLOCK FALSE
