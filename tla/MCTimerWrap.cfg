\* Three timers and an int of three bits that overflows during the run.
SPECIFICATION Spec
CONSTANTS
  Timer = {t1, t2, t3}
  Durations = {1, 2}
  Half = 4
  Epoch = 2
  RolloverSlack = 1
  SetBacks = {}
  MaxUptime = 2
SYMMETRY Symmetry
INVARIANTS
  TypeOK
  KeysDistinct
PROPERTIES
  NoSilentLoss
CHECK_DEADLOCK FALSE
