\* Two workers and a thread without hooks; a full table that has to grow.
SPECIFICATION Spec
CONSTANTS
  Caller = {w1, w2, main}
  Hooked = {w1, w2}
  Socket = {s1, s2}
  FirstSlots = 3
  Inherited = 3
  Limits = {5}
  ConnectLimits = {5}
  MaxFd = 4
  MaxFiles = 5
  MaxCalls = 4
  w1 = w1
  w2 = w2
SYMMETRY Alike
INVARIANTS
  ContextCurrent
  TableInRange
  NobodyForgotten
  HandlesExact
CHECK_DEADLOCK FALSE
