\* IOManager(2): one thread of the pool and the caller, two fibers.
SPECIFICATION Spec
CONSTANTS
  f1 = f1
  f2 = f2
  Worker = {w1}
  Main = main
  UseCaller = TRUE
  Fiber = {f1, f2}
  Pinned = {f2}
  PinnedTo = w1
  None = None
  MaxYields <- TwoAndOne
INVARIANTS
  SwapInAssert
  NothingLost
  ListDrained
  LeftArmedLate
CHECK_DEADLOCK FALSE
