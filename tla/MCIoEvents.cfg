\* Two descriptors and three fibers; epoll_wait returns one event at a time.
SPECIFICATION Spec
CONSTANTS
  FD = {f1, f2}
  Waiter = {w1, w2, w3}
  None = None
  MaxEvents = 1
SYMMETRY Symmetry
INVARIANTS
  TypeOK
  PendingExact
  KernelCovers
  NoMissedEdge
  WaiterOnce
PROPERTIES
  NoLostWaiter
  ReaderWokenWhenReady
CHECK_DEADLOCK FALSE
