SPECIFICATION Spec
CONSTANTS
  FD = {f1}
  Waiter = {w1, w2}
  None = None
  MaxEvents = 1
PROPERTY
  WriterWokenWhenReady
CHECK_DEADLOCK FALSE
