SPECIFICATION Spec
CONSTANTS
  t1 = t1
  t2 = t2
  None = None
  Threads <- TwoThreads
  Capacity = 2
CHECK_DEADLOCK FALSE
PROPERTY AcceptWaitsForConnection
