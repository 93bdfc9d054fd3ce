SPECIFICATION FairSpec
CONSTANTS
  t1 = t1
  t2 = t2
  r1 = r1
  r2 = r2
  r3 = r3
  NicThread = nic
  None = None
  Threads <- TwoThreads
  Requests <- TwoRequests
  Calls <- AcceptAndRead
  StickyWakeup = TRUE
CHECK_DEADLOCK FALSE
PROPERTIES IsBlockingCall EveryCallReturns
