SPECIFICATION FairSpec
CONSTANTS
  t1 = t1
  t2 = t2
  r1 = r1
  r2 = r2
  r3 = r3
  NicThread = nic
  None = None
  Threads <- OneThread
  Requests <- TwoRequests
  Calls <- AllCalls
  StickyWakeup = FALSE
CHECK_DEADLOCK FALSE
INVARIANTS SleeperOnReadyWasWoken OnlyAcceptAndCloseSleepUntimed
PROPERTIES IsBlockingCall CallsReturnUnlessForgotten
