SPECIFICATION FairSpec
CONSTANTS
  r1 = r1
  r2 = r2
  x1 = x1
  x2 = x2
  None = None
  RxHandles <- TwoRx
  TxHandles <- TwoTx
  MaxEgress = 2
CHECK_DEADLOCK FALSE
INVARIANTS TypeOK BorrowedOrRefused FrameReadWhileHeld
PROPERTY PollCommonEnds
