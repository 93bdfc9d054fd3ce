SPECIFICATION FairSpec
CONSTANTS
  a1 = a1
  a2 = a2
  r1 = r1
  r2 = r2
  None = None
  Unspecified = Unspecified
  Retries = 2
  Cidrs <- TwoCidrs
  Routers <- TwoRouters
CHECK_DEADLOCK FALSE
INVARIANTS TypeOK AddressIsLastLease
PROPERTY LeaseWhilePolled
