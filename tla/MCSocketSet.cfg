SPECIFICATION Spec
CONSTANTS
  t1 = t1
  t2 = t2
  c1 = c1
  c2 = c2
  None = None
  Threads <- TwoThreads
  Clients <- TwoClients
  PortSpace = 3
  MaxSockets = 4
SYMMETRY Symmetric
CHECK_DEADLOCK FALSE
INVARIANTS TypeOK PortsApart HandleNamesOneConnection OrphansAreLate
