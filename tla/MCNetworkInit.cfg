SPECIFICATION FairSpec
CONSTANTS
  Boot = boot
  NicThread = nic
  None = None
  Octets <- MaskOctets
CHECK_DEADLOCK FALSE
INVARIANTS TypeOK WorkersFindNetwork RoundsDownToOctets
PROPERTY FramesHandled
