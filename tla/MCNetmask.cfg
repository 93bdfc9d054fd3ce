SPECIFICATION Spec
CONSTANTS
  Boot = boot
  NicThread = nic
  None = None
  Octets <- MaskOctets
CHECK_DEADLOCK FALSE
INVARIANTS PrefixIsMaskLength
