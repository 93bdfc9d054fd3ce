SPECIFICATION FairSpec
CONSTANTS
  Features <- SomeFeatures
  MaxEdits = 1
CHECK_DEADLOCK FALSE
INVARIANTS LinkedLibraryIsReady FreshMeansCurrent
PROPERTY RetrySucceeds
