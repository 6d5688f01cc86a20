CONSTANTS
  service = service
  m1 = m1
  m2 = m2
  None = None
  Mutator <- ThreeMutators
  Worker = service
  Diagnostician <- NoThreads
  MaxCycles = 1
  MaxFaults = 1
  JobResumeFails = FALSE
  MaxAttempts = 2
  MaxSections = 1
SPECIFICATION FairSpec
INVARIANT WorldStopped
PROPERTY CollectionEnds
CHECK_DEADLOCK FALSE
