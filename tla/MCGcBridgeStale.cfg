CONSTANTS
  service = service
  m1 = m1
  m2 = m2
  None = None
  Mutator <- TwoMutators
  Worker = service
  Diagnostician <- NoThreads
  MaxCycles = 2
  MaxFaults = 0
  JobResumeFails = FALSE
  MaxAttempts = 2
  MaxSections = 0
SPECIFICATION Spec
INVARIANT WorldStopped
CHECK_DEADLOCK FALSE
