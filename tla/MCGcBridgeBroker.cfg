CONSTANTS
  service = service
  m1 = m1
  m2 = m2
  None = None
  Mutator <- TwoMutators
  Worker = service
  Diagnostician <- OneThread
  MaxCycles = 1
  MaxFaults = 0
  JobResumeFails = FALSE
  MaxAttempts = 2
  MaxSections = 1
SPECIFICATION Spec
INVARIANT StoppedNotOwner
CHECK_DEADLOCK FALSE
