CONSTANTS
  service = service
  m1 = m1
  m2 = m2
  None = None
  Mutator <- TwoMutators
  Worker = service
  Diagnostician <- OneThread
  MaxCycles = 2
  MaxFaults = 2
  JobResumeFails = TRUE
  MaxAttempts = 2
  MaxSections = 1
SPECIFICATION Spec
INVARIANTS
  StoppedNotProtected
  CyclesClean
CHECK_DEADLOCK FALSE
