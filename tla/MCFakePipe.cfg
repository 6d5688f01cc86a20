CONSTANTS
  w1 = w1
  r1 = r1
  None = None
  Writer <- OneWriter
  Reader <- OneReader
  MaxSize = 3
  MaxRead = 2
  Atomic = 2
  MaxCapacity = 4
SPECIFICATION FairSpec
INVARIANTS
  NoMissedWakeup
PROPERTIES
  ImplementsStream
  PollReports
