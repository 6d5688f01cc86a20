CONSTANTS
  t1 = t1
  t2 = t2
  main = main
  gc = gc
  Reaper = Reaper
  None = None
  Thread <- TwoThreads
  Host <- OneHost
  Borrower <- Collector
SPECIFICATION FairSpec
INVARIANTS
  BorrowedThreadRuns
  OneReclaimer
  StackOutlivesThread
  StackAccounting
PROPERTIES
  TeardownEnds
CHECK_DEADLOCK FALSE
