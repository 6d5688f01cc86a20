CONSTANTS
  t1 = t1
  t2 = t2
  a1 = a1
  a2 = a2
  b1 = b1
  b2 = b2
  Thread <- TwoThreads
  Address <- Colliding
  Bit <- TwoBits
  MaxWord = 1
  Bucket <- HashOf
  None = None
SPECIFICATION FairSpec
INVARIANTS
  QueueIntegrity
PROPERTIES
  ImplementsPromise
  WakeDelivered
  UnwokenWaitsEnd
