CONSTANTS
  t1 = t1
  t2 = t2
  e1 = e1
  f1 = f1
  f2 = f2
  None = None
  Thread <- TwoThreads
  Open <- OneOpen
  File <- TwoFiles
  High <- TwoHigh
  Low <- ThreeLow
  Stripe <- Parity
  MaxAliases = 2
  Blocking = FALSE
  WindowRaces = TRUE
SPECIFICATION Spec
SYMMETRY Symmetry
INVARIANTS
  ReplacementAtomic
