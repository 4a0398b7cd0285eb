SPECIFICATION Spec
CONSTANTS
  w1 = w1
  r1 = r1
  c1 = c1
  c2 = c2
  h1 = h1
  Workers <- OneWorker
  Reapers <- Nobody
  Clients <- Nobody
  Hooks <- Nobody
  Reconcilers <- Nobody
  MaxBurns = 2
  MaxRetries = 1
  RetryCap = 1
  MaxFaults = 1
  Oldest = 1
  PayoutRejected = FALSE
INVARIANTS
  BurnOnce
CHECK_DEADLOCK FALSE
