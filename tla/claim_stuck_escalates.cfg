SPECIFICATION FairSpec
CONSTANTS
  w1 = w1
  r1 = r1
  c1 = c1
  c2 = c2
  h1 = h1
  Workers <- OneWorker
  Reapers <- OneReaper
  Clients <- Nobody
  Hooks <- Nobody
  Reconcilers <- Nobody
  MaxBurns = 1
  MaxRetries = 1
  RetryCap = 1
  MaxFaults = 0
  Oldest = 2
  PayoutRejected = TRUE
PROPERTIES
  StuckRowsEscalate
CHECK_DEADLOCK FALSE
