SPECIFICATION Spec
CONSTANTS
  w1 = w1
  r1 = r1
  c1 = c1
  c2 = c2
  h1 = h1
  Workers <- Nobody
  Reapers <- Nobody
  Clients <- TwoClients
  Hooks <- Nobody
  Reconcilers <- Nobody
  MaxBurns = 2
  MaxRetries = 1
  RetryCap = 1
  MaxFaults = 0
  Oldest = 0
  PayoutRejected = FALSE
VIEW View
SYMMETRY Symmetry
PROPERTIES
  RetryResumes
CHECK_DEADLOCK FALSE
