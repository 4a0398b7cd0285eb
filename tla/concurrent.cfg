SPECIFICATION BothSpec
CONSTANTS
  d1 = d1
  d2 = d2
  d3 = d3
  a1 = a1
  a2 = a2
  p1 = p1
  p2 = p2
  m1 = a1
  m2 = a2
  c1 = d3
  c2 = d1
  c3 = d2
  t1 = t1
  Disbursements <- Three
  Executors <- Two
  Approvers <- TwoApprovers
  Amount <- AmountOf
  Cap = 6
  Threshold = 3
  MaxAged = 1
  Monitors <- TwoMonitors
  Checks <- ThreeChecks
  AlertKeys <- OneAlert
  KeysOf <- KeysOfCheck
  PoolSize = 2
  ConnectTimeout = TRUE
  MaxMishaps = 1
SYMMETRY SymmetryOfBoth
INVARIANTS
  TypeOK
  CapHonoured
  LargeNeedsTwo
  NoAlertStorm
CHECK_DEADLOCK FALSE
