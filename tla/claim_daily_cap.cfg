SPECIFICATION Spec
CONSTANTS
  d1 = d1
  d2 = d2
  d3 = d3
  a1 = a1
  a2 = a2
  p1 = p1
  p2 = p2
  Disbursements <- Three
  Executors <- Two
  Approvers <- TwoApprovers
  Amount <- AmountOf
  Cap = 6
  Threshold = 4
  MaxAged = 1
SYMMETRY Symmetry
INVARIANTS
  DailyCapHolds
CHECK_DEADLOCK FALSE
