SPECIFICATION FairSpec
CONSTANTS
  p1 = p1
  p2 = p2
  b1 = b1
  b2 = b2
  d1 = d1
  d2 = d2
  d3 = d3
  d4 = d4
  q1 = q1
  q2 = q2
  q3 = q3
  q4 = q4
  k1 = k1
  k2 = k2
  w1 = w1
  w2 = w2
  m1 = m1
  c1 = c1
  c2 = c2
  c3 = c3
  t1 = t1
  t2 = t2
  Processes <- TwoProcesses
  Settings <- AllSettings
  MaxBoots = 3
  MaxLegFaults = 1
  BreakerCalls <- TwoCalls
  FailureThreshold = 2
  HalfOpenMax = 1
  MaxTrips = 2
  MaxFailures = 2
  MaxProbes = 2
  CampaignRows <- FourRows
  Usd <- UsdOf
  Usdcx <- UsdcxOf
  RowCap = 120
  Requests <- FourRequests
  Keys <- TwoKeys
  KeyOf <- KeyOfRequest
  Complete <- CompleteRequests
  Workers <- TwoWorkers
  Monitors <- OneMonitor
  Checks <- ThreeChecks
  AlertKeys <- TwoAlerts
  KeysOf <- KeysOfCheck
  PoolSize = 2
  ConnectTimeout = TRUE
  MaxMishaps = 1
INVARIANTS
  RoutingTypeOK
  PaidOnceButForLosses
  ConfirmedByIssuer
  RefNamesItsIssuer
  BreakerTypeOK
  ProbesBounded
  TripsOnRealFailures
  CampaignTypeOK
  OnePaidPerCampaign
  BlockedOnlyByGrowth
  IntakeTypeOK
  OnePreflightAtATime
  MonitorTypeOK
  RunsMoveOn
PROPERTIES
  PaidIsConfirmed
  BreakerReopens
  ImplementsKeyedCreate
  NewRowsStart
  RunsEnd
  DueIsTold
CHECK_DEADLOCK FALSE
