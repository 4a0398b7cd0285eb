SPECIFICATION RoutingFairSpec
CONSTANTS
  p1 = p1
  p2 = p2
  Processes <- TwoProcesses
  Settings <- TwoSettings
  MaxBoots = 2
  MaxLegFaults = 0
PROPERTIES
  SwitchOrphansNothing
CHECK_DEADLOCK FALSE
