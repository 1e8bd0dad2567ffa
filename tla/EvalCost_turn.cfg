SPECIFICATION CostFairSpec
CONSTANTS
  MaxCalls = 4
  MaxCost = 2
  Authorized = 3
  Reads = 3
PROPERTY ReportIsExact
PROPERTY TurnReports
CHECK_DEADLOCK FALSE
