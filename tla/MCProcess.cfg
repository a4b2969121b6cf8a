SPECIFICATION MCSpec
CONSTANTS
  MaxTid = 4
  Statuses = {0, 1}
  Worlds = {"orderly", "hard"}
INVARIANTS
  OrderlyNobodyStuck
  OrderlyReportLands
  ExitDataOwned
PROPERTIES
  WaitExact
  OrderlyExecTruthful
CHECK_DEADLOCK FALSE
