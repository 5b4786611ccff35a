SPECIFICATION FairScenarioSpec
CONSTANTS
  Addr = {a1}
  Commands = {"TS"}
  MaxLoads = 1
  MaxRuns = 1
  MaxUpdates = 0
  MaxOthers = 0
  MaxOrders = 1
PROPERTY CloseEnds
CHECK_DEADLOCK FALSE
