SPECIFICATION ScenarioSpec
CONSTANTS
  Addr = {a1, a2}
  Commands = {"TC"}
  MaxLoads = 1
  MaxRuns = 1
  MaxUpdates = 0
  MaxOthers = 1
  MaxOrders = 1
PROPERTY WaitTrueIsOwn
CHECK_DEADLOCK FALSE
