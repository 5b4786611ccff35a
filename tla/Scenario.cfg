SPECIFICATION FairScenarioSpec
CONSTANTS
  Addr = {a1}
  Commands = {"TS", "TC", "FU"}
  MaxLoads = 2
  MaxRuns = 2
  MaxUpdates = 1
  MaxOthers = 1
  MaxOrders = 1
INVARIANTS ScenarioTypeOK EngineOutlivesScript RunningFlagIsExact UpdateExcludesScript HandlerInsideWait RunsWhatIsLoaded PollSurvivesUpdate
PROPERTIES StopEndsScript LoadReturns WaitEnds
CHECK_DEADLOCK FALSE
