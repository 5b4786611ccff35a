SPECIFICATION FairUpdateSpec
CONSTANTS
  Addr = {a1, a2}
  Zero = zero
  AddrCmds = {"CLEAN"}
  ZeroCmds = {}
  GroupCmds = {"VERS", "PROGRAMM"}
  UseFU = FALSE
  MaxCalls = 40
  MaxDisconnects = 0
  MaxClears = 60
  Blocks = 1
  MaxSessions = 1
  MaxForeign = 1
  GroupSignal = TRUE
INVARIANTS StreamAfterBootloader
PROPERTY UpdateEnds
