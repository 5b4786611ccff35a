SPECIFICATION UpdateSpec
CONSTANTS
  Addr = {a1}
  Zero = zero
  AddrCmds = {"CLEAN", "VERS"}
  ZeroCmds = {"IS_YOU"}
  GroupCmds = {"VERS", "PROGRAMM"}
  UseFU = FALSE
  MaxCalls = 40
  MaxDisconnects = 0
  MaxClears = 60
  Blocks = 2
  MaxSessions = 2
  MaxForeign = 1
  GroupSignal = TRUE
INVARIANTS UpdateTypeOK BlocksInOrder SuccessMeansSent
PROPERTY BlockDataHasOneUser
