SPECIFICATION UpdateSpec
CONSTANTS
  Addr = {a1}
  Zero = zero
  AddrCmds = {}
  ZeroCmds = {}
  GroupCmds = {"VERS", "PROGRAMM"}
  UseFU = FALSE
  MaxCalls = 40
  MaxDisconnects = 0
  MaxClears = 60
  Blocks = 1
  MaxSessions = 1
  MaxForeign = 0
  GroupSignal = FALSE
PROPERTY GroupOutcomeIsSeen
