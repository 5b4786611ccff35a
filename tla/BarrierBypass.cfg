SPECIFICATION Spec
CONSTANTS
  Addr = {a1}
  Zero = zero
  AddrCmds = {}
  ZeroCmds = {"UPDATE"}
  GroupCmds = {"PROGRAMM"}
  UseFU = FALSE
  MaxCalls = 3
  MaxDisconnects = 0
  MaxClears = 0
PROPERTY StreamBarrier
