SPECIFICATION Spec
CONSTANTS
  Addr = {a1}
  Zero = zero
  AddrCmds = {"VERS", "PROGRAMM"}
  ZeroCmds = {}
  GroupCmds = {}
  UseFU = FALSE
  MaxCalls = 2
  MaxDisconnects = 0
  MaxClears = 0
PROPERTY ProgrammIsConfirmed
