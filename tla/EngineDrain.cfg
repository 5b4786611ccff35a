SPECIFICATION FairBookSpec
CONSTANTS
  Addr = {a1, a2}
  Zero = zero
  AddrCmds = {"TC"}
  ZeroCmds = {"UPDATE"}
  GroupCmds = {"VERS"}
  UseFU = FALSE
  MaxCalls = 2
  MaxDisconnects = 1
  MaxClears = 1
PROPERTIES AllWorkDrains EveryGroupEnds
