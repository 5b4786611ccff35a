SPECIFICATION Spec
CONSTANTS
  Addr = {a1}
  Zero = zero
  AddrCmds = {"PRBS_S2M", "TS"}
  ZeroCmds = {"IS_YOU", "VOLUME", "UPDATE"}
  GroupCmds = {"TS"}
  UseFU = TRUE
  MaxCalls = 3
  MaxDisconnects = 1
  MaxClears = 1
INVARIANTS TypeOK BusyIsExact SendingHasOperation
PROPERTIES NoSilentLoss CompletionIsFinal DequeuedMeansStarted
