SPECIFICATION BookSpec
CONSTANTS
  Addr = {a1, a2}
  Zero = zero
  AddrCmds = {"TC"}
  ZeroCmds = {}
  GroupCmds = {"VERS"}
  UseFU = FALSE
  MaxCalls = 3
  MaxDisconnects = 1
  MaxClears = 0
INVARIANTS GroupMembersInFlight PendingGroupHasWakeup
PROPERTIES EveryGroupIsServed DroppedByDisconnectOnly
SYMMETRY Symmetry
