SPECIFICATION Spec
CONSTANTS
  NumIfaces = 1
  BusThreads = {b1}
  NoThread = NoThread
  MaxValue = 2
  MruValues = 2
  Params = {"IdleDisconnectTime", "MaxMRUSize", "Username", "Password",
            "ACName"}
  CredsFromPsm = TRUE
  DynamicLower = FALSE
  Requests <- OneIface
  Names <- OneName
  Auths <- ChapOnly
  MaxCalls = 1
  MaxSessions = 1
  MaxCrashes = 1
  MaxFaults = 0
CHECK_DEADLOCK FALSE
INVARIANTS RollbackRestores
