SPECIFICATION FairSpec
CONSTANTS
  NumIfaces = 1
  BusThreads = {b1, b2}
  NoThread = NoThread
  MaxValue = 2
  MruValues = 2
  Params = {"IdleDisconnectTime", "MaxMRUSize", "Username", "Password",
            "ACName"}
  CredsFromPsm = TRUE
  DynamicLower = FALSE
  Requests <- OneIface
  Names <- OneName
  Auths <- ChapOnly
  MaxCalls = 2
  MaxSessions = 1
  MaxCrashes = 1
  MaxFaults = 1
INVARIANTS TypeOK SavedIsSnapshot AckedSurvives LastSessionKnown
PROPERTIES ImplementsStore CallsAnswered
CHECK_DEADLOCK FALSE
