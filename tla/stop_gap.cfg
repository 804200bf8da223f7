\* USE_PPP_DAEMON: Disable between the lookup of a pid and the handler.
SPECIFICATION Spec
CHECK_DEADLOCK FALSE
CONSTANTS
  NumIfaces = 1
  Pids = {p1, p2}
  NoPid = NoPid
  Ipc = Ipc
  DmlThreads = {d1}
  NoThread = NoThread
  QueueCap = 12
  UsePppDaemon = TRUE
  LinkType = "PPPoE"
  Payloads <- SessionPayloads
  Callers = {"WanManager", "other"}
  MaxMsgs = 2
  MaxCalls = 2
  MaxFaults = 0
INVARIANTS
  DisabledIsNotUp
