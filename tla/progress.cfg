\* Liveness in the default build with a queue that never fills up.
SPECIFICATION FairSpec
CONSTANTS
  NumIfaces = 1
  Pids = {p1, p2}
  NoPid = NoPid
  Ipc = Ipc
  DmlThreads = {d1}
  NoThread = NoThread
  QueueCap = 12
  UsePppDaemon = FALSE
  LinkType = "PPPoE"
  Payloads <- SessionPayloads
  Callers = {"WanManager", "other"}
  MaxMsgs = 1
  MaxCalls = 2
  MaxFaults = 1
PROPERTIES
  CallsReturn
  ReportsArrive
