\* The default build, WanManager as the caller.
SPECIFICATION Spec
CHECK_DEADLOCK FALSE
CONSTANTS
  NumIfaces = 1
  Pids = {p1, p2}
  NoPid = NoPid
  Ipc = Ipc
  DmlThreads = {d1}
  NoThread = NoThread
  QueueCap = 12
  UsePppDaemon = FALSE
  LinkType = "PPPoE"
  Payloads <- SessionPayloads
  Callers = {"WanManager", "other"}
  MaxMsgs = 2
  MaxCalls = 2
  MaxFaults = 0
INVARIANTS
  NoLockCycle
