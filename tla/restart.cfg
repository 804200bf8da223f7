\* The default build with a manager that ends and starts again.  Deadlock is not
\* checked: with an empty table a call waits for itself and the IPC thread for
\* that call.
SPECIFICATION ManagerFairSpec
CHECK_DEADLOCK FALSE
CONSTANTS
  NumIfaces = 1
  Pids = {p1, p2}
  NoPid = NoPid
  Ipc = Ipc
  DmlThreads = {d1}
  NoThread = NoThread
  QueueCap = 12
  UsePppDaemon = FALSE
  LinkType = "PPPoE"
  Payloads <- UpPayloads
  Callers = {"WanManager", "other"}
  MaxMsgs = 1
  MaxCalls = 1
  MaxFaults = 1
  MaxStops = 2
INVARIANTS
  ManagerTypeOK
  TableFirst
  UpIsReported
  DuidBehindUp
  DeliveredInOrder
PROPERTIES
  ImplementsChannel
  ComesUp
  CallsEnd
