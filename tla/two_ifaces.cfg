\* Two interfaces in the USE_PPP_DAEMON build: the lookup by pid, the mutex of each
\* entry and the calls to WanManager, which calls in with its own mutex held.
\* Deadlock is checked: the queue never fills up.
SPECIFICATION Spec
CONSTANTS
  NumIfaces = 2
  Pids = {p1, p2}
  NoPid = NoPid
  Ipc = Ipc
  DmlThreads = {d1}
  NoThread = NoThread
  QueueCap = 12
  UsePppDaemon = TRUE
  LinkType = "PPPoE"
  Payloads <- SessionPayloads
  Callers = {"WanManager", "other"}
  MaxMsgs = 2
  MaxCalls = 2
  MaxFaults = 1
SYMMETRY Symmetry
INVARIANTS
  MutualExclusion
  UpIsReported
  DeliveredInOrder
  NoBusCallUnderMutex
  NoHoldAndWait
PROPERTIES
  ImplementsChannel
  StepsRunOut
