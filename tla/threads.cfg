\* Two bus threads and the IPC thread on one interface, a queue of three that can
\* fill up: the mutex, and the processes that are started.
SPECIFICATION Spec
CHECK_DEADLOCK FALSE
CONSTANTS
  NumIfaces = 1
  Pids = {p1, p2, p3}
  NoPid = NoPid
  Ipc = Ipc
  DmlThreads = {d1, d2}
  NoThread = NoThread
  QueueCap = 3
  UsePppDaemon = FALSE
  LinkType = "PPPoE"
  Payloads <- SessionPayloads
  Callers = {"WanManager", "other"}
  MaxMsgs = 1
  MaxCalls = 3
  MaxFaults = 1
SYMMETRY Symmetry
INVARIANTS
  TypeOK
  MutexInv
  MutualExclusion
  OneClient
PROPERTIES
  NoForeignWrite
