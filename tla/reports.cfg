\* The default build (rp-pppoe over PPPoE), one bus thread, a queue of three.
\* Enough messages to report a session Up and Down and calls to race with them.
\* The manager may halt for good on a full queue (see queue_deadlock), so that
\* deadlock is not checked here.
SPECIFICATION Spec
CHECK_DEADLOCK FALSE
CONSTANTS
  NumIfaces = 1
  Pids = {p1, p2}
  NoPid = NoPid
  Ipc = Ipc
  DmlThreads = {d1}
  NoThread = NoThread
  QueueCap = 3
  UsePppDaemon = FALSE
  LinkType = "PPPoE"
  Payloads <- ReportPayloads
  Callers = {"WanManager", "other"}
  MaxMsgs = 2
  MaxCalls = 2
  MaxFaults = 1
SYMMETRY Symmetry
INVARIANTS
  UpIsReported
  EndIsReported
  Ipv4BehindUp
  DuidBehindUp
  DeliveredInOrder
