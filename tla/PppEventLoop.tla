----------------------------- MODULE PppEventLoop -----------------------------
(***************************************************************************)
(* The running PppManager: the IPC thread (PppMgr_EventHandlerThread), the *)
(* message bus threads that call Interface_SetParamBoolValue, the          *)
(* recursive mutex of each interface entry, the bounded POSIX queue        *)
(* between them, the PPP client processes and WanManager.                  *)
(*                                                                         *)
(* A step runs from one point where another thread can interfere to the    *)
(* next: acquiring a mutex, a send to the queue, a call over the bus, the  *)
(* start of a process, a sleep.  PPP clients and WanManager are external.  *)
(***************************************************************************)
EXTENDS PppIface, Integers

CONSTANTS Ipc,           \* the IPC thread
          DmlThreads,    \* the bus threads that run data model calls
          NoThread,      \* the owner of a free mutex
          QueueCap,      \* MAX_QUEUE_LENGTH, the capacity of the queue
          UsePppDaemon,  \* USE_PPP_DAEMON: pppd itself instead of rp-pppoe
          LinkType,      \* Cfg.LinkType of the interfaces
          Payloads,      \* the <<state, arg>> pairs PPP clients send
          Callers,       \* who calls Set: "WanManager" holds its own mutex
          MaxMsgs,       \* bound on the messages sent by PPP clients
          MaxCalls,      \* bound on the data model calls
          MaxFaults      \* bound on the external failures

ASSUME ThreadsAssumption == /\ Ipc \notin DmlThreads
                            /\ NoThread \notin DmlThreads \cup {Ipc}
ASSUME QueueCapAssumption == QueueCap \in Nat \ {0}
ASSUME BuildAssumption == /\ UsePppDaemon \in BOOLEAN
                          /\ LinkType \in {"PPPoE", "PPPoA"}
ASSUME EnvironmentAssumption ==
         /\ Payloads \subseteq PppStates \X PppArgs
         /\ Callers \subseteq {"WanManager", "other"}
         /\ MaxMsgs \in Nat /\ MaxCalls \in Nat /\ MaxFaults \in Nat

Threads == DmlThreads \cup {Ipc}

\* The build in which PppMgr_StartPppClient asks WanManager for the name of
\* the lower layer while it holds the mutex of the entry.
QueriesLowerLayer == ~UsePppDaemon /\ LinkType = "PPPoE"

VARIABLES
  mgr,      \* "up", or "killed" by a signal
  entry,    \* PppTable
  owner,    \* the thread that holds mDataMutex of an entry
  depth,    \* how often that thread has locked it
  queue,    \* PPP_EVENT_QUEUE_NAME
  sock,     \* messages of PPP clients not yet received
  pc,       \* where each thread is
  todo,     \* the events a thread has still to send to the queue
  call,     \* the data model call a bus thread runs
  msg,      \* the IPC thread's sockMsg ...
  inst,     \* ... InstanceNumber, or the index of the scan for the pid ...
  ev,       \* ... eventMsg ...
  target,   \* ... and whether the WAN instance numbers it read are known
  proc,     \* the PPP client processes
  client,   \* the interface a process was started for
  wan,      \* the values of WanManager's parameters
  wanLock,  \* the call during which WanManager holds its own mutex
  posted,   \* history: the last value sent to the queue for a parameter
  lost,     \* history: what has failed on the way from entry to WanManager
  missed,   \* history: the manager has lost sight of a client that runs
  nMsgs, nCalls, nFaults

ifVars   == <<entry, owner, depth>>
ipcVars  == <<msg, inst, ev, target>>
procVars == <<proc, client>>
wanVars  == <<wan, wanLock>>
histVars == <<posted, lost, missed>>
vars == <<mgr, entry, owner, depth, queue, sock, pc, todo, call, msg, inst, ev,
          target, proc, client, wan, wanLock, posted, lost, missed,
          nMsgs, nCalls, nFaults>>

-----------------------------------------------------------------------------
(* Types.                                                                  *)

IpcPcs == {"boot", "exited", "sock", "find", "lcp", "ipcp", "ipv6cp", "upost",
           "post", "settle", "unlock", "mq", "read", "set", "wanscan",
           "start", "busget", "exec", "getpid"}
DmlPcs == {"idle", "lock", "dispatch", "stop", "stopped", "post", "start",
           "execpost", "return"}

Calls == [op : {"Enable", "Disable", "Reset"}, iface : Ifaces]
NoCall == [op |-> "Enable", iface |-> 1]

TypeOK ==
  /\ mgr \in {"up", "killed"}
  /\ entry \in [Ifaces -> Entry]
  /\ owner \in [Ifaces -> Threads \cup {NoThread}]
  /\ depth \in [Ifaces -> Int]              \* bounded by MutexInv
  /\ queue \in Seq(Event) /\ Len(queue) <= QueueCap
  /\ sock \in Seq(Message)
  /\ pc \in [Threads -> IpcPcs \cup DmlPcs]
  /\ pc[Ipc] \in IpcPcs /\ \A t \in DmlThreads : pc[t] \in DmlPcs
  /\ todo \in [Threads -> Seq(Event)]
  /\ call \in [DmlThreads -> Calls]
  /\ msg \in Message /\ inst \in Ifaces /\ ev \in Event /\ target \in BOOLEAN
  /\ proc \in [Pids -> {"free", "running", "dying", "dead"}]
  /\ client \in [Pids -> Ifaces]
  /\ wan \in [Ifaces -> [Keys -> {"Zero", "Up", "Down"}]]
  /\ wanLock \in DmlThreads \cup {NoThread}
  /\ posted \in [Ifaces -> [Keys -> {"Zero", "Up", "Down"}]]
  /\ lost \in [Ifaces -> SUBSET {"post", "set", "duid"}]
  /\ missed \in BOOLEAN
  /\ nMsgs \in Nat /\ nCalls \in Nat /\ nFaults \in Nat

Init ==
  /\ mgr = "up"
  /\ entry = [i \in Ifaces |-> InitEntry]
  /\ owner = [i \in Ifaces |-> NoThread]
  /\ depth = [i \in Ifaces |-> 0]
  /\ queue = << >> /\ sock = << >>
  /\ pc = [t \in Threads |-> IF t = Ipc THEN "boot" ELSE "idle"]
  /\ todo = [t \in Threads |-> << >>]
  /\ call = [t \in DmlThreads |-> NoCall]
  /\ msg = ZeroMessage /\ inst = 1 /\ ev = ExecEvent(1) /\ target = FALSE
  /\ proc = [p \in Pids |-> "free"]
  /\ client = [p \in Pids |-> 1]
  /\ wan = [i \in Ifaces |-> [k \in Keys |-> "Zero"]]
  /\ wanLock = NoThread
  /\ posted = [i \in Ifaces |-> [k \in Keys |-> "Zero"]]
  /\ lost = [i \in Ifaces |-> {}]
  /\ missed = FALSE
  /\ nMsgs = 0 /\ nCalls = 0 /\ nFaults = 0

-----------------------------------------------------------------------------
(* The mutex of an entry: PTHREAD_MUTEX_RECURSIVE.                         *)

\* Mutant: the result of the lock is not waited for.
AcquireAnyway(t, i) ==
  /\ owner' = [owner EXCEPT ![i] = t]
  /\ depth' = [depth EXCEPT ![i] = @ + 1]

Acquire(t, i) ==
  /\ owner[i] \in {NoThread, t}
  /\ owner' = [owner EXCEPT ![i] = t]
  /\ depth' = [depth EXCEPT ![i] = @ + 1]

\* Mutant: the mutex is not recursive.
ReleaseAll(t, i) ==
  /\ owner' = [owner EXCEPT ![i] = NoThread]
  /\ depth' = [depth EXCEPT ![i] = 0]

Release(t, i) ==
  /\ owner' = [owner EXCEPT ![i] = IF depth[i] = 1 THEN NoThread ELSE t]
  /\ depth' = [depth EXCEPT ![i] = @ - 1]

\* A lock and unlock in one step: the mutex has to be free.
Passes(i) == owner[i] = NoThread /\ UNCHANGED <<owner, depth>>

\* Thread t of the running manager is at one of these labels.
At(t, labels) == mgr = "up" /\ pc[t] \in labels

Goto(t, label) == pc' = [pc EXCEPT ![t] = label]

\* A failure outside the manager: PSM, WanManager, the HAL, the kernel.
Fault == nFaults < MaxFaults /\ nFaults' = nFaults + 1

-----------------------------------------------------------------------------
(* PppMgr_SendDataToQ: mq_open without O_CREAT, then a blocking mq_send.    *)

QueueExists == pc[Ipc] \notin {"boot", "exited"}

\* Mutant: the queue takes any number of events.
SendUnbounded(t) ==
  LET e == Head(todo[t])
  IN  /\ todo[t] # << >>
      /\ QueueExists
      /\ queue' = Append(queue, e)
      /\ posted' = IF e.act = "BUS_SET"
                   THEN [posted EXCEPT ![e.iface][e.key] = e.val]
                   ELSE posted

\* Mutant: Down is sent with a higher priority than Up.
SendUrgent(t) ==
  LET e == Head(todo[t])
  IN  /\ todo[t] # << >>
      /\ QueueExists
      /\ Len(queue) < QueueCap
      /\ queue' = IF e.val = "Down" THEN <<e>> \o queue ELSE Append(queue, e)
      /\ posted' = IF e.act = "BUS_SET"
                   THEN [posted EXCEPT ![e.iface][e.key] = e.val]
                   ELSE posted

\* Sends the next event of todo[t]; blocks while the queue is full.
Send(t) ==
  LET e == Head(todo[t])
  IN  /\ todo[t] # << >>
      /\ QueueExists
      /\ Len(queue) < QueueCap
      /\ queue' = Append(queue, e)
      /\ posted' = IF e.act = "BUS_SET"
                   THEN [posted EXCEPT ![e.iface][e.key] = e.val]
                   ELSE posted

\* mq_open fails: there is no queue yet, or no descriptor left.
SendFails(t) ==
  /\ todo[t] # << >>
  /\ \/ ~QueueExists /\ UNCHANGED nFaults
     \/ Fault
  /\ lost' = IF Head(todo[t]).act = "BUS_SET"
             THEN [lost EXCEPT ![Head(todo[t]).iface] = @ \cup {"post"}]
             ELSE lost

-----------------------------------------------------------------------------
(* The IPC thread: PppMgr_EventHandlerThread.                              *)

\* Mutant: the queue of an earlier process is removed first.
IpcBootUnlinks ==
  /\ At(Ipc, {"boot"})
  /\ queue' = << >>
  /\ \/ Goto(Ipc, "sock") /\ UNCHANGED nFaults
     \/ Goto(Ipc, "exited") /\ Fault
  /\ UNCHANGED <<mgr, sock, todo, call, nMsgs, nCalls,
                 ifVars, ipcVars, procVars, wanVars, histVars>>

\* The thread creates the queue, or ends when it cannot.
IpcBoot ==
  /\ At(Ipc, {"boot"})
  /\ \/ Goto(Ipc, "sock") /\ UNCHANGED nFaults
     \/ Goto(Ipc, "exited") /\ Fault
  /\ UNCHANGED <<mgr, queue, sock, todo, call, nMsgs, nCalls,
                 ifVars, ipcVars, procVars, wanVars, histVars>>

\* The top of the loop: usleep, then both buffers are cleared.
NextRound ==
  /\ Goto(Ipc, "sock")
  /\ msg' = ZeroMessage /\ inst' = 1 /\ ev' = ExecEvent(1) /\ target' = FALSE

\* PppMgr_receiveIpcSocket does not block; a message is looked up by its pid.
IpcReceive ==
  /\ At(Ipc, {"sock"})
  /\ \/ /\ sock = << >>
        /\ Goto(Ipc, "mq")
        /\ UNCHANGED <<sock, msg>>
     \/ /\ sock # << >>
        /\ msg' = Head(sock) /\ sock' = Tail(sock)
        /\ Goto(Ipc, "find")
  /\ UNCHANGED <<mgr, queue, todo, call, inst, ev, target, nMsgs, nCalls,
                 nFaults, ifVars, procVars, wanVars, histVars>>

\* The switch of PppMgr_ProcessPppState; a rejected IPCP message is answered
\* without the mutex.
HandlerOf(m) ==
  CASE m.state \in LcpStates    -> "lcp"
    [] m.state \in IpcpStates   -> IF IpcpRejected(m.state, m.arg)
                                   THEN "upost" ELSE "ipcp"
    [] m.state \in Ipv6cpStates -> "ipv6cp"
    [] OTHER                    -> "mq"

\* Mutant: the scan begins again when nobody has the pid.
IpcFindPidAgain ==
  /\ At(Ipc, {"find"})
  /\ Passes(inst)
  /\ \/ /\ entry[inst].pid = msg.pid
        /\ Goto(Ipc, HandlerOf(msg))
        /\ todo' = [todo EXCEPT ![Ipc] = IF HandlerOf(msg) = "upost"
                                         THEN <<SetIPCPStatusDown(inst)>>
                                         ELSE << >>]
        /\ UNCHANGED inst
     \/ /\ entry[inst].pid # msg.pid
        /\ inst' = IF inst < NumIfaces THEN inst + 1 ELSE 1
        /\ UNCHANGED <<pc, todo>>
  /\ UNCHANGED <<mgr, entry, queue, sock, call, msg, ev, target, nMsgs, nCalls,
                 nFaults, procVars, wanVars, histVars>>

\* Mutant: the entry of another pid is not unlocked.
IpcFindPidHolds ==
  /\ At(Ipc, {"find"})
  /\ \/ /\ Passes(inst)
        /\ entry[inst].pid = msg.pid
        /\ Goto(Ipc, HandlerOf(msg))
        /\ todo' = [todo EXCEPT ![Ipc] = IF HandlerOf(msg) = "upost"
                                         THEN <<SetIPCPStatusDown(inst)>>
                                         ELSE << >>]
        /\ UNCHANGED inst
     \/ /\ Acquire(Ipc, inst)
        /\ entry[inst].pid # msg.pid
        /\ IF inst < NumIfaces THEN inst' = inst + 1 /\ UNCHANGED pc
                               ELSE Goto(Ipc, "mq") /\ UNCHANGED inst
        /\ UNCHANGED todo
  /\ UNCHANGED <<mgr, entry, queue, sock, call, msg, ev, target, nMsgs, nCalls,
                 nFaults, procVars, wanVars, histVars>>

\* One round of PppMgr_getIfaceDataWithPid.  The mutex is released before
\* the handler takes it again.
IpcFindPid ==
  /\ At(Ipc, {"find"})
  /\ Passes(inst)
  /\ \/ /\ entry[inst].pid = msg.pid
        /\ Goto(Ipc, HandlerOf(msg))
        /\ todo' = [todo EXCEPT ![Ipc] = IF HandlerOf(msg) = "upost"
                                         THEN <<SetIPCPStatusDown(inst)>>
                                         ELSE << >>]
        /\ UNCHANGED inst
     \/ /\ entry[inst].pid # msg.pid
        /\ IF inst < NumIfaces THEN inst' = inst + 1 /\ UNCHANGED pc
                               ELSE Goto(Ipc, "mq") /\ UNCHANGED inst
        /\ UNCHANGED todo
  /\ UNCHANGED <<mgr, entry, queue, sock, call, msg, ev, target, nMsgs, nCalls,
                 nFaults, procVars, wanVars, histVars>>

\* pppoe-stop asks every rp-pppoe session to end; it takes no interface, and
\* there is no such session in a build that starts pppd itself.
PppoeStop ==
  /\ proc' = [p \in Pids |-> IF proc[p] = "running" /\ ~UsePppDaemon
                             THEN "dying" ELSE proc[p]]
  /\ UNCHANGED client

\* Mutant: the events go to the first instance.
IpcStateChangedFirst ==
  /\ At(Ipc, {"lcp"})
  /\ Acquire(Ipc, inst)
  /\ entry' = [entry EXCEPT ![inst] = StateChanged(@, msg.state, msg.arg)]
  /\ todo' = [todo EXCEPT ![Ipc] = StateChangedPosts(1, msg.state)]
  /\ IF msg.state = "AUTH_FAILED" THEN PppoeStop ELSE UNCHANGED procVars
  /\ Goto(Ipc, "post")
  /\ UNCHANGED <<mgr, queue, sock, call, nMsgs, nCalls, nFaults,
                 ipcVars, wanVars, histVars>>

\* PppMgr_ProcessStateChangedMsg up to the first send.  GetUptimeinSeconds, a
\* question to CcspPandMSsp for the time of the change, is left out.
IpcStateChanged ==
  /\ At(Ipc, {"lcp"})
  /\ Acquire(Ipc, inst)
  /\ entry' = [entry EXCEPT ![inst] = StateChanged(@, msg.state, msg.arg)]
  /\ todo' = [todo EXCEPT ![Ipc] = StateChangedPosts(inst, msg.state)]
  /\ IF msg.state = "AUTH_FAILED" THEN PppoeStop ELSE UNCHANGED procVars
  /\ Goto(Ipc, "post")
  /\ UNCHANGED <<mgr, queue, sock, call, nMsgs, nCalls, nFaults,
                 ipcVars, wanVars, histVars>>

\* PppMgr_ProcessIpcpParams from the mutex to the send.
IpcIpcpParams ==
  /\ At(Ipc, {"ipcp"})
  /\ Acquire(Ipc, inst)
  /\ entry' = [entry EXCEPT ![inst] = IpcpParams(@, msg.arg)]
  /\ todo' = [todo EXCEPT ![Ipc] = IpcpPosts(inst, msg.arg)]
  /\ Goto(Ipc, "post")
  /\ UNCHANGED <<mgr, queue, sock, call, nMsgs, nCalls, nFaults,
                 ipcVars, procVars, wanVars, histVars>>

\* PppMgr_ProcessIpv6cpParams from the mutex to the send.
IpcIpv6cpParams ==
  /\ At(Ipc, {"ipv6cp"})
  /\ Acquire(Ipc, inst)
  /\ \E written \in BOOLEAN :
       /\ entry' = [entry EXCEPT ![inst] =
                      Ipv6cpParams(@, msg.state, msg.arg, written)]
       /\ IF written \/ msg.state # "IPV6CP_COMPLETED"
          THEN UNCHANGED <<lost, nFaults>>
          ELSE Fault /\ lost' = [lost EXCEPT ![inst] = @ \cup {"duid"}]
  /\ todo' = [todo EXCEPT ![Ipc] = Ipv6cpPosts(inst, msg.state)]
  /\ Goto(Ipc, "post")
  /\ UNCHANGED <<mgr, queue, sock, call, posted, missed, nMsgs, nCalls,
                 ipcVars, procVars, wanVars>>

\* PSM does not answer with the number of interfaces.  The lookup asks before it
\* begins, a handler when PppMgr_GetIfaceData_locked returns NULL: the message is
\* dropped.
IpcNoEntry ==
  /\ At(Ipc, {"find", "lcp", "ipcp", "ipv6cp"})
  /\ pc[Ipc] = "find" => inst = 1
  /\ Fault
  /\ Goto(Ipc, "mq")
  /\ UNCHANGED <<mgr, queue, sock, todo, call, nMsgs, nCalls,
                 ifVars, ipcVars, procVars, wanVars, histVars>>

\* In the middle of the lookup the entry that is not there is passed over.
IpcSkipEntry ==
  /\ At(Ipc, {"find"})
  /\ Fault
  /\ IF inst < NumIfaces THEN inst' = inst + 1 /\ UNCHANGED pc
                         ELSE Goto(Ipc, "mq") /\ UNCHANGED inst
  /\ UNCHANGED <<mgr, queue, sock, todo, call, msg, ev, target, nMsgs, nCalls,
                 ifVars, procVars, wanVars, histVars>>

\* One send of a handler.
IpcSend ==
  /\ At(Ipc, {"post", "upost"})
  /\ Send(Ipc)
  /\ todo' = [todo EXCEPT ![Ipc] = Tail(@)]
  /\ UNCHANGED <<mgr, sock, pc, call, lost, missed, nMsgs, nCalls, nFaults,
                 ifVars, ipcVars, procVars, wanVars>>

\* A handler gives up at the first send that fails.
IpcSendFails ==
  /\ At(Ipc, {"post", "upost"})
  /\ SendFails(Ipc)
  /\ todo' = [todo EXCEPT ![Ipc] = << >>]
  /\ Goto(Ipc, IF pc[Ipc] = "post" THEN "unlock" ELSE "mq")
  /\ UNCHANGED <<mgr, queue, sock, call, posted, missed, nMsgs, nCalls,
                 ifVars, ipcVars, procVars, wanVars>>

\* Everything is sent; after IPV6CP_COMPLETED the handler sleeps five seconds
\* with the mutex held.
IpcSent ==
  /\ At(Ipc, {"post", "upost"})
  /\ todo[Ipc] = << >>
  /\ Goto(Ipc, IF pc[Ipc] = "upost" THEN "mq"
               ELSE IF msg.state = "IPV6CP_COMPLETED" THEN "settle"
               ELSE "unlock")
  /\ UNCHANGED <<mgr, queue, sock, todo, call, nMsgs, nCalls, nFaults,
                 ifVars, ipcVars, procVars, wanVars, histVars>>

IpcSettle ==
  /\ At(Ipc, {"settle"})
  /\ Goto(Ipc, "unlock")
  /\ UNCHANGED <<mgr, queue, sock, todo, call, nMsgs, nCalls, nFaults,
                 ifVars, ipcVars, procVars, wanVars, histVars>>

\* Mutant: the handler returns with the mutex held.
IpcUnlockForgotten ==
  /\ At(Ipc, {"unlock"})
  /\ Goto(Ipc, "mq")
  /\ UNCHANGED <<mgr, queue, sock, todo, call, nMsgs, nCalls, nFaults,
                 ifVars, ipcVars, procVars, wanVars, histVars>>

IpcUnlock ==
  /\ At(Ipc, {"unlock"})
  /\ Release(Ipc, inst)
  /\ Goto(Ipc, "mq")
  /\ UNCHANGED <<mgr, entry, queue, sock, todo, call, nMsgs, nCalls, nFaults,
                 ipcVars, procVars, wanVars, histVars>>

-----------------------------------------------------------------------------
(* The IPC thread: PppMgr_ProcessPppEvent and PppMgr_StartPppClient.       *)

\* Mutant: a PPPMGR_BUS_SET event is received and not processed.
IpcMqReceiveDrops ==
  /\ At(Ipc, {"mq"})
  /\ \/ queue = << >> /\ NextRound /\ UNCHANGED queue
     \/ /\ queue # << >>
        /\ queue' = Tail(queue)
        /\ IF Head(queue).act = "BUS_SET"
           THEN NextRound
           ELSE /\ ev' = Head(queue) /\ Goto(Ipc, "wanscan")
                /\ UNCHANGED <<msg, inst, target>>
  /\ UNCHANGED <<mgr, sock, todo, call, nMsgs, nCalls, nFaults,
                 ifVars, procVars, wanVars, histVars>>

\* mq_receive does not block; one event a round.
IpcMqReceive ==
  /\ At(Ipc, {"mq"})
  /\ \/ queue = << >> /\ NextRound /\ UNCHANGED queue
     \/ /\ queue # << >>
        /\ ev' = Head(queue) /\ queue' = Tail(queue)
        /\ Goto(Ipc, IF Head(queue).act = "BUS_SET" THEN "read" ELSE "wanscan")
        /\ UNCHANGED <<msg, inst, target>>
  /\ UNCHANGED <<mgr, sock, todo, call, nMsgs, nCalls, nFaults,
                 ifVars, procVars, wanVars, histVars>>

\* Mutant: the mutex is kept during the call over the bus.
IpcReadWanLocked ==
  /\ At(Ipc, {"read"})
  /\ Acquire(Ipc, ev.iface)
  /\ target' = entry[ev.iface].wan
  /\ Goto(Ipc, "set")
  /\ UNCHANGED <<mgr, entry, queue, sock, todo, call, msg, inst, ev, nMsgs,
                 nCalls, nFaults, procVars, wanVars, histVars>>

\* The WAN instance numbers are read under the mutex, which is released
\* before the call over the bus; they stay -1 when PSM does not answer.
IpcReadWan ==
  /\ At(Ipc, {"read"})
  /\ \/ /\ Passes(ev.iface)
        /\ target' = entry[ev.iface].wan
        /\ UNCHANGED nFaults
     \/ /\ Fault
        /\ target' = FALSE
        /\ UNCHANGED <<owner, depth>>
  /\ Goto(Ipc, "set")
  /\ UNCHANGED <<mgr, entry, queue, sock, todo, call, msg, inst, ev, nMsgs,
                 nCalls, procVars, wanVars, histVars>>

\* A call over the bus is served when WanManager's mutex is free; it can time
\* out while the mutex is taken, and fail on its own.
BusServes == wanLock = NoThread /\ UNCHANGED nFaults
BusFails  == \/ wanLock # NoThread /\ UNCHANGED nFaults
             \/ Fault

\* Mutant: the set goes to the virtual interface of the first instance.
IpcBusSetFirst ==
  /\ At(Ipc, {"set"})
  /\ \/ /\ target /\ BusServes
        /\ wan' = [wan EXCEPT ![1][ev.key] = ev.val]
        /\ UNCHANGED lost
     \/ /\ \/ ~target /\ BusServes
           \/ BusFails
        /\ lost' = [lost EXCEPT ![ev.iface] = @ \cup {"set"}]
        /\ UNCHANGED wan
  /\ NextRound
  /\ UNCHANGED <<mgr, queue, sock, todo, call, wanLock, posted, missed,
                 nMsgs, nCalls, ifVars, procVars>>

\* DmlWanmanagerSetParamValues.  Nobody sends the event again when it fails.
IpcBusSet ==
  /\ At(Ipc, {"set"})
  /\ \/ /\ target /\ BusServes
        /\ wan' = [wan EXCEPT ![ev.iface][ev.key] = ev.val]
        /\ UNCHANGED lost
     \/ /\ \/ ~target /\ BusServes
           \/ BusFails
        /\ lost' = [lost EXCEPT ![ev.iface] = @ \cup {"set"}]
        /\ UNCHANGED wan
  /\ NextRound
  /\ UNCHANGED <<mgr, queue, sock, todo, call, wanLock, posted, missed,
                 nMsgs, nCalls, ifVars, procVars>>

\* PppMgr_GetWanIfaceInstance, without the mutex: the virtual interface that
\* names this PPP interface is found, or there is none, or the bus fails.  Its
\* calls over the bus, one or two for each interface of WanManager, are one step.
IpcWanScan ==
  /\ At(Ipc, {"wanscan"})
  /\ \/ BusServes /\ Goto(Ipc, "start") /\ UNCHANGED ipcVars
     \/ (BusServes \/ BusFails) /\ NextRound
  /\ UNCHANGED <<mgr, queue, sock, todo, call, nMsgs, nCalls,
                 ifVars, procVars, wanVars, histVars>>

\* Process p is there.
Exists(p) == p \in Pids /\ proc[p] \in {"running", "dying"}

\* PppMgr_checkPidExist fails: p is not there, or ps cannot be run.
PidNotFound(p) == IF Exists(p) THEN Fault ELSE UNCHANGED nFaults

\* Mutant: whether a client is already running is not looked at.
IpcStartAgain ==
  /\ At(Ipc, {"start"})
  /\ Acquire(Ipc, ev.iface)
  /\ entry' = [entry EXCEPT ![ev.iface] = [@ EXCEPT !.pid = NoPid]]
  /\ Goto(Ipc, IF QueriesLowerLayer THEN "busget" ELSE "exec")
  /\ UNCHANGED <<mgr, queue, sock, todo, call, nMsgs, nCalls, nFaults,
                 ipcVars, procVars, wanVars, histVars>>

\* The test for a client that is already running, then that of the parameters.
\* When the first one fails for a client that runs, its pid is forgotten and a
\* second one is started.  Whether the interface is still enabled is not looked
\* at.
IpcStart ==
  /\ At(Ipc, {"start"})
  /\ LET i == ev.iface
         alive == Exists(entry[i].pid)
     IN  \/ /\ alive
            /\ Passes(i)
            /\ NextRound
            /\ UNCHANGED <<entry, missed, nFaults>>
         \/ /\ entry' = [entry EXCEPT ![i] = [@ EXCEPT !.pid = NoPid]]
            /\ missed' = (missed \/ alive)
            /\ \/ /\ Acquire(Ipc, i)
                  /\ PidNotFound(entry[i].pid)
                  /\ Goto(Ipc, IF QueriesLowerLayer THEN "busget" ELSE "exec")
                  /\ UNCHANGED ipcVars
               \/ /\ Passes(i)
                  /\ Fault
                  /\ NextRound
  /\ UNCHANGED <<mgr, queue, sock, todo, call, posted, lost, nMsgs, nCalls,
                 procVars, wanVars>>

\* PppMgr_StartPppClient uses the entry without a test for NULL: the process
\* ends when PSM does not answer with the number of interfaces.
IpcStartCrash ==
  /\ At(Ipc, {"start"})
  /\ Fault
  /\ mgr' = "killed"
  /\ UNCHANGED <<queue, sock, pc, todo, call, nMsgs, nCalls,
                 ifVars, ipcVars, procVars, wanVars, histVars>>

\* The name of the lower layer, asked of WanManager with the mutex held.
IpcBusGet ==
  /\ At(Ipc, {"busget"})
  /\ \/ /\ BusServes
        /\ Goto(Ipc, "exec")
        /\ UNCHANGED <<owner, depth, ipcVars>>
     \/ /\ BusFails
        /\ Release(Ipc, ev.iface)
        /\ NextRound
  /\ UNCHANGED <<mgr, entry, queue, sock, todo, call, nMsgs, nCalls,
                 procVars, wanVars, histVars>>

\* system(command): pppoe-start or pppd; nothing checks that it worked.
IpcExec ==
  /\ At(Ipc, {"exec"})
  /\ \/ /\ \E p \in Pids : /\ proc[p] = "free"
                           /\ proc' = [proc EXCEPT ![p] = "running"]
                           /\ client' = [client EXCEPT ![p] = ev.iface]
        /\ UNCHANGED nFaults
     \/ Fault /\ UNCHANGED procVars
  /\ Goto(Ipc, "getpid")
  /\ UNCHANGED <<mgr, queue, sock, todo, call, nMsgs, nCalls,
                 ifVars, ipcVars, wanVars, histVars>>

\* PppMgr_getPppPid(NULL): any pppd found in /proc, 0 when there is none, or
\* none in a running state, in any of the attempts.
IpcGetPid ==
  /\ At(Ipc, {"getpid"})
  /\ LET found == {p \in Pids : Exists(p)}
     IN  \E p \in found \cup {NoPid} :
           /\ IF p = NoPid /\ found # {} THEN Fault /\ missed' = TRUE
                                         ELSE UNCHANGED <<nFaults, missed>>
           /\ entry' = [entry EXCEPT ![ev.iface] =
                           [@ EXCEPT !.pid = p, !.wan = TRUE]]
  /\ Release(Ipc, ev.iface)
  /\ NextRound
  /\ UNCHANGED <<mgr, queue, sock, todo, call, posted, lost, nMsgs, nCalls,
                 procVars, wanVars>>

IpcStep ==
  \/ IpcBoot \/ IpcReceive \/ IpcFindPid \/ IpcStateChanged \/ IpcIpcpParams
  \/ IpcIpv6cpParams \/ IpcNoEntry \/ IpcSkipEntry \/ IpcSend
  \/ IpcSendFails \/ IpcSent \/ IpcSettle \/ IpcUnlock \/ IpcMqReceive
  \/ IpcReadWan \/ IpcBusSet \/ IpcWanScan \/ IpcStart \/ IpcStartCrash
  \/ IpcBusGet \/ IpcExec \/ IpcGetPid

-----------------------------------------------------------------------------
(* A bus thread: Interface_SetParamBoolValue for Enable and Reset.         *)

\* The bus calls in; WanManager does so with its own mutex held.
DmlCall(t) ==
  /\ At(t, {"idle"})
  /\ nCalls < MaxCalls /\ nCalls' = nCalls + 1
  /\ \E c \in Calls : call' = [call EXCEPT ![t] = c]
  /\ \/ "other" \in Callers /\ UNCHANGED wanLock
     \/ "WanManager" \in Callers /\ wanLock = NoThread /\ wanLock' = t
  /\ Goto(t, "lock")
  /\ UNCHANGED <<mgr, queue, sock, todo, wan, nMsgs, nFaults,
                 ifVars, ipcVars, procVars, histVars>>

DmlLock(t) ==
  /\ At(t, {"lock"})
  /\ Acquire(t, call[t].iface)
  /\ Goto(t, "dispatch")
  /\ UNCHANGED <<mgr, entry, queue, sock, todo, call, nMsgs, nCalls, nFaults,
                 ipcVars, procVars, wanVars, histVars>>

\* PppMgr_EnableIf, or PppDmlIfReset when the interface is enabled.
DmlDispatch(t) ==
  /\ At(t, {"dispatch"})
  /\ Goto(t, CASE call[t].op = "Enable"                -> "start"
               [] call[t].op = "Disable"               -> "stop"
               [] OTHER -> IF entry[call[t].iface].enabled THEN "stop"
                                                           ELSE "return")
  /\ UNCHANGED <<mgr, queue, sock, todo, call, nMsgs, nCalls, nFaults,
                 ifVars, ipcVars, procVars, wanVars, histVars>>

\* PppMgr_StopPppClient up to the release of its own lock.  With
\* USE_PPP_DAEMON it is kill(pppPid, SIGKILL), and pid 0 stands for the
\* process group of the manager itself.
DmlStop(t) ==
  /\ At(t, {"stop"})
  /\ LET i == call[t].iface
     IN  /\ Acquire(t, i)
         /\ entry' = [entry EXCEPT ![i] = SessionReset(@, ~UsePppDaemon)]
         /\ todo' = [todo EXCEPT ![t] = StopPosts(i)]
         /\ \/ /\ ~UsePppDaemon
               /\ PppoeStop /\ UNCHANGED mgr
            \/ /\ UsePppDaemon /\ entry[i].pid = NoPid
               /\ mgr' = "killed" /\ UNCHANGED procVars
            \/ /\ UsePppDaemon /\ entry[i].pid # NoPid
               /\ proc' = [proc EXCEPT ![entry[i].pid] = "dead"]
               /\ UNCHANGED <<mgr, client>>
  /\ Goto(t, "stopped")
  /\ UNCHANGED <<queue, sock, call, nMsgs, nCalls, nFaults,
                 ipcVars, wanVars, histVars>>

DmlStopped(t) ==
  /\ At(t, {"stopped"})
  /\ Release(t, call[t].iface)
  /\ Goto(t, "post")
  /\ UNCHANGED <<mgr, entry, queue, sock, todo, call, nMsgs, nCalls, nFaults,
                 ipcVars, procVars, wanVars, histVars>>

\* The three sends of PppMgr_StopPppClient; a failure is not looked at.
DmlSend(t) ==
  /\ At(t, {"post"})
  /\ \/ Send(t) /\ UNCHANGED <<lost, nFaults>>
     \/ SendFails(t) /\ UNCHANGED <<queue, posted>>
  /\ todo' = [todo EXCEPT ![t] = Tail(@)]
  /\ UNCHANGED <<mgr, sock, pc, call, missed, nMsgs, nCalls,
                 ifVars, ipcVars, procVars, wanVars>>

DmlSent(t) ==
  /\ At(t, {"post"})
  /\ todo[t] = << >>
  /\ Goto(t, IF call[t].op = "Reset" THEN "start" ELSE "return")
  /\ UNCHANGED <<mgr, queue, sock, todo, call, nMsgs, nCalls, nFaults,
                 ifVars, ipcVars, procVars, wanVars, histVars>>

\* PppMgr_SendPppdStartEventToQ.
DmlStart(t) ==
  /\ At(t, {"start"})
  /\ Acquire(t, call[t].iface)
  /\ todo' = [todo EXCEPT ![t] = <<ExecEvent(call[t].iface)>>]
  /\ Goto(t, "execpost")
  /\ UNCHANGED <<mgr, entry, queue, sock, call, nMsgs, nCalls, nFaults,
                 ipcVars, procVars, wanVars, histVars>>

DmlExecSend(t) ==
  /\ At(t, {"execpost"})
  /\ Send(t)
  /\ todo' = [todo EXCEPT ![t] = << >>]
  /\ UNCHANGED <<mgr, sock, pc, call, lost, missed, nMsgs, nCalls, nFaults,
                 ifVars, ipcVars, procVars, wanVars>>

\* bEnabled becomes true after the send.
DmlExecSent(t) ==
  /\ At(t, {"execpost"})
  /\ todo[t] = << >>
  /\ entry' = [entry EXCEPT ![call[t].iface] = [@ EXCEPT !.enabled = TRUE]]
  /\ Release(t, call[t].iface)
  /\ Goto(t, "return")
  /\ UNCHANGED <<mgr, queue, sock, todo, call, nMsgs, nCalls, nFaults,
                 ipcVars, procVars, wanVars, histVars>>

\* Mutant: the error path forgets its unlock.
DmlExecSendFailsLocked(t) ==
  /\ At(t, {"execpost"})
  /\ SendFails(t)
  /\ todo' = [todo EXCEPT ![t] = << >>]
  /\ Goto(t, "return")
  /\ UNCHANGED <<mgr, queue, sock, call, posted, missed, nMsgs, nCalls,
                 ifVars, ipcVars, procVars, wanVars>>

DmlExecSendFails(t) ==
  /\ At(t, {"execpost"})
  /\ SendFails(t)
  /\ todo' = [todo EXCEPT ![t] = << >>]
  /\ Release(t, call[t].iface)
  /\ Goto(t, "return")
  /\ UNCHANGED <<mgr, entry, queue, sock, call, posted, missed, nMsgs, nCalls,
                 ipcVars, procVars, wanVars>>

\* PSM does not answer: PppMgr_GetIfaceData_locked returns NULL and the call
\* returns false.
DmlNoEntry(t) ==
  /\ At(t, {"stop", "start"})
  /\ Fault
  /\ Goto(t, "return")
  /\ UNCHANGED <<mgr, queue, sock, todo, call, nMsgs, nCalls,
                 ifVars, ipcVars, procVars, wanVars, histVars>>

DmlReturn(t) ==
  /\ At(t, {"return"})
  /\ Release(t, call[t].iface)
  /\ wanLock' = IF wanLock = t THEN NoThread ELSE wanLock
  /\ call' = [call EXCEPT ![t] = NoCall]
  /\ Goto(t, "idle")
  /\ UNCHANGED <<mgr, entry, queue, sock, todo, wan, nMsgs, nCalls,
                 nFaults, ipcVars, procVars, histVars>>

DmlRun(t) ==
  \/ DmlLock(t) \/ DmlDispatch(t) \/ DmlStop(t) \/ DmlStopped(t) \/ DmlSend(t)
  \/ DmlSent(t) \/ DmlStart(t) \/ DmlExecSend(t) \/ DmlExecSent(t)
  \/ DmlExecSendFails(t) \/ DmlNoEntry(t) \/ DmlReturn(t)

-----------------------------------------------------------------------------
(* PPP client processes (external).                                        *)

\* A client reports through the socket as long as its process exists.
ClientSends(p) ==
  /\ Exists(p)
  /\ nMsgs < MaxMsgs /\ nMsgs' = nMsgs + 1
  /\ \E x \in Payloads :
       sock' = Append(sock, [pid |-> p, state |-> x[1], arg |-> x[2]])
  /\ UNCHANGED <<mgr, queue, pc, todo, call, nCalls, nFaults,
                 ifVars, ipcVars, procVars, wanVars, histVars>>

\* A client that was asked to stop ends; any other may fail.
ClientExits(p) ==
  /\ \/ proc[p] = "dying" /\ UNCHANGED nFaults
     \/ proc[p] = "running" /\ Fault
  /\ proc' = [proc EXCEPT ![p] = "dead"]
  /\ UNCHANGED <<mgr, queue, sock, pc, todo, call, client, nMsgs, nCalls,
                 ifVars, ipcVars, wanVars, histVars>>

\* Nothing runs any more: the manager was killed, or the IPC thread could not
\* create the queue and no call is left.
Halted ==
  /\ \/ mgr = "killed"
     \/ pc[Ipc] = "exited" /\ \A t \in DmlThreads : pc[t] = "idle"
  /\ UNCHANGED vars

Next ==
  \/ IpcStep
  \/ \E t \in DmlThreads : DmlCall(t) \/ DmlRun(t)
  \/ \E p \in Pids : ClientSends(p) \/ ClientExits(p)
  \/ Halted

Spec == Init /\ [][Next]_vars

\* Each thread keeps running; a client that was asked to stop ends.  Calls,
\* messages and failures are not forced to happen.
Fairness ==
  /\ WF_vars(IpcStep)
  /\ \A t \in DmlThreads : WF_vars(DmlRun(t))
  /\ \A p \in Pids : WF_vars(proc[p] = "dying" /\ ClientExits(p))

FairSpec == Spec /\ Fairness

-----------------------------------------------------------------------------
(* Properties.                                                             *)

\* The stretch of code in which a thread holds the mutex of entry i.
Holds(t, i) ==
  IF t = Ipc
  THEN \/ pc[Ipc] \in {"post", "settle", "unlock"} /\ inst = i
       \/ pc[Ipc] \in {"busget", "exec", "getpid"} /\ ev.iface = i
  ELSE pc[t] \in DmlPcs \ {"idle", "lock"} /\ call[t].iface = i

\* owner and depth say exactly who is inside and how deep: the nested lock of
\* PppMgr_StopPppClient and of PppMgr_SendPppdStartEventToQ is the second.
LockDepth(i) == IF owner[i] = NoThread THEN 0
                ELSE IF pc[owner[i]] \in {"stopped", "execpost"} THEN 2 ELSE 1

MutexInv ==
  \A i \in Ifaces : /\ \A t \in Threads : owner[i] = t <=> Holds(t, i)
                    /\ depth[i] = LockDepth(i)

\* No two threads are between the lock and the unlock of the same entry: the
\* nested lock and unlock of PppMgr_StopPppClient and of
\* PppMgr_SendPppdStartEventToQ do not give the mutex of
\* Interface_SetParamBoolValue away, and every early return unlocks.
MutualExclusion ==
  \A i \in Ifaces, t, u \in Threads : Holds(t, i) /\ Holds(u, i) => t = u

\* An entry never changes under the feet of the thread that has locked it:
\* the step that changes it is a step of the mutex's owner.
NoForeignWrite ==
  [][\A i \in Ifaces, t \in Threads :
       owner[i] = t /\ entry'[i] # entry[i] => pc'[t] # pc[t]]_vars

\* An event that the holder of the entry's mutex is about to send.
Pending(i, k, v) ==
  \E t \in Threads : /\ owner[i] = t
                     /\ \E n \in 1 .. Len(todo[t]) : todo[t][n] = SetEvent(i, k, v)

\* Info.Status is Up only when the last LCP and the last LINK value sent to
\* the queue is Up, or the thread that holds the mutex is about to send it:
\* the sends of PppMgr_ProcessStateChangedMsg and of PppMgr_StopPppClient
\* come in the order of the changes of the entry they report.
UpIsReported ==
  \A i \in Ifaces : entry[i].status = "Up" /\ "post" \notin lost[i] =>
    \A k \in {"LCP", "LINK"} : posted[i][k] = "Up" \/ Pending(i, k, "Up")

\* The connection states of a session that is over, or was never begun.
Ended == {"Unconfigured", "Disconnected", "AuthenticationFailed"}

\* The converse: a session that is over has been taken back.  LCP is the
\* parameter for it, as PppMgr_SetLinkStatusDown reports LCP and never LINK.
\* In between, while a session is built up or torn down, nothing is reported.
EndIsReported ==
  \A i \in Ifaces : entry[i].conn \in Ended /\ "post" \notin lost[i] =>
    posted[i]["LCP"] # "Up" \/ Pending(i, "LCP", "Down")

\* WanManager is never left with IPCP Up for an interface whose addresses are
\* gone or incomplete: whoever clears them (PppMgr_StopPppClient, or
\* PppMgr_ProcessIpcpParams before it parses the new ones) sends Down before
\* it lets go of the mutex.
Ipv4BehindUp ==
  \A i \in Ifaces : posted[i]["IPCP"] = "Up" /\ "post" \notin lost[i] =>
    entry[i].ip4 = "set" \/ Pending(i, "IPCP", "Down")

\* While IPV6CP is reported Up the DUID file that the DHCPv6 client needs is
\* there, unless it could not be written.
DuidBehindUp ==
  \A i \in Ifaces :
    posted[i]["IPV6CP"] = "Up" /\ lost[i] \cap {"post", "duid"} = {} =>
      entry[i].duid \/ Pending(i, "IPV6CP", "Down")

\* The events on their way to WanManager, oldest first.
InFlight == (IF pc[Ipc] \in {"read", "set"} THEN <<ev>> ELSE << >>) \o queue

\* What WanManager's parameter will be once everything in flight is set.
LastOnTheWay(i, k) ==
  LET S == {n \in 1 .. Len(InFlight) : /\ InFlight[n].act = "BUS_SET"
                                       /\ InFlight[n].iface = i
                                       /\ InFlight[n].key = k}
  IN  IF S = {} THEN wan[i][k]
      ELSE InFlight[CHOOSE n \in S : \A m \in S : m <= n].val

\* Unless a set over the bus failed, WanManager has, or will have once the
\* queue is empty, the value that was sent last: no value overtakes another
\* between the senders, the queue and the one event a round.
DeliveredInOrder ==
  \A i \in Ifaces, k \in Keys :
    "set" \notin lost[i] => LastOnTheWay(i, k) = posted[i][k]

\* With one interface there is never more than one PPP client process, unless
\* the manager has lost sight of one: it was not found in /proc after its start,
\* ps could not be run for the test whether it is still there, or it outlived
\* the manager that started it.
OneClient ==
  NumIfaces = 1 /\ ~missed =>
    \A p, q \in Pids : Exists(p) /\ Exists(q) => p = q

\* No thread calls WanManager while it holds the mutex of an entry.  (Questions
\* to other components, PSM and CcspPandMSsp, are asked with it held.)
NoBusCallUnderMutex ==
  pc[Ipc] \in {"set", "wanscan", "busget"} => \A i \in Ifaces : owner[i] # Ipc

\* The mutexes that the next step of a thread locks.
Wants(t) ==
  {i \in Ifaces :
     IF t = Ipc
     THEN \/ pc[Ipc] \in {"find", "lcp", "ipcp", "ipv6cp"} /\ inst = i
          \/ pc[Ipc] \in {"read", "start"} /\ ev.iface = i
     ELSE pc[t] \in {"lock", "stop", "start"} /\ call[t].iface = i}

WaitsFor(t, u) == t # u /\ \E i \in Wants(t) : owner[i] = u

\* Whoever holds the mutex of an entry does not wait for a mutex of another
\* thread, so that no circle of waiting threads can close: the handlers, the
\* nested locks of Disable and Reset, and the scan that locks each entry in turn
\* never hold one mutex and wait for the next, in whichever order the interfaces
\* come.
NoHoldAndWait ==
  \A i \in Ifaces, t, u \in Threads : owner[i] = t => ~WaitsFor(t, u)

\* How many steps a data model call has before it returns, at most ...
CallLevel ==
  [idle |-> 0, return |-> 1, execpost |-> 2, start |-> 4, post |-> 5,
   stopped |-> 6, stop |-> 10, dispatch |-> 11, lock |-> 12]

CallSteps(t) ==
  CallLevel[pc[t]]
  + IF pc[t] \in {"stopped", "post", "execpost"} THEN Len(todo[t]) ELSE 0

\* ... and the IPC thread before its next round: the scan for the pid visits
\* each interface once.
RoundLevel ==
  [exited |-> 0, sock |-> 0, boot |-> 1, set |-> 1, getpid |-> 1, read |-> 2,
   exec |-> 2, busget |-> 3, start |-> 4, wanscan |-> 5, mq |-> 6, upost |-> 7,
   unlock |-> 7, settle |-> 8, post |-> 9, lcp |-> 12, ipcp |-> 12,
   ipv6cp |-> 12, find |-> 13]

RoundSteps ==
  RoundLevel[pc[Ipc]]
  + IF pc[Ipc] \in {"post", "upost"} THEN Len(todo[Ipc])
    ELSE IF pc[Ipc] = "find" THEN NumIfaces - inst ELSE 0

\* Whenever a thread moves in a call or a round, it comes closer to the end of
\* it: no failure on the way, Reset's second half or the scan for a pid sends
\* it back, so that neither goes on for ever without waiting.
StepsRunOut ==
  [][/\ \A t \in DmlThreads :
          pc[t] # "idle" /\ (pc'[t] # pc[t] \/ todo'[t] # todo[t]) =>
            CallSteps(t)' < CallSteps(t)
     /\ pc[Ipc] # "sock"
        /\ (pc'[Ipc] # pc[Ipc] \/ todo'[Ipc] # todo[Ipc] \/ inst' # inst) =>
          RoundSteps' < RoundSteps]_vars

\* Every data model call returns, if the manager is not killed.
CallsReturn ==
  \A t \in DmlThreads : pc[t] # "idle" ~> pc[t] = "idle" \/ mgr = "killed"

\* WanManager comes to agree with what was sent, if no set fails.
ReportsArrive ==
  \A i \in Ifaces, k \in Keys :
    wan[i][k] # posted[i][k] ~> \/ wan[i][k] = posted[i][k]
                                \/ "set" \in lost[i] \/ mgr = "killed"
===============================================================================
