------------------------------ MODULE PppManager ------------------------------
(***************************************************************************)
(* The process around PppEventLoop: the start of the main thread           *)
(* (pppmgr_ssp_main.c, pppmgr_ssp_action.c, the plug-in and PppMgr_Init),  *)
(* the end of the process at any moment, and the next process, which finds *)
(* the queue, the PPP clients, the DUID files and WanManager as they are.  *)
(*                                                                         *)
(* The main thread, the IPC thread and the bus threads interleave.  The    *)
(* CCSP libraries, PSM, the init system and the kernel are external.       *)
(***************************************************************************)
EXTENDS PppEventLoop

CONSTANT MaxStops        \* bound on signals and on finalize calls of the bus

ASSUME StopsAssumption == MaxStops \in Nat

VARIABLES
  main,        \* where the main thread is
  ready,       \* bPPPIniatilized
  onBus,       \* bus_handle is set
  component,   \* g_pComponentCommonPppManager: "none" is NULL, else its health
  cancelling,  \* who is inside ssp_cancel: the main thread, a bus thread
  table,       \* g_pBEManager and its entries, see Tables
  served,      \* the IPC thread was created
  made,        \* PPP_EVENT_QUEUE_NAME exists, from this process or an earlier
  stale,       \* how many events at the head of the queue are of an earlier one
  nStops

mainVars  == <<main, ready, onBus, component, cancelling, table, served>>
queueVars == <<made, stale>>
allVars   == <<vars, mainVars, queueVars, nStops>>

MainPcs == {"bus", "create", "engage", "register", "cdm", "server", "sysevent",
            "loop", "term", "cancel", "exit"}

\* "none": PppManagerDmlInit did not get to the registration of the data model
\* functions; "null": it did, and there was no memory for the table; "empty":
\* PSM did not say how many interfaces there are, so that no entry was set up
\* and every mutex is as the zeroed memory leaves it, not recursive.
Tables == {"none", "null", "empty", "loaded"}
HasTable == table \in {"empty", "loaded"}

ManagerTypeOK ==
  /\ TypeOK
  /\ main \in MainPcs /\ ready \in BOOLEAN /\ onBus \in BOOLEAN
  /\ component \in {"none", "created", "yellow", "green"}
  /\ cancelling \subseteq {"main", "bus"}
  /\ table \in Tables
  /\ served \in BOOLEAN /\ made \in BOOLEAN
  /\ stale \in 0 .. Len(queue)
  /\ nStops \in Nat

ManagerInit ==
  /\ Init
  /\ main = "bus" /\ ready = TRUE /\ onBus = FALSE /\ served = FALSE
  /\ component = "none" /\ cancelling = {} /\ table = "none"
  /\ made = FALSE /\ stale = 0 /\ nStops = 0

-----------------------------------------------------------------------------
(* The end of a process and the next one.                                  *)

\* exit, _exit or a fatal signal.  What is in memory is of no use any more
\* and is replaced when the next process starts.
Dies == mgr' = "killed"

Living == mgr = "up"

Stop == nStops < MaxStops /\ nStops' = nStops + 1

\* sig_handler: SIGINT, SIGTERM, SIGSEGV and the like end the process in
\* whatever its threads are doing.
Signal ==
  /\ Living
  /\ Stop
  /\ Dies
  /\ UNCHANGED <<queue, sock, pc, todo, call, nMsgs, nCalls, nFaults, ifVars,
                 ipcVars, procVars, wanVars, histVars, mainVars, queueVars>>

\* Mutant: a manager that starts removes the DUID files.
ForgottenAll(e) == InitEntry

\* The DUID file is a file.
Forgotten(e) == [InitEntry EXCEPT !.duid = e.duid]

\* What was on its way inside the dead process does not arrive.
LostWith(i) ==
  (IF pc[Ipc] \in {"read", "set"} /\ ev.iface = i THEN {"set"} ELSE {})
  \cup (IF \E t \in Threads : \E n \in 1 .. Len(todo[t]) :
             todo[t][n].act = "BUS_SET" /\ todo[t][n].iface = i
        THEN {"post"} ELSE {})

\* The init system starts the manager again (external), and main comes as far
\* as cmd_dispatch('e').  The kernel keeps the queue; of the messages of the
\* clients, those that the old process had already buffered are gone.  A client
\* that runs goes on running, under a pid that is in no entry any more.
Launch ==
  /\ ~Living
  /\ mgr' = "up"
  /\ entry' = [i \in Ifaces |-> Forgotten(entry[i])]
  /\ owner' = [i \in Ifaces |-> NoThread] /\ depth' = [i \in Ifaces |-> 0]
  /\ pc' = [t \in Threads |-> IF t = Ipc THEN "boot" ELSE "idle"]
  /\ todo' = [t \in Threads |-> << >>]
  /\ call' = [t \in DmlThreads |-> NoCall]
  /\ msg' = ZeroMessage /\ inst' = 1 /\ ev' = ExecEvent(1) /\ target' = FALSE
  /\ wanLock' = NoThread
  /\ lost' = [i \in Ifaces |-> lost[i] \cup LostWith(i)]
  /\ missed' = (missed \/ \E p \in Pids : Exists(p))
  /\ \E n \in 0 .. Len(sock) : sock' = SubSeq(sock, n + 1, Len(sock))
  /\ main' = "bus" /\ ready' = TRUE /\ onBus' = FALSE /\ served' = FALSE
  /\ component' = "none" /\ cancelling' = {} /\ table' = "none"
  /\ stale' = Len(queue)
  /\ UNCHANGED <<queue, wan, posted, procVars, made, nMsgs, nCalls, nFaults,
                 nStops>>

-----------------------------------------------------------------------------
(* The main thread.                                                        *)

MainAt(label) == Living /\ main = label

\* What a step of the main thread leaves alone.
NotMain == UNCHANGED <<entry, owner, depth, queue, sock, pc, todo, call,
                       nMsgs, nCalls, ipcVars, procVars, wanVars, histVars,
                       queueVars, nStops>>

\* ssp_Mbi_MessageBusEngage; cmd_dispatch does not look at the result.  When it
\* fails after the handle was set, main sees no difference, and no call comes.
MainBusEngage ==
  /\ MainAt("bus")
  /\ \/ onBus' = TRUE /\ UNCHANGED nFaults
     \/ onBus' = FALSE /\ Fault
  /\ main' = "create"
  /\ NotMain /\ UNCHANGED <<mgr, ready, component, cancelling, table, served>>

\* Mutant: the IPC thread is created together with the component.
MainCreateServes ==
  /\ MainAt("create")
  /\ \/ component' = "created" /\ UNCHANGED nFaults
     \/ component' = "none" /\ Fault
  /\ main' = "engage" /\ served' = TRUE
  /\ NotMain /\ UNCHANGED <<mgr, ready, onBus, cancelling, table>>

\* ssp_create: one allocation after another, and no result is looked at.  One
\* that fails leaves a NULL which ssp_engage uses.
MainCreate ==
  /\ MainAt("create")
  /\ \/ component' = "created" /\ UNCHANGED nFaults
     \/ component' = "none" /\ Fault
  /\ main' = "engage"
  /\ NotMain /\ UNCHANGED <<mgr, ready, onBus, cancelling, table, served>>

\* PppManagerDmlInit: without a bus handle, or one of the functions of the
\* agent, it gives up before it registers anything.
PluginTable ==
  \/ ~onBus /\ table' = "none" /\ UNCHANGED nFaults
  \/ onBus /\ table' = "loaded" /\ UNCHANGED nFaults
  \/ onBus /\ table' \in {"none", "null", "empty"} /\ Fault

\* ssp_engage as far as the plug-in; the component is NULL when ssp_create
\* failed or the bus has finalized it since.
MainEngage ==
  /\ MainAt("engage")
  /\ \/ /\ component = "none"
        /\ Dies
        /\ UNCHANGED <<nFaults, main, component, table>>
     \/ /\ component # "none"
        /\ component' = "yellow"
        /\ PluginTable
        /\ main' = "register"
        /\ UNCHANGED mgr
  /\ NotMain /\ UNCHANGED <<ready, onBus, cancelling, served>>

\* RegisterCcspDataModel, after which the health is Green.
MainRegister ==
  /\ MainAt("register")
  /\ \/ /\ component = "none"
        /\ Dies
        /\ UNCHANGED <<nFaults, main, component>>
     \/ /\ component # "none"
        /\ \/ onBus /\ component' = "green" /\ UNCHANGED nFaults
           \/ ~onBus /\ UNCHANGED <<component, nFaults>>
           \/ onBus /\ Fault /\ UNCHANGED component
        /\ main' = "cdm"
        /\ UNCHANGED mgr
  /\ NotMain /\ UNCHANGED <<ready, onBus, cancelling, table, served>>

\* Cdm_Init; main goes on to PppMgr_Init in any case.
MainCdm ==
  /\ MainAt("cdm")
  /\ \/ onBus /\ UNCHANGED <<ready, nFaults>>
     \/ ~onBus /\ ready' = FALSE /\ UNCHANGED nFaults
     \/ Fault /\ ready' = FALSE
  /\ main' = "server"
  /\ NotMain /\ UNCHANGED <<mgr, onBus, component, cancelling, table, served>>

\* PppMgr_StartIpcServer: the socket, its address, the thread.
MainServer ==
  /\ MainAt("server")
  /\ \/ /\ served' = TRUE /\ main' = "sysevent"
        /\ UNCHANGED <<ready, nFaults>>
     \/ /\ Fault /\ ready' = FALSE /\ main' = "term"
        /\ UNCHANGED served
  /\ NotMain /\ UNCHANGED <<mgr, onBus, component, cancelling, table>>

\* DmlPppSyseventInit, and the decision whether the process stays.
MainSysevent ==
  /\ MainAt("sysevent")
  /\ \/ UNCHANGED <<ready, nFaults>>
     \/ Fault /\ ready' = FALSE
  /\ main' = IF ready' THEN "loop" ELSE "term"
  /\ NotMain /\ UNCHANGED <<mgr, onBus, component, cancelling, table, served>>

\* Cdm_Term, of which nothing is assumed after a Cdm_Init that may have failed;
\* exit(1) when it fails.
MainTerm ==
  /\ MainAt("term")
  /\ main' \in {"cancel", "exit"}
  /\ NotMain
  /\ UNCHANGED <<mgr, nFaults, ready, onBus, component, cancelling, table,
                 served>>

MainExit ==
  /\ MainAt("exit")
  /\ Dies
  /\ NotMain /\ UNCHANGED <<nFaults, mainVars>>

-----------------------------------------------------------------------------
(* ssp_cancel, from the main thread and from a bus thread                   *)
(* (ssp_Mbi_Finalize, ssp_Mbi_FreeResources).                               *)

\* It returns at once when there is no component, and then asks the CR to
\* forget the component.
CancelBegins(who) ==
  IF component = "none" THEN UNCHANGED cancelling
                        ELSE cancelling' = cancelling \cup {who}

\* The controller is cancelled and freed.  Whoever comes second finds NULL.
CancelEnds(who) ==
  /\ who \in cancelling
  /\ cancelling' = cancelling \ {who}
  /\ IF component = "none" THEN Dies /\ UNCHANGED component
                           ELSE component' = "none" /\ UNCHANGED mgr

MainCancel ==
  /\ MainAt("cancel")
  /\ \/ /\ "main" \notin cancelling
        /\ CancelBegins("main")
        /\ main' = IF component = "none" THEN "exit" ELSE main
        /\ UNCHANGED <<mgr, component>>
     \/ /\ CancelEnds("main")
        /\ main' = "exit"
  /\ NotMain /\ UNCHANGED <<nFaults, ready, onBus, table, served>>

BusFinalizes ==
  /\ Living
  /\ onBus /\ "bus" \notin cancelling
  /\ Stop
  /\ CancelBegins("bus")
  /\ UNCHANGED <<vars, main, ready, onBus, component, table, served, queueVars>>

BusFinalized ==
  /\ Living
  /\ CancelEnds("bus")
  /\ UNCHANGED <<entry, owner, depth, queue, sock, pc, todo, call, nMsgs,
                 nCalls, nFaults, ipcVars, procVars, wanVars, histVars,
                 main, ready, onBus, table, served, queueVars, nStops>>

MainStep ==
  \/ MainBusEngage \/ MainCreate \/ MainEngage \/ MainRegister \/ MainCdm
  \/ MainServer \/ MainSysevent \/ MainTerm \/ MainExit \/ MainCancel

-----------------------------------------------------------------------------
(* The IPC thread and the bus threads of PppEventLoop in this process.     *)

\* Where the IPC thread looks the entry of an interface up.
Lookups == {"find", "read", "start"}

\* PppMgr_GetIfaceData_locked goes through g_pBEManager without a test, unless
\* PSM did not answer it before.
IpcNoTable ==
  /\ At(Ipc, Lookups)
  /\ ~HasTable
  /\ Dies
  /\ UNCHANGED <<queue, sock, pc, todo, call, nMsgs, nCalls, nFaults, ifVars,
                 ipcVars, procVars, wanVars, histVars, mainVars, queueVars,
                 nStops>>

\* PSM does not answer; PppMgr_StartPppClient does not survive that.
LooksInVain == nFaults' # nFaults /\ (At(Ipc, {"start"}) => Dies)

\* Mutant: the stale events are not counted down.
IpcRunsStale ==
  /\ served
  /\ IpcStep
  /\ At(Ipc, Lookups) /\ ~HasTable => LooksInVain
  /\ made' = (made \/ pc'[Ipc] \notin {"boot", "exited"})
  /\ UNCHANGED <<mainVars, stale, nStops>>

\* The steps of PppEventLoop, once the thread is there.  The oldest event
\* leaves the queue; a stale one may still have pointers that are good, as
\* when the same program is loaded to the same place.
IpcRuns ==
  /\ served
  /\ IpcStep
  /\ At(Ipc, Lookups) /\ ~HasTable => LooksInVain
  /\ made' = (made \/ pc'[Ipc] \notin {"boot", "exited"})
  /\ stale' = IF At(Ipc, {"mq"}) /\ stale > 0 THEN stale - 1 ELSE stale
  /\ UNCHANGED <<mainVars, nStops>>

\* A stale event of the kind that carries pointers.
StaleAhead == stale > 0 /\ queue # << >> /\ Head(queue).act = "BUS_SET"

\* Mutant: the event is taken from the queue when it has been handled.
IpcStaleKillsAgain ==
  /\ At(Ipc, {"mq"})
  /\ StaleAhead
  /\ Dies
  /\ UNCHANGED <<queue, lost, posted, missed, sock, pc, todo, call, nMsgs,
                 nCalls, nFaults, ifVars, ipcVars, procVars, wanVars, mainVars,
                 queueVars, nStops>>

\* PppMgr_ProcessPppEvent prints keyPath first of all: the pointer may lead
\* nowhere, which ends the process when the event is off the queue ...
IpcStaleKills ==
  /\ At(Ipc, {"mq"})
  /\ StaleAhead
  /\ queue' = Tail(queue) /\ stale' = stale - 1
  /\ lost' = [lost EXCEPT ![Head(queue).iface] = @ \cup {"set"}]
  /\ Dies
  /\ UNCHANGED <<sock, pc, todo, call, posted, missed, nMsgs, nCalls, nFaults,
                 ifVars, ipcVars, procVars, wanVars, mainVars, made, nStops>>

\* Mutant: the garbled name is the one of another parameter.
IpcStaleGarbledLink ==
  /\ At(Ipc, {"mq"})
  /\ StaleAhead
  /\ HasTable /\ Passes(Head(queue).iface)
  /\ queue' = Tail(queue) /\ stale' = stale - 1
  /\ wan' = [wan EXCEPT ![Head(queue).iface]["LINK"] = Head(queue).val]
  /\ NextRound
  /\ UNCHANGED <<mgr, entry, sock, todo, call, histVars, nMsgs, nCalls, nFaults,
                 procVars, wanLock, mainVars, made, nStops>>

\* ... or to some other text, so that the set goes to a component or a name
\* that does not exist.
IpcStaleGarbled ==
  /\ At(Ipc, {"mq"})
  /\ StaleAhead
  /\ HasTable /\ Passes(Head(queue).iface)
  /\ queue' = Tail(queue) /\ stale' = stale - 1
  /\ lost' = [lost EXCEPT ![Head(queue).iface] = @ \cup {"set"}]
  /\ NextRound
  /\ UNCHANGED <<mgr, entry, sock, todo, call, posted, missed, nMsgs, nCalls,
                 nFaults, procVars, wanVars, mainVars, made, nStops>>

IpcLives == IpcRuns \/ IpcNoTable \/ IpcStaleKills \/ IpcStaleGarbled

\* The bus delivers calls of a registered component whose functions are
\* registered; without the table the first access ends the process.
BusCall(t) ==
  /\ component = "green" /\ table # "none"
  /\ DmlCall(t)
  /\ UNCHANGED <<mainVars, queueVars, nStops>>

BusCallNoTable ==
  /\ Living
  /\ component = "green" /\ table = "null"
  /\ nCalls < MaxCalls /\ nCalls' = nCalls + 1
  /\ Dies
  /\ UNCHANGED <<queue, sock, pc, todo, call, nMsgs, nFaults, ifVars, ipcVars,
                 procVars, wanVars, histVars, mainVars, queueVars, nStops>>

\* Thread t has an event for a queue which the IPC thread of this process has
\* not opened (yet): mq_open finds the one of an earlier process.
FindsOldQueue(t) ==
  made /\ ~QueueExists /\ pc[t] \in {"post", "execpost"} /\ todo[t] # << >>

\* Mutant: the send waits for the IPC thread of this process.
DmlOldQueueWaits(t) ==
  /\ Living
  /\ FindsOldQueue(t)
  /\ QueueExists
  /\ UNCHANGED <<vars, mainVars, queueVars, nStops>>

DmlOldQueueSend(t) ==
  LET e == Head(todo[t])
  IN  /\ Living
      /\ FindsOldQueue(t)
      /\ Len(queue) < QueueCap
      /\ queue' = Append(queue, e)
      /\ posted' = IF e.act = "BUS_SET"
                   THEN [posted EXCEPT ![e.iface][e.key] = e.val]
                   ELSE posted
      /\ todo' = [todo EXCEPT ![t] = Tail(@)]
      /\ UNCHANGED <<mgr, sock, pc, call, lost, missed, nMsgs, nCalls, nFaults,
                     ifVars, ipcVars, procVars, wanVars, mainVars, queueVars,
                     nStops>>

\* The other steps.  In an empty table the second lock of the same thread
\* never comes back.
DmlRuns(t) ==
  /\ DmlRun(t)
  /\ FindsOldQueue(t) => nFaults' # nFaults
  /\ (table = "empty" /\ pc[t] \in {"stop", "start"}) => DmlNoEntry(t)
  /\ UNCHANGED <<mainVars, queueVars, nStops>>

ClientStep(p) ==
  /\ ClientSends(p) \/ ClientExits(p)
  /\ UNCHANGED <<mainVars, queueVars, nStops>>

ManagerNext ==
  \/ Launch \/ Signal \/ BusFinalizes \/ BusFinalized \/ MainStep
  \/ IpcLives
  \/ BusCallNoTable
  \/ \E t \in DmlThreads : BusCall(t) \/ DmlRuns(t) \/ DmlOldQueueSend(t)
  \/ \E p \in Pids : ClientStep(p)

ManagerSpec == ManagerInit /\ [][ManagerNext]_allVars

\* The threads of a process run, the bus's included; the init system starts
\* the manager whenever it has ended.  Signals, calls, messages and failures
\* are not forced to happen.
ManagerFairness ==
  /\ WF_allVars(Launch)
  /\ WF_allVars(MainStep)
  /\ WF_allVars(BusFinalized)
  /\ WF_allVars(IpcLives)
  /\ \A t \in DmlThreads : WF_allVars(DmlRuns(t) \/ DmlOldQueueSend(t))
  /\ \A p \in Pids : WF_allVars(proc[p] = "dying" /\ ClientStep(p)
                                    /\ ClientExits(p))

ManagerFairSpec == ManagerSpec /\ ManagerFairness

-----------------------------------------------------------------------------
(* Properties.                                                             *)

\* The IPC thread is started after the table was created and the data model
\* registered, although nothing but the order of the calls in main sees to it:
\* as long as nothing has failed, neither that thread nor a bus call meets a
\* table that is not there, also in a process that finds the events and
\* messages of an earlier one waiting for it.
TableFirst ==
  /\ Living /\ nFaults = 0
  /\ pc[Ipc] # "boot" \/ \E t \in DmlThreads : pc[t] # "idle"
  => table = "loaded"

\* The manager comes up again for good when failures and signals are over: the
\* events that an earlier process left in the queue, whose pointers may kill
\* each process that handles one, cannot do so for ever.
ComesUp == <>[](Living /\ main = "loop")

\* Every data model call ends, also one that meets the start of the manager,
\* a queue without an IPC thread or the end of the process; the exception is a
\* table that was not set up, in which the nested lock waits for itself.
CallsEnd ==
  \A t \in DmlThreads : pc[t] # "idle" ~> pc[t] = "idle" \/ table = "empty"
===============================================================================
