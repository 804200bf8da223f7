--------------------------- MODULE PppManagerProofs ---------------------------
(***************************************************************************)
(* Proofs about PppManager: what holds through any number of ends and      *)
(* starts of the manager, at whatever point its threads are, for every     *)
(* number of interfaces, threads, clients, signals and failures.           *)
(***************************************************************************)
EXTENDS PppManager, PppEventLoopProofs

-----------------------------------------------------------------------------
(* Kinds of steps.                                                         *)

\* The variables of PppEventLoop but mgr and the budgets of the environment.
threadVars == <<entry, owner, depth, queue, sock, pc, todo, call, msg, inst, ev,
                target, proc, client, wan, wanLock, posted, lost, missed>>

\* A step that the threads of PppEventLoop do not notice.
Apart == /\ UNCHANGED threadVars
         /\ mgr' \in {"up", "killed"}
         /\ nMsgs' = nMsgs /\ nCalls' \in Nat /\ nFaults' \in Nat

LEMMA ApartKeeps ==
  ASSUME TypeOK, Apart
  PROVE  TypeOK' /\ (MutexInv => MutexInv')
<1>1. TypeOK'
  BY DEF Apart, threadVars, TypeOK
<1>2. UNCHANGED <<owner, depth, pc, inst, ev, call>>
  BY DEF Apart, threadVars
<1>3. MutexInv => MutexInv'
  BY <1>2 DEF MutexInv, Holds, LockDepth
<1>4. QED
  BY <1>1, <1>3

\* The steps of the main thread, of the bus's finalize calls, and those that
\* only end the process.
Outside ==
  \/ Signal \/ BusFinalizes \/ BusFinalized \/ MainStep \/ IpcNoTable
  \/ BusCallNoTable

LEMMA MainApart ==
  ASSUME TypeOK, MainStep
  PROVE  Apart /\ UNCHANGED <<made, stale, nStops>>
<1> USE DEF Apart, threadVars, NotMain, MainAt, Living, Fault, Dies, TypeOK,
            ipcVars, procVars, wanVars, histVars, queueVars, mainVars
<1>1. CASE MainBusEngage \/ MainCreate
  BY <1>1 DEF MainBusEngage, MainCreate
<1>2. CASE MainEngage
  BY <1>2 DEF MainEngage, PluginTable
<1>3. CASE MainRegister \/ MainCdm
  BY <1>3 DEF MainRegister, MainCdm
<1>4. CASE MainServer \/ MainSysevent
  BY <1>4 DEF MainServer, MainSysevent
<1>5. CASE MainTerm \/ MainExit
  BY <1>5 DEF MainTerm, MainExit
<1>6. CASE MainCancel
  BY <1>6 DEF MainCancel, CancelEnds
<1>7. QED
  BY <1>1, <1>2, <1>3, <1>4, <1>5, <1>6 DEF MainStep

LEMMA OutsideApart ==
  ASSUME TypeOK, Outside
  PROVE  Apart /\ UNCHANGED <<made, stale>>
<1>1. CASE MainStep
  BY <1>1, MainApart
<1>2. CASE Signal \/ IpcNoTable \/ BusCallNoTable
  BY <1>2 DEF Signal, IpcNoTable, BusCallNoTable, Apart, threadVars, Dies, TypeOK,
     ifVars, ipcVars, procVars, wanVars, histVars, queueVars
<1>3. CASE BusFinalizes
  BY <1>3 DEF BusFinalizes, Apart, threadVars, TypeOK, vars, queueVars
<1>4. CASE BusFinalized
  BY <1>4 DEF BusFinalized, CancelEnds, Living, Dies, Apart, threadVars, TypeOK,
     ipcVars, procVars, wanVars, histVars, queueVars
<1>5. QED
  BY <1>1, <1>2, <1>3, <1>4 DEF Outside

-----------------------------------------------------------------------------
(* Types.                                                                  *)

MainTypes ==
  /\ main \in MainPcs /\ ready \in BOOLEAN /\ onBus \in BOOLEAN
  /\ component \in {"none", "created", "yellow", "green"}
  /\ cancelling \subseteq {"main", "bus"}
  /\ table \in Tables /\ served \in BOOLEAN
  /\ nStops \in Nat

\* The steps above keep the types of the main thread.
LEMMA MainTyping ==
  ASSUME TypeOK, MainTypes, Outside
  PROVE  MainTypes'
<1> USE DEF MainTypes, MainPcs, Tables
<1>1. CASE MainBusEngage \/ MainCreate
  BY <1>1 DEF MainBusEngage, MainCreate, NotMain
<1>2. CASE MainEngage
  BY <1>2 DEF MainEngage, PluginTable, NotMain
<1>3. CASE MainRegister \/ MainCdm
  BY <1>3 DEF MainRegister, MainCdm, NotMain
<1>4. CASE MainServer \/ MainSysevent
  BY <1>4 DEF MainServer, MainSysevent, NotMain
<1>5. CASE MainTerm \/ MainExit
  BY <1>5 DEF MainTerm, MainExit, NotMain, mainVars
<1>6. CASE MainCancel
  BY <1>6 DEF MainCancel, CancelBegins, CancelEnds, NotMain
<1>7. CASE Signal \/ IpcNoTable \/ BusCallNoTable
  <2>1. UNCHANGED mainVars /\ (UNCHANGED nStops \/ Stop)
    BY <1>7 DEF Signal, IpcNoTable, BusCallNoTable
  <2>2. QED
    BY <2>1 DEF mainVars, Stop
<1>8. CASE BusFinalizes \/ BusFinalized
  <2>1. /\ UNCHANGED <<main, ready, onBus, table, served>>
        /\ UNCHANGED nStops \/ Stop
        /\ component' \in {component, "none"}
        /\ cancelling' \in {cancelling, cancelling \cup {"bus"},
                            cancelling \ {"bus"}}
    BY <1>8 DEF BusFinalizes, BusFinalized, CancelBegins, CancelEnds
  <2>2. QED
    BY <2>1 DEF Stop
<1>9. QED
  BY <1>1, <1>2, <1>3, <1>4, <1>5, <1>6, <1>7, <1>8 DEF Outside, MainStep

\* A new process finds every entry zeroed, but for the DUID file.
LEMMA LaunchTyping ==
  ASSUME ManagerTypeOK, Launch
  PROVE  ManagerTypeOK'
<1>1. PcTypes'
  BY Basics DEF Launch, PcTypes, IpcPcs, DmlPcs
<1>2. MutexTypes'
  BY DEF Launch, MutexTypes
<1>3. RoundTypes'
  <2>1. ZeroMessage \in Message
    BY DEF ZeroMessage, Message, PppStates, PppArgs
  <2>2. QED
    BY <2>1, Basics, EventTyping DEF Launch, RoundTypes
<1>4. entry' \in [Ifaces -> Entry]
  <2>1. InitEntry \in Entry
    BY DEF InitEntry, Entry, Statuses, ConnStatus, ConnErrors
  <2>2. \A e \in Entry : [InitEntry EXCEPT !.duid = e.duid] \in Entry
    BY <2>1 DEF Entry
  <2>3. \A i \in Ifaces : entry[i] \in Entry
    BY DEF ManagerTypeOK, TypeOK
  <2>4. QED
    BY <2>2, <2>3 DEF Launch, Forgotten
<1>5. sock' \in Seq(Message)
  <2>1. sock \in Seq(Message)
    BY DEF ManagerTypeOK, TypeOK
  <2>2. PICK n \in 0 .. Len(sock) : sock' = SubSeq(sock, n + 1, Len(sock))
    BY DEF Launch
  <2>3. Len(sock) \in Nat /\ n + 1 \in 1 .. Len(sock) + 1
    BY <2>1, LenProperties
  <2>4. SubSeq(sock, n + 1, Len(sock)) \in Seq(Message)
    BY <2>1, <2>3, SubSeqProperties
  <2>5. QED
    BY <2>2, <2>4
<1>6. lost' \in [Ifaces -> SUBSET {"post", "set", "duid"}]
  <2>1. \A i \in Ifaces : LostWith(i) \subseteq {"post", "set", "duid"}
    BY DEF LostWith
  <2>2. \A i \in Ifaces : lost[i] \subseteq {"post", "set", "duid"}
    BY DEF ManagerTypeOK, TypeOK
  <2>3. QED
    BY <2>1, <2>2 DEF Launch
<1>7. /\ todo' \in [Threads -> Seq(Event)]
      /\ call' \in [DmlThreads -> Calls]
      /\ wanLock' \in DmlThreads \cup {NoThread}
      /\ mgr' \in {"up", "killed"}
  BY Basics, EventTyping DEF Launch, Calls, NoCall
<1>8. /\ missed' \in BOOLEAN
      /\ UNCHANGED <<queue, wan, posted, proc, client,
                     nMsgs, nCalls, nFaults, nStops, made>>
  BY DEF ManagerTypeOK, TypeOK, Launch, procVars
<1>9. TypeOK'
  BY <1>1, <1>2, <1>3, <1>4, <1>5, <1>6, <1>7, <1>8
     DEF ManagerTypeOK, TypeOK, PcTypes, MutexTypes, RoundTypes
<1>10. /\ main' \in MainPcs /\ ready' \in BOOLEAN /\ onBus' \in BOOLEAN
       /\ component' \in {"none", "created", "yellow", "green"}
       /\ cancelling' \subseteq {"main", "bus"}
       /\ table' \in Tables /\ served' \in BOOLEAN
  BY DEF Launch, MainPcs, Tables
<1>11. stale' \in 0 .. Len(queue')
  <2>1. queue \in Seq(Event) /\ queue' = queue /\ stale' = Len(queue)
    BY <1>8 DEF ManagerTypeOK, TypeOK, Launch
  <2>2. QED
    BY <2>1, LenProperties
<1>12. QED
  BY <1>8, <1>9, <1>10, <1>11 DEF ManagerTypeOK

\* Only mq_receive takes an event from the queue.
LEMMA QueueGrows ==
  ASSUME \/ IpcStep /\ pc[Ipc] # "mq"
         \/ \E t \in DmlThreads : DmlCall(t) \/ DmlRun(t)
         \/ \E p \in Pids : ClientSends(p) \/ ClientExits(p)
  PROVE  queue' = queue \/ \E e : queue' = Append(queue, e)
<1>1. CASE IpcStep /\ pc[Ipc] # "mq"
  <2>1. CASE \/ IpcBoot \/ IpcReceive \/ IpcFindPid \/ IpcStateChanged
             \/ IpcIpcpParams \/ IpcIpv6cpParams \/ IpcNoEntry \/ IpcSkipEntry
    BY <2>1 DEF IpcBoot, IpcReceive, IpcFindPid, IpcStateChanged,
       IpcIpcpParams, IpcIpv6cpParams, IpcNoEntry, IpcSkipEntry
  <2>2. CASE IpcSend
    BY <2>2 DEF IpcSend, Send
  <2>3. CASE \/ IpcSendFails \/ IpcSent \/ IpcSettle \/ IpcUnlock
             \/ IpcReadWan \/ IpcBusSet \/ IpcWanScan
    BY <2>3 DEF IpcSendFails, IpcSent, IpcSettle, IpcUnlock, IpcReadWan,
       IpcBusSet, IpcWanScan
  <2>4. CASE \/ IpcStart \/ IpcStartCrash \/ IpcBusGet \/ IpcExec
             \/ IpcGetPid
    BY <2>4 DEF IpcStart, IpcStartCrash, IpcBusGet, IpcExec, IpcGetPid
  <2>5. CASE IpcMqReceive
    BY <1>1, <2>5 DEF IpcMqReceive, At
  <2>6. QED
    BY <1>1, <2>1, <2>2, <2>3, <2>4, <2>5 DEF IpcStep
<1>2. ASSUME NEW t \in DmlThreads, DmlCall(t) \/ DmlRun(t)
      PROVE  queue' = queue \/ \E e : queue' = Append(queue, e)
  <2>1. CASE \/ DmlCall(t) \/ DmlLock(t) \/ DmlDispatch(t) \/ DmlStop(t)
             \/ DmlStopped(t) \/ DmlSent(t)
    BY <2>1 DEF DmlCall, DmlLock, DmlDispatch, DmlStop, DmlStopped, DmlSent
  <2>2. CASE \/ DmlStart(t) \/ DmlExecSent(t) \/ DmlExecSendFails(t)
             \/ DmlNoEntry(t) \/ DmlReturn(t)
    BY <2>2 DEF DmlStart, DmlExecSent, DmlExecSendFails, DmlNoEntry, DmlReturn
  <2>3. CASE DmlSend(t) \/ DmlExecSend(t)
    BY <2>3 DEF DmlSend, DmlExecSend, Send
  <2>4. QED
    BY <1>2, <2>1, <2>2, <2>3 DEF DmlRun
<1>3. CASE \E p \in Pids : ClientSends(p) \/ ClientExits(p)
  BY <1>3 DEF ClientSends, ClientExits
<1>4. QED
  BY <1>1, <1>2, <1>3

\* mq_receive is what the IPC thread does at its label.
LEMMA IpcAtMq ==
  ASSUME IpcStep, pc[Ipc] = "mq"
  PROVE  IpcMqReceive
<1>1. ~(\/ IpcBoot \/ IpcReceive \/ IpcFindPid \/ IpcStateChanged
        \/ IpcIpcpParams \/ IpcIpv6cpParams \/ IpcNoEntry \/ IpcSkipEntry
        \/ IpcSend \/ IpcSendFails \/ IpcSent)
  BY DEF IpcBoot, IpcReceive, IpcFindPid, IpcStateChanged, IpcIpcpParams,
     IpcIpv6cpParams, IpcNoEntry, IpcSkipEntry, IpcSend, IpcSendFails, IpcSent,
     At
<1>2. ~(\/ IpcSettle \/ IpcUnlock \/ IpcReadWan \/ IpcBusSet \/ IpcWanScan
        \/ IpcStart \/ IpcStartCrash \/ IpcBusGet \/ IpcExec \/ IpcGetPid)
  BY DEF IpcSettle, IpcUnlock, IpcReadWan, IpcBusSet, IpcWanScan, IpcStart,
     IpcStartCrash, IpcBusGet, IpcExec, IpcGetPid, At
<1>3. QED
  BY <1>1, <1>2 DEF IpcStep

\* Events that stay behind the stale ones do not change how many those are.
LEMMA StaleStays ==
  ASSUME TypeOK, TypeOK', stale \in 0 .. Len(queue), stale' = stale,
         queue' = queue \/ \E e : queue' = Append(queue, e)
  PROVE  stale' \in 0 .. Len(queue')
<1>1. queue \in Seq(Event) /\ queue' \in Seq(Event)
  BY DEF TypeOK
<1>2. CASE queue' = queue
  BY <1>2
<1>3. ASSUME NEW e, queue' = Append(queue, e)
      PROVE  stale' \in 0 .. Len(queue')
  <2>1. Len(queue') = Len(queue) + 1
    BY <1>1, <1>3
  <2>2. QED
    BY <1>1, <2>1
<1>4. QED
  BY <1>2, <1>3

\* The event that is taken from the queue is a stale one if there is any.
LEMMA StaleShrinks ==
  ASSUME TypeOK, stale \in 0 .. Len(queue), stale > 0
  PROVE  /\ queue # << >> /\ Head(queue) \in Event
         /\ Tail(queue) \in Seq(Event) /\ Len(Tail(queue)) <= Len(queue)
         /\ stale - 1 \in 0 .. Len(Tail(queue))
<1>1. queue \in Seq(Event) /\ queue # << >>
  BY DEF TypeOK
<1>2. /\ Head(queue) \in Event /\ Tail(queue) \in Seq(Event)
      /\ Len(Tail(queue)) = Len(queue) - 1
  BY <1>1, HeadTailProperties
<1>3. QED
  BY <1>1, <1>2

\* The IPC thread in a process.
LEMMA IpcRunsTyping ==
  ASSUME ManagerTypeOK, IpcRuns
  PROVE  ManagerTypeOK'
<1>1. TypeOK'
  BY IpcTyping DEF IpcRuns, ManagerTypeOK
<1>2. UNCHANGED <<mainVars, nStops>> /\ made' \in BOOLEAN
  BY DEF IpcRuns, ManagerTypeOK
<1>3. stale' \in 0 .. Len(queue')
  <2>0. TypeOK /\ stale \in 0 .. Len(queue) /\ queue \in Seq(Event) /\ IpcStep
    BY DEF ManagerTypeOK, IpcRuns, TypeOK
  <2>1. CASE pc[Ipc] # "mq"
    <3>1. stale' = stale
      BY <2>1 DEF IpcRuns, At
    <3>2. QED
      BY <1>1, <2>0, <2>1, <3>1, QueueGrows, StaleStays
  <2>2. CASE pc[Ipc] = "mq"
    <3>1. IpcMqReceive
      BY <2>0, <2>2, IpcAtMq
    <3>2. CASE stale = 0
      BY <1>1, <3>2 DEF IpcRuns, TypeOK
    <3>3. CASE stale > 0
      <4>1. queue' = Tail(queue) /\ stale' = stale - 1
        BY <2>0, <2>2, <3>1, <3>3, StaleShrinks DEF IpcRuns, IpcMqReceive, At
      <4>2. QED
        BY <2>0, <3>3, <4>1, StaleShrinks
    <3>4. QED
      BY <2>0, <3>2, <3>3
  <2>3. QED
    BY <2>1, <2>2
<1>4. QED
  BY <1>1, <1>2, <1>3 DEF ManagerTypeOK, mainVars

\* A stale event is taken from the queue and gets nowhere.
LEMMA StaleTyping ==
  ASSUME ManagerTypeOK, IpcStaleKills \/ IpcStaleGarbled
  PROVE  ManagerTypeOK'
<1>1. /\ TypeOK /\ stale \in 0 .. Len(queue) /\ stale > 0
      /\ queue' = Tail(queue) /\ stale' = stale - 1
      /\ lost' = [lost EXCEPT ![Head(queue).iface] = @ \cup {"set"}]
  BY DEF ManagerTypeOK, IpcStaleKills, IpcStaleGarbled, StaleAhead
<1>2. /\ Head(queue) \in Event /\ queue' \in Seq(Event)
      /\ Len(queue') <= Len(queue) /\ stale' \in 0 .. Len(queue')
  BY <1>1, StaleShrinks
<1>3. Len(queue') <= QueueCap
  <2>1. /\ Len(queue) \in Nat /\ Len(queue) <= QueueCap
        /\ Len(queue') \in Nat /\ QueueCap \in Nat
    BY <1>1, <1>2, QueueCapAssumption, LenProperties DEF TypeOK
  <2>2. QED
    BY <1>2, <2>1
<1>4. lost' \in [Ifaces -> SUBSET {"post", "set", "duid"}]
  <2>1. Head(queue).iface \in Ifaces
    BY <1>2 DEF Event, SetEvents, ExecEvents
  <2>2. QED
    BY <1>1, <2>1, LostTyping
<1>5. CASE IpcStaleKills
  <2>1. /\ mgr' = "killed"
        /\ UNCHANGED <<entry, owner, depth, sock, pc, todo, call, msg, inst,
                       ev, target, proc, client, wan, wanLock, posted, missed,
                       nMsgs, nCalls, nFaults, main, ready, onBus, component,
                       cancelling, table, served, made, nStops>>
    BY <1>5 DEF IpcStaleKills, Dies, ifVars, ipcVars, procVars, wanVars,
       mainVars
  <2>2. QED
    BY <1>2, <1>3, <1>4, <2>1 DEF ManagerTypeOK, TypeOK
<1>6. CASE IpcStaleGarbled
  <2>1. /\ NextRound
        /\ UNCHANGED <<mgr, entry, owner, depth, sock, todo, call, proc,
                       client, wan, wanLock, posted, missed, nMsgs, nCalls,
                       nFaults, main, ready, onBus, component, cancelling,
                       table, served, made, nStops>>
    BY <1>6 DEF IpcStaleGarbled, Passes, procVars, wanVars, mainVars
  <2>2. PcTypes' /\ RoundTypes'
    BY <1>1, <2>1, NextRoundTyping
  <2>3. QED
    BY <1>2, <1>3, <1>4, <2>1, <2>2
       DEF ManagerTypeOK, TypeOK, PcTypes, RoundTypes
<1>7. QED
  BY <1>5, <1>6

\* PppMgr_SendDataToQ into the queue of an earlier process.
LEMMA OldQueueTyping ==
  ASSUME ManagerTypeOK, NEW t \in DmlThreads, DmlOldQueueSend(t)
  PROVE  ManagerTypeOK'
<1> DEFINE e == Head(todo[t])
<1>1. TypeOK /\ t \in Threads /\ stale \in 0 .. Len(queue)
  BY Basics DEF ManagerTypeOK
<1>2. todo[t] \in Seq(Event) /\ todo[t] # << >>
  BY <1>1 DEF TypeOK, DmlOldQueueSend, FindsOldQueue
<1>3. e \in Event /\ Tail(todo[t]) \in Seq(Event)
  BY <1>2, Dequeue
<1>4. /\ Len(queue) < QueueCap
      /\ queue' = Append(queue, e)
      /\ posted' = IF e.act = "BUS_SET"
                   THEN [posted EXCEPT ![e.iface][e.key] = e.val]
                   ELSE posted
      /\ todo' = [todo EXCEPT ![t] = Tail(@)]
      /\ UNCHANGED <<mgr, entry, owner, depth, sock, pc, call, msg, inst, ev,
                     target, proc, client, wan, wanLock, lost, missed, nMsgs,
                     nCalls, nFaults, main, ready, onBus, component,
                     cancelling, table, served, made, stale, nStops>>
  BY DEF DmlOldQueueSend, ifVars, ipcVars, procVars, wanVars, mainVars,
     queueVars
<1>5. /\ queue' \in Seq(Event) /\ Len(queue') <= QueueCap
      /\ stale' \in 0 .. Len(queue')
  <2>1. queue \in Seq(Event) /\ Len(queue) \in Nat
    BY <1>1, LenProperties DEF TypeOK
  <2>2. queue' \in Seq(Event) /\ Len(queue') = Len(queue) + 1
    BY <1>3, <1>4, <2>1
  <2>3. QED
    BY <1>1, <1>4, <2>1, <2>2, QueueCapAssumption
<1>6. posted' \in [Ifaces -> [Keys -> {"Zero", "Up", "Down"}]]
  <2>1. CASE e.act # "BUS_SET"
    BY <1>1, <1>4, <2>1 DEF TypeOK
  <2>2. CASE e.act = "BUS_SET"
    BY <1>1, <1>3, <1>4, <2>2 DEF TypeOK, Event, SetEvents, ExecEvents
  <2>3. QED
    BY <2>1, <2>2
<1>7. todo' \in [Threads -> Seq(Event)]
  BY <1>1, <1>3, <1>4, TodoTyping
<1>8. QED
  BY <1>1, <1>4, <1>5, <1>6, <1>7 DEF ManagerTypeOK, TypeOK

\* The steps of PppEventLoop that are steps of the process as they are.
AsBefore ==
  \/ \E t \in DmlThreads : BusCall(t) \/ DmlRuns(t)
  \/ \E p \in Pids : ClientStep(p)

LEMMA AsBeforeIsNext ==
  ASSUME AsBefore
  PROVE  /\ Next
         /\ \/ \E t \in DmlThreads : DmlCall(t) \/ DmlRun(t)
            \/ \E p \in Pids : ClientSends(p) \/ ClientExits(p)
         /\ UNCHANGED <<mainVars, queueVars, nStops>>
  BY DEF AsBefore, BusCall, DmlRuns, ClientStep, Next

LEMMA AsBeforeTyping ==
  ASSUME ManagerTypeOK, AsBefore
  PROVE  ManagerTypeOK'
<1>1. TypeOK'
  BY AsBeforeIsNext, NextTyping DEF ManagerTypeOK
<1>2. /\ UNCHANGED <<main, ready, onBus, component, cancelling, table, served,
                     made, stale, nStops>>
  BY AsBeforeIsNext DEF mainVars, queueVars
<1>3. stale' \in 0 .. Len(queue')
  BY <1>1, <1>2, AsBeforeIsNext, QueueGrows, StaleStays DEF ManagerTypeOK
<1>4. QED
  BY <1>1, <1>2, <1>3 DEF ManagerTypeOK

\* Every step is of one of these kinds.
LEMMA Kinds ==
  ASSUME [ManagerNext]_allVars
  PROVE  \/ Launch \/ Outside \/ IpcRuns \/ IpcStaleKills \/ IpcStaleGarbled
         \/ \E t \in DmlThreads : DmlOldQueueSend(t)
         \/ AsBefore \/ UNCHANGED allVars
  BY DEF ManagerNext, IpcLives, Outside, AsBefore

LEMMA ManagerNextTyping ==
  ManagerTypeOK /\ [ManagerNext]_allVars => ManagerTypeOK'
<1> SUFFICES ASSUME ManagerTypeOK, [ManagerNext]_allVars
             PROVE  ManagerTypeOK'
  OBVIOUS
<1>1. CASE Outside
  <2>1. TypeOK' /\ MainTypes' /\ UNCHANGED <<queue, made, stale>>
    BY <1>1, OutsideApart, ApartKeeps, MainTyping
       DEF ManagerTypeOK, MainTypes, Apart, threadVars
  <2>2. QED
    BY <2>1 DEF ManagerTypeOK, MainTypes
<1>2. CASE UNCHANGED allVars
  BY <1>2 DEF allVars, vars, mainVars, queueVars, ManagerTypeOK, TypeOK
<1>3. QED
  BY <1>1, <1>2, Kinds, LaunchTyping, IpcRunsTyping, StaleTyping,
     OldQueueTyping, AsBeforeTyping

\* Through every end and every start of the manager the variables keep their
\* types, the queue its bound, and no more events are stale than there are.
THEOREM ManagerTyping == ManagerSpec => []ManagerTypeOK
<1>1. ManagerInit => ManagerTypeOK
  <2> SUFFICES ASSUME ManagerInit PROVE ManagerTypeOK
    OBVIOUS
  <2>1. TypeOK
    BY InitTyping DEF ManagerInit
  <2>2. stale \in 0 .. Len(queue)
    <3>1. queue = << >> /\ stale = 0
      BY DEF ManagerInit, Init
    <3>2. QED
      BY <3>1
  <2>3. MainTypes /\ made \in BOOLEAN
    BY DEF ManagerInit, MainTypes, MainPcs, Tables
  <2>4. QED
    BY <2>1, <2>2, <2>3 DEF ManagerTypeOK, MainTypes
<1>2. QED
  BY <1>1, ManagerNextTyping, PTL DEF ManagerSpec

-----------------------------------------------------------------------------
(* The mutexes.                                                            *)

LEMMA ManagerMutex ==
  TypeOK /\ MutexInv /\ [ManagerNext]_allVars => MutexInv'
<1> SUFFICES ASSUME TypeOK, MutexInv, [ManagerNext]_allVars
             PROVE  MutexInv'
  OBVIOUS
<1>1. ASSUME UNCHANGED <<owner, depth, pc, inst, ev, call>> PROVE MutexInv'
  BY <1>1 DEF MutexInv, Holds, LockDepth
<1>2. CASE Launch
  <2>1. \A t \in Threads, i \in Ifaces : ~Holds(t, i)'
    BY <1>2 DEF Launch, Holds
  <2>2. \A i \in Ifaces : owner'[i] = NoThread /\ depth'[i] = 0
    BY <1>2 DEF Launch
  <2>3. QED
    BY <2>1, <2>2, Basics DEF MutexInv, LockDepth
<1>3. CASE Outside
  BY <1>3, OutsideApart, ApartKeeps
<1>4. CASE IpcRuns
  BY <1>4, IpcMutex DEF IpcRuns
<1>5. CASE IpcStaleKills
  BY <1>1, <1>5 DEF IpcStaleKills, ifVars, ipcVars
<1>6. CASE IpcStaleGarbled
  <2>1. OthersStay(Ipc)
    BY <1>6 DEF IpcStaleGarbled, NextRound, Goto, OthersStay, TypeOK
  <2>2. pc[Ipc] = "mq" /\ pc'[Ipc] = "sock"
    BY <1>6, Basics DEF IpcStaleGarbled, NextRound, Goto, At, TypeOK
  <2>3. \A i \in Ifaces : Holds(Ipc, i)' <=> Holds(Ipc, i)
    BY <2>2 DEF Holds
  <2>4. UNCHANGED <<owner, depth>>
    BY <1>6 DEF IpcStaleGarbled, Passes
  <2>5. QED
    BY <2>1, <2>2, <2>3, <2>4, KeepsMutex, Basics DEF Nested
<1>7. ASSUME NEW t \in DmlThreads, DmlOldQueueSend(t) PROVE MutexInv'
  BY <1>1, <1>7 DEF DmlOldQueueSend, ifVars, ipcVars
<1>8. CASE AsBefore
  BY <1>8, AsBeforeIsNext, NextMutex
<1>9. CASE UNCHANGED allVars
  BY <1>1, <1>9 DEF allVars, vars
<1>10. QED
  BY <1>2, <1>3, <1>4, <1>5, <1>6, <1>7, <1>8, <1>9, Kinds

\* A process that ends with mutexes locked leaves no trace of them: in the next
\* one too, no two threads are inside the critical sections of one entry.
THEOREM ManagerExclusion == ManagerSpec => []MutualExclusion
<1>1. ManagerInit => MutexInv
  BY Basics DEF ManagerInit, Init, MutexInv, Holds, LockDepth
<1>2. ManagerTypeOK => TypeOK
  BY DEF ManagerTypeOK
<1>3. ManagerSpec => []MutexInv
  BY <1>1, <1>2, ManagerMutex, ManagerTyping, PTL DEF ManagerSpec
<1>4. TypeOK /\ MutexInv => MutualExclusion
  BY DEF MutexInv, MutualExclusion
<1>5. QED
  BY <1>2, <1>3, <1>4, ManagerTyping, PTL

-----------------------------------------------------------------------------
(* The order of the start.                                                 *)

\* Before ssp_engage has called the plug-in.
Early == {"bus", "create", "engage"}

\* While nothing has failed: before the plug-in there is neither an IPC thread
\* nor a call, and behind it the table is there.
StartOrder ==
  Living /\ nFaults = 0 =>
    /\ main \in Early =>
         /\ component # "green" /\ ~served
         /\ pc[Ipc] = "boot" /\ \A t \in DmlThreads : pc[t] = "idle"
    /\ main \notin Early => table = "loaded"
    /\ main # "bus" => onBus

\* The main thread itself.
LEMMA MainOrder ==
  ASSUME ManagerTypeOK, StartOrder, MainStep, mgr' = "up", nFaults' = 0
  PROVE  StartOrder'
<1>1. /\ Living /\ nFaults = 0 /\ nFaults \in Nat
      /\ UNCHANGED pc
  <2>1. nFaults \in Nat /\ nFaults' \in {nFaults, nFaults + 1}
    BY DEF ManagerTypeOK, TypeOK, MainStep, MainBusEngage, MainCreate,
       MainEngage, PluginTable, MainRegister, MainCdm, MainServer,
       MainSysevent, MainTerm, MainExit, MainCancel, NotMain, Fault
  <2>2. Living
    BY DEF MainStep, MainBusEngage, MainCreate, MainEngage, MainRegister,
       MainCdm, MainServer, MainSysevent, MainTerm, MainExit, MainCancel,
       MainAt
  <2>3. UNCHANGED pc
    BY MainApart DEF ManagerTypeOK, Apart, threadVars
  <2>4. QED
    BY <2>1, <2>2, <2>3
<1>2. nFaults' # nFaults + 1
  BY <1>1
<1>3. CASE MainBusEngage \/ MainCreate
  BY <1>1, <1>2, <1>3 DEF MainBusEngage, MainCreate, MainAt, Fault,
     StartOrder, Early, Living, NotMain
<1>4. CASE MainEngage
  BY <1>1, <1>2, <1>4 DEF MainEngage, PluginTable, MainAt, Fault, StartOrder,
     Early, Living, NotMain, Dies
<1>5. CASE MainRegister \/ MainCdm \/ MainServer
  BY <1>1, <1>2, <1>5 DEF MainRegister, MainCdm, MainServer, MainAt, Fault,
     StartOrder, Early, Living, NotMain, Dies
<1>6. CASE MainSysevent \/ MainTerm \/ MainExit
  BY <1>1, <1>2, <1>6 DEF MainSysevent, MainTerm, MainExit, MainAt, Fault,
     StartOrder, Early, Living, NotMain, Dies
<1>7. CASE MainCancel
  BY <1>1, <1>2, <1>7 DEF MainCancel, CancelEnds, MainAt, StartOrder, Early,
     Living, NotMain, Dies
<1>8. QED
  BY <1>3, <1>4, <1>5, <1>6, <1>7 DEF MainStep

\* The budget of the failures only grows.
LEMMA NoFaultBefore ==
  ASSUME Next, nFaults \in Nat, nFaults' = 0
  PROVE  nFaults = 0
<1> SUFFICES nFaults' \in {nFaults, nFaults + 1}
  OBVIOUS
<1> USE DEF Fault, SendFails, BusServes, BusFails, PidNotFound
<1>1. CASE IpcStep
  <2>1. CASE \/ IpcBoot \/ IpcReceive \/ IpcFindPid \/ IpcStateChanged
             \/ IpcIpcpParams \/ IpcIpv6cpParams \/ IpcNoEntry \/ IpcSkipEntry
    BY <2>1 DEF IpcBoot, IpcReceive, IpcFindPid, IpcStateChanged,
       IpcIpcpParams, IpcIpv6cpParams, IpcNoEntry, IpcSkipEntry
  <2>2. CASE \/ IpcSend \/ IpcSendFails \/ IpcSent \/ IpcSettle \/ IpcUnlock
             \/ IpcMqReceive \/ IpcReadWan \/ IpcBusSet
    BY <2>2 DEF IpcSend, IpcSendFails, IpcSent, IpcSettle, IpcUnlock,
       IpcMqReceive, IpcReadWan, IpcBusSet
  <2>3. CASE \/ IpcWanScan \/ IpcStart \/ IpcStartCrash \/ IpcBusGet
             \/ IpcExec \/ IpcGetPid
    BY <2>3 DEF IpcWanScan, IpcStart, IpcStartCrash, IpcBusGet, IpcExec,
       IpcGetPid
  <2>4. QED
    BY <1>1, <2>1, <2>2, <2>3 DEF IpcStep
<1>2. ASSUME NEW t \in DmlThreads, DmlCall(t) \/ DmlRun(t)
      PROVE  nFaults' \in {nFaults, nFaults + 1}
  BY <1>2 DEF DmlCall, DmlRun, DmlLock, DmlDispatch, DmlStop, DmlStopped,
     DmlSend, DmlSent, DmlStart, DmlExecSend, DmlExecSent, DmlExecSendFails,
     DmlNoEntry, DmlReturn
<1>3. ASSUME NEW p \in Pids, ClientSends(p) \/ ClientExits(p)
      PROVE  nFaults' \in {nFaults, nFaults + 1}
  BY <1>3 DEF ClientSends, ClientExits
<1>4. CASE Halted
  BY <1>4 DEF Halted, vars
<1>5. QED
  BY <1>1, <1>2, <1>3, <1>4 DEF Next

LEMMA ManagerOrder ==
  ManagerTypeOK /\ StartOrder /\ [ManagerNext]_allVars => StartOrder'
<1> SUFFICES ASSUME ManagerTypeOK, StartOrder, [ManagerNext]_allVars,
                    mgr' = "up", nFaults' = 0
             PROVE  StartOrder'
  BY DEF StartOrder, Living
<1>1. CASE Launch
  BY <1>1, Basics DEF Launch, StartOrder, Early
<1>2. CASE MainStep
  BY <1>2, MainOrder
<1>3. CASE BusFinalizes \/ BusFinalized
  <2>1. /\ UNCHANGED <<nFaults, main, onBus, table, served, pc>> /\ Living
        /\ component' \in {component, "none"}
    BY <1>3 DEF BusFinalizes, BusFinalized, CancelEnds, vars
  <2>2. QED
    BY <2>1 DEF StartOrder, Early, Living
<1>4. CASE Signal \/ IpcNoTable \/ BusCallNoTable \/ IpcStaleKills
  BY <1>4 DEF Signal, IpcNoTable, BusCallNoTable, IpcStaleKills, Dies
<1>5. ASSUME Living, served \/ pc[Ipc] # "boot" \/ component = "green"
               \/ (\E t \in DmlThreads : pc[t] # "idle"),
             nFaults = 0, UNCHANGED mainVars
      PROVE  StartOrder'
  BY <1>5 DEF StartOrder, mainVars
<1>6. nFaults \in Nat
  BY DEF ManagerTypeOK, TypeOK
<1>7. CASE IpcRuns
  <2>1. IpcStep /\ served /\ UNCHANGED mainVars
    BY <1>7 DEF IpcRuns
  <2>2. Living
    BY <2>1 DEF IpcStep, IpcBoot, IpcReceive, IpcFindPid, IpcStateChanged,
       IpcIpcpParams, IpcIpv6cpParams, IpcNoEntry, IpcSkipEntry, IpcSend,
       IpcSendFails, IpcSent, IpcSettle, IpcUnlock, IpcMqReceive, IpcReadWan, IpcBusSet,
       IpcWanScan, IpcStart, IpcStartCrash, IpcBusGet, IpcExec, IpcGetPid,
       At, Living
  <2>3. nFaults = 0
    BY <1>6, <2>1, NoFaultBefore DEF Next
  <2>4. QED
    BY <1>5, <2>1, <2>2, <2>3
<1>8. CASE IpcStaleGarbled
  <2>1. /\ Living /\ pc[Ipc] = "mq" /\ UNCHANGED <<mainVars, nFaults>>
    BY <1>8 DEF IpcStaleGarbled, At, Living
  <2>2. QED
    BY <1>5, <2>1
<1>9. ASSUME NEW t \in DmlThreads, DmlOldQueueSend(t) PROVE StartOrder'
  <2>1. /\ Living /\ pc[t] # "idle" /\ UNCHANGED <<mainVars, nFaults>>
    BY <1>9 DEF DmlOldQueueSend, FindsOldQueue
  <2>2. QED
    BY <1>5, <2>1
<1>10. ASSUME NEW t \in DmlThreads, BusCall(t) \/ DmlRuns(t)
       PROVE  StartOrder'
  <2>1. /\ Living /\ UNCHANGED mainVars
        /\ component = "green" \/ pc[t] # "idle"
    BY <1>10 DEF BusCall, DmlCall, DmlRuns, DmlRun, DmlLock, DmlDispatch,
       DmlStop, DmlStopped, DmlSend, DmlSent, DmlStart, DmlExecSend,
       DmlExecSent, DmlExecSendFails, DmlNoEntry, DmlReturn, At, Living
  <2>2. nFaults = 0
    BY <1>6, <1>10, NoFaultBefore DEF BusCall, DmlRuns, Next
  <2>3. QED
    BY <1>5, <2>1, <2>2
<1>11. ASSUME NEW p \in Pids, ClientStep(p) PROVE StartOrder'
  <2>1. UNCHANGED <<mgr, pc, main, onBus, component, table, served>>
    BY <1>11 DEF ClientStep, ClientSends, ClientExits, mainVars
  <2>2. nFaults = 0
    BY <1>6, <1>11, NoFaultBefore DEF ClientStep, Next
  <2>3. QED
    BY <2>1, <2>2 DEF StartOrder, Living
<1>12. CASE UNCHANGED allVars
  BY <1>12 DEF allVars, vars, mainVars, StartOrder, Living
<1>13. QED
  BY <1>1, <1>2, <1>3, <1>4, <1>7, <1>8, <1>9, <1>10, <1>11, <1>12, Kinds
     DEF Outside, AsBefore

\* As long as nothing has failed, no thread of the manager meets a table that
\* is not there, in the first process or a later one.
THEOREM TableComesFirst == ManagerSpec => []TableFirst
<1>1. ManagerInit => StartOrder
  BY Basics DEF ManagerInit, Init, StartOrder, Early
<1>2. StartOrder => TableFirst
  BY DEF StartOrder, TableFirst
<1>3. QED
  BY <1>1, <1>2, ManagerOrder, ManagerTyping, PTL DEF ManagerSpec
===============================================================================
