-------------------------- MODULE PppEventLoopProofs --------------------------
(***************************************************************************)
(* Proofs about PppEventLoop for every number of interfaces, every set of  *)
(* bus threads and of PPP clients, every queue capacity and either build.  *)
(***************************************************************************)
EXTENDS PppEventLoop, SequenceTheorems, TLAPS

-----------------------------------------------------------------------------
(* What the operators of PppIface return.                                  *)

\* The first instance exists, and IPC is one of the threads.
LEMMA Basics == /\ 1 \in Ifaces
                /\ \A i \in Ifaces : i \in Nat /\ i >= 1 /\ i <= NumIfaces
                /\ Ipc \in Threads
                /\ \A t \in DmlThreads : t \in Threads /\ t # Ipc
                /\ NoThread \notin Threads
  BY NumIfacesAssumption, ThreadsAssumption DEF Ifaces, Threads

\* Every event a handler sends, and every list of them, has its type.
LEMMA EventTyping ==
  /\ << >> \in Seq(Event)
  /\ ExecEvent(1) \in Event
  /\ \A i \in Ifaces :
       /\ ExecEvent(i) \in Event
       /\ <<ExecEvent(i)>> \in Seq(Event)
       /\ <<SetIPCPStatusDown(i)>> \in Seq(Event)
       /\ StopPosts(i) \in Seq(Event)
       /\ \A s \in PppStates : /\ StateChangedPosts(i, s) \in Seq(Event)
                               /\ Ipv6cpPosts(i, s) \in Seq(Event)
       /\ \A a \in PppArgs : IpcpPosts(i, a) \in Seq(Event)
<1>1. \A i \in Ifaces, k \in Keys, v \in {"Up", "Down"} :
        SetEvent(i, k, v) \in Event
  BY DEF SetEvent, Event, SetEvents
<1>2. \A i \in Ifaces : ExecEvent(i) \in Event
  BY DEF ExecEvent, Event, ExecEvents
<1>3. /\ "LCP" \in Keys /\ "LINK" \in Keys
      /\ "IPCP" \in Keys /\ "IPV6CP" \in Keys
  BY DEF Keys
<1>4. ASSUME NEW i \in Ifaces
      PROVE  /\ SetLinkStatusDown(i) \in Event
             /\ SetIPCPStatusDown(i) \in Event
             /\ SetIPv6CPStatusDown(i) \in Event
  BY <1>1, <1>3 DEF SetLinkStatusDown, SetIPCPStatusDown, SetIPv6CPStatusDown
<1>5. ASSUME NEW i \in Ifaces, NEW s \in PppStates
      PROVE  StateChangedPosts(i, s) \in Seq(Event)
  <2>1. << >> \in Seq(Event)
    OBVIOUS
  <2>2. \A v \in {"Up", "Down"} :
          <<SetEvent(i, "LCP", v), SetEvent(i, "LINK", v)>> \in Seq(Event)
    BY <1>1, <1>3
  <2>3. QED
    BY <2>1, <2>2 DEF StateChangedPosts
<1>6. QED
  BY <1>1, <1>2, <1>3, <1>4, <1>5, Basics DEF StopPosts, Ipv6cpPosts, IpcpPosts

\* Every handler leaves an entry in a state of the data model.
LEMMA EntryTyping ==
  ASSUME NEW e \in Entry, NEW s \in PppStates, NEW a \in PppArgs,
         NEW b \in BOOLEAN
  PROVE  /\ StateChanged(e, s, a) \in Entry
         /\ IpcpParams(e, a) \in Entry
         /\ Ipv6cpParams(e, s, a, b) \in Entry
<1>1. \A st \in Statuses, c \in ConnStatus : LinkChange(e, st, c) \in Entry
  BY DEF LinkChange, Entry
<1>2. ExitError(a) \in ConnErrors
  BY DEF ExitError, ConnErrors
<1>3. \A f \in Entry, r \in ConnErrors : [f EXCEPT !.err = r] \in Entry
  BY DEF Entry
<1>4. StateChanged(e, s, a) \in Entry
  <2>1. /\ "Up" \in Statuses /\ "Down" \in Statuses /\ "Error" \in Statuses
        /\ "NONE" \in ConnErrors
    BY DEF Statuses, ConnErrors
  <2>2. ConnStatus = {"Zero", "Unconfigured", "Connecting", "Authenticating",
                      "Connected", "Disconnecting", "Disconnected",
                      "AuthenticationFailed"}
    BY DEF ConnStatus
  <2>3. QED
    BY <1>1, <1>2, <1>3, <2>1, <2>2 DEF StateChanged
<1>5. IpcpParams(e, a) \in Entry
  BY DEF IpcpParams, Entry
<1>6. Ipv6cpParams(e, s, a, b) \in Entry
  BY DEF Ipv6cpParams, Entry
<1>7. QED
  BY <1>4, <1>5, <1>6

\* And so do the calls of the data model and the start of a client.
LEMMA SessionTyping ==
  ASSUME NEW e \in Entry
  PROVE  /\ \A k : SessionReset(e, k) \in Entry
         /\ [e EXCEPT !.enabled = TRUE] \in Entry
         /\ [e EXCEPT !.pid = NoPid] \in Entry
         /\ \A p \in Pids \cup {NoPid} :
              [e EXCEPT !.pid = p, !.wan = TRUE] \in Entry
<1>1. \A k : SessionReset(e, k) \in Entry
  BY DEF SessionReset, Entry, Statuses, ConnStatus
<1>2. /\ [e EXCEPT !.enabled = TRUE] \in Entry
      /\ [e EXCEPT !.pid = NoPid] \in Entry
      /\ \A p \in Pids \cup {NoPid} :
           [e EXCEPT !.pid = p, !.wan = TRUE] \in Entry
  BY DEF Entry
<1>3. QED
  BY <1>1, <1>2

-----------------------------------------------------------------------------
(* Types.  Each operator the actions share keeps the part of TypeOK that   *)
(* it changes.                                                             *)

PcTypes == /\ pc \in [Threads -> IpcPcs \cup DmlPcs]
           /\ pc[Ipc] \in IpcPcs
           /\ \A t \in DmlThreads : pc[t] \in DmlPcs

MutexTypes == /\ owner \in [Ifaces -> Threads \cup {NoThread}]
              /\ depth \in [Ifaces -> Int]

SendTypes == /\ queue \in Seq(Event) /\ Len(queue) <= QueueCap
             /\ posted \in [Ifaces -> [Keys -> {"Zero", "Up", "Down"}]]
             /\ lost \in [Ifaces -> SUBSET {"post", "set", "duid"}]

RoundTypes == /\ msg \in Message /\ inst \in Ifaces
              /\ ev \in Event /\ target \in BOOLEAN

ProcTypes == /\ proc \in [Pids -> {"free", "running", "dying", "dead"}]
             /\ client \in [Pids -> Ifaces]

\* Moving to a label of its own keeps every program counter in range.
LEMMA GotoTyping ==
  ASSUME TypeOK, NEW t \in Threads,
         NEW l \in IF t = Ipc THEN IpcPcs ELSE DmlPcs, Goto(t, l)
  PROVE  PcTypes'
  BY Basics, ThreadsAssumption DEF TypeOK, PcTypes, Goto, Threads

\* Locking keeps owners and depths in range ...
LEMMA AcquireTyping ==
  ASSUME TypeOK, NEW t \in Threads, NEW i \in Ifaces, Acquire(t, i)
  PROVE  MutexTypes'
  BY DEF TypeOK, MutexTypes, Acquire

\* ... and so does unlocking.
LEMMA ReleaseTyping ==
  ASSUME TypeOK, NEW t \in Threads, NEW i \in Ifaces, Release(t, i)
  PROVE  MutexTypes'
  BY DEF TypeOK, MutexTypes, Release

\* Replacing the events a thread still has to send.
LEMMA TodoTyping ==
  ASSUME TypeOK, NEW t \in Threads, NEW s \in Seq(Event),
         todo' = [todo EXCEPT ![t] = s]
  PROVE  todo' \in [Threads -> Seq(Event)]
  BY DEF TypeOK

\* Replacing one entry of PppTable.
LEMMA EntryChange ==
  ASSUME TypeOK, NEW i \in Ifaces, NEW e \in Entry,
         entry' = [entry EXCEPT ![i] = e]
  PROVE  entry' \in [Ifaces -> Entry]
  BY DEF TypeOK

\* Noting that something was lost on the way to WanManager.
LEMMA LostTyping ==
  ASSUME TypeOK, NEW i \in Ifaces, NEW x \in {"post", "set", "duid"},
         lost' = [lost EXCEPT ![i] = @ \cup {x}]
  PROVE  lost' \in [Ifaces -> SUBSET {"post", "set", "duid"}]
  BY DEF TypeOK

\* What PppMgr_ProcessPppEvent sets is a value of WanManager's parameter.
LEMMA WanEvents ==
  ASSUME NEW w \in [Keys -> {"Zero", "Up", "Down"}], NEW e \in Event
  PROVE  [w EXCEPT ![e.key] = e.val] \in [Keys -> {"Zero", "Up", "Down"}]
<1>1. CASE e \in SetEvents
  BY <1>1 DEF SetEvents
<1>2. CASE e \in ExecEvents
  BY <1>2 DEF ExecEvents, Keys
<1>3. QED
  BY <1>1, <1>2 DEF Event

\* Taking the first element of a sequence.
LEMMA Dequeue ==
  ASSUME NEW S, NEW s \in Seq(S), s # << >>
  PROVE  Head(s) \in S /\ Tail(s) \in Seq(S) /\ Len(Tail(s)) <= Len(s)
  BY HeadTailProperties, LenProperties

\* The top of the loop of PppMgr_EventHandlerThread.
LEMMA NextRoundTyping ==
  ASSUME TypeOK, NextRound
  PROVE  PcTypes' /\ RoundTypes'
<1>1. PcTypes'
  BY GotoTyping, Basics DEF NextRound, IpcPcs
<1>2. ZeroMessage \in Message
  BY DEF ZeroMessage, Message, PppStates, PppArgs
<1>3. QED
  BY <1>1, <1>2, Basics, EventTyping DEF NextRound, RoundTypes

\* PppMgr_SendDataToQ puts an event into the queue and never overfills it.
LEMMA SendTyping ==
  ASSUME TypeOK, NEW t \in Threads, Send(t)
  PROVE  /\ queue' \in Seq(Event) /\ Len(queue') <= QueueCap
         /\ posted' \in [Ifaces -> [Keys -> {"Zero", "Up", "Down"}]]
         /\ Tail(todo[t]) \in Seq(Event)
<1> DEFINE e == Head(todo[t])
<1>1. todo[t] \in Seq(Event) /\ todo[t] # << >>
  BY DEF TypeOK, Send
<1>2. e \in Event /\ Tail(todo[t]) \in Seq(Event)
  BY <1>1, Dequeue
<1>3. queue' \in Seq(Event) /\ Len(queue') <= QueueCap
  BY <1>2, QueueCapAssumption DEF TypeOK, Send
<1>4. posted' \in [Ifaces -> [Keys -> {"Zero", "Up", "Down"}]]
  <2> DEFINE V == {"Zero", "Up", "Down"}
  <2>1. CASE e.act # "BUS_SET"
    BY <2>1 DEF TypeOK, Send
  <2>2. CASE e.act = "BUS_SET"
    BY <2>2, <1>2 DEF TypeOK, Send, Event, SetEvents, ExecEvents
  <2>3. QED
    BY <2>1, <2>2
<1>5. QED
  BY <1>2, <1>3, <1>4

\* PppMgr_SendDataToQ fails.
LEMMA SendFailsTyping ==
  ASSUME TypeOK, NEW t \in Threads, SendFails(t)
  PROVE  /\ lost' \in [Ifaces -> SUBSET {"post", "set", "duid"}]
         /\ nFaults' \in Nat
         /\ Tail(todo[t]) \in Seq(Event)
<1>1. todo[t] \in Seq(Event) /\ todo[t] # << >>
  BY DEF TypeOK, SendFails
<1>2. Head(todo[t]) \in Event /\ Tail(todo[t]) \in Seq(Event)
  BY <1>1, Dequeue
<1>3. lost' \in [Ifaces -> SUBSET {"post", "set", "duid"}]
  BY <1>2 DEF TypeOK, SendFails, Event, SetEvents, ExecEvents
<1>4. nFaults' \in Nat
  BY DEF TypeOK, SendFails, Fault
<1>5. QED
  BY <1>2, <1>3, <1>4

\* Every step of the IPC thread preserves the types.
LEMMA IpcTyping ==
  ASSUME TypeOK, IpcStep
  PROVE  TypeOK'
<1>1. CASE IpcBoot
  <2>1. UNCHANGED <<mgr, entry, owner, depth, queue, sock, todo, call, msg,
                   inst, ev, target, proc, client, wan, wanLock, posted, lost,
                   missed, nMsgs, nCalls>>
    BY <1>1 DEF IpcBoot, ifVars, ipcVars, procVars, wanVars, histVars
  <2>2. PcTypes'
    BY <1>1, GotoTyping, Basics DEF IpcBoot, IpcPcs
  <2>3. nFaults' \in Nat
    BY <1>1 DEF IpcBoot, TypeOK, Fault
  <2>4. QED
    BY <2>1, <2>2, <2>3 DEF TypeOK, PcTypes
<1>2. CASE IpcReceive
  <2>1. UNCHANGED <<mgr, entry, owner, depth, queue, todo, call, proc, client,
                   wan, wanLock, posted, lost, missed, nMsgs, nCalls, nFaults>>
    BY <1>2 DEF IpcReceive, ifVars, procVars, wanVars, histVars
  <2>2. PcTypes'
    BY <1>2, GotoTyping, Basics DEF IpcReceive, IpcPcs
  <2>3. sock' \in Seq(Message)
    <3>1. sock \in Seq(Message)
      BY DEF TypeOK
    <3>2. sock # << >> => Tail(sock) \in Seq(Message)
      BY <3>1, Dequeue
    <3>3. QED
      BY <1>2, <3>1, <3>2 DEF IpcReceive
  <2>4. RoundTypes'
    BY <1>2, Dequeue DEF IpcReceive, TypeOK, RoundTypes
  <2>5. QED
    BY <2>1, <2>2, <2>3, <2>4 DEF TypeOK, PcTypes, RoundTypes
<1>3. CASE IpcFindPid
  <2>1. UNCHANGED <<mgr, entry, queue, sock, call, proc, client, wan, wanLock,
                   posted, lost, missed, nMsgs, nCalls, nFaults>>
    BY <1>3 DEF IpcFindPid, procVars, wanVars, histVars
  <2>2. PcTypes'
    BY <1>3, GotoTyping, Basics DEF IpcFindPid, IpcPcs, HandlerOf, PcTypes,
       TypeOK
  <2>3. MutexTypes'
    BY <1>3 DEF IpcFindPid, TypeOK, MutexTypes, Passes
  <2>4. RoundTypes'
    BY <1>3, NumIfacesAssumption DEF IpcFindPid, TypeOK, RoundTypes, Ifaces
  <2>5. todo' \in [Threads -> Seq(Event)]
    BY <1>3, TodoTyping, EventTyping, Basics DEF IpcFindPid, TypeOK
  <2>6. QED
    BY <2>1, <2>2, <2>3, <2>4, <2>5 DEF TypeOK, PcTypes, MutexTypes, RoundTypes
<1>4. CASE IpcStateChanged
  <2>1. UNCHANGED <<mgr, queue, sock, call, msg, inst, ev, target, wan,
                   wanLock, posted, lost, missed, nMsgs, nCalls, nFaults>>
    BY <1>4 DEF IpcStateChanged, ipcVars, procVars, wanVars, histVars
  <2>2. PcTypes'
    BY <1>4, GotoTyping, Basics DEF IpcStateChanged, IpcPcs
  <2>3. MutexTypes'
    BY <1>4, AcquireTyping, Basics DEF IpcStateChanged, TypeOK
  <2>4. entry' \in [Ifaces -> Entry]
    BY <1>4, EntryChange, EntryTyping DEF IpcStateChanged, TypeOK, Message
  <2>5. todo' \in [Threads -> Seq(Event)]
    BY <1>4, TodoTyping, EventTyping, Basics DEF IpcStateChanged, TypeOK,
       Message
  <2>6. ProcTypes'
    BY <1>4 DEF IpcStateChanged, TypeOK, ProcTypes, PppoeStop, procVars
  <2>7. QED
    BY <2>1, <2>2, <2>3, <2>4, <2>5, <2>6 DEF TypeOK, PcTypes, MutexTypes,
       ProcTypes
<1>5. CASE IpcIpcpParams
  <2>1. UNCHANGED <<mgr, queue, sock, call, msg, inst, ev, target, proc,
                   client, wan, wanLock, posted, lost, missed, nMsgs, nCalls,
                   nFaults>>
    BY <1>5 DEF IpcIpcpParams, ipcVars, procVars, wanVars, histVars
  <2>2. PcTypes'
    BY <1>5, GotoTyping, Basics DEF IpcIpcpParams, IpcPcs
  <2>3. MutexTypes'
    BY <1>5, AcquireTyping, Basics DEF IpcIpcpParams, TypeOK
  <2>4. entry' \in [Ifaces -> Entry]
    BY <1>5, EntryChange, EntryTyping DEF IpcIpcpParams, TypeOK, Message
  <2>5. todo' \in [Threads -> Seq(Event)]
    BY <1>5, TodoTyping, EventTyping, Basics DEF IpcIpcpParams, TypeOK, Message
  <2>6. QED
    BY <2>1, <2>2, <2>3, <2>4, <2>5 DEF TypeOK, PcTypes, MutexTypes
<1>6. CASE IpcIpv6cpParams
  <2>1. UNCHANGED <<mgr, queue, sock, call, msg, inst, ev, target, proc,
                   client, wan, wanLock, posted, missed, nMsgs, nCalls>>
    BY <1>6 DEF IpcIpv6cpParams, ipcVars, procVars, wanVars
  <2>2. PcTypes'
    BY <1>6, GotoTyping, Basics DEF IpcIpv6cpParams, IpcPcs
  <2>3. MutexTypes'
    BY <1>6, AcquireTyping, Basics DEF IpcIpv6cpParams, TypeOK
  <2>4. entry' \in [Ifaces -> Entry]
    BY <1>6, EntryChange, EntryTyping DEF IpcIpv6cpParams, TypeOK, Message
  <2>5. todo' \in [Threads -> Seq(Event)]
    BY <1>6, TodoTyping, EventTyping, Basics DEF IpcIpv6cpParams, TypeOK,
       Message
  <2>6. lost' \in [Ifaces -> SUBSET {"post", "set", "duid"}]
    BY <1>6, LostTyping DEF IpcIpv6cpParams, TypeOK, Fault
  <2>7. nFaults' \in Nat
    BY <1>6 DEF IpcIpv6cpParams, TypeOK, Fault
  <2>8. QED
    BY <2>1, <2>2, <2>3, <2>4, <2>5, <2>6, <2>7 DEF TypeOK, PcTypes, MutexTypes
<1>7. CASE IpcNoEntry
  <2>1. UNCHANGED <<mgr, entry, owner, depth, queue, sock, todo, call, msg,
                   inst, ev, target, proc, client, wan, wanLock, posted, lost,
                   missed, nMsgs, nCalls>>
    BY <1>7 DEF IpcNoEntry, ifVars, ipcVars, procVars, wanVars, histVars
  <2>2. PcTypes'
    BY <1>7, GotoTyping, Basics DEF IpcNoEntry, IpcPcs
  <2>3. nFaults' \in Nat
    BY <1>7 DEF IpcNoEntry, TypeOK, Fault
  <2>4. QED
    BY <2>1, <2>2, <2>3 DEF TypeOK, PcTypes
<1>22. CASE IpcSkipEntry
  <2>1. UNCHANGED <<mgr, entry, owner, depth, queue, sock, todo, call, proc,
                   client, wan, wanLock, posted, lost, missed, nMsgs, nCalls>>
    BY <1>22 DEF IpcSkipEntry, ifVars, procVars, wanVars, histVars
  <2>2. PcTypes'
    BY <1>22, GotoTyping, Basics DEF IpcSkipEntry, IpcPcs, PcTypes, TypeOK
  <2>3. RoundTypes'
    BY <1>22, NumIfacesAssumption DEF IpcSkipEntry, TypeOK, RoundTypes, Ifaces
  <2>4. nFaults' \in Nat
    BY <1>22 DEF IpcSkipEntry, TypeOK, Fault
  <2>5. QED
    BY <2>1, <2>2, <2>3, <2>4 DEF TypeOK, PcTypes, RoundTypes
<1>8. CASE IpcSend
  <2>1. UNCHANGED <<mgr, entry, owner, depth, sock, pc, call, msg, inst, ev,
                   target, proc, client, wan, wanLock, lost, missed, nMsgs,
                   nCalls, nFaults>>
    BY <1>8 DEF IpcSend, ifVars, ipcVars, procVars, wanVars
  <2>2. queue' \in Seq(Event) /\ Len(queue') <= QueueCap
    BY <1>8, SendTyping, Basics DEF IpcSend
  <2>3. posted' \in [Ifaces -> [Keys -> {"Zero", "Up", "Down"}]]
    BY <1>8, SendTyping, Basics DEF IpcSend
  <2>4. todo' \in [Threads -> Seq(Event)]
    BY <1>8, SendTyping, TodoTyping, Basics DEF IpcSend
  <2>5. QED
    BY <2>1, <2>2, <2>3, <2>4 DEF TypeOK
<1>9. CASE IpcSendFails
  <2>1. UNCHANGED <<mgr, entry, owner, depth, queue, sock, call, msg, inst, ev,
                   target, proc, client, wan, wanLock, posted, missed, nMsgs,
                   nCalls>>
    BY <1>9 DEF IpcSendFails, ifVars, ipcVars, procVars, wanVars
  <2>2. PcTypes'
    BY <1>9, GotoTyping, Basics DEF IpcSendFails, IpcPcs
  <2>3. todo' \in [Threads -> Seq(Event)]
    BY <1>9, TodoTyping, EventTyping, Basics DEF IpcSendFails
  <2>4. lost' \in [Ifaces -> SUBSET {"post", "set", "duid"}]
    BY <1>9, SendFailsTyping, Basics DEF IpcSendFails
  <2>5. nFaults' \in Nat
    BY <1>9, SendFailsTyping, Basics DEF IpcSendFails
  <2>6. QED
    BY <2>1, <2>2, <2>3, <2>4, <2>5 DEF TypeOK, PcTypes
<1>10. CASE IpcSent
  <2>1. UNCHANGED <<mgr, entry, owner, depth, queue, sock, todo, call, msg,
                   inst, ev, target, proc, client, wan, wanLock, posted, lost,
                   missed, nMsgs, nCalls, nFaults>>
    BY <1>10 DEF IpcSent, ifVars, ipcVars, procVars, wanVars, histVars
  <2>2. PcTypes'
    BY <1>10, GotoTyping, Basics DEF IpcSent, IpcPcs
  <2>3. QED
    BY <2>1, <2>2 DEF TypeOK, PcTypes
<1>11. CASE IpcSettle
  <2>1. UNCHANGED <<mgr, entry, owner, depth, queue, sock, todo, call, msg,
                   inst, ev, target, proc, client, wan, wanLock, posted, lost,
                   missed, nMsgs, nCalls, nFaults>>
    BY <1>11 DEF IpcSettle, ifVars, ipcVars, procVars, wanVars, histVars
  <2>2. PcTypes'
    BY <1>11, GotoTyping, Basics DEF IpcSettle, IpcPcs
  <2>3. QED
    BY <2>1, <2>2 DEF TypeOK, PcTypes
<1>12. CASE IpcUnlock
  <2>1. UNCHANGED <<mgr, entry, queue, sock, todo, call, msg, inst, ev, target,
                   proc, client, wan, wanLock, posted, lost, missed, nMsgs,
                   nCalls, nFaults>>
    BY <1>12 DEF IpcUnlock, ipcVars, procVars, wanVars, histVars
  <2>2. PcTypes'
    BY <1>12, GotoTyping, Basics DEF IpcUnlock, IpcPcs
  <2>3. MutexTypes'
    BY <1>12, ReleaseTyping, Basics DEF IpcUnlock, TypeOK
  <2>4. QED
    BY <2>1, <2>2, <2>3 DEF TypeOK, PcTypes, MutexTypes
<1>13. CASE IpcMqReceive
  <2>1. UNCHANGED <<mgr, entry, owner, depth, sock, todo, call, proc, client,
                   wan, wanLock, posted, lost, missed, nMsgs, nCalls, nFaults>>
    BY <1>13 DEF IpcMqReceive, ifVars, procVars, wanVars, histVars
  <2>2. PcTypes'
    BY <1>13, GotoTyping, NextRoundTyping, Basics DEF IpcMqReceive, IpcPcs
  <2>3. queue' \in Seq(Event) /\ Len(queue') <= QueueCap
    <3>1. queue \in Seq(Event) /\ Len(queue) <= QueueCap
      BY DEF TypeOK
    <3>2. queue # << >> =>
            /\ Tail(queue) \in Seq(Event)
            /\ Len(Tail(queue)) <= Len(queue)
      BY <3>1, Dequeue
    <3>3. Len(queue) \in Nat /\ (queue # << >> => Len(Tail(queue)) \in Nat)
      BY <3>1, <3>2, LenProperties
    <3>4. QED
      BY <1>13, <3>1, <3>2, <3>3, QueueCapAssumption DEF IpcMqReceive
  <2>4. RoundTypes'
    BY <1>13, Dequeue, NextRoundTyping DEF IpcMqReceive, TypeOK, RoundTypes
  <2>5. QED
    BY <2>1, <2>2, <2>3, <2>4 DEF TypeOK, PcTypes, RoundTypes
<1>14. CASE IpcReadWan
  <2>1. UNCHANGED <<mgr, entry, queue, sock, todo, call, proc, client, wan,
                   wanLock, posted, lost, missed, nMsgs, nCalls>>
    BY <1>14 DEF IpcReadWan, procVars, wanVars, histVars
  <2>2. PcTypes'
    BY <1>14, GotoTyping, Basics DEF IpcReadWan, IpcPcs
  <2>3. MutexTypes'
    BY <1>14 DEF IpcReadWan, TypeOK, MutexTypes, Passes
  <2>4. RoundTypes'
    BY <1>14 DEF IpcReadWan, TypeOK, RoundTypes, Entry, Event, SetEvents,
       ExecEvents
  <2>5. nFaults' \in Nat
    BY <1>14 DEF IpcReadWan, TypeOK, Fault
  <2>6. QED
    BY <2>1, <2>2, <2>3, <2>4, <2>5 DEF TypeOK, PcTypes, MutexTypes, RoundTypes
<1>15. CASE IpcBusSet
  <2>1. UNCHANGED <<mgr, entry, owner, depth, queue, sock, todo, call, proc,
                   client, wanLock, posted, missed, nMsgs, nCalls>>
    BY <1>15 DEF IpcBusSet, ifVars, procVars
  <2>2. PcTypes'
    BY <1>15, NextRoundTyping DEF IpcBusSet
  <2>3. RoundTypes'
    BY <1>15, NextRoundTyping DEF IpcBusSet
  <2>4. wan' \in [Ifaces -> [Keys -> {"Zero", "Up", "Down"}]]
    <3>1. /\ wan \in [Ifaces -> [Keys -> {"Zero", "Up", "Down"}]]
          /\ ev \in Event /\ ev.iface \in Ifaces
      BY DEF TypeOK, Event, SetEvents, ExecEvents
    <3>2. [wan[ev.iface] EXCEPT ![ev.key] = ev.val]
            \in [Keys -> {"Zero", "Up", "Down"}]
      BY <3>1, WanEvents
    <3>3. \/ wan' = [wan EXCEPT ![ev.iface] =
                       [wan[ev.iface] EXCEPT ![ev.key] = ev.val]]
          \/ wan' = wan
      BY <1>15 DEF IpcBusSet
    <3>4. QED
      BY <3>1, <3>2, <3>3
  <2>5. lost' \in [Ifaces -> SUBSET {"post", "set", "duid"}]
    BY <1>15, LostTyping DEF IpcBusSet, TypeOK, Event, SetEvents, ExecEvents
  <2>6. nFaults' \in Nat
    BY <1>15 DEF IpcBusSet, TypeOK, Fault, BusServes, BusFails
  <2>7. QED
    BY <2>1, <2>2, <2>3, <2>4, <2>5, <2>6 DEF TypeOK, PcTypes, RoundTypes
<1>16. CASE IpcWanScan
  <2>1. UNCHANGED <<mgr, entry, owner, depth, queue, sock, todo, call, proc,
                   client, wan, wanLock, posted, lost, missed, nMsgs, nCalls>>
    BY <1>16 DEF IpcWanScan, ifVars, ipcVars, procVars, wanVars, histVars
  <2>2. PcTypes'
    BY <1>16, GotoTyping, NextRoundTyping, Basics DEF IpcWanScan, IpcPcs
  <2>3. RoundTypes'
    BY <1>16, NextRoundTyping DEF IpcWanScan, TypeOK, RoundTypes, ipcVars
  <2>4. nFaults' \in Nat
    BY <1>16 DEF IpcWanScan, TypeOK, Fault, BusServes, BusFails
  <2>5. QED
    BY <2>1, <2>2, <2>3, <2>4 DEF TypeOK, PcTypes, RoundTypes
<1>17. CASE IpcStart
  <2>1. UNCHANGED <<mgr, queue, sock, todo, call, proc, client, wan, wanLock,
                   posted, lost, nMsgs, nCalls>>
    BY <1>17 DEF IpcStart, procVars, wanVars
  <2>2. PcTypes'
    BY <1>17, GotoTyping, NextRoundTyping, Basics DEF IpcStart, IpcPcs
  <2>3. RoundTypes'
    BY <1>17, NextRoundTyping DEF IpcStart, TypeOK, RoundTypes, ipcVars
  <2>4. MutexTypes'
    BY <1>17, AcquireTyping, Basics DEF IpcStart, TypeOK, MutexTypes, Passes,
       Event, SetEvents, ExecEvents
  <2>5. entry' \in [Ifaces -> Entry]
    <3> DEFINE i == ev.iface
    <3>1. entry \in [Ifaces -> Entry] /\ i \in Ifaces /\ entry[i] \in Entry
      BY DEF TypeOK, Event, SetEvents, ExecEvents
    <3>2. [entry[i] EXCEPT !.pid = NoPid] \in Entry
      BY <3>1, SessionTyping
    <3>3. \/ entry' = [entry EXCEPT ![i] = [entry[i] EXCEPT !.pid = NoPid]]
          \/ entry' = entry
      BY <1>17 DEF IpcStart
    <3>4. QED
      BY <3>1, <3>2, <3>3
  <2>6. nFaults' \in Nat
    BY <1>17 DEF IpcStart, TypeOK, PidNotFound, Fault
  <2>7. missed' \in BOOLEAN
    BY <1>17 DEF IpcStart, TypeOK, Exists
  <2>8. QED
    BY <2>1, <2>2, <2>3, <2>4, <2>5, <2>6, <2>7 DEF TypeOK, PcTypes,
       RoundTypes, MutexTypes
<1>18. CASE IpcStartCrash
  <2>1. UNCHANGED <<entry, owner, depth, queue, sock, pc, todo, call, msg,
                   inst, ev, target, proc, client, wan, wanLock, posted, lost,
                   missed, nMsgs, nCalls>>
    BY <1>18 DEF IpcStartCrash, ifVars, ipcVars, procVars, wanVars, histVars
  <2>2. mgr' \in {"up", "killed"}
    BY <1>18 DEF IpcStartCrash
  <2>3. nFaults' \in Nat
    BY <1>18 DEF IpcStartCrash, TypeOK, Fault
  <2>4. QED
    BY <2>1, <2>2, <2>3 DEF TypeOK
<1>19. CASE IpcBusGet
  <2>1. UNCHANGED <<mgr, entry, queue, sock, todo, call, proc, client, wan,
                   wanLock, posted, lost, missed, nMsgs, nCalls>>
    BY <1>19 DEF IpcBusGet, ipcVars, procVars, wanVars, histVars
  <2>2. PcTypes'
    BY <1>19, GotoTyping, NextRoundTyping, Basics DEF IpcBusGet, IpcPcs
  <2>3. RoundTypes'
    BY <1>19, NextRoundTyping DEF IpcBusGet, TypeOK, RoundTypes, ipcVars
  <2>4. MutexTypes'
    BY <1>19, ReleaseTyping, Basics DEF IpcBusGet, TypeOK, MutexTypes, Event,
       SetEvents, ExecEvents
  <2>5. nFaults' \in Nat
    BY <1>19 DEF IpcBusGet, TypeOK, Fault, BusServes, BusFails
  <2>6. QED
    BY <2>1, <2>2, <2>3, <2>4, <2>5 DEF TypeOK, PcTypes, RoundTypes, MutexTypes
<1>20. CASE IpcExec
  <2>1. UNCHANGED <<mgr, entry, owner, depth, queue, sock, todo, call, msg,
                   inst, ev, target, wan, wanLock, posted, lost, missed, nMsgs,
                   nCalls>>
    BY <1>20 DEF IpcExec, ifVars, ipcVars, procVars, wanVars, histVars
  <2>2. PcTypes'
    BY <1>20, GotoTyping, Basics DEF IpcExec, IpcPcs
  <2>3. ProcTypes'
    BY <1>20 DEF IpcExec, TypeOK, ProcTypes, Event, SetEvents, ExecEvents,
       procVars
  <2>4. nFaults' \in Nat
    BY <1>20 DEF IpcExec, TypeOK, Fault
  <2>5. QED
    BY <2>1, <2>2, <2>3, <2>4 DEF TypeOK, PcTypes, ProcTypes
<1>21. CASE IpcGetPid
  <2>1. UNCHANGED <<mgr, queue, sock, todo, call, proc, client, wan, wanLock,
                   posted, lost, nMsgs, nCalls>>
    BY <1>21 DEF IpcGetPid, procVars, wanVars
  <2>2. PcTypes'
    BY <1>21, NextRoundTyping DEF IpcGetPid
  <2>3. RoundTypes'
    BY <1>21, NextRoundTyping DEF IpcGetPid
  <2>4. MutexTypes'
    BY <1>21, ReleaseTyping, Basics DEF IpcGetPid, TypeOK, Event, SetEvents,
       ExecEvents
  <2>5. entry' \in [Ifaces -> Entry]
    <3> DEFINE i == ev.iface
    <3>1. entry \in [Ifaces -> Entry] /\ i \in Ifaces /\ entry[i] \in Entry
      BY DEF TypeOK, Event, SetEvents, ExecEvents
    <3>2. \A p \in Pids \cup {NoPid} :
            [entry[i] EXCEPT !.pid = p, !.wan = TRUE] \in Entry
      BY <3>1, SessionTyping
    <3>3. \E p \in Pids \cup {NoPid} :
            entry' = [entry EXCEPT ![i] =
                        [entry[i] EXCEPT !.pid = p, !.wan = TRUE]]
      BY <1>21 DEF IpcGetPid
    <3>4. QED
      BY <3>1, <3>2, <3>3
  <2>6. missed' \in BOOLEAN
    BY <1>21 DEF IpcGetPid, TypeOK
  <2>7. nFaults' \in Nat
    BY <1>21 DEF IpcGetPid, TypeOK, Fault
  <2>8. QED
    BY <2>1, <2>2, <2>3, <2>4, <2>5, <2>6, <2>7 DEF TypeOK, PcTypes,
       RoundTypes, MutexTypes
<1>23. QED
  BY <1>1, <1>2, <1>3, <1>4, <1>5, <1>6, <1>7, <1>8, <1>9, <1>10, <1>11, <1>12,
     <1>13, <1>14, <1>15, <1>16, <1>17, <1>18, <1>19, <1>20, <1>21, <1>22
     DEF IpcStep

\* Every step of a bus thread preserves the types.
LEMMA DmlTyping ==
  ASSUME TypeOK, NEW t \in DmlThreads, DmlRun(t)
  PROVE  TypeOK'
<1>1. CASE DmlLock(t)
  <2>1. UNCHANGED <<mgr, entry, queue, sock, todo, call, msg, inst, ev, target,
                   proc, client, wan, wanLock, posted, lost, missed, nMsgs,
                   nCalls, nFaults>>
    BY <1>1 DEF DmlLock, ipcVars, procVars, wanVars, histVars
  <2>2. PcTypes'
    BY <1>1, GotoTyping, Basics DEF DmlLock, DmlPcs
  <2>3. MutexTypes'
    BY <1>1, AcquireTyping, Basics DEF DmlLock, TypeOK, Calls
  <2>4. QED
    BY <2>1, <2>2, <2>3 DEF TypeOK, PcTypes, MutexTypes
<1>2. CASE DmlDispatch(t)
  <2>1. UNCHANGED <<mgr, entry, owner, depth, queue, sock, todo, call, msg,
                   inst, ev, target, proc, client, wan, wanLock, posted, lost,
                   missed, nMsgs, nCalls, nFaults>>
    BY <1>2 DEF DmlDispatch, ifVars, ipcVars, procVars, wanVars, histVars
  <2>2. PcTypes'
    BY <1>2, GotoTyping, Basics DEF DmlDispatch, DmlPcs
  <2>3. QED
    BY <2>1, <2>2 DEF TypeOK, PcTypes
<1>3. CASE DmlStop(t)
  <2>1. UNCHANGED <<queue, sock, call, msg, inst, ev, target, wan, wanLock,
                   posted, lost, missed, nMsgs, nCalls, nFaults>>
    BY <1>3 DEF DmlStop, ipcVars, procVars, wanVars, histVars
  <2>2. PcTypes'
    BY <1>3, GotoTyping, Basics DEF DmlStop, DmlPcs
  <2>3. MutexTypes'
    BY <1>3, AcquireTyping, Basics DEF DmlStop, TypeOK, Calls
  <2>4. entry' \in [Ifaces -> Entry]
    <3> DEFINE i == call[t].iface
    <3>1. entry \in [Ifaces -> Entry] /\ i \in Ifaces /\ entry[i] \in Entry
      BY DEF TypeOK, Calls
    <3>2. (~UsePppDaemon) \in BOOLEAN
      OBVIOUS
    <3>3. SessionReset(entry[i], ~UsePppDaemon) \in Entry
      BY <3>1, SessionTyping
    <3>4. entry' = [entry EXCEPT ![i] = SessionReset(entry[i], ~UsePppDaemon)]
      BY <1>3 DEF DmlStop
    <3>5. QED
      BY <3>1, <3>3, <3>4
  <2>5. todo' \in [Threads -> Seq(Event)]
    BY <1>3, TodoTyping, EventTyping, Basics DEF DmlStop, TypeOK, Calls
  <2>6. ProcTypes'
    BY <1>3 DEF DmlStop, TypeOK, ProcTypes, PppoeStop, procVars, Entry, Calls
  <2>7. mgr' \in {"up", "killed"}
    BY <1>3 DEF DmlStop, TypeOK
  <2>8. QED
    BY <2>1, <2>2, <2>3, <2>4, <2>5, <2>6, <2>7 DEF TypeOK, PcTypes,
       MutexTypes, ProcTypes
<1>4. CASE DmlStopped(t)
  <2>1. UNCHANGED <<mgr, entry, queue, sock, todo, call, msg, inst, ev, target,
                   proc, client, wan, wanLock, posted, lost, missed, nMsgs,
                   nCalls, nFaults>>
    BY <1>4 DEF DmlStopped, ipcVars, procVars, wanVars, histVars
  <2>2. PcTypes'
    BY <1>4, GotoTyping, Basics DEF DmlStopped, DmlPcs
  <2>3. MutexTypes'
    BY <1>4, ReleaseTyping, Basics DEF DmlStopped, TypeOK, Calls
  <2>4. QED
    BY <2>1, <2>2, <2>3 DEF TypeOK, PcTypes, MutexTypes
<1>5. CASE DmlSend(t)
  <2>1. UNCHANGED <<mgr, entry, owner, depth, sock, pc, call, msg, inst, ev,
                   target, proc, client, wan, wanLock, missed, nMsgs, nCalls>>
    BY <1>5 DEF DmlSend, ifVars, ipcVars, procVars, wanVars
  <2>2. queue' \in Seq(Event) /\ Len(queue') <= QueueCap
    BY <1>5, SendTyping, Basics DEF DmlSend, TypeOK
  <2>3. posted' \in [Ifaces -> [Keys -> {"Zero", "Up", "Down"}]]
    BY <1>5, SendTyping, Basics DEF DmlSend, TypeOK
  <2>4. todo' \in [Threads -> Seq(Event)]
    BY <1>5, SendTyping, SendFailsTyping, TodoTyping, Basics DEF DmlSend
  <2>5. lost' \in [Ifaces -> SUBSET {"post", "set", "duid"}]
    BY <1>5, SendFailsTyping, Basics DEF DmlSend, TypeOK
  <2>6. nFaults' \in Nat
    BY <1>5, SendFailsTyping, Basics DEF DmlSend, TypeOK
  <2>7. QED
    BY <2>1, <2>2, <2>3, <2>4, <2>5, <2>6 DEF TypeOK
<1>6. CASE DmlSent(t)
  <2>1. UNCHANGED <<mgr, entry, owner, depth, queue, sock, todo, call, msg,
                   inst, ev, target, proc, client, wan, wanLock, posted, lost,
                   missed, nMsgs, nCalls, nFaults>>
    BY <1>6 DEF DmlSent, ifVars, ipcVars, procVars, wanVars, histVars
  <2>2. PcTypes'
    BY <1>6, GotoTyping, Basics DEF DmlSent, DmlPcs
  <2>3. QED
    BY <2>1, <2>2 DEF TypeOK, PcTypes
<1>7. CASE DmlStart(t)
  <2>1. UNCHANGED <<mgr, entry, queue, sock, call, msg, inst, ev, target, proc,
                   client, wan, wanLock, posted, lost, missed, nMsgs, nCalls,
                   nFaults>>
    BY <1>7 DEF DmlStart, ipcVars, procVars, wanVars, histVars
  <2>2. PcTypes'
    BY <1>7, GotoTyping, Basics DEF DmlStart, DmlPcs
  <2>3. MutexTypes'
    BY <1>7, AcquireTyping, Basics DEF DmlStart, TypeOK, Calls
  <2>4. todo' \in [Threads -> Seq(Event)]
    BY <1>7, TodoTyping, EventTyping, Basics DEF DmlStart, TypeOK, Calls
  <2>5. QED
    BY <2>1, <2>2, <2>3, <2>4 DEF TypeOK, PcTypes, MutexTypes
<1>8. CASE DmlExecSend(t)
  <2>1. UNCHANGED <<mgr, entry, owner, depth, sock, pc, call, msg, inst, ev,
                   target, proc, client, wan, wanLock, lost, missed, nMsgs,
                   nCalls, nFaults>>
    BY <1>8 DEF DmlExecSend, ifVars, ipcVars, procVars, wanVars
  <2>2. queue' \in Seq(Event) /\ Len(queue') <= QueueCap
    BY <1>8, SendTyping, Basics DEF DmlExecSend
  <2>3. posted' \in [Ifaces -> [Keys -> {"Zero", "Up", "Down"}]]
    BY <1>8, SendTyping, Basics DEF DmlExecSend
  <2>4. todo' \in [Threads -> Seq(Event)]
    BY <1>8, TodoTyping, EventTyping, Basics DEF DmlExecSend
  <2>5. QED
    BY <2>1, <2>2, <2>3, <2>4 DEF TypeOK
<1>9. CASE DmlExecSent(t)
  <2>1. UNCHANGED <<mgr, queue, sock, todo, call, msg, inst, ev, target, proc,
                   client, wan, wanLock, posted, lost, missed, nMsgs, nCalls,
                   nFaults>>
    BY <1>9 DEF DmlExecSent, ipcVars, procVars, wanVars, histVars
  <2>2. PcTypes'
    BY <1>9, GotoTyping, Basics DEF DmlExecSent, DmlPcs
  <2>3. MutexTypes'
    BY <1>9, ReleaseTyping, Basics DEF DmlExecSent, TypeOK, Calls
  <2>4. entry' \in [Ifaces -> Entry]
    <3> DEFINE i == call[t].iface
    <3>1. /\ entry \in [Ifaces -> Entry] /\ entry[i] \in Entry
      BY DEF TypeOK, Calls
    <3>2. [entry[i] EXCEPT !.enabled = TRUE] \in Entry
      BY <3>1, SessionTyping
    <3>3. entry' = [entry EXCEPT ![i] = [entry[i] EXCEPT !.enabled = TRUE]]
      BY <1>9 DEF DmlExecSent
    <3>4. QED
      BY <3>1, <3>2, <3>3
  <2>5. QED
    BY <2>1, <2>2, <2>3, <2>4 DEF TypeOK, PcTypes, MutexTypes
<1>10. CASE DmlExecSendFails(t)
  <2>1. UNCHANGED <<mgr, entry, queue, sock, call, msg, inst, ev, target, proc,
                   client, wan, wanLock, posted, missed, nMsgs, nCalls>>
    BY <1>10 DEF DmlExecSendFails, ipcVars, procVars, wanVars
  <2>2. PcTypes'
    BY <1>10, GotoTyping, Basics DEF DmlExecSendFails, DmlPcs
  <2>3. MutexTypes'
    BY <1>10, ReleaseTyping, Basics DEF DmlExecSendFails, TypeOK, Calls
  <2>4. todo' \in [Threads -> Seq(Event)]
    BY <1>10, TodoTyping, EventTyping, Basics DEF DmlExecSendFails
  <2>5. lost' \in [Ifaces -> SUBSET {"post", "set", "duid"}]
    BY <1>10, SendFailsTyping, Basics DEF DmlExecSendFails
  <2>6. nFaults' \in Nat
    BY <1>10, SendFailsTyping, Basics DEF DmlExecSendFails
  <2>7. QED
    BY <2>1, <2>2, <2>3, <2>4, <2>5, <2>6 DEF TypeOK, PcTypes, MutexTypes
<1>11. CASE DmlNoEntry(t)
  <2>1. UNCHANGED <<mgr, entry, owner, depth, queue, sock, todo, call, msg,
                   inst, ev, target, proc, client, wan, wanLock, posted, lost,
                   missed, nMsgs, nCalls>>
    BY <1>11 DEF DmlNoEntry, ifVars, ipcVars, procVars, wanVars, histVars
  <2>2. PcTypes'
    BY <1>11, GotoTyping, Basics DEF DmlNoEntry, DmlPcs
  <2>3. nFaults' \in Nat
    BY <1>11 DEF DmlNoEntry, TypeOK, Fault
  <2>4. QED
    BY <2>1, <2>2, <2>3 DEF TypeOK, PcTypes
<1>12. CASE DmlReturn(t)
  <2>1. UNCHANGED <<mgr, entry, queue, sock, todo, msg, inst, ev, target, proc,
                   client, wan, posted, lost, missed, nMsgs, nCalls, nFaults>>
    BY <1>12 DEF DmlReturn, ipcVars, procVars, histVars
  <2>2. PcTypes'
    BY <1>12, GotoTyping, Basics DEF DmlReturn, DmlPcs
  <2>3. MutexTypes'
    BY <1>12, ReleaseTyping, Basics DEF DmlReturn, TypeOK, Calls
  <2>4. wanLock' \in DmlThreads \cup {NoThread}
    BY <1>12 DEF DmlReturn, TypeOK
  <2>5. call' \in [DmlThreads -> Calls]
    BY <1>12, Basics DEF DmlReturn, TypeOK, NoCall, Calls
  <2>6. QED
    BY <2>1, <2>2, <2>3, <2>4, <2>5 DEF TypeOK, PcTypes, MutexTypes
<1>13. QED
  BY <1>1, <1>2, <1>3, <1>4, <1>5, <1>6, <1>7, <1>8, <1>9, <1>10, <1>11, <1>12
     DEF DmlRun

\* And so do a call of the data model ...
LEMMA CallTyping ==
  ASSUME TypeOK, NEW t \in DmlThreads, DmlCall(t)
  PROVE  TypeOK'
<1>1. CASE DmlCall(t)
  <2>1. UNCHANGED <<mgr, entry, owner, depth, queue, sock, todo, msg, inst, ev,
                   target, proc, client, wan, posted, lost, missed, nMsgs,
                   nFaults>>
    BY <1>1 DEF DmlCall, ifVars, ipcVars, procVars, histVars
  <2>2. PcTypes'
    BY <1>1, GotoTyping, Basics DEF DmlCall, DmlPcs
  <2>3. call' \in [DmlThreads -> Calls]
    BY <1>1 DEF DmlCall, TypeOK
  <2>4. wanLock' \in DmlThreads \cup {NoThread}
    BY <1>1 DEF DmlCall, TypeOK, wanVars
  <2>5. nCalls' \in Nat
    BY <1>1 DEF DmlCall, TypeOK
  <2>6. QED
    BY <2>1, <2>2, <2>3, <2>4, <2>5 DEF TypeOK, PcTypes
<1>2. QED
  BY <1>1

\* ... and the steps of a PPP client.
LEMMA ClientTyping ==
  ASSUME TypeOK, NEW p \in Pids, ClientSends(p) \/ ClientExits(p)
  PROVE  TypeOK'
<1>1. CASE ClientSends(p)
  <2>1. UNCHANGED <<mgr, entry, owner, depth, queue, pc, todo, call, msg, inst,
                   ev, target, proc, client, wan, wanLock, posted, lost,
                   missed, nCalls, nFaults>>
    BY <1>1 DEF ClientSends, ifVars, ipcVars, procVars, wanVars, histVars
  <2>2. sock' \in Seq(Message)
    BY <1>1, EnvironmentAssumption DEF ClientSends, TypeOK, Message
  <2>3. nMsgs' \in Nat
    BY <1>1 DEF ClientSends, TypeOK
  <2>4. QED
    BY <2>1, <2>2, <2>3 DEF TypeOK
<1>2. CASE ClientExits(p)
  <2>1. UNCHANGED <<mgr, entry, owner, depth, queue, sock, pc, todo, call, msg,
                   inst, ev, target, wan, wanLock, posted, lost, missed, nMsgs,
                   nCalls>>
    BY <1>2 DEF ClientExits, ifVars, ipcVars, wanVars, histVars
  <2>2. ProcTypes'
    BY <1>2 DEF ClientExits, TypeOK, ProcTypes
  <2>3. nFaults' \in Nat
    BY <1>2 DEF ClientExits, TypeOK, Fault
  <2>4. QED
    BY <2>1, <2>2, <2>3 DEF TypeOK, ProcTypes
<1>3. QED
  BY <1>1, <1>2

\* Hence every step, and a stuttering step.
LEMMA NextTyping == TypeOK /\ [Next]_vars => TypeOK'
<1> SUFFICES ASSUME TypeOK, [Next]_vars PROVE TypeOK'
  OBVIOUS
<1>1. CASE IpcStep
  BY <1>1, IpcTyping
<1>2. ASSUME NEW t \in DmlThreads, DmlRun(t) PROVE TypeOK'
  BY <1>2, DmlTyping
<1>3. ASSUME NEW t \in DmlThreads, DmlCall(t) PROVE TypeOK'
  BY <1>3, CallTyping
<1>4. ASSUME NEW p \in Pids, ClientSends(p) \/ ClientExits(p) PROVE TypeOK'
  BY <1>4, ClientTyping
<1>5. CASE Halted \/ UNCHANGED vars
  BY <1>5 DEF Halted, vars, TypeOK
<1>6. QED
  BY <1>1, <1>2, <1>3, <1>4, <1>5 DEF Next

\* The initial states.
LEMMA InitTyping == Init => TypeOK
<1>1. /\ InitEntry \in Entry
      /\ ZeroMessage \in Message
      /\ NoCall \in Calls
  BY Basics DEF InitEntry, Entry, Statuses, ConnStatus, ConnErrors,
                ZeroMessage, Message, PppStates, PppArgs, NoCall, Calls
<1>2. \A t \in Threads :
        (IF t = Ipc THEN "boot" ELSE "idle") \in IpcPcs \cup DmlPcs
  BY DEF IpcPcs, DmlPcs
<1>3. "boot" \in IpcPcs /\ "idle" \in DmlPcs
  BY DEF IpcPcs, DmlPcs
<1>4. << >> \in Seq(Event) /\ << >> \in Seq(Message) /\ Len(<< >>) = 0
  OBVIOUS
<1>5. ASSUME Init
      PROVE  /\ PcTypes /\ MutexTypes /\ RoundTypes /\ ProcTypes
             /\ entry \in [Ifaces -> Entry]
             /\ queue \in Seq(Event) /\ Len(queue) <= QueueCap
             /\ sock \in Seq(Message) /\ todo \in [Threads -> Seq(Event)]
  <2>1. PcTypes
    BY <1>2, <1>3, <1>5, Basics DEF Init, PcTypes
  <2>2. MutexTypes
    BY <1>5 DEF Init, MutexTypes
  <2>3. RoundTypes
    BY <1>1, <1>5, Basics, EventTyping DEF Init, RoundTypes
  <2>4. ProcTypes
    BY <1>5, Basics DEF Init, ProcTypes
  <2>5. QED
    BY <2>1, <2>2, <2>3, <2>4, <1>1, <1>4, <1>5, QueueCapAssumption DEF Init
<1>6. ASSUME Init
      PROVE  /\ call \in [DmlThreads -> Calls]
             /\ wan \in [Ifaces -> [Keys -> {"Zero", "Up", "Down"}]]
             /\ posted \in [Ifaces -> [Keys -> {"Zero", "Up", "Down"}]]
             /\ lost \in [Ifaces -> SUBSET {"post", "set", "duid"}]
  BY <1>1, <1>6 DEF Init
<1>7. ASSUME Init
      PROVE  /\ mgr \in {"up", "killed"}
             /\ wanLock \in DmlThreads \cup {NoThread}
             /\ missed \in BOOLEAN
             /\ nMsgs \in Nat /\ nCalls \in Nat /\ nFaults \in Nat
  BY <1>7 DEF Init
<1>8. QED
  BY <1>5, <1>6, <1>7 DEF TypeOK, PcTypes, MutexTypes, RoundTypes, ProcTypes

\* Every variable keeps its type, and the queue never exceeds its capacity, for
\* any number of interfaces, bus threads and PPP clients.
THEOREM Typing == Spec => []TypeOK
<1>1. Init => TypeOK
  BY InitTyping
<1>2. TypeOK /\ [Next]_vars => TypeOK'
  BY NextTyping
<1>3. QED
  BY <1>1, <1>2, PTL DEF Spec

-----------------------------------------------------------------------------
(* The mutex.  MutexInv is inductive: a step either leaves the mutexes     *)
(* alone, or locks, locks again, unlocks once or unlocks for good the one  *)
(* entry that its thread works on.                                         *)

Nested == {"stopped", "execpost"}

\* The threads other than t and what they work on stay where they are.
OthersStay(t) ==
  \A u \in Threads \ {t} :
    /\ pc'[u] = pc[u]
    /\ IF u = Ipc THEN inst' = inst /\ ev' = ev ELSE call'[u] = call[u]

\* A step of t does not change what the others hold.
LEMMA OthersHold ==
  ASSUME NEW t \in Threads, OthersStay(t)
  PROVE  \A u \in Threads \ {t}, i \in Ifaces : Holds(u, i)' <=> Holds(u, i)
<1>1. ASSUME NEW u \in Threads \ {t}, NEW i \in Ifaces
      PROVE  Holds(u, i)' <=> Holds(u, i)
  <2>1. CASE u = Ipc
    BY <2>1 DEF OthersStay, Holds
  <2>2. CASE u # Ipc
    BY <2>2 DEF OthersStay, Holds
  <2>3. QED
    BY <2>1, <2>2
<1>2. QED
  BY <1>1

\* A step that locks and unlocks nothing.
LEMMA KeepsMutex ==
  ASSUME TypeOK, MutexInv, NEW t \in Threads, OthersStay(t),
         UNCHANGED <<owner, depth>>,
         \A i \in Ifaces : Holds(t, i)' <=> Holds(t, i),
         pc'[t] \in Nested <=> pc[t] \in Nested
  PROVE  MutexInv'
<1>1. \A u \in Threads : pc'[u] \in Nested <=> pc[u] \in Nested
  BY DEF OthersStay
<1>2. \A u \in Threads, i \in Ifaces : Holds(u, i)' <=> Holds(u, i)
  BY OthersHold
<1>3. \A i \in Ifaces : LockDepth(i)' = LockDepth(i)
  BY <1>1 DEF LockDepth, Nested, TypeOK
<1>4. QED
  BY <1>2, <1>3 DEF MutexInv

\* pthread_mutex_lock on the way in.
LEMMA LocksMutex ==
  ASSUME TypeOK, MutexInv, NEW t \in Threads, OthersStay(t),
         NEW i \in Ifaces, Acquire(t, i),
         \A j \in Ifaces : ~Holds(t, j),
         \A j \in Ifaces : Holds(t, j)' <=> j = i,
         pc'[t] \notin Nested, pc[t] \notin Nested
  PROVE  MutexInv'
<1>1. owner[i] = NoThread /\ depth[i] = 0
  BY DEF MutexInv, Acquire, LockDepth
<1>2. \A u \in Threads \ {t}, j \in Ifaces : Holds(u, j)' <=> Holds(u, j)
  BY OthersHold
<1>3. /\ owner'[i] = t /\ depth'[i] = 1
      /\ \A j \in Ifaces \ {i} : owner'[j] = owner[j] /\ depth'[j] = depth[j]
  BY <1>1 DEF Acquire, TypeOK
<1>4. \A u \in Threads, j \in Ifaces : owner'[j] = u <=> Holds(u, j)'
  BY <1>1, <1>2, <1>3, Basics DEF MutexInv
<1>5. \A j \in Ifaces : depth'[j] = LockDepth(j)'
  <2>1. LockDepth(i)' = 1
    BY <1>3, Basics DEF LockDepth, Nested
  <2>2. ASSUME NEW j \in Ifaces \ {i}
        PROVE  LockDepth(j)' = LockDepth(j)
    BY <1>3, <2>2 DEF LockDepth, Nested, OthersStay, TypeOK, MutexInv
  <2>3. QED
    BY <2>1, <2>2, <1>3 DEF MutexInv
<1>6. QED
  BY <1>4, <1>5 DEF MutexInv

\* The nested pthread_mutex_lock.
LEMMA NestsMutex ==
  ASSUME TypeOK, MutexInv, NEW t \in Threads, OthersStay(t),
         NEW i \in Ifaces, Acquire(t, i),
         \A j \in Ifaces : Holds(t, j) <=> j = i,
         \A j \in Ifaces : Holds(t, j)' <=> j = i,
         pc[t] \notin Nested, pc'[t] \in Nested
  PROVE  MutexInv'
<1>1. owner[i] = t /\ depth[i] = 1
  BY Basics DEF MutexInv, LockDepth, Nested
<1>2. \A u \in Threads \ {t}, j \in Ifaces : Holds(u, j)' <=> Holds(u, j)
  BY OthersHold
<1>3. /\ owner'[i] = t /\ depth'[i] = 2
      /\ \A j \in Ifaces \ {i} : owner'[j] = owner[j] /\ depth'[j] = depth[j]
  BY <1>1 DEF Acquire, TypeOK
<1>4. \A u \in Threads, j \in Ifaces : owner'[j] = u <=> Holds(u, j)'
  BY <1>1, <1>2, <1>3, Basics DEF MutexInv
<1>5. \A j \in Ifaces : depth'[j] = LockDepth(j)'
  <2>1. LockDepth(i)' = 2
    BY <1>3, Basics DEF LockDepth, Nested
  <2>2. ASSUME NEW j \in Ifaces \ {i}
        PROVE  LockDepth(j)' = LockDepth(j)
    BY <1>3, <2>2 DEF LockDepth, Nested, OthersStay, TypeOK, MutexInv
  <2>3. QED
    BY <2>1, <2>2, <1>3 DEF MutexInv
<1>6. QED
  BY <1>4, <1>5 DEF MutexInv

\* The pthread_mutex_unlock that goes with it.
LEMMA UnnestsMutex ==
  ASSUME TypeOK, MutexInv, NEW t \in Threads, OthersStay(t),
         NEW i \in Ifaces, Release(t, i),
         \A j \in Ifaces : Holds(t, j) <=> j = i,
         \A j \in Ifaces : Holds(t, j)' <=> j = i,
         pc[t] \in Nested, pc'[t] \notin Nested
  PROVE  MutexInv'
<1>1. owner[i] = t /\ depth[i] = 2
  BY Basics DEF MutexInv, LockDepth, Nested
<1>2. \A u \in Threads \ {t}, j \in Ifaces : Holds(u, j)' <=> Holds(u, j)
  BY OthersHold
<1>3. /\ owner'[i] = t /\ depth'[i] = 1
      /\ \A j \in Ifaces \ {i} : owner'[j] = owner[j] /\ depth'[j] = depth[j]
  BY <1>1 DEF Release, TypeOK
<1>4. \A u \in Threads, j \in Ifaces : owner'[j] = u <=> Holds(u, j)'
  BY <1>1, <1>2, <1>3, Basics DEF MutexInv
<1>5. \A j \in Ifaces : depth'[j] = LockDepth(j)'
  <2>1. LockDepth(i)' = 1
    BY <1>3, Basics DEF LockDepth, Nested
  <2>2. ASSUME NEW j \in Ifaces \ {i}
        PROVE  LockDepth(j)' = LockDepth(j)
    BY <1>3, <2>2 DEF LockDepth, Nested, OthersStay, TypeOK, MutexInv
  <2>3. QED
    BY <2>1, <2>2, <1>3 DEF MutexInv
<1>6. QED
  BY <1>4, <1>5 DEF MutexInv

\* The last pthread_mutex_unlock.
LEMMA UnlocksMutex ==
  ASSUME TypeOK, MutexInv, NEW t \in Threads, OthersStay(t),
         NEW i \in Ifaces, Release(t, i),
         \A j \in Ifaces : Holds(t, j) <=> j = i,
         \A j \in Ifaces : ~Holds(t, j)',
         pc[t] \notin Nested
  PROVE  MutexInv'
<1>1. owner[i] = t /\ depth[i] = 1
  BY Basics DEF MutexInv, LockDepth, Nested
<1>2. \A u \in Threads \ {t}, j \in Ifaces : Holds(u, j)' <=> Holds(u, j)
  BY OthersHold
<1>3. /\ owner'[i] = NoThread /\ depth'[i] = 0
      /\ \A j \in Ifaces \ {i} : owner'[j] = owner[j] /\ depth'[j] = depth[j]
  BY <1>1 DEF Release, TypeOK
<1>4. \A u \in Threads, j \in Ifaces : owner'[j] = u <=> Holds(u, j)'
  BY <1>1, <1>2, <1>3, Basics DEF MutexInv
<1>5. \A j \in Ifaces : depth'[j] = LockDepth(j)'
  <2>1. LockDepth(i)' = 0
    BY <1>3 DEF LockDepth
  <2>2. ASSUME NEW j \in Ifaces \ {i}
        PROVE  LockDepth(j)' = LockDepth(j)
    BY <1>3, <2>2 DEF LockDepth, Nested, OthersStay, TypeOK, MutexInv
  <2>3. QED
    BY <2>1, <2>2, <1>3 DEF MutexInv
<1>6. QED
  BY <1>4, <1>5 DEF MutexInv

\* Every step of the IPC thread keeps MutexInv.
LEMMA IpcMutex ==
  ASSUME TypeOK, MutexInv, IpcStep
  PROVE  MutexInv'
<1>1. CASE IpcBoot
  <2>1. OthersStay(Ipc)
    BY <1>1, Basics DEF OthersStay, TypeOK, IpcBoot, Goto, ifVars, ipcVars,
       procVars, wanVars, histVars
  <2>2. \A i \in Ifaces : Holds(Ipc, i)' <=> Holds(Ipc, i)
    BY <1>1, Basics DEF Holds, TypeOK, At, IpcBoot, Goto, ifVars, ipcVars,
       procVars, wanVars, histVars, IpcPcs
  <2>3. pc'[Ipc] \in Nested <=> pc[Ipc] \in Nested
    BY <1>1, Basics DEF Nested, TypeOK, At, IpcBoot, Goto, IpcPcs
  <2>4. UNCHANGED <<owner, depth>>
    BY <1>1 DEF IpcBoot, ifVars
  <2>5. QED
    BY <2>1, <2>2, <2>3, <2>4, KeepsMutex, Basics
<1>2. CASE IpcReceive
  <2>1. OthersStay(Ipc)
    BY <1>2, Basics DEF OthersStay, TypeOK, IpcReceive, Goto, ifVars, procVars,
       wanVars, histVars
  <2>2. \A i \in Ifaces : Holds(Ipc, i)' <=> Holds(Ipc, i)
    BY <1>2, Basics DEF Holds, TypeOK, At, IpcReceive, Goto, ifVars, procVars,
       wanVars, histVars, IpcPcs
  <2>3. pc'[Ipc] \in Nested <=> pc[Ipc] \in Nested
    BY <1>2, Basics DEF Nested, TypeOK, At, IpcReceive, Goto, IpcPcs
  <2>4. UNCHANGED <<owner, depth>>
    BY <1>2 DEF IpcReceive, ifVars
  <2>5. QED
    BY <2>1, <2>2, <2>3, <2>4, KeepsMutex, Basics
<1>3. CASE IpcFindPid
  <2>1. OthersStay(Ipc)
    BY <1>3, Basics DEF OthersStay, TypeOK, IpcFindPid, Goto, Passes, procVars,
       wanVars, histVars
  <2>2. \A i \in Ifaces : Holds(Ipc, i)' <=> Holds(Ipc, i)
    BY <1>3, Basics DEF Holds, TypeOK, At, IpcFindPid, Goto, Passes, procVars,
       wanVars, histVars, HandlerOf, IpcPcs
  <2>3. pc'[Ipc] \in Nested <=> pc[Ipc] \in Nested
    BY <1>3, Basics DEF Nested, TypeOK, At, IpcFindPid, Goto, Passes,
       HandlerOf, IpcPcs
  <2>4. UNCHANGED <<owner, depth>>
    BY <1>3 DEF IpcFindPid, Passes
  <2>5. QED
    BY <2>1, <2>2, <2>3, <2>4, KeepsMutex, Basics
<1>4. CASE IpcStateChanged
  <2>1. OthersStay(Ipc)
    BY <1>4, Basics DEF OthersStay, TypeOK, IpcStateChanged, Goto, ipcVars,
       procVars, wanVars, histVars
  <2>2. inst \in Ifaces /\ Acquire(Ipc, inst)
    BY <1>4 DEF TypeOK, IpcStateChanged
  <2>3. \A j \in Ifaces : ~Holds(Ipc, j)
    BY <1>4, Basics DEF Holds, At, IpcStateChanged
  <2>4. \A j \in Ifaces : Holds(Ipc, j)' <=> j = inst
    BY <1>4, Basics DEF Holds, TypeOK, At, IpcStateChanged, Goto, ipcVars,
       procVars, wanVars, histVars, IpcPcs
  <2>5. pc[Ipc] \notin Nested /\ pc'[Ipc] \notin Nested
    BY <1>4, Basics DEF Nested, TypeOK, At, IpcStateChanged, Goto
  <2>6. QED
    BY <2>1, <2>2, <2>3, <2>4, <2>5, LocksMutex, Basics
<1>5. CASE IpcIpcpParams
  <2>1. OthersStay(Ipc)
    BY <1>5, Basics DEF OthersStay, TypeOK, IpcIpcpParams, Goto, ipcVars,
       procVars, wanVars, histVars
  <2>2. inst \in Ifaces /\ Acquire(Ipc, inst)
    BY <1>5 DEF TypeOK, IpcIpcpParams
  <2>3. \A j \in Ifaces : ~Holds(Ipc, j)
    BY <1>5, Basics DEF Holds, At, IpcIpcpParams
  <2>4. \A j \in Ifaces : Holds(Ipc, j)' <=> j = inst
    BY <1>5, Basics DEF Holds, TypeOK, At, IpcIpcpParams, Goto, ipcVars,
       procVars, wanVars, histVars, IpcPcs
  <2>5. pc[Ipc] \notin Nested /\ pc'[Ipc] \notin Nested
    BY <1>5, Basics DEF Nested, TypeOK, At, IpcIpcpParams, Goto
  <2>6. QED
    BY <2>1, <2>2, <2>3, <2>4, <2>5, LocksMutex, Basics
<1>6. CASE IpcIpv6cpParams
  <2>1. OthersStay(Ipc)
    BY <1>6, Basics DEF OthersStay, TypeOK, IpcIpv6cpParams, Goto, ipcVars,
       procVars, wanVars
  <2>2. inst \in Ifaces /\ Acquire(Ipc, inst)
    BY <1>6 DEF TypeOK, IpcIpv6cpParams
  <2>3. \A j \in Ifaces : ~Holds(Ipc, j)
    BY <1>6, Basics DEF Holds, At, IpcIpv6cpParams
  <2>4. \A j \in Ifaces : Holds(Ipc, j)' <=> j = inst
    BY <1>6, Basics DEF Holds, TypeOK, At, IpcIpv6cpParams, Goto, ipcVars,
       procVars, wanVars, IpcPcs
  <2>5. pc[Ipc] \notin Nested /\ pc'[Ipc] \notin Nested
    BY <1>6, Basics DEF Nested, TypeOK, At, IpcIpv6cpParams, Goto
  <2>6. QED
    BY <2>1, <2>2, <2>3, <2>4, <2>5, LocksMutex, Basics
<1>7. CASE IpcNoEntry
  <2>1. OthersStay(Ipc)
    BY <1>7, Basics DEF OthersStay, TypeOK, IpcNoEntry, Goto, ifVars, ipcVars,
       procVars, wanVars, histVars
  <2>2. \A i \in Ifaces : Holds(Ipc, i)' <=> Holds(Ipc, i)
    BY <1>7, Basics DEF Holds, TypeOK, At, IpcNoEntry, Goto, ifVars, ipcVars,
       procVars, wanVars, histVars, IpcPcs
  <2>3. pc'[Ipc] \in Nested <=> pc[Ipc] \in Nested
    BY <1>7, Basics DEF Nested, TypeOK, At, IpcNoEntry, Goto, IpcPcs
  <2>4. UNCHANGED <<owner, depth>>
    BY <1>7 DEF IpcNoEntry, ifVars
  <2>5. QED
    BY <2>1, <2>2, <2>3, <2>4, KeepsMutex, Basics
<1>22. CASE IpcSkipEntry
  <2>1. OthersStay(Ipc)
    BY <1>22, Basics DEF OthersStay, TypeOK, IpcSkipEntry, Goto, ifVars,
       procVars, wanVars, histVars
  <2>2. \A i \in Ifaces : Holds(Ipc, i)' <=> Holds(Ipc, i)
    BY <1>22, Basics DEF Holds, TypeOK, At, IpcSkipEntry, Goto, ifVars,
       procVars, wanVars, histVars, IpcPcs
  <2>3. pc'[Ipc] \in Nested <=> pc[Ipc] \in Nested
    BY <1>22, Basics DEF Nested, TypeOK, At, IpcSkipEntry, Goto, IpcPcs
  <2>4. UNCHANGED <<owner, depth>>
    BY <1>22 DEF IpcSkipEntry, ifVars
  <2>5. QED
    BY <2>1, <2>2, <2>3, <2>4, KeepsMutex, Basics
<1>8. CASE IpcSend
  <2>1. OthersStay(Ipc)
    BY <1>8, Basics DEF OthersStay, TypeOK, IpcSend, ifVars, ipcVars, procVars,
       wanVars
  <2>2. \A i \in Ifaces : Holds(Ipc, i)' <=> Holds(Ipc, i)
    BY <1>8, Basics DEF Holds, TypeOK, At, IpcSend, ifVars, ipcVars, procVars,
       wanVars, IpcPcs
  <2>3. pc'[Ipc] \in Nested <=> pc[Ipc] \in Nested
    BY <1>8, Basics DEF Nested, TypeOK, At, IpcSend, IpcPcs
  <2>4. UNCHANGED <<owner, depth>>
    BY <1>8 DEF IpcSend, ifVars
  <2>5. QED
    BY <2>1, <2>2, <2>3, <2>4, KeepsMutex, Basics
<1>9. CASE IpcSendFails
  <2>1. OthersStay(Ipc)
    BY <1>9, Basics DEF OthersStay, TypeOK, IpcSendFails, Goto, ifVars,
       ipcVars, procVars, wanVars
  <2>2. \A i \in Ifaces : Holds(Ipc, i)' <=> Holds(Ipc, i)
    BY <1>9, Basics DEF Holds, TypeOK, At, IpcSendFails, Goto, ifVars, ipcVars,
       procVars, wanVars, IpcPcs
  <2>3. pc'[Ipc] \in Nested <=> pc[Ipc] \in Nested
    BY <1>9, Basics DEF Nested, TypeOK, At, IpcSendFails, Goto, IpcPcs
  <2>4. UNCHANGED <<owner, depth>>
    BY <1>9 DEF IpcSendFails, ifVars
  <2>5. QED
    BY <2>1, <2>2, <2>3, <2>4, KeepsMutex, Basics
<1>10. CASE IpcSent
  <2>1. OthersStay(Ipc)
    BY <1>10, Basics DEF OthersStay, TypeOK, IpcSent, Goto, ifVars, ipcVars,
       procVars, wanVars, histVars
  <2>2. \/ pc[Ipc] = "upost" /\ pc'[Ipc] = "mq"
        \/ pc[Ipc] = "post" /\ pc'[Ipc] \in {"settle", "unlock"}
    BY <1>10, Basics DEF TypeOK, At, Goto, IpcSent
  <2>3. \A i \in Ifaces : Holds(Ipc, i)' <=> Holds(Ipc, i)
    BY <1>10, <2>2, Basics DEF Holds, TypeOK, At, IpcSent, Goto, ifVars,
       ipcVars, procVars, wanVars, histVars, IpcPcs
  <2>4. pc'[Ipc] \in Nested <=> pc[Ipc] \in Nested
    BY <1>10, <2>2, Basics DEF Nested, TypeOK, At, IpcSent, Goto, IpcPcs
  <2>5. UNCHANGED <<owner, depth>>
    BY <1>10, <2>2 DEF IpcSent, ifVars
  <2>6. QED
    BY <2>1, <2>2, <2>3, <2>4, <2>5, KeepsMutex, Basics
<1>11. CASE IpcSettle
  <2>1. OthersStay(Ipc)
    BY <1>11, Basics DEF OthersStay, TypeOK, IpcSettle, Goto, ifVars, ipcVars,
       procVars, wanVars, histVars
  <2>2. \A i \in Ifaces : Holds(Ipc, i)' <=> Holds(Ipc, i)
    BY <1>11, Basics DEF Holds, TypeOK, At, IpcSettle, Goto, ifVars, ipcVars,
       procVars, wanVars, histVars, IpcPcs
  <2>3. pc'[Ipc] \in Nested <=> pc[Ipc] \in Nested
    BY <1>11, Basics DEF Nested, TypeOK, At, IpcSettle, Goto, IpcPcs
  <2>4. UNCHANGED <<owner, depth>>
    BY <1>11 DEF IpcSettle, ifVars
  <2>5. QED
    BY <2>1, <2>2, <2>3, <2>4, KeepsMutex, Basics
<1>12. CASE IpcUnlock
  <2>1. OthersStay(Ipc)
    BY <1>12, Basics DEF OthersStay, TypeOK, IpcUnlock, Goto, ipcVars,
       procVars, wanVars, histVars
  <2>2. inst \in Ifaces /\ Release(Ipc, inst)
    BY <1>12 DEF TypeOK, IpcUnlock
  <2>3. \A j \in Ifaces : Holds(Ipc, j) <=> j = inst
    BY <1>12, Basics DEF Holds, At, IpcUnlock
  <2>4. \A j \in Ifaces : ~Holds(Ipc, j)'
    BY <1>12, Basics DEF Holds, TypeOK, At, IpcUnlock, Goto, ipcVars, procVars,
       wanVars, histVars, IpcPcs
  <2>5. pc[Ipc] \notin Nested
    BY <1>12, Basics DEF Nested, TypeOK, At, IpcUnlock, Goto
  <2>6. QED
    BY <2>1, <2>2, <2>3, <2>4, <2>5, UnlocksMutex, Basics
<1>13. CASE IpcMqReceive
  <2>1. OthersStay(Ipc)
    BY <1>13, Basics DEF OthersStay, TypeOK, IpcMqReceive, Goto, NextRound,
       ifVars, procVars, wanVars, histVars
  <2>2. \A i \in Ifaces : Holds(Ipc, i)' <=> Holds(Ipc, i)
    BY <1>13, Basics DEF Holds, TypeOK, At, IpcMqReceive, Goto, NextRound,
       ifVars, procVars, wanVars, histVars, IpcPcs
  <2>3. pc'[Ipc] \in Nested <=> pc[Ipc] \in Nested
    BY <1>13, Basics DEF Nested, TypeOK, At, IpcMqReceive, Goto, NextRound,
       IpcPcs
  <2>4. UNCHANGED <<owner, depth>>
    BY <1>13 DEF IpcMqReceive, ifVars
  <2>5. QED
    BY <2>1, <2>2, <2>3, <2>4, KeepsMutex, Basics
<1>14. CASE IpcReadWan
  <2>1. OthersStay(Ipc)
    BY <1>14, Basics DEF OthersStay, TypeOK, IpcReadWan, Goto, Passes,
       procVars, wanVars, histVars
  <2>2. \A i \in Ifaces : Holds(Ipc, i)' <=> Holds(Ipc, i)
    BY <1>14, Basics DEF Holds, TypeOK, At, IpcReadWan, Goto, Passes, procVars,
       wanVars, histVars, IpcPcs
  <2>3. pc'[Ipc] \in Nested <=> pc[Ipc] \in Nested
    BY <1>14, Basics DEF Nested, TypeOK, At, IpcReadWan, Goto, Passes, IpcPcs
  <2>4. UNCHANGED <<owner, depth>>
    BY <1>14 DEF IpcReadWan, Passes
  <2>5. QED
    BY <2>1, <2>2, <2>3, <2>4, KeepsMutex, Basics
<1>15. CASE IpcBusSet
  <2>1. OthersStay(Ipc)
    BY <1>15, Basics DEF OthersStay, TypeOK, IpcBusSet, NextRound, Goto,
       ifVars, procVars
  <2>2. \A i \in Ifaces : Holds(Ipc, i)' <=> Holds(Ipc, i)
    BY <1>15, Basics DEF Holds, TypeOK, At, IpcBusSet, NextRound, Goto, ifVars,
       procVars, IpcPcs
  <2>3. pc'[Ipc] \in Nested <=> pc[Ipc] \in Nested
    BY <1>15, Basics DEF Nested, TypeOK, At, IpcBusSet, NextRound, Goto, IpcPcs
  <2>4. UNCHANGED <<owner, depth>>
    BY <1>15 DEF IpcBusSet, ifVars
  <2>5. QED
    BY <2>1, <2>2, <2>3, <2>4, KeepsMutex, Basics
<1>16. CASE IpcWanScan
  <2>1. OthersStay(Ipc)
    BY <1>16, Basics DEF OthersStay, TypeOK, IpcWanScan, Goto, NextRound,
       ifVars, ipcVars, procVars, wanVars, histVars
  <2>2. \A i \in Ifaces : Holds(Ipc, i)' <=> Holds(Ipc, i)
    BY <1>16, Basics DEF Holds, TypeOK, At, IpcWanScan, Goto, NextRound,
       ifVars, ipcVars, procVars, wanVars, histVars, IpcPcs
  <2>3. pc'[Ipc] \in Nested <=> pc[Ipc] \in Nested
    BY <1>16, Basics DEF Nested, TypeOK, At, IpcWanScan, Goto, NextRound,
       IpcPcs
  <2>4. UNCHANGED <<owner, depth>>
    BY <1>16 DEF IpcWanScan, ifVars
  <2>5. QED
    BY <2>1, <2>2, <2>3, <2>4, KeepsMutex, Basics
<1>17. CASE IpcStart
  <2>1. OthersStay(Ipc)
    BY <1>17, Basics DEF OthersStay, TypeOK, IpcStart, Goto, NextRound, Passes,
       ipcVars, procVars, wanVars, histVars
  <2>2. CASE UNCHANGED <<owner, depth>> /\ NextRound
    <3>1. \A i \in Ifaces : Holds(Ipc, i)' <=> Holds(Ipc, i)
      BY <1>17, <2>2, Basics DEF Holds, TypeOK, At, IpcStart, Goto, NextRound,
         Passes, ipcVars, procVars, wanVars, histVars, IpcPcs
    <3>2. pc'[Ipc] \in Nested <=> pc[Ipc] \in Nested
      BY <1>17, <2>2, Basics DEF Nested, TypeOK, At, IpcStart, Goto, NextRound,
         Passes, IpcPcs
    <3>3. UNCHANGED <<owner, depth>>
      BY <1>17, <2>2 DEF IpcStart, Passes
    <3>4. QED
      BY <2>1, <3>1, <3>2, <3>3, KeepsMutex, Basics
  <2>3. CASE /\ Acquire(Ipc, ev.iface)
             /\ pc'[Ipc] \in {"busget", "exec"} /\ UNCHANGED ipcVars
    <3>1. ev.iface \in Ifaces /\ Acquire(Ipc, ev.iface)
      BY <1>17, <2>3 DEF TypeOK, IpcStart, Event, SetEvents, ExecEvents
    <3>2. \A j \in Ifaces : ~Holds(Ipc, j)
      BY <1>17, <2>3, Basics DEF Holds, At, IpcStart
    <3>3. \A j \in Ifaces : Holds(Ipc, j)' <=> j = ev.iface
      BY <1>17, <2>3, Basics DEF Holds, TypeOK, At, IpcStart, Goto, NextRound,
         Passes, ipcVars, procVars, wanVars, histVars, IpcPcs
    <3>4. pc[Ipc] \notin Nested /\ pc'[Ipc] \notin Nested
      BY <1>17, <2>3, Basics DEF Nested, TypeOK, At, IpcStart, Goto, NextRound,
         Passes
    <3>5. QED
      BY <2>1, <3>1, <3>2, <3>3, <3>4, LocksMutex, Basics
  <2>4. QED
    BY <1>17, <2>2, <2>3, Basics DEF IpcStart, Goto, Passes, ipcVars, TypeOK,
       At
<1>18. CASE IpcStartCrash
  <2>1. OthersStay(Ipc)
    BY <1>18, Basics DEF OthersStay, TypeOK, IpcStartCrash, ifVars, ipcVars,
       procVars, wanVars, histVars
  <2>2. \A i \in Ifaces : Holds(Ipc, i)' <=> Holds(Ipc, i)
    BY <1>18, Basics DEF Holds, TypeOK, At, IpcStartCrash, ifVars, ipcVars,
       procVars, wanVars, histVars, IpcPcs
  <2>3. pc'[Ipc] \in Nested <=> pc[Ipc] \in Nested
    BY <1>18, Basics DEF Nested, TypeOK, At, IpcStartCrash, IpcPcs
  <2>4. UNCHANGED <<owner, depth>>
    BY <1>18 DEF IpcStartCrash, ifVars
  <2>5. QED
    BY <2>1, <2>2, <2>3, <2>4, KeepsMutex, Basics
<1>19. CASE IpcBusGet
  <2>1. OthersStay(Ipc)
    BY <1>19, Basics DEF OthersStay, TypeOK, IpcBusGet, Goto, NextRound,
       ipcVars, procVars, wanVars, histVars
  <2>2. CASE UNCHANGED <<owner, depth, ipcVars>> /\ Goto(Ipc, "exec")
    <3>1. \A i \in Ifaces : Holds(Ipc, i)' <=> Holds(Ipc, i)
      BY <1>19, <2>2, Basics DEF Holds, TypeOK, At, IpcBusGet, Goto, NextRound,
         ipcVars, procVars, wanVars, histVars, IpcPcs
    <3>2. pc'[Ipc] \in Nested <=> pc[Ipc] \in Nested
      BY <1>19, <2>2, Basics DEF Nested, TypeOK, At, IpcBusGet, Goto,
         NextRound, IpcPcs
    <3>3. UNCHANGED <<owner, depth>>
      BY <1>19, <2>2 DEF IpcBusGet
    <3>4. QED
      BY <2>1, <3>1, <3>2, <3>3, KeepsMutex, Basics
  <2>3. CASE Release(Ipc, ev.iface) /\ NextRound
    <3>1. ev.iface \in Ifaces /\ Release(Ipc, ev.iface)
      BY <1>19, <2>3 DEF TypeOK, IpcBusGet, Event, SetEvents, ExecEvents
    <3>2. \A j \in Ifaces : Holds(Ipc, j) <=> j = ev.iface
      BY <1>19, <2>3, Basics DEF Holds, At, IpcBusGet
    <3>3. \A j \in Ifaces : ~Holds(Ipc, j)'
      BY <1>19, <2>3, Basics DEF Holds, TypeOK, At, IpcBusGet, Goto, NextRound,
         ipcVars, procVars, wanVars, histVars, IpcPcs
    <3>4. pc[Ipc] \notin Nested
      BY <1>19, <2>3, Basics DEF Nested, TypeOK, At, IpcBusGet, Goto, NextRound
    <3>5. QED
      BY <2>1, <3>1, <3>2, <3>3, <3>4, UnlocksMutex, Basics
  <2>4. QED
    BY <1>19, <2>2, <2>3, Basics DEF IpcBusGet, Goto, Passes, ipcVars, TypeOK,
       At
<1>20. CASE IpcExec
  <2>1. OthersStay(Ipc)
    BY <1>20, Basics DEF OthersStay, TypeOK, IpcExec, Goto, ifVars, ipcVars,
       procVars, wanVars, histVars
  <2>2. \A i \in Ifaces : Holds(Ipc, i)' <=> Holds(Ipc, i)
    BY <1>20, Basics DEF Holds, TypeOK, At, IpcExec, Goto, ifVars, ipcVars,
       procVars, wanVars, histVars, IpcPcs
  <2>3. pc'[Ipc] \in Nested <=> pc[Ipc] \in Nested
    BY <1>20, Basics DEF Nested, TypeOK, At, IpcExec, Goto, IpcPcs
  <2>4. UNCHANGED <<owner, depth>>
    BY <1>20 DEF IpcExec, ifVars
  <2>5. QED
    BY <2>1, <2>2, <2>3, <2>4, KeepsMutex, Basics
<1>21. CASE IpcGetPid
  <2>1. OthersStay(Ipc)
    BY <1>21, Basics DEF OthersStay, TypeOK, IpcGetPid, NextRound, Goto,
       procVars, wanVars
  <2>2. ev.iface \in Ifaces /\ Release(Ipc, ev.iface)
    BY <1>21 DEF TypeOK, IpcGetPid, Event, SetEvents, ExecEvents
  <2>3. \A j \in Ifaces : Holds(Ipc, j) <=> j = ev.iface
    BY <1>21, Basics DEF Holds, At, IpcGetPid
  <2>4. \A j \in Ifaces : ~Holds(Ipc, j)'
    BY <1>21, Basics DEF Holds, TypeOK, At, IpcGetPid, NextRound, Goto,
       procVars, wanVars, IpcPcs
  <2>5. pc[Ipc] \notin Nested
    BY <1>21, Basics DEF Nested, TypeOK, At, IpcGetPid, NextRound, Goto
  <2>6. QED
    BY <2>1, <2>2, <2>3, <2>4, <2>5, UnlocksMutex, Basics
<1>23. QED
  BY <1>1, <1>2, <1>3, <1>4, <1>5, <1>6, <1>7, <1>8, <1>9, <1>10, <1>11, <1>12,
     <1>13, <1>14, <1>15, <1>16, <1>17, <1>18, <1>19, <1>20, <1>21, <1>22
     DEF IpcStep

\* Every step of a bus thread keeps MutexInv.
LEMMA DmlMutex ==
  ASSUME TypeOK, MutexInv, NEW t \in DmlThreads, DmlRun(t)
  PROVE  MutexInv'
<1>1. CASE DmlLock(t)
  <2>1. OthersStay(t)
    BY <1>1, Basics DEF OthersStay, TypeOK, DmlLock, Goto, ipcVars, procVars,
       wanVars, histVars
  <2>2. call[t].iface \in Ifaces /\ Acquire(t, call[t].iface)
    BY <1>1 DEF TypeOK, DmlLock, Calls
  <2>3. \A j \in Ifaces : ~Holds(t, j)
    BY <1>1, Basics DEF Holds, At, DmlLock, DmlPcs
  <2>4. \A j \in Ifaces : Holds(t, j)' <=> j = call[t].iface
    BY <1>1, Basics DEF Holds, TypeOK, At, DmlLock, Goto, ipcVars, procVars,
       wanVars, histVars, DmlPcs, DmlPcs
  <2>5. pc[t] \notin Nested /\ pc'[t] \notin Nested
    BY <1>1, Basics DEF Nested, TypeOK, At, DmlLock, Goto
  <2>6. QED
    BY <2>1, <2>2, <2>3, <2>4, <2>5, LocksMutex, Basics
<1>2. CASE DmlDispatch(t)
  <2>1. OthersStay(t)
    BY <1>2, Basics DEF OthersStay, TypeOK, DmlDispatch, Goto, ifVars, ipcVars,
       procVars, wanVars, histVars
  <2>2. pc[t] = "dispatch" /\ pc'[t] \in {"start", "stop", "return"}
    BY <1>2, Basics DEF TypeOK, At, Goto, DmlDispatch
  <2>3. \A i \in Ifaces : Holds(t, i)' <=> Holds(t, i)
    BY <1>2, <2>2, Basics DEF Holds, TypeOK, At, DmlDispatch, Goto, ifVars,
       ipcVars, procVars, wanVars, histVars, DmlPcs
  <2>4. pc'[t] \in Nested <=> pc[t] \in Nested
    BY <1>2, <2>2, Basics DEF Nested, TypeOK, At, DmlDispatch, Goto, DmlPcs
  <2>5. UNCHANGED <<owner, depth>>
    BY <1>2, <2>2 DEF DmlDispatch, ifVars
  <2>6. QED
    BY <2>1, <2>2, <2>3, <2>4, <2>5, KeepsMutex, Basics
<1>3. CASE DmlStop(t)
  <2>1. OthersStay(t)
    BY <1>3, Basics DEF OthersStay, TypeOK, DmlStop, Goto, ipcVars, procVars,
       wanVars, histVars
  <2>2. call[t].iface \in Ifaces /\ Acquire(t, call[t].iface)
    BY <1>3 DEF TypeOK, DmlStop, Calls
  <2>3. \A j \in Ifaces : Holds(t, j) <=> j = call[t].iface
    BY <1>3, Basics DEF Holds, At, DmlStop, DmlPcs
  <2>4. \A j \in Ifaces : Holds(t, j)' <=> j = call[t].iface
    BY <1>3, Basics DEF Holds, TypeOK, At, DmlStop, Goto, ipcVars, procVars,
       wanVars, histVars, DmlPcs, DmlPcs
  <2>5. pc[t] \notin Nested /\ pc'[t] \in Nested
    BY <1>3, Basics DEF Nested, TypeOK, At, DmlStop, Goto
  <2>6. QED
    BY <2>1, <2>2, <2>3, <2>4, <2>5, NestsMutex, Basics
<1>4. CASE DmlStopped(t)
  <2>1. OthersStay(t)
    BY <1>4, Basics DEF OthersStay, TypeOK, DmlStopped, Goto, ipcVars,
       procVars, wanVars, histVars
  <2>2. call[t].iface \in Ifaces /\ Release(t, call[t].iface)
    BY <1>4 DEF TypeOK, DmlStopped, Calls
  <2>3. \A j \in Ifaces : Holds(t, j) <=> j = call[t].iface
    BY <1>4, Basics DEF Holds, At, DmlStopped, DmlPcs
  <2>4. \A j \in Ifaces : Holds(t, j)' <=> j = call[t].iface
    BY <1>4, Basics DEF Holds, TypeOK, At, DmlStopped, Goto, ipcVars, procVars,
       wanVars, histVars, DmlPcs, DmlPcs
  <2>5. pc[t] \in Nested /\ pc'[t] \notin Nested
    BY <1>4, Basics DEF Nested, TypeOK, At, DmlStopped, Goto
  <2>6. QED
    BY <2>1, <2>2, <2>3, <2>4, <2>5, UnnestsMutex, Basics
<1>5. CASE DmlSend(t)
  <2>1. OthersStay(t)
    BY <1>5, Basics DEF OthersStay, TypeOK, DmlSend, ifVars, ipcVars, procVars,
       wanVars
  <2>2. \A i \in Ifaces : Holds(t, i)' <=> Holds(t, i)
    BY <1>5, Basics DEF Holds, TypeOK, At, DmlSend, ifVars, ipcVars, procVars,
       wanVars, DmlPcs
  <2>3. pc'[t] \in Nested <=> pc[t] \in Nested
    BY <1>5, Basics DEF Nested, TypeOK, At, DmlSend, DmlPcs
  <2>4. UNCHANGED <<owner, depth>>
    BY <1>5 DEF DmlSend, ifVars
  <2>5. QED
    BY <2>1, <2>2, <2>3, <2>4, KeepsMutex, Basics
<1>6. CASE DmlSent(t)
  <2>1. OthersStay(t)
    BY <1>6, Basics DEF OthersStay, TypeOK, DmlSent, Goto, ifVars, ipcVars,
       procVars, wanVars, histVars
  <2>2. pc[t] = "post" /\ pc'[t] \in {"start", "return"}
    BY <1>6, Basics DEF TypeOK, At, Goto, DmlSent
  <2>3. \A i \in Ifaces : Holds(t, i)' <=> Holds(t, i)
    BY <1>6, <2>2, Basics DEF Holds, TypeOK, At, DmlSent, Goto, ifVars,
       ipcVars, procVars, wanVars, histVars, DmlPcs
  <2>4. pc'[t] \in Nested <=> pc[t] \in Nested
    BY <1>6, <2>2, Basics DEF Nested, TypeOK, At, DmlSent, Goto, DmlPcs
  <2>5. UNCHANGED <<owner, depth>>
    BY <1>6, <2>2 DEF DmlSent, ifVars
  <2>6. QED
    BY <2>1, <2>2, <2>3, <2>4, <2>5, KeepsMutex, Basics
<1>7. CASE DmlStart(t)
  <2>1. OthersStay(t)
    BY <1>7, Basics DEF OthersStay, TypeOK, DmlStart, Goto, ipcVars, procVars,
       wanVars, histVars
  <2>2. call[t].iface \in Ifaces /\ Acquire(t, call[t].iface)
    BY <1>7 DEF TypeOK, DmlStart, Calls
  <2>3. \A j \in Ifaces : Holds(t, j) <=> j = call[t].iface
    BY <1>7, Basics DEF Holds, At, DmlStart, DmlPcs
  <2>4. \A j \in Ifaces : Holds(t, j)' <=> j = call[t].iface
    BY <1>7, Basics DEF Holds, TypeOK, At, DmlStart, Goto, ipcVars, procVars,
       wanVars, histVars, DmlPcs, DmlPcs
  <2>5. pc[t] \notin Nested /\ pc'[t] \in Nested
    BY <1>7, Basics DEF Nested, TypeOK, At, DmlStart, Goto
  <2>6. QED
    BY <2>1, <2>2, <2>3, <2>4, <2>5, NestsMutex, Basics
<1>8. CASE DmlExecSend(t)
  <2>1. OthersStay(t)
    BY <1>8, Basics DEF OthersStay, TypeOK, DmlExecSend, ifVars, ipcVars,
       procVars, wanVars
  <2>2. \A i \in Ifaces : Holds(t, i)' <=> Holds(t, i)
    BY <1>8, Basics DEF Holds, TypeOK, At, DmlExecSend, ifVars, ipcVars,
       procVars, wanVars, DmlPcs
  <2>3. pc'[t] \in Nested <=> pc[t] \in Nested
    BY <1>8, Basics DEF Nested, TypeOK, At, DmlExecSend, DmlPcs
  <2>4. UNCHANGED <<owner, depth>>
    BY <1>8 DEF DmlExecSend, ifVars
  <2>5. QED
    BY <2>1, <2>2, <2>3, <2>4, KeepsMutex, Basics
<1>9. CASE DmlExecSent(t)
  <2>1. OthersStay(t)
    BY <1>9, Basics DEF OthersStay, TypeOK, DmlExecSent, Goto, ipcVars,
       procVars, wanVars, histVars
  <2>2. call[t].iface \in Ifaces /\ Release(t, call[t].iface)
    BY <1>9 DEF TypeOK, DmlExecSent, Calls
  <2>3. \A j \in Ifaces : Holds(t, j) <=> j = call[t].iface
    BY <1>9, Basics DEF Holds, At, DmlExecSent, DmlPcs
  <2>4. \A j \in Ifaces : Holds(t, j)' <=> j = call[t].iface
    BY <1>9, Basics DEF Holds, TypeOK, At, DmlExecSent, Goto, ipcVars,
       procVars, wanVars, histVars, DmlPcs, DmlPcs
  <2>5. pc[t] \in Nested /\ pc'[t] \notin Nested
    BY <1>9, Basics DEF Nested, TypeOK, At, DmlExecSent, Goto
  <2>6. QED
    BY <2>1, <2>2, <2>3, <2>4, <2>5, UnnestsMutex, Basics
<1>10. CASE DmlExecSendFails(t)
  <2>1. OthersStay(t)
    BY <1>10, Basics DEF OthersStay, TypeOK, DmlExecSendFails, Goto, ipcVars,
       procVars, wanVars
  <2>2. call[t].iface \in Ifaces /\ Release(t, call[t].iface)
    BY <1>10 DEF TypeOK, DmlExecSendFails, Calls
  <2>3. \A j \in Ifaces : Holds(t, j) <=> j = call[t].iface
    BY <1>10, Basics DEF Holds, At, DmlExecSendFails, DmlPcs
  <2>4. \A j \in Ifaces : Holds(t, j)' <=> j = call[t].iface
    BY <1>10, Basics DEF Holds, TypeOK, At, DmlExecSendFails, Goto, ipcVars,
       procVars, wanVars, DmlPcs, DmlPcs
  <2>5. pc[t] \in Nested /\ pc'[t] \notin Nested
    BY <1>10, Basics DEF Nested, TypeOK, At, DmlExecSendFails, Goto
  <2>6. QED
    BY <2>1, <2>2, <2>3, <2>4, <2>5, UnnestsMutex, Basics
<1>11. CASE DmlNoEntry(t)
  <2>1. OthersStay(t)
    BY <1>11, Basics DEF OthersStay, TypeOK, DmlNoEntry, Goto, ifVars, ipcVars,
       procVars, wanVars, histVars
  <2>2. pc[t] \in {"start", "stop"} /\ pc'[t] = "return"
    BY <1>11, Basics DEF TypeOK, At, Goto, DmlNoEntry
  <2>3. \A i \in Ifaces : Holds(t, i)' <=> Holds(t, i)
    BY <1>11, <2>2, Basics DEF Holds, TypeOK, At, DmlNoEntry, Goto, ifVars,
       ipcVars, procVars, wanVars, histVars, DmlPcs
  <2>4. pc'[t] \in Nested <=> pc[t] \in Nested
    BY <1>11, <2>2, Basics DEF Nested, TypeOK, At, DmlNoEntry, Goto, DmlPcs
  <2>5. UNCHANGED <<owner, depth>>
    BY <1>11, <2>2 DEF DmlNoEntry, ifVars
  <2>6. QED
    BY <2>1, <2>2, <2>3, <2>4, <2>5, KeepsMutex, Basics
<1>12. CASE DmlReturn(t)
  <2>1. OthersStay(t)
    BY <1>12, Basics DEF OthersStay, TypeOK, DmlReturn, Goto, ipcVars,
       procVars, histVars
  <2>2. call[t].iface \in Ifaces /\ Release(t, call[t].iface)
    BY <1>12 DEF TypeOK, DmlReturn, Calls
  <2>3. \A j \in Ifaces : Holds(t, j) <=> j = call[t].iface
    BY <1>12, Basics DEF Holds, At, DmlReturn, DmlPcs
  <2>4. \A j \in Ifaces : ~Holds(t, j)'
    BY <1>12, Basics DEF Holds, TypeOK, At, DmlReturn, Goto, ipcVars, procVars,
       histVars, DmlPcs, DmlPcs
  <2>5. pc[t] \notin Nested
    BY <1>12, Basics DEF Nested, TypeOK, At, DmlReturn, Goto
  <2>6. QED
    BY <2>1, <2>2, <2>3, <2>4, <2>5, UnlocksMutex, Basics
<1>13. QED
  BY <1>1, <1>2, <1>3, <1>4, <1>5, <1>6, <1>7, <1>8, <1>9, <1>10, <1>11, <1>12
     DEF DmlRun

\* And so does a call of the data model.
LEMMA CallMutex ==
  ASSUME TypeOK, MutexInv, NEW t \in DmlThreads, DmlCall(t)
  PROVE  MutexInv'
<1>1. CASE DmlCall(t)
  <2>1. OthersStay(t)
    BY <1>1, Basics DEF OthersStay, TypeOK, DmlCall, Goto, ifVars, ipcVars,
       procVars, histVars
  <2>2. \A i \in Ifaces : Holds(t, i)' <=> Holds(t, i)
    BY <1>1, Basics DEF Holds, TypeOK, At, DmlCall, Goto, ifVars, ipcVars,
       procVars, histVars, DmlPcs
  <2>3. pc'[t] \in Nested <=> pc[t] \in Nested
    BY <1>1, Basics DEF Nested, TypeOK, At, DmlCall, Goto, DmlPcs
  <2>4. UNCHANGED <<owner, depth>>
    BY <1>1 DEF DmlCall, ifVars
  <2>5. QED
    BY <2>1, <2>2, <2>3, <2>4, KeepsMutex, Basics
<1>2. QED
  BY <1>1

\* Hence every step, and a stuttering step.
LEMMA NextMutex == TypeOK /\ MutexInv /\ [Next]_vars => MutexInv'
<1> SUFFICES ASSUME TypeOK, MutexInv, [Next]_vars PROVE MutexInv'
  OBVIOUS
<1>1. CASE IpcStep
  BY <1>1, IpcMutex
<1>2. ASSUME NEW t \in DmlThreads, DmlRun(t) PROVE MutexInv'
  BY <1>2, DmlMutex
<1>3. ASSUME NEW t \in DmlThreads, DmlCall(t) PROVE MutexInv'
  BY <1>3, CallMutex
<1>4. ASSUME UNCHANGED <<owner, depth, pc, inst, ev, call>> PROVE MutexInv'
  BY <1>4 DEF MutexInv, Holds, LockDepth
<1>5. ASSUME NEW p \in Pids, ClientSends(p) \/ ClientExits(p) PROVE MutexInv'
  BY <1>4, <1>5 DEF ClientSends, ClientExits, ifVars, ipcVars
<1>6. CASE Halted \/ UNCHANGED vars
  BY <1>4, <1>6 DEF Halted, vars
<1>7. QED
  BY <1>1, <1>2, <1>3, <1>5, <1>6 DEF Next

\* The owner and the depth of every mutex agree with where the threads are.
THEOREM MutexIsInductive == Spec => []MutexInv
<1>1. Init => MutexInv
  BY Basics DEF Init, MutexInv, Holds, LockDepth
<1>2. TypeOK /\ MutexInv /\ [Next]_vars => MutexInv'
  BY NextMutex
<1>3. QED
  BY <1>1, <1>2, Typing, PTL DEF Spec

\* No two threads are ever inside the critical sections of one entry: the nested
\* locks of the stop and start calls and all early returns are balanced.
THEOREM Exclusion == Spec => []MutualExclusion
<1>1. TypeOK /\ MutexInv => MutualExclusion
  BY DEF MutexInv, MutualExclusion
<1>2. QED
  BY <1>1, Typing, MutexIsInductive, PTL

-----------------------------------------------------------------------------
(* What the mutex is for.                                                  *)

\* The steps that leave every entry alone.
LEMMA QuietSteps ==
  ASSUME \/ IpcBoot \/ IpcReceive \/ IpcFindPid \/ IpcNoEntry \/ IpcSkipEntry
         \/ IpcSend \/ IpcSendFails \/ IpcSent \/ IpcSettle \/ IpcUnlock
         \/ IpcMqReceive \/ IpcReadWan \/ IpcBusSet \/ IpcWanScan
         \/ IpcStartCrash \/ IpcBusGet \/ IpcExec
         \/ \E t \in DmlThreads :
              \/ DmlCall(t) \/ DmlLock(t) \/ DmlDispatch(t) \/ DmlStopped(t)
              \/ DmlSend(t) \/ DmlSent(t) \/ DmlStart(t) \/ DmlExecSend(t)
              \/ DmlExecSendFails(t) \/ DmlNoEntry(t) \/ DmlReturn(t)
         \/ \E p \in Pids : ClientSends(p) \/ ClientExits(p)
         \/ Halted \/ UNCHANGED vars
  PROVE  UNCHANGED entry
<1>1. CASE \/ IpcBoot \/ IpcReceive \/ IpcFindPid \/ IpcNoEntry
           \/ IpcSkipEntry \/ IpcSend
  BY <1>1 DEF IpcBoot, IpcReceive, IpcFindPid, IpcNoEntry, IpcSkipEntry,
              IpcSend, ifVars
<1>2. CASE IpcSendFails \/ IpcSent \/ IpcSettle \/ IpcUnlock \/ IpcMqReceive
  BY <1>2 DEF IpcSendFails, IpcSent, IpcSettle, IpcUnlock, IpcMqReceive, ifVars
<1>3. CASE \/ IpcReadWan \/ IpcBusSet \/ IpcWanScan \/ IpcStartCrash
           \/ IpcBusGet \/ IpcExec
  BY <1>3 DEF IpcReadWan, IpcBusSet, IpcWanScan, IpcStartCrash, IpcBusGet,
              IpcExec, ifVars
<1>4. CASE \E t \in DmlThreads :
             \/ DmlCall(t) \/ DmlLock(t) \/ DmlDispatch(t) \/ DmlStopped(t)
             \/ DmlSend(t) \/ DmlSent(t)
  BY <1>4 DEF DmlCall, DmlLock, DmlDispatch, DmlStopped, DmlSend, DmlSent,
              ifVars
<1>5. CASE \E t \in DmlThreads :
             \/ DmlStart(t) \/ DmlExecSend(t) \/ DmlExecSendFails(t)
             \/ DmlNoEntry(t) \/ DmlReturn(t)
  BY <1>5 DEF DmlStart, DmlExecSend, DmlExecSendFails, DmlNoEntry, DmlReturn,
              ifVars
<1>6. CASE \E p \in Pids : ClientSends(p) \/ ClientExits(p)
  BY <1>6 DEF ClientSends, ClientExits, ifVars
<1>7. CASE Halted \/ UNCHANGED vars
  BY <1>7 DEF Halted, vars
<1>8. QED
  BY <1>1, <1>2, <1>3, <1>4, <1>5, <1>6, <1>7

\* The other steps change the entry they hold the mutex of, and move on.
LEMMA Writers ==
  ASSUME TypeOK, MutexInv, [Next]_vars, NEW i \in Ifaces, NEW t \in Threads,
         owner[i] = t, entry'[i] # entry[i]
  PROVE  pc'[t] # pc[t]
<1>1. \/ IpcStateChanged \/ IpcIpcpParams \/ IpcIpv6cpParams \/ IpcStart
      \/ IpcGetPid \/ \E u \in DmlThreads : DmlStop(u) \/ DmlExecSent(u)
  BY QuietSteps DEF Next, IpcStep, DmlRun
<1>2. CASE IpcStateChanged
  <2>1. i = inst /\ t = Ipc
    BY <1>2, Basics DEF IpcStateChanged, Acquire, TypeOK
  <2>2. QED
    BY <1>2, <2>1 DEF IpcStateChanged, At, Goto, TypeOK
<1>3. CASE IpcIpcpParams
  <2>1. i = inst /\ t = Ipc
    BY <1>3, Basics DEF IpcIpcpParams, Acquire, TypeOK
  <2>2. QED
    BY <1>3, <2>1 DEF IpcIpcpParams, At, Goto, TypeOK
<1>4. CASE IpcIpv6cpParams
  <2>1. i = inst /\ t = Ipc
    BY <1>4, Basics DEF IpcIpv6cpParams, Acquire, TypeOK
  <2>2. QED
    BY <1>4, <2>1 DEF IpcIpv6cpParams, At, Goto, TypeOK
<1>5. CASE IpcStart
  <2>1. i = ev.iface /\ owner[i] \in {NoThread, Ipc}
    BY <1>5 DEF IpcStart, Acquire, Passes, TypeOK
  <2>2. ~Holds(Ipc, i)
    BY <1>5 DEF IpcStart, At, Holds
  <2>3. QED
    BY <2>1, <2>2, Basics DEF MutexInv
<1>6. CASE IpcGetPid
  <2>1. i = ev.iface /\ t = Ipc
    BY <1>6, Basics DEF IpcGetPid, At, MutexInv, Holds, TypeOK
  <2>2. QED
    BY <1>6, <2>1, Basics DEF IpcGetPid, At, NextRound, Goto, TypeOK
<1>7. ASSUME NEW u \in DmlThreads, DmlStop(u)
      PROVE  pc'[t] # pc[t]
  <2>1. i = call[u].iface /\ t = u
    BY <1>7, Basics DEF DmlStop, Acquire, TypeOK
  <2>2. QED
    BY <1>7, <2>1, Basics DEF DmlStop, At, Goto, TypeOK
<1>8. ASSUME NEW u \in DmlThreads, DmlExecSent(u)
      PROVE  pc'[t] # pc[t]
  <2>1. i = call[u].iface
    BY <1>8 DEF DmlExecSent, TypeOK
  <2>2. t = u
    BY <1>8, <2>1, Basics DEF DmlExecSent, At, MutexInv, Holds, DmlPcs
  <2>3. QED
    BY <1>8, <2>2, Basics DEF DmlExecSent, At, Goto, TypeOK
<1>9. QED
  BY <1>1, <1>2, <1>3, <1>4, <1>5, <1>6, <1>7, <1>8

\* No step changes an entry that another thread has locked.
THEOREM ForeignWrites == Spec => NoForeignWrite
<1>1. TypeOK /\ MutexInv /\ [Next]_vars =>
        [\A i \in Ifaces, t \in Threads :
           owner[i] = t /\ entry'[i] # entry[i] => pc'[t] # pc[t]]_vars
  BY Writers
<1>2. QED
  BY <1>1, Typing, MutexIsInductive, PTL DEF Spec, NoForeignWrite

\* Only the build that asks WanManager for the lower layer gets to "busget".
LEMMA OnlyPppoeQueries ==
  ASSUME TypeOK, pc[Ipc] = "busget" => QueriesLowerLayer, [Next]_vars
  PROVE  (pc[Ipc] = "busget" => QueriesLowerLayer)'
<1>1. SUFFICES ASSUME pc'[Ipc] = "busget", pc[Ipc] # "busget"
               PROVE  QueriesLowerLayer
  BY DEF QueriesLowerLayer
<1>2. CASE IpcStep
  <2>1. IpcStart
    BY <1>1, <1>2, Basics
       DEF IpcStep, TypeOK, Goto, NextRound, IpcBoot, IpcReceive, IpcFindPid,
           HandlerOf, IpcNoEntry, IpcSkipEntry, IpcSend, IpcSendFails, IpcSent,
           IpcSettle, IpcUnlock, IpcMqReceive, IpcReadWan, IpcBusSet, IpcWanScan,
           IpcStartCrash, IpcBusGet, IpcExec, IpcGetPid, IpcStateChanged,
           IpcIpcpParams, IpcIpv6cpParams
  <2>2. QED
    BY <1>1, <2>1, Basics DEF IpcStart, NextRound, Goto, TypeOK, QueriesLowerLayer
<1>3. ASSUME NEW t \in DmlThreads, DmlCall(t) \/ DmlRun(t)
      PROVE  pc'[Ipc] = pc[Ipc]
  BY <1>3, Basics
     DEF DmlCall, DmlRun, DmlLock, DmlDispatch, DmlStop, DmlStopped, DmlSend,
         DmlSent, DmlStart, DmlExecSend, DmlExecSent, DmlExecSendFails,
         DmlNoEntry, DmlReturn, Goto, TypeOK
<1>4. ASSUME \/ \E p \in Pids : ClientSends(p) \/ ClientExits(p)
             \/ Halted \/ UNCHANGED vars
      PROVE  pc' = pc
  BY <1>4 DEF ClientSends, ClientExits, Halted, vars
<1>5. QED
  BY <1>1, <1>2, <1>3, <1>4 DEF Next

\* A build that does not ask WanManager for the name of the lower layer never
\* calls WanManager with the mutex of an entry held.
THEOREM BusCalls ==
  ASSUME ~QueriesLowerLayer PROVE Spec => []NoBusCallUnderMutex
<1> DEFINE J == pc[Ipc] = "busget" => QueriesLowerLayer
<1>1. Init => J
  BY Basics DEF Init
<1>2. TypeOK /\ J /\ [Next]_vars => J'
  BY OnlyPppoeQueries
<1>3. TypeOK /\ MutexInv /\ J => NoBusCallUnderMutex
  BY Basics DEF MutexInv, Holds, NoBusCallUnderMutex
<1>4. QED
  BY <1>1, <1>2, <1>3, Typing, MutexIsInductive, PTL DEF Spec

-----------------------------------------------------------------------------
(* Waiting and moving: what CallsReturn and ReportsArrive rest on.         *)

\* The section of a holder and the locks of a waiting thread lie apart, but
\* for the nested lock, which is of the same entry.
LEMMA HoldersDoNotWait == TypeOK /\ MutexInv => NoHoldAndWait
<1> SUFFICES ASSUME TypeOK, MutexInv,
                    NEW i \in Ifaces, NEW t \in Threads, NEW u \in Threads,
                    owner[i] = t, WaitsFor(t, u)
             PROVE  FALSE
  BY DEF NoHoldAndWait
<1>1. PICK j \in Wants(t) : owner[j] = u /\ t # u
  BY DEF WaitsFor
<1>2. Holds(t, i)
  BY DEF MutexInv
<1>3. CASE t = Ipc
  BY <1>1, <1>2, <1>3 DEF Holds, Wants
<1>4. CASE t # Ipc
  BY <1>1, <1>2, <1>4 DEF Holds, Wants
<1>5. QED
  BY <1>3, <1>4

\* No circle of threads that wait for each other's mutexes, in either build,
\* for any number of interfaces and threads: the wait for a mutex ends when its
\* holder goes on, which only a full queue or WanManager can keep from it.
THEOREM NoCircles == Spec => []NoHoldAndWait
  BY HoldersDoNotWait, Typing, MutexIsInductive, PTL

\* A step of t: the others stay where they are with what they have to send.
StepOf(t) == OthersStay(t) /\ \A u \in Threads \ {t} : todo'[u] = todo[u]

\* A step that only one of these actions explains is a step of its thread.
LEMMA IpcStays ==
  ASSUME TypeOK, IpcStep
  PROVE  StepOf(Ipc)
<1>1. call' = call
  BY DEF IpcStep, IpcBoot, IpcReceive, IpcFindPid, IpcStateChanged,
     IpcIpcpParams, IpcIpv6cpParams, IpcNoEntry, IpcSkipEntry, IpcSend,
     IpcSendFails, IpcSent, IpcSettle, IpcUnlock, IpcMqReceive, IpcReadWan, IpcBusSet,
     IpcWanScan, IpcStart, IpcStartCrash, IpcBusGet, IpcExec, IpcGetPid
<1>2. pc' = pc \/ \E l \in IpcPcs : Goto(Ipc, l)
  <2>1. CASE IpcFindPid
    BY <2>1 DEF IpcFindPid, HandlerOf, IpcPcs
  <2>2. CASE IpcStart \/ IpcBusGet \/ IpcMqReceive \/ IpcWanScan
    BY <2>2 DEF IpcStart, IpcBusGet, IpcMqReceive, IpcWanScan, NextRound,
       IpcPcs
  <2>3. CASE \/ IpcBoot \/ IpcReceive \/ IpcNoEntry \/ IpcSkipEntry \/ IpcSend
             \/ IpcSendFails \/ IpcSent \/ IpcSettle \/ IpcUnlock
    BY <2>3 DEF IpcBoot, IpcReceive, IpcNoEntry, IpcSkipEntry, IpcSend,
       IpcSendFails, IpcSent, IpcSettle, IpcUnlock, IpcPcs
  <2>4. CASE IpcStateChanged \/ IpcIpcpParams \/ IpcIpv6cpParams
    BY <2>4 DEF IpcStateChanged, IpcIpcpParams, IpcIpv6cpParams, IpcPcs
  <2>5. CASE IpcReadWan \/ IpcBusSet \/ IpcStartCrash \/ IpcExec \/ IpcGetPid
    BY <2>5 DEF IpcReadWan, IpcBusSet, IpcStartCrash, IpcExec, IpcGetPid,
       NextRound, IpcPcs
  <2>6. QED
    BY <2>1, <2>2, <2>3, <2>4, <2>5 DEF IpcStep
<1>3. \A u \in Threads \ {Ipc} : pc'[u] = pc[u]
  BY <1>2 DEF Goto, TypeOK
<1>4. \A u \in Threads \ {Ipc} : todo'[u] = todo[u]
  BY DEF TypeOK, IpcStep, IpcBoot, IpcReceive, IpcFindPid, IpcStateChanged,
     IpcIpcpParams, IpcIpv6cpParams, IpcNoEntry, IpcSkipEntry, IpcSend,
     IpcSendFails, IpcSent, IpcSettle, IpcUnlock, IpcMqReceive, IpcReadWan, IpcBusSet,
     IpcWanScan, IpcStart, IpcStartCrash, IpcBusGet, IpcExec, IpcGetPid
<1>5. QED
  BY <1>1, <1>3, <1>4 DEF StepOf, OthersStay

\* A step of a data model call is a step of its thread.
LEMMA DmlStays ==
  ASSUME TypeOK, NEW t \in DmlThreads, DmlRun(t) \/ DmlCall(t)
  PROVE  StepOf(t)
<1>1. inst' = inst /\ ev' = ev
  BY DEF DmlRun, DmlCall, DmlLock, DmlDispatch, DmlStop, DmlStopped, DmlSend,
     DmlSent, DmlStart, DmlExecSend, DmlExecSent, DmlExecSendFails, DmlNoEntry,
     DmlReturn, ipcVars
<1>2. \A u \in DmlThreads \ {t} : call'[u] = call[u]
  BY DEF TypeOK, DmlRun, DmlCall, DmlLock, DmlDispatch, DmlStop, DmlStopped,
     DmlSend, DmlSent, DmlStart, DmlExecSend, DmlExecSent, DmlExecSendFails,
     DmlNoEntry, DmlReturn
<1>3. \A u \in Threads \ {t} : pc'[u] = pc[u]
  BY DEF TypeOK, Goto, DmlRun, DmlCall, DmlLock, DmlDispatch, DmlStop,
     DmlStopped, DmlSend, DmlSent, DmlStart, DmlExecSend, DmlExecSent,
     DmlExecSendFails, DmlNoEntry, DmlReturn
<1>4. \A u \in Threads \ {t} : todo'[u] = todo[u]
  BY DEF TypeOK, DmlRun, DmlCall, DmlLock, DmlDispatch, DmlStop, DmlStopped,
     DmlSend, DmlSent, DmlStart, DmlExecSend, DmlExecSent, DmlExecSendFails,
     DmlNoEntry, DmlReturn
<1>5. QED
  BY <1>1, <1>2, <1>3, <1>4 DEF StepOf, OthersStay, Threads

\* The labels one by one, as the provers need them.
LEMMA CallLevelOf ==
  /\ CallLevel["idle"] = 0
  /\ CallLevel["return"] = 1
  /\ CallLevel["execpost"] = 2
  /\ CallLevel["start"] = 4
  /\ CallLevel["post"] = 5
  /\ CallLevel["stopped"] = 6
  /\ CallLevel["stop"] = 10
  /\ CallLevel["dispatch"] = 11
  /\ CallLevel["lock"] = 12
  BY DEF CallLevel

LEMMA RoundLevelOf ==
  /\ RoundLevel["exited"] = 0
  /\ RoundLevel["sock"] = 0
  /\ RoundLevel["boot"] = 1
  /\ RoundLevel["set"] = 1
  /\ RoundLevel["getpid"] = 1
  /\ RoundLevel["read"] = 2
  /\ RoundLevel["exec"] = 2
  /\ RoundLevel["busget"] = 3
  /\ RoundLevel["start"] = 4
  /\ RoundLevel["wanscan"] = 5
  /\ RoundLevel["mq"] = 6
  /\ RoundLevel["upost"] = 7
  /\ RoundLevel["unlock"] = 7
  /\ RoundLevel["settle"] = 8
  /\ RoundLevel["post"] = 9
  /\ RoundLevel["lcp"] = 12
  /\ RoundLevel["ipcp"] = 12
  /\ RoundLevel["ipv6cp"] = 12
  /\ RoundLevel["find"] = 13
  BY DEF RoundLevel

\* A step of a data model call is one of the steps it has left.
LEMMA CallShrinks ==
  ASSUME TypeOK, NEW t \in DmlThreads, DmlRun(t)
  PROVE  CallSteps(t)' < CallSteps(t)
<1> DEFINE n == Len(todo[t])
           m == Len(todo'[t])
<1>1. t \in Threads /\ todo[t] \in Seq(Event) /\ n \in Nat
  BY Basics, LenProperties DEF TypeOK
<1>2. ASSUME NEW l \in DmlPcs, Goto(t, l)
      PROVE  pc'[t] = l
  BY <1>1, <1>2 DEF TypeOK, Goto
<1>3. CASE DmlLock(t) \/ DmlDispatch(t) \/ DmlNoEntry(t) \/ DmlReturn(t)
  <2>1. todo' = todo
    BY <1>3 DEF DmlLock, DmlDispatch, DmlNoEntry, DmlReturn
  <2>2. \/ pc[t] = "lock" /\ pc'[t] = "dispatch"
        \/ pc[t] = "dispatch" /\ pc'[t] \in {"start", "stop", "return"}
        \/ pc[t] \in {"stop", "start"} /\ pc'[t] = "return"
        \/ pc[t] = "return" /\ pc'[t] = "idle"
    BY <1>2, <1>3
       DEF DmlLock, DmlDispatch, DmlNoEntry, DmlReturn, DmlPcs, At
  <2>3. QED
    BY <1>1, <2>1, <2>2, CallLevelOf DEF CallSteps
<1>4. CASE DmlStop(t)
  <2>1. pc[t] = "stop" /\ pc'[t] = "stopped"
    BY <1>2, <1>4 DEF DmlStop, DmlPcs, At
  <2>2. todo'[t] = StopPosts(call[t].iface)
    BY <1>1, <1>4 DEF DmlStop, TypeOK
  <2>3. m = 3
    BY <2>2 DEF StopPosts
  <2>4. QED
    BY <1>1, <2>1, <2>3, CallLevelOf DEF CallSteps
<1>5. CASE DmlStopped(t)
  <2>1. pc[t] = "stopped" /\ pc'[t] = "post"
    BY <1>2, <1>5 DEF DmlStopped, DmlPcs, At
  <2>2. m = n
    BY <1>5 DEF DmlStopped
  <2>3. QED
    BY <1>1, <2>1, <2>2, CallLevelOf DEF CallSteps
<1>6. CASE DmlSend(t)
  <2>1. /\ todo[t] # << >> /\ todo'[t] = Tail(todo[t])
        /\ pc[t] = "post" /\ pc'[t] = "post"
    BY <1>1, <1>6 DEF DmlSend, Send, SendFails, TypeOK, At
  <2>2. m = n - 1 /\ m \in Nat
    BY <1>1, <2>1, HeadTailProperties
  <2>3. QED
    BY <1>1, <2>1, <2>2, CallLevelOf DEF CallSteps
<1>7. CASE DmlSent(t)
  <2>1. pc[t] = "post" /\ pc'[t] \in {"start", "return"}
    BY <1>2, <1>7 DEF DmlSent, DmlPcs, At
  <2>2. m = n
    BY <1>7 DEF DmlSent
  <2>3. QED
    BY <1>1, <2>1, <2>2, CallLevelOf DEF CallSteps
<1>8. CASE DmlStart(t)
  <2>1. pc[t] = "start" /\ pc'[t] = "execpost"
    BY <1>2, <1>8 DEF DmlStart, DmlPcs, At
  <2>2. todo'[t] = <<ExecEvent(call[t].iface)>>
    BY <1>1, <1>8 DEF DmlStart, TypeOK
  <2>3. m = 1
    BY <2>2
  <2>4. QED
    BY <1>1, <2>1, <2>3, CallLevelOf DEF CallSteps
<1>9. CASE DmlExecSend(t)
  <2>1. /\ todo[t] # << >> /\ todo'[t] = << >>
        /\ pc[t] = "execpost" /\ pc'[t] = "execpost"
    BY <1>1, <1>9 DEF DmlExecSend, Send, TypeOK, At
  <2>2. n > 0 /\ m = 0
    BY <1>1, <2>1, LenProperties
  <2>3. QED
    BY <1>1, <2>1, <2>2, CallLevelOf DEF CallSteps
<1>10. CASE DmlExecSent(t) \/ DmlExecSendFails(t)
  <2>1. pc[t] = "execpost" /\ pc'[t] = "return"
    BY <1>2, <1>10 DEF DmlExecSent, DmlExecSendFails, DmlPcs, At
  <2>2. m \in Nat
    <3>1. CASE DmlExecSent(t)
      BY <1>1, <3>1 DEF DmlExecSent
    <3>2. CASE DmlExecSendFails(t)
      <4>1. todo'[t] = << >>
        BY <1>1, <3>2 DEF DmlExecSendFails, TypeOK
      <4>2. QED
        BY <4>1
    <3>3. QED
      BY <1>10, <3>1, <3>2
  <2>3. QED
    BY <1>1, <2>1, <2>2, CallLevelOf DEF CallSteps
<1>11. QED
  BY <1>3, <1>4, <1>5, <1>6, <1>7, <1>8, <1>9, <1>10 DEF DmlRun

\* A step of the IPC thread is one of the steps its round has left.
LEMMA RoundShrinks ==
  ASSUME TypeOK, IpcStep, pc[Ipc] # "sock",
         pc'[Ipc] # pc[Ipc] \/ todo'[Ipc] # todo[Ipc] \/ inst' # inst
  PROVE  RoundSteps' < RoundSteps
<1> DEFINE n == Len(todo[Ipc])
           m == Len(todo'[Ipc])
<1>1. /\ Ipc \in Threads /\ todo[Ipc] \in Seq(Event) /\ n \in Nat
      /\ NumIfaces \in Nat \ {0} /\ inst \in 1 .. NumIfaces
  BY Basics, LenProperties, NumIfacesAssumption DEF TypeOK, Ifaces
<1>2. ASSUME NEW l \in IpcPcs, Goto(Ipc, l)
      PROVE  pc'[Ipc] = l
  BY <1>1, <1>2 DEF TypeOK, Goto
<1>3. CASE IpcBoot \/ IpcSettle \/ IpcUnlock \/ IpcNoEntry
  <2>1. todo' = todo /\ inst' = inst
    BY <1>3 DEF IpcBoot, IpcSettle, IpcUnlock, IpcNoEntry, ipcVars
  <2>2. \/ pc[Ipc] = "boot" /\ pc'[Ipc] \in {"sock", "exited"}
        \/ pc[Ipc] = "settle" /\ pc'[Ipc] = "unlock"
        \/ /\ pc[Ipc] \in {"unlock", "find", "lcp", "ipcp", "ipv6cp"}
           /\ pc'[Ipc] = "mq"
    BY <1>2, <1>3 DEF IpcBoot, IpcSettle, IpcUnlock, IpcNoEntry, IpcPcs, At
  <2>3. QED
    BY <1>1, <2>1, <2>2, RoundLevelOf DEF RoundSteps
<1>4. CASE IpcReceive
  BY <1>4 DEF IpcReceive, At
<1>5. CASE IpcFindPid \/ IpcSkipEntry
  <2>1. CASE Goto(Ipc, HandlerOf(msg)) /\ inst' = inst
             /\ todo' = [todo EXCEPT ![Ipc] = IF HandlerOf(msg) = "upost"
                                         THEN <<SetIPCPStatusDown(inst)>>
                                         ELSE << >>]
    <3>1. HandlerOf(msg) \in {"lcp", "ipcp", "ipv6cp", "upost", "mq"}
      BY DEF HandlerOf
    <3>2. /\ pc'[Ipc] \in {"lcp", "ipcp", "ipv6cp", "upost", "mq"}
          /\ pc[Ipc] = "find"
      BY <1>2, <1>5, <2>1, <3>1 DEF IpcFindPid, IpcSkipEntry, IpcPcs, At
    <3>3. todo'[Ipc] = <<SetIPCPStatusDown(inst)>> \/ todo'[Ipc] = << >>
      BY <1>1, <2>1 DEF TypeOK
    <3>4. m = 0 \/ m = 1
      <4>1. todo'[Ipc] = << >> => m = 0
        OBVIOUS
      <4>2. todo'[Ipc] = <<SetIPCPStatusDown(inst)>> => m = 1
        OBVIOUS
      <4>3. QED
        BY <3>3, <4>1, <4>2
    <3>5. RoundSteps = 13 + NumIfaces - inst
      BY <1>1, <3>2, RoundLevelOf DEF RoundSteps
    <3>6. ASSUME NEW k \in {0, 1}, m = k
          PROVE  RoundSteps' \in {6, 7, 8, 12}
      BY <3>2, <3>6, RoundLevelOf DEF RoundSteps
    <3>7. RoundSteps' \in {6, 7, 8, 12}
      BY <3>4, <3>6
    <3>8. QED
      BY <1>1, <3>5, <3>7
  <2>2. CASE inst < NumIfaces /\ inst' = inst + 1 /\ pc' = pc /\ todo' = todo
    <3>1. pc[Ipc] = "find"
      BY <1>5 DEF IpcFindPid, IpcSkipEntry, At
    <3>2. QED
      BY <1>1, <2>2, <3>1, RoundLevelOf DEF RoundSteps
  <2>3. CASE Goto(Ipc, "mq") /\ inst' = inst /\ todo' = todo
    <3>1. pc[Ipc] = "find" /\ pc'[Ipc] = "mq"
      BY <1>2, <1>5, <2>3 DEF IpcFindPid, IpcSkipEntry, IpcPcs, At
    <3>2. QED
      BY <1>1, <2>3, <3>1, RoundLevelOf DEF RoundSteps
  <2>4. QED
    BY <1>5, <2>1, <2>2, <2>3 DEF IpcFindPid, IpcSkipEntry
<1>6. CASE IpcStateChanged \/ IpcIpcpParams \/ IpcIpv6cpParams
  <2>1. m \in Nat /\ m <= 2
    <3>1. CASE IpcStateChanged
      <4>1. todo'[Ipc] = StateChangedPosts(inst, msg.state)
        BY <1>1, <3>1 DEF IpcStateChanged, TypeOK
      <4>2. QED
        BY <4>1 DEF StateChangedPosts
    <3>2. CASE IpcIpcpParams
      <4>1. todo'[Ipc] = IpcpPosts(inst, msg.arg)
        BY <1>1, <3>2 DEF IpcIpcpParams, TypeOK
      <4>2. QED
        BY <4>1 DEF IpcpPosts
    <3>3. CASE IpcIpv6cpParams
      <4>1. todo'[Ipc] = Ipv6cpPosts(inst, msg.state)
        BY <1>1, <3>3 DEF IpcIpv6cpParams, TypeOK
      <4>2. QED
        BY <4>1 DEF Ipv6cpPosts
    <3>4. QED
      BY <1>6, <3>1, <3>2, <3>3
  <2>2. pc[Ipc] \in {"lcp", "ipcp", "ipv6cp"} /\ pc'[Ipc] = "post"
    BY <1>2, <1>6
       DEF IpcStateChanged, IpcIpcpParams, IpcIpv6cpParams, IpcPcs, At
  <2>3. RoundSteps = 12 /\ RoundSteps' = 9 + m
    BY <2>1, <2>2, RoundLevelOf DEF RoundSteps
  <2>4. QED
    BY <2>1, <2>3
<1>7. CASE IpcSend
  <2>1. /\ todo[Ipc] # << >> /\ todo'[Ipc] = Tail(todo[Ipc])
        /\ pc[Ipc] \in {"post", "upost"} /\ pc'[Ipc] = pc[Ipc]
    BY <1>1, <1>7 DEF IpcSend, Send, TypeOK, At
  <2>2. inst' = inst
    BY <1>7 DEF IpcSend, ipcVars
  <2>3. m = n - 1 /\ m \in Nat
    BY <1>1, <2>1, HeadTailProperties
  <2>4. QED
    BY <1>1, <2>1, <2>2, <2>3, RoundLevelOf DEF RoundSteps
<1>8. CASE IpcSendFails \/ IpcSent
  <2>1. \/ pc[Ipc] = "post" /\ pc'[Ipc] \in {"settle", "unlock"}
        \/ pc[Ipc] = "upost" /\ pc'[Ipc] = "mq"
    BY <1>2, <1>8 DEF IpcSendFails, IpcSent, IpcPcs, At
  <2>2. CASE pc[Ipc] = "post" /\ pc'[Ipc] \in {"settle", "unlock"}
    <3>1. RoundSteps = 9 + n /\ RoundSteps' \in {7, 8}
      BY <1>1, <2>2, RoundLevelOf DEF RoundSteps
    <3>2. QED
      BY <1>1, <3>1
  <2>3. CASE pc[Ipc] = "upost" /\ pc'[Ipc] = "mq"
    <3>1. RoundSteps = 7 + n /\ RoundSteps' = 6
      BY <1>1, <2>3, RoundLevelOf DEF RoundSteps
    <3>2. QED
      BY <1>1, <3>1
  <2>4. QED
    BY <2>1, <2>2, <2>3
<1>9. CASE IpcMqReceive \/ IpcReadWan \/ IpcBusSet \/ IpcWanScan \/ IpcStart
           \/ IpcBusGet \/ IpcExec \/ IpcGetPid
  <2>1. CASE pc'[Ipc] = "sock"
    <3>1. pc[Ipc] \in {"mq", "read", "set", "wanscan", "start", "busget",
                       "exec", "getpid"}
      BY <1>9 DEF IpcMqReceive, IpcReadWan, IpcBusSet, IpcWanScan, IpcStart,
         IpcBusGet, IpcExec, IpcGetPid, At
    <3>2. RoundSteps \in {1, 2, 3, 4, 5, 6} /\ RoundSteps' = 0
      BY <2>1, <3>1, RoundLevelOf DEF RoundSteps
    <3>3. QED
      BY <3>2
  <2>2. CASE pc'[Ipc] # "sock"
    <3>1. NextRound => pc'[Ipc] = "sock"
      BY <1>2 DEF NextRound, IpcPcs
    <3>2. ~NextRound
      BY <2>2, <3>1
    <3>3. \/ pc[Ipc] = "mq" /\ pc'[Ipc] \in {"read", "wanscan"}
          \/ pc[Ipc] = "read" /\ pc'[Ipc] = "set"
          \/ pc[Ipc] = "wanscan" /\ pc'[Ipc] = "start"
          \/ pc[Ipc] = "start" /\ pc'[Ipc] \in {"busget", "exec"}
          \/ pc[Ipc] = "busget" /\ pc'[Ipc] = "exec"
          \/ pc[Ipc] = "exec" /\ pc'[Ipc] = "getpid"
      BY <1>2, <1>9, <3>2
         DEF IpcMqReceive, IpcReadWan, IpcBusSet, IpcWanScan, IpcStart,
             IpcBusGet, IpcExec, IpcGetPid, IpcPcs, At
    <3>4. QED
      BY <3>3, RoundLevelOf DEF RoundSteps
  <2>3. QED
    BY <2>1, <2>2
<1>10. CASE IpcStartCrash
  BY <1>10 DEF IpcStartCrash, ipcVars
<1>11. QED
  BY <1>3, <1>4, <1>5, <1>6, <1>7, <1>8, <1>9, <1>10 DEF IpcStep

\* Who has moved when a thread is not where it was.
LEMMA Movers ==
  ASSUME TypeOK, [Next]_vars
  PROVE  /\ \A t \in DmlThreads : pc'[t] # pc[t] \/ todo'[t] # todo[t] =>
                                    DmlCall(t) \/ DmlRun(t)
         /\ pc'[Ipc] # pc[Ipc] \/ todo'[Ipc] # todo[Ipc] \/ inst' # inst => IpcStep
<1>1. CASE IpcStep
  BY <1>1, IpcStays, Basics DEF StepOf, OthersStay
<1>2. ASSUME NEW u \in DmlThreads, DmlCall(u) \/ DmlRun(u)
      PROVE  /\ \A t \in DmlThreads \ {u} : pc'[t] = pc[t] /\ todo'[t] = todo[t]
             /\ pc'[Ipc] = pc[Ipc] /\ todo'[Ipc] = todo[Ipc] /\ inst' = inst
  BY <1>2, DmlStays, Basics DEF StepOf, OthersStay
<1>3. CASE \E p \in Pids : ClientSends(p) \/ ClientExits(p)
  BY <1>3 DEF ClientSends, ClientExits, ipcVars
<1>4. CASE Halted \/ UNCHANGED vars
  BY <1>4 DEF Halted, vars
<1>5. QED
  BY <1>1, <1>2, <1>3, <1>4 DEF Next

\* A call that has begun, and a round of the IPC thread, have a number of steps
\* left that only goes down.
THEOREM NothingRunsOn == Spec => StepsRunOut
<1>1. ASSUME TypeOK, [Next]_vars, NEW t \in DmlThreads, pc[t] # "idle",
             pc'[t] # pc[t] \/ todo'[t] # todo[t]
      PROVE  CallSteps(t)' < CallSteps(t)
  BY <1>1, Movers, CallShrinks DEF DmlCall, At
<1>2. ASSUME TypeOK, [Next]_vars, pc[Ipc] # "sock",
             pc'[Ipc] # pc[Ipc] \/ todo'[Ipc] # todo[Ipc] \/ inst' # inst
      PROVE  RoundSteps' < RoundSteps
  BY <1>2, Movers, RoundShrinks
<1>3. TypeOK /\ [Next]_vars =>
        [/\ \A t \in DmlThreads :
              pc[t] # "idle" /\ (pc'[t] # pc[t] \/ todo'[t] # todo[t]) =>
                CallSteps(t)' < CallSteps(t)
         /\ pc[Ipc] # "sock"
            /\ (pc'[Ipc] # pc[Ipc] \/ todo'[Ipc] # todo[Ipc] \/ inst' # inst) =>
              RoundSteps' < RoundSteps]_vars
  BY <1>1, <1>2
<1>4. QED
  BY <1>3, Typing, PTL DEF Spec, StepsRunOut
===============================================================================
