---------------------------- MODULE PppClientProofs ----------------------------
(***************************************************************************)
(* Proof that a single interface never has two PPP clients, for every      *)
(* number of threads and of process identifiers and either build.          *)
(***************************************************************************)
EXTENDS PppEventLoopProofs

NoClient == \A p \in Pids : ~Exists(p)

AtMostOne == \A p, q \in Pids : Exists(p) /\ Exists(q) => p = q

\* Where PppMgr_StartPppClient is between its test of the old process and the
\* moment it has recorded the new one, with the mutex held.
Starting == {"busget", "exec", "getpid"}

\* The manager knows the client: it is the one in the entry, unless it is
\* being started.
ClientKnown ==
  NumIfaces = 1 /\ ~missed =>
    /\ pc[Ipc] \in {"busget", "exec"} => NoClient
    /\ pc[Ipc] = "getpid" => AtMostOne
    /\ pc[Ipc] \notin Starting => \A p \in Pids : Exists(p) => entry[1].pid = p

\* With one interface, only the first entry is ever worked on.
LEMMA TheInterface ==
  ASSUME TypeOK, NumIfaces = 1
  PROVE  /\ Ifaces = {1} /\ ev.iface = 1 /\ inst = 1
         /\ \A t \in DmlThreads : call[t].iface = 1
<1>1. Ifaces = {1}
  BY DEF Ifaces
<1>2. ev.iface \in Ifaces
  BY DEF TypeOK, Event, SetEvents, ExecEvents
<1>3. QED
  BY <1>1, <1>2 DEF TypeOK, Calls

\* A step that starts no process, leaves the pid of the entry alone and does
\* not enter or leave the start of a client.
LEMMA ClientKept ==
  ASSUME ClientKnown, missed' = missed,
         \A p \in Pids : Exists(p)' => Exists(p),
         entry'[1].pid = entry[1].pid,
         \/ pc'[Ipc] = pc[Ipc]
         \/ pc[Ipc] \notin Starting /\ pc'[Ipc] \notin Starting
         \/ pc[Ipc] = "busget" /\ pc'[Ipc] \in {"exec", "sock"}
  PROVE  ClientKnown'
  BY DEF ClientKnown, Starting, NoClient, AtMostOne

\* pppoe-stop, and the end of a process, bring no process to life.
LEMMA StopsOnly ==
  ASSUME TypeOK
  PROVE  /\ PppoeStop => \A p \in Pids : Exists(p)' => Exists(p)
         /\ UNCHANGED procVars => \A p \in Pids : Exists(p)' <=> Exists(p)
         /\ \A q \in Pids : proc' = [proc EXCEPT ![q] = "dead"] =>
              /\ \A p \in Pids : Exists(p)' => Exists(p)
              /\ ~Exists(q)'
  BY DEF TypeOK, PppoeStop, Exists, procVars

\* What the handlers write to an entry leaves the pid of the client in it.
LEMMA PidKept ==
  ASSUME NEW e \in Entry, NEW s \in PppStates, NEW a \in PppArgs, NEW w \in BOOLEAN
  PROVE  /\ StateChanged(e, s, a).pid = e.pid
         /\ IpcpParams(e, a).pid = e.pid
         /\ Ipv6cpParams(e, s, a, w).pid = e.pid
<1>1. \A st, c : LET g == LinkChange(e, st, c)
                 IN  /\ g.pid = e.pid
                     /\ \A r : [g EXCEPT !.err = r].pid = e.pid
  BY DEF LinkChange, Entry
<1>2. StateChanged(e, s, a).pid = e.pid
  BY <1>1 DEF StateChanged
<1>3. IpcpParams(e, a).pid = e.pid
  BY DEF IpcpParams, Entry
<1>4. Ipv6cpParams(e, s, a, w).pid = e.pid
  BY DEF Ipv6cpParams, Entry
<1>5. QED
  BY <1>2, <1>3, <1>4

\* What Enable and Disable write to it.
LEMMA PidReset ==
  ASSUME NEW e \in Entry
  PROVE  /\ [e EXCEPT !.enabled = TRUE].pid = e.pid
         /\ SessionReset(e, TRUE).pid = e.pid
         /\ SessionReset(e, FALSE).pid = NoPid
  BY DEF SessionReset, Entry

\* A message that is handled does not change which client the entry has.
LEMMA HandlerPid ==
  ASSUME TypeOK, NumIfaces = 1,
         IpcStateChanged \/ IpcIpcpParams \/ IpcIpv6cpParams
  PROVE  entry'[1].pid = entry[1].pid
<1>1. inst \in Ifaces /\ inst = 1 /\ entry[1] \in Entry
      /\ msg.state \in PppStates /\ msg.arg \in PppArgs
  BY Basics, TheInterface DEF TypeOK, Message
<1>2. CASE IpcStateChanged
  <2>1. StateChanged(entry[1], msg.state, msg.arg).pid = entry[1].pid
    BY <1>1, PidKept
  <2>2. entry'[1] = StateChanged(entry[1], msg.state, msg.arg)
    BY <1>1, <1>2 DEF IpcStateChanged, TypeOK
  <2>3. QED
    BY <2>1, <2>2
<1>3. CASE IpcIpcpParams
  <2>1. IpcpParams(entry[1], msg.arg).pid = entry[1].pid
    BY <1>1, PidKept
  <2>2. entry'[1] = IpcpParams(entry[1], msg.arg)
    BY <1>1, <1>3 DEF IpcIpcpParams, TypeOK
  <2>3. QED
    BY <2>1, <2>2
<1>4. CASE IpcIpv6cpParams
  <2>1. PICK w \in BOOLEAN :
          entry'[1] = Ipv6cpParams(entry[1], msg.state, msg.arg, w)
    BY <1>1, <1>4 DEF IpcIpv6cpParams, TypeOK
  <2>2. Ipv6cpParams(entry[1], msg.state, msg.arg, w).pid = entry[1].pid
    BY <1>1, PidKept
  <2>3. QED
    BY <2>1, <2>2
<1>5. QED
  BY <1>2, <1>3, <1>4

\* A message is handled: the manager knows the same client afterwards.
LEMMA HandlerKeeps ==
  ASSUME TypeOK, ClientKnown, NumIfaces = 1,
         IpcStateChanged \/ IpcIpcpParams \/ IpcIpv6cpParams
  PROVE  ClientKnown'
<1>1. Ipc \in Threads /\ entry'[1].pid = entry[1].pid
  BY Basics, HandlerPid
<1>2. missed' = missed /\ pc[Ipc] \notin Starting /\ pc'[Ipc] \notin Starting
  BY <1>1 DEF IpcStateChanged, IpcIpcpParams, IpcIpv6cpParams, histVars, At,
     Goto, TypeOK, Starting
<1>3. PppoeStop \/ UNCHANGED procVars
  BY DEF IpcStateChanged, IpcIpcpParams, IpcIpv6cpParams, procVars
<1>4. QED
  BY <1>1, <1>2, <1>3, StopsOnly, ClientKept

\* The other steps of the IPC thread outside PppMgr_StartPppClient.
LEMMA RoundKeeps ==
  ASSUME TypeOK, ClientKnown,
         \/ IpcBoot \/ IpcReceive \/ IpcFindPid \/ IpcNoEntry \/ IpcSkipEntry
         \/ IpcSend \/ IpcSendFails \/ IpcSent \/ IpcSettle \/ IpcUnlock
         \/ IpcMqReceive \/ IpcReadWan \/ IpcBusSet \/ IpcWanScan
         \/ IpcStartCrash
  PROVE  ClientKnown'
<1>1. entry' = entry /\ missed' = missed /\ UNCHANGED procVars
  BY DEF IpcBoot, IpcReceive, IpcFindPid, IpcNoEntry, IpcSkipEntry, IpcSend,
     IpcSendFails, IpcSent, IpcSettle, IpcUnlock, IpcMqReceive, IpcReadWan, IpcBusSet,
     IpcWanScan, IpcStartCrash, ifVars, histVars, Passes
<1>2. \/ pc' = pc
      \/ pc[Ipc] \notin Starting /\ pc'[Ipc] \notin Starting
  <2>1. CASE IpcFindPid
    BY <2>1, Basics DEF IpcFindPid, HandlerOf, At, Goto, TypeOK, Starting
  <2>2. CASE ~IpcFindPid
    BY <2>2, Basics DEF IpcBoot, IpcReceive, IpcNoEntry, IpcSkipEntry,
       IpcSend, IpcSendFails, IpcSent, IpcSettle, IpcUnlock, IpcMqReceive, IpcReadWan,
       IpcBusSet, IpcWanScan, IpcStartCrash, NextRound, At, Goto, TypeOK,
       Starting
  <2>3. QED
    BY <2>1, <2>2
<1>3. QED
  BY <1>1, <1>2, StopsOnly, ClientKept

\* PppMgr_checkPidExist: a start goes on only when no client is left, or one is
\* missed from then on because ps could not be run.
LEMMA StartKeeps ==
  ASSUME TypeOK, ClientKnown, NumIfaces = 1, IpcStart
  PROVE  ClientKnown'
<1>1. ev.iface = 1 /\ 1 \in Ifaces /\ entry[1] \in Entry /\ Ipc \in Threads
  BY TheInterface, Basics DEF TypeOK
<1>2. pc[Ipc] = "start" /\ UNCHANGED procVars
  BY DEF IpcStart, At
<1>3. pc'[Ipc] \in {"sock", "busget", "exec"}
  BY <1>1 DEF IpcStart, NextRound, Goto, TypeOK
<1>4. CASE Exists(entry[1].pid)
  <2>1. CASE entry' = entry /\ missed' = missed /\ NextRound
    <3>1. pc'[Ipc] = "sock"
      BY <1>1, <2>1 DEF NextRound, Goto, TypeOK
    <3>2. QED
      BY <1>2, <2>1, <3>1, StopsOnly, ClientKept DEF Starting
  <2>2. CASE missed'
    BY <2>2 DEF ClientKnown
  <2>3. QED
    BY <1>1, <1>4, <2>1, <2>2 DEF IpcStart
<1>5. CASE ~Exists(entry[1].pid)
  <2>0. missed' = missed
    BY <1>1, <1>5 DEF IpcStart, TypeOK
  <2>1. NumIfaces = 1 /\ ~missed => NoClient
    BY <1>2, <1>5 DEF ClientKnown, NoClient, Starting
  <2>2. NumIfaces = 1 /\ ~missed => NoClient'
    BY <1>2, <2>0, <2>1, StopsOnly DEF NoClient
  <2>3. QED
    BY <1>2, <1>3, <2>0, <2>2 DEF ClientKnown, NoClient, Starting
<1>6. QED
  BY <1>4, <1>5

\* From there to the pid of the new client.
LEMMA ExecKeeps ==
  ASSUME TypeOK, ClientKnown, NumIfaces = 1,
         IpcBusGet \/ IpcExec \/ IpcGetPid
  PROVE  ClientKnown'
<1>1. ev.iface = 1 /\ 1 \in Ifaces /\ entry[1] \in Entry /\ Ipc \in Threads
  BY TheInterface, Basics DEF TypeOK
<1>2. CASE IpcBusGet
  <2>1. /\ pc[Ipc] = "busget" /\ pc'[Ipc] \in {"exec", "sock"}
        /\ entry' = entry /\ missed' = missed /\ UNCHANGED procVars
    BY <1>1, <1>2 DEF IpcBusGet, At, Goto, NextRound, TypeOK, histVars
  <2>2. QED
    BY <2>1, StopsOnly, ClientKept
<1>3. CASE IpcExec
  <2>1. pc[Ipc] = "exec" /\ pc'[Ipc] = "getpid" /\ missed' = missed
    BY <1>1, <1>3 DEF IpcExec, At, Goto, TypeOK, histVars
  <2>2. ~missed => NoClient
    BY <2>1 DEF ClientKnown
  <2>3. \/ UNCHANGED procVars
        \/ \E p \in Pids : proc' = [proc EXCEPT ![p] = "running"]
    BY <1>3 DEF IpcExec
  <2>4. NoClient => AtMostOne'
    BY <2>3, StopsOnly DEF NoClient, AtMostOne, Exists, TypeOK
  <2>5. QED
    BY <2>1, <2>2, <2>4 DEF ClientKnown, Starting
<1>4. CASE IpcGetPid
  <2> DEFINE found == {p \in Pids : Exists(p)}
  <2>1. PICK p \in found \cup {NoPid} :
          /\ IF p = NoPid /\ found # {} THEN Fault /\ missed' = TRUE
                                        ELSE UNCHANGED <<nFaults, missed>>
          /\ entry' = [entry EXCEPT ![ev.iface] =
                          [@ EXCEPT !.pid = p, !.wan = TRUE]]
    BY <1>4 DEF IpcGetPid
  <2>2. pc[Ipc] = "getpid" /\ pc'[Ipc] = "sock" /\ UNCHANGED procVars
    BY <1>1, <1>4 DEF IpcGetPid, At, Goto, NextRound, TypeOK
  <2>3. entry'[1].pid = p
    BY <1>1, <2>1 DEF TypeOK, Entry
  <2>4. ~missed' => ~missed /\ (p = NoPid => found = {})
    BY <2>1
  <2>5. ~missed' => \A q \in Pids : Exists(q) => q = p
    BY <2>1, <2>2, <2>4, PidsAssumption DEF ClientKnown, AtMostOne
  <2>6. QED
    BY <2>2, <2>3, <2>5, StopsOnly DEF ClientKnown, Starting
<1>5. QED
  BY <1>2, <1>3, <1>4

\* PppMgr_StopPppClient kills the client the entry knows, or asks every
\* client to end; a client that is being started is out of its reach.
LEMMA StopKeeps ==
  ASSUME TypeOK, MutexInv, ClientKnown, NumIfaces = 1,
         NEW t \in DmlThreads, DmlStop(t)
  PROVE  ClientKnown'
<1>1. /\ call[t].iface = 1 /\ ev.iface = 1 /\ 1 \in Ifaces
      /\ entry[1] \in Entry /\ t \in Threads /\ t # Ipc /\ Ipc \in Threads
  BY TheInterface, Basics DEF TypeOK
<1>2. /\ missed' = missed /\ pc'[Ipc] = pc[Ipc]
      /\ owner[1] \in {NoThread, t}
      /\ entry'[1] = SessionReset(entry[1], ~UsePppDaemon)
  BY <1>1 DEF DmlStop, Goto, TypeOK, histVars, Acquire
<1>3. pc[Ipc] \notin Starting
  BY <1>1, <1>2, Basics DEF MutexInv, Holds, Starting
<1>4. CASE ~UsePppDaemon
  <2>1. PppoeStop /\ entry'[1].pid = entry[1].pid
    BY <1>1, <1>2, <1>4, PidReset, BuildAssumption DEF DmlStop
  <2>2. QED
    BY <1>2, <2>1, StopsOnly, ClientKept
<1>5. CASE UsePppDaemon
  <2>1. entry'[1].pid = NoPid
    BY <1>1, <1>2, <1>5, PidReset
  <2>2. CASE entry[1].pid = NoPid
    <3>1. UNCHANGED procVars
      BY <1>1, <1>5, <2>2 DEF DmlStop
    <3>2. QED
      BY <1>2, <2>1, <2>2, <3>1, StopsOnly, ClientKept
  <2>3. CASE entry[1].pid # NoPid
    <3>1. entry[1].pid \in Pids
      BY <1>1, <2>3 DEF Entry
    <3>2. proc' = [proc EXCEPT ![entry[1].pid] = "dead"]
      BY <1>1, <1>5, <2>3 DEF DmlStop
    <3>3. /\ \A p \in Pids : Exists(p)' => Exists(p)
          /\ (\A p \in Pids : p = entry[1].pid => ~Exists(p)')
      BY <3>1, <3>2, StopsOnly
    <3>4. ~missed => \A p \in Pids : ~Exists(p)'
      BY <1>3, <3>3 DEF ClientKnown
    <3>5. QED
      BY <1>2, <1>3, <3>4 DEF ClientKnown, Starting
  <2>4. QED
    BY <2>2, <2>3
<1>6. QED
  BY <1>4, <1>5, BuildAssumption

\* The other steps of a data model call.
LEMMA DmlClientKeeps ==
  ASSUME TypeOK, ClientKnown, NumIfaces = 1, NEW t \in DmlThreads,
         DmlCall(t) \/ DmlRun(t), ~DmlStop(t)
  PROVE  ClientKnown'
<1>1. /\ call[t].iface = 1 /\ 1 \in Ifaces /\ entry[1] \in Entry /\ t # Ipc
  BY TheInterface, Basics DEF TypeOK
<1>2. missed' = missed /\ UNCHANGED procVars /\ pc'[Ipc] = pc[Ipc]
  BY <1>1, Basics DEF DmlCall, DmlRun, DmlLock, DmlDispatch, DmlStopped,
     DmlSend, DmlSent, DmlStart, DmlExecSend, DmlExecSent, DmlExecSendFails,
     DmlNoEntry, DmlReturn, Goto, TypeOK, histVars
<1>3. \/ entry' = entry
      \/ entry' = [entry EXCEPT ![call[t].iface] = [@ EXCEPT !.enabled = TRUE]]
  BY DEF DmlCall, DmlRun, DmlLock, DmlDispatch, DmlStopped, DmlSend, DmlSent,
     DmlStart, DmlExecSend, DmlExecSent, DmlExecSendFails, DmlNoEntry,
     DmlReturn, ifVars
<1>4. entry'[1] \in {entry[1], [entry[1] EXCEPT !.enabled = TRUE]}
  BY <1>1, <1>3 DEF TypeOK
<1>5. entry'[1].pid = entry[1].pid
  BY <1>1, <1>4, PidReset
<1>6. QED
  BY <1>2, <1>5, StopsOnly, ClientKept

LEMMA NextKnows ==
  TypeOK /\ MutexInv /\ ClientKnown /\ [Next]_vars => ClientKnown'
<1> SUFFICES ASSUME TypeOK, MutexInv, ClientKnown, [Next]_vars
             PROVE  ClientKnown'
  OBVIOUS
<1>1. CASE NumIfaces # 1
  BY <1>1 DEF ClientKnown
<1>2. CASE NumIfaces = 1
  <2>1. CASE IpcStep
    BY <1>2, <2>1, HandlerKeeps, RoundKeeps, StartKeeps, ExecKeeps DEF IpcStep
  <2>2. ASSUME NEW t \in DmlThreads, DmlCall(t) \/ DmlRun(t)
        PROVE  ClientKnown'
    BY <1>2, <2>2, StopKeeps, DmlClientKeeps
  <2>3. ASSUME NEW p \in Pids, ClientSends(p)
        PROVE  ClientKnown'
    <3>1. UNCHANGED <<entry, missed, pc, proc, client>>
      BY <2>3 DEF ClientSends, ifVars, histVars, procVars
    <3>2. QED
      BY <3>1, StopsOnly, ClientKept DEF procVars
  <2>4. ASSUME NEW p \in Pids, ClientExits(p)
        PROVE  ClientKnown'
    <3>1. UNCHANGED <<entry, missed, pc>> /\ proc' = [proc EXCEPT ![p] = "dead"]
      BY <2>4 DEF ClientExits, ifVars, histVars
    <3>2. QED
      BY <3>1, StopsOnly, ClientKept
  <2>5. CASE Halted \/ UNCHANGED vars
    <3>1. UNCHANGED <<entry, missed, pc, proc, client>>
      BY <2>5 DEF Halted, vars
    <3>2. QED
      BY <3>1, StopsOnly, ClientKept DEF procVars
  <2>6. QED
    BY <2>1, <2>2, <2>3, <2>4, <2>5 DEF Next
<1>3. QED
  BY <1>1, <1>2

LEMMA InitKnows == Init => ClientKnown
<1> SUFFICES ASSUME Init PROVE ClientKnown
  OBVIOUS
<1>1. \A p \in Pids : ~Exists(p)
  BY DEF Init, Exists
<1>2. QED
  BY <1>1 DEF ClientKnown, NoClient, AtMostOne

\* ClientKnown is inductive with the mutex: nothing is started, and no entry
\* loses its client, behind the back of PppMgr_StartPppClient.
THEOREM ClientIsKnown == Spec => []ClientKnown
<1>1. Init => ClientKnown
  BY InitKnows
<1>2. TypeOK /\ MutexInv /\ ClientKnown /\ [Next]_vars => ClientKnown'
  BY NextKnows
<1>3. QED
  BY <1>1, <1>2, Typing, MutexIsInductive, PTL DEF Spec

\* A single interface never has two clients, unless PppMgr_getPppPid or
\* PppMgr_checkPidExist missed one that was running.
THEOREM SingleClient == Spec => []OneClient
<1>1. ClientKnown => OneClient
  BY DEF ClientKnown, OneClient, NoClient, AtMostOne, Starting
<1>2. QED
  BY <1>1, ClientIsKnown, PTL
================================================================================
