--------------------------- MODULE PppReportsProofs ---------------------------
(***************************************************************************)
(* Proof that the event loop implements the channel of ReportChannel, for  *)
(* every number of interfaces, threads and clients, every capacity of the  *)
(* queue and either build, and what follows for what WanManager is told.   *)
(***************************************************************************)
EXTENDS PppReports, PppEventLoopProofs

\* The event in the hands of the IPC thread.
InHand == IF pc[Ipc] \in {"read", "set"} THEN <<ev>> ELSE << >>

-----------------------------------------------------------------------------

\* The events of the event loop are those of the channel.
LEMMA SameEvents == Event = Channel!Event
  BY DEF Event, SetEvents, ExecEvents, Channel!Event, Channel!Reports,
     Channel!Orders

\* An event before the queue is the oldest one on its way.
LEMMA Oldest ==
  ASSUME NEW e \in Event, NEW q \in Seq(Event)
  PROVE  /\ <<e>> \o q # << >>
         /\ Head(<<e>> \o q) = e
         /\ Tail(<<e>> \o q) = q
         /\ << >> \o q = q
<1>1. /\ <<e>> \in Seq(Event) /\ Len(<<e>>) = 1
      /\ <<e>> \o q \in Seq(Event) /\ Len(<<e>> \o q) = 1 + Len(q)
      /\ \A n \in 1 .. Len(<<e>> \o q) :
           (<<e>> \o q)[n] = IF n = 1 THEN e ELSE q[n - 1]
  BY ConcatProperties, LenProperties
<1>2. << >> \o q = q
  BY ConcatEmptySeq
<1>3. <<e>> \o q # << >> /\ Head(<<e>> \o q) = e
  BY <1>1, LenProperties
<1>4. Tail(<<e>> \o q) = q
  <2>1. /\ Tail(<<e>> \o q) \in Seq(Event)
        /\ Len(Tail(<<e>> \o q)) = Len(q)
        /\ \A n \in 1 .. Len(q) : Tail(<<e>> \o q)[n] = q[n]
    BY <1>1, <1>3, HeadTailProperties, LenProperties
  <2>2. QED
    BY <2>1, SeqEqual
<1>5. QED
  BY <1>2, <1>3, <1>4

\* An event that is sent to the queue is the youngest one on its way.
LEMMA Youngest ==
  ASSUME NEW h \in Seq(Event), NEW q \in Seq(Event), NEW e \in Event
  PROVE  h \o Append(q, e) = Append(h \o q, e)
  BY AppendIsConcat, ConcatAssociative, ConcatProperties

\* What is on its way is a sequence of events.
LEMMA InFlightTyping ==
  ASSUME TypeOK
  PROVE  /\ InFlight = InHand \o queue
         /\ InHand \in Seq(Event) /\ queue \in Seq(Event)
         /\ InFlight \in Seq(Event)
<1>1. ev \in Event /\ queue \in Seq(Event)
  BY DEF TypeOK
<1>2. InHand \in Seq(Event)
  BY <1>1 DEF InHand
<1>3. InFlight = InHand \o queue
  BY DEF InFlight, InHand
<1>4. QED
  BY <1>1, <1>2, <1>3, ConcatProperties

-----------------------------------------------------------------------------
(* The kinds of steps.                                                     *)

\* A step that touches none of these leaves the channel alone.
Unseen == UNCHANGED <<InHand, queue, posted, wan, SetLost>>

LEMMA Stutters ==
  ASSUME TypeOK, TypeOK', Unseen
  PROVE  UNCHANGED Channel!chanVars
  BY DEF Unseen, InFlight, InHand, Channel!chanVars

\* An event that comes to the end of the queue is a report.
LEMMA AppendReports ==
  ASSUME TypeOK, TypeOK', NEW e \in Event, queue' = Append(queue, e),
         posted' = IF e.act = "BUS_SET"
                   THEN [posted EXCEPT ![e.iface][e.key] = e.val] ELSE posted,
         UNCHANGED <<InHand, wan, SetLost>>
  PROVE  Channel!ChannelNext
<1>1. InFlight' = Append(InFlight, e)
  <2>1. InFlight' = InHand' \o queue'
    BY DEF InFlight, InHand
  <2>2. InFlight = InHand \o queue /\ InHand \in Seq(Event)
        /\ queue \in Seq(Event)
    BY InFlightTyping
  <2>3. QED
    BY <2>1, <2>2, Youngest
<1>2. Channel!Report(e)
  BY <1>1 DEF Channel!Report, Channel!IsReport, Channel!With
<1>3. QED
  BY <1>2, SameEvents DEF Channel!ChannelNext

\* A send of PppMgr_SendDataToQ is a report.
LEMMA SendReports ==
  ASSUME TypeOK, TypeOK', NEW t \in Threads, Send(t),
         UNCHANGED <<InHand, wan, SetLost>>
  PROVE  Channel!ChannelNext
<1>1. todo[t] \in Seq(Event) /\ todo[t] # << >>
  BY DEF TypeOK, Send
<1>2. Head(todo[t]) \in Event
  BY <1>1, Dequeue
<1>3. QED
  BY <1>2, AppendReports DEF Send

\* The receive of mq_receive moves the event and changes nothing else, unless
\* it is an order to start a client.
LEMMA ReceiveTakes ==
  ASSUME TypeOK, TypeOK', IpcMqReceive
  PROVE  [Channel!ChannelNext]_Channel!chanVars
<1>1. /\ InHand = << >>
      /\ UNCHANGED <<posted, wan, SetLost>>
  BY DEF IpcMqReceive, At, InHand, wanVars, histVars, SetLost
<1>2. InFlight = queue /\ queue \in Seq(Event)
  <2>1. InFlight = << >> \o queue /\ queue \in Seq(Event)
    BY <1>1, InFlightTyping
  <2>2. QED
    BY <2>1, ConcatEmptySeq
<1>3. CASE queue = << >> /\ NextRound /\ UNCHANGED queue
  <2>1. pc'[Ipc] = "sock"
    BY <1>3, Basics DEF NextRound, Goto, TypeOK
  <2>2. Unseen
    BY <1>1, <1>3, <2>1 DEF Unseen, InHand
  <2>3. QED
    BY <2>2, Stutters
<1>4. CASE /\ queue # << >> /\ ev' = Head(queue) /\ queue' = Tail(queue)
           /\ Goto(Ipc, IF Head(queue).act = "BUS_SET" THEN "read"
                                                       ELSE "wanscan")
  <2>1. /\ Head(queue) \in Event /\ Tail(queue) \in Seq(Event)
        /\ queue = <<Head(queue)>> \o Tail(queue)
    BY <1>2, <1>4, Dequeue, HeadTailProperties
  <2>2. CASE Head(queue).act = "BUS_SET"
    <3>1. pc'[Ipc] = "read"
      BY <1>4, <2>2, Basics DEF Goto, TypeOK
    <3>2. InFlight' = <<Head(queue)>> \o Tail(queue)
      BY <1>4, <3>1 DEF InFlight
    <3>3. UNCHANGED Channel!chanVars
      BY <1>1, <1>2, <2>1, <3>2 DEF Channel!chanVars
    <3>4. QED
      BY <3>3
  <2>3. CASE Head(queue).act # "BUS_SET"
    <3>1. pc'[Ipc] = "wanscan"
      BY <1>4, <2>3, Basics DEF Goto, TypeOK
    <3>2. InFlight' = Tail(queue)
      <4>1. InFlight' = << >> \o Tail(queue)
        BY <1>4, <3>1 DEF InFlight
      <4>2. QED
        BY <2>1, <4>1, ConcatEmptySeq
    <3>3. Channel!Take
      BY <1>1, <1>2, <1>4, <2>3, <3>2 DEF Channel!Take, Channel!IsReport
    <3>4. QED
      BY <3>3 DEF Channel!ChannelNext
  <2>4. QED
    BY <2>2, <2>3
<1>5. QED
  BY <1>3, <1>4 DEF IpcMqReceive

\* DmlWanmanagerSetParamValues delivers the event in hand or loses it; that
\* an event in hand is a set is an invariant of its own.
LEMMA SetDelivers ==
  ASSUME TypeOK, TypeOK', IpcBusSet, ev.act = "BUS_SET"
  PROVE  Channel!ChannelNext
<1>1. pc[Ipc] = "set" /\ ev \in Event /\ queue \in Seq(Event)
  BY DEF IpcBusSet, At, TypeOK
<1>2. InFlight = <<ev>> \o queue
  BY <1>1 DEF InFlight
<1>3. pc'[Ipc] = "sock" /\ queue' = queue
  BY Basics DEF IpcBusSet, NextRound, Goto, TypeOK
<1>4. InFlight' = << >> \o queue
  BY <1>3 DEF InFlight
<1>5. /\ InFlight # << >> /\ Head(InFlight) = ev /\ InFlight' = Tail(InFlight)
  BY <1>1, <1>2, <1>4, Oldest
<1>6. posted' = posted
  BY DEF IpcBusSet
<1>7. CASE wan' = [wan EXCEPT ![ev.iface][ev.key] = ev.val] /\ UNCHANGED lost
  <2>1. Channel!Deliver
    BY <1>5, <1>6, <1>7 DEF Channel!Deliver, Channel!IsReport, Channel!With,
       SetLost
  <2>2. QED
    BY <2>1 DEF Channel!ChannelNext
<1>8. CASE /\ lost' = [lost EXCEPT ![ev.iface] = @ \cup {"set"}]
           /\ UNCHANGED wan
  <2>1. ev.iface \in Ifaces /\ lost \in [Ifaces -> SUBSET {"post", "set", "duid"}]
    BY <1>1 DEF Event, SetEvents, ExecEvents, TypeOK
  <2>2. SetLost' = SetLost \cup {ev.iface}
    BY <1>8, <2>1 DEF SetLost
  <2>3. Channel!Lose
    BY <1>5, <1>6, <1>8, <2>2 DEF Channel!Lose, Channel!IsReport
  <2>4. QED
    BY <2>3 DEF Channel!ChannelNext
<1>9. QED
  BY <1>7, <1>8 DEF IpcBusSet

\* Something other than a set was lost.
LEMMA LostElsewhere ==
  ASSUME TypeOK, NEW i \in Ifaces, NEW x \in {"post", "duid"},
         lost' = [lost EXCEPT ![i] = @ \cup {x}]
  PROVE  SetLost' = SetLost
  BY DEF TypeOK, SetLost

\* A send that fails loses nothing that was on its way.
LEMMA SendFailsUnseen ==
  ASSUME TypeOK, NEW t \in Threads, SendFails(t)
  PROVE  SetLost' = SetLost
<1>1. todo[t] \in Seq(Event) /\ todo[t] # << >>
  BY DEF TypeOK, SendFails
<1>2. Head(todo[t]) \in Event
  BY <1>1, Dequeue
<1>3. Head(todo[t]).iface \in Ifaces
  BY <1>2 DEF Event, SetEvents, ExecEvents
<1>4. QED
  BY <1>3, LostElsewhere DEF SendFails, SetLost

-----------------------------------------------------------------------------
(* Every step.                                                             *)

\* The event in hand is a report: an order to start a client goes elsewhere.
HandHoldsReport == pc[Ipc] \in {"read", "set"} => ev.act = "BUS_SET"

\* Where a step of another thread than IPC leaves IPC.
LEMMA OtherGoto ==
  ASSUME TypeOK, NEW t \in DmlThreads, NEW l, Goto(t, l) \/ UNCHANGED pc
  PROVE  pc'[Ipc] = pc[Ipc]
  BY Basics DEF TypeOK, Goto

\* Where a step of IPC takes it.
LEMMA IpcGoto ==
  ASSUME TypeOK, NEW l, Goto(Ipc, l)
  PROVE  pc'[Ipc] = l
  BY Basics DEF TypeOK, Goto

\* The steps of the IPC thread that are not a step of the channel.
LEMMA IpcUnseen ==
  ASSUME TypeOK, IpcStep, ~IpcSend, ~IpcMqReceive, ~IpcBusSet
  PROVE  Unseen
<1>1. CASE \/ IpcBoot \/ IpcReceive \/ IpcStateChanged \/ IpcIpcpParams
           \/ IpcNoEntry \/ IpcSkipEntry \/ IpcSent \/ IpcSettle \/ IpcUnlock
  <2>1. UNCHANGED <<queue, posted, lost, wan>>
    BY <1>1 DEF IpcBoot, IpcReceive, IpcStateChanged, IpcIpcpParams,
       IpcNoEntry, IpcSkipEntry, IpcSent, IpcSettle, IpcUnlock, wanVars, histVars
  <2>2. /\ pc[Ipc] \notin {"read", "set"}
        /\ \/ UNCHANGED pc
           \/ \E l \in {"sock", "exited", "mq", "find", "post", "settle",
                        "unlock"} : Goto(Ipc, l)
    BY <1>1 DEF IpcBoot, IpcReceive, IpcStateChanged, IpcIpcpParams,
       IpcNoEntry, IpcSkipEntry, IpcSent, IpcSettle, IpcUnlock, At
  <2>3. pc'[Ipc] \notin {"read", "set"}
    BY <2>2, IpcGoto
  <2>4. QED
    BY <2>1, <2>2, <2>3 DEF Unseen, InHand, SetLost
<1>2. CASE IpcFindPid
  <2>1. UNCHANGED <<queue, posted, lost, wan>>
    BY <1>2 DEF IpcFindPid, wanVars, histVars
  <2>2. HandlerOf(msg) \notin {"read", "set"}
    BY DEF HandlerOf
  <2>3. /\ pc[Ipc] \notin {"read", "set"}
        /\ \/ Goto(Ipc, HandlerOf(msg)) \/ Goto(Ipc, "mq") \/ UNCHANGED pc
    BY <1>2 DEF IpcFindPid, At
  <2>4. pc'[Ipc] \notin {"read", "set"}
    BY <2>2, <2>3, IpcGoto
  <2>5. QED
    BY <2>1, <2>3, <2>4 DEF Unseen, InHand, SetLost
<1>3. CASE IpcIpv6cpParams
  <2>1. UNCHANGED <<queue, posted, wan>>
    BY <1>3 DEF IpcIpv6cpParams, wanVars
  <2>2. pc[Ipc] = "ipv6cp" /\ pc'[Ipc] = "post"
    BY <1>3, IpcGoto DEF IpcIpv6cpParams, At
  <2>3. SetLost' = SetLost
    BY <1>3, LostElsewhere DEF IpcIpv6cpParams, TypeOK, SetLost
  <2>4. QED
    BY <2>1, <2>2, <2>3 DEF Unseen, InHand
<1>4. CASE IpcSendFails
  <2>1. UNCHANGED <<queue, posted, wan>>
    BY <1>4 DEF IpcSendFails, wanVars
  <2>2. pc[Ipc] \in {"post", "upost"} /\ pc'[Ipc] \in {"unlock", "mq"}
    BY <1>4, IpcGoto DEF IpcSendFails, At
  <2>3. SetLost' = SetLost
    BY <1>4, Basics, SendFailsUnseen DEF IpcSendFails
  <2>4. QED
    BY <2>1, <2>2, <2>3 DEF Unseen, InHand
<1>5. CASE IpcReadWan
  <2>1. UNCHANGED <<queue, posted, lost, wan, ev>>
    BY <1>5 DEF IpcReadWan, wanVars, histVars
  <2>2. pc[Ipc] = "read" /\ pc'[Ipc] = "set"
    BY <1>5, IpcGoto DEF IpcReadWan, At
  <2>3. QED
    BY <2>1, <2>2 DEF Unseen, InHand, SetLost
<1>6. CASE \/ IpcWanScan \/ IpcStart \/ IpcStartCrash \/ IpcBusGet \/ IpcExec
           \/ IpcGetPid
  <2>1. UNCHANGED <<queue, posted, lost, wan>>
    BY <1>6 DEF IpcWanScan, IpcStart, IpcStartCrash, IpcBusGet, IpcExec,
       IpcGetPid, wanVars, histVars
  <2>2. pc[Ipc] \notin {"read", "set"}
    BY <1>6 DEF IpcWanScan, IpcStart, IpcStartCrash, IpcBusGet, IpcExec,
       IpcGetPid, At
  <2>3. \/ UNCHANGED pc
        \/ \E l \in {"start", "sock", "busget", "exec", "getpid"} : Goto(Ipc, l)
    <3>1. CASE IpcWanScan
      BY <3>1 DEF IpcWanScan, NextRound
    <3>2. CASE IpcStart
      BY <3>2 DEF IpcStart, NextRound
    <3>3. CASE IpcStartCrash \/ IpcExec
      BY <3>3 DEF IpcStartCrash, IpcExec
    <3>4. CASE IpcBusGet
      BY <3>4 DEF IpcBusGet, NextRound
    <3>5. CASE IpcGetPid
      BY <3>5 DEF IpcGetPid, NextRound
    <3>6. QED
      BY <1>6, <3>1, <3>2, <3>3, <3>4, <3>5
  <2>4. pc'[Ipc] \notin {"read", "set"}
    BY <2>2, <2>3, IpcGoto
  <2>5. QED
    BY <2>1, <2>2, <2>4 DEF Unseen, InHand, SetLost
<1>7. QED
  BY <1>1, <1>2, <1>3, <1>4, <1>5, <1>6 DEF IpcStep

\* Those of a bus thread.
LEMMA DmlUnseen ==
  ASSUME TypeOK, NEW t \in DmlThreads, DmlCall(t) \/ DmlRun(t),
         ~Send(t) \/ ~(DmlSend(t) \/ DmlExecSend(t))
  PROVE  Unseen
<1>1. CASE \/ DmlCall(t) \/ DmlLock(t) \/ DmlDispatch(t) \/ DmlStop(t)
           \/ DmlStopped(t) \/ DmlSent(t)
  <2>1. UNCHANGED <<queue, ev, posted, lost, wan>>
    BY <1>1 DEF DmlCall, DmlLock, DmlDispatch, DmlStop, DmlStopped, DmlSent,
       ipcVars, wanVars, histVars
  <2>2. \E l : Goto(t, l)
    BY <1>1 DEF DmlCall, DmlLock, DmlDispatch, DmlStop, DmlStopped, DmlSent
  <2>3. pc'[Ipc] = pc[Ipc]
    BY <2>2, OtherGoto
  <2>4. QED
    BY <2>1, <2>3 DEF Unseen, InHand, SetLost
<1>2. CASE DmlStart(t) \/ DmlExecSent(t) \/ DmlNoEntry(t) \/ DmlReturn(t)
  <2>1. UNCHANGED <<queue, ev, posted, lost, wan>>
    BY <1>2 DEF DmlStart, DmlExecSent, DmlNoEntry, DmlReturn, ipcVars, wanVars,
       histVars
  <2>2. \E l : Goto(t, l)
    BY <1>2 DEF DmlStart, DmlExecSent, DmlNoEntry, DmlReturn
  <2>3. pc'[Ipc] = pc[Ipc]
    BY <2>2, OtherGoto
  <2>4. QED
    BY <2>1, <2>3 DEF Unseen, InHand, SetLost
<1>3. CASE DmlSend(t) /\ ~Send(t)
  <2>1. UNCHANGED <<queue, ev, posted, wan, pc>> /\ SendFails(t)
    BY <1>3 DEF DmlSend, ipcVars, wanVars
  <2>2. SetLost' = SetLost
    BY <2>1, Basics, SendFailsUnseen
  <2>3. QED
    BY <2>1, <2>2 DEF Unseen, InHand
<1>4. CASE DmlExecSendFails(t)
  <2>1. UNCHANGED <<queue, ev, posted, wan>> /\ SendFails(t)
        /\ Goto(t, "return")
    BY <1>4 DEF DmlExecSendFails, ipcVars, wanVars
  <2>2. SetLost' = SetLost
    BY <2>1, Basics, SendFailsUnseen
  <2>3. pc'[Ipc] = pc[Ipc]
    BY <2>1, OtherGoto
  <2>4. QED
    BY <2>1, <2>2, <2>3 DEF Unseen, InHand
<1>5. CASE DmlExecSend(t) /\ ~Send(t)
  BY <1>5 DEF DmlExecSend
<1>6. QED
  BY <1>1, <1>2, <1>3, <1>4, <1>5 DEF DmlRun

\* The sends of the three functions that send.
LEMMA SendSteps ==
  ASSUME TypeOK, NEW t \in Threads, Send(t),
         \/ t = Ipc /\ IpcSend
         \/ t \in DmlThreads /\ (DmlSend(t) \/ DmlExecSend(t))
  PROVE  UNCHANGED <<InHand, wan, SetLost>>
<1>1. CASE t = Ipc /\ IpcSend
  BY <1>1 DEF IpcSend, InHand, SetLost, ipcVars, wanVars
<1>2. CASE t \in DmlThreads /\ DmlExecSend(t)
  BY <1>2 DEF DmlExecSend, InHand, SetLost, ipcVars, wanVars
<1>3. CASE t \in DmlThreads /\ DmlSend(t)
  <2>1. UNCHANGED <<pc, ev, wan>>
    BY <1>3 DEF DmlSend, ipcVars, wanVars
  <2>2. UNCHANGED lost \/ SendFails(t)
    BY <1>3 DEF DmlSend
  <2>3. SetLost' = SetLost
    BY <2>2, SendFailsUnseen DEF SetLost
  <2>4. QED
    BY <2>1, <2>3 DEF InHand
<1>4. QED
  BY <1>1, <1>2, <1>3

\* A step of the program is a step of the channel or none.
LEMMA StepsImplement ==
  ASSUME TypeOK, TypeOK', HandHoldsReport, [Next]_vars
  PROVE  [Channel!ChannelNext]_Channel!chanVars
<1>1. CASE IpcSend
  BY <1>1, SendSteps, SendReports, Basics DEF IpcSend
<1>2. CASE IpcMqReceive
  BY <1>2, ReceiveTakes
<1>3. CASE IpcBusSet
  BY <1>3, SetDelivers DEF HandHoldsReport, IpcBusSet, At
<1>4. CASE IpcStep /\ ~IpcSend /\ ~IpcMqReceive /\ ~IpcBusSet
  BY <1>4, IpcUnseen, Stutters
<1>5. ASSUME NEW t \in DmlThreads, DmlCall(t) \/ DmlRun(t)
      PROVE  [Channel!ChannelNext]_Channel!chanVars
  <2>1. CASE Send(t) /\ (DmlSend(t) \/ DmlExecSend(t))
    BY <2>1, Basics, SendSteps, SendReports
  <2>2. CASE ~Send(t) \/ ~(DmlSend(t) \/ DmlExecSend(t))
    BY <1>5, <2>2, DmlUnseen, Stutters
  <2>3. QED
    BY <2>1, <2>2
<1>6. ASSUME NEW p \in Pids, ClientSends(p) \/ ClientExits(p)
      PROVE  [Channel!ChannelNext]_Channel!chanVars
  <2>1. UNCHANGED <<queue, pc, ev, posted, lost, wan>>
    BY <1>6 DEF ClientSends, ClientExits, ipcVars, wanVars, histVars
  <2>2. QED
    BY <2>1, Stutters DEF Unseen, InHand, SetLost
<1>7. CASE Halted \/ UNCHANGED vars
  <2>1. UNCHANGED <<queue, pc, ev, posted, lost, wan>>
    BY <1>7 DEF Halted, vars
  <2>2. QED
    BY <2>1, Stutters DEF Unseen, InHand, SetLost
<1>8. QED
  BY <1>1, <1>2, <1>3, <1>4, <1>5, <1>6, <1>7 DEF Next

\* What the IPC thread takes in hand is a report, and stays one.
LEMMA HandStep == TypeOK /\ HandHoldsReport /\ [Next]_vars => HandHoldsReport'
<1> SUFFICES ASSUME TypeOK, HandHoldsReport, [Next]_vars
             PROVE  HandHoldsReport'
  OBVIOUS
<1>1. ASSUME UNCHANGED InHand PROVE HandHoldsReport'
  <2>1. ASSUME pc'[Ipc] \in {"read", "set"} PROVE ev'.act = "BUS_SET"
    <3>1. InHand = <<ev'>>
      BY <1>1, <2>1 DEF InHand
    <3>2. pc[Ipc] \in {"read", "set"} /\ <<ev>> = <<ev'>>
      BY <3>1 DEF InHand
    <3>3. QED
      BY <3>2 DEF HandHoldsReport
  <2>2. QED
    BY <2>1 DEF HandHoldsReport
<1>2. CASE IpcSend
  BY <1>1, <1>2, SendSteps, Basics DEF IpcSend
<1>3. CASE IpcMqReceive
  <2>1. \/ NextRound
        \/ /\ ev' = Head(queue)
           /\ Goto(Ipc, IF Head(queue).act = "BUS_SET" THEN "read"
                                                       ELSE "wanscan")
    BY <1>3 DEF IpcMqReceive
  <2>2. \/ pc'[Ipc] \in {"sock", "wanscan"}
        \/ ev'.act = "BUS_SET"
    BY <2>1, IpcGoto DEF NextRound
  <2>3. QED
    BY <2>2 DEF HandHoldsReport
<1>4. CASE IpcBusSet
  <2>1. pc'[Ipc] = "sock"
    BY <1>4, IpcGoto DEF IpcBusSet, NextRound
  <2>2. QED
    BY <2>1 DEF HandHoldsReport
<1>5. CASE IpcStep /\ ~IpcSend /\ ~IpcMqReceive /\ ~IpcBusSet
  BY <1>1, <1>5, IpcUnseen DEF Unseen
<1>6. ASSUME NEW t \in DmlThreads, DmlCall(t) \/ DmlRun(t)
      PROVE  HandHoldsReport'
  <2>1. CASE Send(t) /\ (DmlSend(t) \/ DmlExecSend(t))
    BY <1>1, <2>1, Basics, SendSteps
  <2>2. CASE ~Send(t) \/ ~(DmlSend(t) \/ DmlExecSend(t))
    BY <1>1, <1>6, <2>2, DmlUnseen DEF Unseen
  <2>3. QED
    BY <2>1, <2>2
<1>7. ASSUME NEW p \in Pids, ClientSends(p) \/ ClientExits(p)
      PROVE  HandHoldsReport'
  BY <1>7 DEF ClientSends, ClientExits, ipcVars, HandHoldsReport
<1>8. CASE Halted \/ UNCHANGED vars
  BY <1>8 DEF Halted, vars, HandHoldsReport
<1>9. QED
  BY <1>2, <1>3, <1>4, <1>5, <1>6, <1>7, <1>8 DEF Next

-----------------------------------------------------------------------------
(* The theorems.                                                           *)

LEMMA InitImplements == Init => Channel!ChannelInit /\ HandHoldsReport
<1> SUFFICES ASSUME Init PROVE Channel!ChannelInit /\ HandHoldsReport
  OBVIOUS
<1>1. pc[Ipc] = "boot" /\ queue = << >>
  BY Basics DEF Init
<1>2. InFlight = << >>
  BY <1>1, ConcatEmptySeq DEF InFlight
<1>3. SetLost = {}
  BY DEF Init, SetLost
<1>4. QED
  BY <1>1, <1>2, <1>3 DEF Init, Channel!ChannelInit, HandHoldsReport

\* The event loop implements the channel: every step of its threads is one
\* report, one delivery, one loss, or nothing that the channel shows.
THEOREM Implements == Spec => ImplementsChannel
  BY InitImplements, HandStep, StepsImplement, Typing, PTL
     DEF Spec, ImplementsChannel, Channel!ChannelSpec

\* The set of the places where the value of a parameter is on its way, of
\* which LastOnTheWay takes the last.
LEMMA LastPlace ==
  ASSUME NEW s \in Seq(Event), NEW i \in Ifaces, NEW k \in Keys,
         NEW n \in 1 .. Len(s), Channel!About(s[n], i, k),
         \A m \in n + 1 .. Len(s) : ~Channel!About(s[m], i, k)
  PROVE  LET S == {m \in 1 .. Len(s) : /\ s[m].act = "BUS_SET"
                                       /\ s[m].iface = i
                                       /\ s[m].key = k}
         IN  S # {} /\ (CHOOSE m \in S : \A l \in S : l <= m) = n
<1> DEFINE S == {m \in 1 .. Len(s) : /\ s[m].act = "BUS_SET"
                                     /\ s[m].iface = i
                                     /\ s[m].key = k}
<1>1. \A m \in 1 .. Len(s) : m \in S <=> Channel!About(s[m], i, k)
  BY DEF Channel!About, Channel!IsReport
<1>2. n \in S /\ \A l \in S : l <= n
  BY <1>1
<1>3. \A m \in S : (\A l \in S : l <= m) => m = n
  BY <1>2
<1> HIDE DEF S
<1>4. (CHOOSE m \in S : \A l \in S : l <= m) = n
  BY <1>2, <1>3
<1>5. QED
  BY <1>2, <1>4 DEF S

\* The promise of the channel is that of DeliveredInOrder.
LEMMA LastIsDelivered ==
  ASSUME TypeOK, Channel!LastIsSent
  PROVE  DeliveredInOrder
<1> SUFFICES ASSUME NEW i \in Ifaces, NEW k \in Keys, "set" \notin lost[i]
             PROVE  LastOnTheWay(i, k) = posted[i][k]
  BY DEF DeliveredInOrder
<1>1. i \in Ifaces \ SetLost /\ InFlight \in Seq(Event)
  BY InFlightTyping DEF SetLost
<1>2. CASE /\ wan[i][k] = posted[i][k]
           /\ \A n \in 1 .. Len(InFlight) : ~Channel!About(InFlight[n], i, k)
  <2>1. {n \in 1 .. Len(InFlight) : /\ InFlight[n].act = "BUS_SET"
                                    /\ InFlight[n].iface = i
                                    /\ InFlight[n].key = k} = {}
    BY <1>2 DEF Channel!About, Channel!IsReport
  <2>2. QED
    BY <1>2, <2>1 DEF LastOnTheWay
<1>3. ASSUME NEW n \in 1 .. Len(InFlight),
             Channel!About(InFlight[n], i, k),
             InFlight[n].val = posted[i][k],
             \A m \in n + 1 .. Len(InFlight) :
               ~Channel!About(InFlight[m], i, k)
      PROVE  LastOnTheWay(i, k) = posted[i][k]
  <2> DEFINE S == {m \in 1 .. Len(InFlight) : /\ InFlight[m].act = "BUS_SET"
                                              /\ InFlight[m].iface = i
                                              /\ InFlight[m].key = k}
  <2>1. S # {} /\ (CHOOSE m \in S : \A l \in S : l <= m) = n
    BY <1>1, <1>3, LastPlace
  <2>2. LastOnTheWay(i, k) =
          IF S = {} THEN wan[i][k]
          ELSE InFlight[CHOOSE m \in S : \A l \in S : l <= m].val
    BY DEF LastOnTheWay
  <2> HIDE DEF S
  <2>3. QED
    BY <1>3, <2>1, <2>2
<1>4. QED
  BY <1>1, <1>2, <1>3 DEF Channel!LastIsSent

\* Unless a set failed, WanManager has, or will have, what was sent last.
THEOREM InOrder == Spec => []DeliveredInOrder
<1>1. Channel!ChannelSpec => [](Channel!ChannelTypeOK /\ Channel!LastIsSent)
  BY Channel!ChannelKeepsLast, PTL
<1>2. QED
  BY <1>1, LastIsDelivered, Typing, Implements, PTL DEF ImplementsChannel
===============================================================================
