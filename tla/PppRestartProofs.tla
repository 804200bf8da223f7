--------------------------- MODULE PppRestartProofs ---------------------------
(***************************************************************************)
(* What PppSessionProofs and PppClientProofs prove of one process, for any *)
(* number of ends and starts of the manager.                               *)
(***************************************************************************)
EXTENDS PppManagerProofs, PppSessionProofs, PppClientProofs,
        PppReportsProofs

-----------------------------------------------------------------------------
(* The reports.                                                            *)

\* A process that ends loses what its threads were about to send, and the next
\* one has nothing to send.  Its interfaces are not up, and the DUID files are
\* as they were.
LEMMA LaunchKeeps ==
  ASSUME TypeOK, Launch
  PROVE  /\ TodoSound' /\ UpIsReported' /\ EndIsReported'
         /\ DuidBehindUp => DuidBehindUp'
<1>1. TodoSound'
  BY DEF Launch, TodoSound
<1>2. \A i \in Ifaces : /\ entry'[i].status = "Zero" /\ entry'[i].conn = "Zero"
                        /\ entry'[i].duid = entry[i].duid
  BY DEF Launch, Forgotten, InitEntry
<1>3. UpIsReported' /\ EndIsReported'
  BY <1>2 DEF UpIsReported, EndIsReported, Ended
<1>4. ASSUME NEW i \in Ifaces, NEW k, NEW v, Pending(i, k, v)
      PROVE  "post" \in lost'[i]
  <2>1. PICK t \in Threads :
          \E n \in 1 .. Len(todo[t]) : todo[t][n] = SetEvent(i, k, v)
    BY <1>4 DEF Pending
  <2>2. "post" \in LostWith(i)
    BY <2>1 DEF LostWith, SetEvent
  <2>3. QED
    BY <2>2 DEF Launch
<1>5. LostGrows /\ posted' = posted
  BY DEF Launch, LostGrows
<1>6. ASSUME DuidBehindUp PROVE DuidBehindUp'
  BY <1>2, <1>4, <1>5, <1>6 DEF DuidBehindUp, LostGrows
<1>7. QED
  BY <1>1, <1>3, <1>6

\* A report or an order that goes to the queue of an earlier process.
LEMMA OldQueueKeeps ==
  ASSUME TypeOK, MutexInv, MutexInv', TodoSound,
         NEW t \in DmlThreads, DmlOldQueueSend(t)
  PROVE  TodoSound' /\ SessionKept
<1> DEFINE e == Head(todo[t])
<1>1. t \in Threads /\ t # Ipc
  BY Basics
<1>2. /\ pc[t] \in {"post", "execpost"} /\ todo[t] # << >>
      /\ posted' = IF e.act = "BUS_SET"
                   THEN [posted EXCEPT ![e.iface][e.key] = e.val]
                   ELSE posted
      /\ todo' = [todo EXCEPT ![t] = Tail(@)]
      /\ UNCHANGED <<pc, call, inst, ev, entry, owner, lost>>
  BY DEF DmlOldQueueSend, FindsOldQueue, ifVars, ipcVars
<1>3. StepOf(t)
  BY <1>1, <1>2 DEF StepOf, OthersStay, TypeOK
<1>4. Justified(t, e)
  BY <1>1, <1>2, HeadJustified
<1>5. LostGrows /\ \A i \in Ifaces : SameSession(i)
  BY <1>2 DEF LostGrows, SameSession
<1>6. TodoSound'
  BY <1>1, <1>2, <1>3, <1>5, TailJustified
<1>7. CASE e.act = "BUS_SET"
  BY <1>1, <1>2, <1>3, <1>7, SendKeeps
<1>8. CASE e.act # "BUS_SET"
  <2>1. ~Sends(t) /\ posted' = posted
    BY <1>1, <1>2, <1>4, <1>8 DEF Justified, Sends
  <2>2. \A n \in 1 .. Len(todo'[t]) : Justified(t, todo[t][n])'
    BY <1>1, <1>6 DEF TodoSound
  <2>3. QED
    BY <1>1, <1>3, <1>5, <2>1, <2>2, QuietKeeps
<1>9. QED
  BY <1>7, <1>8

\* A stale event gets nowhere.
LEMMA StaleKeeps ==
  ASSUME ManagerTypeOK, MutexInv, MutexInv', TodoSound,
         IpcStaleKills \/ IpcStaleGarbled
  PROVE  TodoSound' /\ SessionKept
<1>1. TypeOK /\ Ipc \in Threads
  BY Basics DEF ManagerTypeOK
<1>2. /\ lost' = [lost EXCEPT ![Head(queue).iface] = @ \cup {"set"}]
      /\ UNCHANGED <<entry, owner, todo, call, posted>>
  BY DEF IpcStaleKills, IpcStaleGarbled, Passes, ifVars
<1>3. LostGrows /\ \A i \in Ifaces : SameSession(i)
  BY <1>1, <1>2 DEF LostGrows, SameSession, TypeOK
<1>4. CASE IpcStaleKills
  BY <1>1, <1>2, <1>3, <1>4, ClientKeeps DEF IpcStaleKills
<1>5. CASE IpcStaleGarbled
  <2>1. pc[Ipc] = "mq" /\ pc' = [pc EXCEPT ![Ipc] = "sock"]
    BY <1>5 DEF IpcStaleGarbled, NextRound, Goto, At
  <2>2. StepOf(Ipc)
    BY <1>1, <1>2, <2>1 DEF StepOf, OthersStay, TypeOK
  <2>3. QED
    BY <1>1, <1>2, <1>3, <2>1, <2>2, IdleKeeps
<1>6. QED
  BY <1>4, <1>5

RestartInv == TodoSound /\ UpIsReported /\ EndIsReported /\ DuidBehindUp

LEMMA ManagerKeeps ==
  ManagerTypeOK /\ MutexInv /\ MutexInv' /\ RestartInv /\ [ManagerNext]_allVars
    => RestartInv'
<1> SUFFICES ASSUME ManagerTypeOK, MutexInv, MutexInv', RestartInv,
                    [ManagerNext]_allVars
             PROVE  RestartInv'
  OBVIOUS
<1>1. TypeOK /\ TodoSound
  BY DEF ManagerTypeOK, RestartInv
<1>2. ASSUME TodoSound' /\ SessionKept PROVE RestartInv'
  BY <1>2 DEF RestartInv, SessionKept
<1>3. CASE Launch
  BY <1>1, <1>3, LaunchKeeps DEF RestartInv
<1>4. CASE Outside \/ UNCHANGED allVars
  <2>1. UNCHANGED <<entry, owner, pc, todo, posted, lost>>
    BY <1>1, <1>4, OutsideApart DEF Apart, threadVars, allVars, vars
  <2>2. QED
    BY <1>1, <1>2, <2>1, ClientKeeps DEF LostGrows
<1>5. CASE IpcRuns
  BY <1>1, <1>2, <1>5, IpcKeeps DEF IpcRuns
<1>6. CASE IpcStaleKills \/ IpcStaleGarbled
  BY <1>1, <1>2, <1>6, StaleKeeps
<1>7. ASSUME NEW t \in DmlThreads, DmlOldQueueSend(t) PROVE RestartInv'
  BY <1>1, <1>2, <1>7, OldQueueKeeps
<1>8. CASE AsBefore
  BY <1>1, <1>2, <1>8, AsBeforeIsNext, NextKeeps
<1>9. QED
  BY <1>3, <1>4, <1>5, <1>6, <1>7, <1>8, Kinds

\* The mutexes in each process, for the theorems below.
LEMMA ManagerMutexes == ManagerSpec => []MutexInv
<1>1. ManagerInit => MutexInv
  BY Basics DEF ManagerInit, Init, MutexInv, Holds, LockDepth
<1>2. ManagerTypeOK => TypeOK
  BY DEF ManagerTypeOK
<1>3. QED
  BY <1>1, <1>2, ManagerMutex, ManagerTyping, PTL DEF ManagerSpec

\* Whatever the manager ends in the middle of, the next one does not show an
\* interface as up, or its session as over, of which it has not told WanManager
\* so itself, and no DUID that WanManager was told of is gone.
THEOREM ReportedThroughRestarts ==
  ManagerSpec => [](UpIsReported /\ EndIsReported /\ DuidBehindUp)
<1>1. ManagerInit => RestartInv
  BY InitKeeps DEF ManagerInit, RestartInv, SessionInv
<1>2. RestartInv => UpIsReported /\ EndIsReported /\ DuidBehindUp
  BY DEF RestartInv
<1>3. QED
  BY <1>1, <1>2, ManagerKeeps, ManagerTyping, ManagerMutexes, PTL
     DEF ManagerSpec

-----------------------------------------------------------------------------
(* The clients.                                                            *)

LEMMA ManagerKnows ==
  TypeOK /\ MutexInv /\ ClientKnown /\ [ManagerNext]_allVars => ClientKnown'
<1> SUFFICES ASSUME TypeOK, MutexInv, ClientKnown, [ManagerNext]_allVars
             PROVE  ClientKnown'
  OBVIOUS
<1>1. CASE Launch
  <2>1. missed' = (missed \/ \E p \in Pids : Exists(p)) /\ proc' = proc
    BY <1>1 DEF Launch, procVars
  <2>2. pc'[Ipc] = "boot"
    BY <1>1, Basics DEF Launch
  <2>3. ~missed' => \A p \in Pids : ~Exists(p)'
    BY <2>1 DEF Exists
  <2>4. QED
    BY <2>2, <2>3 DEF ClientKnown, Starting
<1>2. CASE Outside \/ UNCHANGED allVars
  <2>1. UNCHANGED <<entry, pc, missed, proc, client>>
    BY <1>2, OutsideApart DEF Apart, threadVars, allVars, vars
  <2>2. QED
    BY <2>1 DEF ClientKnown, NoClient, AtMostOne, Exists
<1>3. CASE IpcRuns \/ AsBefore
  <2>1. Next
    BY <1>3, AsBeforeIsNext DEF IpcRuns, Next
  <2>2. QED
    BY <2>1, NextKnows
<1>4. CASE IpcStaleKills \/ \E t \in DmlThreads : DmlOldQueueSend(t)
  <2>1. UNCHANGED <<entry, pc, missed, proc>>
    BY <1>4 DEF IpcStaleKills, DmlOldQueueSend, ifVars, procVars
  <2>2. QED
    BY <2>1 DEF ClientKnown, NoClient, AtMostOne, Exists
<1>5. CASE IpcStaleGarbled
  <2>1. /\ UNCHANGED <<entry, missed, proc>>
        /\ pc[Ipc] = "mq" /\ pc'[Ipc] = "sock"
    BY <1>5, Basics DEF IpcStaleGarbled, procVars, NextRound, Goto, At, TypeOK
  <2>2. QED
    BY <2>1 DEF ClientKnown, Starting, Exists
<1>6. QED
  BY <1>1, <1>2, <1>3, <1>4, <1>5, Kinds

\* A single interface gets a second client only when one was missed, by the
\* search in /proc or by the test with ps, or is left of an earlier process.
THEOREM SingleClientThroughRestarts == ManagerSpec => []OneClient
<1>1. ManagerInit => ClientKnown
  BY InitKnows DEF ManagerInit
<1>2. ManagerTypeOK => TypeOK
  BY DEF ManagerTypeOK
<1>3. ClientKnown => OneClient
  BY DEF ClientKnown, OneClient, NoClient, AtMostOne, Starting
<1>4. QED
  BY <1>1, <1>2, <1>3, ManagerKnows, ManagerTyping, ManagerMutexes, PTL
     DEF ManagerSpec

-----------------------------------------------------------------------------
(* The mutexes.                                                            *)

\* Between two processes nobody owns a mutex that could be written behind its
\* back: the table is set up anew when the threads are.
LEMMA ManagerWriters ==
  ASSUME TypeOK, MutexInv, [ManagerNext]_allVars,
         NEW i \in Ifaces, NEW t \in Threads, owner[i] = t, entry'[i] # entry[i]
  PROVE  pc'[t] # pc[t]
<1>1. Holds(t, i)
  BY DEF MutexInv
<1>2. CASE Launch
  <2>1. pc'[t] \in {"boot", "idle"}
    BY <1>2 DEF Launch
  <2>2. QED
    BY <1>1, <2>1, Basics DEF Holds, DmlPcs
<1>3. CASE Outside \/ UNCHANGED allVars
  <2>1. UNCHANGED entry
    BY <1>3, OutsideApart DEF Apart, threadVars, allVars, vars
  <2>2. QED
    BY <2>1
<1>4. CASE IpcRuns \/ AsBefore
  <2>1. Next
    BY <1>4, AsBeforeIsNext DEF IpcRuns, Next
  <2>2. QED
    BY <2>1, Writers
<1>5. CASE \/ IpcStaleKills \/ IpcStaleGarbled
           \/ \E u \in DmlThreads : DmlOldQueueSend(u)
  <2>1. UNCHANGED entry
    BY <1>5 DEF IpcStaleKills, IpcStaleGarbled, DmlOldQueueSend, ifVars
  <2>2. QED
    BY <2>1
<1>6. QED
  BY <1>2, <1>3, <1>4, <1>5, Kinds

\* In each process of them all, only the owner of its mutex changes an entry.
THEOREM ForeignWritesThroughRestarts == ManagerSpec => NoForeignWrite
<1>1. TypeOK /\ MutexInv /\ [ManagerNext]_allVars =>
        [\A i \in Ifaces, t \in Threads :
           owner[i] = t /\ entry'[i] # entry[i] => pc'[t] # pc[t]]_vars
  BY ManagerWriters
<1>2. ManagerTypeOK => TypeOK
  BY DEF ManagerTypeOK
<1>3. QED
  BY <1>1, <1>2, ManagerTyping, ManagerMutexes, PTL
     DEF ManagerSpec, NoForeignWrite

\* In each process of them all, whoever holds a mutex waits for none that another
\* thread holds.  In a table that was not set up a call still waits for itself.
THEOREM NoCirclesThroughRestarts == ManagerSpec => []NoHoldAndWait
<1>1. ManagerTypeOK /\ MutexInv => NoHoldAndWait
  BY HoldersDoNotWait DEF ManagerTypeOK
<1>2. QED
  BY <1>1, ManagerTyping, ManagerMutexes, PTL

\* A start begins at "boot", and what is left of an earlier process does not
\* lead to a question either.
LEMMA ManagerQueries ==
  ASSUME TypeOK, pc[Ipc] = "busget" => QueriesLowerLayer, [ManagerNext]_allVars
  PROVE  (pc[Ipc] = "busget" => QueriesLowerLayer)'
<1>1. CASE Launch
  BY <1>1, Basics DEF Launch
<1>2. CASE Outside \/ UNCHANGED allVars
  BY <1>2, OutsideApart DEF Apart, threadVars, allVars, vars, QueriesLowerLayer
<1>3. CASE IpcRuns \/ AsBefore
  <2>1. Next
    BY <1>3, AsBeforeIsNext DEF IpcRuns, Next
  <2>2. QED
    BY <2>1, OnlyPppoeQueries
<1>4. CASE IpcStaleKills \/ \E t \in DmlThreads : DmlOldQueueSend(t)
  BY <1>4 DEF IpcStaleKills, DmlOldQueueSend, QueriesLowerLayer
<1>5. CASE IpcStaleGarbled
  BY <1>5, Basics DEF IpcStaleGarbled, NextRound, Goto, At, TypeOK
<1>6. QED
  BY <1>1, <1>2, <1>3, <1>4, <1>5, Kinds

\* Nor does a build that does not ask for the lower layer come to call
\* WanManager with a mutex held because of a restart.
THEOREM BusCallsThroughRestarts ==
  ASSUME ~QueriesLowerLayer PROVE ManagerSpec => []NoBusCallUnderMutex
<1> DEFINE J == pc[Ipc] = "busget" => QueriesLowerLayer
<1>1. ManagerInit => J
  BY Basics DEF ManagerInit, Init
<1>2. ManagerTypeOK /\ J /\ [ManagerNext]_allVars => J'
  BY ManagerQueries DEF ManagerTypeOK
<1>3. ManagerTypeOK /\ MutexInv /\ J => NoBusCallUnderMutex
  BY Basics DEF ManagerTypeOK, MutexInv, Holds, NoBusCallUnderMutex
<1>4. QED
  BY <1>1, <1>2, <1>3, ManagerTyping, ManagerMutexes, PTL DEF ManagerSpec

-----------------------------------------------------------------------------
(* The channel.                                                            *)

\* A process that ends with a report in hand loses it, which is a step of the
\* channel; the queue stays as it is.
LEMMA LaunchLoses ==
  ASSUME TypeOK, TypeOK', HandHoldsReport, Launch
  PROVE  [Channel!ChannelNext]_Channel!chanVars
<1>1. /\ pc'[Ipc] = "boot" /\ UNCHANGED <<queue, wan, posted>>
      /\ lost' = [i \in Ifaces |-> lost[i] \cup LostWith(i)]
  BY Basics DEF Launch
<1>2. queue \in Seq(Event) /\ ev \in Event
      /\ lost \in [Ifaces -> SUBSET {"post", "set", "duid"}]
  BY DEF TypeOK
<1>3. InFlight' = << >> \o queue
  BY <1>1 DEF InFlight
<1>4. CASE pc[Ipc] \in {"read", "set"}
  <2>1. InFlight = <<ev>> \o queue /\ ev.act = "BUS_SET"
    BY <1>4 DEF InFlight, HandHoldsReport
  <2>2. /\ InFlight # << >> /\ Head(InFlight) = ev
        /\ InFlight' = Tail(InFlight)
    BY <1>2, <1>3, <2>1, Oldest
  <2>3. \A i \in Ifaces : "set" \in LostWith(i) <=> i = ev.iface
    BY <1>4 DEF LostWith
  <2>4. ev.iface \in Ifaces
    BY <1>2 DEF Event, SetEvents, ExecEvents
  <2>5. SetLost' = SetLost \cup {ev.iface}
    BY <1>1, <1>2, <2>3, <2>4 DEF SetLost
  <2>6. Channel!Lose
    BY <1>1, <2>1, <2>2, <2>5 DEF Channel!Lose, Channel!IsReport
  <2>7. QED
    BY <2>6 DEF Channel!ChannelNext
<1>5. CASE pc[Ipc] \notin {"read", "set"}
  <2>1. \A i \in Ifaces : "set" \notin LostWith(i)
    BY <1>5 DEF LostWith
  <2>2. SetLost' = SetLost
    BY <1>1, <1>2, <2>1 DEF SetLost
  <2>3. Unseen
    BY <1>1, <1>5, <2>2 DEF Unseen, InHand
  <2>4. QED
    BY <2>3, Stutters
<1>6. QED
  BY <1>4, <1>5

\* A stale report leaves the queue and gets nowhere.
LEMMA StaleLoses ==
  ASSUME TypeOK, TypeOK', IpcStaleKills \/ IpcStaleGarbled
  PROVE  Channel!ChannelNext /\ HandHoldsReport'
<1>1. /\ pc[Ipc] = "mq" /\ pc'[Ipc] \in {"mq", "sock"}
      /\ queue # << >> /\ Head(queue).act = "BUS_SET" /\ queue' = Tail(queue)
      /\ lost' = [lost EXCEPT ![Head(queue).iface] = @ \cup {"set"}]
      /\ UNCHANGED <<posted, wan>>
  BY Basics DEF IpcStaleKills, IpcStaleGarbled, StaleAhead, At, NextRound, Goto,
     TypeOK, wanVars
<1>2. queue \in Seq(Event) /\ Head(queue) \in Event
      /\ Tail(queue) \in Seq(Event)
      /\ lost \in [Ifaces -> SUBSET {"post", "set", "duid"}]
  BY <1>1, Dequeue DEF TypeOK
<1>3. InFlight = queue /\ InFlight' = Tail(queue)
  <2>1. InFlight = << >> \o queue /\ InFlight' = << >> \o Tail(queue)
    BY <1>1 DEF InFlight
  <2>2. QED
    BY <1>2, <2>1, Oldest
<1>4. Head(queue).iface \in Ifaces
  BY <1>2 DEF Event, SetEvents, ExecEvents
<1>5. SetLost' = SetLost \cup {Head(queue).iface}
  BY <1>1, <1>2, <1>4 DEF SetLost
<1>6. Channel!Lose
  BY <1>1, <1>3, <1>5 DEF Channel!Lose, Channel!IsReport
<1>7. QED
  BY <1>1, <1>6 DEF Channel!ChannelNext, HandHoldsReport

\* A send to the queue of an earlier process is a report as well.
LEMMA OldQueueReports ==
  ASSUME TypeOK, TypeOK', NEW t \in DmlThreads, DmlOldQueueSend(t)
  PROVE  Channel!ChannelNext /\ UNCHANGED InHand
<1>1. todo[t] \in Seq(Event) /\ todo[t] # << >>
  BY Basics DEF TypeOK, DmlOldQueueSend, FindsOldQueue
<1>2. Head(todo[t]) \in Event
  BY <1>1, Dequeue
<1>3. UNCHANGED <<pc, ev, wan, lost>>
  BY DEF DmlOldQueueSend, ipcVars, wanVars
<1>4. UNCHANGED <<InHand, wan, SetLost>>
  BY <1>3 DEF InHand, SetLost
<1>5. QED
  BY <1>2, <1>4, AppendReports DEF DmlOldQueueSend

LEMMA ManagerImplements ==
  TypeOK /\ TypeOK' /\ HandHoldsReport /\ [ManagerNext]_allVars
    => [Channel!ChannelNext]_Channel!chanVars /\ HandHoldsReport'
<1> SUFFICES ASSUME TypeOK, TypeOK', HandHoldsReport, [ManagerNext]_allVars
             PROVE  [Channel!ChannelNext]_Channel!chanVars /\ HandHoldsReport'
  OBVIOUS
<1>1. CASE Launch
  BY <1>1, LaunchLoses, Basics DEF Launch, HandHoldsReport
<1>2. CASE Outside \/ UNCHANGED allVars
  <2>1. UNCHANGED <<pc, ev, queue, posted, wan, lost>>
    BY <1>2, OutsideApart DEF Apart, threadVars, allVars, vars
  <2>2. Unseen /\ HandHoldsReport'
    BY <2>1 DEF Unseen, InHand, SetLost, HandHoldsReport
  <2>3. QED
    BY <2>2, Stutters
<1>3. CASE IpcRuns \/ AsBefore
  <2>1. Next
    BY <1>3, AsBeforeIsNext DEF IpcRuns, Next
  <2>2. QED
    BY <2>1, StepsImplement, HandStep
<1>4. CASE IpcStaleKills \/ IpcStaleGarbled
  BY <1>4, StaleLoses
<1>5. ASSUME NEW t \in DmlThreads, DmlOldQueueSend(t)
      PROVE  [Channel!ChannelNext]_Channel!chanVars /\ HandHoldsReport'
  BY <1>5, OldQueueReports DEF HandHoldsReport, DmlOldQueueSend, ipcVars
<1>6. QED
  BY <1>1, <1>2, <1>3, <1>4, <1>5, Kinds

\* The channel is the same one through the ends and starts of the manager:
\* what one process put into the queue the next one delivers or loses in its
\* turn, and a report in hand at the end is lost, never repeated.
THEOREM ImplementsThroughRestarts == ManagerSpec => ImplementsChannel
<1>1. ManagerInit => Channel!ChannelInit /\ HandHoldsReport
  BY InitImplements DEF ManagerInit
<1>2. ManagerTypeOK => TypeOK
  BY DEF ManagerTypeOK
<1>3. QED
  BY <1>1, <1>2, ManagerImplements, ManagerTyping, PTL
     DEF ManagerSpec, ImplementsChannel, Channel!ChannelSpec

\* Unless a set failed or was cut short by the end of a process, WanManager
\* has, or will have, what was sent last, by whichever process.
THEOREM InOrderThroughRestarts == ManagerSpec => []DeliveredInOrder
<1>1. ManagerTypeOK => TypeOK
  BY DEF ManagerTypeOK
<1>2. Channel!ChannelSpec => [](Channel!ChannelTypeOK /\ Channel!LastIsSent)
  BY Channel!ChannelKeepsLast, PTL
<1>3. QED
  BY <1>1, <1>2, LastIsDelivered, ManagerTyping, ImplementsThroughRestarts, PTL
     DEF ImplementsChannel
===============================================================================
