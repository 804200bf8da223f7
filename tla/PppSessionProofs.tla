--------------------------- MODULE PppSessionProofs ---------------------------
(***************************************************************************)
(* Proof that what is sent to WanManager follows the entry, for every      *)
(* number of interfaces, threads and clients, every capacity of the queue  *)
(* and either build.                                                       *)
(***************************************************************************)
EXTENDS PppEventLoopProofs

\* The event e says what the entry it is about says.
Tells(e) ==
  LET x == entry[e.iface]
  IN  /\ e.key \in {"LCP", "LINK"} /\ x.status = "Up" => e.val = "Up"
      /\ e.key = "LCP" /\ e.val = "Up" => x.conn \notin Ended
      /\ e.key = "IPCP" /\ e.val = "Up" => x.ip4 = "set"
      /\ e.key = "IPV6CP" /\ e.val = "Up" => x.duid \/ "duid" \in lost[e.iface]

\* Where a thread sends reports with the mutex held, or is about to.
Sends(t) == pc[t] \in IF t = Ipc THEN {"post"} ELSE {"stopped", "post"}

\* What a thread may have to send, and where it is then: the order to start a
\* client, the answer to a rejected message, or a true report of an entry
\* whose mutex it holds.
Justified(t, e) ==
  \/ e.act = "EXEC_PPP_CLIENT" /\ t # Ipc /\ pc[t] = "execpost"
  \/ /\ e.act = "BUS_SET" /\ t = Ipc /\ pc[t] = "upost"
     /\ e.key = "IPCP" /\ e.val = "Down"
  \/ e.act = "BUS_SET" /\ Sends(t) /\ owner[e.iface] = t /\ Tells(e)

TodoSound ==
  \A t \in Threads : \A n \in 1 .. Len(todo[t]) : Justified(t, todo[t][n])
SessionInv == UpIsReported /\ EndIsReported /\ Ipv4BehindUp /\ DuidBehindUp

\* What a step does for each of the four, whether the others hold or not: the
\* next process finds addresses gone of which WanManager was told.
SessionKept == /\ UpIsReported => UpIsReported'
               /\ EndIsReported => EndIsReported'
               /\ Ipv4BehindUp => Ipv4BehindUp'
               /\ DuidBehindUp => DuidBehindUp'

\* What SessionKept looks at in an entry stays as it is.
SameSession(i) == /\ entry'[i].status = entry[i].status
                  /\ entry'[i].conn = entry[i].conn
                  /\ entry'[i].ip4 = entry[i].ip4
                  /\ entry'[i].duid = entry[i].duid

LostGrows == \A i \in Ifaces : lost[i] \subseteq lost'[i]

-----------------------------------------------------------------------------
(* What a step of one thread leaves to the others.                         *)

\* The mutexes that the others hold.
LEMMA OwnersStay ==
  ASSUME MutexInv, MutexInv', NEW t \in Threads, OthersStay(t)
  PROVE  \A u \in Threads \ {t}, i \in Ifaces : owner'[i] = u <=> owner[i] = u
  BY OthersHold DEF MutexInv

\* What they have to send remains justified: nobody writes to an entry they
\* have locked.
LEMMA OthersJustified ==
  ASSUME TypeOK, MutexInv, MutexInv', TodoSound, NEW t \in Threads, StepOf(t),
         LostGrows,
         \A i \in Ifaces : owner[i] \in Threads \ {t} => SameSession(i)
  PROVE  \A u \in Threads \ {t} : \A n \in 1 .. Len(todo'[u]) :
           Justified(u, todo[u][n])'
<1> SUFFICES ASSUME NEW u \in Threads \ {t}, NEW n \in 1 .. Len(todo'[u])
             PROVE  Justified(u, todo[u][n])'
  OBVIOUS
<1>1. todo'[u] = todo[u] /\ n \in 1 .. Len(todo[u]) /\ pc'[u] = pc[u]
  BY DEF StepOf, OthersStay
<1>2. Justified(u, todo[u][n])
  BY <1>1 DEF TodoSound
<1>3. todo[u][n].iface \in Ifaces
  BY <1>1 DEF TypeOK, Event, SetEvents, ExecEvents
<1>4. CASE /\ todo[u][n].act = "BUS_SET" /\ Sends(u)
           /\ owner[todo[u][n].iface] = u /\ Tells(todo[u][n])
  <2>1. owner'[todo'[u][n].iface] = u
    BY <1>1, <1>3, <1>4, OwnersStay DEF StepOf
  <2>2. /\ SameSession(todo[u][n].iface)
        /\ lost[todo[u][n].iface] \subseteq lost'[todo[u][n].iface]
    BY <1>3, <1>4 DEF LostGrows
  <2>3. Tells(todo[u][n])'
    BY <1>1, <1>4, <2>2 DEF Tells, SameSession
  <2>4. Sends(u)'
    BY <1>1, <1>4 DEF Sends
  <2>5. todo'[u][n].act = "BUS_SET"
    BY <1>1, <1>4
  <2>6. QED
    BY <2>1, <2>3, <2>4, <2>5 DEF Justified
<1>5. CASE \/ todo[u][n].act = "EXEC_PPP_CLIENT" /\ u # Ipc /\ pc[u] = "execpost"
           \/ /\ todo[u][n].act = "BUS_SET" /\ u = Ipc /\ pc[u] = "upost"
              /\ todo[u][n].key = "IPCP" /\ todo[u][n].val = "Down"
  BY <1>1, <1>5 DEF Justified
<1>6. QED
  BY <1>2, <1>4, <1>5 DEF Justified

\* A thread that is not at a send has nothing to send.
LEMMA NothingToSend ==
  ASSUME TypeOK, TodoSound, NEW t \in Threads,
         pc[t] \notin {"post", "stopped", "upost", "execpost"}
  PROVE  todo[t] = << >>
<1>1. todo[t] \in Seq(Event)
  BY DEF TypeOK
<1>2. SUFFICES ASSUME todo[t] # << >> PROVE FALSE
  OBVIOUS
<1>3. 1 \in 1 .. Len(todo[t])
  BY <1>1, <1>2
<1>4. Justified(t, todo[t][1])
  BY <1>3 DEF TodoSound
<1>5. QED
  BY <1>4 DEF Justified, Sends

\* A thread that sends holds one mutex.
LEMMA OneMutex ==
  ASSUME MutexInv, NEW t \in Threads, Sends(t), NEW i \in Ifaces,
         NEW j \in Ifaces, owner[i] = t, owner[j] = t
  PROVE  i = j
<1>1. Holds(t, i) /\ Holds(t, j)
  BY DEF MutexInv
<1>2. QED
  BY <1>1 DEF Holds, Sends

-----------------------------------------------------------------------------
(* What is pending.                                                        *)

\* Thread u has locked the entry and will send it the event.
WillSend(u, i, k, v) ==
  /\ owner[i] = u
  /\ \E n \in 1 .. Len(todo[u]) : todo[u][n] = SetEvent(i, k, v)

\* The thread that has an event pending is at a send of a handler.
LEMMA SenderHolds ==
  ASSUME TypeOK, MutexInv, TodoSound, NEW t \in Threads, NEW i \in Ifaces,
         NEW k, NEW v, WillSend(t, i, k, v)
  PROVE  Sends(t)
<1>1. PICK n \in 1 .. Len(todo[t]) : todo[t][n] = SetEvent(i, k, v)
  BY DEF WillSend
<1>2. Justified(t, todo[t][n])
  BY DEF TodoSound
<1>3. Holds(t, i)
  BY DEF MutexInv, WillSend
<1>4. ~(t = Ipc /\ pc[t] = "upost")
  BY <1>3 DEF Holds
<1>5. QED
  BY <1>1, <1>2, <1>4 DEF Justified, SetEvent

\* A step of t leaves pending what the others have pending, and keeps the
\* whole of it when it keeps what t has pending.
LEMMA PendingKept ==
  ASSUME MutexInv, MutexInv', NEW t \in Threads, StepOf(t), NEW i \in Ifaces,
         NEW k, NEW v,
         Pending(i, k, v), WillSend(t, i, k, v) => WillSend(t, i, k, v)'
  PROVE  Pending(i, k, v)'
<1>1. PICK u \in Threads : WillSend(u, i, k, v)
  BY DEF Pending, WillSend
<1>2. CASE u = t
  BY <1>1, <1>2 DEF Pending, WillSend
<1>3. CASE u # t
  <2>1. owner'[i] = u /\ todo'[u] = todo[u]
    BY <1>1, <1>3, OwnersStay DEF StepOf, WillSend
  <2>2. QED
    BY <1>1, <2>1 DEF Pending, WillSend
<1>4. QED
  BY <1>2, <1>3

-----------------------------------------------------------------------------
(* The kinds of steps.                                                     *)

\* A step that changes neither what the properties look at in the entries nor
\* what was sent, and takes nothing out of what is pending.
LEMMA QuietKeeps ==
  ASSUME TypeOK, MutexInv, MutexInv', TodoSound,
         NEW t \in Threads, StepOf(t), posted' = posted, LostGrows,
         \A i \in Ifaces : SameSession(i),
         \/ ~Sends(t)
         \/ todo'[t] = todo[t] /\ \A i \in Ifaces : owner[i] = t => owner'[i] = t
         \/ todo[t] = << >>,
         \A n \in 1 .. Len(todo'[t]) : Justified(t, todo[t][n])'
  PROVE  TodoSound' /\ SessionKept
<1>1. TodoSound'
  BY OthersJustified DEF TodoSound
<1>2. ASSUME NEW i \in Ifaces, NEW k, NEW v, Pending(i, k, v)
      PROVE  Pending(i, k, v)'
  <2>1. WillSend(t, i, k, v) => WillSend(t, i, k, v)'
    <3> SUFFICES ASSUME WillSend(t, i, k, v)
                 PROVE  WillSend(t, i, k, v)'
      OBVIOUS
    <3>1. Sends(t) /\ todo[t] # << >>
      BY SenderHolds DEF WillSend
    <3>2. QED
      BY <3>1 DEF WillSend
  <2>2. QED
    BY <1>2, <2>1, PendingKept
<1>3. \A i \in Ifaces : /\ entry'[i].status = entry[i].status
                        /\ entry'[i].conn = entry[i].conn
                        /\ entry'[i].ip4 = entry[i].ip4
                        /\ entry'[i].duid = entry[i].duid
                        /\ lost[i] \subseteq lost'[i]
  BY DEF SameSession, LostGrows
<1>4. UpIsReported => UpIsReported'
  BY <1>2, <1>3 DEF UpIsReported
<1>5. Ipv4BehindUp => Ipv4BehindUp'
  BY <1>2, <1>3 DEF Ipv4BehindUp
<1>6. DuidBehindUp => DuidBehindUp'
  BY <1>2, <1>3 DEF DuidBehindUp
<1>7. EndIsReported => EndIsReported'
  BY <1>2, <1>3 DEF EndIsReported
<1>8. QED
  BY <1>1, <1>4, <1>5, <1>6, <1>7 DEF SessionKept

\* A step of a thread that is at no send and has nothing to send after it.
LEMMA IdleKeeps ==
  ASSUME TypeOK, MutexInv, MutexInv', TodoSound,
         NEW t \in Threads, StepOf(t), posted' = posted, LostGrows,
         \A i \in Ifaces : SameSession(i),
         pc[t] \notin {"post", "stopped", "upost", "execpost"},
         todo'[t] = todo[t]
  PROVE  TodoSound' /\ SessionKept
<1>1. todo'[t] = << >>
  BY NothingToSend
<1>2. ~Sends(t)
  BY DEF Sends
<1>3. QED
  BY <1>1, <1>2, QuietKeeps

\* A handler that has just locked an entry, changed it and made the list of
\* what it will send of it.
LEMMA WriteKeeps ==
  ASSUME TypeOK, MutexInv, MutexInv', TodoSound,
         NEW t \in Threads, StepOf(t), posted' = posted, LostGrows,
         NEW i \in Ifaces, Acquire(t, i), todo[t] = << >>, Sends(t)',
         \A j \in Ifaces \ {i} : SameSession(j),
         \A n \in 1 .. Len(todo'[t]) :
           todo'[t][n].act = "BUS_SET" /\ todo'[t][n].iface = i
           /\ Tells(todo[t][n])',
         \/ entry'[i].status = "Up" => entry[i].status = "Up"
         \/ \A k \in {"LCP", "LINK"} : WillSend(t, i, k, "Up")',
         \/ entry'[i].conn \in Ended => entry[i].conn \in Ended
         \/ WillSend(t, i, "LCP", "Down")',
         \/ entry[i].ip4 = "set" => entry'[i].ip4 = "set"
         \/ WillSend(t, i, "IPCP", "Down")',
         \/ entry[i].duid => entry'[i].duid
         \/ WillSend(t, i, "IPV6CP", "Down")'
  PROVE  TodoSound' /\ SessionKept
<1>1. owner[i] \in {NoThread, t} /\ owner'[i] = t
  BY DEF Acquire, TypeOK
<1>2. TodoSound'
  <2>1. \A n \in 1 .. Len(todo'[t]) : Justified(t, todo[t][n])'
    BY <1>1 DEF Justified
  <2>2. \A j \in Ifaces : owner[j] \in Threads \ {t} => SameSession(j)
    BY <1>1, Basics
  <2>3. QED
    BY <2>1, <2>2, OthersJustified DEF TodoSound
<1>3. \A j \in Ifaces : \A k, v : ~WillSend(t, j, k, v)
  BY DEF WillSend
<1>4. \A j \in Ifaces : \A k, v : Pending(j, k, v) => Pending(j, k, v)'
  BY <1>3, PendingKept
<1>5. \A k, v : ~Pending(i, k, v)
  BY <1>1, <1>3, Basics DEF Pending, WillSend
<1>6. \A k, v : WillSend(t, i, k, v)' => Pending(i, k, v)'
  BY DEF Pending, WillSend
<1>7. \A j \in Ifaces \ {i} : /\ entry'[j].status = entry[j].status
                              /\ entry'[j].conn = entry[j].conn
                              /\ entry'[j].ip4 = entry[j].ip4
                              /\ entry'[j].duid = entry[j].duid
  BY DEF SameSession
<1>8. \A j \in Ifaces : lost[j] \subseteq lost'[j]
  BY DEF LostGrows
<1>9. UpIsReported => UpIsReported'
  BY <1>4, <1>5, <1>6, <1>7, <1>8 DEF UpIsReported
<1>10. Ipv4BehindUp => Ipv4BehindUp'
  BY <1>4, <1>5, <1>6, <1>7, <1>8 DEF Ipv4BehindUp
<1>11. DuidBehindUp => DuidBehindUp'
  BY <1>4, <1>5, <1>6, <1>7, <1>8 DEF DuidBehindUp
<1>12. EndIsReported => EndIsReported'
  BY <1>4, <1>5, <1>6, <1>7, <1>8 DEF EndIsReported
<1>13. QED
  BY <1>2, <1>9, <1>10, <1>11, <1>12 DEF SessionKept

\* What the first event of a thread at a send is.
LEMMA HeadJustified ==
  ASSUME TypeOK, TodoSound, NEW t \in Threads, todo[t] # << >>
  PROVE  /\ Justified(t, Head(todo[t])) /\ Head(todo[t]) \in Event
         /\ Tail(todo[t]) \in Seq(Event)
         /\ Len(Tail(todo[t])) = Len(todo[t]) - 1
         /\ \A n \in 1 .. Len(Tail(todo[t])) :
              Tail(todo[t])[n] = todo[t][n + 1] /\ n + 1 \in 1 .. Len(todo[t])
<1>1. todo[t] \in Seq(Event)
  BY DEF TypeOK
<1>2. 1 \in 1 .. Len(todo[t]) /\ Head(todo[t]) = todo[t][1]
  BY <1>1
<1>3. Justified(t, todo[t][1])
  BY <1>2 DEF TodoSound
<1>4. Head(todo[t]) \in Event /\ Tail(todo[t]) \in Seq(Event)
  BY <1>1, Dequeue
<1>5. /\ Len(Tail(todo[t])) = Len(todo[t]) - 1
      /\ \A n \in 1 .. Len(Tail(todo[t])) :
           Tail(todo[t])[n] = todo[t][n + 1] /\ n + 1 \in 1 .. Len(todo[t])
  BY <1>1
<1>6. QED
  BY <1>2, <1>3, <1>4, <1>5

\* Dropping the first event leaves the others justified, and pending when it
\* was not the one.
LEMMA TailJustified ==
  ASSUME TypeOK, MutexInv, MutexInv', TodoSound, NEW t \in Threads, StepOf(t),
         todo[t] # << >>, todo' = [todo EXCEPT ![t] = Tail(@)],
         UNCHANGED <<pc, entry, owner>>, LostGrows
  PROVE  /\ TodoSound'
         /\ \A i \in Ifaces : \A k, v :
              Head(todo[t]) # SetEvent(i, k, v) =>
                (WillSend(t, i, k, v) => WillSend(t, i, k, v)')
<1>1. todo'[t] = Tail(todo[t])
  BY DEF TypeOK
<1>2. \A n \in 1 .. Len(todo'[t]) : Justified(t, todo[t][n])'
  <2> SUFFICES ASSUME NEW n \in 1 .. Len(todo'[t])
               PROVE  Justified(t, todo[t][n])'
    OBVIOUS
  <2>1. todo'[t][n] = todo[t][n + 1] /\ n + 1 \in 1 .. Len(todo[t])
    BY <1>1, HeadJustified
  <2>2. Justified(t, todo[t][n + 1])
    BY <2>1 DEF TodoSound
  <2>3. todo[t][n + 1].iface \in Ifaces
    BY <2>1 DEF TypeOK, Event, SetEvents, ExecEvents
  <2>4. Tells(todo[t][n + 1]) => Tells(todo[t][n])'
    BY <2>1, <2>3 DEF Tells, LostGrows
  <2>5. QED
    BY <2>1, <2>2, <2>4 DEF Justified, Sends
<1>3. TodoSound'
  BY <1>2, OthersJustified DEF TodoSound, SameSession
<1>4. ASSUME NEW i \in Ifaces, NEW k, NEW v,
             Head(todo[t]) # SetEvent(i, k, v), WillSend(t, i, k, v)
      PROVE  WillSend(t, i, k, v)'
  <2>1. PICK n \in 1 .. Len(todo[t]) : todo[t][n] = SetEvent(i, k, v)
    BY <1>4 DEF WillSend
  <2>2. todo[t] \in Seq(Event)
    BY DEF TypeOK
  <2>3. n # 1
    BY <1>4, <2>1, <2>2
  <2>4. n - 1 \in 1 .. Len(Tail(todo[t])) /\ n = (n - 1) + 1
    BY <2>1, <2>2, <2>3, HeadJustified
  <2>5. todo'[t][n - 1] = SetEvent(i, k, v)
    BY <1>1, <2>1, <2>4, HeadJustified
  <2>6. QED
    BY <1>1, <1>4, <2>4, <2>5 DEF WillSend
<1>5. QED
  BY <1>3, <1>4

\* A report that is sent is true of the entry.
LEMMA SendKeeps ==
  ASSUME TypeOK, MutexInv, MutexInv', TodoSound,
         NEW t \in Threads, StepOf(t), todo[t] # << >>,
         NEW e, e = Head(todo[t]), e.act = "BUS_SET",
         posted' = [posted EXCEPT ![e.iface][e.key] = e.val],
         todo' = [todo EXCEPT ![t] = Tail(@)],
         UNCHANGED <<pc, entry, owner, lost>>
  PROVE  TodoSound' /\ SessionKept
<1>1. LostGrows
  BY DEF LostGrows
<1>2. e = Head(todo[t])
  OBVIOUS
<1>3. e \in SetEvents /\ Justified(t, Head(todo[t]))
  BY <1>2, HeadJustified DEF Event, ExecEvents
<1>4. e.iface \in Ifaces /\ e.key \in Keys /\ e.val \in {"Up", "Down"}
  BY <1>3 DEF SetEvents
<1>5. /\ posted'[e.iface][e.key] = e.val
      /\ \A i \in Ifaces, k \in Keys :
           i # e.iface \/ k # e.key => posted'[i][k] = posted[i][k]
  BY <1>4 DEF TypeOK
<1>6. TodoSound'
  BY <1>1, TailJustified
<1>7. ASSUME NEW i \in Ifaces, NEW k \in Keys, NEW v, Pending(i, k, v),
             i # e.iface \/ k # e.key \/ v # e.val
      PROVE  Pending(i, k, v)'
  <2>1. Head(todo[t]) # SetEvent(i, k, v)
    BY <1>2, <1>7 DEF SetEvent
  <2>2. QED
    BY <1>1, <1>7, <2>1, TailJustified, PendingKept
<1>8. \/ e.key = "IPCP" /\ e.val = "Down"
      \/ Tells(e)
  BY <1>2, <1>3 DEF Justified, SetEvents
<1>9. {"LCP", "LINK", "IPCP", "IPV6CP"} = Keys
  BY DEF Keys
<1>10. UpIsReported => UpIsReported'
  <2> SUFFICES ASSUME UpIsReported, NEW i \in Ifaces, entry[i].status = "Up",
                      "post" \notin lost[i], NEW k \in {"LCP", "LINK"}
               PROVE  posted'[i][k] = "Up" \/ Pending(i, k, "Up")'
    BY DEF UpIsReported
  <2>1. posted[i][k] = "Up" \/ Pending(i, k, "Up")
    BY DEF UpIsReported
  <2>2. CASE i = e.iface /\ k = e.key
    BY <1>5, <1>8, <2>2 DEF Tells
  <2>3. CASE i # e.iface \/ k # e.key
    BY <1>5, <1>7, <1>9, <2>1, <2>3
  <2>4. QED
    BY <2>2, <2>3
<1>11. Ipv4BehindUp => Ipv4BehindUp'
  <2> SUFFICES ASSUME Ipv4BehindUp, NEW i \in Ifaces, posted'[i]["IPCP"] = "Up",
                      "post" \notin lost[i]
               PROVE  entry[i].ip4 = "set" \/ Pending(i, "IPCP", "Down")'
    BY DEF Ipv4BehindUp
  <2>1. CASE i = e.iface /\ "IPCP" = e.key
    BY <1>5, <1>8, <2>1 DEF Tells
  <2>2. CASE i # e.iface \/ "IPCP" # e.key
    <3>1. entry[i].ip4 = "set" \/ Pending(i, "IPCP", "Down")
      BY <1>5, <1>9, <2>2 DEF Ipv4BehindUp
    <3>2. QED
      BY <1>7, <1>9, <2>2, <3>1
  <2>3. QED
    BY <2>1, <2>2
<1>12. DuidBehindUp => DuidBehindUp'
  <2> SUFFICES ASSUME DuidBehindUp, NEW i \in Ifaces, posted'[i]["IPV6CP"] = "Up",
                      lost[i] \cap {"post", "duid"} = {}
               PROVE  entry[i].duid \/ Pending(i, "IPV6CP", "Down")'
    BY DEF DuidBehindUp
  <2>1. CASE i = e.iface /\ "IPV6CP" = e.key
    BY <1>5, <1>8, <2>1 DEF Tells
  <2>2. CASE i # e.iface \/ "IPV6CP" # e.key
    <3>1. entry[i].duid \/ Pending(i, "IPV6CP", "Down")
      BY <1>5, <1>9, <2>2 DEF DuidBehindUp
    <3>2. QED
      BY <1>7, <1>9, <2>2, <3>1
  <2>3. QED
    BY <2>1, <2>2
<1>13. EndIsReported => EndIsReported'
  <2> SUFFICES ASSUME EndIsReported, NEW i \in Ifaces, entry[i].conn \in Ended,
                      "post" \notin lost[i], posted'[i]["LCP"] = "Up"
               PROVE  Pending(i, "LCP", "Down")'
    BY DEF EndIsReported
  <2>1. i # e.iface \/ "LCP" # e.key
    BY <1>5, <1>8 DEF Tells
  <2>2. Pending(i, "LCP", "Down")
    BY <1>5, <1>9, <2>1 DEF EndIsReported
  <2>3. QED
    BY <1>7, <1>9, <2>1, <2>2
<1>14. QED
  BY <1>6, <1>10, <1>11, <1>12, <1>13 DEF SessionKept

\* A report that could not be sent is lost for its interface, and the thread
\* had none pending for another one.
LEMMA FailKeeps ==
  ASSUME TypeOK, MutexInv, MutexInv', TodoSound,
         NEW t \in Threads, StepOf(t), SendFails(t),
         Head(todo[t]).act = "BUS_SET", Sends(t),
         UNCHANGED <<entry, owner, posted>>, TodoSound'
  PROVE  SessionKept
<1>1. PICK j : j = Head(todo[t]).iface
  OBVIOUS
<1>2. todo[t] # << >>
  BY DEF SendFails
<1>3. j \in Ifaces /\ owner[j] = t
  BY <1>1, <1>2, HeadJustified DEF Justified, Sends, Event, SetEvents,
     ExecEvents
<1>4. "post" \in lost'[j] /\ \A i \in Ifaces : lost[i] \subseteq lost'[i]
  BY <1>1, <1>3 DEF SendFails, TypeOK
<1>5. \A i \in Ifaces \ {j} : owner[i] # t
  BY <1>3, OneMutex
<1>6. \A i \in Ifaces \ {j} : \A k, v : Pending(i, k, v) => Pending(i, k, v)'
  BY <1>5, PendingKept DEF WillSend
<1>7. UpIsReported => UpIsReported'
  BY <1>4, <1>6 DEF UpIsReported
<1>8. Ipv4BehindUp => Ipv4BehindUp'
  BY <1>4, <1>6 DEF Ipv4BehindUp
<1>9. DuidBehindUp => DuidBehindUp'
  BY <1>4, <1>6 DEF DuidBehindUp
<1>10. EndIsReported => EndIsReported'
  BY <1>4, <1>6 DEF EndIsReported
<1>11. QED
  BY <1>7, <1>8, <1>9, <1>10 DEF SessionKept

-----------------------------------------------------------------------------
(* The steps of the IPC thread.                                            *)

\* The fields of an entry that a start or an Enable writes are others.
LEMMA FieldsKept ==
  ASSUME NEW e \in Entry
  PROVE  /\ \A b : LET f == [e EXCEPT !.enabled = b]
                  IN  /\ f.status = e.status /\ f.conn = e.conn
                      /\ f.ip4 = e.ip4 /\ f.duid = e.duid
         /\ LET f == [e EXCEPT !.pid = NoPid]
            IN  /\ f.status = e.status /\ f.conn = e.conn
                /\ f.ip4 = e.ip4 /\ f.duid = e.duid
  BY DEF Entry

\* Most of them are at no send, and touch nothing the properties look at.
IpcIdleStep ==
  \/ IpcBoot \/ IpcReceive \/ IpcNoEntry \/ IpcSkipEntry \/ IpcSettle
  \/ IpcUnlock \/ IpcMqReceive \/ IpcReadWan \/ IpcBusSet \/ IpcWanScan
  \/ IpcStart \/ IpcStartCrash \/ IpcBusGet \/ IpcExec \/ IpcGetPid

LEMMA IpcIdle ==
  ASSUME TypeOK, IpcIdleStep
  PROVE  /\ posted' = posted /\ todo' = todo /\ LostGrows
         /\ \A i \in Ifaces : SameSession(i)
         /\ pc[Ipc] \notin {"post", "stopped", "upost", "execpost"}
<1>1. posted' = posted /\ todo' = todo
  BY DEF IpcIdleStep, IpcBoot, IpcReceive, IpcNoEntry, IpcSkipEntry, IpcSettle, IpcUnlock,
     IpcMqReceive, IpcReadWan, IpcBusSet, IpcWanScan, IpcStart, IpcStartCrash,
     IpcBusGet, IpcExec, IpcGetPid, histVars
<1>2. LostGrows
  <2>1. CASE IpcBusSet
    <3>1. \/ lost' = lost
          \/ lost' = [lost EXCEPT ![ev.iface] = @ \cup {"set"}]
      BY <2>1 DEF IpcBusSet
    <3>2. \A i \in Ifaces : lost'[i] = lost[i] \/ lost'[i] = lost[i] \cup {"set"}
      BY <3>1 DEF TypeOK
    <3>3. QED
      BY <3>2 DEF LostGrows
  <2>2. CASE ~IpcBusSet
    <3>1. lost' = lost
      BY <2>2 DEF IpcIdleStep, IpcBoot, IpcReceive, IpcNoEntry, IpcSkipEntry, IpcSettle,
         IpcUnlock, IpcMqReceive, IpcReadWan, IpcWanScan, IpcStart,
         IpcStartCrash, IpcBusGet, IpcExec, IpcGetPid, histVars
    <3>2. QED
      BY <3>1 DEF LostGrows
  <2>3. QED
    BY <2>1, <2>2
<1>3. \A i \in Ifaces : SameSession(i)
  <2>1. CASE IpcStart
    <3>1. \/ entry' = entry
          \/ entry' = [entry EXCEPT ![ev.iface] = [@ EXCEPT !.pid = NoPid]]
      BY <2>1 DEF IpcStart
    <3>2. \A i \in Ifaces : \/ entry'[i] = entry[i]
                             \/ entry'[i] = [entry[i] EXCEPT !.pid = NoPid]
      BY <3>1 DEF TypeOK
    <3>3. QED
      BY <3>2, FieldsKept DEF SameSession, TypeOK
  <2>2. CASE IpcGetPid
    <3>1. PICK p : entry' = [entry EXCEPT ![ev.iface] =
                               [@ EXCEPT !.pid = p, !.wan = TRUE]]
      BY <2>2 DEF IpcGetPid
    <3>2. \A i \in Ifaces :
            \/ entry'[i] = entry[i]
            \/ entry'[i] = [entry[i] EXCEPT !.pid = p, !.wan = TRUE]
      BY <3>1 DEF TypeOK
    <3>3. \A i \in Ifaces :
            LET f == [entry[i] EXCEPT !.pid = p, !.wan = TRUE]
            IN  /\ f.status = entry[i].status /\ f.conn = entry[i].conn
                /\ f.ip4 = entry[i].ip4 /\ f.duid = entry[i].duid
      BY DEF TypeOK, Entry
    <3>4. QED
      BY <3>2, <3>3 DEF SameSession
  <2>3. CASE ~IpcStart /\ ~IpcGetPid
    <3>1. entry' = entry
      BY <2>3 DEF IpcIdleStep, IpcBoot, IpcReceive, IpcNoEntry, IpcSkipEntry, IpcSettle,
         IpcUnlock, IpcMqReceive, IpcReadWan, IpcBusSet, IpcWanScan,
         IpcStartCrash, IpcBusGet, IpcExec, ifVars
    <3>2. QED
      BY <3>1 DEF SameSession
  <2>4. QED
    BY <2>1, <2>2, <2>3
<1>4. pc[Ipc] \notin {"post", "stopped", "upost", "execpost"}
  BY DEF IpcIdleStep, IpcBoot, IpcReceive, IpcNoEntry, IpcSkipEntry, IpcSettle, IpcUnlock,
     IpcMqReceive, IpcReadWan, IpcBusSet, IpcWanScan, IpcStart, IpcStartCrash,
     IpcBusGet, IpcExec, IpcGetPid, At
<1>5. QED
  BY <1>1, <1>2, <1>3, <1>4

\* What PppMgr_ProcessStateChangedMsg does to an entry and what it sends.
LEMMA StateChangedTells ==
  ASSUME NEW e \in Entry, NEW s \in PppStates, NEW a \in PppArgs, NEW i \in Ifaces
  PROVE  LET f == StateChanged(e, s, a)
             p == StateChangedPosts(i, s)
         IN  /\ f.ip4 = e.ip4 /\ f.duid = e.duid
             /\ f.status = "Up" => e.status = "Up" \/ s = "UP"
             /\ s = "UP" => f.conn \notin Ended
             /\ s \in QuietStates /\ f.conn \in Ended => e.conn \in Ended
             /\ s \notin QuietStates => (f.status = "Up" <=> s = "UP")
             /\ s \in QuietStates => p = << >>
             /\ s \notin QuietStates =>
                  LET v == IF s = "UP" THEN "Up" ELSE "Down"
                  IN  p = << SetEvent(i, "LCP", v), SetEvent(i, "LINK", v) >>
<1> DEFINE f == StateChanged(e, s, a)
<1>1. \A st, c : LET g == LinkChange(e, st, c)
                 IN  /\ g.status = st /\ g.conn = c /\ g.ip4 = e.ip4 /\ g.duid = e.duid
                     /\ g \in [enabled : BOOLEAN, status : {st}, conn : {c},
                               err : ConnErrors,
                               ip4 : {"unset", "partial", "set"},
                               ip6 : BOOLEAN, duid : BOOLEAN,
                               pid : Pids \cup {NoPid}, wan : BOOLEAN]
  BY DEF LinkChange, Entry
<1>2. \A st, c, r : LET g == [LinkChange(e, st, c) EXCEPT !.err = r]
                    IN  /\ g.status = st /\ g.conn = c
                        /\ g.ip4 = e.ip4 /\ g.duid = e.duid
  BY <1>1
<1>3. f.ip4 = e.ip4 /\ f.duid = e.duid
  BY <1>1, <1>2 DEF StateChanged
<1>4. f.status = "Up" => e.status = "Up" \/ s = "UP"
  BY <1>1, <1>2 DEF StateChanged
<1>5. s \notin QuietStates => (f.status = "Up" <=> s = "UP")
  BY <1>1, <1>2 DEF StateChanged, QuietStates
<1>6. s = "UP" => f.conn \notin Ended
  BY <1>1, <1>2 DEF StateChanged, Ended
<1>7. s \in QuietStates /\ f.conn \in Ended => e.conn \in Ended
  BY <1>1, <1>2 DEF StateChanged, QuietStates, Ended
<1>8. QED
  BY <1>3, <1>4, <1>5, <1>6, <1>7 DEF StateChangedPosts

\* A message about the link: what is sent is what the entry says now.
LEMMA StateChangedKeeps ==
  ASSUME TypeOK, MutexInv, MutexInv', TodoSound, IpcStateChanged
  PROVE  TodoSound' /\ SessionKept
<1> DEFINE f == StateChanged(entry[inst], msg.state, msg.arg)
           p == StateChangedPosts(inst, msg.state)
           v == IF msg.state = "UP" THEN "Up" ELSE "Down"
<1>1. /\ pc[Ipc] = "lcp" /\ pc'[Ipc] = "post" /\ inst \in Ifaces
      /\ Acquire(Ipc, inst) /\ posted' = posted /\ lost' = lost
      /\ todo'[Ipc] = p /\ entry'[inst] = f
      /\ \A j \in Ifaces \ {inst} : entry'[j] = entry[j]
  BY Basics DEF IpcStateChanged, At, Goto, TypeOK, histVars
<1>2. StepOf(Ipc)
  BY IpcStays DEF IpcStep
<1>3. todo[Ipc] = << >> /\ Sends(Ipc)'
  BY <1>1, Basics, NothingToSend DEF Sends
<1>4. entry[inst] \in Entry /\ msg.state \in PppStates /\ msg.arg \in PppArgs
  BY <1>1 DEF TypeOK, Message
<1>5. /\ f.ip4 = entry[inst].ip4 /\ f.duid = entry[inst].duid
      /\ f.status = "Up" => entry[inst].status = "Up" \/ msg.state = "UP"
      /\ msg.state = "UP" => f.conn \notin Ended
      /\ msg.state \in QuietStates /\ f.conn \in Ended
           => entry[inst].conn \in Ended
      /\ msg.state \notin QuietStates => (f.status = "Up" <=> msg.state = "UP")
      /\ msg.state \in QuietStates => p = << >>
      /\ msg.state \notin QuietStates =>
           p = << SetEvent(inst, "LCP", v), SetEvent(inst, "LINK", v) >>
  BY <1>1, <1>4, StateChangedTells
<1> HIDE DEF f, p
<1>6. \A n \in 1 .. Len(todo'[Ipc]) :
        /\ todo'[Ipc][n].act = "BUS_SET" /\ todo'[Ipc][n].iface = inst
        /\ todo'[Ipc][n].key \in {"LCP", "LINK"} /\ todo'[Ipc][n].val = v
        /\ entry'[inst].status = "Up" => v = "Up"
        /\ v = "Up" => entry'[inst].conn \notin Ended
  BY <1>1, <1>5 DEF SetEvent
<1>7. \A n \in 1 .. Len(todo'[Ipc]) : Tells(todo[Ipc][n])'
  BY <1>6 DEF Tells
<1>8. \/ entry'[inst].status = "Up" => entry[inst].status = "Up"
      \/ \A k \in {"LCP", "LINK"} : WillSend(Ipc, inst, k, "Up")'
  <2>1. CASE msg.state # "UP"
    BY <1>1, <1>5, <2>1
  <2>2. CASE msg.state = "UP"
    <3>1. p = << SetEvent(inst, "LCP", "Up"), SetEvent(inst, "LINK", "Up") >>
      BY <1>5, <2>2 DEF QuietStates
    <3>2. owner'[inst] = Ipc /\ inst' = inst
      BY <1>1 DEF Acquire, TypeOK, IpcStateChanged, ipcVars
    <3>3. /\ 1 \in 1 .. Len(p) /\ p[1] = SetEvent(inst, "LCP", "Up")
          /\ 2 \in 1 .. Len(p) /\ p[2] = SetEvent(inst, "LINK", "Up")
      BY <3>1
    <3>4. WillSend(Ipc, inst, "LCP", "Up")' /\ WillSend(Ipc, inst, "LINK", "Up")'
      BY <1>1, <3>2, <3>3 DEF WillSend, SetEvent
    <3>5. QED
      BY <3>4
  <2>3. QED
    BY <2>1, <2>2
<1>9. \A j \in Ifaces \ {inst} : SameSession(j)
  BY <1>1 DEF SameSession
<1>10. PICK i \in Ifaces : i = inst /\ i = inst'
  BY <1>1 DEF IpcStateChanged, ipcVars
<1>11. LostGrows
  BY <1>1 DEF LostGrows
<1>12. \/ entry'[inst].conn \in Ended => entry[inst].conn \in Ended
       \/ WillSend(Ipc, inst, "LCP", "Down")'
  <2>1. CASE msg.state \in QuietStates \cup {"UP"}
    BY <1>1, <1>5, <2>1
  <2>2. CASE msg.state \notin QuietStates \cup {"UP"}
    <3>1. p = << SetEvent(inst, "LCP", "Down"), SetEvent(inst, "LINK", "Down") >>
      BY <1>5, <2>2
    <3>2. owner'[inst] = Ipc /\ inst' = inst
      BY <1>1 DEF Acquire, TypeOK, IpcStateChanged, ipcVars
    <3>3. 1 \in 1 .. Len(p) /\ p[1] = SetEvent(inst, "LCP", "Down")
      BY <3>1
    <3>4. QED
      BY <1>1, <3>2, <3>3 DEF WillSend, SetEvent
  <2>3. QED
    BY <2>1, <2>2
<1>13. QED
  BY <1>1, <1>2, <1>3, <1>5, <1>6, <1>7, <1>8, <1>9, <1>10, <1>11, <1>12,
     WriteKeeps, Basics

\* The end of a handler that sends one report: WriteKeeps with a list of one.
LEMMA OneReport ==
  ASSUME TypeOK, MutexInv, MutexInv', TodoSound,
         NEW t \in Threads, StepOf(t), posted' = posted, LostGrows,
         NEW i \in Ifaces, Acquire(t, i), todo[t] = << >>, Sends(t)',
         NEW f \in Entry, entry' = [entry EXCEPT ![i] = f],
         f.status = entry[i].status, f.conn = entry[i].conn,
         NEW k \in {"IPCP", "IPV6CP"}, NEW v \in {"Up", "Down"},
         todo'[t] = << SetEvent(i, k, v) >>,
         IF k = "IPCP"
         THEN f.duid = entry[i].duid /\ (v = "Up" <=> f.ip4 = "set")
         ELSE /\ f.ip4 = entry[i].ip4
              /\ v = "Up" => f.duid \/ "duid" \in lost'[i]
              /\ v = "Up" => (entry[i].duid => f.duid)
  PROVE  TodoSound' /\ SessionKept
<1>1. entry'[i] = f /\ \A j \in Ifaces \ {i} : entry'[j] = entry[j]
  BY DEF TypeOK
<1>2. owner'[i] = t
  BY DEF Acquire, TypeOK
<1>3. /\ 1 \in 1 .. Len(todo'[t]) /\ \A n \in 1 .. Len(todo'[t]) : n = 1
      /\ todo'[t][1] = SetEvent(i, k, v)
  OBVIOUS
<1>4. \A n \in 1 .. Len(todo'[t]) :
        todo'[t][n].act = "BUS_SET" /\ todo'[t][n].iface = i
        /\ Tells(todo[t][n])'
  BY <1>1, <1>3 DEF Tells, SetEvent
<1>5. WillSend(t, i, k, v)'
  BY <1>2, <1>3 DEF WillSend
<1>6. \A j \in Ifaces \ {i} : SameSession(j)
  BY <1>1 DEF SameSession
<1>7. \/ entry[i].ip4 = "set" => entry'[i].ip4 = "set"
      \/ WillSend(t, i, "IPCP", "Down")'
  <2>1. CASE k = "IPCP" /\ v = "Down"
    BY <1>5, <2>1
  <2>2. CASE ~(k = "IPCP" /\ v = "Down")
    BY <1>1, <2>2
  <2>3. QED
    BY <2>1, <2>2
<1>8. \/ entry[i].duid => entry'[i].duid
      \/ WillSend(t, i, "IPV6CP", "Down")'
  <2>1. CASE k = "IPV6CP" /\ v = "Down"
    BY <1>5, <2>1
  <2>2. CASE ~(k = "IPV6CP" /\ v = "Down")
    BY <1>1, <2>2
  <2>3. QED
    BY <2>1, <2>2
<1>9. /\ entry'[i].status = "Up" => entry[i].status = "Up"
      /\ entry'[i].conn \in Ended => entry[i].conn \in Ended
  BY <1>1
<1>10. QED
  BY <1>4, <1>6, <1>7, <1>8, <1>9, WriteKeeps

\* A message about IPv4: Up is sent only of an entry that has all addresses.
LEMMA IpcpParamsKeeps ==
  ASSUME TypeOK, MutexInv, MutexInv', TodoSound, IpcIpcpParams
  PROVE  TodoSound' /\ SessionKept
<1> DEFINE f == IpcpParams(entry[inst], msg.arg)
           v == IF msg.arg = "ok" THEN "Up" ELSE "Down"
<1>1. /\ pc[Ipc] = "ipcp" /\ pc'[Ipc] = "post" /\ inst \in Ifaces
      /\ Acquire(Ipc, inst) /\ posted' = posted /\ lost' = lost
      /\ todo'[Ipc] = IpcpPosts(inst, msg.arg)
      /\ entry' = [entry EXCEPT ![inst] = f] /\ entry[inst] \in Entry
      /\ msg.state \in PppStates /\ msg.arg \in PppArgs
  BY Basics DEF IpcIpcpParams, At, Goto, TypeOK, histVars, Message
<1>2. StepOf(Ipc)
  BY IpcStays DEF IpcStep
<1>3. todo[Ipc] = << >> /\ Sends(Ipc)'
  BY <1>1, Basics, NothingToSend DEF Sends
<1>4. f \in Entry
  BY <1>1, EntryTyping
<1>5. /\ f.status = entry[inst].status /\ f.conn = entry[inst].conn
      /\ f.duid = entry[inst].duid
      /\ v = "Up" <=> f.ip4 = "set"
  BY <1>1 DEF IpcpParams, Entry
<1>6. todo'[Ipc] = << SetEvent(inst, "IPCP", v) >>
  BY <1>1 DEF IpcpPosts, SetIPCPStatusDown
<1>7. v \in {"Up", "Down"} /\ LostGrows
  BY <1>1 DEF LostGrows
<1> HIDE DEF f, v
<1>8. QED
  BY <1>1, <1>2, <1>3, <1>4, <1>5, <1>6, <1>7, OneReport, Basics

\* A message about IPv6: Down is sent when the DUID file is removed, and Up
\* when it was written or could not be.
LEMMA Ipv6cpParamsKeeps ==
  ASSUME TypeOK, MutexInv, MutexInv', TodoSound, IpcIpv6cpParams
  PROVE  TodoSound' /\ SessionKept
<1>1. PICK w \in BOOLEAN :
        /\ entry' = [entry EXCEPT ![inst] =
                       Ipv6cpParams(@, msg.state, msg.arg, w)]
        /\ IF w \/ msg.state # "IPV6CP_COMPLETED"
           THEN UNCHANGED <<lost, nFaults>>
           ELSE Fault /\ lost' = [lost EXCEPT ![inst] = @ \cup {"duid"}]
  BY DEF IpcIpv6cpParams
<1> DEFINE f == Ipv6cpParams(entry[inst], msg.state, msg.arg, w)
           v == IF msg.state = "IPV6CP_COMPLETED" THEN "Up" ELSE "Down"
<1>2. /\ pc[Ipc] = "ipv6cp" /\ pc'[Ipc] = "post" /\ inst \in Ifaces
      /\ Acquire(Ipc, inst) /\ posted' = posted
      /\ todo'[Ipc] = Ipv6cpPosts(inst, msg.state)
      /\ entry' = [entry EXCEPT ![inst] = f] /\ entry[inst] \in Entry
      /\ msg.state \in PppStates /\ msg.arg \in PppArgs
  BY <1>1, Basics DEF IpcIpv6cpParams, At, Goto, TypeOK, Message
<1>3. StepOf(Ipc)
  BY IpcStays DEF IpcStep
<1>4. todo[Ipc] = << >> /\ Sends(Ipc)'
  BY <1>2, Basics, NothingToSend DEF Sends
<1>5. f \in Entry
  BY <1>2, EntryTyping
<1>6. /\ f.status = entry[inst].status /\ f.conn = entry[inst].conn
      /\ f.ip4 = entry[inst].ip4
  BY <1>2 DEF Ipv6cpParams, Entry
<1>7. v = "Up" => (entry[inst].duid => f.duid) /\ (w => f.duid)
  BY <1>2 DEF Ipv6cpParams, Entry
<1>8. v = "Up" => w \/ "duid" \in lost'[inst]
  BY <1>1, <1>2 DEF TypeOK
<1>9. LostGrows
  BY <1>1, <1>2 DEF LostGrows, TypeOK
<1>10. todo'[Ipc] = << SetEvent(inst, "IPV6CP", v) >>
  BY <1>2 DEF Ipv6cpPosts, SetIPv6CPStatusDown
<1>11. v \in {"Up", "Down"}
  OBVIOUS
<1> HIDE DEF f, v
<1>12. v = "Up" => f.duid \/ "duid" \in lost'[inst]
  BY <1>7, <1>8
<1>13. QED
  BY <1>2, <1>3, <1>4, <1>5, <1>6, <1>7, <1>9, <1>10, <1>11, <1>12,
     OneReport, Basics

\* Every step of the IPC thread keeps what is sent true.
LEMMA IpcKeeps ==
  ASSUME TypeOK, MutexInv, MutexInv', TodoSound, IpcStep
  PROVE  TodoSound' /\ SessionKept
<1>1. StepOf(Ipc) /\ Ipc \in Threads
  BY IpcStays, Basics
<1>2. CASE IpcIdleStep
  BY <1>1, <1>2, IpcIdle, IdleKeeps
<1>3. CASE IpcFindPid
  <2>1. /\ pc[Ipc] = "find" /\ posted' = posted /\ lost' = lost
        /\ entry' = entry
    BY <1>3 DEF IpcFindPid, At, histVars
  <2>2. todo[Ipc] = << >>
    BY <1>1, <2>1, NothingToSend
  <2>3. \/ todo'[Ipc] = << >>
        \/ todo'[Ipc] = <<SetIPCPStatusDown(inst)>> /\ pc'[Ipc] = "upost"
    BY <1>1, <1>3, <2>2 DEF IpcFindPid, Goto, TypeOK
  <2>4. \A n \in 1 .. Len(todo'[Ipc]) : Justified(Ipc, todo[Ipc][n])'
    <3>1. CASE todo'[Ipc] = << >>
      BY <3>1
    <3>2. CASE todo'[Ipc] = <<SetIPCPStatusDown(inst)>> /\ pc'[Ipc] = "upost"
      <4>1. \A n \in 1 .. Len(todo'[Ipc]) :
              todo'[Ipc][n] = SetIPCPStatusDown(inst)
        BY <3>2
      <4>2. QED
        BY <3>2, <4>1 DEF Justified, SetIPCPStatusDown, SetEvent
    <3>3. QED
      BY <2>3, <3>1, <3>2
  <2>5. LostGrows /\ \A i \in Ifaces : SameSession(i)
    BY <2>1 DEF LostGrows, SameSession
  <2>6. QED
    BY <1>1, <2>1, <2>2, <2>4, <2>5, QuietKeeps
<1>4. CASE IpcStateChanged
  BY <1>4, StateChangedKeeps
<1>5. CASE IpcIpcpParams
  BY <1>5, IpcpParamsKeeps
<1>6. CASE IpcIpv6cpParams
  BY <1>6, Ipv6cpParamsKeeps
<1>7. CASE IpcSend
  <2>1. /\ Send(Ipc) /\ todo' = [todo EXCEPT ![Ipc] = Tail(@)]
        /\ UNCHANGED <<pc, entry, owner, lost>>
    BY <1>7 DEF IpcSend, ifVars
  <2>2. Head(todo[Ipc]).act = "BUS_SET"
    BY <1>1, <2>1, HeadJustified DEF Send, Justified
  <2>3. QED
    BY <1>1, <2>1, <2>2, SendKeeps DEF Send
<1>8. CASE IpcSendFails
  <2>1. /\ SendFails(Ipc) /\ todo'[Ipc] = << >> /\ todo[Ipc] # << >>
        /\ pc[Ipc] \in {"post", "upost"} /\ posted' = posted
        /\ UNCHANGED <<entry, owner>>
    BY <1>1, <1>8 DEF IpcSendFails, At, ifVars, SendFails, TypeOK
  <2>2. /\ Head(todo[Ipc]).act = "BUS_SET" /\ Head(todo[Ipc]) \in Event
        /\ Justified(Ipc, Head(todo[Ipc]))
    BY <1>1, <2>1, HeadJustified DEF Justified
  <2>3. LostGrows /\ \A i \in Ifaces : SameSession(i)
    BY <2>1, <2>2 DEF LostGrows, SameSession, SendFails, TypeOK
  <2>4. \A n \in 1 .. Len(todo'[Ipc]) : Justified(Ipc, todo[Ipc][n])'
    BY <2>1
  <2>5. TodoSound'
    BY <1>1, <2>3, <2>4, OthersJustified DEF TodoSound
  <2>6. CASE pc[Ipc] = "post"
    BY <1>1, <2>1, <2>2, <2>5, <2>6, FailKeeps DEF Sends
  <2>7. CASE pc[Ipc] = "upost"
    BY <1>1, <2>1, <2>3, <2>4, <2>7, QuietKeeps DEF Sends
  <2>8. QED
    BY <2>1, <2>5, <2>6, <2>7
<1>9. CASE IpcSent
  <2>1. /\ todo[Ipc] = << >> /\ todo' = todo /\ posted' = posted
        /\ lost' = lost /\ entry' = entry
    BY <1>9 DEF IpcSent, histVars, ifVars
  <2>2. LostGrows /\ \A i \in Ifaces : SameSession(i)
    BY <2>1 DEF LostGrows, SameSession
  <2>3. \A n \in 1 .. Len(todo'[Ipc]) : Justified(Ipc, todo[Ipc][n])'
    BY <2>1
  <2>4. QED
    BY <1>1, <2>1, <2>2, <2>3, QuietKeeps
<1>10. QED
  BY <1>2, <1>3, <1>4, <1>5, <1>6, <1>7, <1>8, <1>9 DEF IpcStep, IpcIdleStep

-----------------------------------------------------------------------------
(* The steps of the bus threads.                                           *)

\* PppMgr_StopPppClient sends Down for all that it resets.
LEMMA DmlStopKeeps ==
  ASSUME TypeOK, MutexInv, MutexInv', TodoSound,
         NEW t \in DmlThreads, DmlStop(t)
  PROVE  TodoSound' /\ SessionKept
<1> DEFINE i == call[t].iface
           f == SessionReset(entry[i], ~UsePppDaemon)
<1>1. t \in Threads /\ t # Ipc /\ i \in Ifaces
  BY Basics DEF TypeOK, Calls
<1>2. /\ pc[t] = "stop" /\ pc'[t] = "stopped"
      /\ Acquire(t, i) /\ posted' = posted /\ lost' = lost
      /\ todo'[t] = StopPosts(i) /\ entry'[i] = f
      /\ \A j \in Ifaces \ {i} : entry'[j] = entry[j]
  BY <1>1 DEF DmlStop, At, Goto, TypeOK, histVars
<1>3. StepOf(t)
  BY DmlStays DEF DmlRun
<1>4. todo[t] = << >> /\ Sends(t)'
  BY <1>1, <1>2, NothingToSend DEF Sends
<1>5. f.status = "Down" /\ f.duid = entry[i].duid
  BY <1>1 DEF SessionReset, TypeOK, Entry
<1>6. /\ 1 \in 1 .. Len(StopPosts(i)) /\ 2 \in 1 .. Len(StopPosts(i))
      /\ StopPosts(i)[1] = SetEvent(i, "LCP", "Down")
      /\ StopPosts(i)[2] = SetEvent(i, "IPCP", "Down")
      /\ \A n \in 1 .. Len(StopPosts(i)) :
           /\ StopPosts(i)[n].act = "BUS_SET" /\ StopPosts(i)[n].iface = i
           /\ StopPosts(i)[n].val = "Down"
  BY DEF StopPosts, SetLinkStatusDown, SetIPCPStatusDown, SetIPv6CPStatusDown,
     SetEvent
<1> HIDE DEF f
<1>7. owner'[i] = t
  BY <1>1, <1>2 DEF Acquire, TypeOK
<1>8. WillSend(t, i, "IPCP", "Down")' /\ WillSend(t, i, "LCP", "Down")'
  <2>1. call' = call
    BY DEF DmlStop
  <2>2. QED
    BY <1>2, <1>6, <1>7, <2>1 DEF WillSend, SetEvent
<1>9. \A n \in 1 .. Len(todo'[t]) :
        todo'[t][n].act = "BUS_SET" /\ todo'[t][n].iface = i
        /\ Tells(todo[t][n])'
  BY <1>2, <1>5, <1>6 DEF Tells
<1>10. \A j \in Ifaces \ {i} : SameSession(j)
  BY <1>2 DEF SameSession
<1>11. LostGrows
  BY <1>2 DEF LostGrows
<1>12. PICK k \in Ifaces : /\ k = i /\ WillSend(t, k, "IPCP", "Down")'
                            /\ WillSend(t, k, "LCP", "Down")'
  BY <1>1, <1>8 DEF DmlStop
<1>13. QED
  BY <1>1, <1>2, <1>3, <1>4, <1>5, <1>9, <1>10, <1>11, <1>12, WriteKeeps

\* Between its two unlocks PppMgr_StopPppClient keeps the entry locked.
LEMMA DmlStoppedKeeps ==
  ASSUME TypeOK, MutexInv, MutexInv', TodoSound,
         NEW t \in DmlThreads, DmlStopped(t)
  PROVE  TodoSound' /\ SessionKept
<1>1. t \in Threads /\ t # Ipc /\ call[t].iface \in Ifaces
  BY Basics DEF TypeOK, Calls
<1>2. /\ pc[t] = "stopped" /\ pc'[t] = "post" /\ Release(t, call[t].iface)
      /\ todo' = todo /\ posted' = posted /\ lost' = lost /\ entry' = entry
  BY <1>1 DEF DmlStopped, At, Goto, TypeOK, histVars
<1>3. StepOf(t)
  BY DmlStays DEF DmlRun
<1>4. owner[call[t].iface] = t /\ depth[call[t].iface] = 2
  <2>1. Holds(t, call[t].iface)
    BY <1>1, <1>2 DEF Holds, DmlPcs
  <2>2. QED
    BY <1>1, <1>2, <2>1, Basics DEF MutexInv, LockDepth
<1>5. owner' = owner
  BY <1>1, <1>2, <1>4 DEF Release, TypeOK
<1>6. LostGrows /\ \A i \in Ifaces : SameSession(i)
  BY <1>2 DEF LostGrows, SameSession
<1>7. \A n \in 1 .. Len(todo'[t]) : Justified(t, todo[t][n])'
  <2> SUFFICES ASSUME NEW n \in 1 .. Len(todo'[t])
               PROVE  Justified(t, todo[t][n])'
    OBVIOUS
  <2>1. Justified(t, todo[t][n])
    BY <1>1, <1>2 DEF TodoSound
  <2>2. QED
    BY <1>1, <1>2, <1>5, <2>1 DEF Justified, Sends, Tells
<1>8. QED
  BY <1>1, <1>2, <1>3, <1>5, <1>6, <1>7, QuietKeeps

\* The sends of PppMgr_StopPppClient, one by one whether they fail or not.
LEMMA DmlSendKeeps ==
  ASSUME TypeOK, MutexInv, MutexInv', TodoSound,
         NEW t \in DmlThreads, DmlSend(t)
  PROVE  TodoSound' /\ SessionKept
<1>1. t \in Threads /\ t # Ipc
  BY Basics
<1>2. /\ pc[t] = "post" /\ todo[t] # << >>
      /\ todo' = [todo EXCEPT ![t] = Tail(@)]
      /\ UNCHANGED <<pc, entry, owner>>
  BY DEF DmlSend, At, ifVars, Send, SendFails
<1>3. StepOf(t)
  BY DmlStays DEF DmlRun
<1>4. Head(todo[t]).act = "BUS_SET" /\ Head(todo[t]) \in Event /\ Sends(t)
  BY <1>1, <1>2, HeadJustified DEF Justified, Sends
<1>5. CASE Send(t) /\ UNCHANGED <<lost, nFaults>>
  BY <1>1, <1>2, <1>3, <1>4, <1>5, SendKeeps DEF Send
<1>6. CASE SendFails(t) /\ UNCHANGED <<queue, posted>>
  <2>1. LostGrows
    BY <1>4, <1>6 DEF LostGrows, SendFails, TypeOK
  <2>2. TodoSound'
    BY <1>1, <1>2, <1>3, <2>1, TailJustified
  <2>3. QED
    BY <1>1, <1>2, <1>3, <1>4, <1>6, <2>2, FailKeeps
<1>7. QED
  BY <1>5, <1>6 DEF DmlSend

\* The order to start a client is no report.
LEMMA DmlExecKeeps ==
  ASSUME TypeOK, MutexInv, MutexInv', TodoSound, NEW t \in DmlThreads,
         DmlStart(t) \/ DmlExecSend(t) \/ DmlExecSent(t) \/ DmlExecSendFails(t)
  PROVE  TodoSound' /\ SessionKept
<1>1. t \in Threads /\ t # Ipc
  BY Basics
<1>2. StepOf(t)
  BY DmlStays DEF DmlRun
<1>3. ~Sends(t)
  BY <1>1 DEF DmlStart, DmlExecSend, DmlExecSent, DmlExecSendFails, At, Sends
<1>4. CASE DmlStart(t)
  <2>1. /\ pc'[t] = "execpost" /\ todo'[t] = <<ExecEvent(call[t].iface)>>
        /\ posted' = posted /\ lost' = lost /\ entry' = entry
    BY <1>1, <1>4 DEF DmlStart, Goto, TypeOK, histVars
  <2>2. \A n \in 1 .. Len(todo'[t]) : todo'[t][n] = ExecEvent(call[t].iface)
    BY <2>1
  <2>3. \A n \in 1 .. Len(todo'[t]) : Justified(t, todo[t][n])'
    BY <1>1, <2>1, <2>2 DEF Justified, ExecEvent
  <2>4. LostGrows /\ \A i \in Ifaces : SameSession(i)
    BY <2>1 DEF LostGrows, SameSession
  <2>5. QED
    BY <1>1, <1>2, <1>3, <2>1, <2>3, <2>4, QuietKeeps
<1>5. CASE DmlExecSend(t) \/ DmlExecSendFails(t)
  <2>1. pc[t] = "execpost" /\ todo'[t] = << >> /\ todo[t] # << >> /\ entry' = entry
    BY <1>1, <1>5 DEF DmlExecSend, DmlExecSendFails, At, Send, SendFails,
       TypeOK, ifVars
  <2>2. Head(todo[t]).act = "EXEC_PPP_CLIENT"
    BY <1>1, <2>1, HeadJustified DEF Justified, Sends
  <2>3. posted' = posted /\ lost' = lost
    BY <1>5, <2>2 DEF DmlExecSend, DmlExecSendFails, Send, SendFails
  <2>4. LostGrows /\ \A i \in Ifaces : SameSession(i)
    BY <2>1, <2>3 DEF LostGrows, SameSession
  <2>5. \A n \in 1 .. Len(todo'[t]) : Justified(t, todo[t][n])'
    BY <2>1
  <2>6. QED
    BY <1>1, <1>2, <1>3, <2>3, <2>4, <2>5, QuietKeeps
<1>6. CASE DmlExecSent(t)
  <2>1. /\ todo[t] = << >> /\ todo' = todo /\ posted' = posted /\ lost' = lost
        /\ entry' = [entry EXCEPT ![call[t].iface] = [@ EXCEPT !.enabled = TRUE]]
    BY <1>6 DEF DmlExecSent, histVars
  <2>2. \A i \in Ifaces : \/ entry'[i] = entry[i]
                         \/ entry'[i] = [entry[i] EXCEPT !.enabled = TRUE]
    BY <2>1 DEF TypeOK
  <2>3. \A i \in Ifaces : LET f == [entry[i] EXCEPT !.enabled = TRUE]
                         IN  /\ f.status = entry[i].status
                             /\ f.conn = entry[i].conn
                             /\ f.ip4 = entry[i].ip4 /\ f.duid = entry[i].duid
    BY DEF TypeOK, Entry
  <2>4. LostGrows /\ \A i \in Ifaces : SameSession(i)
    BY <2>1, <2>2, <2>3 DEF LostGrows, SameSession
  <2>5. \A n \in 1 .. Len(todo'[t]) : Justified(t, todo[t][n])'
    BY <2>1
  <2>6. QED
    BY <1>1, <1>2, <1>3, <2>1, <2>4, <2>5, QuietKeeps
<1>7. QED
  BY <1>4, <1>5, <1>6

\* Every step of a data model call keeps what is sent true.
LEMMA DmlKeeps ==
  ASSUME TypeOK, MutexInv, MutexInv', TodoSound,
         NEW t \in DmlThreads, DmlRun(t) \/ DmlCall(t)
  PROVE  TodoSound' /\ SessionKept
<1>1. t \in Threads /\ StepOf(t)
  BY DmlStays, Basics
<1>2. CASE DmlCall(t) \/ DmlLock(t) \/ DmlDispatch(t) \/ DmlNoEntry(t)
           \/ DmlReturn(t)
  <2>1. /\ pc[t] \notin {"post", "stopped", "upost", "execpost"}
        /\ todo' = todo /\ posted' = posted /\ lost' = lost /\ entry' = entry
    BY <1>2 DEF DmlCall, DmlLock, DmlDispatch, DmlNoEntry, DmlReturn, At,
       histVars, ifVars
  <2>2. LostGrows /\ \A i \in Ifaces : SameSession(i)
    BY <2>1 DEF LostGrows, SameSession
  <2>3. QED
    BY <1>1, <2>1, <2>2, IdleKeeps
<1>3. CASE DmlSent(t)
  <2>1. /\ todo[t] = << >> /\ todo' = todo /\ posted' = posted /\ lost' = lost
        /\ entry' = entry
    BY <1>3 DEF DmlSent, histVars, ifVars
  <2>2. LostGrows /\ \A i \in Ifaces : SameSession(i)
    BY <2>1 DEF LostGrows, SameSession
  <2>3. \A n \in 1 .. Len(todo'[t]) : Justified(t, todo[t][n])'
    BY <2>1
  <2>4. QED
    BY <1>1, <2>1, <2>2, <2>3, QuietKeeps
<1>4. QED
  BY <1>2, <1>3, DmlStopKeeps, DmlStoppedKeeps, DmlSendKeeps, DmlExecKeeps
     DEF DmlRun

-----------------------------------------------------------------------------
(* The theorems.                                                           *)

\* A PPP client, and a step that changes nothing.
LEMMA ClientKeeps ==
  ASSUME TypeOK, TodoSound, LostGrows,
         UNCHANGED <<entry, owner, pc, todo, posted>>
  PROVE  TodoSound' /\ SessionKept
<1>1. TodoSound'
  <2> SUFFICES ASSUME NEW t \in Threads, NEW n \in 1 .. Len(todo[t])
               PROVE  Justified(t, todo[t][n])'
    BY DEF TodoSound
  <2>1. Justified(t, todo[t][n])
    BY DEF TodoSound
  <2>2. todo[t][n].iface \in Ifaces
    BY DEF TypeOK, Event, SetEvents, ExecEvents
  <2>3. Tells(todo[t][n]) => Tells(todo[t][n])'
    BY <2>2 DEF Tells, LostGrows
  <2>4. QED
    BY <2>1, <2>3 DEF Justified, Sends
<1>2. SessionKept
  BY DEF SessionKept, UpIsReported, EndIsReported, Ipv4BehindUp, DuidBehindUp,
     Pending, LostGrows
<1>3. QED
  BY <1>1, <1>2

LEMMA NextKeeps ==
  TypeOK /\ MutexInv /\ MutexInv' /\ TodoSound /\ [Next]_vars
    => TodoSound' /\ SessionKept
<1> SUFFICES ASSUME TypeOK, MutexInv, MutexInv', TodoSound,
                    [Next]_vars
             PROVE  TodoSound' /\ SessionKept
  OBVIOUS
<1>1. CASE IpcStep
  BY <1>1, IpcKeeps
<1>2. ASSUME NEW t \in DmlThreads, DmlCall(t) \/ DmlRun(t)
      PROVE  TodoSound' /\ SessionKept
  BY <1>2, DmlKeeps
<1>3. ASSUME NEW p \in Pids, ClientSends(p) \/ ClientExits(p)
      PROVE  TodoSound' /\ SessionKept
  BY <1>3, ClientKeeps DEF ClientSends, ClientExits, ifVars, histVars, LostGrows
<1>4. CASE Halted \/ UNCHANGED vars
  BY <1>4, ClientKeeps DEF Halted, vars, LostGrows
<1>5. QED
  BY <1>1, <1>2, <1>3, <1>4 DEF Next

LEMMA InitKeeps == Init => TodoSound /\ SessionInv
<1> SUFFICES ASSUME Init PROVE TodoSound /\ SessionInv
  OBVIOUS
<1>1. TodoSound
  BY DEF Init, TodoSound
<1>2. \A i \in Ifaces : entry[i].status = "Zero"
  BY DEF Init, InitEntry
<1>3. \A i \in Ifaces : \A k \in {"LCP", "IPCP", "IPV6CP"} : posted[i][k] = "Zero"
  BY DEF Init, Keys
<1>4. QED
  BY <1>1, <1>2, <1>3 DEF SessionInv, UpIsReported, EndIsReported,
     Ipv4BehindUp, DuidBehindUp

\* TodoSound and the four properties, with the mutex that makes them hold.
THEOREM SessionIsInductive == Spec => [](TodoSound /\ SessionInv)
<1>1. Init => TodoSound /\ SessionInv
  BY InitKeeps
<1>2. /\ TypeOK /\ MutexInv /\ MutexInv' /\ (TodoSound /\ SessionInv) /\ [Next]_vars
      => (TodoSound /\ SessionInv)'
  BY NextKeeps DEF SessionInv, SessionKept
<1>3. QED
  BY <1>1, <1>2, Typing, MutexIsInductive, PTL DEF Spec

\* An interface is Up only when WanManager was told, or is about to be, for
\* any number of interfaces, threads and clients and any capacity of the queue.
THEOREM StatusIsReported == Spec => []UpIsReported
<1>1. TodoSound /\ SessionInv => UpIsReported
  BY DEF SessionInv
<1>2. QED
  BY <1>1, SessionIsInductive, PTL

\* The end of a session is reported, by whichever of the message and the stop
\* that end it comes first.
THEOREM EndsAreReported == Spec => []EndIsReported
<1>1. TodoSound /\ SessionInv => EndIsReported
  BY DEF SessionInv
<1>2. QED
  BY <1>1, SessionIsInductive, PTL

\* IPCP Up is never left behind when the addresses are gone.
THEOREM Ipv4IsReported == Spec => []Ipv4BehindUp
<1>1. TodoSound /\ SessionInv => Ipv4BehindUp
  BY DEF SessionInv
<1>2. QED
  BY <1>1, SessionIsInductive, PTL

\* IPV6CP Up is never left behind when the DUID file is gone.
THEOREM DuidIsReported == Spec => []DuidBehindUp
<1>1. TodoSound /\ SessionInv => DuidBehindUp
  BY DEF SessionInv
<1>2. QED
  BY <1>1, SessionIsInductive, PTL
===============================================================================
