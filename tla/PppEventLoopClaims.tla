-------------------------- MODULE PppEventLoopClaims --------------------------
(***************************************************************************)
(* What comments and messages of the code say of the running manager and   *)
(* its steps do not keep up.  Each of these is the subject of one run that *)
(* is expected to find a violation; PROJECT.json quotes the line.          *)
(***************************************************************************)
EXTENDS PppEventLoop

\* A thread that waits in mq_send on a full queue.
BlockedInSend(t) == /\ todo[t] # << >> /\ Len(queue) = QueueCap
                    /\ pc[t] \in {"post", "upost", "execpost"}

\* The mutex the IPC thread needs for its next step.
IpcWaitsFor(i) == \/ pc[Ipc] \in {"find", "lcp", "ipcp", "ipv6cp"} /\ inst = i
                  \/ pc[Ipc] \in {"read", "start"} /\ ev.iface = i

\* The comment in PppMgr_ProcessStateChangedMsg says that sending the set to
\* the queue avoids a deadlock.  The only thread that empties the queue never
\* waits for room in it, or for a mutex whose holder waits for room in it.
QueueNeverDeadlocks ==
  /\ ~BlockedInSend(Ipc)
  /\ \A i \in Ifaces, t \in DmlThreads :
       IpcWaitsFor(i) /\ owner[i] = t => ~BlockedInSend(t)

\* The same comment: nothing that WanManager's mutex is needed for is done
\* with the mutex of the entry.  There is no moment at which the IPC thread
\* has the entry and waits for WanManager while WanManager's call waits for
\* the entry.
NoLockCycle ==
  \A t \in DmlThreads :
    ~ /\ pc[Ipc] = "busget" /\ wanLock = t
      /\ pc[t] = "lock" /\ owner[call[t].iface] = Ipc

\* "disabling PPP client on instance": a client is only ever started for an
\* interface that is enabled at that moment.
StartsOnlyEnabled ==
  [][\A p \in Pids : proc[p] = "free" /\ proc'[p] = "running" =>
       entry[client'[p]].enabled]_vars

\* "reset all session data": an interface that was disabled, with its client
\* killed and forgotten, is not Up.
DisabledIsNotUp ==
  \A i \in Ifaces : ~entry[i].enabled /\ entry[i].pid = NoPid =>
                    entry[i].status # "Up"
===============================================================================
