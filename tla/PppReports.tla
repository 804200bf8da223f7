------------------------------ MODULE PppReports ------------------------------
(***************************************************************************)
(* The event loop implements the channel of ReportChannel.  The channel's  *)
(* content is the queue and, before it, the event that the IPC thread has  *)
(* taken from the queue and not yet set; what is sent counts from the      *)
(* mq_send, what is delivered from the set over the bus.                   *)
(***************************************************************************)
EXTENDS PppEventLoop

\* The interfaces of which a set over the bus has failed.
SetLost == {i \in Ifaces : "set" \in lost[i]}

Channel == INSTANCE ReportChannel WITH
  chan <- InFlight, sent <- posted, value <- wan, lossy <- SetLost

\* Every step of the IPC thread, of the bus threads and of their environment is
\* a step of the channel or leaves it alone: no order of the sends of
\* PppMgr_SendDataToQ, of the receive, the unlocked wait for the mutex and the
\* set of PppMgr_ProcessPppEvent reorders, invents, repeats or drops a report,
\* other than by a set that fails.
ImplementsChannel == Channel!ChannelSpec
===============================================================================
