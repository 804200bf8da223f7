---------------------------- MODULE MCPppConfig ----------------------------
(***************************************************************************)
(* Small instances of PppConfig for TLC.                                   *)
(***************************************************************************)
EXTENDS PppConfig, TLC

Request(i, object, sets) == [iface |-> i, object |-> object, sets |-> sets]

\* Two saved parameters, the second cut to zero; a refused setting after an
\* accepted one; an object without saved parameters.
OneIface ==
  {Request(1, "Interface", <<<<"IdleDisconnectTime", 2>>, <<"MaxMRUSize", 2>>>>),
   Request(1, "Interface", <<<<"MaxMRUSize", 2>>, <<"Username", 0>>>>),
   Request(1, "PPPoE", <<<<"ACName", 2>>>>)}

OneName  == [i \in Ifaces |-> "ppp0"]
ChapOnly == [i \in Ifaces |-> "CHAP"]

=============================================================================
