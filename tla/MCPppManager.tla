----------------------------- MODULE MCPppManager -----------------------------
(* Payloads of the PPP clients for the runs of PppManager.                 *)
EXTENDS PppManager, PppReports, TLC

\* A session that comes up.
UpPayloads == {<<"UP", "none">>, <<"IPCP_COMPLETED", "ok">>,
               <<"IPV6CP_COMPLETED", "ids">>}
===============================================================================
