---------------------------- MODULE MCPppEventLoop ----------------------------
(* Payloads of the PPP clients for the runs of PppEventLoop.               *)
EXTENDS PppEventLoopClaims, PppReports, TLC

\* One message for each way of changing what is reported to WanManager.
ReportPayloads ==
  {<<"UP", "none">>, <<"CONNECTING", "none">>, <<"DOWN", "HANGUP">>,
   <<"AUTH_FAILED", "none">>, <<"IPCP_COMPLETED", "ok">>,
   <<"IPCP_COMPLETED", "no_dns">>, <<"IPCP_FAILED", "none">>,
   <<"IPV6CP_COMPLETED", "ids">>, <<"IPV6CP_FAILED", "none">>}

\* A session that comes up and goes down.
SessionPayloads ==
  {<<"UP", "none">>, <<"DOWN", "USER_REQUEST">>, <<"IPCP_COMPLETED", "ok">>}

\* Bus threads are interchangeable, and so are process identifiers.
Symmetry == Permutations(DmlThreads) \cup Permutations(Pids)
===============================================================================
