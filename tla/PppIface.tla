------------------------------- MODULE PppIface -------------------------------
(***************************************************************************)
(* The entry of one PPP interface (DML_PPP_IF_FULL of pppmgr_dml.h) and    *)
(* what each message of a PPP client does to it: the pure part of          *)
(* pppmgr_ipc.c and of PppMgr_StopPppClient.  An entry is a record of the  *)
(* fields the properties tell apart; addresses, identifiers and names are  *)
(* reduced to whether they are there.  The session identifier, the rates,  *)
(* the AC name and LastChange are left out.                                *)
(***************************************************************************)
EXTENDS Naturals, Sequences

CONSTANTS NumIfaces,     \* dmsb.pppmanager.pppifcount, the size of PppTable
          Pids,          \* process identifiers of PPP clients
          NoPid          \* pppPid 0

ASSUME NumIfacesAssumption == NumIfaces \in Nat \ {0}
ASSUME PidsAssumption == NoPid \notin Pids

Ifaces == 1 .. NumIfaces

-----------------------------------------------------------------------------
(* WanManager parameters and the events that ask for them to be set.       *)

\* PPP_LCP_STATUS_PARAM_NAME, PPP_LINK_STATUS_PARAM_NAME, PPP_IPCP_STATUS_...
\* and PPP_IPV6CP_STATUS_PARAM_NAME, of the build without unification.
Keys == {"LCP", "LINK", "IPCP", "IPV6CP"}

\* PPPEventQData: PPPMGR_BUS_SET carries a key and a value, and
\* PPPMGR_EXEC_PPP_CLIENT only the instance.
SetEvents  == [act : {"BUS_SET"}, iface : Ifaces, key : Keys, val : {"Up", "Down"}]
ExecEvents == [act : {"EXEC_PPP_CLIENT"}, iface : Ifaces,
               key : {"null"}, val : {"null"}]
Event == SetEvents \cup ExecEvents

SetEvent(i, k, v) == [act |-> "BUS_SET", iface |-> i, key |-> k, val |-> v]
ExecEvent(i) == [act |-> "EXEC_PPP_CLIENT", iface |-> i,
                 key |-> "null", val |-> "null"]

\* Mutant: the link is reported down, as the name says, and LCP is not.
SetLinkOnlyDown(i) == SetEvent(i, "LINK", "Down")

\* The helpers PppMgr_SetLinkStatusDown, PppMgr_SetIPCPStatusDown and
\* PppMgr_SetIPv6CPStatusDown.  The first one uses the LCP parameter.
SetLinkStatusDown(i)   == SetEvent(i, "LCP", "Down")
SetIPCPStatusDown(i)   == SetEvent(i, "IPCP", "Down")
SetIPv6CPStatusDown(i) == SetEvent(i, "IPV6CP", "Down")

-----------------------------------------------------------------------------
(* Messages of a PPP client: its process identifier, the state it reports  *)
(* and the part of the payload the handler looks at.                       *)

LcpStates == {"UP", "DOWN", "UNCONFIGURED", "CONNECTING", "AUTHENTICATING",
              "PENDING_DISCONNET", "DISCONNECTING", "DISCONNECTED",
              "LCP_ECHO_FAILED", "AUTH_FAILED", "LCP_AUTH_COMPLETED"}
IpcpStates   == {"IPCP_COMPLETED", "IPCP_FAILED"}
Ipv6cpStates == {"IPV6CP_COMPLETED", "IPV6CP_FAILED"}

\* "OTHER" is any other state, or another msg_type: both are ignored.
PppStates == LcpStates \cup IpcpStates \cup Ipv6cpStates \cup {"OTHER"}

\* exitStatus of DOWN and DISCONNECTED; whether the addresses of
\* IPCP_COMPLETED are there and parse; whether IPV6CP_COMPLETED has
\* interface identifiers; nothing for the others.
PppArgs == {"none", "USER_REQUEST", "PEER_AUTH_FAILED", "AUTH_TOPEER_FAILED",
            "HANGUP", "OTHER_EXIT", "ok", "missing", "bad_ip", "bad_gateway",
            "no_dns", "ids"}

ArgsOf(s) ==
  CASE s \in {"DOWN", "DISCONNECTED"} ->
         {"USER_REQUEST", "PEER_AUTH_FAILED", "AUTH_TOPEER_FAILED", "HANGUP",
          "OTHER_EXIT"}
    [] s = "IPCP_COMPLETED"   -> {"ok", "missing", "bad_ip", "bad_gateway",
                                  "no_dns"}
    [] s = "IPV6CP_COMPLETED" -> {"ids", "none"}
    [] OTHER                  -> {"none"}

Message == [pid : Pids \cup {NoPid}, state : PppStates, arg : PppArgs]
ZeroMessage == [pid |-> NoPid, state |-> "OTHER", arg |-> "none"]

-----------------------------------------------------------------------------
(* The entry.                                                              *)

Statuses    == {"Zero", "Up", "Down", "Error"}
ConnStatus  == {"Zero", "Unconfigured", "Connecting", "Authenticating",
                "Connected", "Disconnecting", "Disconnected",
                "AuthenticationFailed"}
ConnErrors  == {"Zero", "NONE", "USER_DISCONNECT", "AUTHENTICATION_FAILURE",
                "ISP_TIME_OUT", "UNKNOWN"}

Entry == [enabled : BOOLEAN,                     \* Cfg.bEnabled
          status  : Statuses,                    \* Info.Status
          conn    : ConnStatus,                  \* Info.ConnectionStatus
          err     : ConnErrors,                  \* Info.LastConnectionError
          ip4     : {"unset", "partial", "set"}, \* addresses and DNS servers
          ip6     : BOOLEAN,                     \* interface identifiers
          duid    : BOOLEAN,                     \* the DUID file of Info.Name
          pid     : Pids \cup {NoPid},           \* Info.pppPid
          wan     : BOOLEAN]                     \* Cfg.Wan*Instance are known

\* The table is allocated zeroed.
InitEntry == [enabled |-> FALSE, status |-> "Zero", conn |-> "Zero",
              err |-> "Zero", ip4 |-> "unset", ip6 |-> FALSE,
              duid |-> FALSE, pid |-> NoPid, wan |-> FALSE]

\* The connection error a DOWN or DISCONNECTED message leaves.
ExitError(arg) ==
  CASE arg = "USER_REQUEST"                               -> "USER_DISCONNECT"
    [] arg \in {"PEER_AUTH_FAILED", "AUTH_TOPEER_FAILED"} ->
                                                  "AUTHENTICATION_FAILURE"
    [] arg = "HANGUP"                                     -> "ISP_TIME_OUT"
    [] OTHER                                              -> "UNKNOWN"

LinkChange(e, s, c) == [e EXCEPT !.status = s, !.conn = c]

\* The switch of PppMgr_ProcessStateChangedMsg.
StateChanged(e, state, arg) ==
  CASE state = "UNCONFIGURED"   -> LinkChange(e, "Error", "Unconfigured")
    [] state = "CONNECTING"     -> LinkChange(e, "Down", "Connecting")
    [] state = "AUTHENTICATING" -> LinkChange(e, "Down", "Authenticating")
    [] state = "UP" ->
         [LinkChange(e, "Up", "Connected") EXCEPT !.err = "NONE"]
    [] state = "DISCONNECTING"  -> LinkChange(e, "Down", "Disconnecting")
    [] state \in {"DOWN", "DISCONNECTED"} ->
         [LinkChange(e, "Down", "Disconnected") EXCEPT !.err = ExitError(arg)]
    [] state = "LCP_AUTH_COMPLETED" -> e
    [] state = "AUTH_FAILED"    -> LinkChange(e, "Down", "AuthenticationFailed")
    [] OTHER                    -> LinkChange(e, "Down", "Disconnected")

\* The events it posts: updatedParam and the two PppMgr_SendDataToQ calls.
QuietStates == {"CONNECTING", "AUTHENTICATING", "DISCONNECTING",
                "LCP_AUTH_COMPLETED"}

\* Mutant: LINK is forgotten.
OnlyLcpPosts(i, state) ==
  IF state \in QuietStates THEN << >>
  ELSE << SetEvent(i, "LCP", IF state = "UP" THEN "Up" ELSE "Down") >>

StateChangedPosts(i, state) ==
  IF state \in QuietStates THEN << >>
  ELSE LET v == IF state = "UP" THEN "Up" ELSE "Down"
       IN  << SetEvent(i, "LCP", v), SetEvent(i, "LINK", v) >>

\* PppMgr_ProcessIpcpParams returns before it takes the mutex when IPCP did
\* not complete or a network parameter is missing.
IpcpRejected(state, arg) == state # "IPCP_COMPLETED" \/ arg = "missing"

\* The rest of PppMgr_ProcessIpcpParams: the addresses are cleared, then
\* parsed one by one; the first that does not parse leaves what is there.
IpcpParams(e, arg) == [e EXCEPT !.ip4 = IF arg = "ok" THEN "set" ELSE "partial"]

IpcpPosts(i, arg) ==
  IF arg = "ok" THEN << SetEvent(i, "IPCP", "Up") >>
                ELSE << SetIPCPStatusDown(i) >>

\* PppMgr_ProcessIpv6cpParams; an identifier that is empty is not copied.
\* PppMgr_GenerateDuidFile may give up without a word (written is FALSE) and
\* then an older file stays; PppMgr_RemoveDuidFile removes it.
Ipv6cpParams(e, state, arg, written) ==
  IF state = "IPV6CP_COMPLETED"
  THEN [e EXCEPT !.ip6  = @ \/ arg = "ids", !.duid = @ \/ written]
  ELSE [e EXCEPT !.duid = FALSE]

\* Mutant: IPV6CP_FAILED is not reported.
OnlyUpIpv6cpPosts(i, state) ==
  IF state = "IPV6CP_COMPLETED" THEN << SetEvent(i, "IPV6CP", "Up") >>
                                ELSE << >>

Ipv6cpPosts(i, state) ==
  IF state = "IPV6CP_COMPLETED" THEN << SetEvent(i, "IPV6CP", "Up") >>
                                ELSE << SetIPv6CPStatusDown(i) >>

\* The fields PppMgr_StopPppClient resets, and the events it posts.
SessionReset(e, keepPid) ==
  [e EXCEPT !.enabled = FALSE, !.status = "Down", !.conn = "Unconfigured",
            !.ip4 = "unset", !.ip6 = FALSE,
            !.pid = IF keepPid THEN @ ELSE NoPid]

\* Mutant: IPCP is forgotten.
NoIpcpStopPosts(i) == << SetLinkStatusDown(i), SetIPv6CPStatusDown(i) >>

StopPosts(i) ==
  << SetLinkStatusDown(i), SetIPCPStatusDown(i), SetIPv6CPStatusDown(i) >>
===============================================================================
