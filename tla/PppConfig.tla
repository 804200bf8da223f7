------------------------------ MODULE PppConfig ------------------------------
(***************************************************************************)
(* The configuration of the interfaces: what the message bus sets and      *)
(* commits (Interface_, PPPoE_ and IPCP_SetParam..., _Validate, _Commit,   *)
(* _Rollback), what is written to PSM and loaded from it when the manager  *)
(* starts, and what a start of a PPP client takes from the entry: the      *)
(* credentials and the session to be ended with a PADT.                    *)
(*                                                                         *)
(* PSM, the bus, the HAL, the kernel's list of PPPoE sessions and the PPP  *)
(* clients are external.  A value stands for a number or a string, 0 for   *)
(* the number zero and the empty or refused string.  The sessions are      *)
(* those of PPPoE links and the clients those of rp-pppoe.                 *)
(***************************************************************************)
EXTENDS Naturals, Sequences, FiniteSets

CONSTANTS
  NumIfaces,       \* dmsb.pppmanager.pppifcount
  BusThreads,      \* threads of the message bus
  NoThread,        \* the owner of a free mutex
  MaxValue,        \* the values of a parameter are 0 .. MaxValue
  MruValues,       \* MaxMRUSize is a USHORT: 65536 values
  Params,          \* the parameters that are looked at
  CredsFromPsm,    \* PPP_USERNAME_PASSWORD_FROM_PSM
  DynamicLower,    \* DYNAMIC_CONFIGURE_PPP_LOWERLAYER
  Requests,        \* the calls: the object, and a sequence of settings
  Names,           \* Name of each interface in PSM
  Auths,           \* AuthenticationProtocol of each interface in PSM
  MaxCalls,        \* bound on the calls
  MaxSessions,     \* bound on the PPPoE sessions
  MaxCrashes,      \* bound on the crashes of the manager
  MaxFaults        \* bound on the failures of PSM

Ifaces == 1 .. NumIfaces
Values == 0 .. MaxValue

-----------------------------------------------------------------------------
(* The parameters.                                                         *)

Creds == {"Username", "Password"}

InterfaceParams ==
  {"IPCPEnable", "IPv6CPEnable", "AutoDisconnectTime", "IdleDisconnectTime",
   "WarnDisconnectDelay", "MaxMRUSize", "ConnectionTrigger", "X_RDK_LinkType",
   "Alias", "LowerLayers"} \cup Creds
PPPoEParams == {"ACName", "ServiceName"}
IPCPParams  == {"PassthroughEnable", "PassthroughDHCPPool"}

ParamsOf(object) == CASE object = "Interface" -> InterfaceParams
                      [] object = "PPPoE"     -> PPPoEParams
                      [] object = "IPCP"      -> IPCPParams

\* What a commit writes to PSM, in this order.
Saved == IF CredsFromPsm
         THEN <<"IdleDisconnectTime", "MaxMRUSize", "Username", "Password">>
         ELSE <<"IdleDisconnectTime", "MaxMRUSize">>
SavedParams == {Saved[n] : n \in 1 .. Len(Saved)}

\* What is read from PSM at the start.
Loaded == Params \cap (SavedParams \cup {"Alias", "X_RDK_LinkType"} \cup
                       (IF DynamicLower THEN {} ELSE {"LowerLayers"}))

\* A number that is too large for MaxMRUSize is cut off.
Stored(p, v) == IF p = "MaxMRUSize" THEN v % MruValues ELSE v

\* The records that are read from PSM for one interface.
Records == Loaded \cup {"Name", "InterfaceServiceName", "Auth", "Session"}

\* Username and Password are not set to what is empty, nor Username to what
\* validateUsername refuses.
Refused(p, v) == p \in Creds /\ v = 0

ASSUME IfacesAssumption == NumIfaces \in Nat \ {0}
ASSUME ThreadAssumption == NoThread \notin BusThreads
ASSUME ParamsAssumption ==
  /\ IsFiniteSet(Params)
  /\ SavedParams \cup Creds \subseteq Params
  /\ Params \subseteq InterfaceParams \cup PPPoEParams \cup IPCPParams
ASSUME RequestsAssumption ==
  \A r \in Requests :
    /\ r.iface \in Ifaces /\ r.object \in {"Interface", "PPPoE", "IPCP"}
    /\ r.sets \in Seq(Params \X Values) /\ r.sets # << >>
    /\ \A n \in 1 .. Len(r.sets) : r.sets[n][1] \in ParamsOf(r.object)
ASSUME FactoryAssumption == /\ Names \in [Ifaces -> {"ppp0", "ppp1"}]
                            /\ Auths \in [Ifaces -> {"PAP", "CHAP"}]
ASSUME BoundsAssumption ==
  MruValues \in Nat \ {0} /\
  {MaxValue, MaxCalls, MaxSessions, MaxCrashes, MaxFaults} \subseteq Nat

VARIABLES
  mgr,         \* "loading" or "up"
  loadAt,      \* the interface that is loaded next
  cfg,         \* Cfg of each interface
  info,        \* Info: names, is there an authentication protocol, session,
               \* is the pid known
  owner,       \* who holds mDataMutex
  call,        \* the call of each bus thread, see Call
  psm,         \* the records of PSM
  psmSession,  \* the session records: one per interface, 0 is the literal key
  running,     \* whether the interface has a PPP client
  pppoe,       \* PPPOE_PROC_FILE, oldest session first
  lastId,      \* the last session id the peers have given
  acked,       \* history: the saved parameters at the last commit's end
  excused,     \* history: PSM failed, or a crash cut a commit short
  untouched,   \* history: nothing was set since the last commit or load
  lastUp,      \* history: the session at the last UP of this run
  nCalls, nCrashes, nFaults

sessVars == <<running, pppoe, lastId, lastUp>>
saveVars == <<acked, excused, untouched>>
bounds   == <<nCalls, nCrashes, nFaults>>
vars == <<mgr, loadAt, cfg, info, owner, call, psm, psmSession, running, pppoe,
          lastId, acked, excused, untouched, lastUp, nCalls, nCrashes, nFaults>>

Cfg  == [Params -> Nat]
Info == [name : {"", "ppp0", "ppp1"}, service : BOOLEAN,
         auth : BOOLEAN, session : 0 .. MaxSessions, known : BOOLEAN]

\* Where a bus thread is, its request, the next setting or record, and as
\* history what it sets as it was before and whether a write has failed.
Call == [at : {"idle", "set", "validate", "commit", "save", "rollback", "undone"},
         iface : Ifaces, object : {"Interface", "PPPoE", "IPCP"},
         sets : Seq(Params \X Values), pos : Nat, before : Cfg, failed : BOOLEAN]

ZeroValues == [p \in Params |-> 0]
NoCall == [at |-> "idle", iface |-> 1, object |-> "Interface", sets |-> << >>,
           pos |-> 1, before |-> ZeroValues, failed |-> FALSE]

\* The table is allocated zeroed.
ZeroCfg  == [i \in Ifaces |-> ZeroValues]
ZeroInfo == [i \in Ifaces |->
  [name |-> "", service |-> FALSE, auth |-> FALSE, session |-> 0, known |-> FALSE]]

TypeOK ==
  /\ mgr \in {"loading", "up"} /\ loadAt \in Ifaces
  /\ cfg \in [Ifaces -> Cfg] /\ psm \in [Ifaces -> Cfg]
  /\ info \in [Ifaces -> Info]
  /\ owner \in [Ifaces -> BusThreads \cup {NoThread}]
  /\ call \in [BusThreads -> Call]
  /\ \A t \in BusThreads :
       /\ call[t].at = "set" => call[t].pos \in 1 .. Len(call[t].sets)
       /\ call[t].at = "save" => call[t].pos \in 1 .. Len(Saved) + 1
  /\ psmSession \in [0 .. NumIfaces -> 0 .. MaxSessions]
  /\ running \in [Ifaces -> BOOLEAN]
  /\ pppoe \in Seq([iface : Ifaces, id : 1 .. MaxSessions])
  /\ lastId \in 0 .. MaxSessions
  /\ acked \in [Ifaces -> [SavedParams -> Nat]]
  /\ excused \in [Ifaces -> BOOLEAN] /\ untouched \in [Ifaces -> BOOLEAN]
  /\ lastUp \in [Ifaces -> 0 .. MaxSessions]
  /\ nCalls \in Nat /\ nCrashes \in Nat /\ nFaults \in Nat

\* PSM holds the factory values; 1 stands for them.
Init ==
  /\ mgr = "loading" /\ loadAt = 1
  /\ cfg = ZeroCfg /\ info = ZeroInfo
  /\ owner = [i \in Ifaces |-> NoThread]
  /\ call = [t \in BusThreads |-> NoCall]
  /\ psm = [i \in Ifaces |-> [p \in Params |-> 1]]
  /\ psmSession = [k \in 0 .. NumIfaces |-> 0]
  /\ running = [i \in Ifaces |-> FALSE]
  /\ pppoe = << >> /\ lastId = 0
  /\ acked = [i \in Ifaces |-> [p \in SavedParams |-> 1]]
  /\ excused = [i \in Ifaces |-> FALSE]
  /\ untouched = [i \in Ifaces |-> TRUE]
  /\ lastUp = [i \in Ifaces |-> 0]
  /\ nCalls = 0 /\ nCrashes = 0 /\ nFaults = 0

\* n more reads or writes of PSM, or other calls, fail.
Faults(n) == nFaults + n <= MaxFaults /\ nFaults' = nFaults + n

-----------------------------------------------------------------------------
(* Start of the manager: BackEndManagerInitialize, before the bus is       *)
(* served, and its end.                                                    *)

\* Mutant: the interface after the last one.
LoadNextAlways == loadAt' = loadAt + 1 /\ mgr' = IF loadAt < NumIfaces THEN mgr
                                                                      ELSE "up"
LoadNext == IF loadAt < NumIfaces THEN loadAt' = loadAt + 1 /\ UNCHANGED mgr
                                  ELSE mgr' = "up" /\ UNCHANGED loadAt

\* PppDmlGetIntfValuesFromPSM for one interface.  A record that cannot be read
\* leaves its field zero, and PAP is not recognised.
Load ==
  LET i == loadAt
  IN  /\ mgr = "loading"
      /\ \E lost \in SUBSET Records :
           /\ Faults(Cardinality(lost))
           /\ cfg' = [cfg EXCEPT ![i] =
                [p \in Params |-> IF p \in Loaded \ lost THEN psm[i][p] ELSE 0]]
           /\ info' = [info EXCEPT
                ![i].name    = IF "Name" \in lost THEN "" ELSE Names[i],
                ![i].service = "InterfaceServiceName" \notin lost,
                ![i].auth    = "Auth" \notin lost /\ Auths[i] = "CHAP",
                ![i].session = IF "Session" \in lost THEN 0 ELSE psmSession[i]]
           /\ excused' = [excused EXCEPT ![i] = @ \/ lost # {}]
      /\ untouched' = [untouched EXCEPT ![i] = TRUE]
      /\ LoadNext
      /\ UNCHANGED <<owner, call, psm, psmSession, acked, nCalls, nCrashes,
                     sessVars>>

\* The process ends; PSM, the PPP clients and the kernel go on.
Crash ==
  /\ nCrashes < MaxCrashes /\ nCrashes' = nCrashes + 1
  /\ mgr' = "loading" /\ loadAt' = 1
  /\ cfg' = ZeroCfg /\ info' = ZeroInfo
  /\ owner' = [i \in Ifaces |-> NoThread]
  /\ call' = [t \in BusThreads |-> NoCall]
  /\ excused' = [i \in Ifaces |->
       excused[i] \/ \E t \in BusThreads : call[t].at = "save" /\ call[t].iface = i]
  /\ lastUp' = [i \in Ifaces |-> 0]
  /\ UNCHANGED <<psm, psmSession, running, pppoe, lastId, acked, untouched,
                 nCalls, nFaults>>

-----------------------------------------------------------------------------
(* A call of the bus for one object of one interface: the settings one by  *)
(* one, then Validate and Commit, or Rollback as soon as one is refused.   *)
(* The order of these calls is the bus's.                                  *)

Iface(t) == call[t].iface
At(t, label) == mgr = "up" /\ call[t].at = label
Goto(t, label) == call' = [call EXCEPT ![t].at = label]
Return(t) == call' = [call EXCEPT ![t] = NoCall]
Free(i) == owner[i] = NoThread

\* The parameters that a call sets.
Set(sets) == {sets[n][1] : n \in 1 .. Len(sets)}

BusCall(t) ==
  /\ At(t, "idle")
  /\ nCalls < MaxCalls /\ nCalls' = nCalls + 1
  /\ \E r \in Requests :
       call' = [call EXCEPT ![t] =
         [at |-> "set", iface |-> r.iface, object |-> r.object, sets |-> r.sets,
          pos |-> 1, before |-> [p \in Params |-> IF p \in Set(r.sets) THEN cfg[r.iface][p]
                                                       ELSE 0], failed |-> FALSE]]
  /\ UNCHANGED <<mgr, loadAt, cfg, info, owner, psm, psmSession, nCrashes,
                 nFaults, saveVars, sessVars>>

\* Interface_SetParam...Value and those of PPPoE and IPCP: one parameter under
\* the mutex.
SetParam(t) ==
  LET i == Iface(t)
      p == call[t].sets[call[t].pos][1]
      v == call[t].sets[call[t].pos][2]
  IN  /\ At(t, "set") /\ Free(i)
      /\ \/ /\ Refused(p, v)
            /\ Goto(t, "rollback")
            /\ UNCHANGED <<cfg, untouched>>
         \/ /\ ~Refused(p, v)
            /\ cfg' = [cfg EXCEPT ![i] = [@ EXCEPT ![p] = Stored(p, v)]]
            /\ untouched' = [untouched EXCEPT ![i] = FALSE]
            /\ IF call[t].pos = Len(call[t].sets)
               THEN Goto(t, "validate")
               ELSE call' = [call EXCEPT ![t].pos = @ + 1]
      /\ UNCHANGED <<mgr, loadAt, info, owner, psm, psmSession, acked, excused,
                     sessVars, bounds>>

\* Interface_Validate compares the names without a mutex; PPPoE_Validate and
\* IPCP_Validate accept.  Without an answer of PSM there are no interfaces to
\* compare with.
NameTaken(i) == \E j \in Ifaces \ {i} : info[j].name = info[i].name

Validate(t) ==
  /\ At(t, "validate")
  /\ \/ /\ Goto(t, IF call[t].object = "Interface" /\ NameTaken(Iface(t))
                   THEN "rollback" ELSE "commit")
        /\ UNCHANGED nFaults
     \/ call[t].object = "Interface" /\ Faults(1) /\ Goto(t, "commit")
  /\ UNCHANGED <<mgr, loadAt, cfg, info, owner, psm, psmSession, nCalls,
                 nCrashes, saveVars, sessVars>>

\* Mutant: Commit does not lock the entry.
CommitUnlocked(t) ==
  /\ At(t, "commit")
  /\ call' = [call EXCEPT ![t].at = "save", ![t].pos = 1]
  /\ UNCHANGED <<mgr, loadAt, cfg, info, owner, psm, psmSession, saveVars,
                 sessVars, bounds>>

\* Interface_Commit, PPPoE_Commit and IPCP_Commit up to PppDmlSetIfCfg.
Commit(t) ==
  /\ At(t, "commit") /\ Free(Iface(t))
  /\ owner' = [owner EXCEPT ![Iface(t)] = t]
  /\ call' = [call EXCEPT ![t].at = "save", ![t].pos = 1]
  /\ UNCHANGED <<mgr, loadAt, cfg, info, psm, psmSession, saveVars, sessVars,
                 bounds>>

\* Mutant: every other record is skipped.
SaveParamSkips(t) ==
  LET p == Saved[call[t].pos]
      i == Iface(t)
  IN  /\ At(t, "save") /\ call[t].pos <= Len(Saved)
      /\ psm' = IF call[t].pos % 2 = 0 THEN psm
                ELSE [psm EXCEPT ![i] = [@ EXCEPT ![p] = cfg[i][p]]]
      /\ call' = [call EXCEPT ![t].pos = @ + 1]
      /\ UNCHANGED <<mgr, loadAt, cfg, info, owner, psmSession, saveVars,
                     sessVars, bounds>>

\* Mutant: a write that fails ends the commit.
SaveParamGivesUp(t) ==
  LET p == Saved[call[t].pos]
      i == Iface(t)
  IN  /\ At(t, "save") /\ call[t].pos <= Len(Saved)
      /\ \/ /\ psm' = [psm EXCEPT ![i] = [@ EXCEPT ![p] = cfg[i][p]]]
            /\ call' = [call EXCEPT ![t].pos = @ + 1]
            /\ UNCHANGED nFaults
         \/ /\ Faults(1)
            /\ call' = [call EXCEPT ![t].pos = Len(Saved) + 1,
                                    ![t].failed = TRUE]
            /\ UNCHANGED psm
      /\ UNCHANGED <<mgr, loadAt, cfg, info, owner, psmSession, nCalls, nCrashes,
                     saveVars, sessVars>>

\* PppManager_SetParamFromPSM writes one record; the result is not looked at.
SaveParam(t) ==
  LET p == Saved[call[t].pos]
      i == Iface(t)
  IN  /\ At(t, "save") /\ call[t].pos <= Len(Saved)
      /\ \/ /\ psm' = [psm EXCEPT ![i] = [@ EXCEPT ![p] = cfg[i][p]]]
            /\ call' = [call EXCEPT ![t].pos = @ + 1]
            /\ UNCHANGED nFaults
         \/ /\ Faults(1)
            /\ call' = [call EXCEPT ![t].pos = @ + 1, ![t].failed = TRUE]
            /\ UNCHANGED psm
      /\ UNCHANGED <<mgr, loadAt, cfg, info, owner, psmSession, nCalls, nCrashes,
                     saveVars, sessVars>>

\* Mutant: the unlock is forgotten.
CommitReturnLocked(t) ==
  /\ At(t, "save") /\ call[t].pos > Len(Saved)
  /\ Return(t)
  /\ UNCHANGED <<mgr, loadAt, cfg, info, owner, psm, psmSession, saveVars,
                 sessVars, bounds>>

\* The rest of Commit: success, whatever happened.
CommitReturn(t) ==
  LET i == Iface(t)
  IN  /\ At(t, "save") /\ call[t].pos > Len(Saved)
      /\ owner' = [owner EXCEPT ![i] = NoThread]
      /\ acked' = [acked EXCEPT ![i] = [p \in SavedParams |-> cfg[i][p]]]
      /\ excused' = [excused EXCEPT ![i] = call[t].failed]
      /\ untouched' = [untouched EXCEPT ![i] = TRUE]
      /\ Return(t)
      /\ UNCHANGED <<mgr, loadAt, cfg, info, psm, psmSession, sessVars, bounds>>

\* Interface_Rollback, PPPoE_Rollback and IPCP_Rollback: PppDmlGetIfCfg does
\* nothing.
Rollback(t) ==
  /\ At(t, "rollback") /\ Free(Iface(t))
  /\ Goto(t, "undone")
  /\ UNCHANGED <<mgr, loadAt, cfg, info, owner, psm, psmSession, saveVars,
                 sessVars, bounds>>

RollbackReturn(t) ==
  /\ At(t, "undone")
  /\ Return(t)
  /\ UNCHANGED <<mgr, loadAt, cfg, info, owner, psm, psmSession, saveVars,
                 sessVars, bounds>>

BusRun(t) == \/ SetParam(t) \/ Validate(t) \/ Commit(t) \/ SaveParam(t)
             \/ CommitReturn(t) \/ Rollback(t) \/ RollbackReturn(t)

-----------------------------------------------------------------------------
(* The entry and the sessions of its PPP client.                           *)

\* Mutant: no session in the list means session 0.
SessionIdOrZero(old) == IF pppoe = << >> THEN 0 ELSE pppoe[Len(pppoe)].id

\* get_session_id for PPPoE: the last line of the list, of any interface; the
\* old value when there is none.
SessionId(old) == IF pppoe = << >> THEN old ELSE pppoe[Len(pppoe)].id

\* PPPDmlGetIfInfo; what else it stores is the same every time.
GetIfInfo(e) == [e EXCEPT !.session = SessionId(@)]

\* A read of the status, and of most other parameters that are not of Cfg.
ReadInfo(i) ==
  /\ mgr = "up" /\ Free(i)
  /\ info' = [info EXCEPT ![i] = GetIfInfo(@)]
  /\ UNCHANGED <<mgr, loadAt, cfg, owner, call, psm, psmSession, saveVars,
                 sessVars, bounds>>

\* PppMgr_StartPppClient: the credentials of the HAL (external) unless PSM has
\* them, the test of the parameters, the lower layer's name, then the client.
\* pppoe-start leaves a client that runs alone (external).
Credentialed(i) ==
  IF CredsFromPsm THEN {cfg[i]}
  ELSE {[p \in Params |-> IF p \in Creds THEN v ELSE cfg[i][p]] : v \in Values}
HasParams(i) == /\ info[i].name # "" /\ info[i].service /\ info[i].auth
                /\ \A p \in Creds : cfg'[i][p] # 0

\* An authentication that completes later finds and leaves a protocol set.
StartClient(i) ==
  /\ mgr = "up" /\ Free(i)
  /\ ~(info[i].known /\ running[i])
  /\ \E c \in Credentialed(i) : cfg' = [cfg EXCEPT ![i] = c]
  /\ \E started \in BOOLEAN :
       /\ \/ started = HasParams(i) /\ UNCHANGED nFaults
          \/ started = FALSE /\ HasParams(i) /\ Faults(1)
       /\ running' = [running EXCEPT ![i] = @ \/ started]
       /\ info' = [info EXCEPT ![i].known = started]
  /\ UNCHANGED <<mgr, loadAt, owner, call, psm, psmSession, pppoe, lastId,
                 lastUp, nCalls, nCrashes, saveVars>>

\* The peer gives a client a session (external).
SessionOpens(i) ==
  /\ running[i] /\ \A n \in 1 .. Len(pppoe) : pppoe[n].iface # i
  /\ lastId < MaxSessions /\ lastId' = lastId + 1
  /\ pppoe' = Append(pppoe, [iface |-> i, id |-> lastId'])
  /\ UNCHANGED <<mgr, loadAt, cfg, info, owner, call, psm, psmSession, running,
                 lastUp, saveVars, bounds>>

\* The client and its session end (external).
ClientEnds(i) ==
  /\ running[i] /\ running' = [running EXCEPT ![i] = FALSE]
  /\ \/ \E n \in 1 .. Len(pppoe) :
          /\ pppoe[n].iface = i
          /\ pppoe' = SubSeq(pppoe, 1, n - 1) \o SubSeq(pppoe, n + 1, Len(pppoe))
     \/ /\ \A n \in 1 .. Len(pppoe) : pppoe[n].iface # i
        /\ UNCHANGED pppoe
  /\ UNCHANGED <<mgr, loadAt, cfg, info, owner, call, psm, psmSession, lastId,
                 lastUp, saveVars, bounds>>

\* PPP_INTERFACE_UP in PppMgr_ProcessStateChangedMsg: the session is looked up
\* and written to the record whose name is the format string itself.  The
\* client may be gone when its message is handled.
ClientUp(i) ==
  /\ mgr = "up" /\ Free(i) /\ info[i].known
  /\ info' = [info EXCEPT ![i].session = SessionId(@)]
  /\ \/ psmSession' = [psmSession EXCEPT ![0] = SessionId(info[i].session)]
        /\ UNCHANGED nFaults
     \/ Faults(1) /\ UNCHANGED psmSession
  /\ lastUp' = [lastUp EXCEPT ![i] = SessionId(info[i].session)]
  /\ UNCHANGED <<mgr, loadAt, cfg, owner, call, psm, running, pppoe, lastId,
                 nCalls, nCrashes, saveVars>>

Next == \/ Load \/ Crash
        \/ \E t \in BusThreads : BusCall(t) \/ BusRun(t)
        \/ \E i \in Ifaces : \/ ReadInfo(i) \/ StartClient(i) \/ SessionOpens(i)
                             \/ ClientEnds(i) \/ ClientUp(i)

Spec == Init /\ [][Next]_vars

\* The manager loads, and each bus thread goes on with its call.
Fairness == WF_vars(Load) /\ \A t \in BusThreads : WF_vars(BusRun(t))
FairSpec == Spec /\ Fairness

-----------------------------------------------------------------------------
(* What the calls promise.                                                 *)

\* While a commit is writing, what is already in PSM is the entry as it is now:
\* no SetParam of another bus thread, and no start of a client, comes between
\* the reads of one commit, so that PSM never gets a mix of two settings.
SavedIsSnapshot ==
  \A t \in BusThreads :
    call[t].at = "save" /\ ~call[t].failed =>
      \A n \in 1 .. call[t].pos - 1 :
        psm[Iface(t)][Saved[n]] = cfg[Iface(t)][Saved[n]]

\* What a commit has acknowledged, Cfg holds until somebody sets it again, also
\* after the manager has crashed and loaded Cfg from PSM, unless PSM failed or
\* a later commit was cut short by a crash.
AckedSurvives ==
  \A i \in Ifaces :
    (mgr = "up" \/ i < loadAt) /\ untouched[i] /\ ~excused[i] =>
      \A p \in SavedParams : cfg[i][p] = acked[i][p]

\* With one interface, the session that the next start of a client would end
\* with a PADT is never older than the one the last UP was about, however reads
\* of the status and the end of the client come in between.
LastSessionKnown ==
  \A i \in Ifaces :
    NumIfaces = 1 /\ mgr = "up" => info[i].session >= lastUp[i]

\* The commits implement the store of SettingsStore.  A record that a commit has
\* not yet come to is due as it is in the entry, under whose mutex it will be
\* written; every other is due as it is in PSM.
StillToWrite(i, p) ==
  \E t \in BusThreads, n \in 1 .. Len(Saved) :
    /\ call[t].at = "save" /\ Iface(t) = i
    /\ n >= call[t].pos /\ Saved[n] = p

Live == [i \in Ifaces |-> [p \in SavedParams |-> cfg[i][p]]]
Kept == [i \in Ifaces |-> [p \in SavedParams |-> psm[i][p]]]
Due  == [i \in Ifaces |-> [p \in SavedParams |->
           IF StillToWrite(i, p) THEN cfg[i][p] ELSE psm[i][p]]]
Served == IF mgr = "up" THEN Ifaces ELSE 1 .. loadAt - 1
Committing == {i \in Ifaces : ~Free(i)}

Store == INSTANCE SettingsStore WITH
  Saved <- SavedParams, live <- Live, due <- Due, kept <- Kept,
  loaded <- Served, saving <- Committing, faults <- nFaults

\* Whatever the bus threads set and commit meanwhile, a commit takes its settings
\* in one step, a write that fails costs one setting, a crash leaves of each
\* setting the last one written, and nothing but a set, a load or a crash
\* changes one in the entry.
ImplementsStore == Store!StoreSpec

\* Every call of the bus is answered, by Commit or by Rollback.
CallsAnswered ==
  \A t \in BusThreads : call[t].at # "idle" ~> call[t].at = "idle"

-----------------------------------------------------------------------------
(* What a comment of the code says and the code does not do.               *)

\* The session that UP writes to PSM ("Updating SessionID to PSM") is the one
\* that is read from there at the start ("Get the SessionID").
SessionIdSurvivesRestart ==
  [][NumIfaces = 1 /\ mgr = "loading" /\ mgr' = "up" /\ nFaults' = nFaults =>
       info'[1].session = psmSession[0]]_vars

\* A Rollback takes back the settings of its call.
RollbackRestores ==
  \A t \in BusThreads :
    call[t].at = "undone" =>
      \A p \in Set(call[t].sets) : cfg[Iface(t)][p] = call[t].before[p]

=============================================================================
