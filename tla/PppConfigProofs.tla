--------------------------- MODULE PppConfigProofs ---------------------------
(***************************************************************************)
(* Proofs about PppConfig for every number of interfaces, every set of bus *)
(* threads, every set of requests and every budget of crashes and faults.  *)
(***************************************************************************)
EXTENDS PppConfig, SequenceTheorems, FiniteSetTheorems, TLAPS

-----------------------------------------------------------------------------
(* Constants.                                                              *)

LEMMA Basics == /\ NumIfaces \in Nat /\ 1 \in Ifaces
                /\ \A i \in Ifaces : i \in Nat /\ i >= 1 /\ i <= NumIfaces
                /\ MaxValue \in Nat /\ MaxCalls \in Nat /\ MaxSessions \in Nat
                /\ MaxCrashes \in Nat /\ MaxFaults \in Nat
                /\ Values \subseteq Nat /\ 0 \in Values
  BY IfacesAssumption, BoundsAssumption DEF Ifaces, Values

\* What is saved is a sequence of parameters, and all of it is loaded.
LEMMA SavedFacts == /\ Len(Saved) \in Nat
                    /\ \A n \in 1 .. Len(Saved) : Saved[n] \in SavedParams
                    /\ \A p \in SavedParams :
                         \E n \in 1 .. Len(Saved) : p = Saved[n]
                    /\ SavedParams \subseteq Params
                    /\ SavedParams \subseteq Loaded
                    /\ ~CredsFromPsm => SavedParams \cap Creds = {}
<1>1. Len(Saved) \in Nat
  BY DEF Saved
<1>2. SavedParams \subseteq Params
  BY ParamsAssumption
<1>3. ~CredsFromPsm => SavedParams \cap Creds = {}
  BY DEF Saved, SavedParams, Creds
<1>4. QED
  BY <1>1, <1>2, <1>3 DEF SavedParams, Loaded

\* The records of an interface are finitely many, and so are those lost.
LEMMA RecordsFinite == IsFiniteSet(Records)
<1>1. IsFiniteSet(Loaded)
  BY ParamsAssumption, FS_Subset DEF Loaded
<1>2. IsFiniteSet(Loaded \cup {"Name"} \cup {"InterfaceServiceName"}
                    \cup {"Auth"} \cup {"Session"})
  BY <1>1, FS_AddElement
<1>3. Records = Loaded \cup {"Name"} \cup {"InterfaceServiceName"}
                    \cup {"Auth"} \cup {"Session"}
  BY DEF Records
<1>4. QED
  BY <1>2, <1>3

LEMMA LostCount == \A lost \in SUBSET Records : Cardinality(lost) \in Nat
  BY RecordsFinite, FS_Subset, FS_CardinalityType

LEMMA StoredTyping == \A p \in Params, v \in Values : Stored(p, v) \in Nat
  BY BoundsAssumption, Basics DEF Stored

LEMMA NoCallTyping == NoCall \in Call
  BY Basics DEF NoCall, Call, Cfg, ZeroValues

\* A request, as a bus thread takes it.
LEMMA RequestTyping ==
  ASSUME NEW r \in Requests, NEW c \in Cfg
  PROVE  /\ Len(r.sets) \in Nat /\ Len(r.sets) >= 1
         /\ [at |-> "set", iface |-> r.iface, object |-> r.object,
             sets |-> r.sets, pos |-> 1,
             before |-> [p \in Params |-> IF p \in Set(r.sets) THEN c[p] ELSE 0],
             failed |-> FALSE] \in Call
<1>1. /\ r.iface \in Ifaces /\ r.object \in {"Interface", "PPPoE", "IPCP"}
      /\ r.sets \in Seq(Params \X Values) /\ r.sets # << >>
  BY RequestsAssumption
<1>2. [p \in Params |-> IF p \in Set(r.sets) THEN c[p] ELSE 0] \in Cfg
  BY DEF Cfg
<1>3. QED
  BY <1>1, <1>2 DEF Call

\* The session that is found is a session, or the old value.
LEMMA SessionTyping ==
  ASSUME pppoe \in Seq([iface : Ifaces, id : 1 .. MaxSessions]),
         NEW old \in 0 .. MaxSessions
  PROVE  SessionId(old) \in 0 .. MaxSessions
<1>1. CASE pppoe = << >>
  BY <1>1 DEF SessionId
<1>2. CASE pppoe # << >>
  <2> DEFINE S == [iface : Ifaces, id : 1 .. MaxSessions]
  <2>1. \A seq \in Seq(S) : seq # << >> => seq[Len(seq)] \in S
    <3> HIDE DEF S
    <3>1. QED
      OBVIOUS
  <2>2. pppoe[Len(pppoe)] \in S
    BY <1>2, <2>1
  <2>3. pppoe[Len(pppoe)].id \in 1 .. MaxSessions
    BY <2>2
  <2>4. pppoe[Len(pppoe)].id \in 0 .. MaxSessions
    BY <2>3, Basics
  <2>5. QED
    BY <1>2, <2>4 DEF SessionId
<1>3. QED
  BY <1>1, <1>2

-----------------------------------------------------------------------------
(* Types.                                                                  *)

\* The groups of variables that the actions change together.
EntryTypes == /\ cfg \in [Ifaces -> Cfg] /\ psm \in [Ifaces -> Cfg]
              /\ info \in [Ifaces -> Info]
              /\ psmSession \in [0 .. NumIfaces -> 0 .. MaxSessions]
CallTypes == /\ owner \in [Ifaces -> BusThreads \cup {NoThread}]
             /\ call \in [BusThreads -> Call]
             /\ \A t \in BusThreads :
                  /\ call[t].at = "set" => call[t].pos \in 1 .. Len(call[t].sets)
                  /\ call[t].at = "save" => call[t].pos \in 1 .. Len(Saved) + 1
SessTypes == /\ running \in [Ifaces -> BOOLEAN]
             /\ pppoe \in Seq([iface : Ifaces, id : 1 .. MaxSessions])
             /\ lastId \in 0 .. MaxSessions
             /\ lastUp \in [Ifaces -> 0 .. MaxSessions]
SaveTypes == /\ acked \in [Ifaces -> [SavedParams -> Nat]]
             /\ excused \in [Ifaces -> BOOLEAN]
             /\ untouched \in [Ifaces -> BOOLEAN]
LoadTypes == /\ mgr \in {"loading", "up"} /\ loadAt \in Ifaces
             /\ nCalls \in Nat /\ nCrashes \in Nat /\ nFaults \in Nat

LEMMA TypeParts ==
  TypeOK <=> EntryTypes /\ CallTypes /\ SessTypes /\ SaveTypes /\ LoadTypes
  BY DEF TypeOK, EntryTypes, CallTypes, SessTypes, SaveTypes, LoadTypes

LEMMA FaultsTyping ==
  ASSUME nFaults \in Nat, NEW n \in Nat, Faults(n)
  PROVE  nFaults' \in Nat
  BY Basics DEF Faults

LEMMA LoadTyping == TypeOK /\ Load => TypeOK'
<1> SUFFICES ASSUME TypeOK, Load PROVE TypeOK'
  OBVIOUS
<1>1. /\ EntryTypes /\ CallTypes /\ SessTypes /\ SaveTypes /\ LoadTypes
  BY TypeParts
<1> DEFINE i == loadAt
<1>2. i \in Ifaces
  BY <1>1 DEF LoadTypes
<1>3. PICK lost \in SUBSET Records :
        /\ Faults(Cardinality(lost))
        /\ cfg' = [cfg EXCEPT ![i] =
             [p \in Params |-> IF p \in Loaded \ lost THEN psm[i][p] ELSE 0]]
        /\ info' = [info EXCEPT
             ![i].name    = IF "Name" \in lost THEN "" ELSE Names[i],
             ![i].service = "InterfaceServiceName" \notin lost,
             ![i].auth    = "Auth" \notin lost /\ Auths[i] = "CHAP",
             ![i].session = IF "Session" \in lost THEN 0 ELSE psmSession[i]]
        /\ excused' = [excused EXCEPT ![i] = @ \/ lost # {}]
  BY DEF Load
<1>4. EntryTypes'
  <2>1. [p \in Params |-> IF p \in Loaded \ lost THEN psm[i][p] ELSE 0] \in Cfg
    BY <1>1, <1>2 DEF EntryTypes, Cfg
  <2>2. cfg' \in [Ifaces -> Cfg]
    BY <1>1, <1>3, <2>1 DEF EntryTypes
  <2>3. /\ Names[i] \in {"ppp0", "ppp1"}
        /\ i \in 0 .. NumIfaces /\ 0 \in 0 .. MaxSessions
    BY <1>2, Basics, FactoryAssumption
  <2>4. info' \in [Ifaces -> Info]
    <3>1. psmSession[i] \in 0 .. MaxSessions
      BY <1>1, <2>3 DEF EntryTypes
    <3>2. info[i] \in Info
      BY <1>1, <1>2 DEF EntryTypes
    <3> DEFINE e == [info[i] EXCEPT
             !.name    = IF "Name" \in lost THEN "" ELSE Names[i],
             !.service = "InterfaceServiceName" \notin lost,
             !.auth    = "Auth" \notin lost /\ Auths[i] = "CHAP",
             !.session = IF "Session" \in lost THEN 0 ELSE psmSession[i]]
    <3>3. e \in Info
      BY <3>1, <3>2, <2>3 DEF Info
    <3>4. info' = [info EXCEPT ![i] = e]
      BY <1>1, <1>2, <1>3 DEF EntryTypes
    <3>5. QED
      BY <1>1, <1>2, <3>3, <3>4 DEF EntryTypes
  <2>5. QED
    BY <1>1, <2>2, <2>4 DEF EntryTypes, Load
<1>5. SaveTypes'
  BY <1>1, <1>3 DEF SaveTypes, Load
<1>6. LoadTypes'
  <2>1. nFaults' \in Nat
    BY <1>1, <1>3, LostCount, FaultsTyping DEF LoadTypes
  <2>2. loadAt' \in Ifaces /\ mgr' \in {"loading", "up"}
    <3>1. LoadNext /\ i \in Nat /\ i >= 1 /\ i <= NumIfaces
      BY <1>2, Basics DEF Load
    <3>2. CASE i < NumIfaces
      BY <3>1, <3>2, <1>1, Basics DEF LoadNext, LoadTypes, Ifaces
    <3>3. CASE ~(i < NumIfaces)
      BY <3>1, <3>3, <1>1 DEF LoadNext, LoadTypes
    <3>4. QED
      BY <3>2, <3>3
  <2>3. QED
    BY <1>1, <2>1, <2>2 DEF LoadTypes, Load
<1>7. CallTypes' /\ SessTypes'
  BY <1>1 DEF CallTypes, SessTypes, Load, sessVars
<1>8. QED
  BY <1>4, <1>5, <1>6, <1>7 DEF TypeOK, EntryTypes, CallTypes, SessTypes,
                                SaveTypes, LoadTypes

LEMMA CrashTyping == TypeOK /\ Crash => TypeOK'
<1> SUFFICES ASSUME TypeOK, Crash PROVE TypeOK'
  OBVIOUS
<1>1. /\ EntryTypes /\ CallTypes /\ SessTypes /\ SaveTypes /\ LoadTypes
  BY TypeParts
<1>2. EntryTypes'
  <2>1. ZeroCfg \in [Ifaces -> Cfg]
    BY DEF ZeroCfg, ZeroValues, Cfg
  <2>2. ZeroInfo \in [Ifaces -> Info]
    BY Basics DEF ZeroInfo, Info
  <2>3. QED
    BY <1>1, <2>1, <2>2 DEF EntryTypes, Crash
<1>3. CallTypes'
  BY NoCallTyping DEF CallTypes, Crash, NoCall
<1>4. SessTypes'
  BY <1>1, Basics DEF SessTypes, Crash
<1>5. SaveTypes'
  BY <1>1 DEF SaveTypes, Crash
<1>6. LoadTypes'
  BY <1>1, Basics DEF LoadTypes, Crash
<1>7. QED
  BY <1>2, <1>3, <1>4, <1>5, <1>6 DEF TypeOK, EntryTypes, CallTypes, SessTypes,
                                      SaveTypes, LoadTypes

\* A step that changes only the calls and the mutexes, and the step it takes.
CallsOnly == UNCHANGED <<mgr, loadAt, cfg, info, psm, psmSession, saveVars,
                         sessVars, nCrashes>>

LEMMA CallsOnlyTyping ==
  ASSUME TypeOK, CallsOnly, CallTypes', nCalls' \in Nat, nFaults' \in Nat
  PROVE  TypeOK'
<1>1. EntryTypes'
  BY DEF CallsOnly, TypeOK, EntryTypes
<1>2. SessTypes'
  BY DEF CallsOnly, TypeOK, SessTypes, sessVars
<1>3. SaveTypes'
  BY DEF CallsOnly, TypeOK, SaveTypes, saveVars
<1>4. LoadTypes'
  BY DEF CallsOnly, TypeOK, LoadTypes
<1>5. QED
  BY <1>1, <1>2, <1>3, <1>4 DEF TypeOK, EntryTypes, CallTypes, SessTypes,
                                SaveTypes, LoadTypes

\* A call that moves to a label, or on to the next setting or record.
LEMMA MoveTyping ==
  ASSUME CallTypes, NEW t \in BusThreads, NEW c \in Call,
         call' = [call EXCEPT ![t] = c],
         owner' \in [Ifaces -> BusThreads \cup {NoThread}],
         c.at = "set" => c.pos \in 1 .. Len(c.sets),
         c.at = "save" => c.pos \in 1 .. Len(Saved) + 1
  PROVE  CallTypes'
<1>1. call' \in [BusThreads -> Call]
  BY DEF CallTypes
<1>2. ASSUME NEW u \in BusThreads
      PROVE  call'[u] = IF u = t THEN c ELSE call[u]
  BY DEF CallTypes
<1>3. QED
  BY <1>1, <1>2 DEF CallTypes

LEMMA GotoTyping ==
  ASSUME CallTypes, NEW t \in BusThreads, owner' = owner,
         NEW label \in {"idle", "validate", "commit", "rollback", "undone"},
         Goto(t, label)
  PROVE  CallTypes'
<1> DEFINE c == [call[t] EXCEPT !.at = label]
<1>1. call[t] \in Call /\ call' = [call EXCEPT ![t] = c]
  BY DEF CallTypes, Goto
<1>2. c \in Call /\ c.at = label
  BY <1>1 DEF Call
<1>3. owner' \in [Ifaces -> BusThreads \cup {NoThread}]
  BY DEF CallTypes
<1> HIDE DEF c
<1>4. QED
  BY <1>1, <1>2, <1>3, MoveTyping

LEMMA ReturnTyping ==
  ASSUME CallTypes, NEW t \in BusThreads, Return(t),
         owner' \in [Ifaces -> BusThreads \cup {NoThread}]
  PROVE  CallTypes'
<1>1. NoCall.at = "idle"
  BY DEF NoCall
<1>2. QED
  BY <1>1, NoCallTyping, MoveTyping DEF Return

LEMMA BusCallTyping ==
  ASSUME TypeOK, NEW t \in BusThreads, BusCall(t)
  PROVE  TypeOK'
<1>1. PICK r \in Requests :
        call' = [call EXCEPT ![t] =
          [at |-> "set", iface |-> r.iface, object |-> r.object, sets |-> r.sets,
           pos |-> 1,
           before |-> [p \in Params |-> IF p \in Set(r.sets) THEN cfg[r.iface][p]
                                                       ELSE 0],
           failed |-> FALSE]]
  BY DEF BusCall
<1> DEFINE c == [at |-> "set", iface |-> r.iface, object |-> r.object,
                 sets |-> r.sets, pos |-> 1,
                 before |-> [p \in Params |-> IF p \in Set(r.sets)
                                              THEN cfg[r.iface][p] ELSE 0],
                 failed |-> FALSE]
<1>2. cfg[r.iface] \in Cfg
  BY RequestsAssumption DEF TypeOK
<1>3. c \in Call /\ Len(r.sets) \in Nat /\ Len(r.sets) >= 1
  BY <1>2, RequestTyping
<1>4. c.at = "set" /\ c.pos = 1 /\ c.sets = r.sets
  OBVIOUS
<1>5. call' = [call EXCEPT ![t] = c]
  BY <1>1
<1>6. owner' \in [Ifaces -> BusThreads \cup {NoThread}] /\ CallTypes
  BY DEF TypeOK, CallTypes, BusCall
<1> HIDE DEF c
<1>7. CallTypes'
  <2>1. /\ c \in Call
        /\ c.at = "set" => c.pos \in 1 .. Len(c.sets)
        /\ c.at = "save" => c.pos \in 1 .. Len(Saved) + 1
    BY <1>3, <1>4
  <2>2. QED
    BY <2>1, <1>5, <1>6, MoveTyping
<1>8. CallsOnly /\ nCalls' \in Nat /\ nFaults' \in Nat
  BY DEF CallsOnly, BusCall, TypeOK
<1>9. QED
  BY <1>7, <1>8, CallsOnlyTyping

\* A step that changes the calls and the mutexes, and what else it may.
LEMMA SetParamTyping ==
  ASSUME TypeOK, NEW t \in BusThreads, SetParam(t)
  PROVE  TypeOK'
<1> DEFINE i == Iface(t)
           n == call[t].pos
           p == call[t].sets[n][1]
           v == call[t].sets[n][2]
<1>1. /\ EntryTypes /\ CallTypes /\ SessTypes /\ SaveTypes /\ LoadTypes
  BY TypeParts
<1>2. call[t] \in Call /\ call[t].at = "set"
  BY <1>1 DEF CallTypes, SetParam, At
<1>3. i \in Ifaces /\ n \in 1 .. Len(call[t].sets)
      /\ call[t].sets \in Seq(Params \X Values)
  BY <1>1, <1>2 DEF CallTypes, Iface, Call
<1>4. p \in Params /\ v \in Values
  <2>1. call[t].sets[n] \in Params \X Values
    BY <1>3
  <2>2. QED
    BY <2>1
<1>5. Stored(p, v) \in Nat
  BY <1>4, StoredTyping
<1>6. owner' = owner
  BY DEF SetParam
<1>7. EntryTypes' /\ CallTypes' /\ SaveTypes'
  <2>1. CASE Refused(p, v)
    <3>1. Goto(t, "rollback") /\ UNCHANGED <<cfg, untouched>>
      BY <2>1 DEF SetParam
    <3>2. CallTypes'
      BY <1>1, <1>6, <3>1, GotoTyping
    <3>3. QED
      BY <1>1, <3>1, <3>2 DEF SetParam, EntryTypes, SaveTypes
  <2>2. CASE ~Refused(p, v)
    <3>1. /\ cfg' = [cfg EXCEPT ![i] = [@ EXCEPT ![p] = Stored(p, v)]]
          /\ untouched' = [untouched EXCEPT ![i] = FALSE]
          /\ IF n = Len(call[t].sets)
             THEN Goto(t, "validate")
             ELSE call' = [call EXCEPT ![t].pos = @ + 1]
      BY <2>2 DEF SetParam
    <3>2. EntryTypes'
      <4>1. cfg[i] \in [Params -> Nat]
        BY <1>1, <1>3 DEF EntryTypes, Cfg
      <4>2. [cfg[i] EXCEPT ![p] = Stored(p, v)] \in [Params -> Nat]
        BY <1>5, <4>1
      <4>3. cfg' \in [Ifaces -> Cfg]
        <5> DEFINE d == [cfg[i] EXCEPT ![p] = Stored(p, v)]
        <5>1. d \in Cfg /\ cfg' = [cfg EXCEPT ![i] = d]
          BY <1>1, <1>3, <3>1, <4>2 DEF EntryTypes, Cfg
        <5> HIDE DEF d
        <5>2. QED
          BY <1>1, <5>1 DEF EntryTypes
      <4>4. QED
        BY <1>1, <4>3 DEF SetParam, EntryTypes
    <3>3. SaveTypes'
      BY <1>1, <3>1 DEF SetParam, SaveTypes
    <3>4. CallTypes'
      <4>1. CASE n = Len(call[t].sets)
        BY <1>1, <1>6, <3>1, <4>1, GotoTyping
      <4>2. CASE n # Len(call[t].sets)
        <5> DEFINE c == [call[t] EXCEPT !.pos = n + 1]
        <5>1. call' = [call EXCEPT ![t] = c]
          BY <1>1, <3>1, <4>2 DEF CallTypes
        <5>2. /\ c \in Call
              /\ c.at = "set" => c.pos \in 1 .. Len(c.sets)
              /\ c.at = "save" => c.pos \in 1 .. Len(Saved) + 1
          <6>1. c \in Call /\ c.at = "set" /\ c.pos = n + 1
                /\ c.sets = call[t].sets
            BY <1>2, <1>3 DEF Call
          <6>2. n + 1 \in 1 .. Len(call[t].sets)
            <7>1. Len(call[t].sets) \in Nat
              BY <1>3
            <7>2. QED
              BY <1>3, <4>2, <7>1
          <6>3. QED
            BY <6>1, <6>2
        <5> HIDE DEF c
        <5>3. owner' \in [Ifaces -> BusThreads \cup {NoThread}]
          BY <1>1, <1>6 DEF CallTypes
        <5>4. QED
          BY <1>1, <5>1, <5>2, <5>3, MoveTyping
      <4>3. QED
        BY <4>1, <4>2
    <3>5. QED
      BY <3>2, <3>3, <3>4
  <2>3. QED
    BY <2>1, <2>2
<1>8. SessTypes' /\ LoadTypes'
  BY <1>1 DEF SetParam, SessTypes, LoadTypes, sessVars, bounds
<1>9. QED
  BY <1>7, <1>8 DEF TypeOK, EntryTypes, CallTypes, SessTypes, SaveTypes,
                    LoadTypes

\* The steps of Validate, of Rollback and the first of Commit.
LEMMA ControlTyping ==
  ASSUME TypeOK, NEW t \in BusThreads,
         Validate(t) \/ Commit(t) \/ Rollback(t) \/ RollbackReturn(t)
  PROVE  TypeOK'
<1>1. /\ EntryTypes /\ CallTypes /\ SessTypes /\ SaveTypes /\ LoadTypes
  BY TypeParts
<1>2. call[t] \in Call
  BY <1>1 DEF CallTypes
<1>3. CASE Validate(t)
  <2>1. CallsOnly /\ nCalls' \in Nat /\ owner' = owner
    BY <1>1, <1>3 DEF Validate, CallsOnly, LoadTypes
  <2>2. Goto(t, "rollback") \/ Goto(t, "commit")
    BY <1>3 DEF Validate
  <2>3. CallTypes'
    BY <1>1, <2>1, <2>2, GotoTyping
  <2>4. nFaults' \in Nat
    BY <1>1, <1>3, FaultsTyping DEF Validate, LoadTypes
  <2>5. QED
    BY <2>1, <2>3, <2>4, CallsOnlyTyping
<1>4. CASE Commit(t)
  <2> DEFINE c == [call[t] EXCEPT !.at = "save", !.pos = 1]
  <2>1. CallsOnly /\ nCalls' \in Nat /\ nFaults' \in Nat
    BY <1>1, <1>4 DEF Commit, CallsOnly, LoadTypes, bounds
  <2>2. /\ call' = [call EXCEPT ![t] = c]
        /\ owner' \in [Ifaces -> BusThreads \cup {NoThread}]
    BY <1>1, <1>4 DEF Commit, CallTypes
  <2>3. /\ c \in Call
        /\ c.at = "set" => c.pos \in 1 .. Len(c.sets)
        /\ c.at = "save" => c.pos \in 1 .. Len(Saved) + 1
    <3>1. c \in Call /\ c.at = "save" /\ c.pos = 1
      BY <1>2 DEF Call
    <3>2. 1 \in 1 .. Len(Saved) + 1
      BY SavedFacts
    <3> HIDE DEF c
    <3>3. QED
      BY <3>1, <3>2
  <2> HIDE DEF c
  <2>4. CallTypes'
    BY <1>1, <2>2, <2>3, MoveTyping
  <2>5. QED
    BY <2>1, <2>4, CallsOnlyTyping
<1>5. CASE Rollback(t)
  <2>1. CallsOnly /\ nCalls' \in Nat /\ nFaults' \in Nat /\ owner' = owner
    BY <1>1, <1>5 DEF Rollback, CallsOnly, LoadTypes, bounds
  <2>2. CallTypes'
    BY <1>1, <1>5, <2>1, GotoTyping DEF Rollback
  <2>3. QED
    BY <2>1, <2>2, CallsOnlyTyping
<1>6. CASE RollbackReturn(t)
  <2>1. /\ CallsOnly /\ nCalls' \in Nat /\ nFaults' \in Nat
        /\ owner' \in [Ifaces -> BusThreads \cup {NoThread}]
    BY <1>1, <1>6 DEF RollbackReturn, CallsOnly, LoadTypes, bounds, CallTypes
  <2>2. CallTypes'
    BY <1>1, <1>6, <2>1, ReturnTyping DEF RollbackReturn
  <2>3. QED
    BY <2>1, <2>2, CallsOnlyTyping
<1>7. QED
  BY <1>3, <1>4, <1>5, <1>6

LEMMA SaveParamTyping ==
  ASSUME TypeOK, NEW t \in BusThreads, SaveParam(t)
  PROVE  TypeOK'
<1> DEFINE i == Iface(t)
           n == call[t].pos
           p == Saved[n]
<1>1. /\ EntryTypes /\ CallTypes /\ SessTypes /\ SaveTypes /\ LoadTypes
  BY TypeParts
<1>2. call[t] \in Call /\ call[t].at = "save" /\ n \in 1 .. Len(Saved)
  <2>1. /\ call[t] \in Call /\ call[t].at = "save" /\ n <= Len(Saved)
        /\ n \in 1 .. Len(Saved) + 1
    BY <1>1 DEF CallTypes, SaveParam, At
  <2>2. QED
    BY <2>1, SavedFacts
<1>3. i \in Ifaces /\ p \in Params
  BY <1>2, SavedFacts DEF Iface, Call
<1>4. EntryTypes'
  <2>1. psm[i] \in Cfg /\ cfg[i][p] \in Nat
    BY <1>1, <1>3 DEF EntryTypes, Cfg
  <2>2. [psm[i] EXCEPT ![p] = cfg[i][p]] \in Cfg
    BY <2>1 DEF Cfg
  <2>3. psm' \in [Ifaces -> Cfg]
    <3> DEFINE d == [psm[i] EXCEPT ![p] = cfg[i][p]]
    <3>1. psm' = psm \/ psm' = [psm EXCEPT ![i] = d]
      BY <1>1, <1>3 DEF EntryTypes, SaveParam
    <3>2. d \in Cfg
      BY <2>2
    <3> HIDE DEF d
    <3>3. QED
      BY <1>1, <3>1, <3>2 DEF EntryTypes
  <2>4. QED
    BY <1>1, <2>3 DEF EntryTypes, SaveParam
<1>5. CallTypes'
  <2>1. PICK f \in BOOLEAN :
          call' = [call EXCEPT ![t].pos = @ + 1, ![t].failed = f]
    <3>1. CASE call' = [call EXCEPT ![t].pos = @ + 1]
      <4>1. call[t].failed \in BOOLEAN
        BY <1>2 DEF Call
      <4>2. [call[t] EXCEPT !.pos = @ + 1]
            = [call[t] EXCEPT !.pos = @ + 1, !.failed = call[t].failed]
        BY <1>2 DEF Call
      <4>3. [call EXCEPT ![t].pos = @ + 1]
            = [call EXCEPT ![t] = [call[t] EXCEPT !.pos = @ + 1]]
        BY <1>1 DEF CallTypes
      <4>4. [call EXCEPT ![t].pos = @ + 1, ![t].failed = call[t].failed]
            = [call EXCEPT ![t] =
                 [call[t] EXCEPT !.pos = @ + 1, !.failed = call[t].failed]]
        BY <1>1 DEF CallTypes
      <4>5. QED
        BY <3>1, <4>1, <4>2, <4>3, <4>4
    <3>2. CASE call' = [call EXCEPT ![t].pos = @ + 1, ![t].failed = TRUE]
      BY <3>2
    <3>3. QED
      BY <3>1, <3>2 DEF SaveParam
  <2> DEFINE c == [call[t] EXCEPT !.pos = n + 1, !.failed = f]
  <2>2. call' = [call EXCEPT ![t] = c]
    BY <1>1, <2>1 DEF CallTypes
  <2>3. c \in Call /\ c.at = "save" /\ c.pos = n + 1
    <3>1. n + 1 \in Nat
      BY <1>2
    <3>2. QED
      BY <1>2, <3>1 DEF Call
  <2>4. n + 1 \in 1 .. Len(Saved) + 1
    BY <1>2, SavedFacts
  <2> HIDE DEF c
  <2>5. owner' \in [Ifaces -> BusThreads \cup {NoThread}]
    BY <1>1 DEF CallTypes, SaveParam
  <2>6. QED
    BY <1>1, <2>2, <2>3, <2>4, <2>5, MoveTyping
<1>6. nFaults' \in Nat
  BY <1>1, FaultsTyping DEF SaveParam, LoadTypes
<1>7. SessTypes' /\ SaveTypes' /\ LoadTypes'
  BY <1>1, <1>6 DEF SaveParam, SessTypes, SaveTypes, LoadTypes, sessVars,
                    saveVars
<1>8. QED
  BY <1>4, <1>5, <1>7 DEF TypeOK, EntryTypes, CallTypes, SessTypes, SaveTypes,
                          LoadTypes

LEMMA CommitReturnTyping ==
  ASSUME TypeOK, NEW t \in BusThreads, CommitReturn(t)
  PROVE  TypeOK'
<1> DEFINE i == Iface(t)
<1>1. /\ EntryTypes /\ CallTypes /\ SessTypes /\ SaveTypes /\ LoadTypes
  BY TypeParts
<1>2. call[t] \in Call /\ i \in Ifaces /\ call[t].failed \in BOOLEAN
  BY <1>1 DEF CallTypes, Iface, Call
<1>3. CallTypes'
  <2>1. owner' \in [Ifaces -> BusThreads \cup {NoThread}]
    BY <1>1 DEF CommitReturn, CallTypes
  <2>2. QED
    BY <1>1, <2>1, ReturnTyping DEF CommitReturn
<1>4. SaveTypes'
  <2>1. [p \in SavedParams |-> cfg[i][p]] \in [SavedParams -> Nat]
    BY <1>1, <1>2, SavedFacts DEF EntryTypes, Cfg
  <2>2. QED
    BY <1>1, <1>2, <2>1 DEF SaveTypes, CommitReturn
<1>5. EntryTypes' /\ SessTypes' /\ LoadTypes'
  BY <1>1 DEF CommitReturn, EntryTypes, SessTypes, LoadTypes, sessVars, bounds
<1>6. QED
  BY <1>3, <1>4, <1>5 DEF TypeOK, EntryTypes, CallTypes, SessTypes, SaveTypes,
                          LoadTypes

\* A step that changes neither the calls nor the history of the commits.
LEMMA EntryTyping ==
  ASSUME TypeOK, UNCHANGED <<loadAt, mgr, owner, call, saveVars, nCalls, nCrashes>>,
         EntryTypes', SessTypes', nFaults' \in Nat
  PROVE  TypeOK'
<1>1. CallTypes' /\ SaveTypes' /\ LoadTypes'
  BY DEF TypeOK, CallTypes, SaveTypes, LoadTypes, saveVars
<1>2. QED
  BY <1>1 DEF TypeOK, EntryTypes, CallTypes, SessTypes, SaveTypes, LoadTypes

\* A session that is stored in the information about an interface.
LEMMA InfoTyping ==
  ASSUME info \in [Ifaces -> Info], NEW i \in Ifaces,
         NEW s \in 0 .. MaxSessions
  PROVE  [info EXCEPT ![i].session = s] \in [Ifaces -> Info]
<1> DEFINE e == [info[i] EXCEPT !.session = s]
<1>1. e \in Info
  BY DEF Info
<1>2. [info EXCEPT ![i].session = s] = [info EXCEPT ![i] = e]
  OBVIOUS
<1> HIDE DEF e
<1>3. QED
  BY <1>1, <1>2

LEMMA ReadInfoTyping ==
  ASSUME TypeOK, NEW i \in Ifaces, ReadInfo(i)
  PROVE  TypeOK'
<1> DEFINE s == SessionId(info[i].session)
<1>1. info[i].session \in 0 .. MaxSessions
  BY DEF TypeOK, Info
<1>2. s \in 0 .. MaxSessions
  BY <1>1, SessionTyping DEF TypeOK
<1>3. info' = [info EXCEPT ![i].session = s]
  BY DEF ReadInfo, GetIfInfo, TypeOK
<1> HIDE DEF s
<1>4. info' \in [Ifaces -> Info]
  BY <1>2, <1>3, InfoTyping DEF TypeOK
<1>5. EntryTypes' /\ SessTypes' /\ nFaults' \in Nat
  BY <1>4 DEF ReadInfo, TypeOK, EntryTypes, SessTypes, sessVars, bounds
<1>6. QED
  BY <1>5, EntryTyping DEF ReadInfo, bounds

LEMMA StartClientTyping ==
  ASSUME TypeOK, NEW i \in Ifaces, StartClient(i)
  PROVE  TypeOK'
<1>1. cfg' \in [Ifaces -> Cfg]
  <2>1. PICK c \in Credentialed(i) : cfg' = [cfg EXCEPT ![i] = c]
    BY DEF StartClient
  <2>2. cfg[i] \in Cfg
    BY DEF TypeOK
  <2>3. c \in Cfg
    BY <2>1, <2>2, Basics DEF Credentialed, Cfg
  <2>4. QED
    BY <2>1, <2>3 DEF TypeOK
<1>2. PICK started \in BOOLEAN :
        /\ nFaults' = nFaults \/ Faults(1)
        /\ running' = [running EXCEPT ![i] = @ \/ started]
        /\ info' = [info EXCEPT ![i].known = started]
  BY DEF StartClient
<1>3. info' \in [Ifaces -> Info]
  <2> DEFINE e == [info[i] EXCEPT !.known = started]
  <2>1. info' = [info EXCEPT ![i] = e]
    BY <1>2 DEF TypeOK
  <2>2. info[i] \in Info /\ started \in BOOLEAN
    BY <1>2 DEF TypeOK
  <2>3. e \in Info
    BY <2>2 DEF Info
  <2> HIDE DEF e
  <2>4. QED
    BY <2>1, <2>3 DEF TypeOK
<1>4. EntryTypes'
  BY <1>1, <1>3 DEF StartClient, TypeOK, EntryTypes
<1>5. SessTypes'
  BY <1>2 DEF StartClient, TypeOK, SessTypes
<1>6. nFaults' \in Nat
  BY <1>2, FaultsTyping DEF TypeOK
<1>7. QED
  BY <1>4, <1>5, <1>6, EntryTyping DEF StartClient

LEMMA SessionOpensTyping ==
  ASSUME TypeOK, NEW i \in Ifaces, SessionOpens(i)
  PROVE  TypeOK'
<1>1. lastId' \in 1 .. MaxSessions /\ lastId' \in 0 .. MaxSessions
  BY Basics DEF SessionOpens, TypeOK
<1>2. pppoe' \in Seq([iface : Ifaces, id : 1 .. MaxSessions])
  <2>1. [iface |-> i, id |-> lastId'] \in [iface : Ifaces, id : 1 .. MaxSessions]
    BY <1>1
  <2>2. QED
    BY <2>1 DEF SessionOpens, TypeOK
<1>3. EntryTypes' /\ SessTypes' /\ nFaults' \in Nat
  BY <1>1, <1>2 DEF SessionOpens, TypeOK, EntryTypes, SessTypes, bounds
<1>4. QED
  BY <1>3, EntryTyping DEF SessionOpens, bounds

LEMMA ClientEndsTyping ==
  ASSUME TypeOK, NEW i \in Ifaces, ClientEnds(i)
  PROVE  TypeOK'
<1> DEFINE S == [iface : Ifaces, id : 1 .. MaxSessions]
<1>1. pppoe' \in Seq(S)
  <2>1. CASE UNCHANGED pppoe
    BY <2>1 DEF TypeOK
  <2>2. ASSUME NEW n \in 1 .. Len(pppoe),
               pppoe' = SubSeq(pppoe, 1, n - 1) \o SubSeq(pppoe, n + 1, Len(pppoe))
        PROVE  pppoe' \in Seq(S)
    <3>1. pppoe \in Seq(S)
      BY DEF TypeOK
    <3> HIDE DEF S
    <3>2. \A k \in 1 .. Len(pppoe) : pppoe[k] \in S
      BY <3>1
    <3>3. Len(pppoe) \in Nat
      BY <3>1
    <3>4. SubSeq(pppoe, 1, n - 1) \in Seq(S)
      BY <3>1, <3>2, <3>3, SubSeqProperties
    <3>5. SubSeq(pppoe, n + 1, Len(pppoe)) \in Seq(S)
      BY <3>1, <3>2, <3>3, SubSeqProperties
    <3>6. QED
      BY <2>2, <3>4, <3>5
  <2>3. QED
    BY <2>1, <2>2 DEF ClientEnds
<1>2. EntryTypes' /\ SessTypes' /\ nFaults' \in Nat
  BY <1>1 DEF ClientEnds, TypeOK, EntryTypes, SessTypes, bounds
<1>3. QED
  BY <1>2, EntryTyping DEF ClientEnds, bounds

LEMMA ClientUpTyping ==
  ASSUME TypeOK, NEW i \in Ifaces, ClientUp(i)
  PROVE  TypeOK'
<1> DEFINE s == SessionId(info[i].session)
<1>1. info[i].session \in 0 .. MaxSessions
  BY DEF TypeOK, Info
<1>2. s \in 0 .. MaxSessions
  BY <1>1, SessionTyping DEF TypeOK
<1>3. /\ info' = [info EXCEPT ![i].session = s]
      /\ psmSession' = psmSession \/ psmSession' = [psmSession EXCEPT ![0] = s]
      /\ lastUp' = [lastUp EXCEPT ![i] = s]
      /\ nFaults' = nFaults \/ Faults(1)
  BY DEF ClientUp, TypeOK
<1> HIDE DEF s
<1>4. info' \in [Ifaces -> Info]
  BY <1>2, <1>3, InfoTyping DEF TypeOK
<1>5. EntryTypes' /\ SessTypes'
  BY <1>2, <1>3, <1>4 DEF ClientUp, TypeOK, EntryTypes, SessTypes
<1>6. nFaults' \in Nat
  BY <1>3, FaultsTyping DEF TypeOK
<1>7. QED
  BY <1>5, <1>6, EntryTyping DEF ClientUp

LEMMA TypingInit == Init => TypeOK
<1> SUFFICES ASSUME Init PROVE TypeOK
  OBVIOUS
<1>1. EntryTypes
  <2>1. ZeroCfg \in [Ifaces -> Cfg] /\ ZeroInfo \in [Ifaces -> Info]
    BY Basics DEF ZeroCfg, ZeroValues, Cfg, ZeroInfo, Info
  <2>2. [i \in Ifaces |-> [p \in Params |-> 1]] \in [Ifaces -> Cfg]
    BY DEF Cfg
  <2>3. QED
    BY <2>1, <2>2, Basics DEF Init, EntryTypes
<1>2. CallTypes
  BY NoCallTyping DEF CallTypes, Init, NoCall
<1>3. SessTypes
  BY Basics DEF SessTypes, Init
<1>4. SaveTypes /\ LoadTypes
  BY Basics DEF SaveTypes, LoadTypes, Init
<1>5. QED
  BY <1>1, <1>2, <1>3, <1>4, TypeParts

LEMMA TypingStep == TypeOK /\ [Next]_vars => TypeOK'
<1> SUFFICES ASSUME TypeOK, [Next]_vars PROVE TypeOK'
  OBVIOUS
<1>1. CASE Load
  BY <1>1, LoadTyping
<1>2. CASE Crash
  BY <1>2, CrashTyping
<1>3. ASSUME NEW t \in BusThreads, BusCall(t) \/ BusRun(t)
      PROVE  TypeOK'
  BY <1>3, BusCallTyping, SetParamTyping, ControlTyping, SaveParamTyping,
     CommitReturnTyping DEF BusRun
<1>4. ASSUME NEW i \in Ifaces,
             \/ ReadInfo(i) \/ StartClient(i) \/ SessionOpens(i)
             \/ ClientEnds(i) \/ ClientUp(i)
      PROVE  TypeOK'
  BY <1>4, ReadInfoTyping, StartClientTyping, SessionOpensTyping,
     ClientEndsTyping, ClientUpTyping
<1>5. CASE UNCHANGED vars
  BY <1>5 DEF vars, TypeOK
<1>6. QED
  BY <1>1, <1>2, <1>3, <1>4, <1>5 DEF Next

\* Every variable keeps its type: the position of a call stays within its
\* settings or its records, and a session that is found is one of the list.
THEOREM Typing == Spec => []TypeOK
<1>1. Init => TypeOK
  BY TypingInit
<1>2. TypeOK /\ [Next]_vars => TypeOK'
  BY TypingStep
<1>3. QED
  BY <1>1, <1>2, PTL DEF Spec

-----------------------------------------------------------------------------
(* Mutual exclusion: the thread whose commit is writing holds the mutex of *)
(* its entry, nobody else holds one, and nothing is called while the       *)
(* manager loads.                                                          *)

OwnsIfSaves == \A t \in BusThreads : call[t].at = "save" => owner[Iface(t)] = t
SavesIfOwns == \A i \in Ifaces :
                 owner[i] # NoThread =>
                   /\ owner[i] \in BusThreads
                   /\ call[owner[i]].at = "save" /\ Iface(owner[i]) = i
IdleAtLoad  == mgr = "loading" => \A t \in BusThreads : call[t].at = "idle"
LockInv == OwnsIfSaves /\ SavesIfOwns /\ IdleAtLoad

\* A call that moves without a mutex, from and to other labels than "save".
LEMMA LockMove ==
  ASSUME TypeOK, LockInv, NEW t \in BusThreads, NEW c \in Call,
         call' = [call EXCEPT ![t] = c], mgr = "up", UNCHANGED <<mgr, owner>>,
         call[t].at # "save", c.at # "save"
  PROVE  LockInv'
<1>1. \A u \in BusThreads : call'[u] = IF u = t THEN c ELSE call[u]
  BY DEF TypeOK
<1>2. \A i \in Ifaces : owner[i] # t
  BY ThreadAssumption DEF LockInv, SavesIfOwns
<1>3. OwnsIfSaves'
  BY <1>1 DEF LockInv, OwnsIfSaves, Iface
<1>4. SavesIfOwns'
  BY <1>1, <1>2 DEF LockInv, SavesIfOwns, Iface
<1>5. QED
  BY <1>3, <1>4 DEF LockInv, IdleAtLoad

\* What a step that is not the start or the end of a commit makes of a call.
LEMMA GotoMove ==
  ASSUME TypeOK, NEW t \in BusThreads,
         NEW label \in {"idle", "set", "validate", "commit", "rollback", "undone"},
         Goto(t, label)
  PROVE  \E c \in Call : c.at = label /\ call' = [call EXCEPT ![t] = c]
<1> DEFINE c == [call[t] EXCEPT !.at = label]
<1>1. call[t] \in Call
  BY DEF TypeOK
<1>2. c \in Call /\ c.at = label
  BY <1>1 DEF Call
<1>3. call' = [call EXCEPT ![t] = c]
  BY DEF Goto, TypeOK
<1> HIDE DEF c
<1>4. QED
  BY <1>2, <1>3

LEMMA ReturnMove ==
  ASSUME NEW t \in BusThreads, Return(t)
  PROVE  \E c \in Call : c.at = "idle" /\ call' = [call EXCEPT ![t] = c]
<1>1. NoCall.at = "idle"
  BY DEF NoCall
<1>2. QED
  BY <1>1, NoCallTyping DEF Return

\* The steps of a call outside the writing of a commit.
LEMMA LockOutside ==
  ASSUME TypeOK, LockInv, NEW t \in BusThreads,
         \/ BusCall(t) \/ SetParam(t) \/ Validate(t) \/ Rollback(t)
         \/ RollbackReturn(t)
  PROVE  LockInv'
<1>1. call[t].at # "save" /\ mgr = "up" /\ UNCHANGED <<mgr, owner>>
  BY DEF BusCall, SetParam, Validate, Rollback, RollbackReturn, At
<1>2. \E c \in Call : c.at # "save" /\ call' = [call EXCEPT ![t] = c]
  <2>1. CASE BusCall(t)
    <3>1. PICK r \in Requests :
            call' = [call EXCEPT ![t] =
              [at |-> "set", iface |-> r.iface, object |-> r.object,
               sets |-> r.sets, pos |-> 1,
               before |-> [p \in Params |-> IF p \in Set(r.sets)
                                            THEN cfg[r.iface][p] ELSE 0],
               failed |-> FALSE]]
      BY <2>1 DEF BusCall
    <3> DEFINE c == [at |-> "set", iface |-> r.iface, object |-> r.object,
                     sets |-> r.sets, pos |-> 1,
                     before |-> [p \in Params |-> IF p \in Set(r.sets)
                                                  THEN cfg[r.iface][p] ELSE 0],
                     failed |-> FALSE]
    <3>2. cfg[r.iface] \in Cfg
      BY RequestsAssumption DEF TypeOK
    <3>3. c \in Call
      BY <3>2, RequestTyping
    <3>4. c.at # "save" /\ call' = [call EXCEPT ![t] = c]
      BY <3>1
    <3> HIDE DEF c
    <3>5. QED
      BY <3>3, <3>4
  <2>2. CASE SetParam(t)
    <3> DEFINE c == [call[t] EXCEPT !.pos = @ + 1]
    <3>1. \/ Goto(t, "rollback") \/ Goto(t, "validate")
          \/ call' = [call EXCEPT ![t].pos = @ + 1]
      BY <2>2 DEF SetParam
    <3>2. CASE call' = [call EXCEPT ![t].pos = @ + 1]
      <4>1. call' = [call EXCEPT ![t] = c]
        BY <3>2 DEF TypeOK
      <4>2. call[t] \in Call /\ call[t].at = "set"
        BY <2>2 DEF TypeOK, SetParam, At
      <4>3. call[t].pos + 1 \in Nat
        BY <4>2 DEF Call
      <4>4. c \in Call /\ c.at = "set"
        BY <4>2, <4>3 DEF Call
      <4> HIDE DEF c
      <4>5. QED
        BY <4>1, <4>4
    <3>3. QED
      BY <3>1, <3>2, GotoMove
  <2>3. CASE Validate(t)
    <3>1. Goto(t, "rollback") \/ Goto(t, "commit")
      BY <2>3 DEF Validate
    <3>2. QED
      BY <3>1, GotoMove
  <2>4. CASE Rollback(t)
    BY <2>4, GotoMove DEF Rollback
  <2>5. CASE RollbackReturn(t)
    BY <2>5, ReturnMove DEF RollbackReturn
  <2>6. QED
    BY <2>1, <2>2, <2>3, <2>4, <2>5
<1>3. QED
  BY <1>1, <1>2, LockMove

\* Commit takes a free mutex.
LEMMA LockCommit ==
  ASSUME TypeOK, LockInv, NEW t \in BusThreads, Commit(t)
  PROVE  LockInv'
<1> DEFINE i == Iface(t)
<1>1. i \in Ifaces /\ owner[i] = NoThread /\ mgr' = "up" /\ t # NoThread
      /\ call[t].at # "save"
  BY ThreadAssumption DEF Commit, Free, At, TypeOK, Iface, Call
<1>2. \A u \in BusThreads :
        /\ u # t => call'[u] = call[u]
        /\ call'[t].at = "save" /\ call'[t].iface = call[t].iface
  BY DEF Commit, TypeOK, Call
<1>3. \A j \in Ifaces : owner'[j] = IF j = i THEN t ELSE owner[j]
  BY <1>1 DEF Commit, TypeOK
<1>4. \A j \in Ifaces : owner[j] # t
  BY <1>1 DEF LockInv, SavesIfOwns
<1>5. \A u \in BusThreads : Iface(u) \in Ifaces
  BY DEF TypeOK, Iface, Call
<1>6. OwnsIfSaves'
  <2>1. ASSUME NEW u \in BusThreads, (call[u].at = "save")'
        PROVE  owner'[Iface(u)'] = u
    <3>1. CASE u = t
      BY <1>1, <1>2, <1>3, <3>1 DEF Iface
    <3>2. CASE u # t
      <4>1. call'[u] = call[u] /\ owner[Iface(u)] = u
        BY <1>2, <2>1, <3>2 DEF LockInv, OwnsIfSaves
      <4>2. Iface(u) # i
        BY <1>1, <4>1, ThreadAssumption
      <4>3. QED
        BY <1>3, <1>5, <4>1, <4>2 DEF Iface
    <3>3. QED
      BY <3>1, <3>2
  <2>2. QED
    BY <2>1 DEF OwnsIfSaves
<1>7. SavesIfOwns'
  BY <1>1, <1>2, <1>3, <1>4 DEF LockInv, SavesIfOwns, Iface
<1>8. QED
  BY <1>1, <1>6, <1>7 DEF LockInv, IdleAtLoad

\* A record is written under the mutex.
LEMMA LockSave ==
  ASSUME TypeOK, LockInv, NEW t \in BusThreads, SaveParam(t)
  PROVE  LockInv'
<1>1. \A u \in BusThreads : call'[u].at = call[u].at
                            /\ call'[u].iface = call[u].iface
  <2>1. call \in [BusThreads -> Call] /\ call[t] \in Call
    BY DEF TypeOK
  <2> DEFINE c == [call[t] EXCEPT !.pos = @ + 1]
             d == [call[t] EXCEPT !.pos = @ + 1, !.failed = TRUE]
  <2>2. /\ c.at = call[t].at /\ c.iface = call[t].iface
        /\ d.at = call[t].at /\ d.iface = call[t].iface
    BY <2>1 DEF Call
  <2>3. call' = [call EXCEPT ![t] = c] \/ call' = [call EXCEPT ![t] = d]
    BY <2>1 DEF SaveParam
  <2> HIDE DEF c, d
  <2>4. QED
    BY <2>1, <2>2, <2>3
<1>2. UNCHANGED <<mgr, owner>> /\ mgr = "up"
  BY DEF SaveParam, At
<1>3. QED
  BY <1>1, <1>2 DEF LockInv, OwnsIfSaves, SavesIfOwns, IdleAtLoad, Iface

\* The end of Commit gives the mutex back.
LEMMA LockReturn ==
  ASSUME TypeOK, LockInv, NEW t \in BusThreads, CommitReturn(t)
  PROVE  LockInv'
<1> DEFINE i == Iface(t)
<1>1. i \in Ifaces /\ owner[i] = t /\ mgr' = "up"
  BY DEF CommitReturn, At, TypeOK, Iface, Call, LockInv, OwnsIfSaves
<1>2. \A u \in BusThreads : /\ u # t => call'[u] = call[u]
                            /\ call'[t].at = "idle"
  BY DEF CommitReturn, Return, TypeOK, NoCall
<1>3. \A j \in Ifaces : owner'[j] = IF j = i THEN NoThread ELSE owner[j]
  BY <1>1 DEF CommitReturn, TypeOK
<1>4. \A u \in BusThreads : Iface(u) \in Ifaces
  BY DEF TypeOK, Iface, Call
<1>5. OwnsIfSaves'
  BY <1>1, <1>2, <1>3, <1>4 DEF LockInv, OwnsIfSaves, Iface
<1>6. SavesIfOwns'
  BY <1>1, <1>2, <1>3 DEF LockInv, SavesIfOwns, Iface
<1>7. QED
  BY <1>1, <1>5, <1>6 DEF LockInv, IdleAtLoad

LEMMA LockStep == TypeOK /\ LockInv /\ [Next]_vars => LockInv'
<1> SUFFICES ASSUME TypeOK, LockInv, [Next]_vars PROVE LockInv'
  OBVIOUS
<1>1. CASE Load
  BY <1>1 DEF LockInv, OwnsIfSaves, SavesIfOwns, IdleAtLoad, Load, LoadNext,
              Iface
<1>2. CASE Crash
  BY <1>2 DEF LockInv, OwnsIfSaves, SavesIfOwns, IdleAtLoad, Crash, NoCall,
              Iface
<1>3. ASSUME NEW t \in BusThreads, BusCall(t) \/ BusRun(t)
      PROVE  LockInv'
  BY <1>3, LockOutside, LockCommit, LockSave, LockReturn DEF BusRun
<1>4. CASE UNCHANGED <<mgr, owner, call>>
  BY <1>4 DEF LockInv, OwnsIfSaves, SavesIfOwns, IdleAtLoad, Iface
<1>5. ASSUME NEW i \in Ifaces,
             \/ ReadInfo(i) \/ StartClient(i) \/ SessionOpens(i)
             \/ ClientEnds(i) \/ ClientUp(i)
      PROVE  UNCHANGED <<mgr, owner, call>>
  BY <1>5 DEF ReadInfo, StartClient, SessionOpens, ClientEnds, ClientUp
<1>6. QED
  BY <1>1, <1>2, <1>3, <1>4, <1>5 DEF Next, vars

LEMMA LockInit == Init => LockInv
  BY DEF Init, LockInv, OwnsIfSaves, SavesIfOwns, IdleAtLoad, NoCall, Iface

-----------------------------------------------------------------------------
(* What is saved, and what is acknowledged.                                *)

\* The strengthening of AckedSurvives: what has been acknowledged is in PSM
\* whenever no commit is writing, so that the next load finds it there.
PsmIsAcked ==
  \A i \in Ifaces :
    owner[i] = NoThread /\ ~excused[i] =>
      \A p \in SavedParams : psm[i][p] = acked[i][p]

\* The entry of a thread that writes is changed by no other thread: the steps
\* that change cfg need its mutex free.
LEMMA SnapshotElsewhere ==
  ASSUME TypeOK, LockInv, SavedIsSnapshot, psm' = psm, NEW i \in Ifaces, Free(i),
         \A j \in Ifaces : j # i => cfg'[j] = cfg[j],
         \A t \in BusThreads :
           (call[t].at = "save")' => call'[t] = call[t]
  PROVE  SavedIsSnapshot'
<1>1. ASSUME NEW t \in BusThreads, (call[t].at = "save" /\ ~call[t].failed)'
      PROVE  (\A n \in 1 .. call[t].pos - 1 :
                psm[Iface(t)][Saved[n]] = cfg[Iface(t)][Saved[n]])'
  <2>1. call'[t] = call[t] /\ call[t].at = "save" /\ ~call[t].failed
    BY <1>1
  <2>2. Iface(t) \in Ifaces /\ owner[Iface(t)] = t
    BY <2>1 DEF LockInv, OwnsIfSaves, TypeOK, Iface, Call
  <2>3. Iface(t) # i
    BY <2>2, ThreadAssumption DEF Free
  <2>4. cfg'[Iface(t)] = cfg[Iface(t)] /\ Iface(t)' = Iface(t)
    BY <2>1, <2>2, <2>3 DEF Iface
  <2>5. \A n \in 1 .. call[t].pos - 1 :
          psm[Iface(t)][Saved[n]] = cfg[Iface(t)][Saved[n]]
    BY <2>1 DEF SavedIsSnapshot
  <2>6. QED
    BY <2>1, <2>4, <2>5
<1>2. QED
  BY <1>1 DEF SavedIsSnapshot

\* The calls after a step of thread t.
LEMMA OtherCalls ==
  ASSUME TypeOK, NEW t \in BusThreads, BusCall(t) \/ BusRun(t)
  PROVE  \A u \in BusThreads : u # t => call'[u] = call[u]
  BY DEF TypeOK, BusCall, BusRun, SetParam, Validate, Commit, SaveParam,
         CommitReturn, Rollback, RollbackReturn, Goto, Return

\* A record is written: what was written before stays, whether or not it is the
\* record of the same parameter.
LEMMA SnapshotSave ==
  ASSUME TypeOK, LockInv, SavedIsSnapshot, NEW t \in BusThreads, SaveParam(t)
  PROVE  SavedIsSnapshot'
<1> DEFINE i == Iface(t)
           m == call[t].pos
<1>1. /\ call[t] \in Call /\ i \in Ifaces /\ m \in 1 .. Len(Saved)
      /\ call[t].at = "save" /\ owner[i] = t
  <2>1. /\ call[t] \in Call /\ i \in Ifaces /\ m \in 1 .. Len(Saved) + 1
        /\ m <= Len(Saved) /\ call[t].at = "save"
    BY DEF SaveParam, At, TypeOK, Iface, Call
  <2>2. QED
    BY <2>1, SavedFacts DEF LockInv, OwnsIfSaves
<1>2. cfg' = cfg
  BY DEF SaveParam
<1>3. ASSUME NEW u \in BusThreads, (call[u].at = "save" /\ ~call[u].failed)'
      PROVE  (\A n \in 1 .. call[u].pos - 1 :
                psm[Iface(u)][Saved[n]] = cfg[Iface(u)][Saved[n]])'
  <2>1. CASE u # t
    <3>1. call'[u] = call[u]
      BY <2>1, OtherCalls DEF BusRun
    <3>2. Iface(u) \in Ifaces /\ owner[Iface(u)] = u
      BY <1>3, <3>1 DEF LockInv, OwnsIfSaves, TypeOK, Iface, Call
    <3>3. Iface(u) # i
      BY <1>1, <2>1, <3>2
    <3>4. psm'[Iface(u)] = psm[Iface(u)]
      BY <3>2, <3>3 DEF SaveParam, TypeOK
    <3>5. \A n \in 1 .. call[u].pos - 1 :
            psm[Iface(u)][Saved[n]] = cfg[Iface(u)][Saved[n]]
      BY <1>3, <3>1 DEF SavedIsSnapshot
    <3>6. QED
      BY <1>2, <3>1, <3>4, <3>5 DEF Iface
  <2>2. CASE u = t
    <3> DEFINE c == [call[t] EXCEPT !.pos = m + 1]
               d == [call[t] EXCEPT !.pos = m + 1, !.failed = TRUE]
    <3>1. /\ c.iface = call[t].iface /\ c.pos = m + 1 /\ c.failed = call[t].failed
          /\ d.failed = TRUE
      BY <1>1 DEF Call
    <3>2. \/ /\ call' = [call EXCEPT ![t] = c]
             /\ psm' = [psm EXCEPT ![i] = [@ EXCEPT ![Saved[m]] = cfg[i][Saved[m]]]]
          \/ call' = [call EXCEPT ![t] = d]
      BY DEF SaveParam, TypeOK
    <3> HIDE DEF c, d
    <3>3. /\ call'[t] = c /\ ~call[t].failed
          /\ psm' = [psm EXCEPT ![i] = [@ EXCEPT ![Saved[m]] = cfg[i][Saved[m]]]]
      BY <1>3, <2>2, <3>1, <3>2 DEF TypeOK
    <3>4. \A n \in 1 .. m - 1 : psm[i][Saved[n]] = cfg[i][Saved[n]]
      BY <1>1, <3>3 DEF SavedIsSnapshot
    <3>5. psm[i] \in [Params -> Nat]
      BY <1>1 DEF TypeOK, Cfg
    <3>6. psm'[i] = [psm[i] EXCEPT ![Saved[m]] = cfg[i][Saved[m]]]
      BY <1>1, <3>3 DEF TypeOK
    <3>7. \A n \in 1 .. m : psm'[i][Saved[n]] = cfg[i][Saved[n]]
      <4>1. ASSUME NEW n \in 1 .. m
            PROVE  psm'[i][Saved[n]] = cfg[i][Saved[n]]
        <5>1. Saved[n] \in Params /\ Saved[m] \in Params
          BY <1>1, SavedFacts
        <5>2. n = m \/ n \in 1 .. m - 1
          BY <1>1
        <5>3. CASE Saved[n] = Saved[m]
          BY <3>5, <3>6, <5>1, <5>3
        <5>4. CASE Saved[n] # Saved[m]
          BY <3>4, <3>5, <3>6, <5>1, <5>2, <5>4
        <5>5. QED
          BY <5>3, <5>4
      <4>2. QED
        BY <4>1
    <3>8. call'[t].pos - 1 = m /\ Iface(t)' = i
      <4>1. m \in Nat
        BY <1>1
      <4>2. QED
        BY <3>1, <3>3, <4>1 DEF Iface
    <3>9. QED
      BY <1>2, <2>2, <3>7, <3>8
  <2>3. QED
    BY <2>1, <2>2
<1>4. QED
  BY <1>3 DEF SavedIsSnapshot

LEMMA SnapshotStep ==
  TypeOK /\ LockInv /\ SavedIsSnapshot /\ [Next]_vars => SavedIsSnapshot'
<1> SUFFICES ASSUME TypeOK, LockInv, SavedIsSnapshot, [Next]_vars
             PROVE  SavedIsSnapshot'
  OBVIOUS
<1>1. CASE Load
  BY <1>1 DEF Load, LockInv, IdleAtLoad, SavedIsSnapshot
<1>2. CASE Crash
  BY <1>2 DEF Crash, NoCall, SavedIsSnapshot
<1>3. ASSUME NEW t \in BusThreads, BusCall(t) \/ BusRun(t)
      PROVE  SavedIsSnapshot'
  <2>1. \A u \in BusThreads : u # t => call'[u] = call[u]
    BY <1>3, OtherCalls
  <2>2. CASE SaveParam(t)
    BY <2>2, SnapshotSave
  <2>3. CASE SetParam(t)
    <3>1. Iface(t) \in Ifaces /\ Free(Iface(t)) /\ psm' = psm
      BY <2>3 DEF SetParam, TypeOK, Iface, Call
    <3>2. \A j \in Ifaces : j # Iface(t) => cfg'[j] = cfg[j]
      BY <2>3, <3>1 DEF SetParam, TypeOK
    <3>3. call[t] \in Call /\ call[t].at = "set"
      BY <2>3 DEF SetParam, At, TypeOK
    <3>4. call'[t].at # "save"
      <4> DEFINE c == [call[t] EXCEPT !.pos = @ + 1]
                 d == [call[t] EXCEPT !.at = "validate"]
                 e == [call[t] EXCEPT !.at = "rollback"]
      <4>1. c.at = "set" /\ d.at = "validate" /\ e.at = "rollback"
        BY <3>3 DEF Call
      <4>2. call'[t] \in {c, d, e}
        BY <2>3 DEF SetParam, Goto, TypeOK
      <4> HIDE DEF c, d, e
      <4>3. QED
        BY <4>1, <4>2
    <3>5. QED
      BY <2>1, <3>1, <3>2, <3>4, SnapshotElsewhere
  <2>4. CASE BusCall(t) \/ Validate(t) \/ Commit(t) \/ CommitReturn(t)
             \/ Rollback(t) \/ RollbackReturn(t)
    <3>1. psm' = psm /\ cfg' = cfg
      BY <2>4 DEF BusCall, Validate, Commit, CommitReturn, Rollback,
                  RollbackReturn
    <3>2. (call[t].at = "save")' => call'[t].pos = 1
      <4>1. call[t] \in Call
        BY DEF TypeOK
      <4>2. CASE Commit(t)
        BY <4>1, <4>2 DEF Commit, TypeOK, Call
      <4>3. CASE BusCall(t)
        BY <4>3 DEF BusCall, TypeOK
      <4>4. CASE Validate(t) \/ Rollback(t)
        <5>1. Goto(t, "rollback") \/ Goto(t, "commit") \/ Goto(t, "undone")
          BY <4>4 DEF Validate, Rollback
        <5>2. QED
          BY <5>1, GotoMove DEF TypeOK
      <4>5. CASE CommitReturn(t) \/ RollbackReturn(t)
        BY <4>5, ReturnMove DEF CommitReturn, RollbackReturn, TypeOK
      <4>6. QED
        BY <2>4, <4>2, <4>3, <4>4, <4>5
    <3>3. QED
      BY <2>1, <3>1, <3>2 DEF SavedIsSnapshot, Iface
  <2>5. QED
    BY <1>3, <2>2, <2>3, <2>4 DEF BusRun
<1>4. ASSUME NEW i \in Ifaces, StartClient(i)
      PROVE  SavedIsSnapshot'
  <2>1. call' = call /\ psm' = psm /\ Free(i)
    BY <1>4 DEF StartClient
  <2>2. \A j \in Ifaces : j # i => cfg'[j] = cfg[j]
    BY <1>4 DEF StartClient, TypeOK
  <2>3. QED
    BY <2>1, <2>2, SnapshotElsewhere
<1>5. ASSUME NEW i \in Ifaces,
             \/ ReadInfo(i) \/ SessionOpens(i) \/ ClientEnds(i) \/ ClientUp(i)
      PROVE  UNCHANGED <<cfg, psm, call>>
  BY <1>5 DEF ReadInfo, SessionOpens, ClientEnds, ClientUp
<1>6. CASE UNCHANGED <<cfg, psm, call>>
  BY <1>6 DEF SavedIsSnapshot, Iface
<1>7. QED
  BY <1>1, <1>2, <1>3, <1>4, <1>5, <1>6 DEF Next, vars

\* At the end of a commit whose writes have not failed, PSM has the entry.
LEMMA CommitSaved ==
  ASSUME TypeOK, SavedIsSnapshot, NEW t \in BusThreads, CommitReturn(t),
         ~call[t].failed
  PROVE  \A p \in SavedParams : psm[Iface(t)][p] = cfg[Iface(t)][p]
<1>1. call[t].at = "save" /\ call[t].pos \in Nat /\ call[t].pos > Len(Saved)
  BY DEF CommitReturn, At, TypeOK, Call
<1>2. \A n \in 1 .. Len(Saved) :
        psm[Iface(t)][Saved[n]] = cfg[Iface(t)][Saved[n]]
  <2>1. \A n \in 1 .. Len(Saved) : n \in 1 .. call[t].pos - 1
    BY <1>1, SavedFacts
  <2>2. QED
    BY <1>1, <2>1 DEF SavedIsSnapshot
<1>3. QED
  BY <1>2, SavedFacts

LEMMA PsmStep ==
  TypeOK /\ LockInv /\ SavedIsSnapshot /\ PsmIsAcked /\ [Next]_vars => PsmIsAcked'
<1> SUFFICES ASSUME TypeOK, LockInv, SavedIsSnapshot, PsmIsAcked, [Next]_vars
             PROVE  PsmIsAcked'
  OBVIOUS
<1>1. CASE Load
  <2>1. UNCHANGED <<owner, psm, acked>>
    BY <1>1 DEF Load
  <2>2. \A i \in Ifaces : excused[i] => excused'[i]
    BY <1>1 DEF Load, TypeOK
  <2>3. QED
    BY <2>1, <2>2 DEF PsmIsAcked
<1>2. CASE Crash
  <2>1. ASSUME NEW i \in Ifaces, ~excused'[i]
        PROVE  owner[i] = NoThread /\ ~excused[i]
    <3>1. ~excused[i] /\ ~\E t \in BusThreads :
                             call[t].at = "save" /\ call[t].iface = i
      BY <1>2, <2>1 DEF Crash
    <3>2. QED
      BY <3>1 DEF LockInv, SavesIfOwns, Iface
  <2>2. QED
    BY <1>2, <2>1 DEF Crash, PsmIsAcked
<1>3. ASSUME NEW t \in BusThreads, BusCall(t) \/ BusRun(t)
      PROVE  PsmIsAcked'
  <2>1. CASE CommitReturn(t)
    <3> DEFINE i == Iface(t)
    <3>1. i \in Ifaces /\ psm' = psm
      BY <2>1 DEF CommitReturn, TypeOK, Iface, Call
    <3>2. /\ \A j \in Ifaces : j # i => /\ owner'[j] = owner[j]
                                        /\ excused'[j] = excused[j]
                                        /\ acked'[j] = acked[j]
          /\ excused'[i] = call[t].failed
          /\ acked'[i] = [p \in SavedParams |-> cfg[i][p]]
      BY <2>1, <3>1 DEF CommitReturn, TypeOK
    <3>3. ~call[t].failed => \A p \in SavedParams : psm[i][p] = cfg[i][p]
      BY <2>1, CommitSaved
    <3>4. QED
      BY <3>1, <3>2, <3>3 DEF PsmIsAcked
  <2>2. CASE SaveParam(t)
    <3>1. Iface(t) \in Ifaces /\ owner[Iface(t)] = t
      BY <2>2 DEF SaveParam, At, TypeOK, Iface, Call, LockInv, OwnsIfSaves
    <3>2. /\ \A j \in Ifaces : j # Iface(t) => psm'[j] = psm[j]
          /\ UNCHANGED <<owner, acked, excused>>
      BY <2>2, <3>1 DEF SaveParam, TypeOK, saveVars
    <3>3. QED
      BY <3>1, <3>2, ThreadAssumption DEF PsmIsAcked
  <2>3. CASE Commit(t)
    <3>1. Iface(t) \in Ifaces
      BY DEF TypeOK, Iface, Call
    <3>2. /\ \A j \in Ifaces : owner'[j] = IF j = Iface(t) THEN t ELSE owner[j]
          /\ UNCHANGED <<psm, acked, excused>>
      BY <2>3, <3>1 DEF Commit, TypeOK, saveVars
    <3>3. QED
      BY <3>2, ThreadAssumption DEF PsmIsAcked
  <2>4. CASE BusCall(t) \/ SetParam(t) \/ Validate(t) \/ Rollback(t)
             \/ RollbackReturn(t)
    <3>1. UNCHANGED <<owner, psm, acked, excused>>
      BY <2>4 DEF BusCall, SetParam, Validate, Rollback, RollbackReturn, saveVars
    <3>2. QED
      BY <3>1 DEF PsmIsAcked
  <2>5. QED
    BY <1>3, <2>1, <2>2, <2>3, <2>4 DEF BusRun
<1>4. ASSUME NEW i \in Ifaces,
             \/ ReadInfo(i) \/ StartClient(i) \/ SessionOpens(i)
             \/ ClientEnds(i) \/ ClientUp(i)
      PROVE  UNCHANGED <<owner, psm, acked, excused>>
  BY <1>4 DEF ReadInfo, StartClient, SessionOpens, ClientEnds, ClientUp, saveVars
<1>5. CASE UNCHANGED <<owner, psm, acked, excused>>
  BY <1>5 DEF PsmIsAcked
<1>6. QED
  BY <1>1, <1>2, <1>3, <1>4, <1>5 DEF Next, vars

\* An entry is loaded from what PSM has, and that is what was acknowledged.
LEMMA AckedLoad ==
  ASSUME TypeOK, LockInv, PsmIsAcked, AckedSurvives, Load
  PROVE  AckedSurvives'
<1> DEFINE i == loadAt
<1>1. i \in Ifaces /\ mgr = "loading" /\ acked' = acked
  BY DEF Load, TypeOK
<1>2. owner[i] = NoThread
  BY <1>1 DEF LockInv, IdleAtLoad, SavesIfOwns
<1>3. PICK lost \in SUBSET Records :
        /\ cfg' = [cfg EXCEPT ![i] =
             [p \in Params |-> IF p \in Loaded \ lost THEN psm[i][p] ELSE 0]]
        /\ excused' = [excused EXCEPT ![i] = @ \/ lost # {}]
        /\ untouched' = [untouched EXCEPT ![i] = TRUE]
  BY DEF Load
<1>4. ASSUME NEW j \in Ifaces, (mgr = "up" \/ j < loadAt)', untouched'[j],
             ~excused'[j], NEW p \in SavedParams
      PROVE  cfg'[j][p] = acked'[j][p]
  <2>1. CASE j = i
    <3>1. lost = {} /\ ~excused[i]
      BY <1>1, <1>3, <1>4, <2>1 DEF TypeOK
    <3>2. p \in Params /\ p \in Loaded
      BY SavedFacts
    <3>3. cfg'[i][p] = psm[i][p]
      BY <1>1, <1>3, <3>1, <3>2 DEF TypeOK
    <3>4. QED
      BY <1>1, <1>2, <2>1, <3>1, <3>3 DEF PsmIsAcked
  <2>2. CASE j # i
    <3>1. cfg'[j] = cfg[j] /\ untouched[j] /\ ~excused[j]
      BY <1>1, <1>3, <1>4, <2>2 DEF TypeOK
    <3>2. j < i
      <4>1. /\ j \in Nat /\ j >= 1 /\ j <= NumIfaces
            /\ i \in Nat /\ i >= 1 /\ i <= NumIfaces
            /\ NumIfaces \in Nat
        BY <1>1, Basics
      <4>2. CASE i < NumIfaces
        <5>1. loadAt' = i + 1 /\ mgr' = "loading"
          BY <1>1, <4>2 DEF Load, LoadNext
        <5>2. QED
          BY <1>4, <2>2, <4>1, <5>1
      <4>3. CASE ~(i < NumIfaces)
        BY <2>2, <4>1, <4>3
      <4>4. QED
        BY <4>2, <4>3
    <3>3. QED
      BY <1>1, <3>1, <3>2 DEF AckedSurvives
  <2>3. QED
    BY <2>1, <2>2
<1>5. QED
  BY <1>4 DEF AckedSurvives

LEMMA AckedStep ==
  TypeOK /\ LockInv /\ PsmIsAcked /\ AckedSurvives /\ [Next]_vars
    => AckedSurvives'
<1> SUFFICES ASSUME TypeOK, LockInv, PsmIsAcked, AckedSurvives, [Next]_vars
             PROVE  AckedSurvives'
  OBVIOUS
<1>1. CASE Load
  BY <1>1, AckedLoad
<1>2. CASE Crash
  <2>1. mgr' = "loading" /\ loadAt' = 1
    BY <1>2 DEF Crash
  <2>2. \A i \in Ifaces : ~(i < 1)
    BY Basics
  <2>3. QED
    BY <2>1, <2>2 DEF AckedSurvives
<1>3. ASSUME NEW t \in BusThreads, BusCall(t) \/ BusRun(t)
      PROVE  AckedSurvives'
  <2>1. mgr' = mgr /\ loadAt' = loadAt /\ Iface(t) \in Ifaces
    BY <1>3 DEF BusCall, BusRun, SetParam, Validate, Commit, SaveParam,
                CommitReturn, Rollback, RollbackReturn, TypeOK, Iface, Call
  <2>2. CASE CommitReturn(t)
    <3>1. /\ \A j \in Ifaces : j # Iface(t) => /\ untouched'[j] = untouched[j]
                                               /\ excused'[j] = excused[j]
                                               /\ acked'[j] = acked[j]
          /\ acked'[Iface(t)] = [p \in SavedParams |-> cfg[Iface(t)][p]]
          /\ cfg' = cfg
      BY <2>1, <2>2 DEF CommitReturn, TypeOK
    <3>2. QED
      BY <2>1, <3>1 DEF AckedSurvives
  <2>3. CASE SetParam(t)
    <3>1. UNCHANGED <<acked, excused>>
      BY <2>3 DEF SetParam
    <3>2. \A j \in Ifaces :
            untouched'[j] => untouched[j] /\ cfg'[j] = cfg[j]
      BY <2>1, <2>3 DEF SetParam, TypeOK
    <3>3. QED
      BY <2>1, <3>1, <3>2 DEF AckedSurvives
  <2>4. CASE BusCall(t) \/ Validate(t) \/ Commit(t) \/ SaveParam(t)
             \/ Rollback(t) \/ RollbackReturn(t)
    <3>1. UNCHANGED <<cfg, acked, excused, untouched>>
      BY <2>4 DEF BusCall, Validate, Commit, SaveParam, Rollback,
                  RollbackReturn, saveVars
    <3>2. QED
      BY <2>1, <3>1 DEF AckedSurvives
  <2>5. QED
    BY <1>3, <2>2, <2>3, <2>4 DEF BusRun
<1>4. ASSUME NEW i \in Ifaces, StartClient(i)
      PROVE  AckedSurvives'
  <2>1. UNCHANGED <<mgr, loadAt, acked, excused, untouched>>
    BY <1>4 DEF StartClient, saveVars
  <2>2. ASSUME NEW j \in Ifaces, NEW p \in SavedParams
        PROVE  cfg'[j][p] = cfg[j][p]
    <3>1. PICK c \in Credentialed(i) : cfg' = [cfg EXCEPT ![i] = c]
      BY <1>4 DEF StartClient
    <3>2. p \in Params /\ (~CredsFromPsm => p \notin Creds)
      BY SavedFacts
    <3>3. c[p] = cfg[i][p]
      BY <3>1, <3>2 DEF Credentialed
    <3>4. QED
      BY <3>1, <3>3 DEF TypeOK
  <2>3. QED
    BY <2>1, <2>2 DEF AckedSurvives
<1>5. ASSUME NEW i \in Ifaces,
             \/ ReadInfo(i) \/ SessionOpens(i) \/ ClientEnds(i) \/ ClientUp(i)
      PROVE  UNCHANGED <<mgr, loadAt, cfg, acked, excused, untouched>>
  BY <1>5 DEF ReadInfo, SessionOpens, ClientEnds, ClientUp, saveVars
<1>6. CASE UNCHANGED <<mgr, loadAt, cfg, acked, excused, untouched>>
  BY <1>6 DEF AckedSurvives
<1>7. QED
  BY <1>1, <1>2, <1>3, <1>4, <1>5, <1>6 DEF Next, vars

SaveInv == /\ TypeOK /\ LockInv
           /\ SavedIsSnapshot /\ PsmIsAcked /\ AckedSurvives

LEMMA SaveInvariant == Spec => []SaveInv
<1>1. Init => SaveInv
  <2> SUFFICES ASSUME Init PROVE SaveInv
    OBVIOUS
  <2>1. SavedIsSnapshot
    BY DEF Init, NoCall, SavedIsSnapshot
  <2>2. PsmIsAcked
    BY SavedFacts DEF Init, PsmIsAcked
  <2>3. AckedSurvives
    <3>1. mgr = "loading" /\ loadAt = 1
      BY DEF Init
    <3>2. QED
      BY <3>1, Basics DEF AckedSurvives
  <2>4. QED
    BY <2>1, <2>2, <2>3, TypingInit, LockInit DEF SaveInv
<1>2. SaveInv /\ [Next]_vars => SaveInv'
  BY TypingStep, LockStep, SnapshotStep, PsmStep, AckedStep DEF SaveInv
<1>3. QED
  BY <1>1, <1>2, PTL DEF Spec

\* A commit never writes a mix of two settings: what it has written so far is
\* what the entry holds, whatever the other bus threads set or commit meanwhile.
THEOREM SavesSnapshot == Spec => []SavedIsSnapshot
<1>1. SaveInv => SavedIsSnapshot
  BY DEF SaveInv
<1>2. QED
  BY <1>1, SaveInvariant, PTL

\* What a commit acknowledges survives later crashes and loads, until it is set
\* again, unless PSM failed or a crash cut a later commit short.
THEOREM AckedIsDurable == Spec => []AckedSurvives
<1>1. SaveInv => AckedSurvives
  BY DEF SaveInv
<1>2. QED
  BY <1>1, SaveInvariant, PTL

-----------------------------------------------------------------------------
(* The commits implement the store of SettingsStore.                       *)

\* Functions that differ in one interface, and in one parameter of it.
LEMMA OneIfaceDiffers ==
  ASSUME NEW A, NEW B, NEW f \in [A -> B], NEW g \in [A -> B], NEW i \in A,
         \A j \in A : j # i => g[j] = f[j]
  PROVE  g = [f EXCEPT ![i] = g[i]]
  OBVIOUS

Settings == [Ifaces -> [SavedParams -> Nat]]

LEMMA OneParamDiffers ==
  \A f, g \in Settings, i \in Ifaces, p \in SavedParams :
    (\A j \in Ifaces, q \in SavedParams : j # i \/ q # p => g[j][q] = f[j][q])
      => g = Store!Put(f, i, p, g[i][p])
<1> SUFFICES ASSUME NEW f \in Settings, NEW g \in Settings,
                    NEW i \in Ifaces, NEW p \in SavedParams,
                    \A j \in Ifaces, q \in SavedParams :
                      j # i \/ q # p => g[j][q] = f[j][q]
             PROVE  g = Store!Put(f, i, p, g[i][p])
  OBVIOUS
<1>1. g[i] = [f[i] EXCEPT ![p] = g[i][p]]
  BY DEF Settings
<1>2. \A j \in Ifaces : j # i => g[j] = f[j]
  BY DEF Settings
<1>3. g = [f EXCEPT ![i] = g[i]]
  BY <1>2, OneIfaceDiffers DEF Settings
<1>4. QED
  BY <1>1, <1>3 DEF Store!Put

LEMMA StoreTypes ==
  TypeOK => /\ Live \in [Ifaces -> [SavedParams -> Nat]]
            /\ Kept \in [Ifaces -> [SavedParams -> Nat]]
            /\ Due  \in [Ifaces -> [SavedParams -> Nat]]
  BY SavedFacts DEF TypeOK, Cfg, Live, Kept, Due

LEMMA StoreTypesAfter ==
  TypeOK' => /\ Live' \in [Ifaces -> [SavedParams -> Nat]]
             /\ Kept' \in [Ifaces -> [SavedParams -> Nat]]
             /\ Due'  \in [Ifaces -> [SavedParams -> Nat]]
  BY SavedFacts DEF TypeOK, Cfg, Live, Kept, Due

LEMMA SavedOnce ==
  \A m, n \in 1 .. Len(Saved) : Saved[m] = Saved[n] => m = n
<1>1. CASE CredsFromPsm
  BY <1>1 DEF Saved
<1>2. CASE ~CredsFromPsm
  BY <1>2 DEF Saved
<1>3. QED
  BY <1>1, <1>2

\* Which records are still to be written, in terms of the mutex's owner.
Ahead(t, p) == \E n \in 1 .. Len(Saved) : n >= call[t].pos /\ Saved[n] = p

LEMMA DueOf ==
  TypeOK /\ LockInv =>
    \A i \in Ifaces, p \in SavedParams :
      Due[i][p] = IF ~Free(i) /\ Ahead(owner[i], p) THEN cfg[i][p] ELSE psm[i][p]
<1> SUFFICES ASSUME TypeOK, LockInv, NEW i \in Ifaces, NEW p \in SavedParams
             PROVE  StillToWrite(i, p) <=> ~Free(i) /\ Ahead(owner[i], p)
  BY DEF Due
<1>1. ASSUME StillToWrite(i, p) PROVE ~Free(i) /\ Ahead(owner[i], p)
  <2>1. PICK t \in BusThreads :
          /\ call[t].at = "save" /\ Iface(t) = i
          /\ \E n \in 1 .. Len(Saved) : n >= call[t].pos /\ Saved[n] = p
    BY <1>1 DEF StillToWrite
  <2>2. owner[i] = t
    BY <2>1 DEF LockInv, OwnsIfSaves
  <2>3. QED
    BY <2>1, <2>2, ThreadAssumption DEF Free, Ahead
<1>2. ASSUME ~Free(i), Ahead(owner[i], p) PROVE StillToWrite(i, p)
  <2>1. /\ owner[i] \in BusThreads
        /\ call[owner[i]].at = "save" /\ Iface(owner[i]) = i
    BY <1>2 DEF LockInv, SavesIfOwns, Free
  <2>2. QED
    BY <1>2, <2>1 DEF StillToWrite, Ahead
<1>3. QED
  BY <1>1, <1>2

LEMMA DueOfAfter ==
  TypeOK' /\ LockInv' =>
    \A i \in Ifaces, p \in SavedParams :
      Due'[i][p] = IF ~Free(i)' /\ Ahead(owner[i], p)' THEN cfg'[i][p]
                                                     ELSE psm'[i][p]
<1>1. (TypeOK /\ LockInv =>
         \A i \in Ifaces, p \in SavedParams :
           Due[i][p] = IF ~Free(i) /\ Ahead(owner[i], p) THEN cfg[i][p]
                                                       ELSE psm[i][p])'
  BY DueOf, PTL
<1>2. QED
  BY <1>1

\* What is due of an interface stays when its mutex, its commit, its records
\* and, during a commit, its settings stay.
LEMMA DueStays ==
  ASSUME TypeOK, LockInv, TypeOK', LockInv', NEW i \in Ifaces,
         owner'[i] = owner[i], psm'[i] = psm[i],
         ~Free(i) => /\ call'[owner[i]].pos = call[owner[i]].pos
                     /\ \A p \in SavedParams : cfg'[i][p] = cfg[i][p]
  PROVE  \A p \in SavedParams : Due'[i][p] = Due[i][p]
<1>1. ASSUME NEW p \in SavedParams PROVE Due'[i][p] = Due[i][p]
  <2>1. Due[i][p] = IF ~Free(i) /\ Ahead(owner[i], p) THEN cfg[i][p] ELSE psm[i][p]
    BY DueOf
  <2>2. Due'[i][p] = IF ~Free(i)' /\ Ahead(owner[i], p)' THEN cfg'[i][p]
                                                       ELSE psm'[i][p]
    BY DueOfAfter
  <2>3. Free(i)' <=> Free(i)
    BY DEF Free
  <2>4. ~Free(i) => (Ahead(owner[i], p)' <=> Ahead(owner[i], p))
    BY DEF Ahead
  <2>5. QED
    BY <2>1, <2>2, <2>3, <2>4
<1>2. QED
  BY <1>1

\* A step that the store does not see, but for a failure.
LEMMA StoreStays ==
  ASSUME TypeOK, TypeOK', UNCHANGED <<Served, Committing>>,
         nFaults' >= nFaults,
         \A i \in Ifaces, p \in SavedParams :
           /\ cfg'[i][p] = cfg[i][p] /\ psm'[i][p] = psm[i][p]
           /\ Due'[i][p] = Due[i][p]
  PROVE  [Store!StoreNext]_Store!storeVars
<1>1. Live' = Live /\ Kept' = Kept
  BY DEF Live, Kept
<1>2. Due' = Due
  BY DEF Due
<1>3. nFaults' = nFaults \/ nFaults' > nFaults
  BY DEF TypeOK
<1>4. CASE nFaults' = nFaults
  BY <1>1, <1>2, <1>4 DEF Store!storeVars
<1>5. CASE nFaults' > nFaults
  <2>1. Store!OtherFault
    BY <1>1, <1>2, <1>5 DEF Store!OtherFault
  <2>2. QED
    BY <2>1 DEF Store!StoreNext
<1>6. QED
  BY <1>3, <1>4, <1>5

\* A start of the manager finds what is due: nothing is being committed.
LEMMA StoreLoads ==
  ASSUME TypeOK, LockInv, TypeOK', LockInv', Load
  PROVE  Store!Load(loadAt)
<1> DEFINE i == loadAt
<1>1. i \in Ifaces /\ mgr = "loading"
  BY DEF Load, TypeOK
<1>2. \A j \in Ifaces : Free(j)
  BY <1>1 DEF LockInv, IdleAtLoad, SavesIfOwns, Free
<1>3. PICK lost \in SUBSET Records :
        /\ Faults(Cardinality(lost))
        /\ cfg' = [cfg EXCEPT ![i] =
             [p \in Params |-> IF p \in Loaded \ lost THEN psm[i][p] ELSE 0]]
  BY DEF Load
<1>4. i \notin Served /\ Served' = Served \cup {i}
  <2>1. /\ i \in Nat /\ i >= 1 /\ i <= NumIfaces /\ NumIfaces \in Nat
    BY <1>1, Basics
  <2>2. Served = 1 .. i - 1
    BY <1>1 DEF Served
  <2>3. Served' = 1 .. i
    <3>1. CASE i < NumIfaces
      <4>1. loadAt' = i + 1 /\ mgr' = "loading"
        BY <1>1, <3>1 DEF Load, LoadNext
      <4>2. (i + 1) - 1 = i
        BY <2>1
      <4>3. QED
        BY <4>1, <4>2 DEF Served
    <3>2. CASE ~(i < NumIfaces)
      <4>1. mgr' = "up"
        BY <3>2 DEF Load, LoadNext
      <4>2. i = NumIfaces
        BY <2>1, <3>2
      <4>3. QED
        BY <4>1, <4>2 DEF Served, Ifaces
    <3>3. QED
      BY <3>1, <3>2
  <2>4. QED
    BY <2>1, <2>2, <2>3
<1>5. UNCHANGED <<owner, psm, call>>
  BY DEF Load
<1>6. Kept' = Kept /\ Committing' = Committing
  BY <1>5 DEF Kept, Committing, Free
<1>7. \A j \in Ifaces, p \in SavedParams : Due[j][p] = psm[j][p]
  BY <1>2, DueOf
<1>8. Due' = Due
  <2>1. \A j \in Ifaces, p \in SavedParams : Due'[j][p] = Due[j][p]
    BY <1>2, <1>5, DueStays
  <2>2. QED
    BY <2>1 DEF Due
<1> DEFINE gone == lost \cap SavedParams
<1>9. Live' = [Live EXCEPT ![i] = [p \in SavedParams |-> IF p \in gone THEN 0
                                                         ELSE Due[i][p]]]
  <2>1. \A j \in Ifaces : j # i => cfg'[j] = cfg[j]
    BY <1>1, <1>3 DEF TypeOK
  <2>2. \A p \in SavedParams :
          cfg'[i][p] = IF p \in gone THEN 0 ELSE Due[i][p]
    BY <1>1, <1>3, <1>7, SavedFacts DEF TypeOK
  <2>3. QED
    BY <1>1, <2>1, <2>2 DEF Live
<1>10. IF gone = {} THEN nFaults' >= nFaults ELSE nFaults' > nFaults
  <2>1. Cardinality(lost) \in Nat /\ nFaults' = nFaults + Cardinality(lost)
        /\ nFaults \in Nat
    BY <1>3, LostCount DEF Faults, TypeOK
  <2>2. gone # {} => Cardinality(lost) # 0
    <3>1. IsFiniteSet(lost)
      BY RecordsFinite, FS_Subset
    <3>2. QED
      BY <3>1, FS_EmptySet
  <2>3. QED
    BY <2>1, <2>2
<1>11. QED
  BY <1>4, <1>6, <1>8, <1>9, <1>10 DEF Store!Load

\* A crash leaves what is kept.
LEMMA StoreCrashes ==
  ASSUME TypeOK, LockInv, TypeOK', LockInv', Crash
  PROVE  Store!Crash
<1>1. \A i \in Ifaces : Free(i)'
  BY DEF Crash, Free
<1>2. psm' = psm /\ nFaults' = nFaults
  BY DEF Crash
<1>3. Kept' = Kept
  BY <1>2 DEF Kept
<1>4. Due' = Kept
  <2>1. \A i \in Ifaces, p \in SavedParams : Due'[i][p] = psm[i][p]
    BY <1>1, <1>2, DueOfAfter
  <2>2. QED
    BY <2>1 DEF Due, Kept
<1>5. Live' = Store!Zero
  <2>1. \A i \in Ifaces, p \in SavedParams : cfg'[i][p] = 0
    BY SavedFacts DEF Crash, ZeroCfg, ZeroValues
  <2>2. QED
    BY <2>1 DEF Live, Store!Zero
<1>6. Served' = {} /\ Committing' = {}
  <2>1. 1 .. 1 - 1 = {}
    OBVIOUS
  <2>2. QED
    BY <1>1, <2>1 DEF Crash, Served, Committing
<1>7. QED
  BY <1>2, <1>3, <1>4, <1>5, <1>6 DEF Store!Crash

\* A setting is changed in the entry only.
LEMMA StoreChanges ==
  ASSUME TypeOK, LockInv, TypeOK', LockInv', NEW t \in BusThreads, SetParam(t)
  PROVE  [Store!StoreNext]_Store!storeVars
<1>1. PICK i \in Ifaces : i = Iface(t)
  BY DEF TypeOK, Iface, Call
<1>2. PICK p : p = call[t].sets[call[t].pos][1]
  OBVIOUS
<1>3. PICK v : v = call[t].sets[call[t].pos][2]
  OBVIOUS
<1>4. /\ mgr = "up" /\ Free(i) /\ call[t].at = "set"
      /\ \/ Refused(p, v) /\ cfg' = cfg
         \/ ~Refused(p, v) /\ cfg' = [cfg EXCEPT ![i] =
                                        [@ EXCEPT ![p] = Stored(p, v)]]
      /\ UNCHANGED <<mgr, loadAt, owner, psm, nFaults>>
  BY <1>1, <1>2, <1>3 DEF SetParam, At, bounds
<1>5. UNCHANGED <<Served, Committing>>
  BY <1>4 DEF Served, Committing, Free
<1>6. \A j \in Ifaces : j # i => cfg'[j] = cfg[j]
  BY <1>4 DEF TypeOK
<1>7. \A j \in Ifaces, q \in SavedParams : Due'[j][q] = Due[j][q]
  <2>1. ASSUME NEW j \in Ifaces, ~Free(j)
        PROVE  j # i /\ owner[j] \in BusThreads \ {t}
    BY <1>4, <2>1 DEF LockInv, SavesIfOwns, Free
  <2>2. \A u \in BusThreads : u # t => call'[u] = call[u]
    BY OtherCalls DEF BusRun
  <2>3. QED
    BY <1>4, <1>6, <2>1, <2>2, DueStays
<1>8. \A q \in SavedParams : q # p \/ Refused(p, v) => cfg'[i][q] = cfg[i][q]
  <2>1. cfg[i] \in [Params -> Nat]
    BY DEF TypeOK, Cfg
  <2>2. CASE cfg' = cfg
    BY <2>2
  <2>3. CASE ~Refused(p, v) /\ cfg' = [cfg EXCEPT ![i] =
                                        [@ EXCEPT ![p] = Stored(p, v)]]
    <3>1. cfg'[i] = [cfg[i] EXCEPT ![p] = Stored(p, v)]
      BY <2>3 DEF TypeOK
    <3>2. QED
      BY <2>1, <2>3, <3>1, SavedFacts
  <2>4. QED
    BY <1>4, <2>2, <2>3
<1>9. CASE p \notin SavedParams \/ Refused(p, v)
  <2>1. \A j \in Ifaces, q \in SavedParams : cfg'[j][q] = cfg[j][q]
    BY <1>6, <1>8, <1>9
  <2>2. nFaults' >= nFaults
    BY <1>4 DEF TypeOK
  <2>3. QED
    BY <1>4, <1>5, <1>7, <2>1, <2>2, StoreStays
<1>10. CASE p \in SavedParams
  <2>1. Live' = Store!Put(Live, i, p, Live'[i][p]) /\ Live'[i][p] \in Nat
    <3>1. \A j \in Ifaces, q \in SavedParams :
            j # i \/ q # p => Live'[j][q] = Live[j][q]
      BY <1>6, <1>8 DEF Live
    <3>2. /\ Live \in [Ifaces -> [SavedParams -> Nat]]
          /\ Live' \in [Ifaces -> [SavedParams -> Nat]]
      BY StoreTypes, StoreTypesAfter
    <3>3. PICK f, g : f = Live /\ g = Live'
      OBVIOUS
    <3>4. g = Store!Put(f, i, p, g[i][p])
      <4>1. /\ f \in [Ifaces -> [SavedParams -> Nat]]
            /\ g \in [Ifaces -> [SavedParams -> Nat]]
        BY <3>2, <3>3
      <4>2. \A j \in Ifaces, q \in SavedParams : j # i \/ q # p => g[j][q] = f[j][q]
        BY <3>1, <3>3
      <4>3. QED
        BY <1>10, <4>1, <4>2, OneParamDiffers DEF Settings
    <3>5. g[i][p] \in Nat
      BY <1>10, <3>2, <3>3
    <3>6. QED
      BY <3>3, <3>4, <3>5
  <2>2. Due' = Due
    BY <1>7 DEF Due
  <2>3. Kept' = Kept
    BY <1>4 DEF Kept
  <2>4. Served = Ifaces /\ i \notin Committing
    BY <1>4 DEF Served, Committing
  <2>5. Store!Change(i, p)
    BY <1>4, <1>5, <2>1, <2>2, <2>3, <2>4 DEF Store!Change
  <2>6. QED
    BY <1>10, <2>5 DEF Store!StoreNext
<1>11. QED
  BY <1>9, <1>10

\* With the mutex, all of the settings are due.
LEMMA StoreBegins ==
  ASSUME TypeOK, LockInv, TypeOK', LockInv', NEW t \in BusThreads, Commit(t)
  PROVE  Store!Begin(Iface(t))
<1>0. PICK i \in Ifaces : i = Iface(t)
  BY DEF TypeOK, Iface, Call
<1>1. mgr = "up" /\ Free(i) /\ t # NoThread
  BY <1>0, ThreadAssumption DEF Commit, At
<1>2. UNCHANGED <<mgr, loadAt, cfg, psm, nFaults>>
  BY DEF Commit, bounds
<1>3. \A j \in Ifaces : owner'[j] = IF j = i THEN t ELSE owner[j]
  BY <1>0, <1>1 DEF Commit, TypeOK
<1>4. \A u \in BusThreads : u # t => call'[u] = call[u]
  BY OtherCalls DEF BusRun
<1>5. call'[t].pos = 1
  BY DEF Commit, TypeOK, Call
<1>6. Committing' = Committing \cup {i}
  BY <1>1, <1>3 DEF Committing, Free
<1>7. \A j \in Ifaces, p \in SavedParams : j # i => Due'[j][p] = Due[j][p]
  <2>1. ASSUME NEW j \in Ifaces, j # i, ~Free(j)
        PROVE  owner[j] \in BusThreads \ {t}
    BY <1>1, <2>1 DEF LockInv, SavesIfOwns, Free, Commit, At
  <2>2. QED
    BY <1>2, <1>3, <1>4, <2>1, DueStays
<1>8. \A p \in SavedParams : Due'[i][p] = Live[i][p]
  <2>1. \A p \in SavedParams : Ahead(owner[i], p)'
    BY <1>1, <1>3, <1>5, SavedFacts DEF Ahead
  <2>2. ~Free(i)'
    BY <1>1, <1>3 DEF Free
  <2>3. \A p \in SavedParams : Due'[i][p] = cfg'[i][p]
    BY <1>1, <2>1, <2>2, DueOfAfter
  <2>4. QED
    BY <1>1, <1>2, <2>3 DEF Live
<1>9. Due' = [Due EXCEPT ![i] = Live[i]]
  <2>1. /\ Live \in [Ifaces -> [SavedParams -> Nat]]
        /\ Due  \in [Ifaces -> [SavedParams -> Nat]]
        /\ Due' \in [Ifaces -> [SavedParams -> Nat]]
    BY StoreTypes, StoreTypesAfter
  <2>2. Due'[i] = Live[i]
    BY <1>8, <2>1
  <2>3. \A j \in Ifaces : j # i => Due'[j] = Due[j]
    BY <1>7, <2>1
  <2>4. Due' = [Due EXCEPT ![i] = Due'[i]]
    BY <2>1, <2>3, OneIfaceDiffers
  <2>5. QED
    BY <2>2, <2>4
<1>10. Live' = Live /\ Kept' = Kept /\ Served' = Served
  BY <1>2 DEF Live, Kept, Served
<1>11. Served = Ifaces /\ i \notin Committing
  BY <1>1 DEF Served, Committing
<1>12. QED
  BY <1>0, <1>2, <1>6, <1>9, <1>10, <1>11 DEF Store!Begin

\* One record reaches the medium, or is lost alone.
LEMMA StoreWrites ==
  ASSUME TypeOK, LockInv, TypeOK', LockInv', NEW t \in BusThreads, SaveParam(t)
  PROVE  [Store!StoreNext]_Store!storeVars
<1>1. PICK i \in Ifaces : i = Iface(t)
  BY DEF TypeOK, Iface, Call
<1>2. PICK m \in 1 .. Len(Saved) : m = call[t].pos
  <2>1. call[t] \in Call /\ call[t].at = "save" /\ call[t].pos <= Len(Saved)
    BY DEF SaveParam, TypeOK, At
  <2>2. call[t].pos \in 1 .. Len(Saved) + 1
    BY <2>1 DEF TypeOK
  <2>3. QED
    BY <2>1, <2>2, SavedFacts
<1>3. PICK p \in SavedParams : p = Saved[m]
  BY SavedFacts
<1>4. /\ mgr = "up" /\ owner[i] = t /\ t # NoThread
      /\ \/ /\ psm' = [psm EXCEPT ![i] = [@ EXCEPT ![p] = cfg[i][p]]]
            /\ UNCHANGED nFaults
         \/ Faults(1) /\ UNCHANGED psm
      /\ UNCHANGED <<mgr, loadAt, cfg, owner>>
  BY <1>1, <1>2, <1>3, ThreadAssumption DEF SaveParam, At, LockInv, OwnsIfSaves
<1>5. \A u \in BusThreads : u # t => call'[u] = call[u]
  BY OtherCalls DEF BusRun
<1>6. call'[t].pos = m + 1
  BY <1>2 DEF SaveParam, TypeOK, Call
<1>7. Live' = Live /\ UNCHANGED <<Served, Committing>>
  BY <1>4 DEF Live, Served, Committing, Free
<1>8. \A j \in Ifaces, q \in SavedParams :
        j # i \/ q # p => psm'[j][q] = psm[j][q]
  <2>1. CASE psm' = [psm EXCEPT ![i] = [@ EXCEPT ![p] = cfg[i][p]]]
    <3>1. psm[i] \in [Params -> Nat] /\ psm'[i] = [psm[i] EXCEPT ![p] = cfg[i][p]]
          /\ \A j \in Ifaces : j # i => psm'[j] = psm[j]
      BY <2>1 DEF TypeOK, Cfg
    <3>2. \A q \in SavedParams : q # p => psm'[i][q] = psm[i][q]
      BY <3>1, SavedFacts
    <3>3. QED
      BY <3>1, <3>2
  <2>2. QED
    BY <1>4, <2>1
<1>9. \A j \in Ifaces : j # i => psm'[j] = psm[j]
  BY <1>4 DEF TypeOK
<1>10. \A q \in SavedParams :
         /\ Ahead(owner[i], q)' <=> Ahead(owner[i], q) /\ q # p
         /\ Due[i][q] = IF Ahead(owner[i], q) THEN cfg[i][q] ELSE psm[i][q]
         /\ Due'[i][q] = IF Ahead(owner[i], q)' THEN cfg[i][q] ELSE psm'[i][q]
  <2> SUFFICES ASSUME NEW q \in SavedParams
               PROVE  /\ Ahead(owner[i], q)' <=> Ahead(owner[i], q) /\ q # p
                      /\ Due[i][q] = IF Ahead(owner[i], q) THEN cfg[i][q]
                                                         ELSE psm[i][q]
                      /\ Due'[i][q] = IF Ahead(owner[i], q)' THEN cfg[i][q]
                                                           ELSE psm'[i][q]
    OBVIOUS
  <2>1. Ahead(owner[i], q) <=> \E n \in 1 .. Len(Saved) : n >= m /\ Saved[n] = q
    BY <1>2, <1>4 DEF Ahead
  <2>2. Ahead(owner[i], q)' <=>
          \E n \in 1 .. Len(Saved) : n >= m + 1 /\ Saved[n] = q
    BY <1>4, <1>6 DEF Ahead
  <2>3. \A n \in 1 .. Len(Saved) : n >= m + 1 <=> n >= m /\ n # m
    BY <1>2, SavedFacts
  <2>4. Ahead(owner[i], q)' <=> Ahead(owner[i], q) /\ q # p
    BY <1>2, <1>3, <2>1, <2>2, <2>3, SavedOnce
  <2>5. ~Free(i) /\ ~Free(i)'
    BY <1>4 DEF Free
  <2>6. Due[i][q] = IF Ahead(owner[i], q) THEN cfg[i][q] ELSE psm[i][q]
    BY <2>5, DueOf
  <2>7. Due'[i][q] = IF Ahead(owner[i], q)' THEN cfg'[i][q] ELSE psm'[i][q]
    BY <2>5, DueOfAfter
  <2>8. QED
    BY <1>4, <2>4, <2>6, <2>7
<1>11. Ahead(owner[i], p)
  BY <1>2, <1>3, <1>4, SavedFacts DEF Ahead
<1>12. \A j \in Ifaces, q \in SavedParams :
         j # i \/ q # p => Due'[j][q] = Due[j][q]
  <2>1. ASSUME NEW j \in Ifaces, j # i
        PROVE  \A q \in SavedParams : Due'[j][q] = Due[j][q]
    <3>1. ~Free(j) => owner[j] \in BusThreads \ {t}
      BY <1>1, <2>1 DEF LockInv, SavesIfOwns, Free
    <3>2. QED
      BY <1>4, <1>5, <1>9, <2>1, <3>1, DueStays
  <2>2. \A q \in SavedParams : q # p => Due'[i][q] = Due[i][q]
    BY <1>8, <1>10
  <2>3. QED
    BY <2>1, <2>2
<1>13. i \in Committing
  BY <1>4 DEF Committing, Free
<1>14. PICK d, e, k, l \in Settings :
         d = Due /\ e = Due' /\ k = Kept /\ l = Kept'
  BY StoreTypes, StoreTypesAfter DEF Settings
<1>15. CASE psm' = [psm EXCEPT ![i] = [@ EXCEPT ![p] = cfg[i][p]]]
            /\ UNCHANGED nFaults
  <2>1. psm'[i][p] = cfg[i][p]
    BY <1>15, SavedFacts DEF TypeOK, Cfg
  <2>2. Due[i][p] = cfg[i][p] /\ Due'[i][p] = cfg[i][p]
    BY <1>10, <1>11, <2>1
  <2>3. Due' = Due
    <3>1. \A j \in Ifaces, q \in SavedParams : Due'[j][q] = Due[j][q]
      BY <1>12, <2>2
    <3>2. QED
      BY <3>1 DEF Due
  <2>4. l = Store!Put(k, i, p, l[i][p])
    <3>1. \A j \in Ifaces, q \in SavedParams :
            j # i \/ q # p => l[j][q] = k[j][q]
      BY <1>8, <1>14 DEF Kept
    <3>2. QED
      BY <3>1, OneParamDiffers
  <2>5. l[i][p] = Due[i][p]
    BY <1>14, <2>1, <2>2 DEF Kept
  <2>6. Store!Write(i, p)
    BY <1>7, <1>13, <1>14, <1>15, <2>3, <2>4, <2>5 DEF Store!Write
  <2>7. QED
    BY <2>6 DEF Store!StoreNext
<1>16. CASE Faults(1) /\ UNCHANGED psm
  <2>1. nFaults' > nFaults
    BY <1>16 DEF Faults, TypeOK
  <2>2. Kept' = Kept
    BY <1>16 DEF Kept
  <2>3. Due'[i][p] = psm[i][p]
    BY <1>10, <1>16
  <2>4. e = Store!Put(d, i, p, e[i][p])
    <3>1. \A j \in Ifaces, q \in SavedParams :
            j # i \/ q # p => e[j][q] = d[j][q]
      BY <1>12, <1>14
    <3>2. QED
      BY <3>1, OneParamDiffers
  <2>5. e[i][p] = Kept[i][p]
    BY <1>14, <2>3 DEF Kept
  <2>6. Store!WriteFails(i, p)
    BY <1>7, <1>13, <1>14, <2>1, <2>2, <2>4, <2>5 DEF Store!WriteFails
  <2>7. QED
    BY <2>6 DEF Store!StoreNext
<1>17. QED
  BY <1>4, <1>15, <1>16

\* When a commit returns, it has come to every record: nothing is due that is
\* not kept.
LEMMA StoreEnds ==
  ASSUME TypeOK, LockInv, TypeOK', LockInv', NEW t \in BusThreads,
         CommitReturn(t)
  PROVE  Store!End(Iface(t))
<1>1. PICK i \in Ifaces : i = Iface(t)
  BY DEF TypeOK, Iface, Call
<1>2. /\ mgr = "up" /\ owner[i] = t /\ t # NoThread
      /\ call[t].pos \in Nat /\ call[t].pos > Len(Saved)
      /\ UNCHANGED <<mgr, loadAt, cfg, psm, nFaults>>
  BY <1>1, ThreadAssumption DEF CommitReturn, At, LockInv, OwnsIfSaves, TypeOK,
                                Call, bounds
<1>3. \A j \in Ifaces : owner'[j] = IF j = i THEN NoThread ELSE owner[j]
  BY <1>1 DEF CommitReturn, TypeOK
<1>4. \A u \in BusThreads : u # t => call'[u] = call[u]
  BY OtherCalls DEF BusRun
<1>5. Committing' = Committing \ {i} /\ i \in Committing
  BY <1>2, <1>3 DEF Committing, Free
<1>6. \A q \in SavedParams : Due[i][q] = psm[i][q] /\ Due'[i][q] = psm[i][q]
  <2>1. \A q \in SavedParams : ~Ahead(owner[i], q)
    BY <1>2, SavedFacts DEF Ahead
  <2>2. Free(i)'
    BY <1>3 DEF Free
  <2>3. QED
    BY <1>2, <2>1, <2>2, DueOf, DueOfAfter
<1>7. \A j \in Ifaces, q \in SavedParams : Due'[j][q] = Due[j][q]
  <2>1. ASSUME NEW j \in Ifaces, j # i
        PROVE  \A q \in SavedParams : Due'[j][q] = Due[j][q]
    <3>1. ~Free(j) => owner[j] \in BusThreads \ {t}
      BY <1>1, <2>1 DEF LockInv, SavesIfOwns, Free
    <3>2. QED
      BY <1>2, <1>3, <1>4, <2>1, <3>1, DueStays
  <2>2. QED
    BY <1>6, <2>1
<1>8. Due' = Due
  BY <1>7 DEF Due
<1>9. Kept[i] = Due[i]
  BY <1>6, StoreTypes DEF Kept
<1>10. Live' = Live /\ Kept' = Kept /\ Served' = Served
  BY <1>2 DEF Live, Kept, Served
<1>11. QED
  BY <1>1, <1>2, <1>5, <1>8, <1>9, <1>10 DEF Store!End

\* The other steps of a call, and the steps of the clients.
LEMMA StoreElsewhere ==
  ASSUME TypeOK, LockInv, TypeOK', LockInv',
         \/ \E t \in BusThreads : \/ BusCall(t) \/ Validate(t) \/ Rollback(t)
                                  \/ RollbackReturn(t)
         \/ \E i \in Ifaces : \/ ReadInfo(i) \/ StartClient(i) \/ SessionOpens(i)
                              \/ ClientEnds(i) \/ ClientUp(i)
         \/ UNCHANGED vars
  PROVE  [Store!StoreNext]_Store!storeVars
<1>1. UNCHANGED <<mgr, loadAt, owner, psm>>
  BY DEF BusCall, Validate, Rollback, RollbackReturn, ReadInfo, StartClient,
         SessionOpens, ClientEnds, ClientUp, vars
<1>2. UNCHANGED <<Served, Committing>>
  BY <1>1 DEF Served, Committing, Free
<1>3. nFaults' >= nFaults
  <2>1. nFaults \in Nat
    BY DEF TypeOK
  <2>2. nFaults' = nFaults \/ Faults(1)
    BY DEF BusCall, Validate, Rollback, RollbackReturn, ReadInfo, StartClient,
           SessionOpens, ClientEnds, ClientUp, vars, bounds
  <2>3. QED
    BY <2>1, <2>2 DEF Faults
<1>4. \A j \in Ifaces, q \in SavedParams : cfg'[j][q] = cfg[j][q]
  <2>1. ASSUME NEW i \in Ifaces, StartClient(i), NEW j \in Ifaces,
               NEW q \in SavedParams
        PROVE  cfg'[j][q] = cfg[j][q]
    <3>1. PICK c \in Credentialed(i) : cfg' = [cfg EXCEPT ![i] = c]
      BY <2>1 DEF StartClient
    <3>2. q \in Params /\ (~CredsFromPsm => q \notin Creds)
      BY SavedFacts
    <3>3. c[q] = cfg[i][q]
      BY <3>1, <3>2 DEF Credentialed
    <3>4. QED
      BY <3>1, <3>3 DEF TypeOK
  <2>2. cfg' = cfg \/ \E i \in Ifaces : StartClient(i)
    BY DEF BusCall, Validate, Rollback, RollbackReturn, ReadInfo, SessionOpens,
           ClientEnds, ClientUp, vars
  <2>3. QED
    BY <2>1, <2>2
<1>5. \A j \in Ifaces : ~Free(j) => call'[owner[j]] = call[owner[j]]
  <2>1. ASSUME NEW t \in BusThreads,
               BusCall(t) \/ Validate(t) \/ Rollback(t) \/ RollbackReturn(t)
        PROVE  \A u \in BusThreads : call[u].at = "save" => call'[u] = call[u]
    <3>1. call[t].at # "save"
      BY <2>1 DEF BusCall, Validate, Rollback, RollbackReturn, At
    <3>2. \A u \in BusThreads : u # t => call'[u] = call[u]
      BY <2>1, OtherCalls DEF BusRun
    <3>3. QED
      BY <3>1, <3>2
  <2>2. \/ call' = call
        \/ \E t \in BusThreads : \/ BusCall(t) \/ Validate(t) \/ Rollback(t)
                                 \/ RollbackReturn(t)
    BY DEF ReadInfo, StartClient, SessionOpens, ClientEnds, ClientUp, vars
  <2>3. \A u \in BusThreads : call[u].at = "save" => call'[u] = call[u]
    BY <2>1, <2>2
  <2>4. QED
    BY <2>3 DEF LockInv, SavesIfOwns, Free
<1>6. \A j \in Ifaces, q \in SavedParams : Due'[j][q] = Due[j][q]
  BY <1>1, <1>4, <1>5, DueStays
<1>7. QED
  BY <1>1, <1>2, <1>3, <1>4, <1>6, StoreStays

LEMMA StoreStarts == Init => Store!StoreInit
<1> SUFFICES ASSUME Init PROVE Store!StoreInit
  OBVIOUS
<1>1. TypeOK /\ LockInv
  BY TypingInit, LockInit
<1>2. \A i \in Ifaces : Free(i)
  BY DEF Init, Free
<1>3. Due = Kept
  <2>1. \A i \in Ifaces, p \in SavedParams : Due[i][p] = psm[i][p]
    BY <1>1, <1>2, DueOf
  <2>2. QED
    BY <2>1 DEF Due, Kept
<1>4. Live = Store!Zero
  <2>1. \A i \in Ifaces, p \in SavedParams : cfg[i][p] = 0
    BY SavedFacts DEF Init, ZeroCfg, ZeroValues
  <2>2. QED
    BY <2>1 DEF Live, Store!Zero
<1>5. Served = {} /\ Committing = {}
  <2>1. 1 .. 1 - 1 = {}
    OBVIOUS
  <2>2. QED
    BY <1>2, <2>1 DEF Init, Served, Committing
<1>6. Kept \in [Ifaces -> [SavedParams -> Nat]] /\ nFaults = 0
  BY <1>1, StoreTypes DEF Init
<1>7. QED
  BY <1>3, <1>4, <1>5, <1>6 DEF Store!StoreInit

LEMMA StoreStep ==
  ASSUME TypeOK, LockInv, TypeOK', LockInv', [Next]_vars
  PROVE  [Store!StoreNext]_Store!storeVars
<1>1. CASE Load
  <2>1. loadAt \in Ifaces /\ Store!Load(loadAt)
    BY <1>1, StoreLoads DEF TypeOK
  <2>2. QED
    BY <2>1 DEF Store!StoreNext
<1>2. CASE Crash
  BY <1>2, StoreCrashes DEF Store!StoreNext
<1>3. ASSUME NEW t \in BusThreads, Commit(t) \/ CommitReturn(t)
      PROVE  Store!StoreNext
  <2>1. Iface(t) \in Ifaces
    BY DEF TypeOK, Iface, Call
  <2>2. Store!Begin(Iface(t)) \/ Store!End(Iface(t))
    BY <1>3, StoreBegins, StoreEnds
  <2>3. PICK i \in Ifaces : Store!Begin(i) \/ Store!End(i)
    BY <2>1, <2>2
  <2>4. QED
    BY <2>3 DEF Store!StoreNext
<1>4. ASSUME NEW t \in BusThreads, SetParam(t) \/ SaveParam(t)
      PROVE  [Store!StoreNext]_Store!storeVars
  BY <1>4, StoreChanges, StoreWrites
<1>5. CASE \/ \E t \in BusThreads : \/ BusCall(t) \/ Validate(t) \/ Rollback(t)
                                    \/ RollbackReturn(t)
           \/ \E i \in Ifaces : \/ ReadInfo(i) \/ StartClient(i)
                                \/ SessionOpens(i) \/ ClientEnds(i)
                                \/ ClientUp(i)
           \/ UNCHANGED vars
  BY <1>5, StoreElsewhere
<1>6. QED
  BY <1>1, <1>2, <1>3, <1>4, <1>5 DEF Next, BusRun

\* The commits, the loads and the crashes, with every order of the bus threads'
\* steps and every failure of PSM, are steps of the store.
THEOREM CommitsImplement == Spec => ImplementsStore
<1>1. Init => Store!StoreInit
  BY StoreStarts
<1>2. SaveInv /\ SaveInv' /\ [Next]_vars => [Store!StoreNext]_Store!storeVars
  BY StoreStep DEF SaveInv
<1>3. QED
  BY <1>1, <1>2, SaveInvariant, PTL DEF Spec, ImplementsStore, Store!StoreSpec

-----------------------------------------------------------------------------
(* The session of the only interface.                                      *)

\* With one interface the kernel's list has at most the newest session, and no
\* session is stored that was not given yet.  The record of the interface in
\* PSM is never written.
NewestSession ==
  NumIfaces = 1 =>
    /\ pppoe = << >> \/ (Len(pppoe) = 1 /\ pppoe[1].id = lastId)
    /\ psmSession[1] = 0
    /\ info[1].session <= lastId /\ lastUp[1] <= info[1].session
    /\ mgr = "loading" => lastUp[1] = 0

LEMMA SessionNumbers ==
  ASSUME TypeOK
  PROVE  /\ lastId \in Nat
         /\ \A i \in Ifaces : info[i] \in Info /\ info[i].session \in Nat
                              /\ lastUp[i] \in Nat
<1>1. info \in [Ifaces -> Info] /\ lastUp \in [Ifaces -> 0 .. MaxSessions]
      /\ lastId \in 0 .. MaxSessions /\ MaxSessions \in Nat
  BY Basics DEF TypeOK
<1>2. \A i \in Ifaces : info[i] \in Info /\ lastUp[i] \in 0 .. MaxSessions
  BY <1>1
<1>3. \A e \in Info : e.session \in 0 .. MaxSessions
  BY DEF Info
<1>4. QED
  BY <1>1, <1>2, <1>3

LEMMA OnlyIface ==
  NumIfaces = 1 => 1 \in Ifaces /\ 1 \in 0 .. NumIfaces /\ \A i \in Ifaces : i = 1
  BY DEF Ifaces

\* With one interface a session that is looked up is not older than the stored one.
LEMMA LookedUp ==
  ASSUME TypeOK, NewestSession, NumIfaces = 1
  PROVE  /\ info[1].session <= SessionId(info[1].session)
         /\ SessionId(info[1].session) <= lastId
         /\ SessionId(info[1].session) \in Nat
<1>1. info[1].session \in Nat /\ lastId \in Nat
  BY SessionNumbers, OnlyIface
<1>2. CASE pppoe = << >>
  BY <1>1, <1>2 DEF SessionId, NewestSession
<1>3. CASE pppoe # << >>
  <2>1. Len(pppoe) = 1 /\ pppoe[1].id = lastId
    BY <1>3 DEF NewestSession
  <2>2. QED
    BY <1>1, <1>3, <2>1 DEF SessionId, NewestSession
<1>4. QED
  BY <1>2, <1>3

LEMMA NewestStep == TypeOK /\ NewestSession /\ [Next]_vars => NewestSession'
<1> SUFFICES ASSUME TypeOK, NewestSession, [Next]_vars, NumIfaces = 1
             PROVE  NewestSession'
  BY DEF NewestSession
<1>1. /\ 1 \in Ifaces /\ \A i \in Ifaces : i = 1
      /\ 1 \in 0 .. NumIfaces
      /\ lastId \in Nat /\ info[1].session \in Nat /\ lastUp[1] \in Nat
  BY OnlyIface, SessionNumbers
<1>2. CASE Load
  <2>1. /\ lastUp[1] = 0 /\ psmSession[1] = 0
        /\ UNCHANGED <<pppoe, psmSession, lastId, lastUp>> /\ loadAt = 1
    BY <1>1, <1>2 DEF Load, NewestSession, sessVars, TypeOK
  <2>2. info'[1].session = 0
    <3>1. info[1] \in Info
      BY <1>1 DEF TypeOK
    <3>2. PICK lost \in SUBSET Records :
            info' = [info EXCEPT
              ![loadAt].name    = IF "Name" \in lost THEN "" ELSE Names[loadAt],
              ![loadAt].service = "InterfaceServiceName" \notin lost,
              ![loadAt].auth    = "Auth" \notin lost /\ Auths[loadAt] = "CHAP",
              ![loadAt].session = IF "Session" \in lost THEN 0
                                  ELSE psmSession[loadAt]]
      BY <1>2 DEF Load
    <3>3. info'[1].session = IF "Session" \in lost THEN 0 ELSE psmSession[1]
      BY <1>1, <2>1, <3>1, <3>2 DEF TypeOK, Info
    <3>4. QED
      BY <2>1, <3>3
  <2>3. QED
    BY <1>1, <2>1, <2>2 DEF NewestSession
<1>3. CASE Crash
  <2>1. info'[1].session = 0 /\ lastUp'[1] = 0
    BY <1>1, <1>3 DEF Crash, ZeroInfo
  <2>2. UNCHANGED <<pppoe, psmSession, lastId>>
    BY <1>3 DEF Crash
  <2>3. QED
    BY <1>1, <2>1, <2>2 DEF NewestSession
<1>4. ASSUME NEW i \in Ifaces, ReadInfo(i)
      PROVE  NewestSession'
  <2>1. i = 1 /\ UNCHANGED <<mgr, pppoe, psmSession, lastId, lastUp>>
    BY <1>1, <1>4 DEF ReadInfo, sessVars
  <2>2. info'[1].session = SessionId(info[1].session)
    <3>1. info' = [info EXCEPT ![1] = GetIfInfo(@)]
      BY <1>4, <2>1 DEF ReadInfo
    <3>2. info'[1] = [info[1] EXCEPT !.session = SessionId(@)]
      BY <1>1, <3>1 DEF GetIfInfo, TypeOK
    <3>3. info[1] \in Info
      BY <1>1 DEF TypeOK
    <3>4. QED
      BY <3>2, <3>3 DEF Info
  <2>3. QED
    BY <1>1, <2>1, <2>2, LookedUp DEF NewestSession
<1>5. ASSUME NEW i \in Ifaces, StartClient(i)
      PROVE  NewestSession'
  <2>1. i = 1 /\ UNCHANGED <<mgr, pppoe, psmSession, lastId, lastUp>>
    BY <1>1, <1>5 DEF StartClient
  <2>2. PICK started \in BOOLEAN : info' = [info EXCEPT ![1].known = started]
    BY <1>5, <2>1 DEF StartClient
  <2>3. info'[1] = [info[1] EXCEPT !.known = started]
    BY <1>1, <2>2 DEF TypeOK
  <2>4. info'[1].session = info[1].session
    <3>1. info[1] \in Info
      BY <1>1, SessionNumbers
    <3>2. QED
      BY <2>3, <3>1 DEF Info
  <2>5. QED
    BY <2>1, <2>4 DEF NewestSession
<1>6. ASSUME NEW i \in Ifaces, SessionOpens(i)
      PROVE  NewestSession'
  <2>1. /\ lastId' = lastId + 1 /\ UNCHANGED <<mgr, info, psmSession, lastUp>>
        /\ pppoe' = Append(pppoe, [iface |-> i, id |-> lastId'])
    BY <1>6 DEF SessionOpens
  <2>2. pppoe = << >>
    <3>1. ASSUME Len(pppoe) = 1 PROVE FALSE
      <4>1. pppoe[1].iface \in Ifaces
        <5> DEFINE S == [iface : Ifaces, id : 1 .. MaxSessions]
        <5>1. \A x \in S : x.iface \in Ifaces
          OBVIOUS
        <5>2. pppoe \in Seq(S)
          BY DEF TypeOK
        <5> HIDE DEF S
        <5>3. pppoe[1] \in S
          BY <3>1, <5>2
        <5>4. QED
          BY <5>1, <5>3
      <4>2. pppoe[1].iface # i
        BY <1>6, <3>1 DEF SessionOpens
      <4>3. QED
        BY <1>1, <4>1, <4>2
    <3>2. QED
      BY <3>1 DEF NewestSession
  <2>3. pppoe' = <<[iface |-> i, id |-> lastId']>>
    BY <2>1, <2>2
  <2>4. Len(pppoe') = 1 /\ pppoe'[1].id = lastId'
    BY <2>3
  <2>5. QED
    BY <1>1, <2>1, <2>4 DEF NewestSession
<1>7. ASSUME NEW i \in Ifaces, ClientEnds(i)
      PROVE  NewestSession'
  <2>1. UNCHANGED <<mgr, info, psmSession, lastId, lastUp>>
    BY <1>7 DEF ClientEnds
  <2>2. pppoe' = pppoe \/ pppoe' = << >>
    <3>1. ASSUME NEW n \in 1 .. Len(pppoe),
                 pppoe' = SubSeq(pppoe, 1, n - 1) \o SubSeq(pppoe, n + 1, Len(pppoe))
          PROVE  pppoe' = << >>
      <4>1. Len(pppoe) = 1 /\ n = 1
        <5>1. pppoe = << >> => Len(pppoe) = 0
          OBVIOUS
        <5>2. Len(pppoe) = 0 => n \notin 1 .. Len(pppoe)
          OBVIOUS
        <5>3. Len(pppoe) = 1
          BY <3>1, <5>1, <5>2 DEF NewestSession
        <5>4. QED
          BY <3>1, <5>3
      <4>2. pppoe' = SubSeq(pppoe, 1, 0) \o SubSeq(pppoe, 2, 1)
        BY <3>1, <4>1
      <4>3. \A sq \in Seq([iface : Ifaces, id : 1 .. MaxSessions]) :
              SubSeq(sq, 1, 0) = << >> /\ SubSeq(sq, 2, 1) = << >>
        BY EmptySeq, SubSeqProperties
      <4>4. QED
        BY <4>2, <4>3 DEF TypeOK
    <3>2. QED
      BY <1>7, <3>1 DEF ClientEnds
  <2>3. QED
    BY <2>1, <2>2 DEF NewestSession
<1>8. ASSUME NEW i \in Ifaces, ClientUp(i)
      PROVE  NewestSession'
  <2> DEFINE s == SessionId(info[1].session)
  <2>1. /\ i = 1 /\ UNCHANGED <<mgr, pppoe, lastId>> /\ mgr = "up"
        /\ psmSession'[1] = psmSession[1]
        /\ lastUp'[1] = s
    BY <1>1, <1>8 DEF ClientUp, TypeOK
  <2>2. info'[1].session = s
    <3>1. info[1] \in Info
      BY <1>1 DEF TypeOK
    <3>2. info'[1] = [info[1] EXCEPT !.session = s]
      BY <1>1, <1>8, <2>1 DEF ClientUp, TypeOK
    <3>3. QED
      BY <3>1, <3>2 DEF Info
  <2>3. s <= lastId /\ s \in Nat
    BY LookedUp
  <2> HIDE DEF s
  <2>4. QED
    BY <1>1, <2>1, <2>2, <2>3 DEF NewestSession
<1>9. ASSUME NEW t \in BusThreads, BusCall(t) \/ BusRun(t)
      PROVE  UNCHANGED <<mgr, info, psmSession, pppoe, lastId, lastUp>>
  BY <1>9 DEF BusCall, BusRun, SetParam, Validate, Commit, SaveParam,
              CommitReturn, Rollback, RollbackReturn, sessVars
<1>10. CASE UNCHANGED <<mgr, info, psmSession, pppoe, lastId, lastUp>>
  BY <1>10 DEF NewestSession
<1>11. QED
  BY <1>2, <1>3, <1>4, <1>5, <1>6, <1>7, <1>8, <1>9, <1>10 DEF Next, vars

\* With one interface, the session that the next start of a client would end is
\* never older than the one the last UP of this run was about.
THEOREM LastSessionIsKnown == Spec => []LastSessionKnown
<1>1. Init => NewestSession
  <2> SUFFICES ASSUME Init, NumIfaces = 1 PROVE NewestSession
    BY DEF NewestSession
  <2>1. 1 \in Ifaces /\ 1 \in 0 .. NumIfaces
    BY OnlyIface
  <2>2. pppoe = << >> /\ lastId = 0 /\ info[1] = ZeroInfo[1]
        /\ psmSession[1] = 0 /\ lastUp[1] = 0
    BY <2>1 DEF Init
  <2>3. ZeroInfo[1].session = 0
    BY <2>1 DEF ZeroInfo
  <2>4. QED
    BY <2>2, <2>3 DEF NewestSession
<1>2. TypeOK /\ NewestSession /\ [Next]_vars => NewestSession'
  BY NewestStep
<1>3. TypeOK /\ NewestSession => LastSessionKnown
  <2> SUFFICES ASSUME TypeOK, NewestSession, NEW i \in Ifaces, NumIfaces = 1
               PROVE  info[i].session >= lastUp[i]
    BY DEF LastSessionKnown
  <2>1. i = 1
    BY DEF Ifaces
  <2>2. info[1].session \in Nat /\ lastUp[1] \in Nat
    BY <2>1, SessionNumbers
  <2>3. QED
    BY <2>1, <2>2 DEF NewestSession
<1>4. QED
  BY <1>1, <1>2, <1>3, Typing, PTL DEF Spec

=============================================================================
