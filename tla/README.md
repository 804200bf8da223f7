# RdkPppManager in TLA+

RdkPppManager (`src/`) is the RDK-B component that owns the PPP interfaces of a
home gateway. It serves the `Device.PPP.` data model on the CCSP message bus, starts and
stops PPP clients (`pppd`, or rp-pppoe around it), listens to what they report over a local
socket, and tells WanManager, another component, about the state of each interface.

This directory specifies it in TLA+, checks small instances with TLC and proves the central
properties with TLAPS for any number of interfaces, threads, clients, crashes and failures.
Paths below are under `src/source/` unless they start with `src/`; `IPC` is
`PppManager/pppmgr_ipc.c`, and `APIS`, `UTILS`, `DATA`, `DML` are
`pppmgr_dml_ppp_apis.c`, `pppmgr_utils.c`, `pppmgr_data.c` and `pppmgr_dml.c` of
`TR-181/middle_layer_src/`.

## 1. Inventory

| Component | State it keeps | Operations | Talks to |
|---|---|---|---|
| Event loop (IPC) | the bounded POSIX queue, the socket, one message and one event in hand | receive a client's message and handle it (`PppMgr_ProcessPppState` and the three handlers below it), take an event from the queue and handle it (`PppMgr_ProcessPppEvent`) | entries (mutex), queue, WanManager (bus), clients |
| Enable, Disable, Reset (DML, APIS) | `Cfg.bEnabled` and all of `Info` | `Interface_SetParamBoolValue`, `PppMgr_EnableIf`, `PppDmlIfReset`, `PppMgr_StopPppClient`, `PppMgr_SendPppdStartEventToQ`, `PppMgr_StartPppClient` | entries, queue, clients, WanManager |
| Interface table (DATA) | `PppTable`, a recursive mutex in each entry | lookup by instance and by pid, lock and unlock | PSM (number of interfaces) |
| Configuration (DML, APIS, DATA) | `Cfg`, the PSM records, the session id | Set, Validate, Commit, Rollback of `Interface`, `PPPoE`, `IPCP`; load at the start; reads that write to `Info` | PSM, HAL, `/proc/net/pppoe` |
| Utilities (UTILS) | the DUID file | search `/proc` for a pid, session id, DUID file | kernel, file system |
| Statistics (DML, APIS) | none | reads `/proc/net/dev` | kernel |
| Start-up and bus registration (`pppmgr_ssp_*.c`) | the bus handle, `g_pComponentCommonPppManager` and its health, `bPPPIniatilized` | `main`, `ssp_create`, `ssp_engage`, `ssp_cancel` (from `main` and from the bus), signal handlers | CCSP, init system |
| Plug-in (`pppmgr_dml_plugin_main.c`, `src/config/RdkPppManager.xml`) | `g_pBEManager` | `PppManagerDmlInit`: registers the data model's functions, creates the table | CCSP, DATA |

What makes it hard:

* **Threads.** The bus's threads run data model calls while the IPC thread runs handlers. Both
  lock the entry they work on, calls nest the lock, and every handler has early returns.
* **A queue with one consumer that is also a producer.** Handlers do not call WanManager
  themselves: they send an event to a queue which the same thread empties, one event a
  round. `mq_send` blocks on a full queue.
* **Two components with a mutex each.** WanManager calls in with its mutex held and is called.
* **Processes.** A client may die, be found late, or still be ending when its successor is
  wanted; its reports arrive when the interface may have been disabled.
* **Failure.** PSM, the bus, `mq_open`, `system()` and file writes fail; results are often not
  looked at.
* **Restart.** PSM, the clients, the kernel's sessions and the queue outlive the manager. The
  events in the queue carry pointers of the process that sent them.
* **Start.** Calls over the bus come in before the IPC thread and its queue exist, and nothing
  but the order of the calls in `main` puts the table before its users.

What makes each component correct:

* event loop: what WanManager has been told follows the entry, in order, for the right
  interface, and arrives; no deadlock;
* enable/disable: one client per interface, none for a disabled one, no report of an old
  session after a disable;
* table: lock and unlock are paired on every path, nobody writes an entry someone else holds;
* start-up: nobody meets a table that is not there; whatever a dead process left behind, the next
  one comes up and answers its calls;
* configuration: a commit writes one consistent state, and it survives a restart; a
  refused call has no effect; the id of the last session is never lost.

## 2. Modules and plan

| Module | What it is | Status |
|---|---|---|
| `PppIface` | the entry of an interface and, as operators, what each message does to it and which events it posts | done |
| `PppEventLoop` | threads, mutex, queue, socket, clients, WanManager; extends `PppIface` | done |
| `PppEventLoopClaims` | statements of comments that the code does not keep | done |
| `ReportChannel` | abstract: one FIFO from the entries to WanManager, which may lose a report when it is its turn; its theorem | done |
| `PppReports` | the refinement mapping from `PppEventLoop` to `ReportChannel` | done |
| `PppManager` | the process around `PppEventLoop`: start, registration, end at any point, restart; extends it | done |
| `MCPppEventLoop`, `MCPppManager`, `MCPppConfig` | payload sets, requests and symmetry for TLC | done |
| `PppConfig` | configuration, PSM, crash and restart, session id | done |
| `SettingsStore` | abstract: a store whose commits decide in one step what a later start finds; `PppConfig` implements it | done |
| `PppEventLoopProofs`, `PppSessionProofs`, `PppClientProofs`, `PppReportsProofs`, `PppManagerProofs`, `PppRestartProofs`, `PppConfigProofs` | theorems, see section 7 | done |
| `PppScan` | the pure scanners (UTILS:384-650, IPC:388-471) against reference definitions | after that |

The order follows importance: the event loop decides whether the gateway is online and
holds all the concurrency; configuration comes second; the abstract channel and the process
around the loop build on it.

## 3. The event loop

`PppIface` is the pure part. An entry is a record of the fields the properties tell apart;
`StateChanged`, `IpcpParams`, `Ipv6cpParams`, `SessionReset` are what the four functions that write
it do, and `StateChangedPosts`, `IpcpPosts`, `Ipv6cpPosts`, `StopPosts` are the events they send. Addresses and
identifiers are reduced to `unset`, `partial`, `set`; message payloads to the distinctions the
handlers make. The build is the one without `WAN_MANAGER_UNIFICATION_ENABLED` names.

`PppEventLoop` cuts each thread at the points where another thread can interfere: a lock, a
send, a bus call, a process start, a sleep. `pc[Ipc]` runs through

    boot -> sock -> find -> lcp | ipcp | ipv6cp -> post -> (settle) -> unlock -> mq
         -> sock | read -> set | wanscan | start -> busget -> exec -> getpid -> sock

and a bus thread through `idle, lock, dispatch, stop, stopped, post, start, execpost, return`. `todo[t]`
holds the events a thread has still to send inside one handler, so that it may block at each of
them. The mutex is `owner` and `depth`, as it is recursive. `wanLock` is WanManager's own mutex:
`BusServes` can only answer when it is free, `BusFails` is the bus's timeout. Which thread calls in with it is an
input (`Callers`).

Failures outside the manager draw on one budget (`Fault`, `MaxFaults`): PSM without an answer
(`IpcNoEntry`, `IpcSkipEntry`, `DmlNoEntry`, and `IpcStartCrash`, where the code uses the NULL it gets), `mq_open`
(`SendFails`, `IpcBoot`), the bus, the start of the client, the search in `/proc`, the `popen` of `ps` in the test for a running
client (`PidNotFound`), the DUID file, a client that dies.

That test answers "not running" when `ps` cannot be run (UTILS:392): `IpcStart` then forgets the pid of a client that
runs and starts another. `missed` records it, as it does a client that the search in `/proc` did not find.
`IpcWanScan` stands for all the bus calls of `PppMgr_GetWanIfaceInstance` in one step: they read, no mutex is held,
and only their outcome is used (found, no virtual interface names this one, or the bus failed).

`posted`, `lost` and `missed` are history: the last value sent for each parameter, and what
has failed on the way. They let the properties say "unless this failed" and
nothing in the model reads them.

### What it implements

`ReportChannel` says what all this amounts to for whoever relies on it: a FIFO `chan` of events;
`Report` appends, and from the head an event is delivered to WanManager (`Deliver`), lost with its
interface recorded (`Lose`), or, if it is an order to start a client, taken (`Take`). Its theorem
`ChannelKeepsLast` is what follows: unless a report of an interface was lost, the youngest one on its way for a
parameter, or WanManager when there is none, has the value that was sent last.
`PppReports` maps the event loop to it: `chan` is the queue with the event in the IPC thread's
hand in front (`InFlight`), `sent` is `posted`, `value` is `wan`. The mutex, the full queue, the
unlocked wait in `PppMgr_ProcessPppEvent` and the second sender of each parameter disappear; `ImplementsChannel` says that none of
them shows.

## 4. The configuration

`PppConfig` models a bus call as the bus makes it: the settings one by one, each under the
mutex, then Validate without it, then Commit with it, or Rollback. A commit holds `owner[i]`
while it writes the records of `Saved` one after another. Parameters are names, and values are
small numbers, where 0 is what is empty or refused and 1 what PSM holds at the start; the cut of
`MaxMRUSize` to a `USHORT` is `% MruValues`. `Load` reads the records of an interface, any of
which may be missing (a budget again). `Crash` clears the process and leaves PSM, the clients and
the sessions. `SessionId` is `get_session_id`: the last line of the kernel's list, of whatever
interface, or the old value; `ReadInfo` (a read of the status) and `ClientUp` store it, and `ClientUp` writes it to PSM
under the literal format string (`psmSession[0]`), which is what IPC:534 does.

`acked`, `excused`, `untouched`, `lastUp` and the fields `before` and `failed` of a call are history.

Here a start of the client is one step under the mutex: its inner steps are in
`PppEventLoop`, and with the mutex held no other step of this module can fall between them.
The links are PPPoE and the clients those of rp-pppoe.

### What it implements

`SettingsStore` says what the commits amount to, without threads, mutexes and records: for each interface the settings
in the table (`live`), those on the medium (`kept`) and those a start would find if nothing failed (`due`). `Begin`
makes all settings of an interface due in one step; `Write` brings one of them to the medium; `WriteFails` takes back
one, its own; `End` is only possible when all that is due is kept; `Crash` leaves what is kept. `Change`, the only step
of a call that alters `live`, is never taken under a commit. In `PppConfig`, `due` is the entry where the thread that
holds the mutex has a record still to write, and PSM everywhere else (`Due`); `ImplementsStore` is the refinement.
What it does not promise is what the code does not do: `End` answers success after a `WriteFails`, and a record that
`Load` did not get is zero and may become due.

## 5. The process

`PppManager` puts `PppEventLoop` into a process that starts and ends. `main` is where the main thread is:

    bus -> create -> engage -> register -> cdm -> server -> sysevent -> loop
                                                    |           |
                                                    +-----------+-> term -> cancel -> exit

one step for each call whose result or place in the order matters: `ssp_Mbi_MessageBusEngage`,
`ssp_create`, the two halves of `ssp_engage` (the plug-in creates the table, then the component is registered), `Cdm_Init`,
the two halves of `PppMgr_Init`. Each can fail once the budget allows, and the code goes on as it does:
most results are not looked at. `table` distinguishes what a failure leaves: no table, a NULL, or
a table whose mutexes were never initialised because PSM did not say how many interfaces
there are (`"empty"`; in it the nested lock of a call waits for itself, `DmlRuns`).
`cancelling` is who is inside `ssp_cancel`, which `main` and a bus thread may run at the same time.

`mgr = "killed"` is a process that has ended: by a signal at any point (`Signal`), by a NULL
pointer, by the end of `main`. `Launch` is the next process. It keeps what outlives a process
(the queue, the clients, the DUID files, WanManager, and the messages of clients that the dead process had not yet
buffered) and clears the rest. `stale` counts the events at the head of the queue that an
earlier process sent. Their pointers may still be good (`IpcRuns`), lead to other
text (`IpcStaleGarbled`) or nowhere (`IpcStaleKills`), which ends the process with the event already taken
off the queue. A bus thread that finds the old queue sends to it before the IPC thread of
its process exists (`DmlOldQueueSend`). The steps of `PppEventLoop` are taken as they are, under the guards of the process
(`IpcRuns`, `DmlRuns`, `BusCall`).

## 6. Runs

Passing runs:

| Run | Question | Bounds |
|---|---|---|
| `reports` | `UpIsReported`, `EndIsReported`, `Ipv4BehindUp`, `DuidBehindUp`, `DeliveredInOrder` through every interleaving of reports and calls | 1 interface, 1 bus thread, 2 clients, queue of 3 so that it fills up, 2 messages of 9 kinds, 2 calls, 1 failure |
| `threads` | `TypeOK`, `MutexInv`, `MutualExclusion`, `OneClient`, `NoForeignWrite` | 2 bus threads, 3 clients, queue of 3, 1 message, 3 calls, 1 failure |
| `progress` | `CallsReturn`, `ReportsArrive` under fairness, and no deadlock | queue of 12 which these bounds never fill, 1 message, 2 calls, 1 failure |
| `two_ifaces` | events stay with their interface; the `USE_PPP_DAEMON` build never calls WanManager under a mutex and never deadlocks; nobody holds one mutex and waits for another (`NoHoldAndWait`); a call or round has only so many steps left (`StepsRunOut`); the loop implements the channel (`ImplementsChannel`) | 2 interfaces, 2 messages, 2 calls, 1 failure |
| `restart` | `TableFirst`, `ComesUp`, `CallsEnd`, `UpIsReported`, `DuidBehindUp` through the ends and starts of the manager, and whether all its processes together are one channel (`ImplementsChannel`, `DeliveredInOrder`) | 1 interface, 1 bus thread, 2 clients, queue of 12, 1 message of 3 kinds, 1 call, 1 failure, 2 signals or finalize calls |
| `config` | `SavedIsSnapshot`, `AckedSurvives`, `LastSessionKnown`, `CallsAnswered`, `ImplementsStore` | 2 bus threads, 2 calls of 3 kinds, 1 session, 1 crash, 1 failure |

Runs that find a violation of what a comment or a message of the code says:

| Run | Property | What happens |
|---|---|---|
| `queue_deadlock` | `QueueNeverDeadlocks` | the IPC thread blocks in `mq_send` on the queue only it empties, or needs a mutex whose holder does |
| `lock_cycle` | `NoLockCycle` | `PppMgr_StartPppClient` asks WanManager with the entry locked while WanManager's call waits for that entry |
| `disable_race` | `StartsOnlyEnabled` | Enable, then Disable: the start event in the queue is not cancelled |
| `stop_gap` | `DisabledIsNotUp` | a Disable between the lookup of a pid and its handler leaves the disabled interface Up |
| `session_key` | `SessionIdSurvivesRestart` | the session id is saved under the unformatted name and never found again |
| `rollback` | `RollbackRestores` | Rollback does nothing: settings accepted before the refused one stay |

Why the bounds are enough. The properties relate one interface to its events: a violation
needs a value, a second one that overtakes or contradicts it, and at most one failure in between, which two
messages and two calls give in every order; three calls on two threads and one IPC thread
give every pair of holders of a mutex with a third waiting. The queue's capacity (`MAX_QUEUE_LENGTH`) is
not a property of interest but full and not full are, so that it is either three, the number of
events one call sends, or more than the bounds can send. In `config`, two calls on two threads are a
commit with a setting in between; one crash and one failure can hit any step of them. In `restart`, two signals
give three processes, so that an event can be of the process before the last, and a signal can fall between the end
that a stale event caused and the next. What these bounds do not reach: in `restart` the one call is the Enable, so that no
session that was up ends, and `EndIsReported` is left to `reports` and, for restarts, to the proof
(`ReportedThroughRestarts`; with two calls the run does not end in a few minutes); in `config`, with one session, `LastSessionKnown` can only fail by the
id being lost, and that it never goes back to an older session is left to the proof (`LastSessionIsKnown`). Bounds that cap a counter
are constants named `Max...` and appear only in guards of what the environment does.

Deadlock is checked where the system must not stop (`progress`, `two_ifaces`). In `reports`,
`threads` and the violation runs the queue may fill up for good, which is the finding of `queue_deadlock`; in
`config` the calls are bounded and the environment may rest; in `restart` a call in a table that was not set up waits for
itself, and the IPC thread for that call.

Fairness. `FairSpec` of `PppEventLoop` has weak fairness of the IPC thread as a whole, of each
bus thread inside a call, and of the end of a client that was asked to stop. The IPC thread
loops with `usleep` and a non-blocking receive, a mutex or the queue can only be held up by
threads that are themselves fair, and with bounded calls no thread can be overtaken for ever. Calls,
messages and failures are never forced. `ManagerFairSpec` of `PppManager` adds the main thread, the bus thread inside `ssp_cancel`, and
`Launch`: that a manager which has ended is started again is the init system's part, outside the
repository, and without it no property after a crash means anything. `FairSpec` of `PppConfig` is the same for its threads and the load.

## 7. Proofs

`PppEventLoopProofs` proves, for every value of the constants that meets the named assumptions
(`NumIfacesAssumption`, `PidsAssumption`, `ThreadsAssumption`, `QueueCapAssumption`,
`BuildAssumption`, `EnvironmentAssumption`):

| Theorem | Statement |
|---|---|
| `Typing` | `Spec => []TypeOK` |
| `MutexIsInductive` | `Spec => []MutexInv` |
| `Exclusion` | `Spec => []MutualExclusion` |
| `ForeignWrites` | `Spec => NoForeignWrite` |
| `BusCalls` | outside the build that asks for the lower layer's name, `Spec => []NoBusCallUnderMutex` |
| `NoCircles` | `Spec => []NoHoldAndWait`, in both builds |
| `NothingRunsOn` | `Spec => StepsRunOut` |

The argument: `MutualExclusion` is not inductive, since it says nothing about the depth that
decides whether an unlock frees the mutex. `MutexInv` is: `owner[i] = t` exactly when
`Holds(t, i)`, a statement about `pc` alone, and `depth[i]` is 2 exactly inside the nested lock. Every step of
a thread falls in one of a few kinds, each a lemma: it leaves the mutex and `Holds` as they
are (`KeepsMutex`), locks (`LocksMutex`), nests (`NestsMutex`), leaves the nesting
(`UnnestsMutex`) or unlocks (`UnlocksMutex`); `IpcMutex`, `DmlMutex` and `CallMutex` go through the
actions. Exclusion follows from it at once; `ForeignWrites` adds that each action that changes an entry is
a step of the thread which has it locked after or before the step. `NoCircles` sets `Wants`, what the next step of a
thread locks, against `Holds` (`HoldersDoNotWait`): the only lock taken with a mutex held is a second one of the same
entry. So what can stop the holder of a mutex is the full queue or WanManager, which is what `queue_deadlock` and
`lock_cycle` show, and nothing else.

`NothingRunsOn` is the part of progress that needs no fairness: `CallSteps` and `RoundSteps` bound what a call and a
round have left, and every step of the thread lowers its own (`CallShrinks`, `RoundShrinks`) while no other thread can
raise it (`CallLevelOf`, `RoundLevelOf`). With `CallsReturn` and `ReportsArrive`, which TLC checks under fairness, a call that does
not return is one that waits. Both measures are of one process: a `Launch` starts the threads again.

`PppSessionProofs` and `PppClientProofs` build on its `TypeOK` and `MutexInv`:

| Theorem | Statement |
|---|---|
| `SessionIsInductive` | `Spec => [](TodoSound /\ SessionInv)`, `SessionInv` being the conjunction of the next four |
| `StatusIsReported` | `Spec => []UpIsReported` |
| `EndsAreReported` | `Spec => []EndIsReported` |
| `Ipv4IsReported` | `Spec => []Ipv4BehindUp` |
| `DuidIsReported` | `Spec => []DuidBehindUp` |
| `ClientIsKnown` | `Spec => []ClientKnown` |
| `SingleClient` | `Spec => []OneClient` |

The four session invariants allow the last report to be wrong while the thread that wrote the entry is about
to send another. Nothing in them says what a thread has to send, nor that this is true of
the entry, so that they are not inductive. `TodoSound` says it: a thread has something to send only at
`post`, `stopped`, `upost` or `execpost`, and each event is a report that is true of the entry (`Tells`) whose
mutex the thread holds, the answer to a rejected message, or the order to start a
client. Then nobody else can write to that entry before the report is sent (`OthersJustified`), and
the report cannot contradict it when it is. A step leaves the entries
and the reports alone (`QuietKeeps`, `IdleKeeps`), writes an entry and adds its reports (`WriteKeeps`),
sends the first report (`SendKeeps`) or loses it (`FailKeeps`); `IpcKeeps`, `DmlKeeps` and `ClientKeeps` go through the
actions.

`OneClient` does not say who knows of the client. `ClientKnown` does, for one
interface while no search by name and no test by `ps` has failed: where the IPC thread is past the test of the old process and has not started
the new one there is no client, until it has recorded the new one there is at most one, and at any other
time a client that runs is the one in the entry. The entry's mutex keeps Stop, which resets the pid, out of a
start; the test of the old process makes room for a new one. In the step in which that test fails for a client that runs
`missed` becomes true, and from then on nothing is promised: the code does start a second client then.

`PppConfigProofs` proves about every safety invariant of `config`, for every number of interfaces and
threads and every budget (`IfacesAssumption`, `ThreadAssumption`, `ParamsAssumption`, `RequestsAssumption`,
`FactoryAssumption`, `BoundsAssumption`):

| Theorem | Statement |
|---|---|
| `Typing` | `Spec => []TypeOK` |
| `SavesSnapshot` | `Spec => []SavedIsSnapshot` |
| `AckedIsDurable` | `Spec => []AckedSurvives` |
| `LastSessionIsKnown` | `Spec => []LastSessionKnown` |
| `CommitsImplement` | `Spec => ImplementsStore` |

`LockInv` says that the thread whose commit is writing, and no other, holds the mutex of its entry, and
that there is no call while the manager loads. With it, `SavedIsSnapshot` is inductive: whatever
changes `cfg[i]` needs the mutex of `i` free, so that it is not the entry of a thread that writes
(`SnapshotElsewhere`). `AckedSurvives` is not, as a load takes `cfg` from PSM, of which it says nothing;
`PsmIsAcked` adds that PSM holds what was acknowledged whenever no commit is writing, and at the end of a
commit this is `SavedIsSnapshot` for all records (`CommitSaved`). `LastSessionKnown` needs that the kernel's
list has at most the newest session, that no session is stored before it is given, and that
the interface's own session record is never written (`NewestSession`).

`CommitsImplement` takes the steps one by one: `Load`, `Crash`, `Commit` and `CommitReturn` are `Load`, `Crash`, `Begin` and
`End` of the store (`StoreLoads`, `StoreCrashes`, `StoreBegins`, `StoreEnds`), `SaveParam` is `Write` or `WriteFails`
(`StoreWrites`), `SetParam` is `Change` or nothing (`StoreChanges`), and no other step shows but for what it adds to the
failures (`StoreElsewhere`). It rests on `LockInv`, by which what is still to be written of an interface can be told from the
owner of its mutex (`DueOf`), and on no parameter being written twice (`SavedOnce`).

`ReportChannel` proves of the abstract channel, for any sets of interfaces and parameters,
`ChannelKeepsLast` (`ChannelSpec => [](ChannelTypeOK /\ LastIsSent)`); `LastIsSent` is inductive once
it names the position of the youngest report. `PppReportsProofs` carries it over to the program:

| Theorem | Statement |
|---|---|
| `Implements` | `Spec => ImplementsChannel` |
| `InOrder` | `Spec => []DeliveredInOrder` |

`Implements` needs one invariant, `HandHoldsReport`: in `read` and `set` the IPC thread's event is a report, so
that the step that ends the set is a `Deliver` or a `Lose` and never drops an order. Each action of
`PppEventLoop` is then a step of the channel or leaves the four mapped expressions alone. `InOrder` is `ChannelKeepsLast` under the
mapping, and the translation of the youngest report into the `CHOOSE` of `DeliveredInOrder`.

`PppManagerProofs` proves about the process, for any number of ends and starts
(`StopsAssumption` and those of `PppEventLoop`):

| Theorem | Statement |
|---|---|
| `ManagerTyping` | `ManagerSpec => []ManagerTypeOK` |
| `ManagerExclusion` | `ManagerSpec => []MutualExclusion` |
| `TableComesFirst` | `ManagerSpec => []TableFirst` |

A step of the process is one of few kinds: a step of `PppEventLoop` (`AsBefore`), one that its threads do
not notice (`Apart`), an event that leaves or enters the queue, or a new process. The lemmas of `PppEventLoopProofs` cover the
first kind. `TableFirst` is not inductive, as it says nothing of how far `main` is; `StartOrder` ties
the table, the component's health and the IPC thread to the position of `main` and needs only the order of its calls.

`PppRestartProofs` carries what is proved of one process through its ends and starts:

| Theorem | Statement |
|---|---|
| `ReportedThroughRestarts` | `ManagerSpec => [](UpIsReported /\ EndIsReported /\ DuidBehindUp)` |
| `SingleClientThroughRestarts` | `ManagerSpec => []OneClient` |
| `ForeignWritesThroughRestarts` | `ManagerSpec => NoForeignWrite` |
| `NoCirclesThroughRestarts` | `ManagerSpec => []NoHoldAndWait` |
| `BusCallsThroughRestarts` | outside the build that asks for the lower layer's name, `ManagerSpec => []NoBusCallUnderMutex` |
| `ImplementsThroughRestarts` | `ManagerSpec => ImplementsChannel` |
| `InOrderThroughRestarts` | `ManagerSpec => []DeliveredInOrder` |

The lemmas of `PppSessionProofs` say of each of the four invariants by itself that a step keeps it (`SessionKept`), as
one of them does not outlive a process: the next one has no addresses while the last told WanManager of some
(`Ipv4BehindUp`). `Launch` keeps the other three: no session is up or over in the new process,
the DUID files are as they were, and a report that the old one was about to send counts as lost. A client that
runs at `Launch` is one the manager does not know (`missed`), so that `ClientKnown` has nothing to say of it.

`NoCirclesThroughRestarts` is about waiting for another thread. A call in a table that was not set up waits for itself
(`DmlRuns`), which is why `CallsEnd` leaves such a table out.

The channel of `ImplementsThroughRestarts` is that of one process. The queue outlives the process, so that `Launch` is
no step of the channel, or the loss of the one report that was in the hand of the IPC thread; a stale event is a report
or an order that is lost when it is its turn, and what a call sends to the old queue goes behind it. With
`ChannelKeepsLast`, `InOrderThroughRestarts` follows as `InOrder` does.

By nature of the provers the liveness properties `CallsReturn`, `ReportsArrive`, `ComesUp`, `CallsEnd`, `CallsAnswered` are
only model-checked; every safety invariant and action property of a passing run has its theorem.

## 8. Not modelled

* Statistics: reads of `/proc/net/dev` for one call, no state.
* Of the start-up: the console of `-c`, and the getters and setters of the component's log level.
* Texts: command lines, formats of addresses and parameter names, logging.
* PPPoA's session id from a log file; the log file's and `/proc`'s text (planned as `PppScan`).
* The time of a change of state: `GetUptimeinSeconds` (APIS:911) asks CcspPandMSsp over the bus for it with the mutex of
  the entry held (IPC:507). That component is external and does not call in with a mutex of its own held as far as this
  repository shows; the call answers or times out, and its result is only stored. `NoBusCallUnderMutex` is about calls to WanManager.
* The timer behind `AutoDisconnectTime` (DML:973): it ends in `pppoe-stop`, whose effect is that
  a client ends.
* Code that no one calls: `get_auth_proto`, `safe_strcpy`.

Behaviours that the models show and that no run states, since no text of the repository
says what should happen: a Reset whose start event is handled while the old client is still
ending leaves an enabled interface without a client (APIS:292); two interfaces may record the same
pid (APIS:416); in the daemon build a Disable without a client is `kill(0, SIGKILL)` (APIS:437); a stop
reports LCP and never the link parameter (IPC:289); the five seconds after which WanManager may be asked for IPv4 are slept
before the set they are meant to follow, by the thread that does it (IPC:844); a client that survives the manager is
unknown to the next one, which drops its reports and starts another beside it (APIS:292);
a failed `popen` of `ps` starts a second client beside the one that runs (UTILS:392); after a restart WanManager keeps the Up of the last process until the next report; an authentication protocol of PAP in PSM is not
recognised at the start, so that no client can be started (APIS:684).
