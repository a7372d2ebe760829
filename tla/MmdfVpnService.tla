--------------------------- MODULE MmdfVpnService ---------------------------
(***************************************************************************)
(* The foreground VpnService of MmdfVpnService.kt: startEverything on the  *)
(* main thread, teardown on an "mmdf-teardown" thread or on the main       *)
(* thread (onDestroy), the tun2proxy worker threads, and the process-wide  *)
(* VpnState they publish to.                                               *)
(*                                                                         *)
(* The service's fields are plain vars shared by these threads; only       *)
(* tornDown is atomic.  A step of a thread is one read or write of that    *)
(* state or one step of a native call, so every interleaving of the        *)
(* threads is a behaviour.                                                 *)
(*                                                                         *)
(* `tun` is not kept: after detachFd() its close() does nothing.  Nor is   *)
(* `tunRunning`: it is written and never read (worker says as much).       *)
(* A tun2proxy worker and the TUN it serves carry the handle of the proxy  *)
(* started with them.                                                      *)
(***************************************************************************)
EXTENDS NativeProxy, ServiceManager

CONSTANTS
    Main,      \* the app's main thread
    Stoppers,  \* "mmdf-teardown" threads
    Faults     \* the failures of the surroundings that can happen

FaultKinds == {"config",     \* the stored settings are refused by startProxy
               "bind",       \* a port is taken by another process
               "establish",  \* the VPN interface is not granted
               "thread",     \* the tun2proxy thread cannot be created
               "tun2proxy",  \* tun2proxy returns although nobody stopped it
               "slow",       \* tun2proxy takes longer than join(3000) to stop
               "stuck",      \* a proxy's runtime takes longer than 5 s to end
               "revoke",     \* another VPN app takes over
               "kill"}       \* the process is killed

ASSUME ThreadAssumption == Main \notin Stoppers
ASSUME FaultAssumption  == Faults \subseteq FaultKinds

VARIABLES
    proxyHandle,  \* per service object: field proxyHandle
    tunThread,    \* per service object: field tunThread (a worker, or NoHandle)
    tornDown,     \* per service object: field tornDown
    pc, on, reg,  \* per thread: its next step, the object it runs on, a local
    worker,       \* per handle: the tun2proxy thread started with it
    vpn,          \* the TUN device traffic is routed to, or NoHandle
    isRunning,    \* VpnState.isRunning
    shownHandle   \* VpnState.proxyHandle

fieldVars  == <<proxyHandle, tunThread, tornDown>>
threadVars == <<pc, on, reg>>
tunVars    == <<worker, vpn>>
stateVars  == <<isRunning, shownHandle>>

Threads      == Stoppers \cup {Main}
WorkerStates == {"none", "spawned", "running", "quit", "exited"}
StartSteps   == {"start", "readOld", "removeOld", "shutOld", "forgetOld",
                 "boot", "record", "keepHandle", "checkHandle", "establish", "spawn",
                 "keepThread", "readHandle", "publishHandle", "publishRunning",
                 "readFailed", "removeFailed", "shutFailed", "forgetFailed", "stopSelf"}
Critical     == {"stopTun", "readThread", "join", "checkProxy", "readProxy",
                 "removeProxy", "shutProxy", "forgetProxy", "clearHandle",
                 "clearRunning", "rearm"}
TeardownSteps == Critical \cup {"teardown", "ended"}

ServiceTypeOK ==
    /\ proxyHandle \in [Instances -> Handles \cup {NoHandle}]
    /\ tunThread \in [Instances -> Handles \cup {NoHandle}]
    /\ tornDown \in [Instances -> BOOLEAN]
    /\ pc \in [Threads -> StartSteps \cup TeardownSteps \cup {"idle"}]
    /\ \A t \in Stoppers : pc[t] \in TeardownSteps \cup {"idle"}
    /\ on \in [Threads -> Instances]
    /\ reg \in [Threads -> Handles \cup {NoHandle}]
    /\ pc[Main] \in {"record", "establish", "spawn", "keepThread"} => reg[Main] \in Handles
    /\ pc[Main] = "checkHandle" /\ reg[Main] = NoHandle => proxyHandle[on[Main]] = NoHandle
    /\ worker \in [Handles -> WorkerStates]
    /\ vpn \in Handles \cup {NoHandle}
    /\ isRunning \in BOOLEAN
    /\ shownHandle \in Handles \cup {NoHandle}

ServiceInit ==
    /\ proxyHandle = [i \in Instances |-> NoHandle]
    /\ tunThread = [i \in Instances |-> NoHandle]
    /\ tornDown = [i \in Instances |-> FALSE]
    /\ pc = [t \in Threads |-> "idle"]
    /\ on = [t \in Threads |-> 1]
    /\ reg = [t \in Threads |-> NoHandle]
    /\ worker = [h \in Handles |-> "none"]
    /\ vpn = NoHandle
    /\ isRunning = FALSE
    /\ shownHandle = NoHandle

-----------------------------------------------------------------------------
(* Steps of a thread. *)

At(t, step)   == pc[t] = step
GoTo(t, step) == pc' = [pc EXCEPT ![t] = step]
Keep(t, h)    == reg' = [reg EXCEPT ![t] = h]
Forget(i)     == proxyHandle' = [proxyHandle EXCEPT ![i] = NoHandle]

Begin(t, step, i) ==
    /\ pc' = [pc EXCEPT ![t] = step]
    /\ on' = [on EXCEPT ![t] = i]
    /\ reg' = [reg EXCEPT ![t] = NoHandle]

-----------------------------------------------------------------------------
(* `Native.stopProxy(proxyHandle); proxyHandle = 0L`, which the code has four     *)
(* times: before a start, on the two failure paths of one, and in teardown.       *)

\* Whose turn it is in each of the places.
Reading    == {"readOld", "readFailed", "readProxy"}
Removing   == {"removeOld", "removeFailed", "removeProxy"}
Stopping   == {"shutOld", "shutFailed", "shutProxy"}
Forgetting == {"forgetOld", "forgetFailed", "forgetProxy"}

InPlace(t, old, failed, teardown) ==
    GoTo(t, CASE pc[t] \in {"readOld", "removeOld", "shutOld", "forgetOld"} -> old
              [] pc[t] \in {"readFailed", "removeFailed", "shutFailed", "forgetFailed"}
                 -> failed
              [] OTHER -> teardown)

\* The argument.
ReadArgument(t) ==
    /\ pc[t] \in Reading
    /\ Keep(t, proxyHandle[on[t]])
    /\ InPlace(t, "removeOld", "removeFailed", "removeProxy")
    /\ UNCHANGED <<nativeVars, frameworkVars, fieldVars, on, tunVars, stateVars>>

\* Native.stopProxy up to the release of the slots lock.
RemoveRecord(t) ==
    /\ pc[t] \in Removing
    /\ RemoveSlot(reg[t])
    /\ Keep(t, Removed(reg[t]))
    /\ InPlace(t, "shutOld", "shutFailed", "shutProxy")
    /\ UNCHANGED <<frameworkVars, fieldVars, on, tunVars, stateVars>>

\* Native.stopProxy up to its return.
ShutRuntime(t) ==
    /\ pc[t] \in Stopping
    /\ \E overrun \in BOOLEAN : /\ overrun => "stuck" \in Faults
                                /\ ShutDown(reg[t], overrun)
    /\ InPlace(t, "forgetOld", "forgetFailed", "forgetProxy")
    /\ UNCHANGED <<frameworkVars, fieldVars, on, reg, tunVars, stateVars>>

ForgetHandle(t) ==
    /\ pc[t] \in Forgetting
    /\ Forget(on[t])
    /\ InPlace(t, "boot", "stopSelf", "clearHandle")
    /\ UNCHANGED <<nativeVars, frameworkVars, tunThread, tornDown, on, reg,
                   tunVars, stateVars>>

StopProxyStep(t) ==
    ReadArgument(t) \/ RemoveRecord(t) \/ ShutRuntime(t) \/ ForgetHandle(t)

-----------------------------------------------------------------------------
(* startEverything, on the main thread. *)

\* A running proxy of this object is stopped first.
CheckOldProxy ==
    /\ At(Main, "start")
    /\ GoTo(Main, IF proxyHandle[on[Main]] # NoHandle THEN "readOld" ELSE "boot")
    /\ UNCHANGED <<nativeVars, frameworkVars, fieldVars, on, reg, tunVars, stateVars>>

\* Mutant: a refused start is not noticed.
BootProxyUnchecked ==
    /\ At(Main, "boot")
    /\ SpawnRun(FALSE) \/ ("config" \in Faults /\ UNCHANGED nativeVars)
    /\ GoTo(Main, "record")
    /\ UNCHANGED <<frameworkVars, fieldVars, on, reg, tunVars, stateVars>>

\* Native.startProxy: the run loop starts to bind, or the settings are refused and
\* the handle it returns is 0.
BootProxy ==
    /\ At(Main, "boot")
    /\ \/ /\ \E portsBusy \in BOOLEAN : /\ portsBusy => PortsTaken \/ "bind" \in Faults
                                       /\ SpawnRun(portsBusy)
          /\ Keep(Main, nextHandle)
          /\ GoTo(Main, "record")
       \/ /\ "config" \in Faults
          /\ Keep(Main, NoHandle)
          /\ GoTo(Main, "keepHandle")
          /\ UNCHANGED nativeVars
    /\ UNCHANGED <<frameworkVars, fieldVars, on, tunVars, stateVars>>

RecordProxy ==
    /\ At(Main, "record")
    /\ RecordHandle
    /\ GoTo(Main, "keepHandle")
    /\ UNCHANGED <<frameworkVars, fieldVars, on, reg, tunVars, stateVars>>

\* `proxyHandle = ` the result ...
KeepHandle ==
    /\ At(Main, "keepHandle")
    /\ proxyHandle' = [proxyHandle EXCEPT ![on[Main]] = reg[Main]]
    /\ GoTo(Main, "checkHandle")
    /\ UNCHANGED <<nativeVars, frameworkVars, tunThread, tornDown, on, reg,
                   tunVars, stateVars>>

\* ... and the field, not the result, is what is compared with 0.
CheckHandle ==
    /\ At(Main, "checkHandle")
    /\ GoTo(Main, IF proxyHandle[on[Main]] = NoHandle THEN "stopSelf" ELSE "establish")
    /\ UNCHANGED <<nativeVars, frameworkVars, fieldVars, on, reg, tunVars, stateVars>>

\* Builder.establish(): a new TUN replaces the one there was.
EstablishTun ==
    /\ At(Main, "establish")
    /\ \/ /\ vpn' = reg[Main]
          /\ GoTo(Main, "spawn")
       \/ /\ "establish" \in Faults
          /\ GoTo(Main, "readFailed")
          /\ UNCHANGED vpn
    /\ UNCHANGED <<nativeVars, frameworkVars, fieldVars, on, reg, worker, stateVars>>

\* worker.start(); when it throws, the detached fd is closed.
SpawnWorker ==
    /\ At(Main, "spawn")
    /\ \/ /\ worker' = [worker EXCEPT ![reg[Main]] = "spawned"]
          /\ GoTo(Main, "keepThread")
          /\ UNCHANGED vpn
       \/ /\ "thread" \in Faults
          /\ vpn' = IF vpn = reg[Main] THEN NoHandle ELSE vpn
          /\ GoTo(Main, "readFailed")
          /\ UNCHANGED worker
    /\ UNCHANGED <<nativeVars, frameworkVars, fieldVars, on, reg, stateVars>>

\* tunThread = worker.
KeepThread ==
    /\ At(Main, "keepThread")
    /\ tunThread' = [tunThread EXCEPT ![on[Main]] = reg[Main]]
    /\ GoTo(Main, "readHandle")
    /\ UNCHANGED <<nativeVars, frameworkVars, proxyHandle, tornDown, on, reg,
                   tunVars, stateVars>>

\* VpnState.setProxyHandle(proxyHandle).
ReadHandle ==
    /\ At(Main, "readHandle")
    /\ Keep(Main, proxyHandle[on[Main]])
    /\ GoTo(Main, "publishHandle")
    /\ UNCHANGED <<nativeVars, frameworkVars, fieldVars, on, tunVars, stateVars>>

PublishHandle ==
    /\ At(Main, "publishHandle")
    /\ shownHandle' = reg[Main]
    /\ GoTo(Main, "publishRunning")
    /\ UNCHANGED <<nativeVars, frameworkVars, fieldVars, on, reg, tunVars, isRunning>>

PublishRunning ==
    /\ At(Main, "publishRunning")
    /\ isRunning' = TRUE
    /\ GoTo(Main, "idle")
    /\ UNCHANGED <<nativeVars, frameworkVars, fieldVars, on, reg, tunVars, shownHandle>>

\* Every failure path of a start ends with stopSelf().
GiveUp ==
    /\ At(Main, "stopSelf")
    /\ StopSelf(on[Main])
    /\ GoTo(Main, "idle")
    /\ UNCHANGED <<nativeVars, fieldVars, on, reg, tunVars, stateVars>>

StartStep ==
    \/ CheckOldProxy \/ BootProxy \/ RecordProxy \/ KeepHandle \/ CheckHandle
    \/ EstablishTun \/ SpawnWorker \/ KeepThread
    \/ ReadHandle \/ PublishHandle \/ PublishRunning \/ GiveUp

-----------------------------------------------------------------------------
(* teardown, on any thread. *)

\* Mutant: get() and set() in place of compareAndSet, the result not looked at.
EnterTeardownUnguarded(t) ==
    /\ At(t, "teardown")
    /\ tornDown' = [tornDown EXCEPT ![on[t]] = TRUE]
    /\ GoTo(t, "stopTun")
    /\ UNCHANGED <<nativeVars, frameworkVars, proxyHandle, tunThread, on, reg,
                   tunVars, stateVars>>

\* tornDown.compareAndSet(false, true): whoever loses returns.
EnterTeardown(t) ==
    /\ At(t, "teardown")
    /\ tornDown' = [tornDown EXCEPT ![on[t]] = TRUE]
    /\ GoTo(t, IF tornDown[on[t]] THEN "ended" ELSE "stopTun")
    /\ UNCHANGED <<nativeVars, frameworkVars, proxyHandle, tunThread, on, reg,
                   tunVars, stateVars>>

\* Mutant: stop() throws, and the catch drops it.
StopTunFails(t) ==
    /\ At(t, "stopTun")
    /\ GoTo(t, "readThread")
    /\ UNCHANGED <<nativeVars, frameworkVars, fieldVars, on, reg, tunVars, stateVars>>

\* Tun2proxy.stop() takes no argument: it reaches every run() of the process that
\* has begun, and none that has not.
StopTun(t) ==
    /\ At(t, "stopTun")
    /\ worker' = [h \in Handles |-> IF worker[h] = "running" THEN "quit" ELSE worker[h]]
    /\ GoTo(t, "readThread")
    /\ UNCHANGED <<nativeVars, frameworkVars, fieldVars, on, reg, vpn, stateVars>>

\* `tunThread?` ...
ReadTunThread(t) ==
    /\ At(t, "readThread")
    /\ Keep(t, tunThread[on[t]])
    /\ GoTo(t, "join")
    /\ UNCHANGED <<nativeVars, frameworkVars, fieldVars, on, tunVars, stateVars>>

\* ... .join(3000).
JoinWorker(t) ==
    /\ At(t, "join")
    /\ reg[t] # NoHandle => worker[reg[t]] = "exited"
    /\ GoTo(t, "checkProxy")
    /\ UNCHANGED <<nativeVars, frameworkVars, fieldVars, on, reg, tunVars, stateVars>>

\* Mutant: join() without a limit.
JoinForever(t) == FALSE

\* The join gives up.  A worker that was told to quit does so in time, unless slow.
JoinTimesOut(t) ==
    /\ At(t, "join")
    /\ reg[t] # NoHandle
    /\ worker[reg[t]] # "exited"
    /\ worker[reg[t]] = "quit" => "slow" \in Faults
    /\ GoTo(t, "checkProxy")
    /\ UNCHANGED <<nativeVars, frameworkVars, fieldVars, on, reg, tunVars, stateVars>>

\* Mutant: the teardown closes the interface and leaves the proxy.
CheckProxySkipped(t) ==
    /\ At(t, "checkProxy")
    /\ GoTo(t, "clearHandle")
    /\ UNCHANGED <<nativeVars, frameworkVars, fieldVars, on, reg, tunVars, stateVars>>

CheckProxy(t) ==
    /\ At(t, "checkProxy")
    /\ GoTo(t, IF proxyHandle[on[t]] # NoHandle THEN "readProxy" ELSE "clearHandle")
    /\ UNCHANGED <<nativeVars, frameworkVars, fieldVars, on, reg, tunVars, stateVars>>

\* Mutant: the handle stays published.
ClearHandleForgotten(t) ==
    /\ At(t, "clearHandle")
    /\ GoTo(t, "clearRunning")
    /\ UNCHANGED <<nativeVars, frameworkVars, fieldVars, on, reg, tunVars, stateVars>>

ClearHandle(t) ==
    /\ At(t, "clearHandle")
    /\ shownHandle' = NoHandle
    /\ GoTo(t, "clearRunning")
    /\ UNCHANGED <<nativeVars, frameworkVars, fieldVars, on, reg, tunVars, isRunning>>

ClearRunning(t) ==
    /\ At(t, "clearRunning")
    /\ isRunning' = FALSE
    /\ GoTo(t, "rearm")
    /\ UNCHANGED <<nativeVars, frameworkVars, fieldVars, on, reg, tunVars, shownHandle>>

\* Mutant: the flag is never given back.
RearmForgotten(t) ==
    /\ At(t, "rearm")
    /\ GoTo(t, "ended")
    /\ UNCHANGED <<nativeVars, frameworkVars, fieldVars, on, reg, tunVars, stateVars>>

\* tornDown.set(false).
Rearm(t) ==
    /\ At(t, "rearm")
    /\ tornDown' = [tornDown EXCEPT ![on[t]] = FALSE]
    /\ GoTo(t, "ended")
    /\ UNCHANGED <<nativeVars, frameworkVars, proxyHandle, tunThread, on, reg,
                   tunVars, stateVars>>

\* The teardown thread goes on to stopSelf(); onDestroy just returns.
EndTeardown(t) ==
    /\ At(t, "ended")
    /\ GoTo(t, "idle")
    /\ \/ t \in Stoppers /\ StopSelf(on[t])
       \/ t = Main /\ UNCHANGED frameworkVars
    /\ UNCHANGED <<nativeVars, fieldVars, on, reg, tunVars, stateVars>>

TeardownStep(t) ==
    \/ EnterTeardown(t) \/ StopTun(t) \/ ReadTunThread(t) \/ JoinWorker(t)
    \/ JoinTimesOut(t) \/ CheckProxy(t) \/ ClearHandle(t)
    \/ ClearRunning(t) \/ Rearm(t) \/ EndTeardown(t)

-----------------------------------------------------------------------------
(* Main looper callbacks. *)

\* onStartCommand with any action but ACTION_STOP.
OnStart ==
    /\ At(Main, "idle")
    /\ Receive("start")
    /\ Begin(Main, "start", Head(mailbox).svc)
    /\ UNCHANGED <<nativeVars, record, startRequested, nextInstance, fieldVars,
                   tunVars, stateVars>>

\* onStartCommand with ACTION_STOP: teardown runs on a thread of its own.
OnStop ==
    /\ At(Main, "idle")
    /\ Receive("stop")
    /\ \E t \in Stoppers : /\ At(t, "idle")
                           /\ Begin(t, "teardown", Head(mailbox).svc)
    /\ UNCHANGED <<nativeVars, record, startRequested, nextInstance, fieldVars,
                   tunVars, stateVars>>

\* onDestroy: teardown runs on the main thread.
OnDestroy ==
    /\ At(Main, "idle")
    /\ Receive("destroy")
    /\ Begin(Main, "teardown", Head(mailbox).svc)
    /\ UNCHANGED <<nativeVars, record, startRequested, nextInstance, fieldVars,
                   tunVars, stateVars>>

\* onRevoke is not overridden: VpnService's own calls stopSelf().
OnRevoke ==
    /\ At(Main, "idle")
    /\ Receive("revoke")
    /\ startRequested' = IF record = Head(mailbox).svc THEN FALSE ELSE startRequested
    /\ UNCHANGED <<nativeVars, record, nextInstance, fieldVars, threadVars,
                   tunVars, stateVars>>

LooperStep == OnStart \/ OnStop \/ OnDestroy \/ OnRevoke

-----------------------------------------------------------------------------
(* The tun2proxy threads.  Its fd is closed when run() returns. *)

CloseTun(h) == vpn' = IF vpn = h THEN NoHandle ELSE vpn

\* The thread calls Tun2proxy.run; while another run is going on, it may be refused.
EnterRun(h) ==
    /\ worker[h] = "spawned"
    /\ \/ /\ worker' = [worker EXCEPT ![h] = "running"]
          /\ UNCHANGED vpn
       \/ /\ \E g \in Handles \ {h} : worker[g] \in {"running", "quit"}
          /\ worker' = [worker EXCEPT ![h] = "exited"]
          /\ CloseTun(h)
    /\ UNCHANGED <<nativeVars, frameworkVars, fieldVars, threadVars, stateVars>>

\* run() returns after Tun2proxy.stop().
QuitRun(h) ==
    /\ worker[h] = "quit"
    /\ worker' = [worker EXCEPT ![h] = "exited"]
    /\ CloseTun(h)
    /\ UNCHANGED <<nativeVars, frameworkVars, fieldVars, threadVars, stateVars>>

\* run() returns by itself: an error, or its TUN was replaced or revoked.
LoseRun(h) ==
    /\ worker[h] = "running"
    /\ "tun2proxy" \in Faults \/ vpn # h
    /\ worker' = [worker EXCEPT ![h] = "exited"]
    /\ CloseTun(h)
    /\ UNCHANGED <<nativeVars, frameworkVars, fieldVars, threadVars, stateVars>>

WorkerStep(h) == EnterRun(h) \/ QuitRun(h) \/ LoseRun(h)

=============================================================================
