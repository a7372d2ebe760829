------------------------------ MODULE LiveProxy ------------------------------
(***************************************************************************)
(* A proxy while it runs, is stopped and is started again: the handle      *)
(* table, the accept loop with its connections, the log ring, and the      *)
(* screen that polls.  MmdfVpnService is here only what calls the others,  *)
(* in its order, one start or stop at a time; what happens when they       *)
(* overlap is VpnApp.                                                      *)
(***************************************************************************)
EXTENDS NativeProxy, AcceptLoop, StatsPoller

CONSTANT MaxLines   \* bound: log lines written in a behaviour

ASSUME MaxLinesAssumption == MaxLines \in Nat

VARIABLE service   \* the step MmdfVpnService takes next

vars == <<nativeVars, acceptVars, stateVars, ringVars, screenVars, service>>

Calls == {"start", "record", "setHandle", "setRunning",
          "stop", "shutDown", "clearHandle", "clearRunning"}

\* The ring and the screen stay within their limits.
TypeOK ==
    /\ NativeTypeOK /\ AcceptTypeOK
    /\ isRunning \in BOOLEAN /\ seenRunning \in BOOLEAN
    /\ {vpnHandle, seenHandle, asked} \subseteq Handles \cup {NoHandle}
    /\ poll \in {"begin", "off", "delay", "stats", "statsDone", "logs", "logsDone"}
    /\ logged \in Nat
    /\ ring \in Seq(Nat) /\ Len(ring) <= RingCap
    /\ logs \in Seq(Nat) /\ Len(logs) <= ScreenCap
    /\ poll = "logsDone" => answer \in Seq(Nat)
    /\ service \in Calls

Init == NativeInit /\ AcceptInit /\ PollerInit /\ service = "start"

Current == nextHandle - 1

Call(from, to) == service = from /\ service' = to

-----------------------------------------------------------------------------
(* startEverything and teardown of the service, each call in its place.     *)

\* startProxy: both ports are bound, or the run loop returns at once and nobody is told:
\* the app goes on as if it listened.
StartProxy ==
    /\ Call("start", "record")
    /\ \E portsBusy \in BOOLEAN : SpawnRun(portsBusy)
    /\ Bind(proxy'[nextHandle] = "listening")
    /\ UNCHANGED <<stateVars, ringVars, screenVars>>

ProxyStarted ==
    /\ Call("record", "setHandle")
    /\ RecordHandle
    /\ UNCHANGED <<acceptVars, stateVars, ringVars, screenVars>>

SetHandle ==
    /\ Call("setHandle", "setRunning")
    /\ vpnHandle' = Current
    /\ UNCHANGED <<nativeVars, acceptVars, isRunning, ringVars, screenVars>>

SetRunning ==
    /\ Call("setRunning", "stop")
    /\ isRunning' = TRUE
    /\ UNCHANGED <<nativeVars, acceptVars, vpnHandle, ringVars, screenVars>>

\* stopProxy, from here to ShutDownProxy.
StopProxy ==
    /\ Call("stop", "shutDown")
    /\ RemoveSlot(Current)
    /\ UNCHANGED <<acceptVars, stateVars, ringVars, screenVars>>

\* A shutdown that outlasts its limit (VpnApp has it) would do nothing here but keep the
\* ports a while longer, and StartProxy may find them taken in any case.
ShutDownProxy ==
    /\ Call("shutDown", "clearHandle")
    /\ ShutDown(Current, FALSE)
    /\ RuntimeGone
    /\ UNCHANGED <<stateVars, ringVars, screenVars>>

ClearHandle ==
    /\ Call("clearHandle", "clearRunning")
    /\ vpnHandle' = NoHandle
    /\ UNCHANGED <<nativeVars, acceptVars, isRunning, ringVars, screenVars>>

ClearRunning ==
    /\ Call("clearRunning", "start")
    /\ isRunning' = FALSE
    /\ UNCHANGED <<nativeVars, acceptVars, vpnHandle, ringVars, screenVars>>

Service ==
    \/ StartProxy \/ ProxyStarted \/ SetHandle \/ SetRunning
    \/ StopProxy \/ ShutDownProxy \/ ClearHandle \/ ClearRunning

-----------------------------------------------------------------------------

\* The run loop, its tasks and their clients.
LoopSeesStop == service = "shutDown" /\ StopSeen

Connections ==
    /\ ClientConnects \/ Accept \/ TaskEnds \/ LoopSeesStop
    /\ UNCHANGED <<nativeVars, stateVars, ringVars, screenVars, service>>

Screen ==
    /\ PollerStep(slots, conns)
    /\ UNCHANGED <<nativeVars, acceptVars, service>>

\* A line of whoever logs: the JNI calls, the run loop, any connection's task.
Logging ==
    /\ logged < MaxLines /\ Log
    /\ UNCHANGED <<nativeVars, acceptVars, stateVars, screenVars, service>>

Next == Service \/ Connections \/ Screen \/ Logging

\* The runtime polls the accept loop, and the main thread composes and runs
\* coroutines.  Nothing makes a client come or a task end; the service goes on when it
\* has begun to start or to stop.
Fairness ==
    /\ WF_vars(Connections /\ Accept)
    /\ WF_vars(Screen)
    /\ WF_vars(Service /\ service \notin {"start", "stop"})

Spec     == Init /\ [][Next]_vars
FairSpec == Spec /\ Fairness

-----------------------------------------------------------------------------

\* The screen shows log lines once and in the order in which they were written, with
\* gaps where the ring dropped lines or a cancelled poller lost them (android_jni.rs:82-85,
\* HomeScreen.kt:97-99).
LogsInOrder == \A i, j \in 1..Len(logs) : i < j => logs[i] < logs[j]

\* A connection is accepted or reset, however long others last (proxy_server.rs:73-88).
PendingServed == backlog > 0 ~> backlog = 0

\* The statistics of a stopped proxy leave the screen, whatever the poller was doing and
\* whichever of VpnState's values the screen never saw (HomeScreen.kt:80-84).
StoppedIsBlank == ~isRunning ~> stats = NoStats \/ isRunning

\* While a proxy runs on, the screen comes to show its count, and not an earlier one's
\* (HomeScreen.kt:85-96).
StatsArrive ==
    \A h \in Handles, n \in 0..MaxClients :
        (isRunning /\ vpnHandle = h /\ conns = n)
            ~> (stats = <<h, n>> \/ ~(isRunning /\ vpnHandle = h /\ conns = n))

=============================================================================
