------------------------------- MODULE VpnApp -------------------------------
(***************************************************************************)
(* The whole Android side: the user at HomeScreen's one button, the VPN    *)
(* consent dialog of MainActivity, the service of MmdfVpnService, the      *)
(* native handle table and Android itself.                                 *)
(*                                                                         *)
(* The user may tap whenever the main thread is free, also while earlier   *)
(* taps are still being worked off; a patient user waits for the app to    *)
(* come to rest first.  Taps, revocations and kills are the environment's  *)
(* and draw on one budget of MaxEvents.                                    *)
(***************************************************************************)
EXTENDS MmdfVpnService

CONSTANTS
    MaxEvents,   \* bound: taps, revocations and kills in a behaviour
    Patient      \* does the user wait for the app to come to rest?

ASSUME EventAssumption   == MaxEvents \in Nat
ASSUME PatientAssumption == Patient \in BOOLEAN

VARIABLES
    events,   \* events that happened
    consent   \* is the system's VPN consent dialog open?

vars == <<nativeVars, frameworkVars, fieldVars, threadVars, tunVars, stateVars,
          events, consent>>

TypeOK ==
    /\ NativeTypeOK
    /\ FrameworkTypeOK
    /\ ServiceTypeOK
    /\ events \in 0..MaxEvents
    /\ consent \in BOOLEAN

Init ==
    /\ NativeInit
    /\ FrameworkInit
    /\ ServiceInit
    /\ events = 0
    /\ consent = FALSE

-----------------------------------------------------------------------------

\* Every call the app or Android has to work off by itself has been worked off.
\* (An unrequested service whose TUN is up may stay: the system is bound to it.)
Quiescent ==
    /\ mailbox = <<>>
    /\ \A t \in Threads : pc[t] = "idle"
    /\ \A h \in Handles : /\ worker[h] \notin {"spawned", "quit"}
                          /\ worker[h] = "running" => vpn = h
    /\ ~consent
    /\ record = NoInstance \/ startRequested \/ vpn # NoHandle

Event ==
    /\ events < MaxEvents
    /\ events' = events + 1

\* A tap is handled between two messages of the main looper.
MayTap ==
    /\ Event
    /\ pc[Main] = "idle"
    /\ ~consent
    /\ Patient => Quiescent

\* VpnService.prepare(): the consent dialog, unless consent was given before.
TapConnect ==
    /\ MayTap
    /\ ~isRunning
    /\ \/ StartService("start") /\ UNCHANGED consent
       \/ consent' = TRUE /\ UNCHANGED frameworkVars
    /\ UNCHANGED <<nativeVars, fieldVars, threadVars, tunVars, stateVars>>

\* The dialog's answer: RESULT_OK starts the service, any other does nothing.
ConsentResult ==
    /\ consent
    /\ pc[Main] = "idle"
    /\ consent' = FALSE
    /\ StartService("start") \/ UNCHANGED frameworkVars
    /\ UNCHANGED <<nativeVars, fieldVars, threadVars, tunVars, stateVars, events>>

TapDisconnect ==
    /\ MayTap
    /\ isRunning
    /\ StartService("stop")
    /\ UNCHANGED <<nativeVars, fieldVars, threadVars, tunVars, stateVars, consent>>

\* External: another VPN app takes over.
Revoke ==
    /\ "revoke" \in Faults
    /\ vpn # NoHandle
    /\ Event
    /\ vpn' = NoHandle
    /\ PostRevoke
    /\ UNCHANGED <<nativeVars, fieldVars, threadVars, worker, stateVars, consent>>

\* External: Android kills the process.  All of its state is gone, the TUN with it;
\* an answer to the consent dialog may still reach the re-created activity.
ProcessKilled ==
    /\ "kill" \in Faults
    /\ Event
    /\ RestartOrForget
    /\ slots' = {}
    /\ nextHandle' = 1
    /\ proxy' = [h \in Handles |-> "none"]
    /\ proxyHandle' = [i \in Instances |-> NoHandle]
    /\ tunThread' = [i \in Instances |-> NoHandle]
    /\ tornDown' = [i \in Instances |-> FALSE]
    /\ pc' = [t \in Threads |-> "idle"]
    /\ on' = [t \in Threads |-> 1]
    /\ reg' = [t \in Threads |-> NoHandle]
    /\ worker' = [h \in Handles |-> "none"]
    /\ vpn' = NoHandle
    /\ isRunning' = FALSE
    /\ shownHandle' = NoHandle
    /\ consent' \in {FALSE, consent}

\* External: Android takes an unrequested service down.
DestroyService ==
    /\ BringDown
    /\ UNCHANGED <<nativeVars, fieldVars, threadVars, tunVars, stateVars>>

\* External: a runtime that stopProxy no longer waits for ends.
LateEnd(h) ==
    /\ RuntimeEnds(h)
    /\ UNCHANGED <<frameworkVars, fieldVars, threadVars, tunVars, stateVars>>

AppStep ==
    \/ StartStep
    \/ LooperStep
    \/ \E t \in Threads : StopProxyStep(t) \/ TeardownStep(t)
    \/ \E h \in Handles : WorkerStep(h) \/ LateEnd(h)
    \/ DestroyService

Next ==
    \/ AppStep /\ UNCHANGED <<events, consent>>
    \/ TapConnect
    \/ ConsentResult
    \/ TapDisconnect
    \/ Revoke
    \/ ProcessKilled

\* The scheduler runs every thread that can go on, the looper delivers, tun2proxy
\* starts and obeys stop(), and Android takes down a service it no longer has the
\* VPN of.  Nothing makes a user, a rival VPN app or a failure act.
Fairness ==
    /\ WF_vars((StartStep \/ LooperStep) /\ UNCHANGED <<events, consent>>)
    /\ \A t \in Threads :
          WF_vars((StopProxyStep(t) \/ TeardownStep(t)) /\ UNCHANGED <<events, consent>>)
    /\ \A h \in Handles :
          WF_vars((EnterRun(h) \/ QuitRun(h)) /\ UNCHANGED <<events, consent>>)
    /\ WF_vars(vpn = NoHandle /\ DestroyService /\ UNCHANGED <<events, consent>>)

Spec     == Init /\ [][Next]_vars
FairSpec == Spec /\ Fairness

-----------------------------------------------------------------------------
(* Safety, whatever the user, Android and the network do.                  *)

Inside(t, i) == on[t] = i /\ pc[t] \in Critical

\* What teardown's tornDown flag is for: at most one thread at a time is between
\* its compareAndSet and its set(false) on a service object, and the flag says
\* whether one is (MmdfVpnService.kt:134, 145).
TeardownExclusive ==
    /\ \A i \in Instances : tornDown[i] <=> \E t \in Threads : Inside(t, i)
    /\ \A i \in Instances : \A s, t \in Threads : Inside(s, i) /\ Inside(t, i) => s = t

\* A handle names one proxy for the life of the process: once its runtime was shut
\* down it is never recorded or alive again, so that a poller, a second stop or a
\* teardown that still holds the number reaches nothing (Native.kt:19,
\* HomeScreen.kt:88-91).
HandleNamesOneProxy ==
    [][\A h \in Handles :
          Stopped(h) =>
              \/ proxy'[h] \in {"leaving", "closed"} /\ h \notin slots'
              \/ ProcessKilled]_vars

\* Two threads never stop the same proxy: whoever takes the record out of the table
\* is alone in shutting its runtime down (android_jni.rs:202).
StopsOnce ==
    \A s, t \in Threads :
        /\ pc[s] \in Stopping /\ pc[t] \in Stopping
        /\ reg[s] = reg[t] /\ reg[s] # NoHandle
        => s = t

-----------------------------------------------------------------------------
(* At rest, with a user who waits.                                          *)

\* The screen tells the truth: "Running" means that the live service object's proxy
\* is the one whose statistics are shown, that its record is in the table and that
\* the TUN leads to its tun2proxy; "Stopped" means that nothing is left of any of
\* them (VpnState.kt:7, MmdfVpnService.kt:129-130, 143-144).
ScreenAgrees ==
    Quiescent =>
        \/ /\ isRunning
           /\ record # NoInstance
           /\ shownHandle # NoHandle
           /\ proxyHandle[record] = shownHandle
           /\ slots = {shownHandle}
           /\ Alive(shownHandle)
           /\ worker[shownHandle] = "running"
           /\ vpn = shownHandle
        \/ /\ ~isRunning
           /\ shownHandle = NoHandle
           /\ slots = {}
           /\ vpn = NoHandle
           /\ \A h \in Handles : ~Alive(h)

\* Somebody will yet look into the field of service object i: it is the one Android
\* has, or a stop or onDestroy of it is under way.
Attended(i) ==
    \/ record = i
    \/ \E n \in DOMAIN mailbox :
          mailbox[n].svc = i /\ mailbox[n].kind \in {"stop", "destroy"}
    \/ \E t \in Threads :
          /\ on[t] = i
          /\ pc[t] \in {"teardown", "stopTun", "readThread", "join", "checkProxy", "readProxy"}

\* No runtime is beyond reach.  stopProxy needs the number of one that is alive, and it
\* is where somebody will yet find it: in the field of such an object, or with the
\* thread that is starting or stopping the proxy (MmdfVpnService.kt:56, 140-141;
\* android_jni.rs:202).
Reachable(h) ==
    \/ \E i \in Instances : proxyHandle[i] = h /\ Attended(i)
    \/ \E t \in Threads :
          reg[t] = h /\ pc[t] \in {"record", "keepHandle"} \cup Removing \cup Stopping

NoLostRuntime == \A h \in Handles : Alive(h) => Reachable(h)

\* No proxy is started beside a live one: every earlier one was stopped before, by
\* whatever thread and on whatever service object it ran (MmdfVpnService.kt:55-60).
StartsOnlyProxy == pc[Main] = "boot" => \A h \in Handles : ~Alive(h)

-----------------------------------------------------------------------------
(* Progress.                                                                *)

\* onDestroy, which joins tun2proxy on the main thread, and startEverything always
\* hand the main thread back (MmdfVpnService.kt:136, 149).
MainThreadReturns == pc[Main] # "idle" ~> pc[Main] = "idle"

\* The tornDown flag is always given back, or no later Disconnect could do anything
\* (MmdfVpnService.kt:134-145).
TeardownReleases == \A i \in Instances : tornDown[i] ~> ~tornDown[i]

\* With a user who waits, a Disconnect takes the TUN down and the screen says so
\* (MmdfVpnService.kt:34-41, 133-146).
DisconnectTakesEffect ==
    (\E n \in DOMAIN mailbox : mailbox[n].kind = "stop") ~>
        vpn = NoHandle /\ ~isRunning

-----------------------------------------------------------------------------
(* What a comment of the code says, and an impatient user sees violated.    *)

\* VpnState.kt:7, "is the VPN/proxy up?": at rest, when the flag is not set, neither
\* the TUN nor a proxy is.
StoppedMeansDown == Quiescent /\ ~isRunning => vpn = NoHandle /\ slots = {}

=============================================================================
