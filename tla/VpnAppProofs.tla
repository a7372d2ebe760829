---------------------------- MODULE VpnAppProofs ----------------------------
(***************************************************************************)
(* The safety of the Android side for every number of taps, faults,        *)
(* handles, service objects and teardown threads.                          *)
(*                                                                         *)
(* First the types of all variables, one lemma for each thread's steps.    *)
(*                                                                         *)
(* HandleInv strengthens StopsOnce to an inductive invariant.  As far as   *)
(* it is concerned a step does one of six things to the handle table: it   *)
(* spawns a runtime, records it, takes a record out, shuts a runtime down, *)
(* sees one end late, or touches nothing; one lemma for each.              *)
(*                                                                         *)
(* TeardownExclusive is inductive together with the types: a step enters   *)
(* the critical section, leaves it, or moves nobody across its border.     *)
(*                                                                         *)
(* ScreenInv strengthens ScreenAgrees, NoLostRuntime and StartsOnlyProxy,  *)
(* for a user who waits; one lemma for the steps of each thread, and each  *)
(* step checked against its seven parts.                                   *)
(***************************************************************************)
EXTENDS VpnApp, TLAPS, SequenceTheorems

USE DEF NoHandle, NoInstance, Instances, Handles, Threads

\* What the proofs use of the constants.
LEMMA ConstantFacts ==
    /\ MaxInstances \in Nat /\ MaxInstances > 0
    /\ MaxHandles \in Nat /\ MaxHandles > 0
    /\ MaxEvents \in Nat
    /\ Main \notin Stoppers
  BY MaxInstancesAssumption, MaxHandlesAssumption, EventAssumption, ThreadAssumption
  DEF MaxInstancesAssumption, MaxHandlesAssumption, EventAssumption, ThreadAssumption

-----------------------------------------------------------------------------
(* Types.                                                                   *)

LEMMA InitTypeOK == Init => TypeOK
<1> SUFFICES ASSUME Init PROVE TypeOK
  OBVIOUS
<1>1. NativeTypeOK
  BY ConstantFacts DEF Init, NativeInit, NativeTypeOK, ProxyStates
<1>2. FrameworkTypeOK
  <2>1. startRequested \in BOOLEAN
    BY DEF Init, FrameworkInit
  <2>2. mailbox \in Seq(Messages)
    BY DEF Init, FrameworkInit
  <2>3. record = 0 /\ nextInstance = 1
    BY DEF Init, FrameworkInit
  <2> QED
    BY <2>1, <2>2, <2>3, ConstantFacts DEF FrameworkTypeOK
<1>3. ServiceTypeOK
  <2>1. tornDown \in [Instances -> BOOLEAN] /\ isRunning \in BOOLEAN
    BY DEF Init, ServiceInit
  <2>2. /\ proxyHandle \in [Instances -> Handles \cup {NoHandle}]
        /\ tunThread \in [Instances -> Handles \cup {NoHandle}]
        /\ vpn \in Handles \cup {NoHandle}
        /\ shownHandle \in Handles \cup {NoHandle}
    BY DEF Init, ServiceInit
  <2>3. worker \in [Handles -> WorkerStates]
    BY DEF Init, ServiceInit, WorkerStates
  <2>4. /\ pc \in [Threads -> {"idle"}]
        /\ on \in [Threads -> Instances]
        /\ reg \in [Threads -> Handles \cup {NoHandle}]
    BY ConstantFacts DEF Init, ServiceInit
  <2> QED
    BY <2>1, <2>2, <2>3, <2>4 DEF ServiceTypeOK
<1>4. events \in 0..MaxEvents
  BY ConstantFacts DEF Init
<1>5. consent \in BOOLEAN
  BY DEF Init
<1> QED
  BY <1>1, <1>2, <1>3, <1>4, <1>5 DEF TypeOK

LEMMA StartTypeOK ==
    ASSUME TypeOK, StartStep, UNCHANGED <<events, consent>>
    PROVE  TypeOK'
<1> USE ConstantFacts
    DEF TypeOK, NativeTypeOK, FrameworkTypeOK, ServiceTypeOK, ProxyStates, WorkerStates,
        StartSteps, TeardownSteps, Critical, nativeVars, frameworkVars, fieldVars,
        tunVars, stateVars, At, GoTo, Keep, Forget
<1>1. CASE CheckOldProxy
  BY <1>1 DEF CheckOldProxy
<1>2. CASE BootProxy
  <2>1. CASE /\ \E portsBusy \in BOOLEAN : SpawnRun(portsBusy)
             /\ Keep(Main, nextHandle)
             /\ GoTo(Main, "record")
    <3>1. nextHandle \in Handles /\ proxy' \in [Handles -> ProxyStates]
      BY <2>1 DEF SpawnRun
    <3> QED
      BY <1>2, <2>1, <3>1 DEF BootProxy, SpawnRun
  <2>2. CASE Keep(Main, NoHandle) /\ GoTo(Main, "keepHandle") /\ UNCHANGED nativeVars
    BY <1>2, <2>2 DEF BootProxy
  <2> QED
    BY <1>2, <2>1, <2>2 DEF BootProxy
<1>3. CASE RecordProxy
  <2>1. NativeTypeOK'
    BY <1>3 DEF RecordProxy, RecordHandle
  <2>2. pc' = [pc EXCEPT ![Main] = "keepHandle"]
    BY <1>3 DEF RecordProxy
  <2> QED
    BY <1>3, <2>1, <2>2 DEF RecordProxy
<1>4. CASE KeepHandle
  BY <1>4 DEF KeepHandle
<1>5. CASE CheckHandle
  <2>1. pc'[Main] \in {"stopSelf", "establish"}
    BY <1>5 DEF CheckHandle
  <2>2. pc'[Main] = "establish" => reg[Main] \in Handles
    BY <1>5 DEF CheckHandle
  <2> QED
    BY <1>5, <2>1, <2>2 DEF CheckHandle
<1>6. CASE EstablishTun
  BY SMTT(40), <1>6 DEF EstablishTun
<1>7. CASE SpawnWorker
  BY ZenonT(40), <1>7 DEF SpawnWorker
<1>8. CASE KeepThread
  BY <1>8 DEF KeepThread
<1>9. CASE ReadHandle
  BY <1>9 DEF ReadHandle
<1>10. CASE PublishHandle
  BY <1>10 DEF PublishHandle
<1>11. CASE PublishRunning
  BY <1>11 DEF PublishRunning
<1>12. CASE GiveUp
  BY <1>12 DEF GiveUp, StopSelf
<1> QED
  BY <1>1, <1>2, <1>3, <1>4, <1>5, <1>6, <1>7, <1>8, <1>9, <1>10, <1>11, <1>12
  DEF StartStep

LEMMA StopProxyTypeOK ==
    ASSUME TypeOK, NEW t \in Threads, StopProxyStep(t), UNCHANGED <<events, consent>>
    PROVE  TypeOK'
<1> USE ConstantFacts
    DEF TypeOK, NativeTypeOK, FrameworkTypeOK, ServiceTypeOK, ProxyStates, WorkerStates,
        StartSteps, TeardownSteps, Critical, nativeVars, frameworkVars, fieldVars,
        tunVars, stateVars, GoTo, Keep, Forget, InPlace
<1>1. /\ pc[t] \in Reading \cup Removing \cup Stopping \cup Forgetting
      /\ \E step : GoTo(t, step)
      /\ UNCHANGED <<frameworkVars, tunThread, tornDown, on, tunVars, stateVars>>
  BY DEF StopProxyStep, ReadArgument, RemoveRecord, ShutRuntime, ForgetHandle
<1>2. /\ pc'[t] \in {"removeOld", "removeFailed", "removeProxy", "shutOld", "shutFailed",
                     "shutProxy", "forgetOld", "forgetFailed", "forgetProxy",
                     "boot", "stopSelf", "clearHandle"}
      /\ t # Main => pc'[t] \in {"removeProxy", "shutProxy", "forgetProxy", "clearHandle"}
  BY DEF StopProxyStep, ReadArgument, RemoveRecord, ShutRuntime, ForgetHandle,
         Reading, Removing, Stopping, Forgetting
<1> HIDE DEF InPlace, GoTo, Keep, Forget
<1>3. /\ pc' \in [Threads -> StartSteps \cup TeardownSteps \cup {"idle"}]
      /\ \A s \in Threads \ {t} : pc'[s] = pc[s]
  BY <1>1, <1>2 DEF GoTo
<1>4. \A s \in Stoppers : pc'[s] \in TeardownSteps \cup {"idle"}
  <2> SUFFICES ASSUME NEW s \in Stoppers PROVE pc'[s] \in TeardownSteps \cup {"idle"}
    OBVIOUS
  <2>1. s # Main /\ s \in Threads
    OBVIOUS
  <2>2. CASE s = t
    BY <1>2, <2>1, <2>2
  <2>3. CASE s # t
    <3>1. pc'[s] = pc[s]
      BY <1>3, <2>1, <2>3
    <3> QED
      BY <3>1
  <2> QED
    BY <2>2, <2>3
<1>5. reg' \in [Threads -> Handles \cup {NoHandle}] /\ (t # Main => reg'[Main] = reg[Main])
  <2>1. Removed(reg[t]) \in Handles \cup {NoHandle}
    BY DEF Removed
  <2>2. CASE ReadArgument(t)
    BY <2>2 DEF ReadArgument, Keep
  <2>3. CASE RemoveRecord(t)
    BY <2>1, <2>3 DEF RemoveRecord, Keep
  <2>4. CASE ShutRuntime(t) \/ ForgetHandle(t)
    <3>1. reg' = reg
      BY <2>4 DEF ShutRuntime, ForgetHandle
    <3> QED
      BY <3>1
  <2> QED
    BY <2>2, <2>3, <2>4 DEF StopProxyStep
<1>6. NativeTypeOK'
  <2>1. CASE ReadArgument(t) \/ ForgetHandle(t)
    BY <2>1 DEF ReadArgument, ForgetHandle
  <2>2. CASE RemoveRecord(t)
    BY <2>2 DEF RemoveRecord, RemoveSlot
  <2>3. CASE ShutRuntime(t)
    BY <2>3 DEF ShutRuntime, ShutDown
  <2> QED
    BY <2>1, <2>2, <2>3 DEF StopProxyStep
<1>7. /\ proxyHandle' \in [Instances -> Handles \cup {NoHandle}]
      /\ \A i \in Instances : proxyHandle'[i] \in {proxyHandle[i], NoHandle}
  BY DEF StopProxyStep, ReadArgument, RemoveRecord, ShutRuntime, ForgetHandle, Forget
<1>8. /\ pc'[Main] \in {"record", "establish", "spawn", "keepThread"} =>
            reg'[Main] \in Handles
      /\ pc'[Main] = "checkHandle" /\ reg'[Main] = NoHandle =>
            proxyHandle'[on[Main]] = NoHandle
  <2>1. CASE t = Main
    BY <1>2, <2>1
  <2>2. CASE t # Main
    BY <1>3, <1>5, <1>7, <2>2
  <2> QED
    BY <2>1, <2>2
<1> QED
  BY <1>1, <1>3, <1>4, <1>5, <1>6, <1>7, <1>8

LEMMA TeardownTypeOK ==
    ASSUME TypeOK, NEW t \in Threads, TeardownStep(t), UNCHANGED <<events, consent>>
    PROVE  TypeOK'
<1> USE ConstantFacts
    DEF TypeOK, NativeTypeOK, FrameworkTypeOK, ServiceTypeOK, ProxyStates, WorkerStates,
        StartSteps, TeardownSteps, Critical, nativeVars, frameworkVars, fieldVars,
        tunVars, stateVars, At, GoTo, Keep, Forget
<1>1. CASE EnterTeardown(t)
  BY <1>1 DEF EnterTeardown
<1>2. CASE StopTun(t)
  BY <1>2 DEF StopTun
<1>3. CASE ReadTunThread(t)
  BY <1>3 DEF ReadTunThread
<1>4. CASE JoinWorker(t)
  BY <1>4 DEF JoinWorker
<1>5. CASE JoinTimesOut(t)
  BY <1>5 DEF JoinTimesOut
<1>6. CASE CheckProxy(t)
  BY <1>6 DEF CheckProxy
<1>7. CASE ClearHandle(t)
  BY <1>7 DEF ClearHandle
<1>8. CASE ClearRunning(t)
  BY <1>8 DEF ClearRunning
<1>9. CASE Rearm(t)
  BY <1>9 DEF Rearm
<1>10. CASE EndTeardown(t)
  BY ZenonT(60), <1>10 DEF EndTeardown, StopSelf
<1> QED
  BY <1>1, <1>2, <1>3, <1>4, <1>5, <1>6, <1>7, <1>8, <1>9, <1>10 DEF TeardownStep

LEMMA LooperTypeOK ==
    ASSUME TypeOK, LooperStep, UNCHANGED <<events, consent>>
    PROVE  TypeOK'
<1> USE ConstantFacts
    DEF TypeOK, NativeTypeOK, FrameworkTypeOK, ServiceTypeOK, ProxyStates, WorkerStates,
        StartSteps, TeardownSteps, Critical, nativeVars, frameworkVars, fieldVars,
        threadVars, tunVars, stateVars, At, Begin, Receive
<1>1. mailbox # <<>> => /\ Head(mailbox) \in Messages
                        /\ Tail(mailbox) \in Seq(Messages)
  OBVIOUS
<1>2. mailbox # <<>> => Head(mailbox).svc \in Instances
  BY <1>1 DEF Messages
<1>3. CASE OnStart
  BY <1>1, <1>2, <1>3 DEF OnStart
<1>4. CASE OnStop
  BY <1>1, <1>2, <1>4 DEF OnStop
<1>5. CASE OnDestroy
  BY <1>1, <1>2, <1>5 DEF OnDestroy
<1>6. CASE OnRevoke
  BY <1>1, <1>6 DEF OnRevoke
<1> QED
  BY <1>3, <1>4, <1>5, <1>6 DEF LooperStep

LEMMA WorkerTypeOK ==
    ASSUME TypeOK, NEW h \in Handles, WorkerStep(h), UNCHANGED <<events, consent>>
    PROVE  TypeOK'
<1> USE ConstantFacts
    DEF TypeOK, NativeTypeOK, FrameworkTypeOK, ServiceTypeOK, WorkerStates,
        nativeVars, frameworkVars, fieldVars, threadVars, stateVars, CloseTun
<1>1. CASE EnterRun(h)
  BY SMTT(40), <1>1 DEF EnterRun
<1>2. CASE QuitRun(h)
  BY <1>2 DEF QuitRun
<1>3. CASE LoseRun(h)
  BY <1>3 DEF LoseRun
<1> QED
  BY <1>1, <1>2, <1>3 DEF WorkerStep

\* Posting a message for an existing service object keeps the looper's queue typed.
LEMMA PostTyped ==
    ASSUME mailbox \in Seq(Messages), NEW k \in Kinds, NEW i \in Instances
    PROVE  Append(mailbox, [kind |-> k, svc |-> i]) \in Seq(Messages)
<1>1. [kind |-> k, svc |-> i] \in Messages
  BY DEF Messages
<1> QED
  BY <1>1

LEMMA StartServiceTypeOK ==
    ASSUME FrameworkTypeOK, NEW k \in Kinds, StartService(k)
    PROVE  FrameworkTypeOK'
<1> DEFINE svc == IF record = NoInstance THEN nextInstance ELSE record
<1>1. /\ svc \in Instances /\ record' = svc /\ startRequested' = TRUE
      /\ mailbox' = Append(mailbox, [kind |-> k, svc |-> svc])
      /\ nextInstance' = IF record = NoInstance THEN nextInstance + 1 ELSE nextInstance
  BY DEF StartService
<1>2. mailbox' \in Seq(Messages)
  BY <1>1, PostTyped DEF FrameworkTypeOK
<1>3. nextInstance' \in 1..(MaxInstances + 1)
  BY <1>1, ConstantFacts DEF FrameworkTypeOK
<1> QED
  BY <1>1, <1>2, <1>3 DEF FrameworkTypeOK

LEMMA NextTypeOK == TypeOK /\ [Next]_vars => TypeOK'
<1> SUFFICES ASSUME TypeOK, [Next]_vars PROVE TypeOK'
  OBVIOUS
<1> USE ConstantFacts
    DEF TypeOK, NativeTypeOK, ServiceTypeOK, nativeVars, fieldVars, threadVars, tunVars,
        stateVars
<1>1. CASE AppStep /\ UNCHANGED <<events, consent>>
  <2>1. CASE DestroyService
    <3>1. FrameworkTypeOK'
      BY <2>1, PostTyped DEF DestroyService, BringDown, FrameworkTypeOK, Kinds
    <3> QED
      BY <1>1, <2>1, <3>1 DEF DestroyService
  <2>2. ASSUME NEW h \in Handles, LateEnd(h) PROVE TypeOK'
    BY <1>1, <2>2 DEF LateEnd, RuntimeEnds, ProxyStates, FrameworkTypeOK, frameworkVars
  <2> QED
    BY <1>1, <2>1, <2>2, StartTypeOK, StopProxyTypeOK, TeardownTypeOK, LooperTypeOK,
       WorkerTypeOK
    DEF AppStep
<1>2. CASE TapConnect
  <2>1. FrameworkTypeOK'
    BY <1>2, StartServiceTypeOK DEF TapConnect, Kinds, FrameworkTypeOK, frameworkVars
  <2> QED
    <3>1. events' \in 0..MaxEvents
      BY <1>2 DEF TapConnect, MayTap, Event
    <3>2. consent' \in BOOLEAN
      BY <1>2 DEF TapConnect
    <3> QED
      BY <1>2, <2>1, <3>1, <3>2 DEF TapConnect
<1>3. CASE ConsentResult
  <2>1. FrameworkTypeOK'
    BY <1>3, StartServiceTypeOK DEF ConsentResult, Kinds, FrameworkTypeOK, frameworkVars
  <2> QED
    BY <1>3, <2>1 DEF ConsentResult
<1>4. CASE TapDisconnect
  <2>1. FrameworkTypeOK'
    BY <1>4, StartServiceTypeOK DEF TapDisconnect, Kinds
  <2> QED
    BY <1>4, <2>1 DEF TapDisconnect, MayTap, Event
<1>5. CASE Revoke
  <2>1. FrameworkTypeOK'
    BY <1>5, PostTyped DEF Revoke, PostRevoke, FrameworkTypeOK, Kinds
  <2> QED
    BY <1>5, <2>1 DEF Revoke, Event
<1>6. CASE ProcessKilled
  <2>1. FrameworkTypeOK'
    <3>1. <<[kind |-> "start", svc |-> 1]>> \in Seq(Messages)
      BY DEF Messages, Kinds
    <3>2. <<>> \in Seq(Messages)
      OBVIOUS
    <3>3. mailbox' \in Seq(Messages)
      BY <1>6, <3>1, <3>2 DEF ProcessKilled, RestartOrForget
    <3>4. startRequested' \in BOOLEAN
      BY <1>6 DEF ProcessKilled, RestartOrForget
    <3>5. /\ record' \in Instances \cup {NoInstance}
          /\ nextInstance' \in 1..(MaxInstances + 1)
      BY <1>6 DEF ProcessKilled, RestartOrForget
    <3> QED
      BY <3>3, <3>4, <3>5 DEF FrameworkTypeOK
  <2>2. NativeTypeOK'
    BY <1>6 DEF ProcessKilled, ProxyStates
  <2>3. ServiceTypeOK'
    <3>1. tornDown' \in [Instances -> BOOLEAN] /\ isRunning' \in BOOLEAN
      BY <1>6 DEF ProcessKilled
    <3>2. /\ proxyHandle' \in [Instances -> Handles \cup {NoHandle}]
          /\ tunThread' \in [Instances -> Handles \cup {NoHandle}]
          /\ vpn' \in Handles \cup {NoHandle}
          /\ shownHandle' \in Handles \cup {NoHandle}
      BY <1>6 DEF ProcessKilled
    <3>3. worker' \in [Handles -> WorkerStates]
      BY <1>6 DEF ProcessKilled, WorkerStates
    <3>4. /\ pc' \in [Threads -> {"idle"}]
          /\ on' \in [Threads -> Instances]
          /\ reg' \in [Threads -> Handles \cup {NoHandle}]
      BY <1>6 DEF ProcessKilled
    <3> QED
      BY <3>1, <3>2, <3>3, <3>4 DEF ServiceTypeOK
  <2>4. events' \in 0..MaxEvents
    BY <1>6 DEF ProcessKilled, Event
  <2>5. consent' \in BOOLEAN
    BY <1>6 DEF ProcessKilled
  <2> QED
    BY <2>1, <2>2, <2>3, <2>4, <2>5
<1>7. CASE UNCHANGED vars
  BY <1>7 DEF vars, FrameworkTypeOK, frameworkVars
<1> QED
  BY <1>1, <1>2, <1>3, <1>4, <1>5, <1>6, <1>7 DEF Next

\* The type invariant holds in every state of VpnApp.
THEOREM TypeCorrect == Spec => []TypeOK
  BY InitTypeOK, NextTypeOK, PTL DEF Spec

-----------------------------------------------------------------------------
(* The handle table.                                                        *)

\* The steps at which a thread's local holds a proxy that is in nobody else's hands.
Holding == Stopping \cup {"record"}

\* A runtime that is alive is in the table or in such hands.
OnRecord ==
    \A h \in Handles :
        Alive(h) => h \in slots \/ \E t \in Threads : reg[t] = h /\ pc[t] \in Holding

HandleInv ==
    /\ \A h \in slots : h < nextHandle /\ Alive(h)
    /\ \A h \in Handles : h > nextHandle => proxy[h] = "none"
    /\ pc[Main] = "record" => reg[Main] = nextHandle /\ Alive(nextHandle)
    /\ pc[Main] # "record" /\ nextHandle \in Handles => proxy[nextHandle] = "none"
    /\ \A t \in Threads : pc[t] \in Stopping /\ reg[t] # NoHandle =>
                              reg[t] < nextHandle /\ reg[t] \notin slots
    /\ StopsOnce
    /\ OnRecord

\* Thread t alone goes from `from` to `to`.
Moves(t, from, to) ==
    /\ pc[t] \in from /\ pc'[t] \in to
    /\ \A s \in Threads \ {t} : pc'[s] = pc[s] /\ reg'[s] = reg[s]

Elsewhere == (StartSteps \cup TeardownSteps \cup {"idle"}) \ Holding

\* What a step does to the handle table, and which thread goes on.
TakesOut == \E t \in Threads : \E h \in Handles \cup {NoHandle} :
               Moves(t, Elsewhere, Stopping) /\ RemoveSlot(h) /\ reg'[t] = Removed(h)
Shuts    == \E t \in Threads : \E overrun \in BOOLEAN :
               Moves(t, Stopping, Elsewhere) /\ ShutDown(reg[t], overrun)
Ends     == \E h \in Handles : RuntimeEnds(h) /\ UNCHANGED <<pc, reg>>
Spawns   == \E busy \in BOOLEAN :
               /\ Moves(Main, Elsewhere, {"record"})
               /\ SpawnRun(busy) /\ reg'[Main] = nextHandle
Records  == Moves(Main, {"record"}, Elsewhere) /\ RecordHandle
Idles    == /\ UNCHANGED nativeVars
            /\ \A t \in Threads : pc[t] \in Holding \/ pc'[t] \in Holding =>
                                      pc'[t] = pc[t] /\ reg'[t] = reg[t]

HandleEffect == TakesOut \/ Shuts \/ Ends \/ Spawns \/ Records \/ Idles

-----------------------------------------------------------------------------

LEMMA InitHandleInv == Init => HandleInv
  BY ConstantFacts
  DEF Init, NativeInit, ServiceInit, HandleInv, StopsOnce, OnRecord, Alive, Stopping

\* stopProxy, first half.
LEMMA RemoveKeeps ==
    ASSUME TypeOK, HandleInv, NEW t \in Threads, NEW h \in Handles \cup {NoHandle},
           Moves(t, Elsewhere, Stopping),
           RemoveSlot(h), reg'[t] = Removed(h)
    PROVE  HandleInv'
<1> USE DEF TypeOK, NativeTypeOK, ServiceTypeOK, RemoveSlot, Removed, Moves, Elsewhere,
            Holding, Stopping, Alive
<1>1. /\ slots' \subseteq slots
      /\ nextHandle' = nextHandle /\ proxy' = proxy
      /\ pc[Main] # "record" <=> pc'[Main] # "record"
      /\ pc'[Main] = "record" => reg'[Main] = reg[Main]
  OBVIOUS
<1>2. /\ \A g \in slots' : g < nextHandle' /\ Alive(g)'
      /\ \A g \in Handles : g > nextHandle' => proxy'[g] = "none"
      /\ pc'[Main] = "record" => reg'[Main] = nextHandle' /\ Alive(nextHandle)'
      /\ pc'[Main] # "record" /\ nextHandle' \in Handles => proxy'[nextHandle'] = "none"
  BY <1>1 DEF HandleInv
<1>3. reg'[t] # NoHandle => reg'[t] \in slots /\ reg'[t] = h
  OBVIOUS
<1>4. \A s \in Threads : pc'[s] \in Stopping /\ reg'[s] # NoHandle =>
                              reg'[s] < nextHandle' /\ reg'[s] \notin slots'
  BY <1>1, <1>3 DEF HandleInv
<1>5. StopsOnce'
  BY <1>3 DEF HandleInv, StopsOnce
<1>6. OnRecord'
  <2> SUFFICES ASSUME NEW g \in Handles, Alive(g)', g \notin slots'
               PROVE  \E s \in Threads : reg'[s] = g /\ pc'[s] \in Holding
    BY DEF OnRecord
  <2>1. CASE g \in slots
    BY <2>1
  <2>2. CASE g \notin slots
    <3>1. PICK s \in Threads : reg[s] = g /\ pc[s] \in Holding
      BY <1>1, <2>2 DEF HandleInv, OnRecord
    <3> QED
      BY <3>1
  <2> QED
    BY <2>1, <2>2
<1> QED
  BY <1>2, <1>4, <1>5, <1>6 DEF HandleInv

\* stopProxy, second half.
LEMMA ShutDownKeeps ==
    ASSUME TypeOK, HandleInv, NEW t \in Threads, NEW overrun \in BOOLEAN,
           Moves(t, Stopping, Elsewhere),
           ShutDown(reg[t], overrun)
    PROVE  HandleInv'
<1> USE DEF TypeOK, NativeTypeOK, ServiceTypeOK, ShutDown, Moves, Elsewhere,
            Holding, Stopping, Alive
<1>1. /\ slots' = slots /\ nextHandle' = nextHandle
      /\ pc[Main] # "record" <=> pc'[Main] # "record"
      /\ pc'[Main] = "record" => reg'[Main] = reg[Main]
      /\ \A g \in Handles : g # reg[t] => proxy'[g] = proxy[g]
      /\ reg[t] \in Handles => proxy'[reg[t]] \in {"leaving", "closed"}
  OBVIOUS
<1>2. reg[t] \notin slots /\ (reg[t] # NoHandle => reg[t] < nextHandle)
  BY DEF HandleInv
<1>3. /\ \A g \in slots' : g < nextHandle' /\ Alive(g)'
      /\ \A g \in Handles : g > nextHandle' => proxy'[g] = "none"
      /\ pc'[Main] = "record" => reg'[Main] = nextHandle' /\ Alive(nextHandle)'
      /\ pc'[Main] # "record" /\ nextHandle' \in Handles => proxy'[nextHandle'] = "none"
  BY <1>1, <1>2 DEF HandleInv
<1>4. \A s \in Threads : pc'[s] \in Stopping => s # t /\ pc'[s] = pc[s] /\ reg'[s] = reg[s]
  OBVIOUS
<1>5. \A s \in Threads : pc'[s] \in Stopping /\ reg'[s] # NoHandle =>
                              reg'[s] < nextHandle' /\ reg'[s] \notin slots'
  BY <1>1, <1>4 DEF HandleInv
<1>6. StopsOnce'
  BY <1>4 DEF HandleInv, StopsOnce
<1>7. OnRecord'
  BY <1>1, <1>4 DEF HandleInv, OnRecord
<1> QED
  BY <1>3, <1>5, <1>6, <1>7 DEF HandleInv

\* A runtime that stopProxy no longer waits for.
LEMMA EndKeeps ==
    ASSUME TypeOK, HandleInv, NEW h \in Handles, RuntimeEnds(h), UNCHANGED <<pc, reg>>
    PROVE  HandleInv'
<1> USE DEF TypeOK, NativeTypeOK, RuntimeEnds, Alive
<1>1. /\ slots' = slots /\ nextHandle' = nextHandle /\ proxy[h] = "leaving"
      /\ \A g \in Handles : proxy'[g] = IF g = h THEN "closed" ELSE proxy[g]
  OBVIOUS
<1>2. \A g \in Handles : Alive(g)' <=> Alive(g)
  BY <1>1
<1>3. \A g \in Handles : proxy'[g] = "none" <=> proxy[g] = "none"
  BY <1>1
<1>4. OnRecord' /\ StopsOnce'
  BY <1>2, <1>1 DEF HandleInv, OnRecord, StopsOnce
<1>5. \A g \in slots' : g < nextHandle' /\ Alive(g)'
  BY <1>1, <1>2 DEF HandleInv
<1>6. pc'[Main] = "record" => reg'[Main] = nextHandle' /\ Alive(nextHandle)'
  BY <1>1 DEF HandleInv
<1> QED
  BY <1>1, <1>3, <1>4, <1>5, <1>6 DEF HandleInv

\* startProxy, first half.
LEMMA SpawnKeeps ==
    ASSUME TypeOK, HandleInv, NEW busy \in BOOLEAN,
           Moves(Main, Elsewhere, {"record"}),
           SpawnRun(busy), reg'[Main] = nextHandle
    PROVE  HandleInv'
<1> USE DEF TypeOK, NativeTypeOK, ServiceTypeOK, Moves, Elsewhere, Holding, Stopping, Alive
<1>1. /\ slots' = slots /\ nextHandle' = nextHandle /\ nextHandle \in Handles
      /\ \A g \in Handles : g # nextHandle => proxy'[g] = proxy[g]
      /\ proxy'[nextHandle] \in {"listening", "deaf"}
  BY DEF SpawnRun
<1>2. /\ \A g \in slots' : g < nextHandle' /\ Alive(g)'
      /\ \A g \in Handles : g > nextHandle' => proxy'[g] = "none"
      /\ pc'[Main] = "record" => reg'[Main] = nextHandle' /\ Alive(nextHandle)'
      /\ pc'[Main] # "record" /\ nextHandle' \in Handles => proxy'[nextHandle'] = "none"
  <2>1. \A g \in slots' : g # nextHandle /\ g \in Handles
    BY <1>1, ConstantFacts DEF HandleInv
  <2>2. \A g \in slots' : g < nextHandle' /\ Alive(g)'
    BY <1>1, <2>1 DEF HandleInv
  <2>3. \A g \in Handles : g > nextHandle' => proxy'[g] = "none"
    BY <1>1, ConstantFacts DEF HandleInv
  <2>4. pc'[Main] = "record" /\ reg'[Main] = nextHandle' /\ Alive(nextHandle)'
    BY <1>1
  <2> QED
    BY <2>2, <2>3, <2>4
<1>3. \A s \in Threads : pc'[s] \in Stopping =>
                              s # Main /\ pc'[s] = pc[s] /\ reg'[s] = reg[s]
  OBVIOUS
<1>4. \A s \in Threads : pc'[s] \in Stopping /\ reg'[s] # NoHandle =>
                              reg'[s] < nextHandle' /\ reg'[s] \notin slots'
  BY <1>1, <1>3 DEF HandleInv
<1>5. StopsOnce'
  BY <1>3 DEF HandleInv, StopsOnce
<1>6. OnRecord'
  BY <1>1, <1>3 DEF HandleInv, OnRecord
<1> QED
  BY <1>2, <1>4, <1>5, <1>6 DEF HandleInv

\* startProxy, second half.
LEMMA RecordKeeps ==
    ASSUME TypeOK, HandleInv,
           Moves(Main, {"record"}, Elsewhere),
           RecordHandle
    PROVE  HandleInv'
<1> USE DEF TypeOK, NativeTypeOK, ServiceTypeOK, Moves, Elsewhere, Holding, Stopping, Alive
<1>1. /\ slots' = slots \cup {nextHandle} /\ nextHandle' = nextHandle + 1
      /\ nextHandle \in Handles /\ proxy' = proxy
      /\ reg[Main] = nextHandle /\ Alive(nextHandle)
  BY DEF RecordHandle, HandleInv
<1>2. /\ \A g \in slots' : g < nextHandle' /\ Alive(g)'
      /\ \A g \in Handles : g > nextHandle' => proxy'[g] = "none"
      /\ pc'[Main] # "record" /\ nextHandle' \in Handles => proxy'[nextHandle'] = "none"
      /\ pc'[Main] # "record"
  BY <1>1, ConstantFacts DEF HandleInv
<1>3. \A s \in Threads : pc'[s] \in Stopping =>
                              s # Main /\ pc'[s] = pc[s] /\ reg'[s] = reg[s]
  OBVIOUS
<1>4. \A s \in Threads : pc'[s] \in Stopping /\ reg'[s] # NoHandle =>
                              reg'[s] < nextHandle' /\ reg'[s] \notin slots'
  BY <1>1, <1>3 DEF HandleInv
<1>5. StopsOnce'
  BY <1>3 DEF HandleInv, StopsOnce
<1>6. OnRecord'
  <2> SUFFICES ASSUME NEW g \in Handles, Alive(g)', g \notin slots'
               PROVE  \E s \in Threads : reg'[s] = g /\ pc'[s] \in Holding
    BY DEF OnRecord
  <2>1. Alive(g) /\ g \notin slots /\ g # nextHandle
    BY <1>1
  <2>2. PICK s \in Threads : reg[s] = g /\ pc[s] \in Holding
    BY <2>1 DEF HandleInv, OnRecord
  <2>3. s # Main
    BY <1>1, <2>1, <2>2
  <2> QED
    BY <2>2, <2>3
<1> QED
  BY <1>2, <1>4, <1>5, <1>6 DEF HandleInv

\* Everything else.
LEMMA IdleKeeps ==
    ASSUME TypeOK, HandleInv, Idles
    PROVE  HandleInv'
  BY DEF Idles, HandleInv, StopsOnce, OnRecord, Alive, Holding, Stopping, nativeVars

LEMMA EffectKeepsHandleInv ==
    ASSUME TypeOK, HandleInv, HandleEffect
    PROVE  HandleInv'
<1>1. CASE TakesOut
  BY <1>1, RemoveKeeps DEF TakesOut
<1>2. CASE Shuts
  BY <1>2, ShutDownKeeps DEF Shuts
<1>3. CASE Ends
  BY <1>3, EndKeeps DEF Ends
<1>4. CASE Spawns
  BY <1>4, SpawnKeeps DEF Spawns
<1>5. CASE Records
  BY <1>5, RecordKeeps DEF Records
<1>6. CASE Idles
  BY <1>6, IdleKeeps
<1> QED
  BY <1>1, <1>2, <1>3, <1>4, <1>5, <1>6 DEF HandleEffect

-----------------------------------------------------------------------------
(* Every step of the app has one of the six effects.                        *)

LEMMA StartEffect == TypeOK /\ StartStep => HandleEffect
<1> SUFFICES ASSUME TypeOK, StartStep PROVE HandleEffect
  OBVIOUS
<1> USE DEF TypeOK, ServiceTypeOK, Moves, Elsewhere, Holding, Stopping, StartSteps,
            TeardownSteps, Critical, At, GoTo, Keep
<1>1. CASE CheckOldProxy
  BY <1>1 DEF CheckOldProxy, HandleEffect, Idles
<1>2. CASE BootProxy
  <2>1. CASE Keep(Main, NoHandle) /\ GoTo(Main, "keepHandle") /\ UNCHANGED nativeVars
    BY <1>2, <2>1 DEF BootProxy, HandleEffect, Idles
  <2>2. CASE /\ \E busy \in BOOLEAN : SpawnRun(busy)
             /\ Keep(Main, nextHandle)
             /\ GoTo(Main, "record")
    BY <1>2, <2>2 DEF BootProxy, HandleEffect, Spawns
  <2> QED
    BY <1>2, <2>1, <2>2 DEF BootProxy
<1>3. CASE RecordProxy
  BY <1>3 DEF RecordProxy, HandleEffect, Records
<1>4. CASE KeepHandle
  BY <1>4 DEF KeepHandle, HandleEffect, Idles
<1>5. CASE CheckHandle
  BY <1>5 DEF CheckHandle, HandleEffect, Idles
<1>6. CASE EstablishTun
  BY <1>6 DEF EstablishTun, HandleEffect, Idles
<1>7. CASE SpawnWorker
  BY <1>7 DEF SpawnWorker, HandleEffect, Idles
<1>8. CASE KeepThread
  BY <1>8 DEF KeepThread, HandleEffect, Idles
<1>9. CASE ReadHandle
  BY <1>9 DEF ReadHandle, HandleEffect, Idles
<1>10. CASE PublishHandle
  BY <1>10 DEF PublishHandle, HandleEffect, Idles
<1>11. CASE PublishRunning
  BY <1>11 DEF PublishRunning, HandleEffect, Idles
<1>12. CASE GiveUp
  BY <1>12 DEF GiveUp, HandleEffect, Idles
<1> QED
  BY <1>1, <1>2, <1>3, <1>4, <1>5, <1>6, <1>7, <1>8, <1>9, <1>10, <1>11, <1>12
  DEF StartStep

LEMMA StopProxyEffect ==
    ASSUME TypeOK, NEW t \in Threads, StopProxyStep(t)
    PROVE  HandleEffect
<1> USE DEF TypeOK, ServiceTypeOK, Moves, Elsewhere, Holding, Stopping, StartSteps,
            TeardownSteps, Critical, GoTo, InPlace, Keep
<1>1. CASE ReadArgument(t)
  BY <1>1 DEF ReadArgument, Reading, HandleEffect, Idles
<1>2. CASE RemoveRecord(t)
  <2>1. TakesOut
    BY <1>2 DEF RemoveRecord, Removing, TakesOut
  <2> QED
    BY <2>1 DEF HandleEffect
<1>3. CASE ShutRuntime(t)
  <2>1. Shuts
    BY <1>3 DEF ShutRuntime, Shuts
  <2> QED
    BY <2>1 DEF HandleEffect
<1>4. CASE ForgetHandle(t)
  BY <1>4 DEF ForgetHandle, Forgetting, HandleEffect, Idles
<1> QED
  BY <1>1, <1>2, <1>3, <1>4 DEF StopProxyStep

LEMMA TeardownEffect ==
    ASSUME TypeOK, NEW t \in Threads, TeardownStep(t)
    PROVE  HandleEffect
<1> USE DEF TypeOK, ServiceTypeOK, Moves, Elsewhere, Holding, Stopping, StartSteps,
            TeardownSteps, Critical, At, GoTo, Keep
<1>1. CASE EnterTeardown(t)
  BY <1>1 DEF EnterTeardown, HandleEffect, Idles
<1>2. CASE StopTun(t)
  BY <1>2 DEF StopTun, HandleEffect, Idles
<1>3. CASE ReadTunThread(t)
  BY <1>3 DEF ReadTunThread, HandleEffect, Idles
<1>4. CASE JoinWorker(t)
  BY <1>4 DEF JoinWorker, HandleEffect, Idles
<1>5. CASE JoinTimesOut(t)
  BY <1>5 DEF JoinTimesOut, HandleEffect, Idles
<1>6. CASE CheckProxy(t)
  BY <1>6 DEF CheckProxy, HandleEffect, Idles
<1>7. CASE ClearHandle(t)
  BY <1>7 DEF ClearHandle, HandleEffect, Idles
<1>8. CASE ClearRunning(t)
  BY <1>8 DEF ClearRunning, HandleEffect, Idles
<1>9. CASE Rearm(t)
  BY <1>9 DEF Rearm, HandleEffect, Idles
<1>10. CASE EndTeardown(t)
  BY <1>10 DEF EndTeardown, HandleEffect, Idles
<1> QED
  BY <1>1, <1>2, <1>3, <1>4, <1>5, <1>6, <1>7, <1>8, <1>9, <1>10 DEF TeardownStep

LEMMA LooperEffect == TypeOK /\ LooperStep => HandleEffect
<1> SUFFICES ASSUME TypeOK, LooperStep PROVE Idles
  BY DEF HandleEffect
<1> USE DEF TypeOK, ServiceTypeOK, Holding, Stopping, At, Begin, threadVars, Idles
<1>1. CASE OnStart
  BY <1>1 DEF OnStart
<1>2. CASE OnStop
  BY <1>2 DEF OnStop
<1>3. CASE OnDestroy
  BY <1>3 DEF OnDestroy
<1>4. CASE OnRevoke
  BY <1>4 DEF OnRevoke
<1> QED
  BY <1>1, <1>2, <1>3, <1>4 DEF LooperStep

LEMMA StepEffect == TypeOK /\ [Next]_vars => HandleEffect \/ ProcessKilled
<1> SUFFICES ASSUME TypeOK, [Next]_vars, ~ProcessKilled PROVE HandleEffect
  OBVIOUS
<1>1. CASE AppStep
  <2>1. CASE \E h \in Handles : WorkerStep(h)
    BY <2>1 DEF WorkerStep, EnterRun, QuitRun, LoseRun, HandleEffect, Idles, threadVars
  <2>2. CASE DestroyService
    BY <2>2 DEF DestroyService, HandleEffect, Idles, threadVars
  <2>3. CASE \E h \in Handles : LateEnd(h)
    BY <2>3 DEF LateEnd, HandleEffect, Ends, threadVars
  <2> QED
    BY <1>1, <2>1, <2>2, <2>3, StartEffect, StopProxyEffect, TeardownEffect, LooperEffect
    DEF AppStep
<1>2. CASE TapConnect \/ ConsentResult \/ TapDisconnect \/ Revoke \/ UNCHANGED vars
  BY <1>2 DEF TapConnect, ConsentResult, TapDisconnect, Revoke, vars, HandleEffect, Idles,
              threadVars
<1> QED
  BY <1>1, <1>2 DEF Next

LEMMA KillKeeps == ProcessKilled => HandleInv'
  BY ConstantFacts DEF ProcessKilled, HandleInv, StopsOnce, OnRecord, Alive, Stopping

LEMMA NextHandleInv == TypeOK /\ HandleInv /\ [Next]_vars => HandleInv'
  BY StepEffect, EffectKeepsHandleInv, KillKeeps

-----------------------------------------------------------------------------

LEMMA HandleInvariant == Spec => [](TypeOK /\ HandleInv)
<1>1. Init => TypeOK /\ HandleInv
  BY InitTypeOK, InitHandleInv
<1>2. TypeOK /\ HandleInv /\ [Next]_vars => (TypeOK /\ HandleInv)'
  BY NextTypeOK, NextHandleInv
<1> QED
  BY <1>1, <1>2, PTL DEF Spec

\* Two threads never shut the same runtime down (android_jni.rs:202).
THEOREM ProxyStopsOnce == Spec => []StopsOnce
<1>1. HandleInv => StopsOnce
  BY DEF HandleInv
<1> QED
  BY <1>1, HandleInvariant, PTL

\* A handle whose runtime was shut down never comes to life or into the table again,
\* as long as the process lives (android_jni.rs:179-189, Native.kt:19).
THEOREM HandlesNeverReused == Spec => HandleNamesOneProxy
<1> DEFINE StaysStopped ==
      \A h \in Handles : Stopped(h) =>
          \/ proxy'[h] \in {"leaving", "closed"} /\ h \notin slots'
          \/ ProcessKilled
<1>1. ASSUME TypeOK, HandleInv, HandleEffect, NEW h \in Handles, Stopped(h)
      PROVE  proxy'[h] \in {"leaving", "closed"} /\ h \notin slots'
  <2> USE DEF HandleInv, Alive, Stopped, TypeOK, NativeTypeOK
  <2>1. h \notin slots
    BY <1>1
  <2>2. CASE TakesOut
    BY <1>1, <2>1, <2>2 DEF TakesOut, RemoveSlot
  <2>3. CASE Shuts
    BY <1>1, <2>1, <2>3 DEF Shuts, ShutDown
  <2>7. CASE Ends
    BY <1>1, <2>1, <2>7 DEF Ends, RuntimeEnds
  <2>4. CASE Spawns
    <3>1. nextHandle \in Handles /\ pc[Main] # "record"
      BY <2>4 DEF Spawns, SpawnRun, Moves, Elsewhere, Holding
    <3>2. h # nextHandle
      BY <1>1, <3>1
    <3> QED
      BY <1>1, <2>1, <2>4, <3>2 DEF Spawns, SpawnRun
  <2>5. CASE Records
    <3>1. h # nextHandle
      BY <1>1, <2>5 DEF Records, Moves
    <3> QED
      BY <1>1, <2>1, <2>5, <3>1 DEF Records, RecordHandle
  <2>6. CASE Idles
    BY <1>1, <2>1, <2>6 DEF Idles, nativeVars
  <2> QED
    BY <1>1, <2>2, <2>3, <2>4, <2>5, <2>6, <2>7 DEF HandleEffect
<1>2. TypeOK /\ HandleInv /\ [Next]_vars => StaysStopped
  BY <1>1, StepEffect
<1>3. Spec => [][StaysStopped]_vars
  BY <1>2, HandleInvariant, PTL DEF Spec
<1> QED
  BY <1>3 DEF HandleNamesOneProxy

-----------------------------------------------------------------------------
(* teardown runs at most once at a time on a service object, however many   *)
(* threads call it.                                                         *)

\* Thread t alone goes on, on the object it was on.
Advances(t) ==
    /\ on' = on
    /\ \A s \in Threads \ {t} : pc'[s] = pc[s]

Enters == \E t \in Threads :
    /\ Advances(t)
    /\ pc[t] \notin Critical /\ pc'[t] \in Critical
    /\ ~tornDown[on[t]]
    /\ tornDown' = [tornDown EXCEPT ![on[t]] = TRUE]

Leaves == \E t \in Threads :
    /\ Advances(t)
    /\ pc[t] \in Critical /\ pc'[t] \notin Critical
    /\ tornDown' = [tornDown EXCEPT ![on[t]] = FALSE]

Stays ==
    /\ UNCHANGED tornDown
    /\ \A t \in Threads : pc[t] \in Critical \/ pc'[t] \in Critical =>
                              pc[t] \in Critical /\ pc'[t] \in Critical /\ on'[t] = on[t]

LEMMA InitExclusive == Init => TeardownExclusive
  BY ConstantFacts DEF Init, ServiceInit, TeardownExclusive, Inside, Critical

LEMMA EntersKeeps ==
    ASSUME TypeOK, TeardownExclusive, Enters
    PROVE  TeardownExclusive'
<1> USE DEF TypeOK, ServiceTypeOK, Inside
<1>1. PICK t \in Threads : /\ Advances(t)
                           /\ pc[t] \notin Critical /\ pc'[t] \in Critical
                           /\ ~tornDown[on[t]]
                           /\ tornDown' = [tornDown EXCEPT ![on[t]] = TRUE]
  BY DEF Enters
<1>2. \A s \in Threads \ {t} : ~(on[s] = on[t] /\ pc[s] \in Critical)
  BY <1>1 DEF TeardownExclusive
<1>3. \A s \in Threads, i \in Instances :
          Inside(s, i)' <=> Inside(s, i) \/ (s = t /\ i = on[t])
  BY <1>1 DEF Advances
<1>4. \A i \in Instances : tornDown'[i] <=> tornDown[i] \/ i = on[t]
  BY <1>1
<1>5. \A i \in Instances : tornDown'[i] <=> \E s \in Threads : Inside(s, i)'
  BY <1>3, <1>4 DEF TeardownExclusive
<1>6. \A i \in Instances : \A r, s \in Threads : Inside(r, i)' /\ Inside(s, i)' => r = s
  BY <1>2, <1>3 DEF TeardownExclusive
<1> QED
  BY <1>5, <1>6 DEF TeardownExclusive

LEMMA LeavesKeeps ==
    ASSUME TypeOK, TeardownExclusive, Leaves
    PROVE  TeardownExclusive'
<1> USE DEF TypeOK, ServiceTypeOK, Inside
<1>1. PICK t \in Threads : /\ Advances(t)
                           /\ pc[t] \in Critical /\ pc'[t] \notin Critical
                           /\ tornDown' = [tornDown EXCEPT ![on[t]] = FALSE]
  BY DEF Leaves
<1>2. \A s \in Threads \ {t} : ~(on[s] = on[t] /\ pc[s] \in Critical)
  BY <1>1 DEF TeardownExclusive
<1>3. \A s \in Threads, i \in Instances : Inside(s, i)' <=> Inside(s, i) /\ s # t
  BY <1>1 DEF Advances
<1>4. \A i \in Instances : tornDown'[i] <=> tornDown[i] /\ i # on[t]
  BY <1>1
<1>5. \A i \in Instances : tornDown'[i] <=> \E s \in Threads : Inside(s, i)'
  BY <1>1, <1>2, <1>3, <1>4 DEF TeardownExclusive
<1>6. \A i \in Instances : \A r, s \in Threads : Inside(r, i)' /\ Inside(s, i)' => r = s
  BY <1>3 DEF TeardownExclusive
<1> QED
  BY <1>5, <1>6 DEF TeardownExclusive

LEMMA StaysKeeps ==
    ASSUME TypeOK, TeardownExclusive, Stays
    PROVE  TeardownExclusive'
<1>1. \A s \in Threads, i \in Instances : Inside(s, i)' <=> Inside(s, i)
  BY DEF Stays, Inside
<1> QED
  BY <1>1 DEF TeardownExclusive, Stays

-----------------------------------------------------------------------------
(* Every step is one of the three.                                          *)

LEMMA StartStays == TypeOK /\ StartStep => Stays
  BY DEF TypeOK, ServiceTypeOK, StartStep, CheckOldProxy, BootProxy, RecordProxy,
         KeepHandle, CheckHandle, EstablishTun, SpawnWorker, KeepThread, ReadHandle,
         PublishHandle, PublishRunning, GiveUp, fieldVars, At, GoTo, Stays, Critical,
         StartSteps

LEMMA StopProxyStays ==
    ASSUME TypeOK, NEW t \in Threads, StopProxyStep(t)
    PROVE  Stays
  BY DEF TypeOK, ServiceTypeOK, StopProxyStep, ReadArgument, Reading, RemoveRecord, Removing,
         ShutRuntime, Stopping, ForgetHandle, Forgetting, InPlace, fieldVars, GoTo, Stays,
         Critical

LEMMA TeardownCrosses ==
    ASSUME TypeOK, NEW t \in Threads, TeardownStep(t)
    PROVE  Enters \/ Leaves \/ Stays
<1> USE DEF TypeOK, ServiceTypeOK, fieldVars, At, GoTo, Critical
<1>1. CASE EnterTeardown(t)
  <2>1. CASE tornDown[on[t]]
    BY <1>1, <2>1 DEF EnterTeardown, Stays
  <2>2. CASE ~tornDown[on[t]]
    BY <1>1, <2>2 DEF EnterTeardown, Enters, Advances
  <2> QED
    BY <2>1, <2>2
<1>2. CASE Rearm(t)
  BY <1>2 DEF Rearm, Leaves, Advances
<1>3. CASE \/ StopTun(t) \/ ReadTunThread(t) \/ JoinWorker(t) \/ JoinTimesOut(t)
           \/ CheckProxy(t) \/ ClearHandle(t) \/ ClearRunning(t) \/ EndTeardown(t)
  BY <1>3 DEF StopTun, ReadTunThread, JoinWorker, JoinTimesOut, CheckProxy, ClearHandle,
              ClearRunning, EndTeardown, Stays
<1> QED
  BY <1>1, <1>2, <1>3 DEF TeardownStep

LEMMA LooperStays == TypeOK /\ LooperStep => Stays
  BY ZenonT(60) DEF TypeOK, ServiceTypeOK, LooperStep, OnStart, OnStop, OnDestroy, OnRevoke, Begin,
         fieldVars, threadVars, At, Stays, Critical

LEMMA NextExclusive == TypeOK /\ TeardownExclusive /\ [Next]_vars => TeardownExclusive'
<1> SUFFICES ASSUME TypeOK, TeardownExclusive, [Next]_vars PROVE TeardownExclusive'
  OBVIOUS
<1>1. CASE AppStep
  <2>1. CASE \E h \in Handles : WorkerStep(h)
    BY <2>1, StaysKeeps
    DEF WorkerStep, EnterRun, QuitRun, LoseRun, fieldVars, threadVars, Stays
  <2>2. CASE DestroyService
    BY <2>2, StaysKeeps DEF DestroyService, fieldVars, threadVars, Stays
  <2>3. CASE \E h \in Handles : LateEnd(h)
    BY <2>3, StaysKeeps DEF LateEnd, fieldVars, threadVars, Stays
  <2> QED
    BY <1>1, <2>1, <2>2, <2>3, StartStays, StopProxyStays, TeardownCrosses, LooperStays,
       EntersKeeps, LeavesKeeps, StaysKeeps
    DEF AppStep
<1>2. CASE TapConnect \/ ConsentResult \/ TapDisconnect \/ Revoke \/ UNCHANGED vars
  BY <1>2, StaysKeeps DEF TapConnect, ConsentResult, TapDisconnect, Revoke, vars,
                          fieldVars, threadVars, Stays
<1>3. CASE ProcessKilled
  BY <1>3 DEF ProcessKilled, TeardownExclusive, Inside, Critical
<1> QED
  BY <1>1, <1>2, <1>3 DEF Next

\* At most one thread at a time is inside teardown on a service object, and tornDown
\* says whether one is (MmdfVpnService.kt:134, 145).
THEOREM TeardownIsExclusive == Spec => []TeardownExclusive
<1>1. Init => TypeOK /\ TeardownExclusive
  BY InitTypeOK, InitExclusive
<1>2. TypeOK /\ TeardownExclusive /\ [Next]_vars => (TypeOK /\ TeardownExclusive)'
  BY NextTypeOK, NextExclusive
<1> QED
  BY <1>1, <1>2, PTL DEF Spec

-----------------------------------------------------------------------------
(* What the screen says at rest, to a user who waits.                       *)
(*                                                                          *)
(* ScreenAgrees speaks of states at rest; ScreenInv says of the states on   *)
(* the way there what each thread has done and what it still owes.  All     *)
(* that is under way concerns the service object Android created last.      *)

\* That object, its proxy and its tun2proxy.
Cur  == nextInstance - 1
Held == IF Cur \in Instances THEN proxyHandle[Cur] ELSE NoHandle
Tun  == IF Cur \in Instances THEN tunThread[Cur] ELSE NoHandle

Posted(box, kind) == \E n \in DOMAIN box : box[n].kind = kind
OnlyAbout(box, i) == \A n \in DOMAIN box : box[n].svc = i
Lives(h)          == worker[h] \in {"spawned", "running", "quit"}
Resting           == \A t \in Stoppers : pc[t] = "idle"

\* A start is asked for, or has come no further than startProxy.
Beginning == consent \/ Posted(mailbox, "start") \/ pc[Main] \in {"start", "boot", "record"}

\* A teardown is posted or about to begin.
Due == \/ Posted(mailbox, "stop") \/ Posted(mailbox, "destroy")
       \/ \E t \in Threads : pc[t] = "teardown"

\* The two states the system comes to rest in.
Off == slots = {} /\ vpn = NoHandle /\ ~isRunning /\ shownHandle = NoHandle /\ Held = NoHandle
Up  == /\ isRunning /\ record = Cur
       /\ Held # NoHandle /\ shownHandle = Held /\ slots = {Held} /\ Tun = Held
       /\ vpn # NoHandle \/ ~startRequested \/ Posted(mailbox, "revoke")

\* Messages and threads are about the object created last, which is the live one.
OneObject ==
    /\ record \in {NoInstance, Cur}
    /\ OnlyAbout(mailbox, Cur)
    /\ \A t \in Threads : pc[t] # "idle" => on[t] = Cur
    /\ \A i \in Instances : i > Cur => proxyHandle[i] = NoHandle /\ tunThread[i] = NoHandle
    /\ startRequested => record # NoInstance

\* There is one proxy, and the one tun2proxy that lives is that object's, or will be
\* when the start has stored it.
OneTunnel ==
    /\ pc[Main] # "keepHandle" => slots \subseteq {Held}
    /\ \A h \in Handles : Lives(h) => h = Tun \/ (pc[Main] = "keepThread" /\ h = reg[Main])
    /\ vpn # NoHandle => Lives(vpn) \/ (pc[Main] = "spawn" /\ vpn = reg[Main])
    /\ Posted(mailbox, "revoke") => vpn = NoHandle

\* A start begins with nothing left of what was before.
BeginsOff ==
    Beginning =>
        /\ Off /\ Resting /\ \A h \in Handles : ~Lives(h)
        /\ consent => pc[Main] = "idle" /\ mailbox = <<>> /\ record = NoInstance
        /\ ~consent => startRequested
        /\ Posted(mailbox, "start") => Len(mailbox) = 1 /\ pc[Main] = "idle"
        /\ pc[Main] # "idle" => mailbox = <<>>

Failing    == {"readFailed", "removeFailed", "shutFailed", "forgetFailed", "stopSelf"}
Publishing == {"readHandle", "publishHandle", "publishRunning"}

\* No teardown runs beside a start; what the start has built so far.
StartsAlone ==
    /\ pc[Main] \notin {"readOld", "removeOld", "shutOld", "forgetOld"}
    /\ pc[Main] \in StartSteps => startRequested /\ Resting /\ ~Due /\ ~isRunning
    /\ pc[Main] \in {"keepHandle", "checkHandle", "establish", "spawn"} \cup Failing =>
          shownHandle = NoHandle /\ \A h \in Handles : ~Lives(h)
    /\ pc[Main] \in {"keepHandle", "checkHandle", "establish"} => mailbox = <<>>
    /\ pc[Main] \in {"keepHandle", "checkHandle", "establish"} \cup Failing =>
          vpn = NoHandle
    /\ pc[Main] = "keepHandle" => Held = NoHandle /\ slots = {reg[Main]} \ {NoHandle}
    /\ pc[Main] = "checkHandle" => reg[Main] = Held /\ slots = {Held} \ {NoHandle}
    /\ pc[Main] \in {"establish", "spawn", "keepThread"} =>
          Held # NoHandle /\ reg[Main] = Held /\ slots = {Held}
    /\ pc[Main] = "removeFailed" => reg[Main] = Held
    /\ pc[Main] \in {"shutFailed", "forgetFailed", "stopSelf"} => slots = {}
    /\ pc[Main] = "stopSelf" => Held = NoHandle
    /\ pc[Main] = "keepThread" => \A h \in Handles : Lives(h) => h = reg[Main]
    /\ pc[Main] \in Publishing => Held # NoHandle /\ slots = {Held} /\ Tun = Held
    /\ pc[Main] = "publishHandle" => reg[Main] = Held
    /\ pc[Main] = "publishRunning" => shownHandle = Held
    /\ pc[Main] \in {"spawn", "keepThread"} \cup Publishing =>
          vpn # NoHandle \/ Posted(mailbox, "revoke")

\* Who wants the service, and that a teardown never meets a tun2proxy that has the
\* TUN and has not come to its run(): stop() would not reach that one.
Wanted ==
    /\ startRequested => \/ Posted(mailbox, "start") \/ pc[Main] \in StartSteps
                         \/ Posted(mailbox, "stop") \/ ~Resting \/ isRunning
    /\ Posted(mailbox, "destroy") \/ pc[Main] \in TeardownSteps => record = NoInstance
    /\ vpn # NoHandle /\ pc[Main] # "spawn" /\ worker[vpn] = "spawned" =>
          startRequested /\ Resting /\ ~Due

\* What a teardown has taken down by each of its steps.
TakenDown ==
    /\ \A h \in Handles : worker[h] = "quit" =>
           \E t \in Threads : pc[t] \in {"readThread", "join"}
    /\ \A t \in Threads :
          /\ pc[t] \in {"readThread", "join"} /\ vpn # NoHandle => worker[vpn] = "quit"
          /\ pc[t] = "join" => reg[t] = Tun
          /\ pc[t] \in Critical \ {"stopTun", "readThread", "join"} => vpn = NoHandle
          /\ pc[t] = "removeProxy" => reg[t] = Held
          /\ pc[t] \in {"shutProxy", "forgetProxy"} => slots = {}
          /\ pc[t] \in {"clearHandle", "clearRunning", "rearm"} => Held = NoHandle
          /\ pc[t] \in {"clearRunning", "rearm"} => shownHandle = NoHandle
          /\ pc[t] = "rearm" => ~isRunning

\* Whoever is neither starting nor stopping has nothing, or all of it.
Settled ==
    pc[Main] \notin StartSteps =>
        Off \/ Up \/ Due \/ \E t \in Threads : pc[t] \in Critical

ScreenInv ==
    OneObject /\ OneTunnel /\ BeginsOff /\ StartsAlone /\ Wanted /\ TakenDown /\ Settled

\* What is proved above.
Known == TypeOK /\ HandleInv /\ TeardownExclusive

-----------------------------------------------------------------------------

\* The looper's queue: what is in it after a message is appended or received.
LEMMA NothingPosted == \A k, i : ~Posted(<<>>, k) /\ OnlyAbout(<<>>, i)
  BY DEF Posted, OnlyAbout

LEMMA OnePosted ==
    ASSUME NEW box \in Seq(Messages), NEW m \in Messages
    PROVE  /\ \A k : Posted(Append(box, m), k) <=> Posted(box, k) \/ m.kind = k
           /\ \A i : OnlyAbout(Append(box, m), i) <=> OnlyAbout(box, i) /\ m.svc = i
           /\ box = <<>> => Len(Append(box, m)) = 1
           /\ Append(box, m) # <<>>
<1> DEFINE longer == Append(box, m)
<1>1. /\ longer \in Seq(Messages) /\ Len(longer) = Len(box) + 1
      /\ \A n \in 1..Len(box) : longer[n] = box[n]
      /\ longer[Len(box) + 1] = m
  BY AppendProperties
<1>2. /\ Len(box) \in Nat /\ DOMAIN box = 1..Len(box)
      /\ DOMAIN longer = 1..Len(box) + 1
  BY <1>1, LenProperties
<1>3. box = <<>> => Len(box) = 0
  BY EmptySeq
<1> HIDE DEF longer
<1>4. \A k : Posted(longer, k) <=> Posted(box, k) \/ m.kind = k
  BY <1>1, <1>2 DEF Posted
<1>5. \A i : OnlyAbout(longer, i) <=> OnlyAbout(box, i) /\ m.svc = i
  BY <1>1, <1>2 DEF OnlyAbout
<1>6. longer # <<>>
  BY <1>1, <1>2, EmptySeq
<1> QED
  BY <1>1, <1>2, <1>3, <1>4, <1>5, <1>6 DEF longer

LEMMA OneReceived ==
    ASSUME NEW box \in Seq(Messages), box # <<>>
    PROVE  /\ \A k : Posted(box, k) <=> Head(box).kind = k \/ Posted(Tail(box), k)
           /\ \A i : OnlyAbout(box, i) => Head(box).svc = i /\ OnlyAbout(Tail(box), i)
           /\ Len(box) = 1 => Tail(box) = <<>>
<1> DEFINE rest == Tail(box)
           first == Head(box)
<1>1. /\ first = box[1] /\ rest \in Seq(Messages) /\ Len(rest) = Len(box) - 1
      /\ \A n \in 1..Len(rest) : rest[n] = box[n + 1]
  BY HeadTailProperties
<1>2. /\ Len(box) \in Nat /\ Len(box) > 0 /\ DOMAIN box = 1..Len(box)
      /\ DOMAIN rest = 1..Len(box) - 1
  BY <1>1, LenProperties, EmptySeq
<1>3. Len(rest) = 0 => rest = <<>>
  BY <1>1, EmptySeq
<1> HIDE DEF rest, first
<1>4. \A n \in 2..Len(box) : n - 1 \in 1..Len(rest) /\ box[n] = rest[n - 1]
  BY <1>1, <1>2
<1>5. \A k : Posted(box, k) <=> first.kind = k \/ Posted(rest, k)
  <2> SUFFICES ASSUME NEW k PROVE Posted(box, k) <=> first.kind = k \/ Posted(rest, k)
    OBVIOUS
  <2>1. ASSUME NEW n \in DOMAIN box, box[n].kind = k PROVE first.kind = k \/ Posted(rest, k)
    <3>1. CASE n = 1
      BY <1>1, <2>1, <3>1
    <3>2. CASE n # 1
      <4>1. n - 1 \in 1..Len(rest) /\ box[n] = rest[n - 1]
        BY <1>2, <1>4, <3>2
      <4>2. n - 1 \in DOMAIN rest
        BY <1>1, <1>2, <4>1
      <4> QED
        BY <2>1, <4>1, <4>2 DEF Posted
    <3> QED
      BY <3>1, <3>2
  <2>2. first.kind = k => Posted(box, k)
    BY <1>1, <1>2 DEF Posted
  <2>3. Posted(rest, k) => Posted(box, k)
    BY <1>1, <1>2 DEF Posted
  <2> QED
    BY <2>1, <2>2, <2>3 DEF Posted
<1>6. \A i : OnlyAbout(box, i) => first.svc = i /\ OnlyAbout(rest, i)
  BY <1>1, <1>2 DEF OnlyAbout
<1> QED
  BY <1>1, <1>3, <1>5, <1>6 DEF rest, first

-----------------------------------------------------------------------------

\* startEverything, step by step.
LEMMA StartScreen ==
    ASSUME Known, ScreenInv, UNCHANGED <<events, consent>>,
           StartStep \/ (StopProxyStep(Main) /\ pc[Main] \in StartSteps)
    PROVE  ScreenInv'
<1> USE ConstantFacts DEF Known, ScreenInv, TypeOK, ServiceTypeOK, At, GoTo
<1>1. /\ UNCHANGED <<on, record, nextInstance, mailbox, consent>>
      /\ \A s \in Stoppers : pc'[s] = pc[s]
      /\ pc[Main] \in StartSteps /\ pc'[Main] \in StartSteps \cup {"idle"}
      /\ pc'[Main] = "idle" \/ UNCHANGED <<startRequested, isRunning>>
  <2>1. CASE StartStep
    BY <2>1 DEF StartStep, CheckOldProxy, BootProxy, RecordProxy, KeepHandle, CheckHandle,
           EstablishTun, SpawnWorker, KeepThread, ReadHandle, PublishHandle,
           PublishRunning, GiveUp, StopSelf, frameworkVars, stateVars, StartSteps
  <2>2. CASE StopProxyStep(Main) /\ pc[Main] \in StartSteps
    BY <2>2 DEF StopProxyStep, ReadArgument, Reading, RemoveRecord, Removing, ShutRuntime,
           Stopping, ForgetHandle, Forgetting, InPlace, frameworkVars, stateVars,
           StartSteps
  <2> QED
    BY <2>1, <2>2
<1>2. /\ startRequested /\ Resting /\ ~Due /\ ~isRunning /\ ~consent
      /\ ~Posted(mailbox, "start") /\ ~Posted(mailbox, "stop") /\ ~Posted(mailbox, "destroy")
      /\ \A t \in Threads : pc[t] \notin TeardownSteps
  BY <1>1
  DEF StartsAlone, BeginsOff, Beginning, Due, Resting, StartSteps, TeardownSteps, Critical
<1>3. on[Main] = Cur /\ record = Cur /\ Cur \in Instances
  BY <1>1, <1>2 DEF OneObject, StartSteps
<1>4. Held = proxyHandle[Cur] /\ Tun = tunThread[Cur] /\ Cur' = Cur
  BY <1>1, <1>3 DEF Held, Tun, Cur
<1>5. /\ Resting' /\ ~Due'
      /\ \A t \in Threads : pc'[t] \notin TeardownSteps
  BY <1>1, <1>2 DEF Resting, Due, StartSteps, TeardownSteps, Critical
<1>6. ASSUME NEW f, f \in [Instances -> Handles \cup {NoHandle}], NEW h
      PROVE  /\ [f EXCEPT ![Cur] = h][Cur] = h
             /\ \A i \in Instances : i # Cur => [f EXCEPT ![Cur] = h][i] = f[i]
  BY <1>3, <1>6
<1>7. ASSUME \A i \in Instances : i # Cur => /\ proxyHandle'[i] = proxyHandle[i]
                                           /\ tunThread'[i] = tunThread[i],
             startRequested' => startRequested
      PROVE  OneObject'
  BY <1>1, <1>2, <1>3, <1>4, <1>5, <1>7 DEF OneObject, Resting
<1>8. \A h \in Handles : worker[h] # "quit"
  BY <1>2 DEF TakenDown, TeardownSteps, Critical
<1>9. ASSUME \A h \in Handles : worker'[h] \in {worker[h], "spawned"} PROVE TakenDown'
  BY <1>5, <1>8, <1>9 DEF TakenDown, TeardownSteps, Critical
<1>10. ASSUME \/ pc'[Main] \in StartSteps /\ startRequested'
              \/ ~startRequested' /\ vpn' = NoHandle
              \/ startRequested' /\ isRunning'
       PROVE  Wanted'
  BY <1>1, <1>2, <1>5, <1>10 DEF Wanted
<1>11. ASSUME pc'[Main] \notin {"start", "boot", "record"} PROVE BeginsOff'
  BY <1>1, <1>2, <1>11 DEF BeginsOff, Beginning
<1>12. ASSUME pc[Main] \in {"start", "boot", "record"}
       PROVE  Off /\ mailbox = <<>> /\ \A h \in Handles : ~Lives(h)
  BY <1>12 DEF BeginsOff, Beginning
<1>13. pc'[Main] \in StartSteps => Settled'
  BY DEF Settled
<1>21. CASE CheckOldProxy
  <2>1. pc[Main] = "start" /\ Off
    BY <1>12, <1>21 DEF CheckOldProxy
  <2>2. /\ pc'[Main] = "boot"
        /\ UNCHANGED <<nativeVars, proxyHandle, tunThread, startRequested, tunVars,
                       stateVars>>
    BY <1>3, <1>4, <1>21, <2>1 DEF CheckOldProxy, Off, fieldVars, frameworkVars
  <2>3. Off' /\ \A h \in Handles : ~Lives(h)'
    BY <1>4, <1>12, <2>1, <2>2 DEF Off, Held, Lives, nativeVars, tunVars, stateVars
  <2>4. OneTunnel'
    BY <1>1, <1>12, <2>1, <2>3, NothingPosted DEF OneTunnel, Off
  <2>5. BeginsOff'
    BY <1>1, <1>2, <1>5, <1>12, <2>1, <2>2, <2>3, NothingPosted DEF BeginsOff
  <2>6. StartsAlone'
    BY <1>2, <1>5, <2>2, <2>3 DEF StartsAlone, Off, Failing, Publishing
  <2> QED
    BY <1>2, <1>7, <1>9, <1>10, <1>13, <2>2, <2>4, <2>5, <2>6 DEF StartSteps, tunVars
<1>22. CASE BootProxy
  <2>1. /\ pc[Main] = "boot" /\ Off
        /\ UNCHANGED <<slots, proxyHandle, tunThread, startRequested, tunVars, stateVars>>
        /\ \/ pc'[Main] = "record"
           \/ pc'[Main] = "keepHandle" /\ reg'[Main] = NoHandle
    BY <1>12, <1>22 DEF BootProxy, SpawnRun, Keep, nativeVars, fieldVars, frameworkVars
  <2>2. Off' /\ \A h \in Handles : ~Lives(h)'
    BY <1>4, <1>12, <2>1 DEF Off, Held, Lives, tunVars, stateVars
  <2>3. OneTunnel'
    BY <1>1, <1>12, <2>1, <2>2, NothingPosted DEF OneTunnel, Off
  <2>4. BeginsOff'
    BY <1>1, <1>2, <1>5, <1>12, <2>1, <2>2, NothingPosted DEF BeginsOff
  <2>5. StartsAlone'
    BY <1>1, <1>2, <1>5, <1>12, <2>1, <2>2 DEF StartsAlone, Off, Failing, Publishing
  <2> QED
    BY <1>2, <1>7, <1>9, <1>10, <1>13, <2>1, <2>3, <2>4, <2>5 DEF StartSteps, tunVars
<1>23. CASE RecordProxy
  <2>1. /\ pc[Main] = "record" /\ Off /\ nextHandle \in Handles /\ reg[Main] = nextHandle
        /\ pc'[Main] = "keepHandle" /\ slots' = slots \cup {nextHandle}
        /\ UNCHANGED <<startRequested, proxyHandle, tunThread, reg, tunVars, stateVars>>
    BY <1>12, <1>23 DEF RecordProxy, RecordHandle, HandleInv, frameworkVars, fieldVars
  <2>2. Held' = NoHandle /\ slots' = {reg'[Main]} \ {NoHandle}
    BY <1>4, <2>1 DEF Held, Off
  <2>3. vpn' = NoHandle /\ shownHandle' = NoHandle /\ \A h \in Handles : ~Lives(h)'
    BY <1>12, <2>1 DEF Off, Lives, tunVars, stateVars
  <2>4. OneTunnel'
    BY <2>1, <2>3 DEF OneTunnel
  <2>5. StartsAlone'
    BY <1>1, <1>2, <1>5, <1>12, <2>1, <2>2, <2>3
    DEF StartsAlone, stateVars, Failing, Publishing
  <2> QED
    BY <1>2, <1>7, <1>9, <1>10, <1>11, <1>13, <2>1, <2>4, <2>5 DEF StartSteps, tunVars
<1>24. CASE KeepHandle
  <2>1. /\ pc[Main] = "keepHandle" /\ pc'[Main] = "checkHandle"
        /\ proxyHandle' = [proxyHandle EXCEPT ![Cur] = reg[Main]]
        /\ UNCHANGED <<slots, startRequested, tunThread, reg, tunVars, stateVars>>
    BY <1>3, <1>24 DEF KeepHandle, nativeVars, frameworkVars
  <2>2. /\ Held' = reg[Main] /\ slots' = {Held'} \ {NoHandle}
        /\ \A i \in Instances : i # Cur => proxyHandle'[i] = proxyHandle[i]
    BY <1>3, <1>4, <1>6, <2>1 DEF Held, StartsAlone
  <2>3. /\ vpn' = NoHandle /\ shownHandle' = NoHandle /\ \A h \in Handles : ~Lives(h)'
        /\ mailbox = <<>>
    BY <2>1 DEF StartsAlone, Lives, tunVars, stateVars
  <2>4. OneTunnel'
    BY <2>1, <2>2, <2>3 DEF OneTunnel
  <2>5. StartsAlone'
    BY <1>1, <1>2, <1>5, <2>1, <2>2, <2>3
    DEF StartsAlone, stateVars, Failing, Publishing
  <2> QED
    BY <1>2, <1>7, <1>9, <1>10, <1>11, <1>13, <2>1, <2>2, <2>4, <2>5 DEF StartSteps, tunVars
<1>25. CASE CheckHandle
  <2>1. /\ pc[Main] = "checkHandle"
        /\ pc'[Main] = IF Held = NoHandle THEN "stopSelf" ELSE "establish"
        /\ UNCHANGED <<slots, startRequested, proxyHandle, tunThread, reg, tunVars, stateVars>>
    BY <1>3, <1>4, <1>25 DEF CheckHandle, nativeVars, frameworkVars, fieldVars
  <2>2. /\ Held' = Held /\ reg[Main] = Held /\ slots = {Held} \ {NoHandle}
        /\ vpn' = NoHandle /\ shownHandle' = NoHandle /\ \A h \in Handles : ~Lives(h)'
        /\ mailbox = <<>>
    BY <1>4, <2>1 DEF Held, StartsAlone, Lives, tunVars, stateVars
  <2>3. OneTunnel'
    BY <2>1, <2>2 DEF OneTunnel
  <2>4. StartsAlone'
    BY <1>1, <1>2, <1>5, <2>1, <2>2 DEF StartsAlone, stateVars, Failing, Publishing
  <2> QED
    BY <1>2, <1>7, <1>9, <1>10, <1>11, <1>13, <2>1, <2>3, <2>4 DEF StartSteps, tunVars
<1>26. CASE EstablishTun
  <2>1. /\ pc[Main] = "establish" /\ pc'[Main] \in {"spawn", "readFailed"}
        /\ UNCHANGED <<slots, proxyHandle, tunThread, startRequested, reg, worker,
                       stateVars>>
        /\ pc'[Main] = "spawn" => vpn' = reg[Main]
        /\ pc'[Main] = "readFailed" => vpn' = vpn
    BY <1>26 DEF EstablishTun, nativeVars, frameworkVars, fieldVars
  <2>2. /\ Held' = Held /\ Held # NoHandle /\ reg[Main] = Held /\ slots = {Held}
        /\ vpn = NoHandle /\ mailbox = <<>>
    BY <1>4, <2>1 DEF StartsAlone, Held
  <2>3. shownHandle' = NoHandle /\ \A h \in Handles : ~Lives(h)'
    BY <2>1 DEF StartsAlone, Lives, stateVars
  <2>4. OneTunnel'
    BY <1>1, <2>1, <2>2, <2>3, NothingPosted DEF OneTunnel
  <2>5. StartsAlone'
    BY <1>2, <1>5, <2>1, <2>2, <2>3 DEF StartsAlone, stateVars, Failing, Publishing
  <2> QED
    BY <1>2, <1>7, <1>9, <1>10, <1>11, <1>13, <2>1, <2>4, <2>5 DEF StartSteps
<1>27. CASE SpawnWorker
  <2>1. /\ pc[Main] = "spawn"
        /\ UNCHANGED <<slots, proxyHandle, tunThread, startRequested, reg, stateVars>>
    BY <1>27 DEF SpawnWorker, nativeVars, frameworkVars, fieldVars
  <2>2. /\ Held' = Held /\ Held \in Handles /\ reg[Main] = Held /\ slots = {Held}
        /\ vpn \in {NoHandle, Held}
        /\ vpn # NoHandle \/ Posted(mailbox, "revoke")
        /\ shownHandle = NoHandle /\ \A h \in Handles : ~Lives(h)
    BY <1>4, <2>1 DEF StartsAlone, OneTunnel, Held
  <2>3. CASE pc'[Main] = "keepThread"
    <3>1. worker' = [worker EXCEPT ![Held] = "spawned"] /\ vpn' = vpn
      BY <1>3, <1>27, <2>2, <2>3 DEF SpawnWorker
    <3>2. Lives(Held)' /\ \A h \in Handles : Lives(h)' => h = reg'[Main]
      BY <2>1, <2>2, <3>1 DEF Lives
    <3>3. OneTunnel'
      BY <1>1, <2>1, <2>2, <2>3, <3>1, <3>2 DEF OneTunnel, Lives
    <3>4. StartsAlone'
      BY <1>1, <1>2, <1>5, <2>1, <2>2, <2>3, <3>1, <3>2
      DEF StartsAlone, stateVars, Failing, Publishing
    <3> QED
      BY <1>2, <1>7, <1>9, <1>10, <1>11, <1>13, <2>1, <2>3, <3>1, <3>3, <3>4
      DEF StartSteps
  <2>4. CASE pc'[Main] # "keepThread"
    <3> DEFINE Closed == IF vpn = reg[Main] THEN NoHandle ELSE vpn
    <3>0. pc'[Main] = "readFailed" /\ UNCHANGED worker /\ vpn' = Closed
      BY <1>27, <2>4 DEF SpawnWorker, GoTo
    <3>1. pc'[Main] = "readFailed" /\ UNCHANGED worker /\ vpn' = NoHandle
      BY <2>2, <3>0
    <3> HIDE DEF Closed
    <3>2. OneTunnel'
      BY <1>1, <1>4, <2>1, <2>2, <3>1 DEF OneTunnel, Lives, Tun
    <3>3. StartsAlone'
      BY <1>2, <1>5, <2>1, <2>2, <3>1
      DEF StartsAlone, Lives, stateVars, Failing, Publishing
    <3> QED
      BY <1>2, <1>7, <1>9, <1>10, <1>11, <1>13, <2>1, <3>1, <3>2, <3>3 DEF StartSteps
  <2> QED
    BY <2>3, <2>4
<1>28. CASE KeepThread
  <2>1. /\ pc[Main] = "keepThread" /\ pc'[Main] = "readHandle"
        /\ tunThread' = [tunThread EXCEPT ![Cur] = reg[Main]]
        /\ UNCHANGED <<slots, proxyHandle, startRequested, tunVars, stateVars>>
    BY <1>3, <1>28 DEF KeepThread, nativeVars, frameworkVars
  <2>2. /\ Held' = Held /\ Held # NoHandle /\ reg[Main] = Held /\ slots = {Held}
        /\ vpn # NoHandle \/ Posted(mailbox, "revoke")
        /\ \A h \in Handles : Lives(h) => h = Held
    BY <1>4, <2>1 DEF StartsAlone, Held
  <2>3. Tun' = Held /\ \A i \in Instances : i # Cur => tunThread'[i] = tunThread[i]
    BY <1>3, <1>4, <1>6, <2>1, <2>2 DEF Tun
  <2>4. OneTunnel'
    BY <1>1, <2>1, <2>2, <2>3 DEF OneTunnel, Lives, tunVars
  <2>5. StartsAlone'
    BY <1>1, <1>2, <1>5, <2>1, <2>2, <2>3
    DEF StartsAlone, tunVars, stateVars, Failing, Publishing
  <2> QED
    BY <1>2, <1>7, <1>9, <1>10, <1>11, <1>13, <2>1, <2>3, <2>4, <2>5 DEF StartSteps, tunVars
<1>29. CASE ReadHandle \/ PublishHandle \/ PublishRunning
  <2>1. /\ pc[Main] \in Publishing
        /\ UNCHANGED <<slots, proxyHandle, tunThread, startRequested, tunVars>>
        /\ pc[Main] = "readHandle" =>
              pc'[Main] = "publishHandle" /\ reg'[Main] = Held /\ UNCHANGED stateVars
        /\ pc[Main] = "publishHandle" =>
              pc'[Main] = "publishRunning" /\ shownHandle' = Held /\ isRunning' = isRunning
        /\ pc[Main] = "publishRunning" =>
              pc'[Main] = "idle" /\ shownHandle' = shownHandle /\ isRunning'
    BY <1>3, <1>4, <1>29
    DEF ReadHandle, PublishHandle, PublishRunning, Publishing, Keep, StartsAlone, nativeVars,
        frameworkVars, fieldVars
  <2>2. Held' = Held /\ Tun' = Tun
    BY <1>4, <2>1 DEF Held, Tun
  <2>3. OneTunnel'
    BY <1>1, <2>1, <2>2 DEF OneTunnel, Lives, tunVars, Publishing
  <2>4. StartsAlone'
    BY <1>1, <1>2, <1>5, <2>1, <2>2
    DEF StartsAlone, tunVars, stateVars, StartSteps, Failing, Publishing
  <2>5. pc'[Main] = "idle" => Up'
    BY <1>1, <1>3, <1>4, <2>1, <2>2 DEF StartsAlone, Up, tunVars, Publishing
  <2> QED
    BY <1>2, <1>7, <1>9, <1>10, <1>11, <1>13, <2>1, <2>3, <2>4, <2>5
    DEF Settled, StartSteps, tunVars, stateVars, Publishing
<1>30. CASE StopProxyStep(Main) /\ pc[Main] \in StartSteps
  <2>1. /\ pc[Main] \in {"readFailed", "removeFailed", "shutFailed", "forgetFailed"}
        /\ UNCHANGED <<tunThread, startRequested, tunVars, stateVars>>
    BY <1>30 DEF StopProxyStep, ReadArgument, Reading, RemoveRecord, Removing, ShutRuntime,
       Stopping, ForgetHandle, Forgetting, StartsAlone, StartSteps, fieldVars, frameworkVars
  <2>2. vpn' = NoHandle /\ shownHandle' = NoHandle /\ \A h \in Handles : ~Lives(h)'
    BY <2>1 DEF StartsAlone, Failing, Lives, tunVars, stateVars
  <2>3. CASE ReadArgument(Main)
    <3>1. /\ pc[Main] = "readFailed" /\ pc'[Main] = "removeFailed" /\ reg'[Main] = Held
          /\ UNCHANGED <<slots, proxyHandle>>
      BY <1>3, <1>4, <2>1, <2>3 DEF ReadArgument, Reading, InPlace, Keep, nativeVars, fieldVars
    <3>2. Held' = Held
      BY <1>4, <3>1 DEF Held
    <3>3. OneTunnel'
      BY <2>2, <3>1, <3>2 DEF OneTunnel
    <3>4. StartsAlone'
      BY <1>2, <1>5, <2>1, <2>2, <3>1, <3>2
      DEF StartsAlone, stateVars, Failing, Publishing
    <3> QED
      BY <1>2, <1>7, <1>9, <1>10, <1>11, <1>13, <2>1, <3>1, <3>3, <3>4
      DEF StartSteps, tunVars
  <2>4. CASE RemoveRecord(Main)
    <3>1. /\ pc[Main] = "removeFailed" /\ pc'[Main] = "shutFailed"
          /\ slots' = slots \ {reg[Main]} /\ UNCHANGED proxyHandle
      BY <2>1, <2>4 DEF RemoveRecord, Removing, InPlace, RemoveSlot, fieldVars
    <3>2. slots' = {}
      BY <3>1 DEF StartsAlone, OneTunnel
    <3>3. OneTunnel'
      BY <2>2, <3>2 DEF OneTunnel
    <3>4. StartsAlone'
      BY <1>2, <1>5, <2>1, <2>2, <3>1, <3>2
      DEF StartsAlone, stateVars, Failing, Publishing
    <3> QED
      BY <1>2, <1>7, <1>9, <1>10, <1>11, <1>13, <2>1, <3>1, <3>3, <3>4
      DEF StartSteps, tunVars
  <2>5. CASE ShutRuntime(Main)
    <3>1. /\ pc[Main] = "shutFailed" /\ pc'[Main] = "forgetFailed"
          /\ UNCHANGED <<slots, proxyHandle>> /\ slots = {}
      BY <2>1, <2>5 DEF ShutRuntime, Stopping, InPlace, ShutDown, fieldVars, StartsAlone
    <3>2. OneTunnel'
      BY <2>2, <3>1 DEF OneTunnel
    <3>3. StartsAlone'
      BY <1>2, <1>5, <2>1, <2>2, <3>1 DEF StartsAlone, stateVars, Failing, Publishing
    <3> QED
      BY <1>2, <1>7, <1>9, <1>10, <1>11, <1>13, <2>1, <3>1, <3>2, <3>3
      DEF StartSteps, tunVars
  <2>6. CASE ForgetHandle(Main)
    <3>1. /\ pc[Main] = "forgetFailed" /\ pc'[Main] = "stopSelf"
          /\ proxyHandle' = [proxyHandle EXCEPT ![Cur] = NoHandle]
          /\ UNCHANGED slots /\ slots = {}
      BY <1>3, <2>1, <2>6
      DEF ForgetHandle, Forgetting, InPlace, Forget, nativeVars, StartsAlone
    <3>2. Held' = NoHandle /\ \A i \in Instances : i # Cur => proxyHandle'[i] = proxyHandle[i]
      BY <1>4, <1>6, <3>1 DEF Held
    <3>3. OneTunnel'
      BY <2>2, <3>1 DEF OneTunnel
    <3>4. StartsAlone'
      BY <1>2, <1>5, <2>1, <2>2, <3>1, <3>2
      DEF StartsAlone, stateVars, Failing, Publishing
    <3> QED
      BY <1>2, <1>7, <1>9, <1>10, <1>11, <1>13, <2>1, <3>1, <3>2, <3>3, <3>4
      DEF StartSteps, tunVars
  <2> QED
    BY <1>30, <2>3, <2>4, <2>5, <2>6 DEF StopProxyStep
<1>31. CASE GiveUp
  <2>1. /\ pc[Main] = "stopSelf" /\ pc'[Main] = "idle" /\ ~startRequested'
        /\ UNCHANGED <<slots, proxyHandle, tunThread, tunVars, stateVars>>
    BY <1>3, <1>31 DEF GiveUp, StopSelf, nativeVars, fieldVars
  <2>2. Held' = NoHandle
    BY <1>4, <2>1 DEF StartsAlone, Held
  <2>3. Off' /\ \A h \in Handles : ~Lives(h)'
    BY <1>2, <2>1, <2>2 DEF StartsAlone, Failing, Off, Lives, tunVars, stateVars
  <2>4. OneTunnel'
    BY <2>3 DEF OneTunnel, Off
  <2>5. StartsAlone'
    BY <2>1 DEF StartsAlone, StartSteps, Failing, Publishing
  <2> QED
    BY <1>7, <1>9, <1>10, <1>11, <2>1, <2>3, <2>4, <2>5 DEF Off, Settled, tunVars
<1> QED
  BY <1>21, <1>22, <1>23, <1>24, <1>25, <1>26, <1>27, <1>28, <1>29, <1>30, <1>31
  DEF StartStep

LEMMA SlotsTyped == TypeOK => slots \subseteq Handles
  BY DEF TypeOK, NativeTypeOK

\* teardown, step by step.
LEMMA TeardownScreen ==
    ASSUME Known, ScreenInv, "slow" \notin Faults, NEW t \in Threads,
           TeardownStep(t) \/ (StopProxyStep(t) /\ pc[t] \in TeardownSteps),
           UNCHANGED <<events, consent>>
    PROVE  ScreenInv'
<1> USE ConstantFacts DEF Known, ScreenInv, TypeOK, ServiceTypeOK, At, GoTo
<1>1. /\ on' = on /\ \A s \in Threads \ {t} : pc'[s] = pc[s]
      /\ pc[t] \in TeardownSteps /\ pc'[t] \in TeardownSteps \cup {"idle"}
      /\ UNCHANGED <<record, nextInstance, mailbox, tunThread, consent>>
  <2>1. CASE TeardownStep(t)
    BY <2>1 DEF TeardownStep, EnterTeardown, StopTun, ReadTunThread, JoinWorker,
           JoinTimesOut, CheckProxy, ClearHandle, ClearRunning, Rearm, EndTeardown,
           StopSelf, frameworkVars, fieldVars, TeardownSteps, Critical
  <2>2. CASE StopProxyStep(t) /\ pc[t] \in TeardownSteps
    BY <2>2 DEF StopProxyStep, ReadArgument, Reading, RemoveRecord, Removing, ShutRuntime,
           Stopping, ForgetHandle, Forgetting, InPlace, frameworkVars, fieldVars,
           TeardownSteps, Critical
  <2> QED
    BY <2>1, <2>2
<1>2. on[t] = Cur /\ Cur \in Instances
  BY <1>1 DEF OneObject, TeardownSteps, Critical
<1>3. Held = proxyHandle[Cur] /\ Tun = tunThread[Cur] /\ Cur' = Cur /\ Tun' = Tun
  BY <1>1, <1>2 DEF Held, Tun, Cur
<1>4. ~Beginning /\ pc[Main] \notin StartSteps
  <2>1. CASE t = Main
    BY <1>1, <2>1 DEF BeginsOff, Beginning, TeardownSteps, Critical, StartSteps
  <2>2. CASE t \in Stoppers
    <3>1. ~Resting
      BY <1>1, <2>2 DEF Resting, TeardownSteps, Critical
    <3> QED
      BY <3>1 DEF BeginsOff, StartsAlone
  <2> QED
    BY <2>1, <2>2
<1>5. pc'[Main] \notin StartSteps
  BY <1>1, <1>4 DEF StartSteps, TeardownSteps, Critical
<1>6. ~Beginning'
  BY <1>1, <1>4, <1>5 DEF Beginning, StartSteps
<1>7. BeginsOff' /\ StartsAlone'
  BY <1>5, <1>6 DEF BeginsOff, StartsAlone, StartSteps, Failing, Publishing
<1>20. slots \subseteq {Held} /\ \A h \in Handles : Lives(h) => h = Tun
  BY <1>4 DEF OneTunnel, StartSteps
<1>8. pc[t] \in Critical => \A s \in Threads \ {t} : pc[s] \notin Critical
  BY <1>2 DEF TeardownExclusive, Inside, OneObject, Critical
<1>9. ASSUME \/ proxyHandle' = proxyHandle
             \/ proxyHandle' = [proxyHandle EXCEPT ![Cur] = NoHandle],
             startRequested' => startRequested
      PROVE  OneObject'
  BY <1>1, <1>2, <1>3, <1>9 DEF OneObject, TeardownSteps, Critical
<1>10. vpn # NoHandle => worker[vpn] # "spawned"
  <2>1. startRequested => ~Resting
    <3>1. t = Main => ~startRequested
      BY <1>1 DEF Wanted, OneObject, TeardownSteps, Critical
    <3>2. t \in Stoppers => ~Resting
      BY <1>1 DEF Resting, TeardownSteps, Critical
    <3> QED
      BY <3>1, <3>2
  <2> QED
    BY <1>4, <2>1 DEF Wanted, StartSteps
<1>11. CASE EnterTeardown(t)
  <2>1. /\ pc[t] = "teardown" /\ pc'[t] = IF tornDown[Cur] THEN "ended" ELSE "stopTun"
        /\ UNCHANGED <<nativeVars, frameworkVars, proxyHandle, reg, tunVars, stateVars>>
    BY <1>2, <1>11 DEF EnterTeardown
  <2>2. \E s \in Threads : pc'[s] \in Critical
    <3>1. CASE tornDown[Cur]
      <4>1. PICK s \in Threads : Inside(s, Cur)
        BY <1>2, <3>1 DEF TeardownExclusive
      <4>2. s # t
        BY <2>1, <4>1 DEF Inside, Critical
      <4> QED
        BY <1>1, <4>1, <4>2 DEF Inside
    <3>2. CASE ~tornDown[Cur]
      BY <2>1, <3>2 DEF Critical
    <3> QED
      BY <3>1, <3>2
  <2>3. OneTunnel'
    BY <1>1, <1>3, <1>4, <1>5, <2>1
    DEF OneTunnel, Held, Cur, Lives, nativeVars, tunVars, StartSteps
  <2>4. Wanted'
    BY ZenonT(60), <1>1, <1>4, <1>5, <2>1
    DEF Wanted, Due, Resting, TeardownSteps, Critical, frameworkVars,
       tunVars, stateVars, StartSteps
  <2>5. TakenDown'
    BY ZenonT(60), <1>1, <1>3, <2>1 DEF TakenDown, Held, Cur, Critical, nativeVars, tunVars, stateVars
  <2>6. Settled'
    BY <2>2 DEF Settled
  <2> QED
    BY <1>7, <1>9, <2>1, <2>3, <2>4, <2>5, <2>6 DEF frameworkVars
<1>12. CASE StopTun(t)
  <2>1. /\ pc[t] = "stopTun" /\ pc'[t] = "readThread"
        /\ UNCHANGED <<nativeVars, frameworkVars, proxyHandle, reg, vpn, stateVars>>
        /\ worker' = [h \in Handles |-> IF worker[h] = "running" THEN "quit" ELSE worker[h]]
    BY <1>12 DEF StopTun, fieldVars
  <2>2. vpn # NoHandle => worker'[vpn] = "quit"
    <3>1. vpn # NoHandle => Lives(vpn) /\ worker[vpn] # "spawned"
      BY <1>4, <1>10 DEF OneTunnel, StartSteps
    <3> QED
      BY <2>1, <3>1 DEF Lives
  <2>3. OneTunnel'
    BY <1>1, <1>3, <1>4, <1>5, <2>1 DEF OneTunnel, Held, Cur, Lives, nativeVars, StartSteps
  <2>4. Wanted'
    BY <1>1, <1>4, <1>5, <2>1, <2>2
    DEF Wanted, Due, Resting, TeardownSteps, Critical, frameworkVars,
       stateVars, StartSteps
  <2>5. TakenDown'
    <3>1. Held' = Held /\ slots' = slots
      BY <1>1, <2>1 DEF Held, Cur, nativeVars
    <3>2. \A s \in Threads \ {t} : pc'[s] \notin Critical
      BY <1>1, <1>8, <2>1 DEF Critical
    <3>3. pc'[t] = "readThread" /\ t \in Threads
      BY <2>1
    <3> QED
      BY <2>1, <2>2, <3>1, <3>2, <3>3 DEF TakenDown, Critical
  <2>6. Settled'
    BY <2>1 DEF Settled, Critical
  <2> QED
    BY <1>7, <1>9, <2>1, <2>3, <2>4, <2>5, <2>6 DEF frameworkVars
<1>13. CASE ReadTunThread(t)
  <2>1. /\ pc[t] = "readThread" /\ pc'[t] = "join" /\ reg' = [reg EXCEPT ![t] = Tun]
        /\ UNCHANGED <<nativeVars, frameworkVars, proxyHandle, tunVars, stateVars>>
    BY <1>2, <1>3, <1>13 DEF ReadTunThread, Keep, fieldVars
  <2>3. OneTunnel'
    BY <1>1, <1>3, <1>4, <1>5, <2>1
    DEF OneTunnel, Held, Cur, Lives, nativeVars, tunVars, StartSteps
  <2>4. Wanted'
    BY <1>1, <1>4, <1>5, <2>1
    DEF Wanted, Due, Resting, TeardownSteps, Critical, frameworkVars,
       tunVars, stateVars, StartSteps
  <2>5. TakenDown'
    BY <1>1, <1>3, <1>8, <2>1
    DEF TakenDown, Held, Cur, Critical, nativeVars, tunVars, stateVars
  <2>6. Settled'
    BY <2>1 DEF Settled, Critical
  <2> QED
    BY <1>7, <1>9, <2>1, <2>3, <2>4, <2>5, <2>6 DEF frameworkVars
<1>14. CASE JoinWorker(t) \/ JoinTimesOut(t)
  <2>1. /\ pc[t] = "join" /\ pc'[t] = "checkProxy"
        /\ UNCHANGED <<nativeVars, frameworkVars, proxyHandle, reg, tunVars, stateVars>>
    BY <1>14 DEF JoinWorker, JoinTimesOut, fieldVars
  <2>2. \A h \in Handles : worker[h] # "quit"
    <3>1. reg[t] = Tun
      BY <2>1 DEF TakenDown
    <3>2. reg[t] # NoHandle => worker[reg[t]] # "quit"
      BY <1>14 DEF JoinWorker, JoinTimesOut
    <3>3. \A h \in Handles : worker[h] = "quit" => h = reg[t]
      BY <1>20, <3>1 DEF Lives
    <3> QED
      BY <3>2, <3>3
  <2>3. vpn = NoHandle
    BY <2>1, <2>2 DEF TakenDown
  <2>4. OneTunnel'
    BY <1>1, <1>3, <2>1, <2>3 DEF OneTunnel, Held, Cur, Lives, nativeVars, tunVars
  <2>5. Wanted'
    BY <1>1, <1>4, <1>5, <2>1, <2>3 DEF Wanted, Due, Resting, TeardownSteps, Critical,
       frameworkVars, tunVars, stateVars, StartSteps
  <2>6. TakenDown'
    BY ZenonT(60), <1>1, <1>3, <1>8, <2>1, <2>2, <2>3
    DEF TakenDown, Held, Cur, Critical, nativeVars, tunVars,
       stateVars
  <2>7. Settled'
    BY <2>1 DEF Settled, Critical
  <2> QED
    BY <1>7, <1>9, <2>1, <2>4, <2>5, <2>6, <2>7 DEF frameworkVars
<1>15. CASE CheckProxy(t)
  <2>1. /\ pc[t] = "checkProxy" /\ vpn = NoHandle
        /\ pc'[t] = IF Held = NoHandle THEN "clearHandle" ELSE "readProxy"
        /\ UNCHANGED <<nativeVars, frameworkVars, proxyHandle, reg, tunVars, stateVars>>
    BY <1>2, <1>3, <1>15 DEF CheckProxy, fieldVars, TakenDown, Critical
  <2>2. Held' = Held
    BY <1>1, <2>1 DEF Held, Cur
  <2>3. OneTunnel'
    BY <1>1, <1>3, <1>20, <2>1, <2>2 DEF OneTunnel, Lives, tunVars, nativeVars
  <2>4. Wanted'
    BY <1>1, <1>4, <1>5, <2>1 DEF Wanted, Due, Resting, TeardownSteps, Critical,
       frameworkVars, tunVars, stateVars, StartSteps
  <2>5. TakenDown'
    <3>1. \A s \in Threads \ {t} : pc[s] \notin Critical
      BY <1>8, <2>1 DEF Critical
    <3>2. \A h \in Handles : worker[h] # "quit"
      BY <2>1, <3>1 DEF TakenDown, Critical
    <3>3. pc'[t] \in {"readProxy", "clearHandle"} /\ (pc'[t] = "clearHandle" => Held' = NoHandle)
      BY <2>1, <2>2
    <3>4. \A s \in Threads : pc'[s] \in Critical => s = t
      BY <1>1, <3>1
    <3>5. worker' = worker /\ vpn' = NoHandle
      BY <2>1 DEF tunVars
    <3> HIDE DEF Known, ScreenInv, TypeOK, ServiceTypeOK
    <3> QED
      BY <3>2, <3>3, <3>4, <3>5 DEF TakenDown, Critical
  <2>6. Settled'
    BY <2>1 DEF Settled, Critical
  <2> QED
    BY <1>7, <1>9, <2>1, <2>3, <2>4, <2>5, <2>6 DEF frameworkVars
<1>16. CASE StopProxyStep(t) /\ pc[t] \in TeardownSteps
  <2>1. /\ pc[t] \in {"readProxy", "removeProxy", "shutProxy", "forgetProxy"}
        /\ pc'[t] \in {"removeProxy", "shutProxy", "forgetProxy", "clearHandle"}
        /\ vpn = NoHandle
        /\ UNCHANGED <<frameworkVars, tunVars, stateVars>>
    BY <1>16 DEF StopProxyStep, ReadArgument, Reading, RemoveRecord, Removing, ShutRuntime,
       Stopping, ForgetHandle, Forgetting, InPlace, TakenDown, TeardownSteps, Critical
  <2>2. Settled'
    BY <2>1 DEF Settled, Critical
  <2>3. Wanted'
    BY <1>1, <1>4, <1>5, <2>1 DEF Wanted, Due, Resting, TeardownSteps, Critical,
       frameworkVars, tunVars, stateVars, StartSteps
  <2>4. /\ \A s \in Threads \ {t} : pc'[s] \notin Critical
        /\ \A h \in Handles : worker'[h] # "quit"
    <3>1. \A s \in Threads \ {t} : pc[s] \notin Critical
      BY <1>8, <2>1 DEF Critical
    <3>2. \A h \in Handles : worker[h] # "quit"
      BY <2>1, <3>1 DEF TakenDown, Critical
    <3> QED
      BY <1>1, <2>1, <3>1, <3>2 DEF tunVars
  <2>5. CASE ReadArgument(t)
    <3>1. /\ pc'[t] = "removeProxy" /\ reg'[t] = Held /\ UNCHANGED <<slots, proxyHandle>>
      BY <1>2, <1>3, <2>1, <2>5 DEF ReadArgument, Reading, InPlace, Keep, nativeVars, fieldVars
    <3>2. Held' = Held
      BY <1>1, <3>1 DEF Held, Cur
    <3>3. OneTunnel'
      BY <1>1, <1>3, <1>20, <2>1, <3>1, <3>2 DEF OneTunnel, Lives, tunVars
    <3>4. TakenDown'
      BY <2>1, <2>4, <3>1, <3>2 DEF TakenDown, Critical, tunVars
    <3> QED
      BY <1>7, <1>9, <2>1, <2>2, <2>3, <3>1, <3>3, <3>4 DEF frameworkVars
  <2>6. CASE RemoveRecord(t)
    <3>1. /\ pc[t] = "removeProxy" /\ pc'[t] = "shutProxy"
          /\ slots' = slots \ {reg[t]} /\ UNCHANGED proxyHandle
      BY <2>1, <2>6 DEF RemoveRecord, Removing, InPlace, RemoveSlot, fieldVars
    <3>2. slots' = {}
      BY <1>20, <3>1 DEF TakenDown
    <3>3. OneTunnel'
      BY <1>1, <1>3, <1>20, <2>1, <3>2 DEF OneTunnel, Lives, tunVars
    <3>4. TakenDown'
      BY <2>1, <2>4, <3>1, <3>2 DEF TakenDown, Critical, tunVars
    <3> QED
      BY <1>7, <1>9, <2>1, <2>2, <2>3, <3>1, <3>3, <3>4 DEF frameworkVars
  <2>7. CASE ShutRuntime(t)
    <3>1. /\ pc[t] = "shutProxy" /\ pc'[t] = "forgetProxy"
          /\ UNCHANGED <<slots, proxyHandle>> /\ slots = {}
      BY <2>1, <2>7 DEF ShutRuntime, Stopping, InPlace, ShutDown, fieldVars, TakenDown
    <3>2. OneTunnel'
      BY <1>1, <1>3, <1>20, <2>1, <3>1 DEF OneTunnel, Lives, tunVars
    <3>3. TakenDown'
      BY <2>1, <2>4, <3>1 DEF TakenDown, Critical, tunVars
    <3> QED
      BY <1>7, <1>9, <2>1, <2>2, <2>3, <3>1, <3>2, <3>3 DEF frameworkVars
  <2>8. CASE ForgetHandle(t)
    <3>1. /\ pc[t] = "forgetProxy" /\ pc'[t] = "clearHandle"
          /\ proxyHandle' = [proxyHandle EXCEPT ![Cur] = NoHandle]
          /\ UNCHANGED slots /\ slots = {}
      BY <1>2, <2>1, <2>8
      DEF ForgetHandle, Forgetting, InPlace, Forget, nativeVars, TakenDown
    <3>2. Held' = NoHandle
      BY <1>2, <1>3, <3>1 DEF Held
    <3>3. OneTunnel'
      BY <1>1, <1>3, <1>20, <2>1, <3>1 DEF OneTunnel, Lives, tunVars
    <3>4. TakenDown'
      BY <2>1, <2>4, <3>1, <3>2 DEF TakenDown, Critical, tunVars
    <3> QED
      BY <1>7, <1>9, <2>1, <2>2, <2>3, <3>1, <3>3, <3>4 DEF frameworkVars
  <2> QED
    BY <1>16, <2>5, <2>6, <2>7, <2>8 DEF StopProxyStep
<1>17. CASE ClearHandle(t) \/ ClearRunning(t)
  <2>1. /\ pc[t] \in {"clearHandle", "clearRunning"} /\ vpn = NoHandle /\ Held = NoHandle
        /\ UNCHANGED <<nativeVars, frameworkVars, proxyHandle, reg, tunVars>>
        /\ pc[t] = "clearHandle" =>
              pc'[t] = "clearRunning" /\ shownHandle' = NoHandle /\ isRunning' = isRunning
        /\ pc[t] = "clearRunning" => pc'[t] = "rearm" /\ ~isRunning' /\ shownHandle' = NoHandle
    BY <1>17 DEF ClearHandle, ClearRunning, TakenDown, Critical, fieldVars
  <2>2. Held' = NoHandle
    BY <1>1, <2>1 DEF Held, Cur
  <2>4. OneTunnel'
    BY <1>1, <1>3, <2>1, <2>2 DEF OneTunnel, Lives, tunVars, nativeVars
  <2>5. Wanted'
    BY <1>1, <1>4, <1>5, <2>1 DEF Wanted, OneObject, Due, Resting, TeardownSteps, Critical,
       frameworkVars, tunVars, StartSteps
  <2>6. TakenDown'
    BY ZenonT(60), <1>1, <1>3, <1>8, <2>1, <2>2 DEF TakenDown, Critical, tunVars, nativeVars
  <2>7. Settled'
    BY <2>1 DEF Settled, Critical
  <2> QED
    BY <1>7, <1>9, <2>1, <2>4, <2>5, <2>6, <2>7 DEF frameworkVars
<1>18. CASE Rearm(t)
  <2>1. /\ pc[t] = "rearm" /\ pc'[t] = "ended" /\ Held = NoHandle /\ vpn = NoHandle
        /\ shownHandle = NoHandle /\ ~isRunning
        /\ UNCHANGED <<nativeVars, frameworkVars, proxyHandle, reg, tunVars, stateVars>>
    BY <1>18 DEF Rearm, TakenDown, Critical
  <2>2. Held' = NoHandle
    BY <1>1, <2>1 DEF Held, Cur
  <2>3. Off'
    BY <1>20, <2>1, <2>2, SlotsTyped DEF Off, nativeVars, tunVars, stateVars
  <2>4. OneTunnel'
    BY <1>1, <1>3, <2>1, <2>2 DEF OneTunnel, Lives, tunVars, nativeVars
  <2>5. Wanted'
    BY <1>1, <1>4, <1>5, <2>1 DEF Wanted, Due, Resting, TeardownSteps, Critical,
       frameworkVars, tunVars, stateVars, StartSteps
  <2>6. TakenDown'
    BY <1>1, <1>3, <1>8, <2>1, <2>2 DEF TakenDown, Critical, tunVars, nativeVars, stateVars
  <2>7. Settled'
    BY <2>3 DEF Settled
  <2> QED
    BY <1>7, <1>9, <2>1, <2>4, <2>5, <2>6, <2>7 DEF frameworkVars
<1>19. CASE EndTeardown(t)
  <2>1. /\ pc[t] = "ended" /\ pc'[t] = "idle" /\ UNCHANGED <<record, nextInstance, mailbox>>
        /\ UNCHANGED <<nativeVars, proxyHandle, reg, tunVars, stateVars>>
    BY <1>1, <1>19 DEF EndTeardown, fieldVars
  <2>2. ~startRequested'
    <3>1. CASE t \in Stoppers
      <4>1. startRequested' = IF record = Cur THEN FALSE ELSE startRequested
        BY <1>2, <1>19, <3>1, ConstantFacts DEF EndTeardown, StopSelf
      <4> QED
        BY <4>1 DEF OneObject
    <3>2. CASE t = Main
      <4>1. startRequested' = startRequested /\ record = NoInstance
        BY <1>1, <1>19, <3>2, ConstantFacts DEF EndTeardown, frameworkVars, Wanted
      <4> QED
        BY <4>1 DEF OneObject
    <3> QED
      BY <3>1, <3>2
  <2>3. Held' = Held
    BY <1>1, <2>1 DEF Held, Cur
  <2>4. OneTunnel'
    BY <1>1, <1>3, <1>4, <1>5, <2>1, <2>3
    DEF OneTunnel, Lives, tunVars, nativeVars, StartSteps
  <2>5. Wanted'
    BY <1>1, <1>10, <2>1, <2>2 DEF Wanted, tunVars, TeardownSteps, Critical
  <2>6. TakenDown'
    BY <1>1, <1>3, <2>1, <2>3 DEF TakenDown, Critical, tunVars, nativeVars, stateVars
  <2>7. Settled'
    <3>1. Off \/ Up \/ Due \/ \E s \in Threads : pc[s] \in Critical
      BY <1>4 DEF Settled
    <3>2. Off => Off'
      BY <2>1, <2>3 DEF Off, nativeVars, tunVars, stateVars
    <3>3. Up => Up'
      BY <1>1, <1>3, <2>1, <2>2, <2>3 DEF Up, nativeVars, stateVars
    <3>4. Due => Due'
      BY <1>1, <2>1 DEF Due
    <3>5. \A s \in Threads : pc[s] \in Critical => pc'[s] \in Critical
      BY <1>1, <2>1 DEF Critical
    <3> QED
      BY <3>1, <3>2, <3>3, <3>4, <3>5 DEF Settled
  <2> QED
    BY <1>7, <1>9, <2>1, <2>2, <2>4, <2>5, <2>6, <2>7
<1> QED
  BY <1>11, <1>12, <1>13, <1>14, <1>15, <1>16, <1>17, <1>18, <1>19 DEF TeardownStep

\* onStartCommand, onDestroy and onRevoke.
LEMMA LooperScreen ==
    ASSUME Known, ScreenInv, LooperStep, UNCHANGED <<events, consent>>
    PROVE  ScreenInv'
<1> USE ConstantFacts, NothingPosted
    DEF Known, ScreenInv, Cur, Held, Tun, Lives, Resting,
        TypeOK, NativeTypeOK, FrameworkTypeOK, ServiceTypeOK,
        StartSteps, TeardownSteps, Critical, nativeVars, fieldVars, threadVars,
        tunVars, stateVars, At, Begin
<1>1. ASSUME mailbox # <<>>, mailbox' = Tail(mailbox)
      PROVE  /\ \A k : Posted(mailbox, k) <=> Head(mailbox).kind = k \/ Posted(mailbox', k)
             /\ Head(mailbox).svc = Cur /\ OnlyAbout(mailbox', Cur)
             /\ Len(mailbox) = 1 => mailbox' = <<>>
  BY <1>1, OneReceived DEF OneObject
<1>2. CASE OnStart
  <2>1. Posted(mailbox, "start") /\ mailbox' = <<>> /\ Head(mailbox).svc = Cur
    BY <1>1, <1>2 DEF OnStart, Receive, BeginsOff, Beginning
  <2>2. /\ pc' = [pc EXCEPT ![Main] = "start"] /\ on' = [on EXCEPT ![Main] = Cur]
        /\ reg' = [reg EXCEPT ![Main] = NoHandle]
        /\ UNCHANGED <<record, startRequested, nextInstance, nativeVars, fieldVars,
                       tunVars, stateVars>>
    BY <1>2, <2>1 DEF OnStart
  <2>3. /\ Off /\ Resting /\ \A h \in Handles : ~Lives(h)
        /\ pc[Main] = "idle" /\ ~consent /\ startRequested
    <3>1. Beginning /\ mailbox # <<>> /\ pc[Main] = "idle"
      BY <2>1, <1>2 DEF Beginning, OnStart, Receive
    <3> QED
      BY <3>1 DEF BeginsOff
  <2>4. OneObject'
    BY <2>1, <2>2 DEF OneObject
  <2>5. OneTunnel'
    BY <2>1, <2>2, <2>3 DEF OneTunnel, Off
  <2>6. BeginsOff'
    BY <2>1, <2>2, <2>3 DEF BeginsOff, Off
  <2>7. StartsAlone'
    BY <2>1, <2>2, <2>3 DEF StartsAlone, Failing, Publishing, Off, Due
  <2>8. Wanted'
    BY <2>1, <2>2, <2>3 DEF Wanted, Off
  <2>9. TakenDown'
    BY <2>1, <2>2, <2>3 DEF TakenDown, Off
  <2>10. Settled'
    BY <2>2 DEF Settled
  <2> QED
    BY <2>4, <2>5, <2>6, <2>7, <2>8, <2>9, <2>10
<1>3. CASE OnStop
  <2>1. /\ \A k : Posted(mailbox, k) <=> k = "stop" \/ Posted(mailbox', k)
        /\ Head(mailbox).svc = Cur /\ OnlyAbout(mailbox', Cur)
    BY <1>1, <1>3 DEF OnStop, Receive
  <2>2. PICK t \in Stoppers : At(t, "idle") /\ Begin(t, "teardown", Head(mailbox).svc)
    BY <1>3 DEF OnStop
  <2>3. /\ pc' = [pc EXCEPT ![t] = "teardown"] /\ on' = [on EXCEPT ![t] = Cur]
        /\ reg' = [reg EXCEPT ![t] = NoHandle]
        /\ pc[Main] = "idle" /\ t # Main /\ pc[t] = "idle"
        /\ UNCHANGED <<record, startRequested, nextInstance, nativeVars, fieldVars,
                       tunVars, stateVars>>
    BY <1>3, <2>1, <2>2 DEF OnStop
  <2>4. OneObject'
    BY <2>1, <2>3 DEF OneObject
  <2>5. OneTunnel'
    BY <2>1, <2>3 DEF OneTunnel
  <2>6. ~Beginning
    <3>1. mailbox # <<>> /\ mailbox' = Tail(mailbox)
      BY <1>3 DEF OnStop, Receive
    <3> QED
      BY <1>1, <2>1, <2>3, <3>1 DEF BeginsOff, Beginning
  <2>11. ~Beginning'
    BY <2>1, <2>3, <2>6 DEF Beginning
  <2>7. StartsAlone'
    BY <2>1, <2>3 DEF StartsAlone
  <2>8. Wanted'
    BY <2>1, <2>3 DEF Wanted, Due
  <2>9. TakenDown'
    BY <2>1, <2>3 DEF TakenDown
  <2>10. Due'
    BY <2>3 DEF Due
  <2> QED
    BY <2>4, <2>5, <2>11, <2>7, <2>8, <2>9, <2>10 DEF BeginsOff, Settled
<1>4. CASE OnDestroy
  <2>1. /\ \A k : Posted(mailbox, k) <=> k = "destroy" \/ Posted(mailbox', k)
        /\ Head(mailbox).svc = Cur /\ OnlyAbout(mailbox', Cur)
    BY <1>1, <1>4 DEF OnDestroy, Receive
  <2>3. /\ pc' = [pc EXCEPT ![Main] = "teardown"] /\ on' = [on EXCEPT ![Main] = Cur]
        /\ reg' = [reg EXCEPT ![Main] = NoHandle] /\ pc[Main] = "idle"
        /\ UNCHANGED <<record, startRequested, nextInstance, nativeVars, fieldVars,
                       tunVars, stateVars>>
    BY <1>4, <2>1 DEF OnDestroy
  <2>4. OneObject'
    BY <2>1, <2>3 DEF OneObject
  <2>5. OneTunnel'
    BY <2>1, <2>3 DEF OneTunnel
  <2>6. ~Beginning
    BY <1>1, <1>4, <2>1 DEF BeginsOff, Beginning, OnDestroy, Receive
  <2>11. ~Beginning'
    BY <2>1, <2>3, <2>6 DEF Beginning
  <2>7. StartsAlone'
    BY <2>1, <2>3 DEF StartsAlone, Failing, Publishing
  <2>8. Wanted'
    BY <2>1, <2>3 DEF Wanted, Due
  <2>9. TakenDown'
    BY <2>1, <2>3 DEF TakenDown
  <2>10. Due'
    BY <2>3 DEF Due
  <2> QED
    BY <2>4, <2>5, <2>11, <2>7, <2>8, <2>9, <2>10 DEF BeginsOff, Settled
<1>5. CASE OnRevoke
  <2>1. /\ \A k : Posted(mailbox, k) <=> k = "revoke" \/ Posted(mailbox', k)
        /\ Head(mailbox).svc = Cur /\ OnlyAbout(mailbox', Cur)
    BY <1>1, <1>5 DEF OnRevoke, Receive
  <2>2. ~startRequested' /\ vpn = NoHandle
    BY <1>5, <2>1 DEF OnRevoke, OneObject, OneTunnel
  <2>3. /\ pc[Main] = "idle"
        /\ UNCHANGED <<record, nextInstance, nativeVars, fieldVars, threadVars, tunVars,
                       stateVars>>
    BY <1>5 DEF OnRevoke
  <2>4. OneObject'
    BY <2>1, <2>2, <2>3 DEF OneObject
  <2>5. OneTunnel'
    BY <2>1, <2>2, <2>3 DEF OneTunnel
  <2>6. ~Beginning
    BY <1>1, <1>5, <2>1 DEF BeginsOff, Beginning, OnRevoke, Receive
  <2>11. ~Beginning'
    BY <2>1, <2>3, <2>6 DEF Beginning
  <2>7. StartsAlone'
    BY <2>3 DEF StartsAlone, Failing, Publishing
  <2>8. Wanted'
    BY <2>1, <2>2, <2>3 DEF Wanted, Due
  <2>9. TakenDown'
    BY <2>3 DEF TakenDown
  <2>10. Settled'
    BY <2>1, <2>2, <2>3 DEF Settled, Due, Off, Up
  <2> QED
    BY <2>4, <2>5, <2>11, <2>7, <2>8, <2>9, <2>10 DEF BeginsOff
<1> QED
  BY <1>2, <1>3, <1>4, <1>5 DEF LooperStep

\* A tun2proxy comes to its run(), or ends because a teardown stopped it.
LEMMA WorkerScreen ==
    ASSUME Known, ScreenInv, "tun2proxy" \notin Faults, NEW h \in Handles, WorkerStep(h),
           UNCHANGED <<events, consent>>
    PROVE  ScreenInv'
<1> USE ConstantFacts
    DEF Known, ScreenInv, Cur, Held, Tun, Lives, Resting,
        TypeOK, NativeTypeOK, FrameworkTypeOK, ServiceTypeOK, WorkerStates,
        nativeVars, frameworkVars, fieldVars, threadVars,
        stateVars, CloseTun
<1>1. /\ Lives(h)
      /\ \A g \in Handles : g # h => ~Lives(g)
      /\ UNCHANGED <<nativeVars, frameworkVars, fieldVars, threadVars, stateVars, consent>>
  BY DEF WorkerStep, EnterRun, QuitRun, LoseRun, OneTunnel, StartsAlone
<1>2. /\ ~Beginning /\ ~Beginning'
      /\ pc[Main] \notin {"start", "boot", "record", "keepHandle", "checkHandle",
                          "establish", "spawn"} \cup Failing
  BY <1>1 DEF Beginning, BeginsOff, StartsAlone
<1>3. \/ /\ worker[h] = "spawned" /\ worker' = [worker EXCEPT ![h] = "running"] /\ vpn' = vpn
      \/ /\ worker' = [worker EXCEPT ![h] = "exited"] /\ vpn' = NoHandle
         /\ vpn # NoHandle => vpn = h /\ worker[h] = "quit"
  <2>1. vpn # NoHandle => vpn = h
    BY <1>1, <1>2 DEF OneTunnel
  <2>2. CASE EnterRun(h)
    BY <1>1, <2>2 DEF EnterRun
  <2>3. CASE QuitRun(h)
    BY <2>1, <2>3 DEF QuitRun
  <2>4. CASE LoseRun(h)
    BY <2>1, <2>4 DEF LoseRun
  <2> QED
    BY <2>2, <2>3, <2>4 DEF WorkerStep
<1>4. OneObject'
  BY <1>1 DEF OneObject
<1>5. OneTunnel'
  BY <1>1, <1>3 DEF OneTunnel
<1>6. StartsAlone'
  <2>1. vpn' = vpn \/ \E t \in Threads : pc[t] \in Critical
    BY <1>3 DEF TakenDown, Critical
  <2>2. pc[Main] \in StartSteps => vpn' = vpn
    BY <2>1 DEF StartsAlone, Critical, StartSteps
  <2> QED
    BY <1>1, <1>2, <1>3, <2>2 DEF StartsAlone, Due, StartSteps, Failing, Publishing
<1>7. Wanted'
  BY <1>1, <1>3 DEF Wanted, Due
<1>8. TakenDown'
  <2>1. \A g \in Handles : worker'[g] = "quit" => worker[g] = "quit"
    BY <1>3
  <2>2. \A t \in Threads : pc[t] \in {"readThread", "join"} /\ vpn' # NoHandle =>
            worker'[vpn'] = "quit"
    BY <1>3 DEF TakenDown
  <2>3. vpn = NoHandle => vpn' = NoHandle
    BY <1>3
  <2> QED
    BY <1>1, <2>1, <2>2, <2>3 DEF TakenDown
<1>9. Settled'
  <2>1. vpn' = vpn \/ (vpn' = NoHandle /\ \E t \in Threads : pc[t] \in Critical)
    BY <1>3 DEF TakenDown, Critical
  <2> QED
    BY <1>1, <2>1 DEF Settled, Due, Off, Up
<1> QED
  BY <1>2, <1>4, <1>5, <1>6, <1>7, <1>8, <1>9 DEF BeginsOff

-----------------------------------------------------------------------------

LEMMA PostedBehind ==
    ASSUME Known, NEW kind \in Kinds, NEW svc \in Instances,
           mailbox' = Append(mailbox, [kind |-> kind, svc |-> svc])
    PROVE  /\ \A k : Posted(mailbox', k) <=> Posted(mailbox, k) \/ kind = k
           /\ \A i : OnlyAbout(mailbox', i) <=> OnlyAbout(mailbox, i) /\ svc = i
           /\ mailbox = <<>> => Len(mailbox') = 1
           /\ mailbox' # <<>>
<1> DEFINE m == [kind |-> kind, svc |-> svc]
<1>1. m \in Messages /\ m.kind = kind /\ m.svc = svc
  BY DEF Messages
<1>2. mailbox \in Seq(Messages)
  BY DEF Known, TypeOK, FrameworkTypeOK
<1>3. mailbox' = Append(mailbox, m)
  OBVIOUS
<1> HIDE DEF m
<1> QED
  BY <1>1, <1>2, <1>3, OnePosted

\* The user starts from nothing.
LEMMA StartIsAsked ==
    ASSUME Known, ScreenInv, StartService("start"), Off, Resting, pc[Main] = "idle",
           \A h \in Handles : ~Lives(h), mailbox = <<>>, record = NoInstance, ~consent',
           UNCHANGED <<nativeVars, fieldVars, threadVars, tunVars, stateVars>>
    PROVE  ScreenInv'
<1> USE ConstantFacts, NothingPosted
    DEF Known, ScreenInv, Cur, Lives, Resting,
        TypeOK, NativeTypeOK, FrameworkTypeOK, ServiceTypeOK,
        nativeVars, fieldVars, threadVars, tunVars, stateVars
<1>1. /\ nextInstance \in Instances /\ Cur' = nextInstance
      /\ record' = Cur' /\ startRequested'
      /\ mailbox' = Append(mailbox, [kind |-> "start", svc |-> nextInstance])
  BY DEF StartService
<1>2. /\ \A k : Posted(mailbox', k) <=> k = "start"
      /\ OnlyAbout(mailbox', Cur') /\ Len(mailbox') = 1
  BY <1>1, PostedBehind DEF Kinds
<1>3. \A t \in Threads : pc'[t] = "idle"
  OBVIOUS
<1>4. Held' = NoHandle /\ Tun' = NoHandle
  BY <1>1 DEF OneObject, Held, Tun
<1>5. Off'
  BY <1>4 DEF Off
<1>6. OneObject'
  BY <1>1, <1>2, <1>3 DEF OneObject
<1>7. OneTunnel'
  BY <1>2, <1>5 DEF OneTunnel, Off
<1>8. BeginsOff'
  BY <1>1, <1>2, <1>3, <1>5 DEF BeginsOff
<1>9. StartsAlone'
  BY <1>3 DEF StartsAlone, Failing, Publishing, StartSteps
<1>10. Wanted'
  BY <1>2, <1>3, <1>5 DEF Wanted, Off, TeardownSteps, Critical
<1>11. TakenDown'
  BY <1>3 DEF TakenDown, Critical
<1>12. Settled'
  BY <1>5 DEF Settled
<1> QED
  BY <1>6, <1>7, <1>8, <1>9, <1>10, <1>11, <1>12

\* Nobody acts, nothing is posted: of all that ScreenInv allows, Off and Up are left.
LEMMA RestIsOffOrUp ==
    ASSUME Known, ScreenInv, Quiescent
    PROVE  /\ \/ Off /\ record = NoInstance
              \/ Up /\ vpn = Held /\ worker[vpn] = "running"
           /\ \A h \in Handles : Lives(h) => vpn = h
           /\ \A k : ~Posted(mailbox, k)
           /\ ~Beginning /\ ~Due /\ Resting /\ pc[Main] = "idle" /\ mailbox = <<>>
<1> USE ConstantFacts, NothingPosted DEF Quiescent, ScreenInv, Known
<1>1. Resting /\ pc[Main] = "idle" /\ mailbox = <<>> /\ \A k : ~Posted(mailbox, k)
  BY DEF Resting
<1>2. ~Beginning /\ ~Due /\ \A t \in Threads : pc[t] \notin Critical
  BY <1>1 DEF Beginning, Due, Critical
<1>3. Off \/ Up
  BY <1>1, <1>2 DEF Settled, StartSteps
<1>4. \A h \in Handles : Lives(h) => vpn = h
  BY DEF Lives
<1>5. Off => record = NoInstance
  <2> SUFFICES ASSUME Off PROVE record = NoInstance
    OBVIOUS
  <2>1. pc[Main] \notin StartSteps
    BY <1>1 DEF StartSteps
  <2>2. ~startRequested
    BY <1>1, <2>1 DEF Off, Wanted
  <2> QED
    BY <2>2 DEF Off
<1>6. Up => vpn = Held /\ worker[vpn] = "running"
  <2> SUFFICES ASSUME Up PROVE vpn = Held /\ worker[vpn] = "running"
    OBVIOUS
  <2>1. vpn # NoHandle /\ record # NoInstance
    BY <1>1 DEF Up, Held, Cur, TypeOK, FrameworkTypeOK
  <2>2. vpn \in Handles /\ Lives(vpn)
    BY <1>1, <2>1 DEF OneTunnel, TypeOK, ServiceTypeOK
  <2> QED
    BY <2>2 DEF Up, OneTunnel, Lives
<1> HIDE DEF Quiescent, ScreenInv, Known
<1> QED
  BY <1>1, <1>2, <1>3, <1>4, <1>5, <1>6

\* Taps, the answer to the consent dialog, a revocation, and Android taking the service
\* down.
LEMMA EventScreen ==
    ASSUME Known, ScreenInv, Patient,
           TapConnect \/ ConsentResult \/ TapDisconnect \/ Revoke
           \/ (DestroyService /\ UNCHANGED <<events, consent>>)
    PROVE  ScreenInv'
<1> USE ConstantFacts
    DEF Known, ScreenInv, Cur, Lives, Resting,
        TypeOK, NativeTypeOK, FrameworkTypeOK, ServiceTypeOK,
        nativeVars, frameworkVars, fieldVars, threadVars, tunVars, stateVars
<1>1. CASE TapConnect
  <2>1. /\ Off /\ record = NoInstance /\ ~Beginning /\ ~consent
        /\ Resting /\ pc[Main] = "idle" /\ mailbox = <<>>
        /\ \A h \in Handles : ~Lives(h)
    BY <1>1, RestIsOffOrUp DEF TapConnect, MayTap, Up, Off
  <2>2. CASE StartService("start") /\ UNCHANGED consent
    BY <1>1, <2>1, <2>2, StartIsAsked DEF TapConnect
  <2>3. CASE consent' = TRUE /\ UNCHANGED frameworkVars
    <3>1. UNCHANGED <<nativeVars, frameworkVars, fieldVars, threadVars, tunVars, stateVars>>
      BY <1>1, <2>3 DEF TapConnect
    <3>2. Off' /\ mailbox' = <<>> /\ consent' /\ pc'[Main] = "idle" /\ record' = NoInstance
      BY <2>1, <2>3, <3>1 DEF Off, Held
    <3>3. Resting' /\ \A h \in Handles : ~Lives(h)'
      BY <2>1, <3>1
    <3>4. BeginsOff'
      BY <3>2, <3>3, NothingPosted DEF BeginsOff
    <3>5. OneObject' /\ OneTunnel'
      BY <3>1 DEF OneObject, OneTunnel, Held, Tun
    <3>6. StartsAlone' /\ Wanted' /\ TakenDown'
      BY <3>1, <3>2
      DEF StartsAlone, Failing, Publishing, Wanted, TakenDown, Due, Held, Tun
    <3> QED
      BY <3>2, <3>4, <3>5, <3>6 DEF Settled
  <2> QED
    BY <1>1, <2>2, <2>3 DEF TapConnect
<1>2. CASE ConsentResult
  <2>1. /\ Off /\ record = NoInstance
        /\ Resting /\ pc[Main] = "idle" /\ mailbox = <<>>
        /\ \A h \in Handles : ~Lives(h)
    BY <1>2 DEF ConsentResult, BeginsOff, Beginning
  <2>2. CASE StartService("start")
    BY <1>2, <2>1, <2>2, StartIsAsked DEF ConsentResult
  <2>3. CASE UNCHANGED frameworkVars
    <3>1. UNCHANGED <<nativeVars, frameworkVars, fieldVars, threadVars, tunVars,
                      stateVars>> /\ ~consent'
      BY <1>2, <2>3 DEF ConsentResult
    <3>2. ~Beginning'
      BY <2>1, <3>1, NothingPosted DEF Beginning
    <3> QED
      BY SMTT(40), <3>1, <3>2
      DEF OneObject, OneTunnel, BeginsOff, StartsAlone, Failing, Publishing, Wanted,
          TakenDown, Settled, Off, Up, Due, Held, Tun
  <2> QED
    BY <1>2, <2>2, <2>3 DEF ConsentResult
<1>3. CASE TapDisconnect
  <2>1. /\ Up /\ vpn = Held /\ worker[vpn] = "running" /\ ~Beginning /\ ~consent
        /\ Resting /\ pc[Main] = "idle" /\ mailbox = <<>> /\ \A k : ~Posted(mailbox, k)
    BY <1>3, RestIsOffOrUp DEF TapDisconnect, MayTap, Off, Beginning
  <2>2. record = Cur /\ record # NoInstance
    BY <2>1 DEF Up, Held
  <2>3. /\ mailbox' = Append(mailbox, [kind |-> "stop", svc |-> Cur])
        /\ startRequested' /\ UNCHANGED <<record, nextInstance, consent>>
        /\ UNCHANGED <<nativeVars, fieldVars, threadVars, tunVars, stateVars>>
    BY <1>3, <2>2 DEF TapDisconnect, StartService
  <2>4. (\A k : Posted(mailbox', k) <=> k = "stop") /\ OnlyAbout(mailbox', Cur)
    BY <2>1, <2>2, <2>3, PostedBehind DEF Kinds, OneObject
  <2>5. ~Beginning' /\ Due'
    BY <2>1, <2>3, <2>4 DEF Beginning, Due
  <2>6. OneObject'
    BY <2>2, <2>3, <2>4 DEF OneObject
  <2>7. OneTunnel'
    BY <2>3, <2>4 DEF OneTunnel, Held, Tun
  <2>8. StartsAlone'
    BY <2>1, <2>3 DEF StartsAlone, Failing, Publishing, StartSteps
  <2>9. Wanted'
    BY <2>1, <2>3, <2>4 DEF Wanted, TeardownSteps, Critical
  <2>10. TakenDown'
    BY <2>3 DEF TakenDown, Held, Tun
  <2> QED
    BY <2>5, <2>6, <2>7, <2>8, <2>9, <2>10 DEF BeginsOff, Settled
<1>4. CASE Revoke
  <2>1. vpn # NoHandle /\ vpn' = NoHandle /\ ~Beginning /\ record # NoInstance /\ record = Cur
    BY <1>4 DEF Revoke, PostRevoke, BeginsOff, Off, OneObject
  <2>2. /\ mailbox' = Append(mailbox, [kind |-> "revoke", svc |-> Cur])
        /\ UNCHANGED <<record, startRequested, nextInstance, consent>>
        /\ UNCHANGED <<nativeVars, fieldVars, threadVars, worker, stateVars>>
    BY <1>4, <2>1 DEF Revoke, PostRevoke
  <2>3. /\ \A k : Posted(mailbox', k) <=> Posted(mailbox, k) \/ k = "revoke"
        /\ OnlyAbout(mailbox', Cur)
    BY <2>1, <2>2, PostedBehind DEF Kinds, OneObject
  <2>4. ~Beginning' /\ (Due' <=> Due)
    BY <2>1, <2>2, <2>3 DEF Beginning, Due
  <2>5. OneObject'
    BY <2>1, <2>2, <2>3 DEF OneObject
  <2>6. OneTunnel'
    BY <2>1, <2>2, <2>3 DEF OneTunnel, Held, Tun
  <2>7. StartsAlone'
    BY <2>1, <2>2, <2>3, <2>4 DEF StartsAlone, Held, Tun
  <2>8. Wanted'
    BY <2>1, <2>2, <2>3 DEF Wanted
  <2>9. TakenDown'
    BY <2>1, <2>2 DEF TakenDown, Held, Tun
  <2>10. Settled'
    BY <2>1, <2>2, <2>3, <2>4 DEF Settled, Off, Up, Held, Tun
  <2> QED
    BY <2>4, <2>5, <2>6, <2>7, <2>8, <2>9, <2>10 DEF BeginsOff
<1>5. CASE DestroyService /\ UNCHANGED <<events, consent>>
  <2>1. record # NoInstance /\ record = Cur /\ ~startRequested /\ ~Beginning
    BY <1>5 DEF DestroyService, BringDown, OneObject, BeginsOff
  <2>2. /\ mailbox' = Append(mailbox, [kind |-> "destroy", svc |-> Cur])
        /\ record' = NoInstance
        /\ UNCHANGED <<startRequested, nextInstance, consent>>
        /\ UNCHANGED <<nativeVars, fieldVars, threadVars, tunVars, stateVars>>
    BY <1>5, <2>1 DEF DestroyService, BringDown
  <2>3. /\ \A k : Posted(mailbox', k) <=> Posted(mailbox, k) \/ k = "destroy"
        /\ OnlyAbout(mailbox', Cur)
    BY <2>1, <2>2, PostedBehind DEF Kinds, OneObject
  <2>4. ~Beginning' /\ Due' /\ pc[Main] \notin StartSteps
    BY <2>1, <2>2, <2>3 DEF Beginning, Due, StartsAlone
  <2>5. OneObject'
    BY <2>1, <2>2, <2>3 DEF OneObject
  <2>6. OneTunnel'
    BY <2>2, <2>3 DEF OneTunnel, Held, Tun
  <2>7. StartsAlone'
    BY <2>2, <2>4 DEF StartsAlone, Failing, Publishing, StartSteps
  <2>8. Wanted'
    BY <2>1, <2>2, <2>3 DEF Wanted
  <2>9. TakenDown'
    BY <2>2 DEF TakenDown, Held, Tun
  <2> QED
    BY <2>4, <2>5, <2>6, <2>7, <2>8, <2>9 DEF BeginsOff, Settled
<1> QED
  BY <1>1, <1>2, <1>3, <1>4, <1>5

\* A process that is gone leaves nothing, but perhaps a service to create again.
LEMMA KilledScreen == Known /\ ScreenInv /\ ProcessKilled => ScreenInv'
<1> SUFFICES ASSUME Known, ScreenInv, ProcessKilled PROVE ScreenInv'
  OBVIOUS
<1>1. /\ slots' = {} /\ vpn' = NoHandle /\ ~isRunning' /\ shownHandle' = NoHandle
      /\ proxyHandle' = [i \in Instances |-> NoHandle]
      /\ tunThread' = [i \in Instances |-> NoHandle]
      /\ pc' = [t \in Threads |-> "idle"]
      /\ worker' = [h \in Handles |-> "none"]
      /\ consent' \in {FALSE, consent}
  BY DEF ProcessKilled
<1>2. Off' /\ Resting' /\ \A t \in Threads : pc'[t] = "idle"
  BY <1>1, ConstantFacts DEF Off, Held, Resting
<1>3. \A h \in Handles : worker'[h] = "none" /\ ~Lives(h)'
  BY <1>1 DEF Lives
<1>4. consent' => record = NoInstance /\ ~startRequested
  BY <1>1 DEF ScreenInv, BeginsOff, Beginning, OneObject
<1>5. \/ /\ record' = 1 /\ startRequested' /\ nextInstance' = 2 /\ ~consent'
         /\ mailbox' = <<[kind |-> "start", svc |-> 1]>>
      \/ /\ record' = NoInstance /\ ~startRequested' /\ nextInstance' = 1 /\ mailbox' = <<>>
  BY <1>4 DEF ProcessKilled, RestartOrForget
<1>6. /\ Cur' \in {0, 1} /\ record' \in {NoInstance, Cur'} /\ OnlyAbout(mailbox', Cur')
      /\ startRequested' <=> mailbox' # <<>>
      /\ record' = NoInstance <=> mailbox' = <<>>
      /\ mailbox' # <<>> => ~consent' /\ Len(mailbox') = 1
      /\ \A k : Posted(mailbox', k) => k = "start"
      /\ mailbox' # <<>> => Posted(mailbox', "start")
  BY <1>5, NothingPosted DEF Cur, OnlyAbout, Posted
<1>7. OneObject'
  BY <1>1, <1>2, <1>6 DEF OneObject
<1>8. OneTunnel'
  BY <1>2, <1>3, <1>6 DEF OneTunnel, Off
<1>9. BeginsOff'
  <2>1. pc'[Main] = "idle"
    BY <1>2
  <2>2. Beginning' => consent' \/ mailbox' # <<>>
    BY <2>1, NothingPosted DEF Beginning
  <2> QED
    BY <1>2, <1>3, <1>6, <2>1, <2>2, NothingPosted DEF BeginsOff
<1>10. StartsAlone'
  BY <1>2, ConstantFacts DEF StartsAlone, Failing, Publishing, StartSteps
<1>11. Wanted'
  BY <1>2, <1>6, ConstantFacts DEF Wanted, Off, TeardownSteps, Critical
<1>12. TakenDown'
  BY <1>2, <1>3 DEF TakenDown, Critical
<1>13. Settled'
  BY <1>2 DEF Settled
<1> QED
  BY <1>7, <1>8, <1>9, <1>10, <1>11, <1>12, <1>13 DEF ScreenInv

LEMMA InitScreenInv == Init => ScreenInv
<1> SUFFICES ASSUME Init PROVE ScreenInv
  OBVIOUS
<1>1. /\ slots = {} /\ vpn = NoHandle /\ ~isRunning /\ shownHandle = NoHandle
      /\ mailbox = <<>> /\ record = NoInstance /\ ~startRequested /\ ~consent /\ Cur = 0
  BY DEF Init, NativeInit, FrameworkInit, ServiceInit, Cur
<1>2. /\ \A t \in Threads : pc[t] = "idle"
      /\ \A h \in Handles : worker[h] = "none"
      /\ \A i \in Instances : proxyHandle[i] = NoHandle /\ tunThread[i] = NoHandle
  BY DEF Init, ServiceInit
<1>3. Off /\ ~Beginning
  BY <1>1, <1>2, NothingPosted, ConstantFacts DEF Off, Held, Beginning
<1>4. OneObject /\ OneTunnel
  BY <1>1, <1>2, NothingPosted DEF OneObject, OneTunnel, Lives
<1>5. StartsAlone /\ TakenDown
  BY <1>2, ConstantFacts DEF StartsAlone, TakenDown, StartSteps, Critical, Failing, Publishing
<1>6. Wanted
  BY <1>1, <1>2, NothingPosted, ConstantFacts DEF Wanted, TeardownSteps, Critical
<1> QED
  BY <1>3, <1>4, <1>5, <1>6 DEF ScreenInv, BeginsOff, Settled

LEMMA SameScreen ==
    ASSUME ScreenInv,
           UNCHANGED <<slots, frameworkVars, fieldVars, threadVars, tunVars, stateVars, consent>>
    PROVE  ScreenInv'
  BY DEF frameworkVars, fieldVars, threadVars, tunVars, stateVars,
         ScreenInv, Cur, Held, Tun, Lives, Resting, Beginning, Due, Off, Up, OneObject,
         OneTunnel, BeginsOff, StartsAlone, Wanted, TakenDown, Settled

-----------------------------------------------------------------------------

LEMMA NextScreenInv ==
    ASSUME Patient, "tun2proxy" \notin Faults, "slow" \notin Faults,
           Known, ScreenInv, [Next]_vars
    PROVE  ScreenInv'
<1>1. CASE AppStep /\ UNCHANGED <<events, consent>>
  <2>1. ASSUME NEW t \in Threads, StopProxyStep(t) PROVE ScreenInv'
    <3>1. CASE pc[t] \in TeardownSteps
      BY <1>1, <2>1, <3>1, TeardownScreen
    <3>2. CASE pc[t] \notin TeardownSteps
      <4>1. t = Main /\ pc[t] \in StartSteps
        BY <2>1, <3>2 DEF Known, TypeOK, ServiceTypeOK, StopProxyStep, ReadArgument, Reading,
           RemoveRecord, Removing, ShutRuntime, Stopping, ForgetHandle, Forgetting
      <4> QED
        BY <1>1, <2>1, <4>1, StartScreen
    <3> QED
      BY <3>1, <3>2
  <2>2. ASSUME NEW h \in Handles, LateEnd(h) PROVE ScreenInv'
    <3>1. UNCHANGED <<slots, frameworkVars, fieldVars, threadVars, tunVars, stateVars, consent>>
      BY <1>1, <2>2 DEF LateEnd, RuntimeEnds
    <3> QED
      BY <3>1, SameScreen
  <2> QED
    BY <1>1, <2>1, <2>2, StartScreen, LooperScreen, TeardownScreen, WorkerScreen, EventScreen
    DEF AppStep
<1>2. CASE TapConnect \/ ConsentResult \/ TapDisconnect \/ Revoke
  BY <1>2, EventScreen
<1>3. CASE ProcessKilled
  BY <1>3, KilledScreen
<1>4. CASE UNCHANGED vars
  BY <1>4, SameScreen DEF vars, nativeVars
<1> QED
  BY <1>1, <1>2, <1>3, <1>4 DEF Next

\* Off and Up are the two sides of ScreenAgrees.
LEMMA RestIsShown == Known /\ ScreenInv => ScreenAgrees
<1> SUFFICES ASSUME Known, ScreenInv, Quiescent PROVE ScreenAgrees
  BY DEF ScreenAgrees
<1>1. CASE Off
  <2>1. \A t \in Threads : pc[t] = "idle"
    BY DEF Quiescent
  <2>2. \A h \in Handles : ~Alive(h)
    BY <1>1, <2>1 DEF Known, HandleInv, OnRecord, Holding, Stopping, Off
  <2> QED
    BY <1>1, <2>2 DEF ScreenAgrees, Off
<1>2. CASE Up /\ vpn = Held /\ worker[vpn] = "running"
  <2>1. Held # NoHandle /\ record = Cur /\ Held = proxyHandle[record] /\ record # NoInstance
    BY <1>2 DEF Up, Held
  <2>2. Alive(Held)
    BY <1>2 DEF Up, Known, HandleInv
  <2> QED
    BY <1>2, <2>1, <2>2 DEF ScreenAgrees, Up
<1> QED
  BY <1>1, <1>2, RestIsOffOrUp

LEMMA ScreenInvariant ==
    ASSUME Patient, "tun2proxy" \notin Faults, "slow" \notin Faults
    PROVE  Spec => [](Known /\ ScreenInv)
<1>1. Init => Known /\ ScreenInv
  BY InitTypeOK, InitHandleInv, InitExclusive, InitScreenInv DEF Known
<1>2. Known /\ [Next]_vars => Known'
  BY NextTypeOK, NextHandleInv, NextExclusive DEF Known
<1>3. Known /\ ScreenInv /\ [Next]_vars => (Known /\ ScreenInv)'
  BY <1>2, NextScreenInv
<1> QED
  BY <1>1, <1>3, PTL DEF Spec

\* To a user who waits for the app to come to rest before tapping again, the screen is
\* right whenever it is at rest: "Running" is the live service object's proxy, recorded,
\* shown, and at the end of the TUN; "Stopped" is nothing left.  Whatever fails at the
\* start, whoever revokes the VPN or kills the process; not so where a tun2proxy ends
\* unasked or outlives its stop(), for which the code has no answer
\* (VpnState.kt:7, MmdfVpnService.kt:100-115, 129-130, 133-146).
THEOREM ScreenIsRight ==
    ASSUME Patient, "tun2proxy" \notin Faults, "slow" \notin Faults
    PROVE  Spec => []ScreenAgrees
<1>1. Known /\ ScreenInv => ScreenAgrees
  BY RestIsShown
<1> QED
  BY <1>1, ScreenInvariant, PTL

\* With that user, whatever fails, no runtime that is alive is out of reach of a stop:
\* its number is in the field of a service object that Android still has or that is
\* still to be torn down, or with the thread that starts or stops it
\* (MmdfVpnService.kt:56, 140-141).
THEOREM NoRuntimeLost ==
    ASSUME Patient, "tun2proxy" \notin Faults, "slow" \notin Faults
    PROVE  Spec => []NoLostRuntime
<1>1. ASSUME Known, ScreenInv PROVE NoLostRuntime
  <2> SUFFICES ASSUME NEW h \in Handles, Alive(h) PROVE Reachable(h)
    BY DEF NoLostRuntime
  <2> USE <1>1 DEF Known, ScreenInv
  <2>1. CASE \E t \in Threads : reg[t] = h /\ pc[t] \in Holding
    BY <2>1 DEF Holding, Reachable
  <2>2. CASE h \in slots /\ pc[Main] = "keepHandle"
    <3>1. reg[Main] = h
      BY <2>2 DEF StartsAlone
    <3> QED
      BY <2>2, <3>1 DEF Reachable
  <2>3. CASE h \in slots /\ pc[Main] # "keepHandle"
    <3>1. Held = h /\ Cur \in Instances /\ proxyHandle[Cur] = h
      BY <2>3 DEF OneTunnel, Held
    <3>2. CASE record = Cur
      BY <3>1, <3>2 DEF Reachable, Attended
    <3>3. CASE record # Cur
      <4>1. record = NoInstance /\ pc[Main] \notin StartSteps
        BY <3>3 DEF OneObject, StartsAlone
      <4>2. Due \/ \E t \in Threads : pc[t] \in Critical
        BY <2>3, <3>3, <4>1 DEF Settled, Off, Up
      <4>3. CASE Posted(mailbox, "stop") \/ Posted(mailbox, "destroy")
        <5>1. Attended(Cur)
          BY <4>3 DEF Posted, OneObject, OnlyAbout, Attended
        <5> QED
          BY <3>1, <5>1 DEF Reachable
      <4>4. ASSUME NEW t \in Threads, pc[t] \in Critical \cup {"teardown"}
            PROVE  Reachable(h)
        <5>1. on[t] = Cur
          BY <4>4 DEF OneObject, Critical
        <5>2. CASE pc[t] \in {"teardown", "stopTun", "readThread", "join", "checkProxy",
                              "readProxy"}
          BY <3>1, <5>1, <5>2 DEF Reachable, Attended
        <5>3. CASE pc[t] = "removeProxy"
          BY <3>1, <5>3 DEF TakenDown, Reachable, Removing
        <5>4. pc[t] \notin {"shutProxy", "forgetProxy", "clearHandle", "clearRunning",
                           "rearm"}
          BY <2>3, <3>1 DEF TakenDown
        <5> QED
          BY <4>4, <5>2, <5>3, <5>4 DEF Critical
      <4> QED
        BY <4>2, <4>3, <4>4 DEF Due
    <3> QED
      BY <3>2, <3>3
  <2> QED
    BY <2>1, <2>2, <2>3 DEF HandleInv, OnRecord
<1> QED
  BY <1>1, ScreenInvariant, PTL

\* With that user, no proxy is ever started beside one that is alive, so that none is
\* kept from its ports by an earlier one of the app that nobody stopped
\* (MmdfVpnService.kt:55-60).
THEOREM ProxyStartsAlone ==
    ASSUME Patient, "tun2proxy" \notin Faults, "slow" \notin Faults
    PROVE  Spec => []StartsOnlyProxy
<1>1. ASSUME Known, ScreenInv, pc[Main] = "boot", NEW h \in Handles PROVE ~Alive(h)
  <2>1. slots = {} /\ Resting
    BY <1>1 DEF ScreenInv, BeginsOff, Beginning, Off
  <2>2. \A t \in Threads : pc[t] \notin Holding
    BY <1>1, <2>1 DEF Resting, Holding, Stopping
  <2> QED
    BY <1>1, <2>1, <2>2 DEF Known, HandleInv, OnRecord
<1>2. Known /\ ScreenInv => StartsOnlyProxy
  BY <1>1 DEF StartsOnlyProxy
<1> QED
  BY <1>2, ScreenInvariant, PTL

=============================================================================
