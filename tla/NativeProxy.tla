---------------------------- MODULE NativeProxy ----------------------------
(***************************************************************************)
(* The native handle table of android_jni.rs: startProxy, stopProxy and    *)
(* the slots map, with as much of ProxyServer::run as the table's clients  *)
(* can observe, namely whether the two listeners are bound.                *)
(*                                                                         *)
(* startProxy is two steps, because it spawns the run loop, sleeps 400 ms  *)
(* while the loop binds, and only then takes a handle and records it.      *)
(* stopProxy is two steps, because the slots lock is released before the   *)
(* runtime is shut down; it waits for that 5 s at most, and a runtime that *)
(* takes longer ends on its own later.  A proxy is identified by the       *)
(* handle it will get: only the service's main thread calls startProxy,    *)
(* one call at a time.                                                     *)
(***************************************************************************)
EXTENDS Naturals

CONSTANT MaxHandles   \* bound: proxies started in one process

ASSUME MaxHandlesAssumption == MaxHandles \in Nat \ {0}

VARIABLES
    slots,        \* handles recorded in slots()
    nextHandle,   \* NEXT_HANDLE
    proxy         \* [Handles -> ProxyStates]: the runtime behind each handle

nativeVars == <<slots, nextHandle, proxy>>

Handles     == 1..MaxHandles
NoHandle    == 0
ProxyStates == {"none", "listening", "deaf", "leaving", "closed"}

NativeTypeOK ==
    /\ slots \subseteq Handles
    /\ nextHandle \in 1..(MaxHandles + 1)
    /\ proxy \in [Handles -> ProxyStates]

NativeInit ==
    /\ slots = {}
    /\ nextHandle = 1
    /\ proxy = [h \in Handles |-> "none"]

\* A run loop has the ports: for certain, or until its runtime is gone.
PortsHeld  == \E h \in slots : proxy[h] = "listening"
PortsTaken == \E h \in Handles : proxy[h] \in {"listening", "leaving"}

\* Nobody has told the runtime to end; somebody has.
Alive(h)   == proxy[h] \in {"listening", "deaf"}
Stopped(h) == proxy[h] \in {"leaving", "closed"}

\* startProxy up to the sleep: the run loop binds both ports or, when one of
\* them is taken, returns an error that `let _ = srv.run(rx).await` drops and
\* leaves a runtime that serves nothing ("deaf").
SpawnRun(portsBusy) ==
    /\ nextHandle \in Handles
    /\ proxy' = [proxy EXCEPT ![nextHandle] =
                    IF PortsHeld \/ portsBusy THEN "deaf" ELSE "listening"]
    /\ UNCHANGED <<slots, nextHandle>>

\* Mutant: the counter is not advanced.
RecordHandleReused ==
    /\ nextHandle \in Handles
    /\ slots' = slots \cup {nextHandle}
    /\ UNCHANGED <<nextHandle, proxy>>

\* The rest of startProxy: the handle is taken, recorded and returned.
RecordHandle ==
    /\ nextHandle \in Handles
    /\ slots' = slots \cup {nextHandle}
    /\ nextHandle' = nextHandle + 1
    /\ UNCHANGED proxy

\* Mutant: the record is looked up and left in the table.
RemoveSlotKept(h) == UNCHANGED nativeVars

\* stopProxy: the record leaves the table; Removed(h) is what the caller goes on
\* to shut down, nothing for a handle the table does not hold.
RemoveSlot(h) ==
    /\ slots' = slots \ {h}
    /\ UNCHANGED <<nextHandle, proxy>>

Removed(h) == IF h \in slots THEN h ELSE NoHandle

\* Mutant: the runtime is forgotten instead of shut down, and keeps its listeners.
ShutDownForgotten(h, overrun) == UNCHANGED nativeVars

\* The end of stopProxy: the run loop is told to end, and the runtime is gone, its
\* listeners with it, unless that takes longer than shutdown_timeout's 5 s.
ShutDown(h, overrun) ==
    /\ proxy' = [p \in Handles |-> IF p # h THEN proxy[p]
                                  ELSE IF overrun THEN "leaving" ELSE "closed"]
    /\ UNCHANGED <<slots, nextHandle>>

\* A runtime that took longer ends.
RuntimeEnds(h) ==
    /\ proxy[h] = "leaving"
    /\ proxy' = [proxy EXCEPT ![h] = "closed"]
    /\ UNCHANGED <<slots, nextHandle>>

=============================================================================
