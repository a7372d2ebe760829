--------------------------- MODULE ServiceManager ---------------------------
(***************************************************************************)
(* External: what Android's ActivityManager and the main looper do with    *)
(* the calls the app makes -- Context.startService (MainActivity.kt:79 and *)
(* :105), Service.stopSelf (MmdfVpnService.kt:38, 64, 91, 125) -- and with  *)
(* the callbacks they cause, onStartCommand and onDestroy.                 *)
(*                                                                         *)
(* A service object is created for a service record and numbered by        *)
(* creation order.  startService creates the record when there is none and *)
(* posts the intent on the main looper; stopSelf, which carries no         *)
(* startId, withdraws the start request whatever was posted since; a       *)
(* record that is no longer requested is brought down, at some later time  *)
(* (at once, or when the system has dropped its own binding to a VPN       *)
(* service), by posting onDestroy.                                         *)
(***************************************************************************)
EXTENDS Naturals, Sequences

CONSTANT MaxInstances   \* bound: service objects created in one process

ASSUME MaxInstancesAssumption == MaxInstances \in Nat \ {0}

VARIABLES
    record,          \* service object of the live service record, or NoInstance
    startRequested,  \* the record's "started" flag
    nextInstance,    \* number of the next service object
    mailbox          \* messages posted on the main looper, oldest first

frameworkVars == <<record, startRequested, nextInstance, mailbox>>

Instances  == 1..MaxInstances
NoInstance == 0
Kinds      == {"start", "stop", "destroy", "revoke"}
Messages   == [kind : Kinds, svc : Instances]

FrameworkTypeOK ==
    /\ record \in Instances \cup {NoInstance}
    /\ startRequested \in BOOLEAN
    /\ nextInstance \in 1..(MaxInstances + 1)
    /\ mailbox \in Seq(Messages)

FrameworkInit ==
    /\ record = NoInstance
    /\ startRequested = FALSE
    /\ nextInstance = 1
    /\ mailbox = <<>>

\* Context.startService with the default action ("start") or ACTION_STOP ("stop").
StartService(kind) ==
    LET svc == IF record = NoInstance THEN nextInstance ELSE record IN
    /\ svc \in Instances
    /\ record' = svc
    /\ nextInstance' = IF record = NoInstance THEN nextInstance + 1 ELSE nextInstance
    /\ startRequested' = TRUE
    /\ mailbox' = Append(mailbox, [kind |-> kind, svc |-> svc])

\* Service.stopSelf() of object i: a no-op for an object whose record is gone.
StopSelf(i) ==
    /\ startRequested' = IF record = i THEN FALSE ELSE startRequested
    /\ UNCHANGED <<record, nextInstance, mailbox>>

\* The record is brought down: onDestroy is posted behind what is already queued.
BringDown ==
    /\ record # NoInstance
    /\ ~startRequested
    /\ record' = NoInstance
    /\ mailbox' = Append(mailbox, [kind |-> "destroy", svc |-> record])
    /\ UNCHANGED <<startRequested, nextInstance>>

\* Another VPN app takes over: onRevoke is posted for the live service object.
PostRevoke ==
    /\ record # NoInstance
    /\ mailbox' = Append(mailbox, [kind |-> "revoke", svc |-> record])
    /\ UNCHANGED <<record, startRequested, nextInstance>>

\* The main looper takes its oldest message.
Receive(kind) ==
    /\ mailbox # <<>>
    /\ Head(mailbox).kind = kind
    /\ mailbox' = Tail(mailbox)

\* The process is gone.  The system re-creates a service that was started and
\* returned START_STICKY, with a null intent (MmdfVpnService.kt:42-45), or gives up.
RestartOrForget ==
    \/ /\ startRequested
       /\ record' = 1
       /\ startRequested' = TRUE
       /\ nextInstance' = 2
       /\ mailbox' = <<[kind |-> "start", svc |-> 1]>>
    \/ /\ record' = NoInstance
       /\ startRequested' = FALSE
       /\ nextInstance' = 1
       /\ mailbox' = <<>>

=============================================================================
