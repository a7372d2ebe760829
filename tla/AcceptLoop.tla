----------------------------- MODULE AcceptLoop -----------------------------
(***************************************************************************)
(* ProxyServer::run (proxy_server.rs) and the connections it takes in: one *)
(* select! over the stop channel and two listeners, which differ in nothing *)
(* that matters here, and a task of its own for every connection.  What a  *)
(* task does with its connection is PlainHttp and Tunnel.                  *)
(***************************************************************************)
EXTENDS Naturals

CONSTANT MaxClients   \* bound: connections made in a behaviour

ASSUME MaxClientsAssumption == MaxClients \in Nat

VARIABLES
    open,      \* are the listeners bound?
    arrived,   \* connections made so far
    backlog,   \* those the kernel holds for accept
    tasks,     \* those that have a task
    conns      \* Stats.conns of the latest ProxyServer

acceptVars == <<open, arrived, backlog, tasks, conns>>

AcceptTypeOK ==
    /\ open \in BOOLEAN
    /\ arrived \in 0..MaxClients /\ backlog \in 0..MaxClients
    /\ tasks \in 0..MaxClients /\ conns \in 0..MaxClients

AcceptInit ==
    /\ open = FALSE
    /\ arrived = 0 /\ backlog = 0 /\ tasks = 0 /\ conns = 0

\* ProxyServer::new and the two binds: both succeed or run returns.
Bind(succeeds) ==
    /\ open' = succeeds
    /\ conns' = 0
    /\ UNCHANGED <<arrived, backlog, tasks>>

\* External: the kernel completes the handshake whatever the loop is doing.
ClientConnects ==
    /\ open /\ arrived < MaxClients
    /\ arrived' = arrived + 1
    /\ backlog' = backlog + 1
    /\ UNCHANGED <<open, tasks, conns>>

\* Mutant: the handler is awaited in the loop instead of spawned.
AcceptInline ==
    /\ open /\ backlog > 0 /\ tasks = 0
    /\ backlog' = backlog - 1
    /\ tasks' = tasks + 1
    /\ conns' = conns + 1
    /\ UNCHANGED <<open, arrived>>

\* An accepted connection gets a task, which counts it before it reads anything.  (An
\* accept that fails is dropped and the loop goes on: nothing changes.)
Accept ==
    /\ open /\ backlog > 0
    /\ backlog' = backlog - 1
    /\ tasks' = tasks + 1
    /\ conns' = conns + 1
    /\ UNCHANGED <<open, arrived>>

TaskEnds ==
    /\ tasks > 0
    /\ tasks' = tasks - 1
    /\ UNCHANGED <<open, arrived, backlog, conns>>

\* The loop sees the stop channel; leaving it drops the listeners, and with them what
\* waits there, but not the tasks.
StopSeen ==
    /\ open
    /\ open' = FALSE
    /\ backlog' = 0
    /\ UNCHANGED <<arrived, tasks, conns>>

\* The runtime goes and takes the loop, if it has not seen its stop, and every task.
RuntimeGone ==
    /\ open' = FALSE
    /\ backlog' = 0 /\ tasks' = 0
    /\ UNCHANGED <<arrived, conns>>

=============================================================================
