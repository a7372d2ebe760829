----------------------------- MODULE StatsPoller -----------------------------
(***************************************************************************)
(* What HomeScreen shows of a running proxy, and where it comes from: the  *)
(* log ring of android_jni.rs, statsJson, drainLogs, the two StateFlows of *)
(* VpnState and the coroutine that polls every two seconds.                *)
(*                                                                         *)
(* The screen sees the StateFlows when it is recomposed, so values in      *)
(* between are conflated; the coroutine reads them directly.  It is        *)
(* cancelled and begun anew when one of its two keys has changed; what it  *)
(* waits for from Dispatchers.IO is then discarded.                        *)
(***************************************************************************)
EXTENDS Naturals, Sequences, SequencesExt

CONSTANTS
    RingCap,    \* RING_CAP (500)
    ScreenCap   \* lines the screen keeps (80)

ASSUME CapAssumption == RingCap \in Nat \ {0} /\ ScreenCap \in Nat \ {0}

VARIABLES
    isRunning, vpnHandle,     \* VpnState
    ring, logged,             \* the log ring, and how many lines were ever logged
    seenRunning, seenHandle,  \* VpnState as the screen was last composed
    poll,                     \* where the poller is
    asked,                    \* h, its handle of this round
    answer,                   \* a result on its way from Dispatchers.IO
    stats, logs               \* what is on the screen

stateVars  == <<isRunning, vpnHandle>>
ringVars   == <<ring, logged>>
screenVars == <<seenRunning, seenHandle, poll, asked, answer, stats, logs>>

NoStats == <<>>
Latest(lines, n) == SubSeq(lines, IF Len(lines) > n THEN Len(lines) - n + 1 ELSE 1, Len(lines))

PollerInit ==
    /\ isRunning = FALSE /\ vpnHandle = 0
    /\ ring = <<>> /\ logged = 0
    /\ seenRunning = FALSE /\ seenHandle = 0
    /\ poll = "begin"
    /\ asked = 0 /\ answer = <<>>
    /\ stats = NoStats /\ logs = <<>>

\* Mutant: nothing is dropped for the new line.
LogUnbounded ==
    /\ logged' = logged + 1
    /\ ring' = Append(ring, logged')

\* LogcatWriter::write, one line: the oldest goes when the ring is full.
Log ==
    /\ logged' = logged + 1
    /\ ring' = Latest(Append(ring, logged'), RingCap)

-----------------------------------------------------------------------------

\* Mutants: LaunchedEffect has one of the two keys only.
RecomposeOnRunning ==
    /\ seenRunning # isRunning
    /\ seenRunning' = isRunning /\ seenHandle' = vpnHandle
    /\ poll' = "begin" /\ asked' = 0 /\ answer' = <<>>
    /\ ring' \in {ring} \cup (IF poll = "logs" THEN {<<>>} ELSE {})
    /\ UNCHANGED <<stateVars, logged, stats, logs>>

RecomposeOnHandle ==
    /\ seenHandle # vpnHandle
    /\ seenRunning' = isRunning /\ seenHandle' = vpnHandle
    /\ poll' = "begin" /\ asked' = 0 /\ answer' = <<>>
    /\ ring' \in {ring} \cup (IF poll = "logs" THEN {<<>>} ELSE {})
    /\ UNCHANGED <<stateVars, logged, stats, logs>>

\* LaunchedEffect(running, handle) with a new key.  A drainLogs that already runs for the
\* cancelled coroutine takes its lines out of the ring for nobody.
Recompose ==
    /\ <<seenRunning, seenHandle>> # stateVars
    /\ seenRunning' = isRunning /\ seenHandle' = vpnHandle
    /\ poll' = "begin" /\ asked' = 0 /\ answer' = <<>>
    /\ ring' \in {ring} \cup (IF poll = "logs" THEN {<<>>} ELSE {})
    /\ UNCHANGED <<stateVars, logged, stats, logs>>

\* The loop's condition.
Loop == poll' = IF isRunning THEN "delay" ELSE "off"

Begin ==
    /\ poll = "begin"
    /\ \/ ~seenRunning /\ stats' = NoStats /\ poll' = "off"
       \/ seenRunning /\ Loop /\ UNCHANGED stats
    /\ UNCHANGED <<stateVars, ringVars, seenRunning, seenHandle, asked, answer, logs>>

DelayOver ==
    /\ poll = "delay"
    /\ asked' = vpnHandle
    /\ poll' = IF vpnHandle # 0 THEN "stats" ELSE "logs"
    /\ UNCHANGED <<stateVars, ringVars, seenRunning, seenHandle, answer, stats, logs>>

\* statsJson in Dispatchers.IO: empty for a handle that is not in the table.
StatsJson(slots, conns) ==
    /\ poll = "stats"
    /\ answer' = IF asked \in slots THEN <<asked, conns>> ELSE NoStats
    /\ poll' = "statsDone" /\ asked' = 0
    /\ UNCHANGED <<stateVars, ringVars, seenRunning, seenHandle, stats, logs>>

ShowStats ==
    /\ poll = "statsDone"
    /\ stats' = IF answer # NoStats THEN answer ELSE stats
    /\ poll' = "logs" /\ answer' = <<>>
    /\ UNCHANGED <<stateVars, ringVars, seenRunning, seenHandle, asked, logs>>

\* Mutant: the lines are read and left in the ring.
DrainLogsKept ==
    /\ poll = "logs"
    /\ answer' = ring
    /\ poll' = "logsDone"
    /\ UNCHANGED <<stateVars, ringVars, seenRunning, seenHandle, asked, stats, logs>>

DrainLogs ==
    /\ poll = "logs"
    /\ answer' = ring
    /\ ring' = <<>>
    /\ poll' = "logsDone"
    /\ UNCHANGED <<stateVars, logged, seenRunning, seenHandle, asked, stats, logs>>

ShowLogs ==
    /\ poll = "logsDone"
    /\ logs' = Latest(logs \o answer, ScreenCap)
    /\ Loop /\ answer' = <<>>
    /\ UNCHANGED <<stateVars, ringVars, seenRunning, seenHandle, asked, stats>>

PollerStep(slots, conns) ==
    \/ Recompose \/ Begin
    \/ DelayOver \/ StatsJson(slots, conns) \/ ShowStats \/ DrainLogs \/ ShowLogs

=============================================================================
