--------------------------- MODULE LiveProxyProofs ---------------------------
(***************************************************************************)
(* The screen shows log lines in order: for any number of restarts and     *)
(* connections, and all sizes of the ring and of the screen.               *)
(***************************************************************************)
EXTENDS LiveProxy, SequenceTheorems, TLAPS

LEMMA ConstantFacts ==
    /\ MaxHandles \in Nat \ {0} /\ MaxClients \in Nat
    /\ RingCap \in Nat \ {0} /\ ScreenCap \in Nat \ {0}
  BY MaxHandlesAssumption, MaxClientsAssumption, CapAssumption
  DEF MaxHandlesAssumption, MaxClientsAssumption, CapAssumption

-----------------------------------------------------------------------------
(* The last lines of a sequence.                                            *)

LEMMA LatestPart ==
  ASSUME NEW S, NEW s \in Seq(S), NEW n \in Nat \ {0}
  PROVE  /\ Latest(s, n) \in Seq(S) /\ Len(Latest(s, n)) <= n
         /\ \E d \in Nat : /\ d + Len(Latest(s, n)) = Len(s)
                           /\ \A i \in 1..Len(Latest(s, n)) : Latest(s, n)[i] = s[i + d]
<1> DEFINE d == IF Len(s) > n THEN Len(s) - n ELSE 0
<1>1. Len(s) \in Nat /\ \A i \in 1..Len(s) : s[i] \in S
  BY LenProperties, ElementOfSeq
<1>2. d \in 0..Len(s) /\ Len(s) - d <= n
  BY <1>1
<1>3. Latest(s, n) = SubSeq(s, d + 1, Len(s))
  BY <1>1 DEF Latest
<1> HIDE DEF d
<1>4. /\ SubSeq(s, d + 1, Len(s)) \in Seq(S)
      /\ Len(SubSeq(s, d + 1, Len(s))) = Len(s) - d
      /\ \A i \in 1..(Len(s) - d) : SubSeq(s, d + 1, Len(s))[i] = s[d + i]
  <2>1. /\ Len(SubSeq(s, d + 1, Len(s))) = IF d + 1 <= Len(s) THEN Len(s) - (d + 1) + 1 ELSE 0
        /\ \A i \in 1..(Len(s) - (d + 1) + 1) : SubSeq(s, d + 1, Len(s))[i] = s[d + 1 + i - 1]
    BY <1>1, <1>2, SubSeqProperties
  <2>2. SubSeq(s, d + 1, Len(s)) \in Seq(S)
    BY <1>1, <1>2, SubSeqProperties
  <2>3. Len(s) - (d + 1) + 1 = Len(s) - d
    BY <1>1, <1>2
  <2>4. Len(SubSeq(s, d + 1, Len(s))) = Len(s) - d
    BY <1>1, <1>2, <2>1
  <2>5. ASSUME NEW i \in 1..(Len(s) - d)
        PROVE  SubSeq(s, d + 1, Len(s))[i] = s[d + i]
    <3>1. i \in 1..(Len(s) - (d + 1) + 1) /\ d + 1 + i - 1 = d + i
      BY <1>1, <1>2, <2>3
    <3>2. SubSeq(s, d + 1, Len(s))[i] = s[d + 1 + i - 1]
      BY <2>1, <3>1
    <3> QED
      BY <3>1, <3>2
  <2> QED
    BY <2>2, <2>4, <2>5
<1>5. \A i \in 1..(Len(s) - d) : Latest(s, n)[i] = s[i + d]
  BY <1>1, <1>2, <1>3, <1>4
<1> QED
  BY <1>1, <1>2, <1>3, <1>4, <1>5

-----------------------------------------------------------------------------
(* Types.  The counters stay within their bound because every connection   *)
(* is counted once.                                                        *)

CountInv ==
    /\ backlog + conns <= arrived
    /\ backlog + tasks <= arrived

TypeInv == TypeOK /\ CountInv

Counted ==
    /\ arrived \in 0..MaxClients /\ backlog \in 0..MaxClients
    /\ tasks \in 0..MaxClients /\ conns \in 0..MaxClients
    /\ CountInv

LEMMA CountedTypes == Counted /\ open \in BOOLEAN <=> AcceptTypeOK /\ CountInv
  BY DEF Counted, AcceptTypeOK

LEMMA InitTypeInv == Init => TypeInv
<1> SUFFICES ASSUME Init PROVE TypeInv
  OBVIOUS
<1>1. NativeTypeOK
  BY ConstantFacts DEF Init, NativeInit, NativeTypeOK, Handles, ProxyStates
<1>2. Counted /\ open \in BOOLEAN
  <2>1. arrived = 0 /\ backlog = 0 /\ tasks = 0 /\ conns = 0
    BY DEF Init, AcceptInit
  <2>2. Counted
    BY <2>1, ConstantFacts DEF Counted, CountInv
  <2> QED
    BY <2>2 DEF Init, AcceptInit
<1>3. {vpnHandle, seenHandle, asked} \subseteq Handles \cup {NoHandle}
  BY DEF Init, PollerInit, NoHandle
<1>4. /\ ring \in Seq(Nat) /\ Len(ring) <= RingCap
      /\ logs \in Seq(Nat) /\ Len(logs) <= ScreenCap
  BY ConstantFacts, EmptySeq DEF Init, PollerInit
<1>5. AcceptTypeOK /\ CountInv
  BY <1>2, CountedTypes
<1> QED
  BY <1>1, <1>3, <1>4, <1>5 DEF Init, PollerInit, TypeInv, TypeOK, Calls

LEMMA LogType ==
  ASSUME TypeOK, Log
  PROVE  logged' \in Nat /\ ring' \in Seq(Nat) /\ Len(ring') <= RingCap
<1>1. logged' \in Nat
  BY DEF TypeOK, Log
<1>2. Append(ring, logged') \in Seq(Nat)
  BY <1>1, AppendProperties DEF TypeOK
<1> QED
  BY <1>1, <1>2, ConstantFacts, LatestPart DEF Log

LEMMA ServiceType == TypeInv /\ Service => TypeInv'
<1> SUFFICES ASSUME TypeInv, Service PROVE TypeInv'
  OBVIOUS
<1> USE DEF TypeInv, CountInv, TypeOK, NativeTypeOK, AcceptTypeOK, Call, Calls, nativeVars,
            acceptVars, stateVars, ringVars, screenVars
<1>0. Handles = 1..MaxHandles /\ NoHandle = 0 /\ MaxHandles \in Nat /\ MaxClients \in Nat
  BY ConstantFacts DEF Handles, NoHandle
<1>1. CASE StartProxy
  <2>1. proxy' \in [Handles -> ProxyStates]
    BY <1>1 DEF StartProxy, SpawnRun, ProxyStates
  <2>2. open' \in BOOLEAN
    BY <1>1 DEF StartProxy, Bind
  <2>3. AcceptTypeOK' /\ CountInv'
    <3>1. conns' = 0 /\ UNCHANGED <<arrived, backlog, tasks>>
      BY <1>1 DEF StartProxy, Bind
    <3> QED
      BY <1>0, <2>2, <3>1
  <2> QED
    BY <1>1, <2>1, <2>3 DEF StartProxy, SpawnRun
<1>2. CASE ProxyStarted
  BY <1>0, <1>2 DEF ProxyStarted, RecordHandle
<1>3. CASE SetHandle
  BY <1>0, <1>3 DEF SetHandle, Current
<1>4. CASE SetRunning
  BY <1>4 DEF SetRunning
<1>5. CASE StopProxy
  BY <1>5 DEF StopProxy, RemoveSlot
<1>6. CASE ShutDownProxy
  <2>1. proxy' \in [Handles -> ProxyStates]
    BY <1>6 DEF ShutDownProxy, ShutDown, ProxyStates
  <2>2. AcceptTypeOK' /\ CountInv'
    <3>1. backlog' = 0 /\ tasks' = 0 /\ UNCHANGED <<arrived, conns>>
      BY <1>6 DEF ShutDownProxy, RuntimeGone
    <3>2. Counted'
      BY <1>0, <3>1 DEF Counted
    <3> QED
      BY <1>6, <3>2 DEF ShutDownProxy, RuntimeGone, Counted
  <2> QED
    BY <1>6, <2>1, <2>2 DEF ShutDownProxy, ShutDown
<1>7. CASE ClearHandle
  BY <1>0, <1>7 DEF ClearHandle
<1>8. CASE ClearRunning
  BY <1>8 DEF ClearRunning
<1> QED
  BY <1>1, <1>2, <1>3, <1>4, <1>5, <1>6, <1>7, <1>8 DEF Service

LEMMA ConnectionsType == TypeInv /\ Connections => TypeInv'
<1> SUFFICES ASSUME TypeInv, Connections PROVE TypeInv'
  OBVIOUS
<1>0. MaxClients \in Nat /\ Counted /\ open \in BOOLEAN
  BY ConstantFacts, CountedTypes DEF TypeInv, TypeOK
<1>1. Counted' /\ open' \in BOOLEAN
  <2>1. CASE ClientConnects
    <3>1. /\ arrived < MaxClients /\ arrived' = arrived + 1 /\ backlog' = backlog + 1
          /\ UNCHANGED <<tasks, conns>>
      BY <2>1 DEF ClientConnects
    <3>2. Counted'
      BY <1>0, <3>1 DEF Counted, CountInv
    <3> QED
      BY <1>0, <2>1, <3>2 DEF ClientConnects
  <2>2. CASE Accept
    <3>1. /\ backlog > 0 /\ backlog' = backlog - 1 /\ tasks' = tasks + 1
          /\ conns' = conns + 1 /\ UNCHANGED arrived
      BY <2>2 DEF Accept
    <3>2. Counted'
      BY <1>0, <3>1 DEF Counted, CountInv
    <3> QED
      BY <1>0, <2>2, <3>2 DEF Accept
  <2>3. CASE TaskEnds
    <3>1. tasks > 0 /\ tasks' = tasks - 1 /\ UNCHANGED <<arrived, backlog, conns>>
      BY <2>3 DEF TaskEnds
    <3>2. Counted'
      BY <1>0, <3>1 DEF Counted, CountInv
    <3> QED
      BY <1>0, <2>3, <3>2 DEF TaskEnds
  <2>4. CASE LoopSeesStop
    <3>1. backlog' = 0 /\ UNCHANGED <<arrived, tasks, conns>>
      BY <2>4 DEF LoopSeesStop, StopSeen
    <3>2. Counted'
      BY <1>0, <3>1 DEF Counted, CountInv
    <3> QED
      BY <2>4, <3>2 DEF LoopSeesStop, StopSeen
  <2> QED
    BY <2>1, <2>2, <2>3, <2>4 DEF Connections
<1>2. AcceptTypeOK' /\ CountInv'
  BY <1>1 DEF Counted, AcceptTypeOK
<1> QED
  BY <1>2 DEF Connections, TypeInv, TypeOK, NativeTypeOK, nativeVars, stateVars, ringVars,
              screenVars

LEMMA ScreenType == TypeInv /\ Screen => TypeInv'
<1> SUFFICES ASSUME TypeInv, Screen PROVE TypeInv'
  OBVIOUS
<1> USE DEF TypeInv, TypeOK, stateVars, ringVars
<1>0. 0 \in Handles \cup {NoHandle} /\ <<>> \in Seq(Nat) /\ Len(<<>>) <= RingCap
  BY ConstantFacts, EmptySeq DEF NoHandle
<1>1. NativeTypeOK' /\ AcceptTypeOK' /\ CountInv' /\ service' = service
  BY DEF Screen, nativeVars, acceptVars, NativeTypeOK, AcceptTypeOK, CountInv
<1>2. CASE Recompose
  BY <1>0, <1>1, <1>2 DEF Recompose
<1>3. CASE Begin
  BY <1>1, <1>3 DEF Begin, Loop
<1>4. CASE DelayOver
  BY <1>1, <1>4 DEF DelayOver
<1>5. CASE StatsJson(slots, conns)
  BY <1>0, <1>1, <1>5 DEF StatsJson
<1>6. CASE ShowStats
  BY <1>1, <1>6 DEF ShowStats
<1>7. CASE DrainLogs
  BY <1>0, <1>1, <1>7 DEF DrainLogs
<1>8. CASE ShowLogs
  <2>1. logs \o answer \in Seq(Nat)
    BY <1>8, ConcatProperties DEF ShowLogs
  <2>2. logs' \in Seq(Nat) /\ Len(logs') <= ScreenCap
    BY <1>8, <2>1, ConstantFacts, LatestPart DEF ShowLogs
  <2> QED
    BY <1>1, <1>8, <2>2 DEF ShowLogs, Loop
<1> QED
  BY <1>2, <1>3, <1>4, <1>5, <1>6, <1>7, <1>8 DEF Screen, PollerStep

LEMMA LoggingType == TypeInv /\ Logging => TypeInv'
  BY LogType DEF Logging, TypeInv, CountInv, TypeOK, NativeTypeOK, AcceptTypeOK, nativeVars,
                 acceptVars, stateVars, screenVars

LEMMA StutterType == TypeInv /\ UNCHANGED vars => TypeInv'
  BY DEF TypeInv, CountInv, TypeOK, NativeTypeOK, AcceptTypeOK, vars, nativeVars, acceptVars,
         stateVars, ringVars, screenVars

LEMMA TypeInvariant == Spec => []TypeInv
<1>1. TypeInv /\ [Next]_vars => TypeInv'
  BY ServiceType, ConnectionsType, ScreenType, LoggingType, StutterType DEF Next
<1> QED
  BY InitTypeInv, <1>1, PTL DEF Spec

\* The types, with the ring and the screen within their limits (android_jni.rs:81-84,
\* HomeScreen.kt:99).
THEOREM TypeCorrect == Spec => []TypeOK
<1>1. TypeInv => TypeOK
  BY DEF TypeInv
<1> QED
  BY TypeInvariant, <1>1, PTL

-----------------------------------------------------------------------------
(* Log lines.  What is on the screen was written before what is on its way *)
(* there, and that before what is in the ring.                             *)

Increasing(s) == \A i, j \in 1..Len(s) : i < j => s[i] < s[j]
Below(s, t)   == \A i \in 1..Len(s), j \in 1..Len(t) : s[i] < t[j]
UpTo(s, n)    == \A i \in 1..Len(s) : s[i] <= n

LEMMA IncreasingConcat ==
  ASSUME NEW s \in Seq(Nat), NEW t \in Seq(Nat), Increasing(s), Increasing(t), Below(s, t)
  PROVE  Increasing(s \o t)
<1>1. /\ Len(s) \in Nat /\ Len(t) \in Nat /\ Len(s \o t) = Len(s) + Len(t)
      /\ \A i \in 1..Len(s) : (s \o t)[i] = s[i]
      /\ \A i \in (Len(s) + 1)..(Len(s) + Len(t)) : (s \o t)[i] = t[i - Len(s)]
  BY LenProperties, ConcatProperties
<1> SUFFICES ASSUME NEW i \in 1..(Len(s) + Len(t)), NEW j \in 1..(Len(s) + Len(t)), i < j
             PROVE  (s \o t)[i] < (s \o t)[j]
  BY <1>1 DEF Increasing
<1>2. CASE j <= Len(s)
  BY <1>1, <1>2 DEF Increasing
<1>3. CASE i <= Len(s) /\ Len(s) < j
  <2>1. i \in 1..Len(s) /\ j - Len(s) \in 1..Len(t) /\ j \in (Len(s) + 1)..(Len(s) + Len(t))
    BY <1>1, <1>3
  <2> QED
    BY <1>1, <2>1 DEF Below
<1>4. CASE Len(s) < i
  <2>1. /\ i - Len(s) \in 1..Len(t) /\ i \in (Len(s) + 1)..(Len(s) + Len(t))
        /\ j - Len(s) \in 1..Len(t) /\ j \in (Len(s) + 1)..(Len(s) + Len(t))
        /\ i - Len(s) < j - Len(s)
    BY <1>1, <1>4
  <2> QED
    BY <1>1, <2>1 DEF Increasing
<1>5. j <= Len(s) \/ (i <= Len(s) /\ Len(s) < j) \/ Len(s) < i
  BY <1>1
<1> QED
  BY <1>2, <1>3, <1>4, <1>5, Zenon

\* What holds of all elements of two sequences holds of all elements of one behind the
\* other, and what holds of all of a sequence holds of its last.
LEMMA ConcatElements ==
  ASSUME NEW s \in Seq(Nat), NEW t \in Seq(Nat), NEW i \in 1..Len(s \o t)
  PROVE  (\E j \in 1..Len(s) : (s \o t)[i] = s[j]) \/ (\E j \in 1..Len(t) : (s \o t)[i] = t[j])
<1>1. /\ Len(s) \in Nat /\ Len(t) \in Nat /\ Len(s \o t) = Len(s) + Len(t)
      /\ \A k \in 1..Len(s) : (s \o t)[k] = s[k]
      /\ \A k \in (Len(s) + 1)..(Len(s) + Len(t)) : (s \o t)[k] = t[k - Len(s)]
  BY LenProperties, ConcatProperties
<1>2. CASE i <= Len(s)
  BY <1>1, <1>2
<1>3. CASE Len(s) < i
  <2>1. i - Len(s) \in 1..Len(t) /\ i \in (Len(s) + 1)..(Len(s) + Len(t))
    BY <1>1, <1>3
  <2> QED
    BY <1>1, <2>1
<1> QED
  BY <1>1, <1>2, <1>3

LEMMA LatestElements ==
  ASSUME NEW s \in Seq(Nat), NEW n \in Nat \ {0}
  PROVE  /\ \A i \in 1..Len(Latest(s, n)) : \E j \in 1..Len(s) : Latest(s, n)[i] = s[j]
         /\ Increasing(s) => Increasing(Latest(s, n))
<1> DEFINE l == Latest(s, n)
<1>1. PICK d \in Nat : d + Len(l) = Len(s) /\ \A i \in 1..Len(l) : l[i] = s[i + d]
  BY LatestPart
<1>2. Len(l) \in Nat /\ Len(s) \in Nat
  BY LatestPart, LenProperties
<1> HIDE DEF l
<1>3. \A i \in 1..Len(l) : i + d \in 1..Len(s) /\ l[i] = s[i + d]
  BY <1>1, <1>2
<1>4. ASSUME Increasing(s), NEW i \in 1..Len(l), NEW j \in 1..Len(l), i < j
      PROVE  l[i] < l[j]
  <2>1. i + d \in 1..Len(s) /\ j + d \in 1..Len(s) /\ i + d < j + d
    BY <1>1, <1>2, <1>3, <1>4
  <2>2. s[i + d] < s[j + d]
    BY <1>4, <2>1 DEF Increasing
  <2> QED
    BY <1>3, <2>2
<1>5. Increasing(s) => Increasing(l)
  BY <1>4 DEF Increasing
<1> QED
  BY <1>3, <1>5 DEF l

\* What is on its way to the screen.
Pending == IF poll = "logsDone" THEN answer ELSE <<>>

OrderInv ==
    /\ Increasing(logs) /\ Increasing(Pending) /\ Increasing(ring)
    /\ Below(logs, Pending) /\ Below(logs, ring) /\ Below(Pending, ring)
    /\ UpTo(logs, logged) /\ UpTo(Pending, logged) /\ UpTo(ring, logged)

LineTypes ==
    /\ logged \in Nat
    /\ ring \in Seq(Nat) /\ logs \in Seq(Nat) /\ Pending \in Seq(Nat)

LEMMA LineTypesFollow == TypeOK => LineTypes
  BY EmptySeq DEF TypeOK, LineTypes, Pending

LEMMA EmptyOrder ==
  ASSUME NEW s \in Seq(Nat), NEW n \in Nat
  PROVE  Increasing(<<>>) /\ Below(s, <<>>) /\ Below(<<>>, s) /\ UpTo(<<>>, n)
<1>1. Len(<<>>) = 0 /\ ~(\E i \in 1..0 : TRUE)
  BY EmptySeq
<1> QED
  BY <1>1 DEF Increasing, Below, UpTo

\* A sequence between two others keeps its place when the newest number is put behind it
\* and its oldest ones are dropped.
LEMMA AppendOrder ==
  ASSUME NEW r \in Seq(Nat), NEW n \in Nat, NEW cap \in Nat \ {0}, Increasing(r), UpTo(r, n)
  PROVE  LET q == Latest(Append(r, n + 1), cap)
         IN  /\ Increasing(q) /\ UpTo(q, n + 1)
             /\ \A s \in Seq(Nat) : Below(s, r) /\ UpTo(s, n) => Below(s, q)
<1> DEFINE a == Append(r, n + 1)
           q == Latest(a, cap)
<1>1. /\ a \in Seq(Nat) /\ Len(r) \in Nat /\ Len(a) = Len(r) + 1
      /\ \A i \in 1..Len(r) : a[i] = r[i] /\ r[i] \in Nat
      /\ a[Len(r) + 1] = n + 1
  BY AppendProperties, LenProperties, ElementOfSeq
<1> HIDE DEF a
<1>2. \A i \in 1..Len(a) : (i \in 1..Len(r) /\ a[i] = r[i]) \/ (i = Len(r) + 1 /\ a[i] = n + 1)
  BY <1>1
<1>3. Increasing(a)
  <2> SUFFICES ASSUME NEW i \in 1..Len(a), NEW j \in 1..Len(a), i < j
               PROVE  a[i] < a[j]
    BY DEF Increasing
  <2>1. i \in 1..Len(r) /\ a[i] = r[i] /\ r[i] <= n /\ r[i] \in Nat
    BY <1>1, <1>2 DEF UpTo
  <2>2. CASE j \in 1..Len(r) /\ a[j] = r[j]
    BY <2>1, <2>2 DEF Increasing
  <2>3. CASE a[j] = n + 1
    BY <2>1, <2>3
  <2> QED
    BY <1>2, <2>2, <2>3
<1>4. \A i \in 1..Len(q) : \E j \in 1..Len(a) : q[i] = a[j]
  BY <1>1, LatestElements
<1>5. Increasing(q)
  BY <1>1, <1>3, LatestElements
<1>6. UpTo(q, n + 1)
  <2>1. \A j \in 1..Len(a) : a[j] <= n + 1
    BY <1>1, <1>2 DEF UpTo
  <2> QED
    BY <1>4, <2>1 DEF UpTo
<1>7. ASSUME NEW s \in Seq(Nat), Below(s, r), UpTo(s, n)
      PROVE  Below(s, q)
  <2>1. \A i \in 1..Len(s) : s[i] \in Nat
    BY ElementOfSeq
  <2>2. \A i \in 1..Len(s), j \in 1..Len(a) : s[i] < a[j]
    <3> SUFFICES ASSUME NEW i \in 1..Len(s), NEW j \in 1..Len(a) PROVE s[i] < a[j]
      OBVIOUS
    <3>1. CASE j \in 1..Len(r) /\ a[j] = r[j]
      BY <1>7, <3>1 DEF Below
    <3>2. CASE a[j] = n + 1
      <4>1. s[i] <= n /\ s[i] \in Nat
        BY <1>7, <2>1 DEF UpTo
      <4> QED
        BY <3>2, <4>1
    <3> QED
      BY <1>2, <3>1, <3>2
  <2> QED
    BY <1>4, <2>2 DEF Below
<1> QED
  BY <1>5, <1>6, <1>7 DEF a

LEMMA UpToMore ==
  ASSUME NEW s \in Seq(Nat), NEW n \in Nat, UpTo(s, n)
  PROVE  UpTo(s, n + 1)
<1>1. \A i \in 1..Len(s) : s[i] \in Nat
  BY ElementOfSeq
<1> QED
  BY <1>1 DEF UpTo

LEMMA LogOrders ==
  ASSUME LineTypes, OrderInv, Log, UNCHANGED <<logs, poll, answer>>
  PROVE  OrderInv'
<1>1. /\ logged' = logged + 1 /\ ring' = Latest(Append(ring, logged + 1), RingCap)
      /\ logs' = logs /\ Pending' = Pending
  BY DEF Log, Pending
<1>2. /\ Increasing(ring') /\ UpTo(ring', logged')
      /\ Below(logs, ring') /\ Below(Pending, ring')
  BY <1>1, AppendOrder, ConstantFacts DEF LineTypes, OrderInv
<1>3. UpTo(logs, logged') /\ UpTo(Pending, logged')
  BY <1>1, UpToMore DEF LineTypes, OrderInv
<1> QED
  BY <1>1, <1>2, <1>3 DEF OrderInv

LEMMA ShowOrders ==
  ASSUME LineTypes, OrderInv, ShowLogs
  PROVE  OrderInv'
<1> DEFINE c == logs \o answer
<1>1. /\ Pending = answer /\ Pending' = <<>> /\ ring' = ring /\ logged' = logged
      /\ logs' = Latest(c, ScreenCap)
  BY DEF ShowLogs, Pending, Loop, ringVars
<1>2. c \in Seq(Nat) /\ answer \in Seq(Nat)
  BY <1>1, ConcatProperties DEF LineTypes
<1>3. Increasing(c)
  BY <1>1, <1>2, IncreasingConcat DEF LineTypes, OrderInv
<1>4. \A i \in 1..Len(c) : (\E j \in 1..Len(logs) : c[i] = logs[j])
                           \/ (\E j \in 1..Len(answer) : c[i] = answer[j])
  BY <1>2, ConcatElements DEF LineTypes
<1> HIDE DEF c
<1>5. Below(c, ring) /\ UpTo(c, logged)
  BY <1>1, <1>4 DEF OrderInv, Below, UpTo
<1>6. /\ Increasing(logs')
      /\ \A i \in 1..Len(logs') : \E j \in 1..Len(c) : logs'[i] = c[j]
  BY <1>1, <1>2, <1>3, LatestElements, ConstantFacts
<1>7. Below(logs', ring) /\ UpTo(logs', logged)
  BY <1>5, <1>6 DEF Below, UpTo
<1>8. logs' \in Seq(Nat) /\ ring \in Seq(Nat) /\ logged \in Nat
  BY <1>1, <1>2, LatestPart, ConstantFacts DEF LineTypes
<1>9. /\ Increasing(<<>>) /\ Below(logs', <<>>) /\ Below(<<>>, ring) /\ UpTo(<<>>, logged)
  BY <1>8, EmptyOrder
<1> QED
  BY <1>1, <1>6, <1>7, <1>9 DEF OrderInv

LEMMA DrainOrders ==
  ASSUME LineTypes, OrderInv, DrainLogs
  PROVE  OrderInv'
<1>1. /\ Pending' = ring /\ ring' = <<>> /\ logged' = logged /\ logs' = logs
  BY DEF DrainLogs, Pending
<1>2. /\ Increasing(<<>>) /\ Below(logs, <<>>) /\ Below(ring, <<>>) /\ UpTo(<<>>, logged)
  BY EmptyOrder DEF LineTypes
<1> QED
  BY <1>1, <1>2 DEF OrderInv

\* A cancelled poller loses what was on its way, and perhaps what was in the ring.
LEMMA RecomposeOrders ==
  ASSUME LineTypes, OrderInv, Recompose
  PROVE  OrderInv'
<1>1. /\ Pending' = <<>> /\ ring' \in {ring, <<>>} /\ logged' = logged /\ logs' = logs
  BY DEF Recompose, Pending
<1>2. /\ Increasing(<<>>) /\ Below(logs, <<>>) /\ Below(<<>>, ring) /\ Below(<<>>, <<>>)
      /\ UpTo(<<>>, logged)
  BY EmptyOrder, EmptySeq DEF LineTypes
<1> QED
  BY <1>1, <1>2 DEF OrderInv

LEMMA OtherOrders ==
  ASSUME OrderInv, UNCHANGED <<ring, logged, logs>>, Pending' = Pending
  PROVE  OrderInv'
  BY DEF OrderInv

LEMMA NextOrders == TypeOK /\ OrderInv /\ [Next]_vars => OrderInv'
<1> SUFFICES ASSUME TypeOK, OrderInv, [Next]_vars PROVE OrderInv'
  OBVIOUS
<1>0. LineTypes
  BY LineTypesFollow
<1>1. CASE Logging
  BY <1>0, <1>1, LogOrders DEF Logging, screenVars
<1>2. CASE Service
  <2>1. UNCHANGED <<ringVars, screenVars>>
    BY <1>2 DEF Service, StartProxy, ProxyStarted, ShutDownProxy, SetHandle, SetRunning,
                StopProxy, ClearHandle, ClearRunning
  <2> QED
    BY <2>1, OtherOrders DEF ringVars, screenVars, Pending
<1>3. CASE Connections \/ UNCHANGED vars
  BY <1>3, OtherOrders DEF Connections, vars, ringVars, screenVars, Pending
<1>4. CASE Screen
  <2>1. CASE Recompose
    BY <1>0, <2>1, RecomposeOrders
  <2>2. CASE DrainLogs
    BY <1>0, <2>2, DrainOrders
  <2>3. CASE ShowLogs
    BY <1>0, <2>3, ShowOrders
  <2>4. CASE Begin \/ DelayOver \/ StatsJson(slots, conns) \/ ShowStats
    <3>1. poll # "logsDone" /\ poll' # "logsDone" /\ UNCHANGED <<ring, logged, logs>>
      BY <2>4 DEF Begin, DelayOver, StatsJson, ShowStats, Loop, ringVars
    <3> QED
      BY <3>1, OtherOrders DEF Pending
  <2> QED
    BY <1>4, <2>1, <2>2, <2>3, <2>4 DEF Screen, PollerStep
<1> QED
  BY <1>1, <1>2, <1>3, <1>4 DEF Next

\* Lines come to the screen once and in the order in which they were written, whatever the
\* ring drops and a cancelled poller loses (android_jni.rs:82-85, HomeScreen.kt:97-99).
THEOREM LogsStayInOrder == Spec => []LogsInOrder
<1>1. Init => OrderInv
  <2> SUFFICES ASSUME Init PROVE OrderInv
    OBVIOUS
  <2>1. logs = <<>> /\ Pending = <<>> /\ ring = <<>> /\ logged = 0
    BY DEF Init, PollerInit, Pending
  <2>2. Increasing(<<>>) /\ Below(<<>>, <<>>) /\ UpTo(<<>>, 0)
    BY EmptyOrder, EmptySeq
  <2> QED
    BY <2>1, <2>2 DEF OrderInv
<1>2. OrderInv => LogsInOrder
  BY DEF OrderInv, Increasing, LogsInOrder
<1>3. TypeInv => TypeOK
  BY DEF TypeInv
<1> QED
  BY TypeInvariant, <1>1, <1>2, <1>3, NextOrders, PTL DEF Spec

=============================================================================
