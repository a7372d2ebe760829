---------------------------- MODULE TunnelProofs ----------------------------
(***************************************************************************)
(* Who is shown a certificate of the proxy's, and what a client is         *)
(* answered, for every configuration, host and port, and every way client, *)
(* server and network may act.                                             *)
(***************************************************************************)
EXTENDS Tunnel, RoutingProofs, StreamProofs, SequenceTheorems, TLAPS

DataParts == {Data(n) : n \in 1..MaxData}

\* What may have been sent to the client of a tunnel whose leg is f.
ToClient(f) == {p \in Parts : p = Sign("certificate") => f # {}}

\* Only a fronted leg leads to a certificate, and servers send nothing but data.
LegInv ==
    /\ config \in Configs /\ host \in Hosts
    /\ front = IF port = 443 THEN FrontFor(config, host) ELSE {}
    /\ pc \in {"accept", "open", "mint", "handshake", "front"} => front # {}
    /\ clientGot \in Seq(ToClient(front))
    /\ serverSent \in Seq(DataParts)
    /\ fromServer \in Seq(DataParts)

LEMMA Answering ==
    ASSUME NEW what, NEW f, Sign(what) \in ToClient(f), clientGot \in Seq(ToClient(f)),
           Answer(what)
    PROVE  clientGot' \in Seq(ToClient(f))
  BY DEF Answer

LEMMA AnswerParts ==
    ASSUME NEW f
    PROVE  /\ \A what \in {"ok", "failed", "method"} : Sign(what) \in ToClient(f)
           /\ f # {} => Sign("certificate") \in ToClient(f)
  BY DEF ToClient, Parts, Answers, Sign, Part

LEMMA DataToClient == \A f : DataParts \subseteq ToClient(f)
  BY DEF ToClient, DataParts, Parts, Payload, Data, Sign, Part

LEMMA DataSent == \A n \in Nat : n < MaxData => Data(n + 1) \in DataParts
  BY DataAssumption DEF DataAssumption, DataParts

LEMMA InitLegInv == Init => LegInv
  BY DEF Init, LegInv

LEMMA NextLegInv == LegInv /\ [Next]_vars => LegInv'
<1> SUFFICES ASSUME LegInv, [Next]_vars PROVE LegInv'
  OBVIOUS
<1> USE DEF LegInv, choiceVars, clientVars, serverVars, upVars, downVars, Untouched
<1>1. CASE ClientSend
  BY <1>1 DEF ClientSend
<1>2. CASE ClientFinish
  BY <1>2 DEF ClientFinish
<1>3. CASE ServerSend
  BY <1>3, DataSent, LenProperties DEF ServerSend
<1>4. CASE ServerFinish
  BY <1>4 DEF ServerFinish
<1>5. CASE ProxyStep
  <2>1. CASE ReadConnect
    BY <2>1 DEF ReadConnect
  <2>2. CASE ReadGreeting
    BY <2>2, Answering, AnswerParts DEF ReadGreeting
  <2>3. CASE ReadRequest
    BY <2>3, Answering, AnswerParts DEF ReadRequest
  <2>4. CASE GiveUp
    BY <2>4 DEF GiveUp
  <2>5. CASE AnswerFronted
    BY <2>5, Answering, AnswerParts DEF AnswerFronted, Fronted
  <2>6. CASE AcceptHello
    BY <2>6 DEF AcceptHello
  <2>7. CASE OpenCa \/ MintLeaf
    BY <2>7 DEF OpenCa, MintLeaf
  <2>8. CASE Handshake
    BY <2>8, Answering, AnswerParts DEF Handshake
  <2>9. CASE ConnectFront
    BY <2>9 DEF ConnectFront
  <2>10. CASE ConnectDirect
    BY <2>10, Answering, AnswerParts DEF ConnectDirect
  <2>11. CASE AnswerDirect
    BY <2>11, Answering, AnswerParts DEF AnswerDirect
  <2>12. CASE PipeEnds
    BY <2>12 DEF PipeEnds
  <2>13. CASE PipeBreaks
    BY <2>13 DEF PipeBreaks
  <2>14. CASE CountDirect
    BY <2>14 DEF CountDirect
  <2> QED
    BY <1>5, <2>1, <2>2, <2>3, <2>4, <2>5, <2>6, <2>7, <2>8, <2>9, <2>10, <2>11, <2>12,
       <2>13, <2>14 DEF ProxyStep
<1>6. CASE RelayUp
  BY <1>6 DEF RelayUp
<1>7. CASE RelayDown
  <2>1. PICK n \in 1..Len(fromServer) :
            /\ clientGot' = clientGot \o SubSeq(fromServer, 1, n)
            /\ fromServer' = SubSeq(fromServer, n + 1, Len(fromServer))
    BY <1>7 DEF RelayDown
  <2>2. SubSeq(fromServer, 1, n) \in Seq(ToClient(front))
    BY DataToClient, ElementOfSeq, SubSeqProperties
  <2>3. fromServer' \in Seq(DataParts)
    BY <2>1, ElementOfSeq, SubSeqProperties
  <2>4. clientGot' \in Seq(ToClient(front))
    BY <2>1, <2>2, ConcatProperties
  <2> QED
    BY <1>7, <2>3, <2>4 DEF RelayDown
<1>8. CASE EndUp
  BY <1>8 DEF EndUp
<1>9. CASE EndDown
  BY <1>9 DEF EndDown
<1>10. CASE UNCHANGED vars
  BY <1>10 DEF vars
<1> QED
  BY <1>1, <1>2, <1>3, <1>4, <1>5, <1>6, <1>7, <1>8, <1>9, <1>10 DEF Next

LEMMA LegInvariant == Spec => []LegInv
  BY InitLegInv, NextLegInv, PTL DEF Spec

LEMMA CertificateIsFronted ==
    ASSUME LegInv, Has(clientGot, "certificate")
    PROVE  FrontFor(config, host) # {}
<1>1. PICK n \in DOMAIN clientGot : clientGot[n] = Sign("certificate")
  BY DEF Has, ToSet
<1>2. clientGot[n] \in ToClient(front)
  BY ElementOfSeq, LenProperties DEF LegInv
<1>3. front # {}
  BY <1>1, <1>2 DEF ToClient
<1> QED
  BY <1>3 DEF LegInv

\* config.rs:58, "Hosts that must NEVER be MITM'd": whatever else a configuration says,
\* whoever asks for such a host, on whatever port, is shown no certificate of the
\* proxy's; and what a server sends through a tunnel is never taken for one.
THEOREM PassthroughNeverMitm == Spec => []NeverMitm
<1>1. LegInv => NeverMitm
  BY CertificateIsFronted, PassthroughFirst DEF NeverMitm
<1> QED
  BY <1>1, LegInvariant, PTL

\* ConfigStore.kt:87-106: whatever was saved, the app's proxy presents a leaf only for a
\* host that lies below a domain its user chose.
THEOREM LeavesAreChosen == Spec => []OnlyWhatIsChosen
<1>1. LegInv => OnlyWhatIsChosen
  BY CertificateIsFronted, LegsAreChosen DEF OnlyWhatIsChosen
<1> QED
  BY <1>1, LegInvariant, PTL

\* config.rs:25, 176, 199: two spellings of a host lead to the same leg, under every
\* configuration.
THEOREM SpellingDoesNotMatter == Spec => []SpellingIrrelevant
<1>1. LegInv => SpellingIrrelevant
  BY SpellingOfHosts, HostAssumption DEF LegInv, SpellingIrrelevant, HostAssumption
<1> QED
  BY <1>1, LegInvariant, PTL

-----------------------------------------------------------------------------
(* Answers.                                                                 *)

Unanswered(s) == \A n \in DOMAIN s : s[n] \notin Final
OneFinal(s)   == \A m, n \in DOMAIN s : s[m] \in Final /\ s[n] \in Final => m = n

\* Up to the answer the client has none, and its leg is not counted.
AnswerInv ==
    /\ OneFinal(clientGot)
    /\ ~Fronted /\ Has(clientGot, "ok") => legs["direct"] = 1 \/ pc = "answered"
    /\ pc \in {"head", "greeting", "request", "leg", "connected"} => Unanswered(clientGot)
    /\ pc \in {"head", "greeting", "request", "leg", "connected", "answered"} =>
          legs = [fronted |-> 0, direct |-> 0]

\* The final answer is the first one, or nothing final is said.
LEMMA FinalOnce ==
    ASSUME NEW S, NEW s \in Seq(S), NEW p \in S, OneFinal(s),
           Unanswered(s) \/ p \notin Final
    PROVE  OneFinal(Append(s, p))
<1>1. DOMAIN Append(s, p) = 1..Len(s) + 1 /\ DOMAIN s = 1..Len(s) /\ Len(s) \in Nat
  BY AppendProperties, LenProperties
<1>2. \A n \in 1..Len(s) : Append(s, p)[n] = s[n]
  BY AppendProperties
<1>3. Append(s, p)[Len(s) + 1] = p
  BY AppendProperties
<1> SUFFICES ASSUME NEW m \in 1..Len(s) + 1, NEW n \in 1..Len(s) + 1,
                    Append(s, p)[m] \in Final, Append(s, p)[n] \in Final
             PROVE  m = n
  BY <1>1 DEF OneFinal
<1>4. CASE m \in 1..Len(s) /\ n \in 1..Len(s)
  BY <1>1, <1>2, <1>4 DEF OneFinal
<1>5. CASE m \in 1..Len(s) /\ n = Len(s) + 1
  BY <1>1, <1>2, <1>3, <1>5 DEF Unanswered
<1>6. CASE m = Len(s) + 1 /\ n \in 1..Len(s)
  BY <1>1, <1>2, <1>3, <1>6 DEF Unanswered
<1>7. CASE m = Len(s) + 1 /\ n = Len(s) + 1
  BY <1>7
<1> QED
  BY <1>1, <1>4, <1>5, <1>6, <1>7

LEMMA StillUnanswered ==
    ASSUME NEW S, NEW s \in Seq(S), NEW p \in S, Unanswered(s), p \notin Final
    PROVE  Unanswered(Append(s, p))
  BY AppendProperties, LenProperties DEF Unanswered

LEMMA OkIsNew ==
    ASSUME NEW S, NEW s \in Seq(S), NEW p \in S, Has(Append(s, p), "ok")
    PROVE  Has(s, "ok") \/ p = Sign("ok")
<1>1. PICK n \in DOMAIN Append(s, p) : Append(s, p)[n] = Sign("ok")
  BY DEF Has, ToSet
<1>2. n \in 1..Len(s) \/ n = Len(s) + 1
  BY AppendProperties, LenProperties
<1>3. CASE n \in 1..Len(s)
  BY <1>1, <1>3, AppendProperties, LenProperties DEF Has, ToSet
<1>4. CASE n = Len(s) + 1
  BY <1>1, <1>4, AppendProperties
<1> QED
  BY <1>2, <1>3, <1>4

LEMMA SignsDiffer ==
    /\ Sign("ok") \in Final /\ Sign("failed") \in Final
    /\ Sign("method") \notin Final /\ Sign("certificate") \notin Final
    /\ Sign("failed") # Sign("ok") /\ Sign("method") # Sign("ok")
    /\ Sign("certificate") # Sign("ok")
    /\ \A p \in DataParts : p \notin Final /\ p # Sign("ok")
  BY DEF Final, Sign, Part, DataParts, Data

\* What a server sends answers nothing.
LEMMA DataAnswersNothing ==
    ASSUME NEW S, NEW s \in Seq(S), NEW d \in Seq(DataParts), DataParts \subseteq S
    PROVE  /\ OneFinal(s) => OneFinal(s \o d)
           /\ Has(s \o d, "ok") => Has(s, "ok")
<1>1. d \in Seq(S)
  BY ElementOfSeq
<1>2. Len(s) \in Nat /\ Len(d) \in Nat /\ DOMAIN s = 1..Len(s) /\ DOMAIN d = 1..Len(d)
  BY <1>1, LenProperties
<1>3. DOMAIN (s \o d) = 1..Len(s) + Len(d)
  BY <1>1, ConcatProperties, LenProperties
<1>4. ASSUME NEW n \in 1..Len(s) + Len(d)
      PROVE  (s \o d)[n] = IF n <= Len(s) THEN s[n] ELSE d[n - Len(s)]
  BY <1>1, ConcatProperties
<1>5. ASSUME NEW n \in 1..Len(s) + Len(d), n > Len(s)
      PROVE  (s \o d)[n] \in DataParts
  <2>1. n - Len(s) \in 1..Len(d)
    BY <1>2, <1>5
  <2> QED
    BY <1>2, <1>4, <1>5, <2>1, ElementOfSeq
<1>6. \A n \in 1..Len(s) + Len(d) :
         (s \o d)[n] \in Final => n \in 1..Len(s) /\ (s \o d)[n] = s[n]
  BY <1>2, <1>4, <1>5, SignsDiffer
<1>7. OneFinal(s) => OneFinal(s \o d)
  BY <1>2, <1>3, <1>6 DEF OneFinal
<1>8. Has(s \o d, "ok") => Has(s, "ok")
  BY <1>2, <1>3, <1>6, SignsDiffer DEF Has, ToSet
<1> QED
  BY <1>7, <1>8

LEMMA AnswerKeeps ==
    ASSUME LegInv, NEW what, Sign(what) \in ToClient(front), Answer(what),
           OneFinal(clientGot), Unanswered(clientGot) \/ Sign(what) \notin Final
    PROVE  /\ OneFinal(clientGot')
           /\ Has(clientGot', "ok") => Has(clientGot, "ok") \/ what = "ok"
           /\ Unanswered(clientGot) /\ Sign(what) \notin Final => Unanswered(clientGot')
<1>1. clientGot \in Seq(ToClient(front)) /\ clientGot' = Append(clientGot, Sign(what))
  BY DEF LegInv, Answer
<1>2. Sign(what) = Sign("ok") => what = "ok"
  BY DEF Sign, Part
<1> QED
  BY <1>1, <1>2, FinalOnce, StillUnanswered, OkIsNew

LEMMA InitAnswerInv == Init => AnswerInv
  BY DEF Init, AnswerInv, OneFinal, Unanswered, Has, ToSet, Fronted

LEMMA NextAnswerInv == LegInv /\ AnswerInv /\ [Next]_vars => AnswerInv'
<1> SUFFICES ASSUME LegInv, AnswerInv, [Next]_vars PROVE AnswerInv'
  OBVIOUS
<1> USE DEF AnswerInv, choiceVars, clientVars, serverVars, upVars, downVars, statVars,
            Untouched, Fronted
<1>1. CASE UNCHANGED <<front, pc, clientGot, legs>>
  BY <1>1 DEF Has, OneFinal, Unanswered
<1>2. CASE ProxyStep
  <2>1. CASE ReadConnect
    BY <2>1 DEF ReadConnect, Has, OneFinal, Unanswered
  <2>2. CASE ReadGreeting
    <3>1. CASE Answer("failed") /\ pc' = "gone"
      BY <2>2, <3>1, AnswerKeeps, AnswerParts, SignsDiffer DEF ReadGreeting
    <3>2. CASE Answer("method") /\ pc' = "request"
      BY <2>2, <3>2, AnswerKeeps, AnswerParts, SignsDiffer DEF ReadGreeting
    <3> QED
      BY <2>2, <3>1, <3>2 DEF ReadGreeting
  <2>3. CASE ReadRequest
    <3>1. CASE Answer("failed") /\ pc' = "gone"
      BY <2>3, <3>1, AnswerKeeps, AnswerParts, SignsDiffer DEF ReadRequest
    <3>2. CASE UNCHANGED clientGot
      BY <2>3, <3>2 DEF ReadRequest, Has, OneFinal, Unanswered
    <3> QED
      BY <2>3, <3>1, <3>2 DEF ReadRequest
  <2>4. CASE GiveUp \/ AcceptHello \/ OpenCa \/ MintLeaf \/ ConnectFront \/ PipeBreaks
    <3>1. front' = front /\ clientGot' = clientGot
      BY <2>4 DEF GiveUp, AcceptHello, OpenCa, MintLeaf, ConnectFront, PipeBreaks
    <3>2. pc' \in {"gone", "open", "mint", "handshake", "pipe"} \cup {"front"}
      BY <2>4 DEF GiveUp, AcceptHello, OpenCa, MintLeaf, ConnectFront, PipeBreaks
    <3>3. ~Fronted => legs' = legs
      BY <2>4 DEF GiveUp, AcceptHello, OpenCa, MintLeaf, ConnectFront, PipeBreaks
    <3>4. pc # "answered"
      BY <2>4 DEF GiveUp, AcceptHello, OpenCa, MintLeaf, ConnectFront, PipeBreaks
    <3> QED
      BY <3>1, <3>2, <3>3, <3>4 DEF Has, OneFinal
  <2>5. CASE AnswerFronted
    BY <2>5, AnswerKeeps, AnswerParts DEF AnswerFronted
  <2>6. CASE Handshake
    <3>1. front # {}
      BY <2>6 DEF Handshake, LegInv
    <3> QED
      BY <2>6, <3>1, AnswerKeeps, AnswerParts, SignsDiffer DEF Handshake
  <2>7. CASE ConnectDirect
    <3>1. CASE pc' = "connected" /\ UNCHANGED clientGot
      BY <2>7, <3>1 DEF ConnectDirect, Has, OneFinal, Unanswered
    <3>2. CASE pc' = "gone" /\ Answer("failed")
      BY <2>7, <3>2, AnswerKeeps, AnswerParts DEF ConnectDirect
    <3> QED
      BY <2>7, <3>1, <3>2 DEF ConnectDirect
  <2>8. CASE AnswerDirect
    <3>1. OneFinal(clientGot')
      BY <2>8, AnswerKeeps, AnswerParts DEF AnswerDirect
    <3>2. pc' = "answered" /\ legs' = legs /\ legs = [fronted |-> 0, direct |-> 0]
      BY <2>8 DEF AnswerDirect
    <3> QED
      BY <3>1, <3>2
  <2>10. CASE CountDirect
    <3>1. legs'["direct"] = 1
      <4>1. legs = [fronted |-> 0, direct |-> 0]
        BY <2>10 DEF CountDirect
      <4>2. legs' = [legs EXCEPT !["direct"] = legs["direct"] + 1]
        BY <2>10 DEF CountDirect
      <4> HIDE DEF AnswerInv
      <4> QED
        BY <4>1, <4>2
    <3>2. clientGot' = clientGot /\ pc' = "pipe"
      BY <2>10 DEF CountDirect
    <3> QED
      BY <3>1, <3>2 DEF OneFinal
  <2>9. CASE PipeEnds
    BY <2>9 DEF PipeEnds, Has, OneFinal
  <2> QED
    BY <1>2, <2>1, <2>2, <2>3, <2>4, <2>5, <2>6, <2>7, <2>8, <2>9, <2>10 DEF ProxyStep
<1>3. CASE RelayDown
  <2>1. PICK n \in 1..Len(fromServer) :
            clientGot' = clientGot \o SubSeq(fromServer, 1, n)
    BY <1>3 DEF RelayDown
  <2>2. SubSeq(fromServer, 1, n) \in Seq(DataParts)
    BY ElementOfSeq, SubSeqProperties DEF LegInv
  <2>3. OneFinal(clientGot') /\ (Has(clientGot', "ok") => Has(clientGot, "ok"))
    BY <2>1, <2>2, DataAnswersNothing, DataToClient DEF LegInv
  <2>4. pc = "pipe" /\ UNCHANGED <<front, pc, legs>>
    BY <1>3 DEF RelayDown
  <2> QED
    BY <2>3, <2>4
<1>4. CASE ClientSend \/ ClientFinish \/ ServerSend \/ ServerFinish \/ RelayUp \/ EndUp
           \/ EndDown \/ UNCHANGED vars
  BY <1>1, <1>4 DEF ClientSend, ClientFinish, ServerSend, ServerFinish, RelayUp, EndUp,
                    EndDown, vars
<1> QED
  BY <1>2, <1>3, <1>4 DEF Next

LEMMA AnswerInvHonest == AnswerInv => HonestAnswer
  BY DEF AnswerInv, HonestAnswer, OneFinal

\* proxy_server.rs:242-256, 415-430: over HTTP and SOCKS5, whatever fails and however
\* client and server interleave, a client is answered at most once, and never told "ok"
\* about a direct target the proxy did not reach.
THEOREM AnsweredHonestly == Spec => []HonestAnswer
<1>1. Spec => []AnswerInv
  BY LegInvariant, InitAnswerInv, NextAnswerInv, PTL DEF Spec
<1> QED
  BY <1>1, AnswerInvHonest, PTL

-----------------------------------------------------------------------------
(* Stages: what was read and answered before the byte-pipe.                 *)

\* How many parts the handler has taken from the client, the pipe's not counted ...
Taken ==
    IF pc \in {"head", "greeting"} THEN 0
    ELSE IF pc = "request" THEN 1
    ELSE IF pc \in {"leg", "accept", "connected"} THEN Asked
    ELSE Preamble

\* ... and how many it has sent to it.
Told ==
    IF pc \in {"head", "greeting"} THEN 0
    ELSE IF pc = "request" THEN 1
    ELSE IF pc \in {"leg", "connected"} THEN Asked - 1
    ELSE IF pc \in {"accept", "open", "mint", "handshake"} THEN Asked
    ELSE Preamble

Stages    == {"head", "greeting", "request", "leg", "accept", "open", "mint",
              "handshake", "front", "connected", "answered"}
NoLegs    == [fronted |-> 0, direct |-> 0]
LegCounts == [{"fronted", "direct"} -> 0..1]

\* Where the handler is, for which protocol and leg.
PlaceInv ==
    /\ proto \in Protocols /\ ask \in Asks /\ port \in Ports
    /\ pc \in Stages \cup {"pipe", "gone"}
    /\ pc = "head" => proto = "connect"
    /\ pc \in {"greeting", "request"} => proto = "socks"
    /\ pc \in {"accept", "open", "mint", "handshake", "front"} => Fronted
    /\ pc \in {"connected", "answered"} => ~Fronted

\* Up to the pipe nothing has reached the server, nothing is counted, and the client was
\* told what belongs to the stage.
StageInv ==
    /\ PlaceInv
    /\ pc \in Stages => serverGot = <<>> /\ Len(clientGot) = Told /\ legs = NoLegs
    /\ pc # "gone" => bytesUp = 0 /\ bytesDown = 0
    /\ legs \in LegCounts

LEMMA SameChoice ==
    UNCHANGED choiceVars =>
        Asked' = Asked /\ Preamble' = Preamble /\ (Fronted' <=> Fronted) /\ Script' = Script
  BY DEF choiceVars, Asked, Preamble, Fronted, Script

LEMMA Counts ==
    ASSUME StageInv
    PROVE  /\ Asked \in Nat /\ Preamble \in Nat
           /\ proto = "connect" => Asked = 1
           /\ proto = "socks" => Asked = 2
           /\ Asked = 1 \/ Asked = 2
           /\ Fronted => Preamble = Asked + 1
           /\ ~Fronted => Preamble = Asked
<1>1. proto = "connect" \/ proto = "socks"
  BY ProtocolAssumption DEF StageInv, PlaceInv, ProtocolAssumption
<1>2. Asked = 1 \/ Asked = 2
  BY DEF Asked
<1>3. (proto = "connect" => Asked = 1) /\ (proto = "socks" => Asked = 2)
  BY DEF Asked
<1>4. (Fronted => Preamble = Asked + 1) /\ (~Fronted => Preamble = Asked)
  BY <1>2 DEF Preamble
<1> QED
  BY <1>1, <1>2, <1>3, <1>4

LEMMA ToldOne ==
    ASSUME LegInv, NEW what, Sign(what) \in ToClient(front), Answer(what)
    PROVE  Len(clientGot') = Len(clientGot) + 1 /\ Len(clientGot) \in Nat
  BY AppendProperties, LenProperties DEF LegInv, Answer

LEMMA InitStageInv == Init => StageInv
<1> SUFFICES ASSUME Init PROVE StageInv
  OBVIOUS
<1>1. (pc = "head" \/ pc = "greeting") /\ Len(clientGot) = 0 /\ serverGot = <<>>
  BY DEF Init
<1>2. legs = NoLegs /\ NoLegs \in LegCounts
  BY DEF Init, NoLegs, LegCounts
<1>3. Told = 0
  BY <1>1 DEF Told
<1>4. pc = "head" => proto = "connect"
  BY DEF Init
<1>5. pc = "greeting" => proto = "socks"
  BY ProtocolAssumption DEF Init, ProtocolAssumption
<1> QED
  BY <1>1, <1>2, <1>3, <1>4, <1>5 DEF Init, StageInv, PlaceInv, Stages

\* A step before the pipe leads to the next stage; the client is never told more than the
\* preamble, and all of it when the pipe begins.
LEMMA BeforePipe ==
    ASSUME LegInv, StageInv, ProxyStep, pc \in Stages
    PROVE  /\ StageInv' /\ Len(clientGot') \in 0..Preamble /\ serverGot' = <<>>
           /\ pc' = "pipe" => Len(clientGot') = Preamble
<1>1. LegInv'
  BY NextLegInv DEF Next
<1>2. /\ UNCHANGED <<choiceVars, serverGot>> /\ serverGot = <<>>
      /\ Len(clientGot) = Told /\ legs = NoLegs /\ bytesUp = 0 /\ bytesDown = 0
  BY DEF ProxyStep, StageInv, ReadConnect, ReadGreeting, ReadRequest, GiveUp, AnswerFronted,
         AcceptHello, OpenCa, MintLeaf, Handshake, ConnectFront, ConnectDirect, AnswerDirect,
         CountDirect, PipeEnds, PipeBreaks, Untouched, Stages
<1>3. Asked' = Asked /\ Preamble' = Preamble /\ (Fronted' <=> Fronted)
  BY <1>2, SameChoice
<1>4. NoLegs \in LegCounts
  BY DEF NoLegs, LegCounts
<1>5. pc = "head" => proto = "connect"
  BY DEF StageInv, PlaceInv
<1>6. ASSUME PlaceInv', Len(clientGot') \in 0..Preamble, legs' \in LegCounts,
             pc' = "pipe" => Len(clientGot') = Preamble,
             pc' \in Stages => Len(clientGot') = Told' /\ legs' = legs,
             pc' # "gone" => bytesUp' = bytesUp /\ bytesDown' = bytesDown
      PROVE  /\ StageInv' /\ Len(clientGot') \in 0..Preamble /\ serverGot' = <<>>
             /\ pc' = "pipe" => Len(clientGot') = Preamble
  BY <1>2, <1>6 DEF StageInv
<1>7. CASE ReadConnect
  <2>1. PlaceInv' /\ legs' \in LegCounts
    BY <1>2, <1>4, <1>7 DEF PlaceInv, StageInv, ReadConnect, Stages, choiceVars, statVars, Fronted
  <2>2. Len(clientGot') = 0 /\ (pc' = "leg" \/ pc' = "gone")
    BY <1>2, <1>7 DEF ReadConnect, Told
  <2>3. pc' \in Stages => Told' = 0
    BY <1>2, <1>3, <1>5, <1>7, <2>2, Counts DEF ReadConnect, Told, Stages
  <2> QED
    BY <1>2, <1>6, <1>7, <2>1, <2>2, <2>3, Counts DEF ReadConnect, statVars
<1>8. CASE ReadGreeting
  <2>1. PlaceInv' /\ legs' \in LegCounts /\ Told = 0 /\ proto = "socks"
    BY <1>2, <1>4, <1>8 DEF ReadGreeting, Told, PlaceInv, StageInv, Stages, choiceVars,
                            statVars, Fronted
  <2>2. Len(clientGot') = Len(clientGot) + 1
    BY <1>8, ToldOne, AnswerParts DEF ReadGreeting
  <2>3. pc' \in Stages => Told' = 1
    BY <1>8 DEF ReadGreeting, Told, Stages
  <2>4. UNCHANGED statVars /\ pc' # "pipe"
    BY <1>8 DEF ReadGreeting
  <2> QED
    BY <1>2, <1>6, <2>1, <2>2, <2>3, <2>4, Counts DEF statVars
<1>9. CASE ReadRequest
  <2>1. PlaceInv' /\ legs' \in LegCounts /\ Told = 1 /\ proto = "socks"
    BY <1>2, <1>4, <1>9 DEF ReadRequest, Told, PlaceInv, StageInv, Stages, choiceVars,
                            statVars, Fronted
  <2>2. clientGot' = clientGot \/ (pc' = "gone" /\ Len(clientGot') = Len(clientGot) + 1)
    <3>1. clientGot' = clientGot \/ (pc' = "gone" /\ Answer("failed"))
      BY <1>9 DEF ReadRequest
    <3>2. Answer("failed") => Len(clientGot') = Len(clientGot) + 1
      BY ToldOne, AnswerParts
    <3> QED
      BY <3>1, <3>2
  <2>3. pc' \in Stages => Told' = 1 /\ clientGot' = clientGot
    BY <1>3, <1>9, <2>1, Counts DEF ReadRequest, Told, Stages
  <2>4. UNCHANGED statVars /\ pc' # "pipe"
    BY <1>9 DEF ReadRequest
  <2>5. Len(clientGot') \in 0..Preamble
    <3>1. Len(clientGot) = 1
      BY <1>2, <2>1
    <3>2. Len(clientGot') = 1 \/ Len(clientGot') = 1 + 1
      BY <2>2, <3>1
    <3>3. Preamble \in Nat /\ Preamble >= 2
      BY <2>1, Counts
    <3>4. 1 \in 0..Preamble /\ 1 + 1 \in 0..Preamble
      BY <3>3
    <3> QED
      BY <3>2, <3>4
  <2>6. pc' \in Stages => Len(clientGot') = Told'
    BY <1>2, <2>1, <2>3
  <2> QED
    BY <1>6, <2>1, <2>4, <2>5, <2>6 DEF statVars
<1>10. CASE GiveUp
  <2>1. PlaceInv' /\ legs' \in LegCounts /\ pc' = "gone"
    BY <1>2, <1>4, <1>10 DEF GiveUp, PlaceInv, StageInv, Stages, choiceVars, statVars, Fronted
  <2>2. clientGot' = clientGot
    BY <1>10 DEF GiveUp
  <2>3. Told \in 0..Preamble
    BY Counts DEF Told
  <2> QED
    BY <1>2, <1>6, <2>1, <2>2, <2>3 DEF Stages
<1>11. CASE AnswerFronted
  <2>1. PlaceInv' /\ legs' \in LegCounts /\ Fronted /\ pc' = "accept" /\ Told = Asked - 1
    BY <1>2, <1>4, <1>11 DEF AnswerFronted, Told, PlaceInv, StageInv, Stages, choiceVars,
                             statVars, Fronted
  <2>2. Len(clientGot') = Len(clientGot) + 1
    BY <1>11, ToldOne, AnswerParts DEF AnswerFronted
  <2>3. Told' = Asked
    BY <1>3, <2>1 DEF Told
  <2>4. UNCHANGED statVars
    BY <1>11 DEF AnswerFronted
  <2> QED
    BY <1>2, <1>6, <2>1, <2>2, <2>3, <2>4, Counts DEF statVars
<1>12. CASE AcceptHello \/ OpenCa \/ MintLeaf
  <2>1. PlaceInv' /\ legs' \in LegCounts
    BY <1>2, <1>4, <1>12 DEF AcceptHello, OpenCa, MintLeaf, PlaceInv, StageInv, Stages,
                             choiceVars, statVars, Fronted
  <2>2. pc' \in {"open", "mint", "handshake", "gone"} /\ Told = Asked
        /\ UNCHANGED <<clientGot, statVars>>
    BY <1>12 DEF AcceptHello, OpenCa, MintLeaf, Told
  <2>3. pc' \in Stages => Told' = Asked
    BY <1>3, <2>2 DEF Told, Stages
  <2>4. Asked \in 0..Preamble
    BY Counts
  <2> QED
    BY <1>2, <1>6, <2>1, <2>2, <2>3, <2>4 DEF statVars
<1>13. CASE Handshake
  <2>1. PlaceInv' /\ legs' \in LegCounts /\ Fronted /\ Told = Asked
    BY <1>2, <1>4, <1>13 DEF Handshake, Told, PlaceInv, StageInv, Stages, choiceVars,
                             statVars, Fronted
  <2>2. Len(clientGot') = Len(clientGot) + 1
    BY <1>13, <2>1, ToldOne, AnswerParts DEF Handshake, Fronted
  <2>3. UNCHANGED statVars /\ pc' \in {"front", "gone"}
    BY <1>13 DEF Handshake
  <2>4. pc' \in Stages => Told' = Preamble
    BY <1>3, <2>3 DEF Told, Stages
  <2> QED
    BY <1>2, <1>6, <2>1, <2>2, <2>3, <2>4, Counts DEF statVars
<1>14. CASE ConnectFront
  <2>1. PlaceInv' /\ Told = Preamble /\ pc' \in {"pipe", "gone"}
    BY <1>2, <1>14 DEF ConnectFront, Told, PlaceInv, StageInv, Stages, choiceVars, Fronted
  <2>2. legs' = legs \/ legs' = [legs EXCEPT !["fronted"] = legs["fronted"] + 1]
    BY <1>14 DEF ConnectFront
  <2>3. legs' \in LegCounts
    BY <1>2, <1>4, <2>2 DEF NoLegs, LegCounts
  <2>4. UNCHANGED <<clientGot, bytesUp, bytesDown>>
    BY <1>14 DEF ConnectFront
  <2>5. Len(clientGot') = Preamble /\ Preamble \in 0..Preamble
    BY <1>2, <2>1, <2>4, Counts
  <2>6. pc' \notin Stages
    BY <2>1 DEF Stages
  <2> QED
    BY <1>6, <2>1, <2>3, <2>4, <2>5, <2>6
<1>15. CASE ConnectDirect
  <2>1. PlaceInv' /\ legs' \in LegCounts /\ Told = Asked - 1 /\ ~Fronted
        /\ pc' \in {"connected", "gone"}
    BY <1>2, <1>4, <1>15 DEF ConnectDirect, Told, PlaceInv, StageInv, Stages, choiceVars,
                             statVars, Fronted
  <2>2. clientGot' = clientGot \/ (pc' = "gone" /\ Len(clientGot') = Len(clientGot) + 1)
    <3>1. clientGot' = clientGot \/ (pc' = "gone" /\ Answer("failed"))
      BY <1>15 DEF ConnectDirect
    <3>2. Answer("failed") => Len(clientGot') = Len(clientGot) + 1
      BY ToldOne, AnswerParts
    <3> QED
      BY <3>1, <3>2
  <2>3. pc' \in Stages => Told' = Asked - 1 /\ clientGot' = clientGot
    BY <1>3, <1>15, <2>1 DEF ConnectDirect, Told, Stages
  <2>4. UNCHANGED statVars
    BY <1>15 DEF ConnectDirect
  <2>5. Len(clientGot') \in 0..Preamble
    BY <1>2, <2>1, <2>2, Counts
  <2>6. pc' \in Stages => Len(clientGot') = Told'
    BY <1>2, <2>1, <2>3
  <2> QED
    BY <1>6, <2>1, <2>4, <2>5, <2>6 DEF statVars
<1>16. CASE AnswerDirect
  <2>1. PlaceInv' /\ legs' \in LegCounts /\ Told = Asked - 1 /\ ~Fronted /\ pc' = "answered"
    BY <1>2, <1>4, <1>16 DEF AnswerDirect, Told, PlaceInv, StageInv, Stages, choiceVars,
                             statVars, Fronted
  <2>2. Len(clientGot') = Len(clientGot) + 1
    BY <1>16, ToldOne, AnswerParts DEF AnswerDirect
  <2>3. Told' = Preamble
    BY <1>3, <2>1 DEF Told
  <2>4. UNCHANGED statVars
    BY <1>16 DEF AnswerDirect
  <2>5. Len(clientGot') = Preamble /\ Preamble \in 0..Preamble
    BY <1>2, <2>1, <2>2, Counts
  <2> QED
    BY <1>6, <2>1, <2>3, <2>4, <2>5 DEF statVars
<1>18. CASE CountDirect
  <2>1. PlaceInv' /\ Told = Preamble /\ pc' = "pipe"
    BY <1>2, <1>18 DEF CountDirect, Told, PlaceInv, StageInv, Stages, choiceVars, Fronted
  <2>2. legs' = [legs EXCEPT !["direct"] = legs["direct"] + 1]
    BY <1>18 DEF CountDirect
  <2>3. legs' \in LegCounts
    BY <1>2, <1>4, <2>2 DEF NoLegs, LegCounts
  <2>4. UNCHANGED <<clientGot, bytesUp, bytesDown>>
    BY <1>18 DEF CountDirect
  <2>5. Len(clientGot') = Preamble /\ Preamble \in 0..Preamble
    BY <1>2, <2>1, <2>4, Counts
  <2>6. pc' \notin Stages
    BY <2>1 DEF Stages
  <2> QED
    BY <1>6, <2>1, <2>3, <2>4, <2>5, <2>6
<1>17. ~PipeEnds /\ ~PipeBreaks
  BY DEF PipeEnds, PipeBreaks, Stages
<1> QED
  BY <1>7, <1>8, <1>9, <1>10, <1>11, <1>12, <1>13, <1>14, <1>15, <1>16, <1>17,
     <1>18 DEF ProxyStep

LEMMA PipeCloses ==
    ProxyStep /\ pc \notin Stages =>
        /\ UNCHANGED <<choiceVars, legs, clientGot>> /\ pc = "pipe" /\ pc' = "gone"
        /\ PipeEnds \/ (PipeBreaks /\ UNCHANGED statVars)
  BY DEF ProxyStep, ReadConnect, ReadGreeting, ReadRequest, GiveUp, AnswerFronted,
         AcceptHello, OpenCa, MintLeaf, Handshake, ConnectFront, ConnectDirect, AnswerDirect,
         CountDirect, PipeEnds, PipeBreaks, Untouched, Stages, statVars

LEMMA NextStageInv == LegInv /\ StageInv /\ [Next]_vars => StageInv'
<1> SUFFICES ASSUME LegInv, StageInv, [Next]_vars PROVE StageInv'
  OBVIOUS
<1>1. CASE ProxyStep /\ pc \in Stages
  BY <1>1, BeforePipe
<1>2. CASE ProxyStep /\ pc \notin Stages
  BY <1>2, PipeCloses DEF StageInv, PlaceInv, Stages, choiceVars
<1>3. CASE ~ProxyStep
  <2>1. UNCHANGED <<choiceVars, pc, statVars>>
        /\ (pc \in Stages => UNCHANGED <<clientGot, serverGot>>)
    BY <1>3 DEF Next, ClientSend, ClientFinish, ServerSend, ServerFinish, RelayUp, RelayDown,
         EndUp, EndDown, vars, upVars, downVars, Stages
  <2>2. pc \in Stages => Told' = Told
    BY <2>1, SameChoice DEF Told, Stages
  <2>3. PlaceInv'
    BY <2>1 DEF StageInv, PlaceInv, choiceVars, Fronted
  <2> QED
    BY <2>1, <2>2, <2>3 DEF StageInv, statVars
<1> QED
  BY <1>1, <1>2, <1>3

LEMMA StageInvariant == Spec => []StageInv
  BY LegInvariant, InitStageInv, NextStageInv, PTL DEF Spec

-----------------------------------------------------------------------------
(* The client's parts.                                                      *)

\* One part for each that is asked, the hello, and the data.
LEMMA ScriptParts ==
    ASSUME StageInv
    PROVE  /\ Script \in Seq(Parts) /\ Len(Script) = Asked + 1 + MaxData
           /\ \A n \in 1..Len(Script) : n > Asked => Script[n] \in Payload
           /\ proto = "connect" => Script[2] = Hello
<1> DEFINE data == [n \in 1..MaxData |-> Data(n)]
           ask1 == <<Sign("head")>>
           ask2 == <<Sign("greeting"), Sign("request")>>
           asks == IF proto = "connect" THEN ask1 ELSE ask2
<1>1. MaxData \in Nat /\ Hello \in Payload /\ Payload \subseteq Parts
  BY DataAssumption DEF DataAssumption, Payload, Parts
<1>2. data \in Seq(Payload) /\ Len(data) = MaxData
  <2>1. data \in [1..MaxData -> Payload]
    BY DEF Payload
  <2> QED
    BY <1>1, <2>1, IsASeq
<1>3. asks \in Seq(Parts) /\ Len(asks) = Asked
  <2>1. Sign("head") \in Parts /\ Sign("greeting") \in Parts /\ Sign("request") \in Parts
    BY DEF Parts, Controls
  <2>2. ask1 \in Seq(Parts) /\ Len(ask1) = 1 /\ ask2 \in Seq(Parts) /\ Len(ask2) = 2
    BY <2>1
  <2> QED
    BY <2>2 DEF Asked
<1>4. /\ <<Hello>> \in Seq(Parts) /\ Len(<<Hello>>) = 1 /\ <<Hello>>[1] = Hello
      /\ data \in Seq(Parts)
  BY <1>1, <1>2, ElementOfSeq
<1>5. Script = (asks \o <<Hello>>) \o data
  BY DEF Script
<1> HIDE DEF data, asks
<1> DEFINE first == asks \o <<Hello>>
<1>6. /\ first \in Seq(Parts) /\ Len(first) = Asked + 1
      /\ first[Asked + 1] = Hello
  <2>1. first \in Seq(Parts) /\ Len(first) = Len(asks) + Len(<<Hello>>)
    BY <1>3, <1>4, ConcatProperties
  <2>2. Asked \in Nat
    BY Counts
  <2>3. first = Append(asks, Hello)
    BY <1>1, <1>3, AppendIsConcat
  <2>4. first[Len(asks) + 1] = Hello
    BY <1>1, <1>3, <2>3, AppendProperties
  <2> QED
    BY <1>3, <1>4, <2>1, <2>2, <2>4
<1> HIDE DEF first
<1>7. /\ Script \in Seq(Parts) /\ Len(Script) = Asked + 1 + MaxData
      /\ \A n \in 1..Len(Script) :
            Script[n] = IF n <= Asked + 1 THEN first[n] ELSE data[n - (Asked + 1)]
  <2>1. data \in Seq(Parts) /\ Script = first \o data
    BY <1>4, <1>5 DEF first
  <2>2. /\ Script \in Seq(Parts) /\ Len(Script) = Len(first) + Len(data)
        /\ \A n \in 1..Len(first) + Len(data) :
              Script[n] = IF n <= Len(first) THEN first[n] ELSE data[n - Len(first)]
    BY <1>6, <2>1, ConcatProperties
  <2> QED
    BY <1>2, <1>6, <2>2
<1>8. ASSUME NEW n \in 1..Len(Script), n > Asked
      PROVE  Script[n] \in Payload
  <2>1. Asked \in Nat
    BY Counts
  <2>2. CASE n = Asked + 1
    <3>1. Script[n] = first[n]
      BY <1>7, <2>1, <2>2
    <3> QED
      BY <1>1, <1>6, <2>2, <3>1
  <2>3. CASE n > Asked + 1
    <3>1. n - (Asked + 1) \in 1..Len(data) /\ Script[n] = data[n - (Asked + 1)]
      BY <1>1, <1>2, <1>7, <2>1, <2>3
    <3> QED
      BY <1>2, <3>1, ElementOfSeq
  <2>4. n = Asked + 1 \/ n > Asked + 1
    BY <1>8, <2>1
  <2> QED
    BY <2>2, <2>3, <2>4
<1>9. ASSUME proto = "connect"
      PROVE  Script[2] = Hello
  <2>1. Asked = 1
    BY <1>9, Counts
  <2>2. 2 \in 1..Len(Script)
    BY <1>1, <1>7, <2>1
  <2>3. Script[2] = first[2]
    BY <1>7, <2>1, <2>2
  <2> QED
    BY <1>6, <2>1, <2>3
<1> QED
  BY <1>7, <1>8, <1>9

-----------------------------------------------------------------------------
(* What the client sent: taken by the handler, at the server, or in flight. *)

\* A step of the handler leaves what was sent alone, and takes one part of it at most,
\* but for read_head, which takes all it finds.
Takes(n) ==
    /\ toProxy' = SubSeq(toProxy, n + 1, Len(toProxy))
    /\ pc' = "gone" \/ Taken' = Taken + 1

LEMMA ProxyLeaves ==
    ProxyStep => UNCHANGED <<choiceVars, clientVars, serverVars, serverGot, serverEnd,
                             fromServer, clientEnd>> /\ pc' # "head"
  BY DEF ProxyStep, ReadConnect, ReadGreeting, ReadRequest, GiveUp, AnswerFronted,
         AcceptHello, OpenCa, MintLeaf, Handshake, ConnectFront, ConnectDirect, AnswerDirect,
         CountDirect, PipeEnds, PipeBreaks, Untouched

LEMMA TailTaken ==
    ASSUME NEW S, NEW s \in Seq(S), s # <<>>
    PROVE  Len(s) \in Nat /\ 1 \in 1..Len(s) /\ Tail(s) = SubSeq(s, 1 + 1, Len(s))
  BY TailIsSubSeq, EmptySeq, LenProperties

LEMMA HandlerTakes ==
    ASSUME StageInv, ProxyStep, toProxy \in Seq(Parts)
    PROVE  \/ toProxy' = toProxy /\ (pc' = "gone" \/ Taken' = Taken)
           \/ /\ pc \in {"head", "greeting", "request", "accept"}
              /\ \E n \in 1..Len(toProxy) : Takes(n) /\ (pc # "head" => n = 1)
<1>1. Asked' = Asked /\ Preamble' = Preamble
  BY ProxyLeaves, SameChoice
<1>2. CASE ReadConnect
  <2>1. PICK n \in 1..Len(toProxy) : toProxy' = SubSeq(toProxy, n + 1, Len(toProxy))
    BY <1>2 DEF ReadConnect
  <2>2. pc = "head" /\ proto = "connect" /\ (pc' = "leg" \/ pc' = "gone")
    BY <1>2 DEF ReadConnect, StageInv, PlaceInv
  <2>3. pc' = "gone" \/ Taken' = Taken + 1
    BY <1>1, <2>2, Counts DEF Taken
  <2> QED
    BY <2>1, <2>2, <2>3 DEF Takes
<1>3. CASE ReadGreeting \/ ReadRequest \/ AcceptHello
  <2>1. /\ toProxy # <<>> /\ toProxy' = Tail(toProxy)
        /\ \/ pc = "greeting" /\ pc' \in {"request", "gone"}
           \/ pc = "request" /\ pc' \in {"leg", "gone"} /\ proto = "socks"
           \/ pc = "accept" /\ pc' \in {"open", "gone"} /\ Fronted
    BY <1>3 DEF ReadGreeting, ReadRequest, AcceptHello, StageInv, PlaceInv
  <2>2. pc' = "gone" \/ Taken' = Taken + 1
    BY <1>1, <2>1, Counts DEF Taken
  <2>3. 1 \in 1..Len(toProxy) /\ toProxy' = SubSeq(toProxy, 1 + 1, Len(toProxy))
    BY <2>1, TailTaken
  <2>4. Takes(1)
    BY <2>2, <2>3 DEF Takes
  <2> QED
    BY <2>1, <2>3, <2>4
<1>4. CASE ~(ReadConnect \/ ReadGreeting \/ ReadRequest \/ AcceptHello)
  <2>1. /\ toProxy' = toProxy
        /\ \/ pc' = "gone"
           \/ pc = "leg" /\ pc' \in {"accept", "connected"}
           \/ pc \in {"open", "mint", "handshake", "front"}
              /\ pc' \in {"mint", "handshake", "front", "pipe"}
           \/ pc = "connected" /\ pc' = "answered" /\ ~Fronted
           \/ pc = "answered" /\ pc' = "pipe" /\ ~Fronted
    BY <1>4 DEF ProxyStep, GiveUp, AnswerFronted, OpenCa, MintLeaf, Handshake, ConnectFront,
                ConnectDirect, AnswerDirect, CountDirect, PipeEnds, PipeBreaks, StageInv,
                PlaceInv
  <2>2. pc' = "gone" \/ Taken' = Taken
    BY <1>1, <2>1, Counts DEF Taken
  <2> QED
    BY <2>1, <2>2
<1> QED
  BY <1>2, <1>3, <1>4

\* The client keeps to its script, and nothing reaches the server that it did not send.
StreamInv ==
    /\ clientSent \in Seq(Parts) /\ toProxy \in Seq(Parts) /\ serverGot \in Seq(Parts)
    /\ clientFin \in BOOLEAN /\ clientEnd \in BOOLEAN
    /\ serverFin \in BOOLEAN /\ serverEnd \in BOOLEAN
    /\ Len(clientSent) <= Len(Script)
    /\ Len(serverSent) <= MaxData
    /\ pc # "gone" => Taken + Len(serverGot) + Len(toProxy) <= Len(clientSent)

LEMMA InitStreamInv == Init => StreamInv
<1> SUFFICES ASSUME Init PROVE StreamInv
  OBVIOUS
<1>1. StageInv /\ Taken = 0
  BY InitStageInv DEF Init, Taken
<1>2. Len(Script) \in Nat /\ MaxData \in Nat
  BY <1>1, ScriptParts, LenProperties, DataAssumption DEF DataAssumption
<1>3. clientSent = <<>> /\ toProxy = <<>> /\ serverGot = <<>> /\ serverSent = <<>>
  BY DEF Init
<1>4. /\ Len(clientSent) = 0 /\ Len(toProxy) = 0 /\ Len(serverGot) = 0 /\ Len(serverSent) = 0
      /\ clientSent \in Seq(Parts) /\ toProxy \in Seq(Parts) /\ serverGot \in Seq(Parts)
  BY <1>3
<1>5. /\ clientFin \in BOOLEAN /\ clientEnd \in BOOLEAN
      /\ serverFin \in BOOLEAN /\ serverEnd \in BOOLEAN
  BY DEF Init
<1>6. /\ Len(clientSent) <= Len(Script) /\ Len(serverSent) <= MaxData
      /\ Taken + Len(serverGot) + Len(toProxy) <= Len(clientSent)
  BY <1>1, <1>2, <1>4
<1> QED
  BY <1>4, <1>5, <1>6 DEF StreamInv

LEMMA TakenNat ==
    ASSUME StageInv
    PROVE  Taken \in Nat /\ (pc = "pipe" => Taken = Preamble) /\ (pc = "head" => Taken = 0)
  BY Counts DEF Taken

\* What a client sends next.
LEMMA NextPart ==
    ASSUME StageInv, StreamInv, ClientSend
    PROVE  \E part \in Parts :
              /\ clientSent' = Append(clientSent, part) /\ toProxy' = Append(toProxy, part)
              /\ Due(part) /\ part = Script[Len(clientSent) + 1]
              /\ Len(clientSent) >= Preamble => part \in Payload
              /\ Len(clientSent) + 1 <= Len(Script) /\ pc # "gone" /\ ~clientFin
<1> DEFINE part == Script[Len(clientSent) + 1]
<1>1. Len(clientSent) \in Nat /\ Len(Script) \in Nat /\ Len(clientSent) < Len(Script)
  BY ScriptParts, LenProperties DEF ClientSend, StreamInv
<1>2. Len(clientSent) + 1 \in 1..Len(Script)
  BY <1>1
<1>3. part \in Parts
  BY <1>2, ScriptParts, ElementOfSeq
<1>4. ASSUME Len(clientSent) >= Preamble
      PROVE  part \in Payload
  <2>1. Len(clientSent) + 1 > Asked
    BY <1>1, <1>4, Counts
  <2> QED
    BY <1>2, <2>1, ScriptParts
<1> QED
  BY <1>2, <1>3, <1>4 DEF ClientSend

LEMMA NextStreamInv == LegInv /\ StageInv /\ StreamInv /\ [Next]_vars => StreamInv'
<1> SUFFICES ASSUME LegInv, StageInv, StreamInv, [Next]_vars PROVE StreamInv'
  OBVIOUS
<1>1. /\ Len(clientSent) \in Nat /\ Len(toProxy) \in Nat /\ Len(serverGot) \in Nat
      /\ Len(serverSent) \in Nat /\ MaxData \in Nat /\ Taken \in Nat
  <2>1. MaxData \in Nat /\ Taken \in Nat
    BY TakenNat, DataAssumption DEF DataAssumption
  <2>2. /\ clientSent \in Seq(Parts) /\ toProxy \in Seq(Parts) /\ serverGot \in Seq(Parts)
        /\ serverSent \in Seq(DataParts)
    BY DEF StreamInv, LegInv
  <2> QED
    BY <2>1, <2>2, LenProperties
<1>2. CASE ClientSend
  <2>1. PICK part \in Parts : /\ clientSent' = Append(clientSent, part)
                              /\ toProxy' = Append(toProxy, part)
                              /\ Len(clientSent) + 1 <= Len(Script)
    BY <1>2, NextPart
  <2>2. UNCHANGED <<choiceVars, pc, clientFin, clientEnd, serverVars, serverGot, serverEnd>>
    BY <1>2 DEF ClientSend, downVars
  <2>3. Script' = Script /\ Taken' = Taken
    BY <2>2, SameChoice DEF Taken
  <2>4. /\ clientSent' \in Seq(Parts) /\ toProxy' \in Seq(Parts)
        /\ Len(clientSent') = Len(clientSent) + 1 /\ Len(toProxy') = Len(toProxy) + 1
    BY <2>1, AppendProperties DEF StreamInv
  <2>5. pc # "gone" => Taken' + Len(serverGot') + Len(toProxy') <= Len(clientSent')
    BY <1>1, <2>2, <2>3, <2>4 DEF StreamInv
  <2> QED
    BY <2>1, <2>2, <2>3, <2>4, <2>5 DEF StreamInv, serverVars
<1>3. CASE ServerSend
  <2>1. /\ UNCHANGED <<choiceVars, pc, clientSent, clientFin, clientEnd, serverFin, toProxy,
                       serverGot, serverEnd>>
        /\ \E part \in DataParts : serverSent' = Append(serverSent, part)
        /\ Len(serverSent) < MaxData
    BY <1>1, <1>3, DataSent DEF ServerSend, clientVars, upVars
  <2>2. Script' = Script /\ Taken' = Taken
    BY <2>1, SameChoice DEF Taken
  <2>3. Len(serverSent') = Len(serverSent) + 1
    BY <2>1, AppendProperties DEF LegInv
  <2>4. Len(serverSent') <= MaxData
    BY <1>1, <2>1, <2>3
  <2> QED
    BY <2>1, <2>2, <2>4 DEF StreamInv
<1>4. CASE ProxyStep
  <2>1. /\ UNCHANGED <<choiceVars, clientSent, clientFin, clientEnd, serverSent, serverFin,
                       serverGot, serverEnd>>
        /\ Script' = Script
    BY <1>4, ProxyLeaves, SameChoice DEF clientVars, serverVars
  <2>2. CASE toProxy' = toProxy /\ (pc' = "gone" \/ Taken' = Taken)
    <3>1. pc # "gone"
      BY <1>4 DEF ProxyStep, ReadConnect, ReadGreeting, ReadRequest, GiveUp, AnswerFronted,
         AcceptHello, OpenCa, MintLeaf, Handshake, ConnectFront, ConnectDirect, AnswerDirect,
         CountDirect, PipeEnds, PipeBreaks
    <3> QED
      BY <2>1, <2>2, <3>1 DEF StreamInv
  <2>3. CASE /\ pc \in {"head", "greeting", "request", "accept"}
             /\ \E n \in 1..Len(toProxy) : Takes(n)
    <3>1. PICK n \in 1..Len(toProxy) : Takes(n)
      BY <2>3
    <3>2. toProxy' = From(toProxy, n) /\ (pc' = "gone" \/ Taken' = Taken + 1)
      BY <3>1 DEF Takes, From
    <3>3. n \in 0..Len(toProxy)
      BY <1>1
    <3>4. toProxy' \in Seq(Parts) /\ Len(toProxy') = Len(toProxy) - n
      BY <3>2, <3>3, FromProperties DEF StreamInv
    <3>5. Taken + Len(serverGot) + Len(toProxy) <= Len(clientSent)
      BY <2>3 DEF StreamInv
    <3>6. Taken + 1 + Len(serverGot) + Len(toProxy') <= Len(clientSent)
      BY <1>1, <3>4, <3>5
    <3> QED
      BY <2>1, <3>2, <3>4, <3>6 DEF StreamInv
  <2>4. toProxy \in Seq(Parts)
    BY DEF StreamInv
  <2> QED
    BY <1>4, <2>2, <2>3, <2>4, HandlerTakes
<1>5. CASE RelayUp
  <2>1. PICK n \in 1..Len(toProxy) : /\ serverGot' = serverGot \o SubSeq(toProxy, 1, n)
                                     /\ toProxy' = From(toProxy, n)
    BY <1>5 DEF RelayUp, From
  <2>2. UNCHANGED <<choiceVars, pc, clientSent, clientFin, clientEnd, serverSent, serverFin,
                    serverEnd>>
    BY <1>5 DEF RelayUp, clientVars, serverVars, downVars
  <2>3. Script' = Script /\ Taken' = Taken
    BY <2>2, SameChoice DEF Taken
  <2>4. /\ serverGot' \in Seq(Parts) /\ toProxy' \in Seq(Parts)
        /\ Len(serverGot') = Len(serverGot) + n
    <3>1. \A m \in 1..n : toProxy[m] \in Parts
      BY <1>1, ElementOfSeq DEF StreamInv
    <3>2. SubSeq(toProxy, 1, n) \in Seq(Parts) /\ Len(SubSeq(toProxy, 1, n)) = n
      BY <3>1, SubSeqProperties
    <3>3. n \in 0..Len(toProxy)
      BY <1>1
    <3> QED
      BY <2>1, <3>2, <3>3, ConcatProperties, FromProperties DEF StreamInv
  <2>5. Len(toProxy') = Len(toProxy) - n
    <3>1. n \in 0..Len(toProxy)
      BY <1>1
    <3> QED
      BY <2>1, <3>1, FromProperties DEF StreamInv
  <2>6. Len(serverGot') + Len(toProxy') = Len(serverGot) + Len(toProxy)
    BY <1>1, <2>4, <2>5
  <2>7. pc # "gone" => Taken + Len(serverGot') + Len(toProxy') <= Len(clientSent)
    BY <1>1, <2>4, <2>5 DEF StreamInv
  <2> QED
    BY <2>2, <2>3, <2>4, <2>7 DEF StreamInv
<1>6. CASE ClientFinish \/ ServerFinish \/ RelayDown \/ EndUp \/ EndDown \/ UNCHANGED vars
  <2>1. UNCHANGED <<choiceVars, pc, clientSent, serverSent, toProxy, serverGot>>
    BY <1>6 DEF ClientFinish, ServerFinish, RelayDown, EndUp, EndDown, vars, clientVars,
                serverVars, upVars, downVars
  <2>3. /\ clientFin' = TRUE \/ clientFin' = clientFin
        /\ clientEnd' = TRUE \/ clientEnd' = clientEnd
        /\ serverFin' = TRUE \/ serverFin' = serverFin
        /\ serverEnd' = TRUE \/ serverEnd' = serverEnd
    BY <1>6 DEF ClientFinish, ServerFinish, RelayDown, EndUp, EndDown, vars, clientVars,
                serverVars, upVars, downVars
  <2>2. Script' = Script /\ Taken' = Taken
    BY <2>1, SameChoice DEF Taken
  <2> QED
    BY <2>1, <2>2, <2>3 DEF StreamInv
<1> QED
  BY <1>2, <1>3, <1>4, <1>5, <1>6 DEF Next

LEMMA StreamInvariant == Spec => []StreamInv
  BY LegInvariant, StageInvariant, InitStreamInv, NextStreamInv, PTL DEF Spec

\* What the client sent is what was taken, what reached the server and what is in flight:
\* behind a CONNECT's head there is nothing that the one read could take along.
UpInv ==
    /\ pc = "head" => Len(clientSent) <= 1
    /\ pc # "gone" => /\ Taken <= Len(clientSent)
                      /\ From(clientSent, Taken) = Joined(serverGot, toProxy)

LEMMA InitUpInv == Init => UpInv
<1> SUFFICES ASSUME Init PROVE UpInv
  OBVIOUS
<1>1. Taken = 0 /\ clientSent = <<>> /\ toProxy = <<>> /\ serverGot = <<>>
  BY DEF Init, Taken
<1>2. Len(clientSent) = 0 /\ From(clientSent, 0) = <<>> /\ Joined(serverGot, toProxy) = <<>>
  BY <1>1, FromZero, JoinedEmpty, EmptySeq
<1> QED
  BY <1>1, <1>2 DEF UpInv

\* A client that waits for the answer sends nothing behind its head.
LEMMA HeadAlone ==
    ASSUME "eagerConnect" \notin Hazards, LegInv, StageInv, StreamInv, UpInv,
           ClientSend, pc = "head"
    PROVE  Len(clientSent) = 0
<1>1. proto = "connect" /\ ~Eager
  BY DEF StageInv, PlaceInv, Eager
<1>2. ~Has(clientGot, "ok")
  <2>1. Len(clientGot) = 0
    BY DEF StageInv, Stages, Told
  <2>2. DOMAIN clientGot = {}
    BY <2>1, LenProperties DEF LegInv
  <2> QED
    BY <2>2 DEF Has, ToSet
<1>3. Len(clientSent) \in Nat /\ Len(clientSent) <= 1
  BY LenProperties DEF StreamInv, UpInv
<1>4. ASSUME Len(clientSent) = 1
      PROVE  FALSE
  <2>1. Due(Hello)
    BY <1>1, <1>4, ScriptParts DEF ClientSend
  <2>2. Hello.what = "hello"
    BY DEF Hello, Sign, Part
  <2> QED
    BY <1>1, <1>2, <2>1, <2>2 DEF Due
<1>5. Len(clientSent) = 0 \/ Len(clientSent) = 1
  <2>1. \A n \in Nat : n <= 1 => n = 0 \/ n = 1
    OBVIOUS
  <2> QED
    BY <1>3, <2>1, Zenon
<1> QED
  BY <1>4, <1>5

LEMMA NextUpInv ==
    ASSUME "eagerConnect" \notin Hazards, LegInv, StageInv, StreamInv, UpInv, [Next]_vars
    PROVE  UpInv'
<1>1. Len(clientSent) \in Nat /\ Len(toProxy) \in Nat /\ Taken \in Nat
  BY LenProperties, TakenNat DEF StreamInv
<1>2. CASE ClientSend
  <2>1. PICK part \in Parts : /\ clientSent' = Append(clientSent, part)
                              /\ toProxy' = Append(toProxy, part)
                              /\ pc # "gone"
    BY <1>2, NextPart
  <2>2. UNCHANGED <<choiceVars, pc, serverGot>>
    BY <1>2 DEF ClientSend
  <2>3. Taken' = Taken
    BY <2>2, SameChoice DEF Taken
  <2>4. Len(clientSent') = Len(clientSent) + 1
    BY <2>1, AppendProperties DEF StreamInv
  <2>5. Taken \in 0..Len(clientSent) /\ From(clientSent, Taken) = Joined(serverGot, toProxy)
    BY <1>1, <2>1 DEF UpInv
  <2>6. From(clientSent', Taken) = Append(From(clientSent, Taken), part)
    BY <2>1, <2>5, FromAppend DEF StreamInv
  <2>7. From(clientSent', Taken) = Joined(serverGot, toProxy')
    <3>1. serverGot \in Seq(Parts) /\ toProxy \in Seq(Parts)
      BY DEF StreamInv
    <3>2. Append(Joined(serverGot, toProxy), part) = Joined(serverGot, Append(toProxy, part))
      BY <3>1, AppendInFlight
    <3> QED
      BY <2>1, <2>5, <2>6, <3>2
  <2>8. pc = "head" => Len(clientSent') <= 1
    BY <1>2, <2>4, HeadAlone
  <2>9. Taken <= Len(clientSent')
    BY <1>1, <2>4, <2>5
  <2> QED
    BY <2>2, <2>3, <2>7, <2>8, <2>9 DEF UpInv
<1>3. CASE ProxyStep
  <2>1. UNCHANGED <<clientSent, serverGot>> /\ pc' # "head"
    BY <1>3, ProxyLeaves DEF clientVars
  <2>2. pc # "gone"
    BY <1>3 DEF ProxyStep, ReadConnect, ReadGreeting, ReadRequest, GiveUp, AnswerFronted,
         AcceptHello, OpenCa, MintLeaf, Handshake, ConnectFront, ConnectDirect, AnswerDirect,
         CountDirect, PipeEnds, PipeBreaks
  <2>3. CASE toProxy' = toProxy /\ (pc' = "gone" \/ Taken' = Taken)
    BY <2>1, <2>2, <2>3 DEF UpInv
  <2>4. CASE /\ pc \in {"head", "greeting", "request", "accept"}
             /\ \E n \in 1..Len(toProxy) : Takes(n) /\ (pc # "head" => n = 1)
    <3>1. PICK n \in 1..Len(toProxy) : Takes(n) /\ (pc # "head" => n = 1)
      BY <2>4
    <3>2. toProxy = From(clientSent, Taken) /\ Taken \in 0..Len(clientSent)
      <4>1. serverGot = <<>> /\ Taken \in 0..Len(clientSent)
            /\ From(clientSent, Taken) = Joined(serverGot, toProxy)
        BY <1>1, <2>2, <2>4 DEF StageInv, Stages, UpInv
      <4>2. Joined(<<>>, toProxy) = toProxy
        BY JoinedEmpty DEF StreamInv
      <4> QED
        BY <4>1, <4>2
    <3>3. Len(toProxy) = Len(clientSent) - Taken
      BY <3>2, FromProperties DEF StreamInv
    <3>4. n = 1
      <4>1. pc = "head" => Taken = 0 /\ Len(clientSent) <= 1
        BY TakenNat DEF UpInv
      <4>2. pc = "head" => n = 1
        BY <1>1, <3>3, <4>1
      <4> QED
        BY <3>1, <4>2
    <3>5. 1 \in 0..Len(clientSent) - Taken
      BY <1>1, <3>3, <3>4
    <3>6. toProxy' = From(toProxy, 1)
      BY <3>1, <3>4 DEF Takes, From
    <3>7. toProxy' = From(clientSent, Taken + 1)
      BY <3>2, <3>5, <3>6, FromFrom DEF StreamInv
    <3>8. Taken + 1 <= Len(clientSent)
      BY <1>1, <3>5
    <3>9. pc' = "gone" \/ Taken' = Taken + 1
      BY <3>1 DEF Takes
    <3>10. Joined(serverGot', toProxy') = toProxy'
      <4>1. serverGot' = <<>>
        BY <2>1, <2>4 DEF StageInv, Stages
      <4>2. toProxy' \in Seq(Parts)
        BY <1>1, <3>5, <3>6, <3>3, FromProperties DEF StreamInv
      <4> QED
        BY <4>1, <4>2, JoinedEmpty
    <3> QED
      BY <2>1, <3>7, <3>8, <3>9, <3>10 DEF UpInv
  <2> QED
    BY <1>3, <2>3, <2>4, HandlerTakes DEF StreamInv
<1>4. CASE RelayUp
  <2>1. PICK n \in 1..Len(toProxy) : /\ serverGot' = Joined(serverGot, SubSeq(toProxy, 1, n))
                                     /\ toProxy' = From(toProxy, n)
    BY <1>4 DEF RelayUp, From, Joined
  <2>2. UNCHANGED <<choiceVars, pc, clientSent>> /\ pc = "pipe"
    BY <1>4 DEF RelayUp, clientVars
  <2>3. Taken' = Taken
    BY <2>2, SameChoice DEF Taken
  <2>4. Joined(serverGot', toProxy') = From(clientSent, Taken)
    <3>1. From(clientSent, Taken) = Joined(serverGot, toProxy)
      BY <2>2 DEF UpInv
    <3>2. serverGot \in Seq(Parts) /\ toProxy \in Seq(Parts)
      BY DEF StreamInv
    <3>3. Joined(Joined(serverGot, SubSeq(toProxy, 1, n)), From(toProxy, n)) = Joined(serverGot, toProxy)
      BY <3>2, Moved
    <3> QED
      BY <2>1, <3>1, <3>3
  <2> QED
    BY <2>2, <2>3, <2>4 DEF UpInv
<1>5. CASE ~ClientSend /\ ~ProxyStep /\ ~RelayUp
  <2>1. UNCHANGED <<choiceVars, pc, clientSent, toProxy, serverGot>>
    BY <1>5 DEF Next, ClientFinish, ServerSend, ServerFinish, RelayDown, EndUp, EndDown, vars,
                clientVars, upVars
  <2>2. Taken' = Taken
    BY <2>1, SameChoice DEF Taken
  <2> QED
    BY <2>1, <2>2 DEF UpInv
<1> QED
  BY <1>2, <1>3, <1>4, <1>5

LEMMA UpInvariant ==
    ASSUME "eagerConnect" \notin Hazards
    PROVE  Spec => []UpInv
<1>1. LegInv /\ StageInv /\ StreamInv /\ UpInv /\ [Next]_vars => UpInv'
  BY NextUpInv
<1> QED
  BY <1>1, LegInvariant, StageInvariant, StreamInvariant, InitUpInv, PTL DEF Spec

\* The payload the server has grows by what the pipe moves.
LEMMA UpDelivers ==
    ASSUME LegInv, StageInv, StreamInv, UpInv, RelayUp
    PROVE  Up!Deliver
<1>1. PICK n \in 1..Len(toProxy) : serverGot' = Joined(serverGot, SubSeq(toProxy, 1, n))
  BY DEF RelayUp, Joined
<1>2. UNCHANGED <<choiceVars, clientSent, clientFin, serverEnd>> /\ pc = "pipe"
  BY DEF RelayUp, clientVars
<1>3. PayloadOf(clientSent)' = PayloadOf(clientSent)
  BY <1>2, SameChoice DEF PayloadOf
<1>4. PayloadOf(clientSent) = Joined(serverGot, toProxy)
  BY <1>2, TakenNat DEF UpInv, PayloadOf, From
<1>5. serverGot \in Seq(Parts) /\ toProxy \in Seq(Parts)
  BY DEF StreamInv
<1>6. /\ Len(serverGot) + n \in (Len(serverGot) + 1)..Len(Joined(serverGot, toProxy))
      /\ Joined(serverGot, SubSeq(toProxy, 1, n))
            = SubSeq(Joined(serverGot, toProxy), 1, Len(serverGot) + n)
  BY <1>5, Moved
<1> QED
  BY <1>1, <1>2, <1>3, <1>4, <1>6 DEF Up!Deliver

LEMMA NextUp ==
    ASSUME LegInv, StageInv, StreamInv, UpInv, [Next]_vars
    PROVE  [Up!Next]_(Up!pipeVars)
<1>1. CASE ClientSend
  <2>1. PICK part \in Parts : /\ clientSent' = Append(clientSent, part)
                              /\ Len(clientSent) >= Preamble => part \in Payload
                              /\ ~clientFin
    BY <1>1, NextPart
  <2>2. UNCHANGED <<choiceVars, clientFin, serverGot, serverEnd>>
    BY <1>1 DEF ClientSend
  <2>3. Preamble' = Preamble /\ Preamble \in Nat /\ Len(clientSent) \in Nat
    BY <2>2, SameChoice, Counts, LenProperties DEF StreamInv
  <2>4. PayloadOf(clientSent) = From(clientSent, Preamble)
        /\ PayloadOf(clientSent)' = From(clientSent', Preamble)
    BY <2>3 DEF PayloadOf, From
  <2>5. CASE Len(clientSent) >= Preamble
    <3>1. Preamble \in 0..Len(clientSent)
      BY <2>3, <2>5
    <3>2. From(clientSent', Preamble) = Append(From(clientSent, Preamble), part)
      BY <2>1, <3>1, FromAppend DEF StreamInv
    <3>3. Up!Send
      BY <2>1, <2>2, <2>4, <2>5, <3>2 DEF Up!Send
    <3> QED
      BY <3>3 DEF Up!Next
  <2>6. CASE Len(clientSent) < Preamble
    <3>1. Len(clientSent') = Len(clientSent) + 1 /\ clientSent' \in Seq(Parts)
      BY <2>1, AppendProperties DEF StreamInv
    <3>2. Preamble >= Len(clientSent) /\ Preamble >= Len(clientSent')
      BY <2>3, <2>6, <3>1
    <3>3. From(clientSent, Preamble) = <<>> /\ From(clientSent', Preamble) = <<>>
      BY <2>3, <3>1, <3>2, FromEnd DEF StreamInv
    <3> QED
      BY <2>2, <2>4, <3>3 DEF Up!pipeVars
  <2> QED
    BY <2>3, <2>5, <2>6
<1>2. CASE RelayUp
  BY <1>2, UpDelivers DEF Up!Next
<1>3. CASE ClientFinish
  <2>1. UNCHANGED <<choiceVars, clientSent, serverGot, serverEnd>>
    BY <1>3 DEF ClientFinish, upVars
  <2>2. PayloadOf(clientSent)' = PayloadOf(clientSent)
    BY <2>1, SameChoice DEF PayloadOf
  <2>3. Up!Finish
    BY <1>3, <2>1, <2>2 DEF ClientFinish, Up!Finish
  <2> QED
    BY <2>3 DEF Up!Next
<1>4. CASE EndUp
  <2>1. UNCHANGED <<choiceVars, clientSent, clientFin, serverGot>>
    BY <1>4 DEF EndUp, clientVars
  <2>2. PayloadOf(clientSent)' = PayloadOf(clientSent)
    BY <2>1, SameChoice DEF PayloadOf
  <2>3. PayloadOf(clientSent) = Joined(serverGot, toProxy) /\ toProxy = <<>>
    BY <1>4, TakenNat DEF EndUp, UpInv, PayloadOf, From
  <2>4. PayloadOf(clientSent) = serverGot
    BY <2>3, JoinedEmpty DEF StreamInv
  <2>5. Up!DeliverEnd
    BY <1>4, <2>1, <2>2, <2>4 DEF EndUp, Up!DeliverEnd
  <2> QED
    BY <2>5 DEF Up!Next
<1>5. CASE ~ClientSend /\ ~RelayUp /\ ~ClientFinish /\ ~EndUp
  <2>1. UNCHANGED <<choiceVars, clientSent, clientFin, serverGot, serverEnd>>
    BY <1>5, ProxyLeaves DEF Next, ServerSend, ServerFinish, RelayDown, EndDown, vars,
                             clientVars, upVars
  <2>2. PayloadOf(clientSent)' = PayloadOf(clientSent)
    BY <2>1, SameChoice DEF PayloadOf
  <2> QED
    BY <2>1, <2>2 DEF Up!pipeVars
<1> QED
  BY <1>1, <1>2, <1>3, <1>4, <1>5

\* proxy_server.rs:7-8, "byte-pipe", from the client to the server: unless a client sends
\* on behind a CONNECT's head, whatever SOCKS5 requests and hellos are read with.
THEOREM UpIsABytePipe ==
    ASSUME "eagerConnect" \notin Hazards
    PROVE  Spec => UpIsPipe
<1>1. Init => Up!Init
  <2> SUFFICES ASSUME Init PROVE Up!Init
    OBVIOUS
  <2>1. Preamble \in Nat /\ clientSent = <<>>
    BY InitStageInv, Counts DEF Init
  <2>2. From(<<>>, Preamble) = <<>>
    <3>1. <<>> \in Seq(Parts) /\ Preamble >= Len(<<>>)
      BY <2>1
    <3> QED
      BY <2>1, <3>1, FromEnd
  <2> QED
    BY <2>1, <2>2 DEF Init, Up!Init, PayloadOf, From
<1>2. LegInv /\ StageInv /\ StreamInv /\ UpInv /\ [Next]_vars => [Up!Next]_(Up!pipeVars)
  BY NextUp
<1> QED
  BY <1>1, <1>2, LegInvariant, StageInvariant, StreamInvariant, UpInvariant, PTL
  DEF Spec, UpIsPipe, Up!Spec

-----------------------------------------------------------------------------
(* What the server sent: with the client, behind the preamble, or in flight. *)

\* A CONNECT's answer and certificate are no payload.
DownInv ==
    /\ pc = "pipe" => Len(clientGot) >= Preamble
    /\ pc # "gone" => serverSent = Joined(From(clientGot, Preamble), fromServer)

LEMMA DownParts ==
    ASSUME LegInv
    PROVE  clientGot \in Seq(Parts) /\ serverSent \in Seq(Parts) /\ fromServer \in Seq(Parts)
<1>1. ToClient(front) \subseteq Parts /\ DataParts \subseteq Parts
  BY DataToClient DEF ToClient
<1> QED
  BY <1>1, ElementOfSeq DEF LegInv

LEMMA NothingYet ==
    ASSUME LegInv, StageInv, pc \in Stages
    PROVE  From(clientGot, Preamble) = <<>>
<1>1. Len(clientGot) = Told
  BY DEF StageInv
<1>2. Told <= Preamble /\ Preamble \in Nat
  BY Counts DEF Told
<1> QED
  BY <1>1, <1>2, DownParts, FromEnd

LEMMA NothingMore ==
    ASSUME LegInv, StageInv, ProxyStep, pc \in Stages
    PROVE  From(clientGot', Preamble) = <<>>
<1>1. Len(clientGot') \in 0..Preamble /\ Preamble \in Nat
  BY BeforePipe, Counts
<1>2. clientGot' \in Seq(Parts)
  <2>1. clientGot' \in Seq(ToClient(front'))
    BY NextLegInv DEF Next, LegInv
  <2>2. ToClient(front') \subseteq Parts
    BY DEF ToClient
  <2> QED
    BY <2>1, <2>2, ElementOfSeq
<1> QED
  BY <1>1, <1>2, FromEnd

LEMMA InitDownInv == Init => DownInv
<1> SUFFICES ASSUME Init PROVE DownInv
  OBVIOUS
<1>1. pc # "pipe" /\ serverSent = <<>> /\ fromServer = <<>> /\ clientGot = <<>>
  BY DEF Init
<1>2. Preamble \in Nat
  BY InitStageInv, Counts
<1>3. From(clientGot, Preamble) = <<>>
  <2>1. clientGot \in Seq(Parts) /\ Preamble >= Len(clientGot)
    BY <1>1, <1>2
  <2> QED
    BY <1>2, <2>1, FromEnd
<1>4. Joined(<<>>, <<>>) = <<>>
  <2>1. <<>> \in Seq(Parts)
    OBVIOUS
  <2> QED
    BY <2>1, JoinedEmpty
<1> QED
  BY <1>1, <1>3, <1>4 DEF DownInv

LEMMA NextDownInv ==
    ASSUME LegInv, StageInv, DownInv, [Next]_vars
    PROVE  DownInv'
<1>1. /\ clientGot \in Seq(Parts) /\ serverSent \in Seq(Parts) /\ fromServer \in Seq(Parts)
      /\ Preamble \in Nat /\ Len(clientGot) \in Nat
  BY DownParts, Counts, LenProperties
<1>2. CASE ProxyStep /\ pc \in Stages
  <2>1. UNCHANGED <<choiceVars, serverSent, fromServer>>
    BY <1>2, ProxyLeaves DEF serverVars
  <2>2. Preamble' = Preamble
    BY <2>1, SameChoice
  <2>3. From(clientGot, Preamble) = <<>> /\ From(clientGot', Preamble) = <<>>
    BY <1>2, NothingYet, NothingMore
  <2>4. pc # "gone"
    BY <1>2 DEF Stages
  <2>5. pc' = "pipe" => Len(clientGot') >= Preamble
    BY <1>1, <1>2, BeforePipe
  <2> QED
    BY <2>1, <2>2, <2>3, <2>4, <2>5 DEF DownInv
<1>3. CASE ProxyStep /\ pc \notin Stages
  BY <1>3, PipeCloses DEF DownInv
<1>4. CASE ServerSend
  <2>1. PICK part \in DataParts : /\ serverSent' = Append(serverSent, part)
                                  /\ fromServer' = Append(fromServer, part)
    <3>1. Len(serverSent) \in Nat
      BY <1>1, LenProperties
    <3> QED
      BY <1>4, <3>1, DataSent DEF ServerSend
  <2>2. UNCHANGED <<choiceVars, pc, clientGot>> /\ pc # "gone" /\ part \in Parts
    BY <1>4, DataToClient DEF ServerSend, ToClient
  <2>3. Preamble' = Preamble
    BY <2>2, SameChoice
  <2>4. From(clientGot, Preamble) \in Seq(Parts)
    <3>1. CASE pc \in Stages
      BY <3>1, NothingYet
    <3>2. CASE pc = "pipe"
      <4>1. Preamble \in 0..Len(clientGot)
        BY <1>1, <3>2 DEF DownInv
      <4> QED
        BY <1>1, <4>1, FromProperties
    <3> QED
      BY <2>2, <3>1, <3>2 DEF StageInv, PlaceInv
  <2>5. Append(Joined(From(clientGot, Preamble), fromServer), part)
          = Joined(From(clientGot, Preamble), Append(fromServer, part))
    <3> DEFINE got == From(clientGot, Preamble)
    <3>1. got \in Seq(Parts) /\ fromServer \in Seq(Parts) /\ part \in Parts
      BY <1>1, <2>2, <2>4
    <3> HIDE DEF got
    <3>2. Append(Joined(got, fromServer), part) = Joined(got, Append(fromServer, part))
      BY <3>1, AppendInFlight
    <3> QED
      BY <3>2 DEF got
  <2> QED
    BY <2>1, <2>2, <2>3, <2>5 DEF DownInv
<1>5. CASE RelayDown
  <2>1. PICK n \in 1..Len(fromServer) :
            /\ clientGot' = Joined(clientGot, SubSeq(fromServer, 1, n))
            /\ fromServer' = From(fromServer, n)
    BY <1>5 DEF RelayDown, From, Joined
  <2>2. UNCHANGED <<choiceVars, pc, serverSent>> /\ pc = "pipe"
    BY <1>5 DEF RelayDown, serverVars
  <2>3. Preamble' = Preamble
    BY <2>2, SameChoice
  <2>4. Preamble \in 0..Len(clientGot)
    BY <1>1, <2>2 DEF DownInv
  <2>5. From(clientGot, Preamble) \in Seq(Parts)
    BY <1>1, <2>4, FromProperties
  <2>6. SubSeq(fromServer, 1, n) \in Seq(Parts) /\ Len(clientGot') = Len(clientGot) + n
    <3>1. \A m \in 1..n : fromServer[m] \in Parts
      BY <1>1, ElementOfSeq, LenProperties
    <3>2. SubSeq(fromServer, 1, n) \in Seq(Parts)
      BY <3>1, SubSeqProperties
    <3> QED
      BY <1>1, <2>1, <3>2, Moved
  <2>7. From(clientGot', Preamble)
          = Joined(From(clientGot, Preamble), SubSeq(fromServer, 1, n))
    BY <1>1, <2>1, <2>4, <2>6, FromJoined
  <2>8. Joined(Joined(From(clientGot, Preamble), SubSeq(fromServer, 1, n)), From(fromServer, n))
          = Joined(From(clientGot, Preamble), fromServer)
    BY <1>1, <2>5, Moved
  <2>9. Len(clientGot') >= Preamble
    BY <1>1, <2>4, <2>6
  <2> QED
    BY <2>1, <2>2, <2>3, <2>7, <2>8, <2>9 DEF DownInv
<1>6. CASE ~ProxyStep /\ ~ServerSend /\ ~RelayDown
  <2>1. UNCHANGED <<choiceVars, pc, clientGot, serverSent, fromServer>>
    BY <1>6 DEF Next, ClientSend, ClientFinish, ServerFinish, RelayUp, EndUp, EndDown, vars,
                serverVars, downVars
  <2> QED
    BY <2>1, SameChoice DEF DownInv
<1> QED
  BY <1>2, <1>3, <1>4, <1>5, <1>6

LEMMA DownInvariant == Spec => []DownInv
<1>1. LegInv /\ StageInv /\ DownInv /\ [Next]_vars => DownInv'
  BY NextDownInv
<1> QED
  BY <1>1, LegInvariant, StageInvariant, InitDownInv, PTL DEF Spec

LEMMA DownDelivers ==
    ASSUME LegInv, StageInv, DownInv, RelayDown
    PROVE  Down!Deliver
<1>1. PICK n \in 1..Len(fromServer) : clientGot' = Joined(clientGot, SubSeq(fromServer, 1, n))
  BY DEF RelayDown, Joined
<1>2. UNCHANGED <<choiceVars, serverSent, serverFin, clientEnd>> /\ pc = "pipe"
  BY DEF RelayDown, serverVars
<1>3. /\ clientGot \in Seq(Parts) /\ fromServer \in Seq(Parts)
      /\ Preamble \in Nat /\ Len(clientGot) \in Nat /\ Preamble' = Preamble
  BY <1>2, DownParts, Counts, LenProperties, SameChoice
<1>4. Preamble \in 0..Len(clientGot)
  BY <1>2, <1>3 DEF DownInv
<1> DEFINE got == From(clientGot, Preamble)
<1>5. got \in Seq(Parts) /\ serverSent = Joined(got, fromServer)
  BY <1>2, <1>3, <1>4, FromProperties DEF DownInv
<1>6. SubSeq(fromServer, 1, n) \in Seq(Parts)
  <2>1. \A m \in 1..n : fromServer[m] \in Parts
    BY <1>3, ElementOfSeq, LenProperties
  <2> QED
    BY <2>1, SubSeqProperties
<1>7. From(clientGot', Preamble) = Joined(got, SubSeq(fromServer, 1, n))
  <2> DEFINE moved == SubSeq(fromServer, 1, n)
  <2>1. moved \in Seq(Parts) /\ clientGot' = Joined(clientGot, moved)
    BY <1>1, <1>6
  <2> HIDE DEF moved
  <2>2. From(Joined(clientGot, moved), Preamble) = Joined(From(clientGot, Preamble), moved)
    BY <1>3, <1>4, <2>1, FromJoined
  <2> QED
    BY <2>1, <2>2 DEF moved
<1>8. PayloadOf(clientGot) = got /\ PayloadOf(clientGot)' = From(clientGot', Preamble)
  BY <1>3 DEF PayloadOf, From
<1> HIDE DEF got
<1>9. /\ Len(got) + n \in (Len(got) + 1)..Len(Joined(got, fromServer))
      /\ Joined(got, SubSeq(fromServer, 1, n)) = SubSeq(Joined(got, fromServer), 1, Len(got) + n)
  <2>1. got \in Seq(Parts) /\ fromServer \in Seq(Parts)
    BY <1>3, <1>5
  <2> QED
    BY <2>1, Moved
<1> QED
  BY <1>2, <1>5, <1>7, <1>8, <1>9 DEF Down!Deliver

LEMMA NextDown ==
    ASSUME LegInv, StageInv, DownInv, [Next]_vars
    PROVE  [Down!Next]_(Down!pipeVars)
<1>1. CASE ServerSend
  <2>1. PICK part \in DataParts : serverSent' = Append(serverSent, part)
    <3>1. Len(serverSent) \in Nat
      BY LenProperties DEF LegInv
    <3> QED
      BY <1>1, <3>1, DataSent DEF ServerSend
  <2>2. UNCHANGED <<choiceVars, clientGot, serverFin, clientEnd>> /\ ~serverFin
    BY <1>1 DEF ServerSend
  <2>3. PayloadOf(clientGot)' = PayloadOf(clientGot)
    BY <2>2, SameChoice DEF PayloadOf
  <2>4. part \in Payload
    BY DEF DataParts, Payload
  <2>5. Down!Send
    BY <2>1, <2>2, <2>3, <2>4 DEF Down!Send
  <2> QED
    BY <2>5 DEF Down!Next
<1>2. CASE ServerFinish
  <2>1. UNCHANGED <<choiceVars, serverSent, clientGot, clientEnd>>
    BY <1>2 DEF ServerFinish, downVars
  <2>2. PayloadOf(clientGot)' = PayloadOf(clientGot)
    BY <2>1, SameChoice DEF PayloadOf
  <2>3. Down!Finish
    BY <1>2, <2>1, <2>2 DEF ServerFinish, Down!Finish
  <2> QED
    BY <2>3 DEF Down!Next
<1>3. CASE RelayDown
  BY <1>3, DownDelivers DEF Down!Next
<1>4. CASE EndDown
  <2>1. UNCHANGED <<choiceVars, serverSent, serverFin, clientGot>>
    BY <1>4 DEF EndDown, serverVars
  <2>2. PayloadOf(clientGot)' = PayloadOf(clientGot)
    BY <2>1, SameChoice DEF PayloadOf
  <2>3. serverSent = Joined(From(clientGot, Preamble), <<>>)
    BY <1>4 DEF EndDown, DownInv
  <2>4. From(clientGot, Preamble) \in Seq(Parts)
    <3>1. Preamble \in 0..Len(clientGot)
      BY <1>4, DownParts, Counts, LenProperties DEF EndDown, DownInv
    <3> QED
      BY <3>1, DownParts, FromProperties
  <2>5. serverSent = From(clientGot, Preamble)
    BY <2>3, <2>4, JoinedEmpty
  <2>6. PayloadOf(clientGot) = From(clientGot, Preamble)
    BY DEF PayloadOf, From
  <2>7. Down!DeliverEnd
    BY <1>4, <2>1, <2>2, <2>5, <2>6 DEF EndDown, Down!DeliverEnd
  <2> QED
    BY <2>7 DEF Down!Next
<1>5. CASE ProxyStep
  <2>1. UNCHANGED <<choiceVars, serverSent, serverFin, clientEnd>>
    BY <1>5, ProxyLeaves DEF serverVars
  <2>2. Preamble' = Preamble
    BY <2>1, SameChoice
  <2>3. From(clientGot', Preamble) = From(clientGot, Preamble)
    BY <1>5, NothingYet, NothingMore, PipeCloses
  <2>4. PayloadOf(clientGot)' = PayloadOf(clientGot)
    BY <2>2, <2>3 DEF PayloadOf, From
  <2> QED
    BY <2>1, <2>4 DEF Down!pipeVars
<1>6. CASE ~ServerSend /\ ~ServerFinish /\ ~RelayDown /\ ~EndDown /\ ~ProxyStep
  <2>1. UNCHANGED <<choiceVars, serverSent, serverFin, clientGot, clientEnd>>
    BY <1>6 DEF Next, ClientSend, ClientFinish, RelayUp, EndUp, vars, serverVars, downVars
  <2>2. PayloadOf(clientGot)' = PayloadOf(clientGot)
    BY <2>1, SameChoice DEF PayloadOf
  <2> QED
    BY <2>1, <2>2 DEF Down!pipeVars
<1> QED
  BY <1>1, <1>2, <1>3, <1>4, <1>5, <1>6

\* The same from the server to the client, whatever clients do.
THEOREM DownIsABytePipe == Spec => DownIsPipe
<1>1. Init => Down!Init
  <2> SUFFICES ASSUME Init PROVE Down!Init
    OBVIOUS
  <2>1. Preamble \in Nat /\ clientGot = <<>>
    BY InitStageInv, Counts DEF Init
  <2>2. From(<<>>, Preamble) = <<>>
    <3>1. <<>> \in Seq(Parts) /\ Preamble >= Len(<<>>)
      BY <2>1
    <3> QED
      BY <2>1, <3>1, FromEnd
  <2> QED
    BY <2>1, <2>2 DEF Init, Down!Init, PayloadOf, From
<1>2. LegInv /\ StageInv /\ DownInv /\ [Next]_vars => [Down!Next]_(Down!pipeVars)
  BY NextDown
<1> QED
  BY <1>1, <1>2, LegInvariant, StageInvariant, DownInvariant, PTL
  DEF Spec, DownIsPipe, Down!Spec

-----------------------------------------------------------------------------
(* Types and counters.                                                      *)

CountInv == bytesUp \in 0..MaxData + 1 /\ bytesDown \in 0..MaxData

\* What is counted at the end of the pipe.
LEMMA Counted ==
    ASSUME LegInv, StageInv, StreamInv, DownInv, PipeEnds
    PROVE  /\ bytesUp' = Len(serverGot) /\ bytesUp' \in 0..MaxData + 1
           /\ bytesDown' = Len(PayloadOf(clientGot)) /\ bytesDown' \in 0..MaxData
<1>1. pc = "pipe" /\ bytesUp' = Len(serverGot) /\ bytesDown' = Len(From(clientGot, Preamble))
      /\ PayloadOf(clientGot) = From(clientGot, Preamble)
  BY DEF PipeEnds, PayloadOf, From
<1>2. MaxData \in Nat /\ Asked \in Nat /\ Preamble \in Nat /\ Preamble >= Asked
  BY Counts, DataAssumption DEF DataAssumption
<1>3. /\ Len(serverGot) \in Nat /\ Len(toProxy) \in Nat /\ Len(clientSent) \in Nat
  BY LenProperties DEF StreamInv
<1>4. Preamble + Len(serverGot) + Len(toProxy) <= Len(clientSent)
  BY <1>1, TakenNat DEF StreamInv
<1>5. Len(clientSent) <= Asked + 1 + MaxData
  BY ScriptParts DEF StreamInv
<1>6. Len(serverGot) \in 0..MaxData + 1
  BY <1>2, <1>3, <1>4, <1>5
<1>7. Len(From(clientGot, Preamble)) \in 0..MaxData
  <2>1. Preamble \in 0..Len(clientGot) /\ clientGot \in Seq(Parts)
    BY <1>1, <1>2, DownParts, LenProperties DEF DownInv
  <2> DEFINE got == From(clientGot, Preamble)
  <2>2. got \in Seq(Parts) /\ serverSent = Joined(got, fromServer) /\ fromServer \in Seq(Parts)
    BY <1>1, <2>1, FromProperties, DownParts DEF DownInv
  <2> HIDE DEF got
  <2>3. /\ Len(serverSent) = Len(got) + Len(fromServer)
        /\ Len(got) \in Nat /\ Len(fromServer) \in Nat
    BY <2>2, ConcatProperties, LenProperties DEF Joined
  <2>4. Len(serverSent) <= MaxData
    BY DEF StreamInv
  <2>5. Len(got) \in 0..MaxData
    BY <1>2, <2>3, <2>4
  <2> QED
    BY <2>5 DEF got
<1> QED
  BY <1>1, <1>6, <1>7

LEMMA CountInvariant == Spec => []CountInv
<1>1. Init => CountInv
  BY DataAssumption DEF Init, CountInv, DataAssumption
<1>2. LegInv /\ StageInv /\ StreamInv /\ DownInv /\ CountInv /\ [Next]_vars => CountInv'
  <2> SUFFICES ASSUME LegInv, StageInv, StreamInv, DownInv, CountInv, [Next]_vars
               PROVE  CountInv'
    OBVIOUS
  <2>1. CASE PipeEnds
    BY <2>1, Counted DEF CountInv
  <2>2. CASE ~PipeEnds
    <3>1. UNCHANGED <<bytesUp, bytesDown>>
      BY <2>2 DEF Next, ProxyStep, ReadConnect, ReadGreeting, ReadRequest, GiveUp,
         AnswerFronted, AcceptHello, OpenCa, MintLeaf, Handshake, ConnectFront, ConnectDirect,
         AnswerDirect, CountDirect, PipeBreaks, ClientSend, ClientFinish, ServerSend, ServerFinish,
         RelayUp, RelayDown, EndUp, EndDown, vars, statVars
    <3> QED
      BY <3>1 DEF CountInv
  <2> QED
    BY <2>1, <2>2
<1> QED
  BY <1>1, <1>2, LegInvariant, StageInvariant, StreamInvariant, DownInvariant, PTL DEF Spec

LEMMA ConfigsTyped == Configs \subseteq Configurations
  BY ConfigTyped, SettingsAssumption, DesktopAssumption
  DEF Configs, SettingsAssumption, DesktopAssumption

\* The types of what a tunnel keeps, the counters' bounds among them.
THEOREM TypeCorrect == Spec => []TypeOK
<1>1. LegInv /\ StageInv /\ StreamInv /\ CountInv => TypeOK
  <2> SUFFICES ASSUME LegInv, StageInv, StreamInv, CountInv PROVE TypeOK
    OBVIOUS
  <2>1. \A leg \in front : leg \in [sni : STRING, ip : STRING]
    BY LegTyped, ConfigsTyped DEF LegInv
  <2>2. \A s \in {clientSent, toProxy, clientGot, serverSent, fromServer, serverGot} :
           s \in Seq(Parts)
    BY DownParts DEF StreamInv
  <2>3. \A b \in {clientFin, clientEnd, serverFin, serverEnd} : b \in BOOLEAN
    BY DEF StreamInv
  <2>4. pc \in {"head", "greeting", "request", "leg", "accept", "open", "mint", "handshake",
                "front", "connected", "answered", "pipe", "gone"}
    BY DEF StageInv, PlaceInv, Stages
  <2> QED
    BY <2>1, <2>2, <2>3, <2>4 DEF TypeOK, LegInv, StageInv, PlaceInv, CountInv, LegCounts
<1> QED
  BY <1>1, LegInvariant, StageInvariant, StreamInvariant, CountInvariant, PTL

=============================================================================
