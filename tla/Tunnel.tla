------------------------------- MODULE Tunnel -------------------------------
(***************************************************************************)
(* One tunnel: a connection on which the client asks for CONNECT, over     *)
(* HTTP (handle_connect) or SOCKS5 (handle_socks), up to and including the *)
(* byte-pipe (pipe_counted) between it and the server.                     *)
(*                                                                         *)
(* The leg is fronted when the port is 443 and front_for (module Routing)  *)
(* knows the host:                                                         *)
(* then the proxy answers for the server first, terminates the client's    *)
(* TLS with a leaf of its CA, and only then opens the egress.  Otherwise   *)
(* it connects first and answers afterwards.  Client and server, external, *)
(* send "hello" (a TLS ClientHello), "data" in order, and an end; on the   *)
(* fronted leg the hello is the proxy's, and data is plaintext of TLS.     *)
(***************************************************************************)
EXTENDS Routing

CONSTANTS
    Protocols,   \* a subset of {"connect", "socks"}
    Asks,        \* what clients ask for: a subset of AskKinds
    Settings,    \* what the app may have saved
    Desktop,     \* what a configuration file of the desktop program may say
    Hosts,       \* what clients ask for
    Ports,
    MaxData,     \* bound: pieces of data in each direction
    Hazards      \* what else client, server and CA may do

AskKinds    == {"tunnel",    \* a tunnel
                "auth",      \* SOCKS5: "no authentication" is not offered
                "command",   \* SOCKS5: not CONNECT
                "address"}   \* an authority that does not parse; SOCKS5: an unknown type
HazardKinds == {"eagerConnect", "eagerSocks",   \* a client that does not wait for answers
                "refuse",    \* no egress
                "ca",        \* no CA, or no leaf for the name
                "distrust",  \* the client does not trust the leaf
                "break"}     \* a connection breaks, or TLS ends without close_notify

ASSUME SettingsAssumption == \A saved \in Settings : Load(saved) \in UiSettings
ASSUME DesktopAssumption  == \A file \in Desktop : ParseMixed(file) \in Configurations
ASSUME HostAssumption     == Hosts \subseteq Names
ASSUME ProtocolAssumption == Protocols \subseteq {"connect", "socks"}
ASSUME AskAssumption      == Asks \subseteq AskKinds
ASSUME DataAssumption     == MaxData \in Nat
ASSUME HazardAssumption   == Hazards \subseteq HazardKinds

VARIABLES
    proto, ask,            \* what this connection is
    config, host, port,    \* the proxy's configuration, and whom the client asks for
    front,                 \* what front_for says of it, on port 443
    pc,                    \* the handler: where it is
    clientSent, clientFin, \* what the client sent, and whether that was all
    toProxy,               \* ... and the proxy has not read
    clientGot, clientEnd,  \* what the client received, and whether it saw the end
    serverSent, serverFin, fromServer,   \* the same of the server
    serverGot, serverEnd,
    bytesUp, bytesDown,    \* what this tunnel added to Stats, in parts
    legs                   \* ... to Stats.fronted and Stats.direct

choiceVars == <<proto, ask, config, host, port, front>>
clientVars == <<clientSent, clientFin>>
serverVars == <<serverSent, serverFin>>
upVars     == <<toProxy, serverGot, serverEnd>>
downVars   == <<fromServer, clientGot, clientEnd>>
statVars   == <<bytesUp, bytesDown, legs>>
vars       == <<choiceVars, pc, clientVars, serverVars, upVars, downVars, statVars>>

Part(what, n) == [what |-> what, n |-> n]
Data(n)       == Part("data", n)
Sign(what)    == Part(what, 0)
Hello         == Sign("hello")
Controls      == {Sign(w) : w \in {"head", "greeting", "request"}}
Answers       == {Sign(w) : w \in {"ok", "failed", "method", "certificate"}}
Payload       == {Data(n) : n \in 1..MaxData} \cup {Hello}
Parts         == Controls \cup Answers \cup Payload

\* What a proxy runs with.
Configs == {cfg \in {ToRustJson(Load(saved)) : saved \in Settings} \cup
                    {ParseMixed(file) : file \in Desktop} : Accepted(cfg)}

\* if port == 443 { if let Some((sni, ip)) = self.config.front_for(&host)
Fronted == front # {}

TypeOK ==
    /\ proto \in Protocols /\ ask \in Asks
    /\ config \in Configs /\ host \in Hosts /\ port \in Ports
    /\ \A leg \in front : leg \in [sni : STRING, ip : STRING]
    /\ pc \in {"head", "greeting", "request", "leg", "accept", "open", "mint",
               "handshake", "front", "connected", "answered", "pipe", "gone"}
    /\ \A s \in {clientSent, toProxy, clientGot, serverSent, fromServer, serverGot} :
          s \in Seq(Parts)
    /\ \A b \in {clientFin, clientEnd, serverFin, serverEnd} : b \in BOOLEAN
    /\ bytesUp \in 0..MaxData + 1 /\ bytesDown \in 0..MaxData
    /\ legs \in [{"fronted", "direct"} -> 0..1]

Init ==
    /\ proto \in Protocols
    /\ ask \in Asks
    /\ proto = "connect" => ask \in {"tunnel", "address"}
    /\ config \in Configs
    /\ host \in Hosts
    /\ port \in Ports
    /\ front = IF port = 443 THEN FrontFor(config, host) ELSE {}
    /\ pc = IF proto = "connect" THEN "head" ELSE "greeting"
    /\ clientSent = <<>> /\ clientFin = FALSE /\ toProxy = <<>>
    /\ clientGot = <<>> /\ clientEnd = FALSE
    /\ serverSent = <<>> /\ serverFin = FALSE /\ fromServer = <<>>
    /\ serverGot = <<>> /\ serverEnd = FALSE
    /\ bytesUp = 0 /\ bytesDown = 0
    /\ legs = [fronted |-> 0, direct |-> 0]

-----------------------------------------------------------------------------
(* External: the client.                                                    *)

Script == (IF proto = "connect" THEN <<Sign("head")>>
           ELSE <<Sign("greeting"), Sign("request")>>) \o
          <<Hello>> \o [n \in 1..MaxData |-> Data(n)]

Has(s, what) == Sign(what) \in ToSet(s)
Eager        == IF proto = "socks" THEN "eagerSocks" \in Hazards
                ELSE "eagerConnect" \in Hazards

\* What a client awaits before it sends a part.
Due(part) ==
    CASE part.what = "request" -> Eager \/ Has(clientGot, "method")
      [] part.what = "hello"   -> Eager \/ Has(clientGot, "ok")
      [] part.what = "data"    -> Has(clientGot, "ok")
                                  /\ (Fronted => Has(clientGot, "certificate"))
      [] OTHER                 -> TRUE

ClientSend ==
    /\ ~clientFin /\ pc # "gone"
    /\ Len(clientSent) < Len(Script)
    /\ LET part == Script[Len(clientSent) + 1] IN
          /\ Due(part)
          /\ clientSent' = Append(clientSent, part)
          /\ toProxy' = Append(toProxy, part)
    /\ UNCHANGED <<choiceVars, pc, clientFin, serverVars, serverGot, serverEnd, downVars,
                   statVars>>

\* The client is done sending, or gives up.
ClientFinish ==
    /\ ~clientFin
    /\ clientFin' = TRUE
    /\ UNCHANGED <<choiceVars, pc, clientSent, serverVars, upVars, downVars, statVars>>

-----------------------------------------------------------------------------
(* External: the server, once it is connected.                              *)

ServerSend ==
    /\ pc \in {"connected", "answered", "pipe"} /\ ~serverFin
    /\ Len(serverSent) < MaxData
    /\ LET part == Data(Len(serverSent) + 1) IN
          /\ serverSent' = Append(serverSent, part)
          /\ fromServer' = Append(fromServer, part)
    /\ UNCHANGED <<choiceVars, pc, clientVars, serverFin, upVars, clientGot, clientEnd,
                   statVars>>

ServerFinish ==
    /\ pc \in {"connected", "answered", "pipe"} /\ ~serverFin
    /\ serverFin' = TRUE
    /\ UNCHANGED <<choiceVars, pc, clientVars, serverSent, upVars, downVars, statVars>>

-----------------------------------------------------------------------------
(* The proxy: up to the choice of the leg.                                  *)

Answer(what) == clientGot' = Append(clientGot, Sign(what))
Untouched    == UNCHANGED <<choiceVars, clientVars, serverVars, serverGot, serverEnd,
                            fromServer, clientEnd>>

\* split_host_port, or the SOCKS5 address, gives a host and a port.
SplitHostPort == ask # "address"

\* read_head: one read, which takes all it finds; only the head is handed on, so that
\* what the client sent behind it is lost.
ReadConnect ==
    /\ pc = "head" /\ toProxy # <<>>
    /\ \E n \in 1..Len(toProxy) : toProxy' = SubSeq(toProxy, n + 1, Len(toProxy))
    /\ pc' = IF SplitHostPort THEN "leg" ELSE "gone"
    /\ UNCHANGED <<clientGot, statVars>> /\ Untouched

\* The greeting and its methods, by read_exact: nothing behind them is touched.
ReadGreeting ==
    /\ pc = "greeting" /\ toProxy # <<>>
    /\ toProxy' = Tail(toProxy)
    /\ \/ ask = "auth" /\ Answer("failed") /\ pc' = "gone"
       \/ ask # "auth" /\ Answer("method") /\ pc' = "request"
    /\ UNCHANGED statVars /\ Untouched

\* Mutant: a buffered read, which takes what the client sent behind the request.
ReadRequestGreedy ==
    /\ pc = "request" /\ toProxy # <<>>
    /\ toProxy' = <<>>
    /\ \/ ask = "command" /\ Answer("failed") /\ pc' = "gone"
       \/ ~SplitHostPort /\ pc' = "gone" /\ UNCHANGED clientGot
       \/ ask = "tunnel" /\ pc' = "leg" /\ UNCHANGED clientGot
    /\ UNCHANGED statVars /\ Untouched

\* The request, its address and its port.
ReadRequest ==
    /\ pc = "request" /\ toProxy # <<>>
    /\ toProxy' = Tail(toProxy)
    /\ \/ ask = "command" /\ Answer("failed") /\ pc' = "gone"
       \/ ~SplitHostPort /\ pc' = "gone" /\ UNCHANGED clientGot
       \/ ask = "tunnel" /\ pc' = "leg" /\ UNCHANGED clientGot
    /\ UNCHANGED statVars /\ Untouched

\* The client's stream ends, or its connection breaks, before the byte-pipe: return.
GiveUp ==
    /\ pc \in {"head", "greeting", "request", "leg", "accept", "handshake", "connected"}
    /\ \/ /\ clientFin /\ toProxy = <<>>
          /\ pc \in {"head", "greeting", "request", "accept", "handshake"}
       \/ "break" \in Hazards
    /\ pc' = "gone"
    /\ UNCHANGED <<toProxy, clientGot, statVars>> /\ Untouched

-----------------------------------------------------------------------------
(* The fronted leg.                                                         *)

\* Mutant: the leg is counted here, and again when there is an egress.
AnswerFrontedCounted ==
    /\ pc = "leg" /\ Fronted
    /\ Answer("ok")
    /\ legs' = [legs EXCEPT !["fronted"] = @ + 1]
    /\ pc' = "accept"
    /\ UNCHANGED <<toProxy, bytesUp, bytesDown>> /\ Untouched

\* Success is reported before there is an egress.
AnswerFronted ==
    /\ pc = "leg" /\ Fronted
    /\ Answer("ok")
    /\ pc' = "accept"
    /\ UNCHANGED <<toProxy, statVars>> /\ Untouched

\* Mutant: the hello is looked at and left in the stream.
AcceptHelloPeeked ==
    /\ pc = "accept" /\ toProxy # <<>>
    /\ pc' = IF toProxy[1] = Hello THEN "open" ELSE "gone"
    /\ UNCHANGED <<toProxy, clientGot, statVars>> /\ Untouched

\* LazyConfigAcceptor: what is not a ClientHello ends it.
AcceptHello ==
    /\ pc = "accept" /\ toProxy # <<>>
    /\ toProxy' = Tail(toProxy)
    /\ pc' = IF toProxy[1] = Hello THEN "open" ELSE "gone"
    /\ UNCHANGED <<clientGot, statVars>> /\ Untouched

\* CaManager::open, for every tunnel anew ...
OpenCa ==
    /\ pc = "open"
    /\ pc' \in {"mint"} \cup (IF "ca" \in Hazards THEN {"gone"} ELSE {})
    /\ UNCHANGED <<toProxy, clientGot, statVars>> /\ Untouched

\* ... so that server_config finds its cache empty and mints a leaf, which fails for what
\* is no name.
MintLeaf ==
    /\ pc = "mint"
    /\ pc' \in {"handshake"} \cup (IF "ca" \in Hazards THEN {"gone"} ELSE {})
    /\ UNCHANGED <<toProxy, clientGot, statVars>> /\ Untouched

\* into_stream: the client sees the leaf and accepts it, or does not.
Handshake ==
    /\ pc = "handshake"
    /\ Answer("certificate")
    /\ pc' \in {"front"} \cup (IF "distrust" \in Hazards THEN {"gone"} ELSE {})
    /\ UNCHANGED <<toProxy, statVars>> /\ Untouched

\* connect_fronted, with its two limits of ten seconds: Stats.fronted and the pipe,
\* or the end, which an empty name always comes to.
ConnectFront ==
    /\ pc = "front"
    /\ \E leg \in front :
          \/ /\ leg.sni # ""
             /\ pc' = "pipe" /\ legs' = [legs EXCEPT !["fronted"] = @ + 1]
          \/ /\ "refuse" \in Hazards \/ leg.sni = ""
             /\ pc' = "gone" /\ UNCHANGED legs
    /\ UNCHANGED <<toProxy, clientGot, bytesUp, bytesDown>> /\ Untouched

-----------------------------------------------------------------------------
(* The direct leg.                                                          *)

\* Mutant: success is reported whatever connect returned.
ConnectDirectHasty ==
    /\ pc = "leg" /\ ~Fronted
    /\ \/ pc' = "connected" /\ UNCHANGED clientGot
       \/ "refuse" \in Hazards /\ pc' = "gone" /\ Answer("ok")
    /\ UNCHANGED <<toProxy, statVars>> /\ Untouched

\* TcpStream::connect.
ConnectDirect ==
    /\ pc = "leg" /\ ~Fronted
    /\ \/ pc' = "connected" /\ UNCHANGED clientGot
       \/ "refuse" \in Hazards /\ pc' = "gone" /\ Answer("failed")
    /\ UNCHANGED <<toProxy, statVars>> /\ Untouched

AnswerDirect ==
    /\ pc = "connected"
    /\ Answer("ok")
    /\ pc' = "answered"
    /\ UNCHANGED <<toProxy, statVars>> /\ Untouched

\* Stats.direct, and the pipe: nothing is awaited in between, so nothing can fail here.
CountDirect ==
    /\ pc = "answered"
    /\ legs' = [legs EXCEPT !["direct"] = @ + 1]
    /\ pc' = "pipe"
    /\ UNCHANGED <<toProxy, clientGot, bytesUp, bytesDown>> /\ Untouched

-----------------------------------------------------------------------------
(* pipe_counted: copy_bidirectional.                                        *)

RelayUp ==
    /\ pc = "pipe" /\ toProxy # <<>>
    /\ \E n \in 1..Len(toProxy) :
          /\ serverGot' = serverGot \o SubSeq(toProxy, 1, n)
          /\ toProxy' = SubSeq(toProxy, n + 1, Len(toProxy))
    /\ UNCHANGED <<choiceVars, pc, clientVars, serverVars, serverEnd, downVars, statVars>>

\* Mutant: a loop that stops when the client is done sending.
RelayDownHalf ==
    /\ pc = "pipe" /\ fromServer # <<>>
    /\ ~serverEnd
    /\ \E n \in 1..Len(fromServer) :
          /\ clientGot' = clientGot \o SubSeq(fromServer, 1, n)
          /\ fromServer' = SubSeq(fromServer, n + 1, Len(fromServer))
    /\ UNCHANGED <<choiceVars, pc, clientVars, serverVars, upVars, clientEnd, statVars>>

RelayDown ==
    /\ pc = "pipe" /\ fromServer # <<>>
    /\ \E n \in 1..Len(fromServer) :
          /\ clientGot' = clientGot \o SubSeq(fromServer, 1, n)
          /\ fromServer' = SubSeq(fromServer, n + 1, Len(fromServer))
    /\ UNCHANGED <<choiceVars, pc, clientVars, serverVars, upVars, clientEnd, statVars>>

\* The end of one direction is passed on when everything before it was.
EndUp ==
    /\ pc = "pipe" /\ clientFin /\ toProxy = <<>> /\ ~serverEnd
    /\ serverEnd' = TRUE
    /\ UNCHANGED <<choiceVars, pc, clientVars, serverVars, toProxy, serverGot, downVars,
                   statVars>>

\* Mutant: the end overtakes what is still in flight.
EndDownEarly ==
    /\ pc = "pipe" /\ serverFin /\ ~clientEnd
    /\ clientEnd' = TRUE
    /\ UNCHANGED <<choiceVars, pc, clientVars, serverVars, upVars, fromServer, clientGot,
                   statVars>>

EndDown ==
    /\ pc = "pipe" /\ serverFin /\ fromServer = <<>> /\ ~clientEnd
    /\ clientEnd' = TRUE
    /\ UNCHANGED <<choiceVars, pc, clientVars, serverVars, upVars, fromServer, clientGot,
                   statVars>>

\* What comes before the payload, in each direction as many parts: a head and its answer,
\* or greeting and request and theirs; on the fronted leg a hello and the certificate.
Asked    == IF proto = "connect" THEN 1 ELSE 2
Preamble == Asked + (IF Fronted THEN 1 ELSE 0)

\* What copy_bidirectional copies of a stream whose parts are ps.
PayloadOf(ps) == SubSeq(ps, Preamble + 1, Len(ps))

\* Mutant: the end is not noticed.
PipeNeverEnds == FALSE

\* Both directions have ended: Ok((up, dn)), and only now are the bytes counted.
PipeEnds ==
    /\ pc = "pipe" /\ serverEnd /\ clientEnd
    /\ bytesUp' = Len(serverGot)
    /\ bytesDown' = Len(PayloadOf(clientGot))
    /\ pc' = "gone"
    /\ UNCHANGED <<toProxy, clientGot, legs>> /\ Untouched

\* Err: both connections are dropped, and nothing is counted.
PipeBreaks ==
    /\ pc = "pipe" /\ "break" \in Hazards
    /\ pc' = "gone"
    /\ UNCHANGED <<toProxy, clientGot, statVars>> /\ Untouched

ProxyStep ==
    \/ ReadConnect \/ ReadGreeting \/ ReadRequest \/ GiveUp
    \/ AnswerFronted \/ AcceptHello \/ OpenCa \/ MintLeaf \/ Handshake \/ ConnectFront
    \/ ConnectDirect \/ AnswerDirect \/ CountDirect
    \/ PipeEnds \/ PipeBreaks

Next ==
    \/ ClientSend \/ ClientFinish \/ ServerSend \/ ServerFinish
    \/ ProxyStep \/ RelayUp \/ RelayDown \/ EndUp \/ EndDown

\* The runtime polls a task that can go on, copy_bidirectional polls both directions,
\* and what a client or server may send, or leave unsent, is up to them.
Fairness ==
    /\ WF_vars(ProxyStep)
    /\ WF_vars(RelayUp) /\ WF_vars(RelayDown) /\ WF_vars(EndUp) /\ WF_vars(EndDown)

Spec     == Init /\ [][Next]_vars
FairSpec == Spec /\ Fairness

-----------------------------------------------------------------------------

Up == INSTANCE BytePipe WITH
          sent <- PayloadOf(clientSent), sentAll <- clientFin,
          received <- serverGot, receivedAll <- serverEnd

Down == INSTANCE BytePipe WITH
          sent <- serverSent, sentAll <- serverFin,
          received <- PayloadOf(clientGot), receivedAll <- clientEnd

\* proxy_server.rs:7-8, "byte-pipe": a tunnel implements a pipe from the client to the
\* server, whatever was read along with the request ...
UpIsPipe == Up!Spec

\* ... and one from the server to the client.
DownIsPipe == Down!Spec

\* A client is answered at most once, and whoever was told "ok" on the direct leg has a
\* connection, which is counted once the answer is out: never one that failed
\* (proxy_server.rs:242-256, 415-430).
Final == {Sign("ok"), Sign("failed")}

HonestAnswer ==
    /\ \A m, n \in DOMAIN clientGot :
          clientGot[m] \in Final /\ clientGot[n] \in Final => m = n
    /\ ~Fronted /\ Has(clientGot, "ok") => legs["direct"] = 1 \/ pc = "answered"

\* config.rs:58, "Hosts that must NEVER be MITM'd": nobody who asks for one is shown a
\* certificate of the proxy's, whatever groups and extra domains say.
NeverMitm == Has(clientGot, "certificate") => ~IsPassthrough(config, host)

\* On the phone a leaf is presented only for what the user chose (ConfigStore.kt:87-106).
OnlyWhatIsChosen ==
    Has(clientGot, "certificate") =>
        \A ui \in {Load(saved) : saved \in Settings} :
            config = ToRustJson(ui) => \E d \in Chosen(ui) : Covers(d, host)

\* Capitals and dots at the end do not matter: whoever asks for the same host takes the
\* same leg (config.rs:25, 176, 199).
SpellingIrrelevant ==
    pc = "leg" /\ port = 443 =>
        \A other \in Hosts : SameHost(host, other) => FrontFor(config, other) = front

\* What is sent into a tunnel arrives, or the tunnel is gone (proxy_server.rs:607-621).
EverythingArrives ==
    /\ \A n \in 1..MaxData + 1 :
          Len(PayloadOf(clientSent)) >= n ~> Len(serverGot) >= n \/ pc = "gone"
    /\ \A n \in 1..MaxData :
          Len(serverSent) >= n ~> Len(PayloadOf(clientGot)) >= n \/ pc = "gone"

\* A hello gets an answer or an end: nobody waits for what the other is waiting for.
HelloAnswered ==
    Hello \in ToSet(clientSent) ~>
        pc = "gone" \/ Has(clientGot, "certificate") \/ Hello \in ToSet(serverGot)

\* When both sides are done, so is the tunnel: no task is left behind.
TunnelEnds == clientFin /\ serverFin ~> pc = "gone"

=============================================================================
