------------------------------ MODULE PlainHttp ------------------------------
(***************************************************************************)
(* One client connection in handle_http's plain-HTTP loop: read_head,      *)
(* serve_plain_http and relay_one_response of proxy_server.rs, between a   *)
(* client and the origin servers, both external HTTP/1.1 programs; what a  *)
(* server may do that it should not is among the Hazards.                  *)
(*                                                                         *)
(* A stream is a sequence of parts: the head of a message, a piece of its  *)
(* body, the end of it.  A read takes any non-empty prefix of what has     *)
(* arrived, which is how TCP joins and splits what was sent; a head is one *)
(* part, as read_head and read_head_up accumulate until they have it.  The *)
(* body of a request has a number of its own, as that of the request the   *)
(* proxy may take it for when it comes to read it as a head.               *)
(* CONNECT leaves this loop for good and is not modelled here.             *)
(***************************************************************************)
EXTENDS Naturals, FiniteSets, Sequences, SequencesExt

CONSTANTS
    MaxRequests,   \* bound: requests on the connection, bodies included
    MaxAsked,      \* bound: requests without them
    MaxMet,        \* bound: kinds of hazards that meet on the connection
    Methods,       \* what the client may send: a subset of MethodKinds
    Framings,      \* how origin servers may delimit a body
    Hazards,       \* what else client and servers may do
    FlushAt        \* the chunked accumulator's limit (1 MiB), in parts

MethodKinds  == {"get",     \* no body
                 "post",    \* a body
                 "bad"}     \* a target split_absolute rejects
FramingKinds == {"none",    \* 204, 304
                 "length",  \* Content-Length
                 "chunked", \* Transfer-Encoding: chunked
                 "close"}   \* the end of the connection
HazardKinds  == {"pipeline",  \* the client does not wait for a response
                 "close",     \* the client says Connection: close
                 "interim",   \* a server sends a 1xx head first
                 "trailer",   \* a chunked body ends with trailer fields
                 "early",     \* a server does not wait for the body of a request
                 "excess",    \* a server sends more than the response it announced
                 "truncate",  \* a server closes in the middle of a response
                 "reset",     \* the connection to a server breaks
                 "refuse"}    \* no connection to a server

ASSUME RequestAssumption == MaxRequests \in Nat \ {0} /\ MaxAsked \in Nat /\ MaxMet \in Nat
ASSUME KindAssumption    == /\ Methods \subseteq MethodKinds
                            /\ Framings \subseteq FramingKinds
                            /\ Hazards \subseteq HazardKinds
ASSUME FlushAssumption   == FlushAt \in Nat \ {0}

VARIABLES
    sent,       \* client: requests and bodies sent so far, a record for each
    bodyDue,    \* client: the number of a body it still has to send, or 0
    clientFin,  \* client: has it closed its side?
    toProxy,    \* parts on their way to the proxy
    got,        \* parts the client received
    closed,     \* has the proxy closed the connection?
    pc,         \* handle_http: where it is
    buf,        \* parts read and not yet dealt with: read_head's buf, then acc
    cur, extra, keep,   \* the request being served, what came with its head, `keep`
    mode, left, \* body_mode and what is left of it
    bytesDown,  \* Stats.bytes_down, in parts
    upIn,       \* parts the server received
    upPlan,     \* parts the server still has to send
    upOut,      \* parts on their way from the server
    upState,    \* "none", "waiting", "replying", "fin"
    framing,    \* per request: the framing the server chose, or "unanswered"
    met         \* history: what else client and servers did

clientVars == <<sent, bodyDue, clientFin>>
proxyVars  == <<pc, buf, cur, extra, keep, mode, left, bytesDown>>
upVars     == <<upIn, upPlan, upOut, upState, framing>>
vars       == <<clientVars, toProxy, got, closed, proxyVars, upVars, met>>

Requests == 1..MaxRequests
Part(r, what) == [req |-> r, what |-> what]
Parts == [req : Requests, what : {"head", "body", "interim", "piece", "last", "trailer",
                                  "excess", "error"}]
IsHead(part) == part.what \in {"head", "interim"}

\* The requests the client means; and the body of one, which follows it.
Asked      == {r \in DOMAIN sent : sent[r].method # "body"}
HasBody(r) == sent[r].method = "post"
BodyOf(r)  == Part(r + 1, "body")

\* The parts of a response, and what comes behind it; every server honours the
\* Connection: close it is sent.
Response(r, f, interim, trailer, excess) ==
    (IF interim THEN <<Part(r, "interim")>> ELSE <<>>) \o <<Part(r, "head")>> \o
    (IF f = "none" THEN <<>>
     ELSE <<Part(r, "piece"), Part(r, "piece")>>) \o
    (IF f # "chunked" THEN <<>>
     ELSE <<IF trailer THEN Part(r, "trailer") ELSE Part(r, "last")>>) \o
    (IF excess THEN <<Part(r, "excess")>> ELSE <<>>)

TypeOK ==
    /\ sent \in Seq([method : Methods \cup {"body"}, close : BOOLEAN])
    /\ Len(sent) <= MaxRequests
    /\ bodyDue \in Requests \cup {0}
    /\ clientFin \in BOOLEAN /\ closed \in BOOLEAN
    /\ toProxy \in Seq(Parts) /\ got \in Seq(Parts)
    /\ buf \in Seq(Parts) /\ extra \in Seq(Parts)
    /\ pc \in {"readHead", "connect", "forward", "respHead", "relay", "done", "gone"}
    /\ cur \in Requests \cup {0}
    /\ keep \in BOOLEAN
    /\ mode \in FramingKinds
    /\ left \in 0..2
    /\ bytesDown \in Nat
    /\ upIn \in Seq(Parts) /\ upPlan \in Seq(Parts) /\ upOut \in Seq(Parts)
    /\ upState \in {"none", "waiting", "replying", "fin"}
    /\ framing \in [Requests -> FramingKinds \cup {"unanswered", "error"}]
    /\ met \subseteq Hazards

Init ==
    /\ sent = <<>> /\ bodyDue = 0 /\ clientFin = FALSE
    /\ toProxy = <<>> /\ got = <<>> /\ closed = FALSE
    /\ pc = "readHead" /\ buf = <<>>
    /\ cur = 0 /\ extra = <<>> /\ keep = TRUE
    /\ mode = "none" /\ left = 0 /\ bytesDown = 0
    /\ upIn = <<>> /\ upPlan = <<>> /\ upOut = <<>> /\ upState = "none"
    /\ framing = [r \in Requests |-> "unanswered"]
    /\ met = {}

-----------------------------------------------------------------------------
(* External: the client.                                                    *)

\* Client or server does what is among the Hazards.
When(does, kind) == IF does THEN {kind} ELSE {}
Meet(kinds) ==
    /\ kinds \subseteq Hazards
    /\ met' = met \cup kinds
    /\ Cardinality(met') <= MaxMet

Received(r, what) == \E n \in DOMAIN got : got[n] = Part(r, what)
Count(r, what)    == Len(SelectSeq(got, LAMBDA p : p = Part(r, what)))

\* The response to r is there, as far as the client can tell.
Complete(r) ==
    \/ Received(r, "error")
    \/ /\ Received(r, "head")
       /\ \/ framing[r] = "none"
          \/ framing[r] = "length" /\ Count(r, "piece") = 2
          \/ framing[r] = "chunked" /\ (Received(r, "last") \/ Received(r, "trailer"))
          \/ framing[r] = "close" /\ closed

\* The client has begun to get a response it never asked for, and takes it for its own.
Strayed == \E n \in DOMAIN got : got[n].req \notin Asked

Waits == (\E r \in Asked : ~Complete(r)) /\ ~Strayed

SendHead ==
    /\ ~clientFin /\ ~closed /\ bodyDue = 0
    /\ Cardinality(Asked) < MaxAsked
    /\ \A r \in Asked : ~sent[r].close
    /\ \E m \in Methods, c \in BOOLEAN :
          LET new == <<[method |-> m, close |-> c]>> \o
                     (IF m = "post" THEN <<[method |-> "body", close |-> c]>> ELSE <<>>)
          IN  /\ Meet(When(Waits, "pipeline") \cup When(c, "close"))
              /\ Len(sent) + Len(new) <= MaxRequests
              /\ sent' = sent \o new
              /\ bodyDue' = IF m = "post" THEN Len(sent) + 2 ELSE 0
    /\ toProxy' = Append(toProxy, Part(Len(sent) + 1, "head"))
    /\ UNCHANGED <<clientFin, got, closed, proxyVars, upVars>>

SendBody ==
    /\ bodyDue # 0
    /\ toProxy' = Append(toProxy, Part(bodyDue, "body"))
    /\ bodyDue' = 0
    /\ UNCHANGED <<sent, clientFin, got, closed, proxyVars, upVars, met>>

\* The client leaves when it has what it asked for, or believes so.
ClientClose ==
    /\ ~clientFin /\ bodyDue = 0
    /\ ~Waits
    /\ clientFin' = TRUE
    /\ UNCHANGED <<sent, bodyDue, toProxy, got, closed, proxyVars, upVars, met>>

-----------------------------------------------------------------------------
(* External: the server of the current request.                             *)

\* The body of the current request is not with its server.
BodyMissing == cur \in Asked /\ HasBody(cur) /\ BodyOf(cur) \notin ToSet(upIn)

UpReply ==
    /\ upState = "waiting"
    /\ \E f \in Framings, interim, trailer, excess \in BOOLEAN :
          /\ trailer => f = "chunked"
          /\ excess => f # "close"
          /\ Meet(When(BodyMissing, "early") \cup When(interim, "interim") \cup
                  When(trailer, "trailer") \cup When(excess, "excess"))
          /\ upPlan' = Response(cur, f, interim, trailer, excess)
          /\ framing' = [framing EXCEPT ![cur] = f]
    /\ upState' = "replying"
    /\ UNCHANGED <<clientVars, toProxy, got, closed, proxyVars, upIn, upOut>>

UpSend ==
    /\ upState = "replying"
    /\ upPlan # <<>>
    /\ upOut' = Append(upOut, Head(upPlan))
    /\ upPlan' = Tail(upPlan)
    /\ UNCHANGED <<clientVars, toProxy, got, closed, proxyVars, upIn, upState, framing,
                   met>>

UpClose ==
    /\ upState = "replying"
    /\ \/ upPlan = <<>> /\ UNCHANGED met
       \/ upPlan # <<>> /\ Meet({"truncate"})
    /\ upState' = "fin"
    /\ upPlan' = <<>>
    /\ UNCHANGED <<clientVars, toProxy, got, closed, proxyVars, upIn, upOut, framing>>

-----------------------------------------------------------------------------
(* The proxy.                                                               *)

\* handle_http returns: the connection to the client is dropped.
Leave == pc' = "gone" /\ closed' = TRUE

\* up goes out of scope.
DropUp ==
    /\ upIn' = <<>> /\ upPlan' = <<>> /\ upOut' = <<>> /\ upState' = "none"
    /\ UNCHANGED framing

\* split_absolute finds a host and a path; wants_keep_alive of the request's head; and
\* rebuild_origin of it, which says Connection: close whatever the client said.
SplitAbsolute(r)  == sent[r].method # "bad"
WantsKeepAlive(r) == ~sent[r].close
RebuildOrigin(r)  == Part(r, "head")

\* The head that is parsed ends with the h-th part of raw: a head; a body that was left
\* behind and reads as one; or the head behind a body that reads as its beginning.
EndsHead(raw, h) ==
    \/ h = 1 /\ IsHead(raw[1]) /\ SplitAbsolute(raw[1].req)
    \/ h = 1 /\ ~IsHead(raw[1]) /\ buf = <<>>
    \/ h = 2 /\ ~IsHead(raw[1]) /\ IsHead(raw[2])

\* read_head, one read() of it; then the request line, split_absolute and
\* wants_keep_alive.  What starts with a body is waited on until it has a blank line, in
\* the body or in a head behind it; then it is a request, or it does not parse.
ReadHead ==
    /\ pc = "readHead"
    /\ toProxy # <<>>
    /\ \E n \in 1..Len(toProxy) :
          LET raw == buf \o SubSeq(toProxy, 1, n) IN
          /\ toProxy' = SubSeq(toProxy, n + 1, Len(toProxy))
          /\ \/ /\ \A p \in ToSet(raw) : ~IsHead(p)
                /\ buf' = raw
                /\ UNCHANGED <<pc, closed, cur, extra, keep>>
             \/ \E h \in 1..2 \cap DOMAIN raw :
                /\ EndsHead(raw, h)
                /\ cur' = raw[1].req
                /\ extra' = SubSeq(raw, h + 1, Len(raw))
                /\ keep' \in {k \in BOOLEAN : IsHead(raw[h]) => k = WantsKeepAlive(raw[h].req)}
                /\ buf' = <<>>
                /\ pc' = "connect"
                /\ UNCHANGED closed
             \/ /\ IsHead(raw[1]) => ~SplitAbsolute(raw[1].req)
                /\ Leave
                /\ UNCHANGED <<buf, cur, extra, keep>>
    /\ UNCHANGED <<clientVars, got, mode, left, bytesDown, upVars>>

\* read_head meets the end of the stream.
ReadHeadEof ==
    /\ pc = "readHead"
    /\ toProxy = <<>> /\ clientFin
    /\ Leave
    /\ UNCHANGED <<clientVars, toProxy, got, buf, cur, extra, keep, mode, left, bytesDown,
                   upVars>>

\* connect_fronted or TcpStream::connect.
Connect ==
    /\ pc = "connect"
    /\ pc' = "forward"
    /\ upState' = "waiting"
    /\ UNCHANGED <<clientVars, toProxy, got, closed, buf, cur, extra, keep, mode, left,
                   bytesDown, upIn, upPlan, upOut, framing>>

\* Mutant: no answer, and Ok(true).
ConnectFailsSilently ==
    /\ pc = "connect"
    /\ "refuse" \in Hazards
    /\ pc' = "readHead"
    /\ UNCHANGED <<clientVars, toProxy, got, closed, buf, cur, extra, keep, mode, left,
                   bytesDown, upVars>>

\* ... fails: 504 or 502, and Ok(false).
ConnectFails ==
    /\ pc = "connect"
    /\ "refuse" \in Hazards
    /\ got' = Append(got, Part(cur, "error"))
    /\ framing' = [framing EXCEPT ![cur] = "error"]
    /\ Leave
    /\ UNCHANGED <<clientVars, toProxy, buf, cur, extra, keep, mode, left, bytesDown, upIn,
                   upPlan, upOut, upState>>

\* The rebuilt head and what was read behind it go out in one write.
Forward ==
    /\ pc = "forward"
    /\ upIn' = <<RebuildOrigin(cur)>> \o extra
    /\ pc' = "respHead"
    /\ UNCHANGED <<clientVars, toProxy, got, closed, buf, cur, extra, keep, mode, left,
                   bytesDown, upPlan, upOut, upState, framing>>

\* Mutant: the whole buffer, head included, is taken off Content-Length.
ReadRespHeadMiscounted ==
    /\ pc = "respHead"
    /\ upOut # <<>>
    /\ framing[cur] = "length"
    /\ \E n \in 1..Len(upOut) :
          /\ upOut' = SubSeq(upOut, n + 1, Len(upOut))
          /\ left' = 2 - n
          /\ got' = got \o SubSeq(upOut, 1, n)
          /\ bytesDown' = bytesDown + n
    /\ mode' = "length"
    /\ pc' = "relay"
    /\ UNCHANGED <<clientVars, toProxy, closed, buf, cur, extra, keep, upIn, upPlan,
                   upState, framing>>

\* The choice of body_mode: an interim response counts as one without a body.
BodyMode(head) == IF head.what = "interim" THEN "none" ELSE framing[cur]

\* How much of n parts of the body is relayed: no more than is left of Content-Length.
Take(n, limit) == IF n < limit THEN n ELSE limit

\* read_head_up, and the head and what of the body was read
\* with it.  A body in mode "none" or "close" loses what was read with the head.
ReadRespHead ==
    /\ pc = "respHead"
    /\ upOut # <<>>
    /\ \E n \in 1..Len(upOut) :
          LET head == upOut[1]
              rest == SubSeq(upOut, 2, n)
              m    == BodyMode(head)
              now  == IF m = "length" THEN SubSeq(rest, 1, Take(Len(rest), 2)) ELSE <<>>
          IN  /\ upOut' = SubSeq(upOut, n + 1, Len(upOut))
              /\ mode' = m
              /\ left' = IF m = "length" THEN 2 - Len(now) ELSE 0
              /\ buf' = IF m = "chunked" THEN rest ELSE <<>>
              /\ got' = Append(got, head) \o now
              /\ bytesDown' = bytesDown + 1 + Len(now)
              /\ pc' = IF m = "none" \/ (m = "length" /\ Len(now) = 2)
                       THEN "done" ELSE "relay"
    /\ UNCHANGED <<clientVars, toProxy, closed, cur, extra, keep, upIn, upPlan, upState,
                   framing>>

\* Mutant: what is relayed is not counted.
RelayPiecesUncounted ==
    /\ pc = "relay" /\ mode \in {"length", "close"}
    /\ upOut # <<>>
    /\ \E n \in 1..Len(upOut) :
          LET take == IF mode = "length" THEN Take(n, left) ELSE n IN
          /\ got' = got \o SubSeq(upOut, 1, take)
          /\ upOut' = SubSeq(upOut, n + 1, Len(upOut))
          /\ left' = IF mode = "length" THEN left - take ELSE left
          /\ pc' = IF mode = "length" /\ left = take THEN "done" ELSE pc
    /\ UNCHANGED <<clientVars, toProxy, closed, buf, cur, extra, keep, mode, bytesDown,
                   upIn, upPlan, upState, framing>>

\* Mutant: a read that goes beyond Content-Length is written out whole.
RelayPiecesUncut ==
    /\ pc = "relay" /\ mode \in {"length", "close"}
    /\ upOut # <<>>
    /\ \E n \in 1..Len(upOut) :
          LET take == IF mode = "length" THEN Take(n, left) ELSE n IN
          /\ got' = got \o SubSeq(upOut, 1, n)
          /\ upOut' = SubSeq(upOut, n + 1, Len(upOut))
          /\ bytesDown' = bytesDown + n
          /\ left' = IF mode = "length" THEN left - take ELSE left
          /\ pc' = IF mode = "length" /\ left = take THEN "done" ELSE pc
    /\ UNCHANGED <<clientVars, toProxy, closed, buf, cur, extra, keep, mode, upIn, upPlan,
                   upState, framing>>

\* relay of a Length or Close body: one read() and write_all(), of no more than is left;
\* what was read beyond it is dropped.
RelayPieces ==
    /\ pc = "relay" /\ mode \in {"length", "close"}
    /\ upOut # <<>>
    /\ \E n \in 1..Len(upOut) :
          LET take == IF mode = "length" THEN Take(n, left) ELSE n IN
          /\ got' = got \o SubSeq(upOut, 1, take)
          /\ upOut' = SubSeq(upOut, n + 1, Len(upOut))
          /\ bytesDown' = bytesDown + take
          /\ left' = IF mode = "length" THEN left - take ELSE left
          /\ pc' = IF mode = "length" /\ left = take THEN "done" ELSE pc
    /\ UNCHANGED <<clientVars, toProxy, closed, buf, cur, extra, keep, mode, upIn, upPlan,
                   upState, framing>>

\* find_chunk_end: the zero chunk, followed by no trailer.
FindChunkEnd(acc) == Part(cur, "last") \in ToSet(acc)

\* relay of a Chunked body: the terminal chunk is in acc; it goes out and everything
\* before it, and what is behind it is dropped.
RelayLastChunk ==
    /\ pc = "relay" /\ mode = "chunked"
    /\ \E end \in DOMAIN buf :
          /\ buf[end] = Part(cur, "last")
          /\ got' = got \o SubSeq(buf, 1, end)
          /\ bytesDown' = bytesDown + end
    /\ buf' = <<>>
    /\ pc' = "done"
    /\ UNCHANGED <<clientVars, toProxy, closed, cur, extra, keep, mode, left, upVars>>

\* Mutant: a full acc is cleared and not written.
FlushChunksDropped ==
    /\ pc = "relay" /\ mode = "chunked"
    /\ ~FindChunkEnd(buf) /\ Len(buf) > FlushAt
    /\ buf' = <<>>
    /\ UNCHANGED <<clientVars, toProxy, got, closed, pc, cur, extra, keep, mode, left,
                   bytesDown, upVars>>

\* ... or it is not: a full acc is written out ...
FlushChunks ==
    /\ pc = "relay" /\ mode = "chunked"
    /\ ~FindChunkEnd(buf) /\ Len(buf) > FlushAt
    /\ got' = got \o buf
    /\ bytesDown' = bytesDown + Len(buf)
    /\ buf' = <<>>
    /\ UNCHANGED <<clientVars, toProxy, closed, pc, cur, extra, keep, mode, left, upVars>>

\* ... and more is read.
ReadChunks ==
    /\ pc = "relay" /\ mode = "chunked"
    /\ ~FindChunkEnd(buf) /\ Len(buf) <= FlushAt
    /\ upOut # <<>>
    /\ \E n \in 1..Len(upOut) :
          /\ buf' = buf \o SubSeq(upOut, 1, n)
          /\ upOut' = SubSeq(upOut, n + 1, Len(upOut))
    /\ UNCHANGED <<clientVars, toProxy, got, closed, pc, cur, extra, keep, mode, left,
                   bytesDown, upIn, upPlan, upState, framing>>

\* The server's stream ends: an error before there is a head; afterwards the end of
\* the relay, a chunked one writing acc without counting it.
UpstreamEof ==
    /\ pc \in {"respHead", "relay"}
    /\ upState = "fin" /\ upOut = <<>>
    /\ mode = "chunked" => ~FindChunkEnd(buf) /\ Len(buf) <= FlushAt
    /\ \/ pc = "respHead" /\ Leave /\ UNCHANGED <<got, buf>>
       \/ /\ pc = "relay"
          /\ got' = got \o buf
          /\ buf' = <<>>
          /\ pc' = "done"
          /\ UNCHANGED closed
    /\ UNCHANGED <<clientVars, toProxy, cur, extra, keep, mode, left, bytesDown, upVars>>

\* Mutant: a broken connection is answered with 502, whatever was relayed before.
UpstreamResetAnswered ==
    /\ pc \in {"forward", "respHead", "relay"}
    /\ "reset" \in Hazards
    /\ Leave
    /\ DropUp
    /\ got' = Append(got, Part(cur, "error"))
    /\ UNCHANGED <<clientVars, toProxy, buf, cur, extra, keep, mode, left, bytesDown>>

\* Any read from or write to the server fails: Err all the way up.
UpstreamReset ==
    /\ pc \in {"forward", "respHead", "relay"}
    /\ "reset" \in Hazards
    /\ Leave
    /\ DropUp
    /\ UNCHANGED <<clientVars, toProxy, got, buf, cur, extra, keep, mode, left, bytesDown>>

\* Ok(keep): the next request, or the end.
Done ==
    /\ pc = "done"
    /\ DropUp
    /\ \/ keep /\ pc' = "readHead" /\ UNCHANGED closed
       \/ ~keep /\ Leave
    /\ UNCHANGED <<clientVars, toProxy, got, buf, cur, extra, keep, mode, left, bytesDown>>

ClientStep == SendHead \/ SendBody \/ ClientClose
UpStep     == UpReply \/ UpSend \/ UpClose
ProxyStep  == \/ ReadHead \/ ReadHeadEof \/ Connect \/ ConnectFails \/ Forward
              \/ ReadRespHead \/ RelayPieces \/ RelayLastChunk \/ FlushChunks
              \/ ReadChunks \/ UpstreamEof \/ UpstreamReset \/ Done

Next == ClientStep \/ UpStep \/ (ProxyStep /\ UNCHANGED met)

\* The runtime polls a task that can go on; a client sends the body it announced, and a
\* server answers a request it has the whole of.  Nothing makes a client send another
\* request or leave.
Fairness == WF_vars(SendBody) /\ WF_vars(UpStep) /\ WF_vars(ProxyStep /\ UNCHANGED met)

Spec     == Init /\ [][Next]_vars
FairSpec == Spec /\ Fairness

-----------------------------------------------------------------------------
(* What the client may rely on.                                             *)

\* Responses come in the order in which the requests stand on the connection and never
\* mix, and none begins twice: the proxy's own 502 or 504 never follows what a server
\* began to say (proxy_server.rs:147-189, 281-282, 300).  A body that was left behind
\* and is served for a request is one of these requests, at its place: the client takes
\* the response to it for the response to what it sent next.
InOrder ==
    \A m, n \in DOMAIN got : m < n =>
        /\ got[m].req <= got[n].req
        /\ got[m].req = got[n].req /\ got[n].what \in {"head", "interim", "error"} =>
              got[m].what = "interim"

\* A response that is under way reaches the client whole and in order: what the client
\* has of it, which is the end of what it got, what is held back, what is in flight and
\* what is still to come make up exactly what the server sends (proxy_server.rs:515-587).
\* Not so in mode "close", which drops what was read with the head.
NothingLost ==
    pc = "relay" /\ mode # "close" =>
        \E n \in 0..Len(got), trailer, excess \in BOOLEAN :
            LET whole == SubSeq(got, n + 1, Len(got)) \o buf \o upOut \o upPlan
                all   == Response(cur, framing[cur], FALSE, trailer, excess)
            IN  /\ \A m \in DOMAIN got : got[m].req = cur <=> m > n
                /\ IsPrefix(whole, all)
                /\ upState = "replying" => whole = all

\* What a server sends beyond the end of its response does not reach the client, which
\* would take it for the beginning of the next one, however the reads cut the stream
\* (the min(left) of proxy_server.rs:538 and 552, acc[..end] of 564).  Not so behind
\* trailer fields, where the end is not recognised.
ExcessCut ==
    \A n \in DOMAIN got : got[n].what = "excess" => Received(got[n].req, "trailer")

\* Every part the client has is counted, once the proxy waits for the next request
\* (Stats.bytes_down, proxy_server.rs:516-582); but not the rest of a chunked body that
\* ended without its terminal chunk.
AllCounted ==
    /\ pc \in {"readHead", "connect"}
    /\ "truncate" \notin met /\ \A r \in Requests : ~Received(r, "trailer")
    => bytesDown = Len(got)

\* proxy_server.rs:9: "forward one request/response over a fronted or direct
\* connection, keep-alive loop": a request the client sent is answered, or the client
\* is told, by the end of the connection, that it will not be.
Answered(r) == Complete(r) \/ closed

AnsweredOrClosed == \A r \in Requests : r \in Asked ~> Answered(r)

\* What the loop cannot serve: a body it has not read along with its head, which stays
\* unread or is served for a request; a pipelined request; a response that is delimited
\* by the end of its connection, that follows an interim one, or that its server cuts
\* short.
Unsupported ==
    \/ pc = "respHead" /\ BodyMissing
    \/ Strayed
    \/ met \cap {"pipeline", "interim", "truncate"} # {}
    \/ \E r \in Requests : framing[r] = "close"

\* Everything else is answered, whatever is refused, reset or closed.
SupportedAnswered ==
    \A r \in Requests : r \in Asked ~> Answered(r) \/ Unsupported

=============================================================================
