-------------------------- MODULE PlainHttpProofs --------------------------
(***************************************************************************)
(* Responses keep the order of the requests and lose nothing, and what is  *)
(* relayed is counted, for any number of requests, any limit of the        *)
(* accumulator, and every way client, servers and network may act.         *)
(***************************************************************************)
EXTENDS PlainHttp, StreamProofs, SequenceTheorems, TLAPS

Starts == {"head", "interim", "error"}

\* The client's view: what it has is ordered, and is about requests up to c, or before.
Ordered(s) ==
    \A m, n \in DOMAIN s : m < n =>
        /\ s[m].req <= s[n].req
        /\ s[m].req = s[n].req /\ s[n].what \in Starts => s[m].what = "interim"

UpTo(s, c)   == \A n \in DOMAIN s : s[n].req <= c
Before(s, c) == \A n \in DOMAIN s : s[n].req < c

\* Parts of the response to c, and such that begin nothing.
About(s, c)  == \A n \in DOMAIN s : s[n].req = c
Body(s, c)   == \A n \in DOMAIN s : s[n].req = c /\ s[n].what \notin Starts

\* Parts of later requests than c, up to l, one of each in turn.
Rising(s, c, l) ==
    /\ \A n \in DOMAIN s : c < s[n].req /\ s[n].req <= l
    /\ \A m, n \in DOMAIN s : m < n => s[m].req < s[n].req

\* A response from its first part on: one that does not begin with an interim head
\* begins once.
BeginsOnce(s, c) ==
    /\ About(s, c)
    /\ s # <<>> /\ s[1].what # "interim" =>
          \A n \in DOMAIN s : n # 1 => s[n].what \notin Starts

\* The server's response to c, in two parts: the one that is in flight and the one that
\* is not sent.
Whole(out, plan, c) ==
    /\ BeginsOnce(out, c)
    /\ About(plan, c)
    /\ out = <<>> => BeginsOnce(plan, c)
    /\ out # <<>> /\ out[1].what # "interim" => Body(plan, c)

-----------------------------------------------------------------------------
(* The inductive invariant.                                                 *)

\* What the proxy has not dealt with, of what the client sent; and the last number it has
\* sent anything of, when a body is due.
Unread(b) == IF pc = "readHead" THEN Joined(b, toProxy) ELSE toProxy
Reached   == IF bodyDue = 0 THEN Len(sent) ELSE Len(sent) - 1

\* Requests: what is on its way to the proxy is not yet served, and in order, whether it
\* is a head or a body that may be read as one.
RequestInv ==
    /\ sent \in Seq([method : Methods \cup {"body"}, close : BOOLEAN])
    /\ Len(sent) <= MaxRequests
    /\ bodyDue \in {0, Len(sent)}
    /\ cur \in 0..Reached
    /\ toProxy \in Seq(Parts) /\ buf \in Seq(Parts)
    /\ Rising(Unread(buf), cur, Reached)
    /\ pc = "done" => buf = <<>>
    /\ pc = "relay" /\ mode # "chunked" => buf = <<>>

\* Responses: until its head is relayed nothing of the current one has been, and
\* afterwards nothing that begins one is under way.
ResponseInv ==
    /\ got \in Seq(Parts) /\ upOut \in Seq(Parts) /\ upPlan \in Seq(Parts)
    /\ Ordered(got) /\ UpTo(got, cur)
    /\ pc \in {"connect", "forward", "respHead"} => cur # 0 /\ Before(got, cur)
    /\ pc \in {"forward", "respHead"} => Whole(upOut, upPlan, cur)
    /\ pc = "relay" => Body(buf, cur) /\ Body(upOut, cur) /\ Body(upPlan, cur)
    /\ upState \in {"none", "waiting"} => upOut = <<>> /\ upPlan = <<>>
    /\ upState = "waiting" => pc \in {"forward", "respHead"}
    /\ pc \in {"readHead", "connect"} => upState = "none"

Inv == RequestInv /\ ResponseInv

\* What is left of a body with Content-Length never runs below 0.
CountInv == left \in 0..2 /\ bytesDown \in Nat

LEMMA InvInOrder == ResponseInv => InOrder
  BY DEF ResponseInv, InOrder, Ordered, Starts

LEMMA InitInv == Init => Inv
<1> SUFFICES ASSUME Init PROVE Inv
  OBVIOUS
<1>1. \A S : <<>> \in Seq(S) /\ Len(<<>>) = 0
  OBVIOUS
<1>2. 0 <= MaxRequests
  BY RequestAssumption DEF RequestAssumption
<1>3. RequestInv
  <2>1. Joined(<<>>, <<>>) = <<>>
    BY <1>1, JoinedEmpty
  <2>2. Unread(buf) = <<>> /\ Reached = 0
    BY <1>1, <2>1 DEF Init, Unread, Reached
  <2>3. Rising(<<>>, 0, 0)
    BY DEF Rising
  <2> QED
    BY <1>1, <1>2, <2>2, <2>3 DEF Init, RequestInv
<1>4. ResponseInv
  BY <1>1 DEF Init, ResponseInv, Ordered, UpTo
<1> QED
  BY <1>3, <1>4 DEF Inv

-----------------------------------------------------------------------------
(* Sequences of parts.                                                      *)

LEMMA PartFields == \A p \in Parts : p.req \in Nat /\ p.req # 0
  BY RequestAssumption DEF RequestAssumption, Parts, Requests

\* Parts of a body keep the order of what went before.
LEMMA BodyDelivered ==
    ASSUME NEW g \in Seq(Parts), NEW t \in Seq(Parts), NEW c \in Nat,
           Ordered(g), UpTo(g, c), Body(t, c)
    PROVE  g \o t \in Seq(Parts) /\ Ordered(g \o t) /\ UpTo(g \o t, c)
<1>1. g \o t \in Seq(Parts) /\ Len(g) \in Nat /\ Len(t) \in Nat
      /\ Len(g \o t) = Len(g) + Len(t) /\ DOMAIN g = 1..Len(g) /\ DOMAIN t = 1..Len(t)
  BY ConcatProperties, LenProperties
<1>2. DOMAIN (g \o t) = 1..Len(g) + Len(t)
  BY <1>1, LenProperties
<1>3. \A n \in 1..Len(g) : (g \o t)[n] = g[n] /\ g[n].req <= c /\ g[n].req \in Nat
  BY <1>1, ConcatProperties, ElementOfSeq, PartFields DEF UpTo
<1>4. ASSUME NEW n \in 1..Len(g) + Len(t), ~(n \in 1..Len(g))
      PROVE  (g \o t)[n].req = c /\ (g \o t)[n].what \notin Starts
  <2>1. n - Len(g) \in 1..Len(t)
    BY <1>1, <1>4
  <2>2. (g \o t)[n] = t[n - Len(g)]
    BY <1>1, <1>4, ConcatProperties
  <2> QED
    BY <1>1, <2>1, <2>2 DEF Body
<1>5. UpTo(g \o t, c)
  BY <1>2, <1>3, <1>4 DEF UpTo
<1>6. Ordered(g \o t)
  <2> SUFFICES ASSUME NEW m \in 1..Len(g) + Len(t), NEW n \in 1..Len(g) + Len(t), m < n
               PROVE  /\ (g \o t)[m].req <= (g \o t)[n].req
                      /\ (g \o t)[m].req = (g \o t)[n].req /\ (g \o t)[n].what \in Starts =>
                             (g \o t)[m].what = "interim"
    BY <1>2 DEF Ordered
  <2>1. CASE n \in 1..Len(g)
    <3>1. m \in 1..Len(g)
      BY <1>1, <2>1
    <3> QED
      BY <1>1, <1>3, <2>1, <3>1 DEF Ordered
  <2>2. CASE ~(n \in 1..Len(g)) /\ m \in 1..Len(g)
    BY <1>3, <1>4, <2>2
  <2>3. CASE ~(n \in 1..Len(g)) /\ ~(m \in 1..Len(g))
    BY <1>4, <2>3
  <2> QED
    BY <2>1, <2>2, <2>3
<1> QED
  BY <1>1, <1>5, <1>6

\* So does whatever begins the response to a request that had none.
LEMMA StartDelivered ==
    ASSUME NEW g \in Seq(Parts), NEW p \in Parts, NEW c \in Nat,
           Ordered(g), Before(g, c), p.req = c
    PROVE  Append(g, p) \in Seq(Parts) /\ Ordered(Append(g, p)) /\ UpTo(Append(g, p), c)
<1>1. Append(g, p) \in Seq(Parts) /\ Len(g) \in Nat /\ Len(Append(g, p)) = Len(g) + 1
      /\ DOMAIN g = 1..Len(g)
  BY AppendProperties, LenProperties
<1>2. DOMAIN Append(g, p) = 1..Len(g) + 1
  BY <1>1, LenProperties
<1>3. \A n \in 1..Len(g) : Append(g, p)[n] = g[n] /\ g[n].req < c /\ g[n].req \in Nat
  BY <1>1, AppendProperties, ElementOfSeq, PartFields DEF Before
<1>4. Append(g, p)[Len(g) + 1] = p
  BY AppendProperties
<1>5. UpTo(Append(g, p), c)
  <2> SUFFICES ASSUME NEW n \in 1..Len(g) + 1 PROVE Append(g, p)[n].req <= c
    BY <1>2 DEF UpTo
  <2>1. CASE n \in 1..Len(g)
    BY <1>3, <2>1
  <2>2. CASE n = Len(g) + 1
    BY <1>4, <2>2
  <2> QED
    BY <1>1, <2>1, <2>2
<1>6. Ordered(Append(g, p))
  <2> SUFFICES ASSUME NEW m \in 1..Len(g) + 1, NEW n \in 1..Len(g) + 1, m < n
               PROVE  /\ Append(g, p)[m].req <= Append(g, p)[n].req
                      /\ Append(g, p)[m].req = Append(g, p)[n].req
                         /\ Append(g, p)[n].what \in Starts =>
                             Append(g, p)[m].what = "interim"
    BY <1>2 DEF Ordered
  <2>1. CASE n \in 1..Len(g)
    <3>1. m \in 1..Len(g)
      BY <1>1, <2>1
    <3> QED
      BY <1>1, <1>3, <2>1, <3>1 DEF Ordered
  <2>2. CASE n = Len(g) + 1
    <3>1. m \in 1..Len(g)
      BY <1>1, <2>2
    <3>2. Append(g, p)[m].req < c /\ Append(g, p)[n].req = c /\ Append(g, p)[m].req \in Nat
      BY <1>3, <1>4, <2>2, <3>1
    <3> QED
      BY <3>2
  <2> QED
    BY <1>1, <2>1, <2>2
<1> QED
  BY <1>1, <1>5, <1>6

LEMMA SubParts ==
    ASSUME NEW s \in Seq(Parts), NEW i \in 1..Len(s) + 1, NEW j \in 0..Len(s)
    PROVE  /\ SubSeq(s, i, j) \in Seq(Parts)
           /\ \A n \in DOMAIN SubSeq(s, i, j) :
                 n \in Nat \ {0} /\ i + n - 1 \in DOMAIN s /\ SubSeq(s, i, j)[n] = s[i + n - 1]
<1>1. Len(s) \in Nat /\ DOMAIN s = 1..Len(s) /\ i \in Int /\ j \in Int
  BY LenProperties
<1>2. \A n \in i..j : s[n] \in Parts
  BY <1>1, ElementOfSeq
<1>3. SubSeq(s, i, j) \in Seq(Parts)
  BY <1>1, <1>2, SubSeqProperties
<1>4. Len(SubSeq(s, i, j)) = IF i <= j THEN j - i + 1 ELSE 0
  BY <1>1, <1>2, SubSeqProperties
<1>5. \A n \in 1..j - i + 1 : SubSeq(s, i, j)[n] = s[i + n - 1]
  BY <1>1, <1>2, SubSeqProperties
<1>6. DOMAIN SubSeq(s, i, j) = 1..Len(SubSeq(s, i, j))
  BY <1>3, LenProperties
<1>7. ASSUME NEW n \in DOMAIN SubSeq(s, i, j)
      PROVE  n \in 1..j - i + 1 /\ i + n - 1 \in 1..Len(s)
  BY <1>1, <1>4, <1>6
<1> QED
  BY <1>1, <1>3, <1>5, <1>7

LEMMA PrefixLength ==
    ASSUME NEW s \in Seq(Parts), NEW j \in 0..Len(s)
    PROVE  Len(SubSeq(s, 1, j)) = j
<1>1. Len(s) \in Nat /\ j \in Int /\ 0 <= j /\ j <= Len(s)
  BY LenProperties
<1>2. \A n \in 1..j : s[n] \in Parts
  BY <1>1, ElementOfSeq
<1>3. Len(SubSeq(s, 1, j)) = IF 1 <= j THEN j - 1 + 1 ELSE 0
  BY <1>2, SubSeqProperties
<1> QED
  BY <1>1, <1>3

LEMMA TakeBounds ==
    ASSUME NEW n \in Nat, NEW limit \in Nat
    PROVE  /\ Take(n, limit) \in 0..n /\ Take(n, limit) \in 0..limit
           /\ Take(n, limit) # limit => Take(n, limit) = n
  BY DEF Take

LEMMA SubBody ==
    ASSUME NEW s \in Seq(Parts), NEW i \in 1..Len(s) + 1, NEW j \in 0..Len(s), NEW c,
           Body(s, c)
    PROVE  Body(SubSeq(s, i, j), c)
  BY SubParts DEF Body

LEMMA AppendBody ==
    ASSUME NEW s \in Seq(Parts), NEW p \in Parts, NEW c,
           Body(s, c), p.req = c, p.what \notin Starts
    PROVE  Body(Append(s, p), c)
<1>1. \A n \in DOMAIN Append(s, p) : n \in 1..Len(s) \/ n = Len(s) + 1
  BY AppendProperties, LenProperties
<1>2. \A n \in 1..Len(s) : Append(s, p)[n] = s[n] /\ n \in DOMAIN s
  BY AppendProperties, LenProperties
<1>3. Append(s, p)[Len(s) + 1] = p
  BY AppendProperties
<1> QED
  BY <1>1, <1>2, <1>3 DEF Body

\* A predicate of each part of both is one of each part of the two together.
LEMMA ConcatParts ==
    ASSUME NEW s \in Seq(Parts), NEW t \in Seq(Parts)
    PROVE  /\ s \o t \in Seq(Parts)
           /\ \A n \in DOMAIN (s \o t) :
                 \/ n \in DOMAIN s /\ (s \o t)[n] = s[n]
                 \/ n - Len(s) \in DOMAIN t /\ (s \o t)[n] = t[n - Len(s)]
           /\ s # <<>> => 1 \in DOMAIN s /\ 1 \in DOMAIN (s \o t) /\ (s \o t)[1] = s[1]
<1>1. s \o t \in Seq(Parts) /\ Len(s) \in Nat /\ Len(t) \in Nat
      /\ Len(s \o t) = Len(s) + Len(t) /\ DOMAIN s = 1..Len(s) /\ DOMAIN t = 1..Len(t)
  BY ConcatProperties, LenProperties
<1>2. DOMAIN (s \o t) = 1..Len(s) + Len(t)
  BY <1>1, LenProperties
<1>3. \A n \in 1..Len(s) + Len(t) :
         (s \o t)[n] = IF n <= Len(s) THEN s[n] ELSE t[n - Len(s)]
  BY ConcatProperties
<1>4. ASSUME NEW n \in 1..Len(s) + Len(t)
      PROVE  \/ n \in 1..Len(s) /\ (s \o t)[n] = s[n]
             \/ n - Len(s) \in 1..Len(t) /\ (s \o t)[n] = t[n - Len(s)]
  BY <1>1, <1>3
<1>5. s # <<>> => 1 \in 1..Len(s)
  BY <1>1, EmptySeq
<1>6. s # <<>> => 1 \in 1..Len(s) + Len(t) /\ (s \o t)[1] = s[1]
  BY <1>1, <1>3, <1>5
<1> QED
  BY <1>1, <1>2, <1>4, <1>5, <1>6

LEMMA ConcatBody ==
    ASSUME NEW s \in Seq(Parts), NEW t \in Seq(Parts), NEW c, Body(s, c), Body(t, c)
    PROVE  Body(s \o t, c)
  BY ConcatParts DEF Body

-----------------------------------------------------------------------------
(* The server's side.                                                       *)

\* A response begins once.
LEMMA ResponseBegins ==
    ASSUME NEW c \in Requests, NEW f, NEW interim \in BOOLEAN, NEW trailer \in BOOLEAN,
           NEW excess \in BOOLEAN
    PROVE  Response(c, f, interim, trailer, excess) \in Seq(Parts)
           /\ BeginsOnce(Response(c, f, interim, trailer, excess), c)
<1> DEFINE first  == IF interim THEN <<Part(c, "interim")>> ELSE <<>>
           head   == <<Part(c, "head")>>
           pieces == IF f = "none" THEN <<>> ELSE <<Part(c, "piece"), Part(c, "piece")>>
           end    == IF f # "chunked" THEN <<>>
                     ELSE <<IF trailer THEN Part(c, "trailer") ELSE Part(c, "last")>>
           more   == IF excess THEN <<Part(c, "excess")>> ELSE <<>>
<1>1. first \in Seq(Parts) /\ head \in Seq(Parts) /\ pieces \in Seq(Parts)
      /\ end \in Seq(Parts) /\ more \in Seq(Parts)
  <2>1. \A what \in {"head", "interim", "piece", "last", "trailer", "excess"} :
            Part(c, what) \in Parts
    BY DEF Part, Parts
  <2> QED
    BY <2>1
<1>2. Body(pieces, c) /\ Body(end, c) /\ Body(more, c)
  BY DEF Part, Body, Starts
<1>3. About(first, c) /\ About(head, c)
  BY DEF Part, About
<1>4. Response(c, f, interim, trailer, excess) =
          (((first \o head) \o pieces) \o end) \o more
  BY DEF Response
<1>5. interim => first # <<>> /\ first[1].what = "interim"
  BY DEF Part
<1>6. ~interim => first \o head = head
  <2>1. ~interim => first = <<>>
    OBVIOUS
  <2> HIDE DEF first, head
  <2> QED
    BY <1>1, <2>1, ConcatEmptySeq
<1>7. head # <<>> /\ \A n \in DOMAIN head : n = 1
  OBVIOUS
<1> HIDE DEF first, head, pieces, end, more
<1> DEFINE begun == first \o head
           main  == begun \o pieces
           ended == main \o end
           whole == ended \o more
<1>8. begun \in Seq(Parts) /\ main \in Seq(Parts) /\ ended \in Seq(Parts)
      /\ whole \in Seq(Parts)
  BY <1>1, ConcatParts
<1>9. About(begun, c)
  BY <1>1, <1>3, ConcatParts DEF About
<1>10. begun # <<>>
  BY <1>1, <1>7, ConcatEqualIffEmpty
<1> HIDE DEF begun
<1>11. /\ main # <<>> /\ main[1] = begun[1]
       /\ \A n \in DOMAIN main : \/ n \in DOMAIN begun /\ main[n] = begun[n]
                                 \/ main[n].req = c /\ main[n].what \notin Starts
  <2>1. main # <<>>
    BY <1>1, <1>8, <1>10, ConcatEqualIffEmpty
  <2> QED
    BY <1>1, <1>2, <1>8, <1>10, <2>1, ConcatParts DEF Body
<1> HIDE DEF main
<1>12. /\ ended # <<>> /\ ended[1] = main[1]
       /\ \A n \in DOMAIN ended : \/ n \in DOMAIN main /\ ended[n] = main[n]
                                  \/ ended[n].req = c /\ ended[n].what \notin Starts
  <2>1. ended # <<>>
    BY <1>1, <1>8, <1>11, ConcatEqualIffEmpty
  <2> QED
    BY SMTT(40), <1>1, <1>2, <1>8, <1>11, <2>1, ConcatParts DEF Body
<1> HIDE DEF ended
<1>13. /\ whole # <<>> /\ whole[1] = ended[1]
       /\ \A n \in DOMAIN whole : \/ n \in DOMAIN ended /\ whole[n] = ended[n]
                                  \/ whole[n].req = c /\ whole[n].what \notin Starts
  <2>1. whole # <<>>
    BY <1>1, <1>8, <1>12, ConcatEqualIffEmpty
  <2>2. /\ whole[1] = ended[1]
        /\ \A n \in DOMAIN whole : \/ n \in DOMAIN ended /\ whole[n] = ended[n]
                                   \/ n - Len(ended) \in DOMAIN more
                                      /\ whole[n] = more[n - Len(ended)]
    BY <1>1, <1>8, <1>12, ConcatParts
  <2> HIDE DEF whole
  <2> QED
    BY <1>2, <2>1, <2>2 DEF Body
<1>14. About(whole, c)
  BY <1>9, <1>11, <1>12, <1>13 DEF About
<1>15. Response(c, f, interim, trailer, excess) = whole
  BY <1>4 DEF begun, main, ended
<1>16. CASE interim
  <2>1. begun[1].what = "interim"
    BY <1>1, <1>5, <1>16, ConcatParts DEF begun
  <2> QED
    BY <1>8, <1>11, <1>12, <1>13, <1>14, <1>15, <2>1 DEF BeginsOnce
<1>17. CASE ~interim
  <2>1. \A n \in DOMAIN begun : n = 1
    BY <1>6, <1>7, <1>17 DEF begun
  <2>2. \A n \in DOMAIN whole : n # 1 => whole[n].what \notin Starts
    BY <1>11, <1>12, <1>13, <2>1
  <2> QED
    BY <1>8, <1>14, <1>15, <2>2 DEF BeginsOnce
<1> QED
  BY <1>16, <1>17

LEMMA CurIsRequest == Inv /\ cur # 0 => cur \in Requests
<1> SUFFICES ASSUME Inv, cur # 0 PROVE cur \in Requests
  OBVIOUS
<1>1. Len(sent) \in Nat /\ Len(sent) <= MaxRequests /\ cur \in 0..Len(sent)
  BY LenProperties DEF Inv, RequestInv, Reached
<1>2. MaxRequests \in Nat
  BY RequestAssumption DEF RequestAssumption
<1> QED
  BY <1>1, <1>2 DEF Requests

LEMMA ReplyInv == Inv /\ UpReply => Inv'
<1> SUFFICES ASSUME Inv, UpReply PROVE Inv'
  OBVIOUS
<1> USE DEF Inv, clientVars, proxyVars
<1>1. PICK f \in Framings, interim \in BOOLEAN, trailer \in BOOLEAN, excess \in BOOLEAN :
          upPlan' = Response(cur, f, interim, trailer, excess)
  BY DEF UpReply
<1>2. pc \in {"forward", "respHead"} /\ upOut = <<>> /\ upOut' = <<>>
  BY DEF UpReply, ResponseInv
<1>3. cur \in Requests
  BY <1>2, CurIsRequest DEF ResponseInv
<1>4. upPlan' \in Seq(Parts) /\ BeginsOnce(upPlan', cur)
  BY <1>1, <1>3, ResponseBegins
<1>5. Whole(upOut', upPlan', cur)
  BY <1>2, <1>4 DEF Whole, BeginsOnce, About
<1>6. RequestInv'
  BY DEF UpReply, RequestInv, Unread, Reached
<1>7. ResponseInv'
  BY <1>2, <1>4, <1>5 DEF UpReply, ResponseInv
<1> QED
  BY <1>6, <1>7

LEMMA SendInv == Inv /\ UpSend => Inv'
<1> SUFFICES ASSUME Inv, UpSend PROVE Inv'
  OBVIOUS
<1> USE DEF Inv, clientVars, proxyVars
<1> DEFINE p == Head(upPlan)
<1>1. upPlan # <<>> /\ upOut' = Append(upOut, p) /\ upPlan' = Tail(upPlan)
      /\ upPlan \in Seq(Parts) /\ upOut \in Seq(Parts)
  BY DEF UpSend, ResponseInv
<1>2. Len(upPlan) \in Nat \ {0} /\ DOMAIN upPlan = 1..Len(upPlan) /\ p = upPlan[1]
      /\ p \in Parts /\ Len(upOut) \in Nat /\ DOMAIN upOut = 1..Len(upOut)
  BY <1>1, LenProperties, EmptySeq, HeadTailProperties
<1>3. upPlan' \in Seq(Parts)
      /\ \A n \in DOMAIN upPlan' :
            n + 1 \in DOMAIN upPlan /\ n + 1 # 1 /\ upPlan'[n] = upPlan[n + 1]
  BY <1>1, <1>2, LenProperties, HeadTailProperties
<1> HIDE DEF p
<1>4. /\ upOut' \in Seq(Parts) /\ upOut' # <<>>
      /\ \A n \in 1..Len(upOut) : upOut'[n] = upOut[n]
      /\ upOut'[Len(upOut) + 1] = p
      /\ DOMAIN upOut' = 1..Len(upOut) + 1
  BY <1>1, <1>2, AppendProperties, LenProperties
<1>5. 1 \in DOMAIN upPlan
  BY <1>2
<1>6. ASSUME pc \in {"forward", "respHead"} PROVE Whole(upOut', upPlan', cur)
  <2>1. Whole(upOut, upPlan, cur)
    BY <1>6 DEF ResponseInv
  <2>2. About(upPlan', cur) /\ p.req = cur
    BY <1>2, <1>3, <1>5, <2>1 DEF Whole, About
  <2>3. About(upOut', cur)
    BY <1>2, <1>4, <2>1, <2>2 DEF Whole, BeginsOnce, About
  <2>4. CASE upOut = <<>>
    <3>1. Len(upOut) = 0
      BY <2>4
    <3>2. upOut'[1] = upPlan[1] /\ \A n \in DOMAIN upOut' : n = 1
      BY <1>2, <1>4, <3>1
    <3>3. upPlan[1].what # "interim" => Body(upPlan', cur)
      BY <1>1, <1>3, <2>1, <2>2, <2>4 DEF Whole, BeginsOnce, Body, About
    <3> QED
      BY <1>4, <2>2, <2>3, <3>2, <3>3 DEF Whole, BeginsOnce
  <2>5. CASE upOut # <<>>
    <3>1. 1 \in 1..Len(upOut)
      BY <1>1, <1>2, <2>5, EmptySeq
    <3>2. upOut'[1] = upOut[1]
      BY <1>4, <3>1
    <3>3. ASSUME upOut[1].what # "interim"
          PROVE  /\ Body(upPlan', cur)
                 /\ \A n \in DOMAIN upOut' : n # 1 => upOut'[n].what \notin Starts
      <4>1. Body(upPlan, cur)
        BY <2>1, <2>5, <3>3 DEF Whole
      <4>2. p.what \notin Starts
        BY <1>2, <1>5, <4>1 DEF Body
      <4>3. \A n \in 1..Len(upOut) : n # 1 => upOut[n].what \notin Starts
        BY <1>2, <2>1, <2>5, <3>3 DEF Whole, BeginsOnce
      <4> QED
        BY <1>2, <1>3, <1>4, <4>1, <4>2, <4>3 DEF Body
    <3> QED
      BY <1>4, <2>2, <2>3, <3>2, <3>3 DEF Whole, BeginsOnce
  <2> QED
    BY <2>4, <2>5
<1>7. ASSUME pc = "relay" PROVE Body(upOut', cur) /\ Body(upPlan', cur)
  <2>1. Body(upOut, cur) /\ Body(upPlan, cur)
    BY <1>7 DEF ResponseInv
  <2>2. p.req = cur /\ p.what \notin Starts
    BY <1>2, <1>5, <2>1 DEF Body
  <2>3. Body(upOut', cur)
    BY <1>1, <1>2, <2>1, <2>2, AppendBody
  <2>4. Body(upPlan', cur)
    BY <1>3, <2>1 DEF Body
  <2> QED
    BY <2>3, <2>4
<1>8. RequestInv'
  BY DEF UpSend, RequestInv, Unread, Reached
<1>9. ResponseInv'
  BY <1>3, <1>4, <1>6, <1>7 DEF UpSend, ResponseInv
<1> QED
  BY <1>8, <1>9

LEMMA CloseInv == Inv /\ UpClose => Inv'
<1> SUFFICES ASSUME Inv, UpClose PROVE Inv'
  OBVIOUS
<1> USE DEF Inv, clientVars, proxyVars
<1>1. RequestInv'
  BY DEF UpClose, RequestInv, Unread, Reached
<1>2. upPlan' = <<>> /\ upOut' = upOut /\ upState' = "fin" /\ pc' = pc /\ upState = "replying"
  BY DEF UpClose
<1>3. Whole(upOut, upPlan, cur) => Whole(upOut, <<>>, cur)
  BY DEF Whole, BeginsOnce, About, Body
<1>4. Body(<<>>, cur)
  BY DEF Body
<1>5. ResponseInv'
  BY <1>2, <1>3, <1>4 DEF UpClose, ResponseInv
<1> QED
  BY <1>1, <1>5

-----------------------------------------------------------------------------
(* The client.                                                              *)

\* A part of a later request goes behind the others.
LEMMA RisingMore ==
    ASSUME NEW s \in Seq(Parts), NEW p \in Parts, NEW c \in Nat, NEW l \in Nat,
           NEW r \in Nat, Rising(s, c, l), c <= l, l < p.req, p.req <= r
    PROVE  Rising(Append(s, p), c, r)
<1>1. /\ Len(s) \in Nat /\ DOMAIN s = 1..Len(s) /\ DOMAIN Append(s, p) = 1..Len(s) + 1
      /\ \A n \in 1..Len(s) : Append(s, p)[n] = s[n]
      /\ Append(s, p)[Len(s) + 1] = p
  BY AppendProperties, LenProperties
<1>2. p.req \in Nat /\ \A n \in 1..Len(s) : s[n].req \in Nat
  BY <1>1, ElementOfSeq, PartFields
<1>3. ASSUME NEW n \in 1..Len(s) + 1
      PROVE  c < Append(s, p)[n].req /\ Append(s, p)[n].req <= r
  <2>1. CASE n \in 1..Len(s)
    <3>1. Append(s, p)[n] = s[n] /\ s[n].req \in Nat
      BY <1>1, <1>2, <2>1
    <3>2. c < s[n].req /\ s[n].req <= l
      BY <1>1, <2>1 DEF Rising
    <3> QED
      BY <1>2, <3>1, <3>2
  <2>2. CASE n = Len(s) + 1
    BY <1>1, <1>2, <2>2
  <2> QED
    BY <1>1, <2>1, <2>2
<1>4. ASSUME NEW m \in 1..Len(s) + 1, NEW n \in 1..Len(s) + 1, m < n
      PROVE  Append(s, p)[m].req < Append(s, p)[n].req
  <2>1. m \in 1..Len(s) /\ Append(s, p)[m] = s[m] /\ s[m].req \in Nat
    <3>1. m \in 1..Len(s)
      BY <1>1, <1>4
    <3> QED
      BY <1>1, <1>2, <3>1
  <2>2. s[m].req <= l
    BY <1>1, <2>1 DEF Rising
  <2>3. CASE n \in 1..Len(s)
    BY <1>1, <1>4, <2>1, <2>3 DEF Rising
  <2>4. CASE n = Len(s) + 1
    <3>1. Append(s, p)[n] = p
      BY <1>1, <2>4
    <3> QED
      BY <1>2, <2>1, <2>2, <3>1
  <2> QED
    BY <1>1, <2>3, <2>4
<1> QED
  BY <1>1, <1>3, <1>4 DEF Rising

LEMMA UnreadTyped ==
    RequestInv => /\ Unread(buf) \in Seq(Parts)
                  /\ Len(sent) \in Nat /\ Reached \in Nat /\ cur \in Nat
                  /\ cur <= Reached /\ Reached <= Len(sent)
<1> SUFFICES ASSUME RequestInv
             PROVE  /\ Unread(buf) \in Seq(Parts)
                    /\ Len(sent) \in Nat /\ Reached \in Nat /\ cur \in Nat
                    /\ cur <= Reached /\ Reached <= Len(sent)
  OBVIOUS
<1>1. Joined(buf, toProxy) \in Seq(Parts) /\ toProxy \in Seq(Parts)
  BY JoinedProperties DEF RequestInv
<1>2. Len(sent) \in Nat
  BY LenProperties DEF RequestInv
<1>3. bodyDue \in {0, Len(sent)} /\ cur \in 0..Reached
  BY DEF RequestInv
<1>4. Reached \in Nat /\ Reached <= Len(sent)
  BY <1>2, <1>3 DEF Reached
<1> QED
  BY <1>1, <1>2, <1>3, <1>4 DEF Unread

\* The client sends one more part, of a request it has sent nothing of.
LEMMA ClientSends ==
    ASSUME Inv, NEW p \in Parts, toProxy' = Append(toProxy, p),
           sent' \in Seq([method : Methods \cup {"body"}, close : BOOLEAN]),
           Len(sent') <= MaxRequests, bodyDue' \in {0, Len(sent')},
           Reached < p.req, p.req <= Reached',
           UNCHANGED <<got, proxyVars, upVars>>
    PROVE  Inv'
<1>1. UNCHANGED <<pc, buf, cur, mode>> /\ buf \in Seq(Parts) /\ toProxy \in Seq(Parts)
  BY DEF proxyVars, Inv, RequestInv
<1>2. /\ Unread(buf) \in Seq(Parts) /\ Reached \in Nat /\ cur \in Nat /\ cur <= Reached
  BY UnreadTyped DEF Inv
<1>3. Reached' \in Nat
  <2>1. Len(sent') \in Nat
    BY LenProperties
  <2>2. Reached' \in Int /\ p.req \in Nat
    BY <2>1, PartFields DEF Reached
  <2> QED
    BY <1>2, <2>2
<1>4. Unread(buf)' = Append(Unread(buf), p)
  <2>1. Joined(buf, toProxy') = Append(Joined(buf, toProxy), p)
    BY <1>1, AppendInFlight
  <2> QED
    BY <1>1, <2>1 DEF Unread
<1>5. Rising(Unread(buf), cur, Reached)
  BY DEF Inv, RequestInv
<1>6. Rising(Append(Unread(buf), p), cur, Reached')
  BY <1>2, <1>3, <1>5, RisingMore
<1>7. toProxy' \in Seq(Parts)
  BY <1>1, AppendProperties
<1>8. cur' \in 0..Reached'
  <2>1. p.req \in Nat
    BY PartFields
  <2> QED
    BY <1>1, <1>2, <1>3, <2>1
<1>9. RequestInv'
  BY <1>1, <1>4, <1>6, <1>7, <1>8 DEF RequestInv, Inv
<1>10. ResponseInv'
  BY DEF ResponseInv, Inv, proxyVars, upVars
<1> QED
  BY <1>9, <1>10 DEF Inv

LEMMA SendHeadInv == Inv /\ SendHead => Inv'
<1> SUFFICES ASSUME Inv, SendHead PROVE Inv'
  OBVIOUS
<1> DEFINE entry(k, c) == [method |-> k, close |-> c]
           behind(k, c) == IF k = "post" THEN <<entry("body", c)>> ELSE <<>>
           p == Part(Len(sent) + 1, "head")
<1>1. PICK k \in Methods, c \in BOOLEAN :
          /\ Len(sent) + Len(<<entry(k, c)>> \o behind(k, c)) <= MaxRequests
          /\ sent' = sent \o (<<entry(k, c)>> \o behind(k, c))
          /\ bodyDue' = IF k = "post" THEN Len(sent) + 2 ELSE 0
  BY DEF SendHead
<1>2. bodyDue = 0 /\ toProxy' = Append(toProxy, p) /\ UNCHANGED <<got, proxyVars, upVars>>
  BY DEF SendHead
<1> DEFINE S == [method : Methods \cup {"body"}, close : BOOLEAN]
           new == <<entry(k, c)>> \o behind(k, c)
<1>3. sent \in Seq(S) /\ Len(sent) \in Nat /\ MaxRequests \in Nat
  BY LenProperties, RequestAssumption DEF Inv, RequestInv, RequestAssumption
<1>4. new \in Seq(S) /\ Len(new) = IF k = "post" THEN 2 ELSE 1
  <2>1. entry(k, c) \in S /\ entry("body", c) \in S
    OBVIOUS
  <2> HIDE DEF S, entry
  <2>2. <<entry(k, c)>> \in Seq(S) /\ Len(<<entry(k, c)>>) = 1
    BY <2>1
  <2>3. behind(k, c) \in Seq(S) /\ Len(behind(k, c)) = IF k = "post" THEN 1 ELSE 0
    BY <2>1
  <2> HIDE DEF behind
  <2>4. Len(new) = Len(<<entry(k, c)>>) + Len(behind(k, c)) /\ new \in Seq(S)
    BY <2>2, <2>3, ConcatProperties
  <2> QED
    BY <2>2, <2>3, <2>4
<1>5. Len(sent) + Len(new) <= MaxRequests /\ sent' = sent \o new
  BY <1>1
<1> HIDE DEF new, S, entry, behind
<1>6. sent' \in Seq(S) /\ Len(sent') = Len(sent) + Len(new)
  BY <1>3, <1>4, <1>5, ConcatProperties
<1>7. /\ Len(sent') = Len(sent) + (IF k = "post" THEN 2 ELSE 1)
      /\ Len(sent') <= MaxRequests /\ Len(sent) + 1 <= MaxRequests
  BY <1>3, <1>4, <1>5, <1>6
<1>8. p \in Parts /\ p.req = Len(sent) + 1
  BY <1>3, <1>7 DEF Part, Parts, Requests
<1>9. bodyDue' \in {0, Len(sent')} /\ Reached = Len(sent) /\ Reached' = Len(sent) + 1
  BY <1>1, <1>2, <1>3, <1>7 DEF Reached
<1> HIDE DEF p
<1>10. Reached < p.req /\ p.req <= Reached'
  BY <1>3, <1>8, <1>9
<1> QED
  BY <1>2, <1>6, <1>7, <1>8, <1>9, <1>10, ClientSends DEF S

LEMMA SendBodyInv == Inv /\ SendBody => Inv'
<1> SUFFICES ASSUME Inv, SendBody PROVE Inv'
  OBVIOUS
<1> DEFINE p == Part(bodyDue, "body")
<1>1. /\ toProxy' = Append(toProxy, p) /\ bodyDue # 0 /\ bodyDue' = 0
      /\ UNCHANGED <<sent, got, proxyVars, upVars>>
  BY DEF SendBody
<1>2. /\ sent \in Seq([method : Methods \cup {"body"}, close : BOOLEAN])
      /\ Len(sent) \in Nat /\ MaxRequests \in Nat /\ Len(sent) <= MaxRequests
      /\ bodyDue = Len(sent)
  BY <1>1, LenProperties, RequestAssumption DEF Inv, RequestInv, RequestAssumption
<1>3. p \in Parts /\ p.req = Len(sent)
  BY <1>1, <1>2 DEF Part, Parts, Requests
<1>4. Reached = Len(sent) - 1 /\ Reached' = Len(sent)
  BY <1>1, <1>2 DEF Reached
<1> HIDE DEF p
<1>5. Reached < p.req /\ p.req <= Reached'
  BY <1>2, <1>3, <1>4
<1> QED
  BY <1>1, <1>2, <1>3, <1>5, ClientSends

LEMMA ClientCloseInv == Inv /\ ClientClose => Inv'
  BY DEF Inv, ClientClose, RequestInv, ResponseInv, proxyVars, upVars, Unread, Reached

-----------------------------------------------------------------------------
(* The proxy.                                                               *)

\* What follows a part is about later requests.
LEMMA RisingFrom ==
    ASSUME NEW s \in Seq(Parts), NEW c \in Nat, NEW l \in Nat, NEW n \in 0..Len(s),
           Rising(s, c, l)
    PROVE  /\ Rising(From(s, n), c, l)
           /\ n # 0 => s[1].req \in Nat /\ c < s[1].req /\ s[1].req <= l
                       /\ Rising(From(s, n), s[1].req, l)
<1>1. Len(s) \in Nat /\ DOMAIN s = 1..Len(s)
  BY LenProperties
<1>2. /\ DOMAIN From(s, n) = 1..Len(s) - n
      /\ \A i \in 1..Len(s) - n : From(s, n)[i] = s[n + i]
  BY <1>1, FromProperties, LenProperties
<1>3. \A i \in 1..Len(s) - n : n + i \in 1..Len(s) /\ (n # 0 => 1 < n + i)
  BY <1>1
<1>4. \A i, j \in 1..Len(s) - n : i < j => n + i < n + j
  BY <1>1
<1>5. Rising(From(s, n), c, l)
  BY <1>1, <1>2, <1>3, <1>4 DEF Rising
<1>6. n # 0 => 1 \in 1..Len(s)
  BY <1>1
<1>7. n # 0 => s[1].req \in Nat /\ c < s[1].req /\ s[1].req <= l
  BY <1>1, <1>6, ElementOfSeq, PartFields DEF Rising
<1>8. n # 0 => Rising(From(s, n), s[1].req, l)
  BY <1>1, <1>2, <1>3, <1>4, <1>6 DEF Rising
<1> QED
  BY <1>5, <1>7, <1>8

\* One read of the client's stream takes some of it, and the rest follows.
LEMMA ReadOn ==
    ASSUME Inv, pc = "readHead", NEW n \in 1..Len(toProxy),
           toProxy' = SubSeq(toProxy, n + 1, Len(toProxy))
    PROVE  LET raw == Joined(buf, SubSeq(toProxy, 1, n)) IN
           /\ raw \in Seq(Parts) /\ Len(raw) \in Nat \ {0} /\ raw[1] = Unread(buf)[1]
           /\ toProxy' \in Seq(Parts)
           /\ Joined(raw, toProxy') = Unread(buf)
           /\ Len(raw) \in 0..Len(Unread(buf))
           /\ toProxy' = From(Unread(buf), Len(raw))
<1> DEFINE raw == Joined(buf, SubSeq(toProxy, 1, n))
<1>1. /\ toProxy \in Seq(Parts) /\ buf \in Seq(Parts) /\ Unread(buf) = Joined(buf, toProxy)
      /\ Len(buf) \in Nat /\ toProxy' = From(toProxy, n) /\ n \in Nat \ {0}
  BY LenProperties DEF Inv, RequestInv, Unread, From
<1>2. /\ raw \in Seq(Parts) /\ From(toProxy, n) \in Seq(Parts)
      /\ Joined(raw, From(toProxy, n)) = Joined(buf, toProxy)
      /\ Len(raw) = Len(buf) + n
  BY <1>1, Moved
<1>3. toProxy' \in Seq(Parts) /\ Joined(raw, toProxy') = Unread(buf)
  BY <1>1, <1>2
<1> HIDE DEF raw
<1>4. Len(raw) \in Nat \ {0} /\ Len(toProxy') \in Nat
      /\ Len(Unread(buf)) = Len(raw) + Len(toProxy')
  <2>1. Len(raw) \in Nat \ {0}
    BY <1>1, <1>2
  <2>2. Len(Joined(raw, toProxy')) = Len(raw) + Len(toProxy') /\ Len(toProxy') \in Nat
    BY <1>2, <1>3, JoinedProperties, LenProperties
  <2> QED
    BY <1>3, <2>1, <2>2
<1>5. raw[1] = Unread(buf)[1]
  <2>1. 1 \in 1..Len(raw) + Len(toProxy') /\ 1 <= Len(raw)
    BY <1>4
  <2>2. \A i \in 1..Len(raw) + Len(toProxy') :
           Joined(raw, toProxy')[i] = IF i <= Len(raw) THEN raw[i] ELSE toProxy'[i - Len(raw)]
    BY <1>2, <1>3, JoinedProperties
  <2> QED
    BY <1>2, <1>3, <2>1, <2>2
<1>6. toProxy' = From(Unread(buf), Len(raw))
  <2>1. Len(raw) \in 0..Len(raw) /\ Len(raw) >= Len(raw)
    BY <1>4
  <2>2. From(Joined(raw, toProxy'), Len(raw)) = Joined(From(raw, Len(raw)), toProxy')
    BY <1>2, <1>3, <2>1, FromJoined
  <2>3. From(raw, Len(raw)) = <<>>
    BY <1>2, <1>3, <1>4, <2>1, FromEnd
  <2> QED
    BY <1>2, <1>3, <2>2, <2>3, JoinedEmpty
<1>7. Len(raw) \in 0..Len(Unread(buf))
  BY <1>4
<1> QED
  BY <1>2, <1>3, <1>4, <1>5, <1>6, <1>7 DEF raw

LEMMA ReadHeadInv == Inv /\ ReadHead => Inv'
<1> SUFFICES ASSUME Inv, ReadHead PROVE Inv'
  OBVIOUS
<1>1. /\ pc = "readHead"
      /\ UNCHANGED <<sent, bodyDue, mode, got, upOut, upPlan, upState>>
  BY DEF ReadHead, clientVars, upVars
<1>2. PICK n \in 1..Len(toProxy) :
          /\ toProxy' = SubSeq(toProxy, n + 1, Len(toProxy))
          /\ \/ /\ buf' = Joined(buf, SubSeq(toProxy, 1, n))
                /\ UNCHANGED <<pc, cur>>
             \/ /\ cur' = Joined(buf, SubSeq(toProxy, 1, n))[1].req
                /\ buf' = <<>> /\ pc' = "connect"
             \/ pc' = "gone" /\ UNCHANGED <<buf, cur>>
  BY DEF ReadHead, Leave, Joined
<1> DEFINE raw == Joined(buf, SubSeq(toProxy, 1, n))
           all == Unread(buf)
<1>3. /\ raw \in Seq(Parts) /\ Len(raw) \in Nat \ {0} /\ raw[1] = all[1]
      /\ toProxy' \in Seq(Parts) /\ Joined(raw, toProxy') = all
      /\ Len(raw) \in 0..Len(all) /\ toProxy' = From(all, Len(raw))
  BY <1>1, <1>2, ReadOn
<1>4. /\ all \in Seq(Parts) /\ Len(sent) \in Nat /\ Reached \in Nat /\ cur \in Nat
      /\ cur <= Reached /\ Reached <= Len(sent) /\ Rising(all, cur, Reached)
  BY UnreadTyped DEF Inv, RequestInv
<1>5. Reached' = Reached
  BY <1>1 DEF Reached
<1>6. \/ buf' = raw /\ UNCHANGED <<pc, cur>>
      \/ cur' = raw[1].req /\ buf' = <<>> /\ pc' = "connect"
      \/ pc' = "gone" /\ UNCHANGED <<buf, cur>>
  BY <1>2
<1> HIDE DEF raw, all
<1>7. /\ Rising(toProxy', cur, Reached)
      /\ raw[1].req \in Nat /\ cur < raw[1].req /\ raw[1].req <= Reached
      /\ Rising(toProxy', raw[1].req, Reached)
  BY <1>3, <1>4, RisingFrom
<1>8. CASE buf' = raw /\ UNCHANGED <<pc, cur>>
  <2>1. Unread(buf)' = all
    BY <1>1, <1>3, <1>8 DEF Unread
  <2>2. RequestInv'
    BY <1>1, <1>3, <1>4, <1>5, <1>8, <2>1 DEF Inv, RequestInv
  <2>3. ResponseInv'
    BY <1>1, <1>8 DEF Inv, ResponseInv
  <2> QED
    BY <2>2, <2>3 DEF Inv
<1>9. CASE cur' = raw[1].req /\ buf' = <<>> /\ pc' = "connect"
  <2>1. Unread(buf)' = toProxy' /\ cur' \in 0..Reached /\ cur' # 0 /\ cur < cur'
    BY <1>4, <1>7, <1>9 DEF Unread
  <2>2. RequestInv'
    <3>1. buf' \in Seq(Parts)
      BY <1>9
    <3>2. Rising(Unread(buf)', cur', Reached')
      BY <1>5, <1>7, <1>9, <2>1
    <3>3. cur' \in 0..Reached'
      BY <1>5, <2>1
    <3> QED
      BY <1>1, <1>3, <1>9, <3>1, <3>2, <3>3 DEF Inv, RequestInv
  <2>3. Before(got, cur') /\ UpTo(got, cur')
    <3>1. \A k \in DOMAIN got : got[k].req \in Nat
      BY LenProperties, ElementOfSeq, PartFields DEF Inv, ResponseInv
    <3>2. cur' \in Nat
      BY <1>7, <1>9
    <3> QED
      BY <1>4, <2>1, <3>1, <3>2 DEF Inv, ResponseInv, Before, UpTo
  <2>4. ResponseInv'
    BY <1>1, <1>9, <2>1, <2>3 DEF Inv, ResponseInv
  <2> QED
    BY <2>2, <2>4 DEF Inv
<1>10. CASE pc' = "gone" /\ UNCHANGED <<buf, cur>>
  <2>1. Unread(buf)' = toProxy'
    BY <1>10 DEF Unread
  <2>2. RequestInv'
    BY <1>1, <1>3, <1>4, <1>5, <1>7, <1>10, <2>1 DEF Inv, RequestInv
  <2>3. ResponseInv'
    BY <1>1, <1>10 DEF Inv, ResponseInv
  <2> QED
    BY <2>2, <2>3 DEF Inv
<1> QED
  BY <1>6, <1>8, <1>9, <1>10

\* Nothing of the requests changes but buf.
LEMMA RequestKept ==
    ASSUME RequestInv, UNCHANGED <<sent, bodyDue, cur, toProxy>>, buf' \in Seq(Parts),
           pc # "readHead", pc' # "readHead",
           pc' = "done" => buf' = <<>>,
           pc' = "relay" /\ mode' # "chunked" => buf' = <<>>
    PROVE  RequestInv'
<1>1. Unread(buf) = toProxy /\ Unread(buf)' = toProxy /\ Reached' = Reached
  BY DEF Unread, Reached
<1> QED
  BY <1>1 DEF RequestInv

\* Body parts of the current response are relayed.
LEMMA Relaying ==
    ASSUME Inv, NEW t \in Seq(Parts), Body(t, cur), got' = got \o t, cur' = cur
    PROVE  got' \in Seq(Parts) /\ Ordered(got') /\ UpTo(got', cur')
<1>1. cur \in Nat
  BY UnreadTyped DEF Inv
<1> QED
  BY <1>1, BodyDelivered DEF Inv, ResponseInv

LEMMA ReadHeadEofInv == Inv /\ ReadHeadEof => Inv'
<1> SUFFICES ASSUME Inv, ReadHeadEof PROVE Inv'
  OBVIOUS
<1>1. /\ toProxy = <<>> /\ toProxy' = <<>> /\ pc' = "gone"
      /\ UNCHANGED <<sent, bodyDue, buf, cur, mode>>
  BY DEF ReadHeadEof, Leave, clientVars
<1>2. Unread(buf)' = <<>> /\ Reached' = Reached /\ Rising(<<>>, cur, Reached)
  BY <1>1 DEF Unread, Reached, Rising
<1>3. RequestInv'
  BY <1>1, <1>2 DEF Inv, RequestInv
<1>4. ResponseInv'
  BY DEF Inv, ReadHeadEof, Leave, ResponseInv, clientVars, upVars
<1> QED
  BY <1>3, <1>4 DEF Inv

LEMMA ConnectInv == Inv /\ Connect => Inv'
<1> SUFFICES ASSUME Inv, Connect PROVE Inv'
  OBVIOUS
<1> USE DEF Inv, clientVars
<1>1. Whole(<<>>, <<>>, cur)
  BY DEF Whole, BeginsOnce, About, Body
<1>2. RequestInv'
  BY DEF Connect, RequestInv, Unread, Reached
<1>3. ResponseInv'
  BY <1>1 DEF Connect, ResponseInv
<1> QED
  BY <1>2, <1>3

LEMMA ConnectFailsInv == Inv /\ ConnectFails => Inv'
<1> SUFFICES ASSUME Inv, ConnectFails PROVE Inv'
  OBVIOUS
<1> USE DEF Inv, clientVars
<1>1. cur \in Requests /\ cur \in Nat
  BY CurIsRequest, UnreadTyped DEF ConnectFails, ResponseInv
<1>2. Part(cur, "error") \in Parts /\ Part(cur, "error").req = cur
  BY <1>1 DEF Part, Parts
<1>3. got' \in Seq(Parts) /\ Ordered(got') /\ UpTo(got', cur)
  BY <1>1, <1>2, StartDelivered DEF ConnectFails, ResponseInv
<1>4. RequestInv'
  BY DEF ConnectFails, Leave, RequestInv, Unread, Reached
<1>5. ResponseInv'
  BY <1>3 DEF ConnectFails, Leave, ResponseInv
<1> QED
  BY <1>4, <1>5

LEMMA ForwardInv == Inv /\ Forward => Inv'
  BY DEF Inv, Forward, RequestInv, ResponseInv, clientVars, Unread, Reached

\* Behind a head nothing begins; and what follows an interim head is not looked at.
LEMMA ReadRespHeadInv == Inv /\ ReadRespHead => Inv'
<1> SUFFICES ASSUME Inv, ReadRespHead PROVE Inv'
  OBVIOUS
<1> USE DEF Inv, clientVars
<1>1. PICK n \in 1..Len(upOut) :
          LET head == upOut[1]
              rest == SubSeq(upOut, 2, n)
              m    == BodyMode(head)
              now  == IF m = "length" THEN SubSeq(rest, 1, Take(Len(rest), 2)) ELSE <<>>
          IN  /\ upOut' = SubSeq(upOut, n + 1, Len(upOut))
              /\ mode' = m
              /\ left' = IF m = "length" THEN 2 - Len(now) ELSE 0
              /\ buf' = IF m = "chunked" THEN rest ELSE <<>>
              /\ got' = Append(got, head) \o now
              /\ bytesDown' = bytesDown + 1 + Len(now)
              /\ pc' = IF m = "none" \/ (m = "length" /\ Len(now) = 2)
                       THEN "done" ELSE "relay"
  BY DEF ReadRespHead
<1> DEFINE head == upOut[1]
           rest == SubSeq(upOut, 2, n)
           m    == BodyMode(head)
           now  == IF m = "length" THEN SubSeq(rest, 1, Take(Len(rest), 2)) ELSE <<>>
<1>2. /\ upOut' = SubSeq(upOut, n + 1, Len(upOut))
      /\ mode' = m
      /\ buf' = IF m = "chunked" THEN rest ELSE <<>>
      /\ got' = Append(got, head) \o now
      /\ pc' \in {"done", "relay"}
      /\ m = "none" => pc' = "done"
      /\ m = "chunked" => pc' = "relay"
  BY <1>1
<1>3. pc = "respHead" /\ UNCHANGED <<sent, bodyDue, cur, toProxy, upPlan, upState>>
  BY DEF ReadRespHead
<1>4. upOut \in Seq(Parts) /\ Len(upOut) \in Nat /\ DOMAIN upOut = 1..Len(upOut)
      /\ upPlan \in Seq(Parts) /\ upOut # <<>> /\ cur \in Nat
  BY LenProperties, UnreadTyped DEF ReadRespHead, ResponseInv
<1>5. 1 \in 1..Len(upOut) /\ 2 \in 1..Len(upOut) + 1 /\ n \in 0..Len(upOut)
      /\ n + 1 \in 1..Len(upOut) + 1 /\ Len(upOut) \in 0..Len(upOut)
  BY <1>4
<1>6. Whole(upOut, upPlan, cur)
  BY <1>3 DEF ResponseInv
<1>7. head \in Parts /\ head.req = cur
  BY <1>4, <1>5, <1>6, ElementOfSeq DEF Whole, BeginsOnce, About
<1>8. /\ rest \in Seq(Parts)
      /\ \A k \in DOMAIN rest : 
            k \in Nat \ {0} /\ 2 + k - 1 \in DOMAIN upOut /\ rest[k] = upOut[2 + k - 1]
  BY <1>4, <1>5, SubParts
<1>9. /\ upOut' \in Seq(Parts)
      /\ \A k \in DOMAIN upOut' :
            k \in Nat \ {0} /\ n + 1 + k - 1 \in DOMAIN upOut
            /\ upOut'[k] = upOut[n + 1 + k - 1]
  <2> DEFINE tail == SubSeq(upOut, n + 1, Len(upOut))
  <2>1. /\ tail \in Seq(Parts)
        /\ \A k \in DOMAIN tail :
              k \in Nat \ {0} /\ n + 1 + k - 1 \in DOMAIN upOut
              /\ tail[k] = upOut[n + 1 + k - 1]
    BY <1>4, <1>5, SubParts
  <2>2. upOut' = tail
    BY <1>2
  <2> HIDE DEF tail
  <2> QED
    BY <2>1, <2>2
<1>10. upState' \notin {"none", "waiting"}
  BY <1>3, <1>4 DEF ResponseInv
<1>11. Append(got, head) \in Seq(Parts) /\ Ordered(Append(got, head))
       /\ UpTo(Append(got, head), cur)
  BY <1>3, <1>4, <1>7, StartDelivered DEF ResponseInv
<1>12. CASE head.what = "interim"
  <2>1. m = "none"
    BY <1>12 DEF BodyMode
  <2>2. now = <<>> /\ buf' = <<>> /\ pc' = "done"
    BY <1>2, <2>1
  <2>3. got' = Append(got, head)
    BY <1>2, <1>11, <2>2, ConcatEmptySeq
  <2> HIDE DEF head, rest, m, now
  <2>4. RequestInv'
    <3>1. buf' \in Seq(Parts)
      BY <2>2
    <3> QED
      BY <1>3, <2>2, <3>1, RequestKept
  <2>5. ResponseInv'
    BY <1>3, <1>4, <1>9, <1>10, <1>11, <2>2, <2>3 DEF ResponseInv
  <2> QED
    BY <2>4, <2>5
<1>13. CASE head.what # "interim"
  <2>1. /\ \A k \in DOMAIN upOut : k # 1 => upOut[k].what \notin Starts
        /\ \A k \in DOMAIN upOut : upOut[k].req = cur
        /\ Body(upPlan, cur)
    BY <1>4, <1>6, <1>13 DEF Whole, BeginsOnce, About
  <2>2. \A k \in Nat \ {0} : 2 + k - 1 # 1 /\ n + 1 + k - 1 # 1
    BY <1>5
  <2>3. Body(rest, cur) /\ Body(upOut', cur)
    BY <1>8, <1>9, <2>1, <2>2 DEF Body
  <2>4. now \in Seq(Parts) /\ Body(now, cur) /\ buf' \in Seq(Parts) /\ Body(buf', cur)
    <3>1. <<>> \in Seq(Parts) /\ Body(<<>>, cur)
      BY DEF Body
    <3> DEFINE t == SubSeq(rest, 1, Take(Len(rest), 2))
    <3>2. now = (IF m = "length" THEN t ELSE <<>>)
          /\ buf' = IF m = "chunked" THEN rest ELSE <<>>
      BY <1>2
    <3> HIDE DEF rest, m
    <3>3. t \in Seq(Parts) /\ Body(t, cur)
      <4>1. Len(rest) \in Nat
        BY <1>8, LenProperties
      <4>2. 1 \in 1..Len(rest) + 1 /\ Take(Len(rest), 2) \in 0..Len(rest)
        BY <4>1 DEF Take
      <4> QED
        BY <1>8, <2>3, <4>2, SubParts, SubBody
    <3> HIDE DEF t, now
    <3> QED
      BY <1>8, <2>3, <3>1, <3>2, <3>3
  <2> HIDE DEF head, rest, m, now
  <2>5. got' \in Seq(Parts) /\ Ordered(got') /\ UpTo(got', cur)
    BY <1>2, <1>4, <1>11, <2>4, BodyDelivered
  <2>6. RequestInv'
    BY <1>2, <1>3, <2>4, RequestKept
  <2>7. ResponseInv'
    BY <1>2, <1>3, <1>4, <1>9, <1>10, <2>1, <2>3, <2>4, <2>5 DEF ResponseInv
  <2> QED
    BY <2>6, <2>7
<1> QED
  BY <1>12, <1>13

LEMMA RelayPiecesInv == Inv /\ CountInv /\ RelayPieces => Inv'
<1> SUFFICES ASSUME Inv, CountInv, RelayPieces PROVE Inv'
  OBVIOUS
<1> USE DEF Inv, clientVars
<1>1. PICK n \in 1..Len(upOut) :
          LET take == IF mode = "length" THEN Take(n, left) ELSE n IN
          /\ got' = got \o SubSeq(upOut, 1, take)
          /\ upOut' = SubSeq(upOut, n + 1, Len(upOut))
  BY DEF RelayPieces
<1> DEFINE take == IF mode = "length" THEN Take(n, left) ELSE n
<1>2. /\ pc = "relay" /\ pc' \in {"relay", "done"}
      /\ mode # "chunked"
      /\ UNCHANGED <<sent, bodyDue, cur, toProxy, buf, mode, upPlan, upState>>
  BY DEF RelayPieces
<1>3. Body(upOut, cur) /\ Body(buf, cur) /\ buf \in Seq(Parts) /\ upOut \in Seq(Parts)
      /\ Len(upOut) \in Nat /\ buf = <<>> /\ left \in Nat
  BY <1>2, LenProperties DEF RequestInv, ResponseInv, CountInv
<1>4. 1 \in 1..Len(upOut) + 1 /\ n \in 0..Len(upOut) /\ take \in 0..Len(upOut)
      /\ n + 1 \in 1..Len(upOut) + 1 /\ Len(upOut) \in 0..Len(upOut)
  BY <1>3 DEF Take
<1> HIDE DEF take
<1>5. SubSeq(upOut, 1, take) \in Seq(Parts) /\ Body(SubSeq(upOut, 1, take), cur)
  BY <1>3, <1>4, SubParts, SubBody
<1>6. upOut' \in Seq(Parts) /\ Body(upOut', cur)
  BY <1>1, <1>3, <1>4, SubParts, SubBody
<1>7. got' \in Seq(Parts) /\ Ordered(got') /\ UpTo(got', cur')
  BY <1>1, <1>2, <1>5, Relaying DEF take
<1>8. RequestInv'
  BY <1>2, <1>3, RequestKept
<1>9. upState \notin {"none", "waiting"}
  <2>1. upOut # <<>>
    BY DEF RelayPieces
  <2> QED
    BY <2>1 DEF ResponseInv
<1>10. ResponseInv'
  BY <1>2, <1>3, <1>6, <1>7, <1>9 DEF ResponseInv
<1> QED
  BY <1>8, <1>10

\* The accumulator is written out, all of it or up to the terminal chunk.
LEMMA AccWrittenInv ==
    ASSUME Inv, pc = "relay", NEW end \in 0..Len(buf), got' = got \o SubSeq(buf, 1, end),
           buf' = <<>>, pc' \in {"relay", "done"},
           UNCHANGED <<sent, bodyDue, cur, toProxy, upOut, upPlan, upState>>
    PROVE  Inv'
<1> USE DEF Inv
<1>1. Body(buf, cur) /\ buf \in Seq(Parts) /\ Len(buf) \in Nat
  BY LenProperties DEF RequestInv, ResponseInv
<1>2. SubSeq(buf, 1, end) \in Seq(Parts) /\ Body(SubSeq(buf, 1, end), cur)
  <2>1. 1 \in 1..Len(buf) + 1
    BY <1>1
  <2> QED
    BY <1>1, <2>1, SubParts, SubBody
<1>3. got' \in Seq(Parts) /\ Ordered(got') /\ UpTo(got', cur')
  BY <1>2, Relaying
<1>4. buf' \in Seq(Parts) /\ Body(buf', cur)
  BY DEF Body
<1>5. RequestInv'
  BY <1>4, RequestKept
<1>6. ResponseInv'
  BY <1>3, <1>4 DEF ResponseInv
<1> QED
  BY <1>5, <1>6

\* All of the accumulator.
LEMMA AccAll ==
    ASSUME Inv, got' = got \o buf
    PROVE  Len(buf) \in 0..Len(buf) /\ got' = got \o SubSeq(buf, 1, Len(buf))
<1>1. buf \in Seq(Parts) /\ Len(buf) \in Nat
  BY LenProperties DEF Inv, RequestInv
<1> QED
  BY <1>1, SubSeqFull

LEMMA ReadChunksInv == Inv /\ ReadChunks => Inv'
<1> SUFFICES ASSUME Inv, ReadChunks PROVE Inv'
  OBVIOUS
<1> USE DEF Inv, clientVars
<1>1. PICK n \in 1..Len(upOut) : /\ buf' = buf \o SubSeq(upOut, 1, n)
                                 /\ upOut' = SubSeq(upOut, n + 1, Len(upOut))
  BY DEF ReadChunks
<1>2. /\ pc = "relay" /\ mode = "chunked" /\ upOut # <<>>
      /\ UNCHANGED <<sent, bodyDue, cur, toProxy, pc, got, mode, upPlan, upState>>
  BY DEF ReadChunks
<1>3. Body(upOut, cur) /\ Body(buf, cur) /\ buf \in Seq(Parts) /\ upOut \in Seq(Parts)
      /\ Len(upOut) \in Nat
  BY <1>2, LenProperties DEF RequestInv, ResponseInv
<1>4. 1 \in 1..Len(upOut) + 1 /\ n \in 0..Len(upOut)
      /\ n + 1 \in 1..Len(upOut) + 1 /\ Len(upOut) \in 0..Len(upOut)
  BY <1>3
<1>5. SubSeq(upOut, 1, n) \in Seq(Parts) /\ Body(SubSeq(upOut, 1, n), cur)
  BY <1>3, <1>4, SubParts, SubBody
<1>6. upOut' \in Seq(Parts) /\ Body(upOut', cur)
  BY <1>1, <1>3, <1>4, SubParts, SubBody
<1>7. buf' \in Seq(Parts) /\ Body(buf', cur)
  BY <1>1, <1>3, <1>5, ConcatParts, ConcatBody
<1>8. RequestInv'
  BY <1>2, <1>7, RequestKept
<1>9. ResponseInv'
  BY <1>2, <1>6, <1>7 DEF ResponseInv
<1> QED
  BY <1>8, <1>9

\* up is dropped, or its stream is over, and the handler goes on or leaves.
LEMMA UpOverInv ==
    ASSUME Inv, UNCHANGED <<sent, bodyDue, cur, toProxy, buf, got>>, pc # "readHead",
           \/ DropUp /\ (pc' = "gone" \/ (pc = "done" /\ pc' = "readHead"))
           \/ UNCHANGED <<upOut, upPlan, upState>> /\ upState = "fin" /\ pc' = "gone"
    PROVE  Inv'
<1>1. <<>> \in Seq(Parts)
  OBVIOUS
<1>2. RequestInv'
  <2>1. Unread(buf) = toProxy /\ Reached' = Reached
    BY DEF Unread, Reached
  <2>2. Unread(buf)' = toProxy
    <3>1. pc' = "readHead" => buf = <<>>
      BY DEF Inv, RequestInv
    <3>2. Joined(<<>>, toProxy) = toProxy
      BY JoinedEmpty DEF Inv, RequestInv
    <3> QED
      BY <3>1, <3>2 DEF Unread
  <2>3. pc' \notin {"done", "relay"}
    OBVIOUS
  <2> QED
    BY <2>1, <2>2, <2>3 DEF Inv, RequestInv
<1>3. ResponseInv'
  BY <1>1 DEF Inv, ResponseInv, DropUp
<1> QED
  BY <1>2, <1>3 DEF Inv

-----------------------------------------------------------------------------

LEMMA NextInv == Inv /\ CountInv /\ [Next]_vars => Inv'
<1> SUFFICES ASSUME Inv, CountInv, [Next]_vars PROVE Inv'
  OBVIOUS
<1>1. CASE ClientStep
  BY <1>1, SendHeadInv, SendBodyInv, ClientCloseInv DEF ClientStep
<1>2. CASE UpStep
  BY <1>2, ReplyInv, SendInv, CloseInv DEF UpStep
<1>3. CASE ProxyStep
  <2>1. CASE ReadHead \/ ReadHeadEof \/ Connect \/ ConnectFails \/ Forward \/ ReadRespHead
             \/ RelayPieces \/ ReadChunks
    BY <2>1, ReadHeadInv, ReadHeadEofInv, ConnectInv, ConnectFailsInv, ForwardInv,
       ReadRespHeadInv, RelayPiecesInv, ReadChunksInv
  <2>2. CASE RelayLastChunk
    <3>1. PICK end \in DOMAIN buf : got' = got \o SubSeq(buf, 1, end)
      BY <2>2 DEF RelayLastChunk
    <3>2. end \in 0..Len(buf)
      <4>1. DOMAIN buf = 1..Len(buf) /\ Len(buf) \in Nat
        BY LenProperties DEF Inv, RequestInv
      <4> QED
        BY <4>1
    <3> QED
      BY <2>2, <3>1, <3>2, AccWrittenInv DEF RelayLastChunk, clientVars, upVars
  <2>3. CASE FlushChunks
    BY <2>3, AccAll, AccWrittenInv DEF FlushChunks, clientVars, upVars
  <2>4. CASE UpstreamEof
    <3>1. CASE pc = "respHead" /\ Leave /\ UNCHANGED <<got, buf>>
      BY <2>4, <3>1, UpOverInv DEF UpstreamEof, Leave, clientVars, upVars
    <3>2. CASE pc = "relay" /\ got' = got \o buf /\ buf' = <<>> /\ pc' = "done"
      BY <2>4, <3>2, AccAll, AccWrittenInv DEF UpstreamEof, clientVars, upVars
    <3> QED
      BY <2>4, <3>1, <3>2 DEF UpstreamEof
  <2>5. CASE UpstreamReset
    BY <2>5, UpOverInv DEF UpstreamReset, Leave, clientVars
  <2>6. CASE Done
    BY <2>6, UpOverInv DEF Done, Leave, clientVars
  <2> QED
    BY <1>3, <2>1, <2>2, <2>3, <2>4, <2>5, <2>6 DEF ProxyStep
<1>4. CASE UNCHANGED vars
  BY <1>4
  DEF vars, clientVars, proxyVars, upVars, Inv, RequestInv, ResponseInv, Unread, Reached
<1> QED
  BY <1>1, <1>2, <1>3, <1>4 DEF Next

LEMMA InitCountInv == Init => CountInv
  BY DEF Init, CountInv

LEMMA NextCountInv == Inv /\ CountInv /\ [Next]_vars => CountInv'
<1> SUFFICES ASSUME Inv, CountInv, [Next]_vars PROVE CountInv'
  OBVIOUS
<1> USE DEF CountInv, clientVars, proxyVars, upVars
<1>1. CASE ReadRespHead
  <2>1. PICK n \in 1..Len(upOut) :
            LET rest == SubSeq(upOut, 2, n)
                m    == BodyMode(upOut[1])
                now  == IF m = "length" THEN SubSeq(rest, 1, Take(Len(rest), 2)) ELSE <<>>
            IN  /\ left' = IF m = "length" THEN 2 - Len(now) ELSE 0
                /\ bytesDown' = bytesDown + 1 + Len(now)
    BY <1>1 DEF ReadRespHead
  <2> DEFINE rest == SubSeq(upOut, 2, n)
             take == Take(Len(rest), 2)
  <2>2. upOut \in Seq(Parts) /\ Len(upOut) \in Nat
    BY LenProperties DEF Inv, ResponseInv
  <2>3. rest \in Seq(Parts) /\ Len(rest) \in Nat
    <3>1. 2 \in 1..Len(upOut) + 1 /\ n \in 0..Len(upOut)
      BY <2>2
    <3> QED
      BY <2>2, <3>1, SubParts, LenProperties
  <2>4. take \in 0..2 /\ take \in 0..Len(rest)
    BY <2>3 DEF Take
  <2>5. \/ left' = 2 - Len(SubSeq(rest, 1, take))
           /\ bytesDown' = bytesDown + 1 + Len(SubSeq(rest, 1, take))
        \/ left' = 0 /\ bytesDown' = bytesDown + 1 + Len(<<>>)
    BY <2>1
  <2> HIDE DEF rest, take
  <2>6. Len(SubSeq(rest, 1, take)) = take
    BY <2>3, <2>4, PrefixLength
  <2>7. Len(<<>>) = 0
    OBVIOUS
  <2> QED
    BY <2>4, <2>5, <2>6, <2>7
<1>2. CASE RelayPieces
  <2>1. PICK n \in 1..Len(upOut) :
            LET take == IF mode = "length" THEN Take(n, left) ELSE n IN
            /\ bytesDown' = bytesDown + take
            /\ left' = IF mode = "length" THEN left - take ELSE left
    BY <1>2 DEF RelayPieces
  <2>2. Len(upOut) \in Nat
    BY LenProperties DEF Inv, ResponseInv
  <2> QED
    BY <2>1, <2>2 DEF Take
<1>3. CASE RelayLastChunk
  <2>1. PICK end \in DOMAIN buf : bytesDown' = bytesDown + end
    BY <1>3 DEF RelayLastChunk
  <2>2. end \in Nat
    BY LenProperties DEF Inv, RequestInv
  <2> QED
    BY <1>3, <2>1, <2>2 DEF RelayLastChunk
<1>4. CASE FlushChunks
  <2>1. Len(buf) \in Nat
    BY LenProperties DEF Inv, RequestInv
  <2> QED
    BY <1>4, <2>1 DEF FlushChunks
<1>5. CASE ClientStep \/ UpStep \/ UNCHANGED vars
  <2>1. UNCHANGED <<left, bytesDown>>
    BY <1>5 DEF ClientStep, SendHead, SendBody, ClientClose, UpStep, UpReply, UpSend,
                UpClose, vars
  <2> QED
    BY <2>1
<1>6. CASE ReadHead \/ ReadHeadEof \/ Connect \/ ConnectFails \/ Forward \/ ReadChunks
           \/ UpstreamEof \/ UpstreamReset \/ Done
  <2>1. UNCHANGED <<left, bytesDown>>
    BY <1>6 DEF ReadHead, ReadHeadEof, Connect, ConnectFails, Forward, ReadChunks,
                UpstreamEof, UpstreamReset, Done
  <2> QED
    BY <2>1
<1> QED
  BY <1>1, <1>2, <1>3, <1>4, <1>5, <1>6 DEF Next, ProxyStep

\* proxy_server.rs:147-189: on a keep-alive connection responses come in the order of
\* the requests and none begins twice, whether the client pipelines or not and whatever
\* servers truncate, reset, refuse, answer early or send before their heads and behind
\* their responses; and so does the response to a body that is served for a request.
THEOREM ResponsesInOrder == Spec => []InOrder
<1>1. Init => Inv /\ CountInv
  BY InitInv, InitCountInv
<1>2. Inv /\ CountInv /\ [Next]_vars => (Inv /\ CountInv)'
  BY NextInv, NextCountInv
<1>3. Inv => InOrder
  BY InvInOrder DEF Inv
<1> QED
  BY <1>1, <1>2, <1>3, PTL DEF Spec

-----------------------------------------------------------------------------
(* Types.                                                                   *)

\* A server that replied has chosen a framing.
KindInv ==
    /\ clientFin \in BOOLEAN /\ closed \in BOOLEAN /\ keep \in BOOLEAN
    /\ extra \in Seq(Parts) /\ upIn \in Seq(Parts)
    /\ pc \in {"readHead", "connect", "forward", "respHead", "relay", "done", "gone"}
    /\ mode \in FramingKinds
    /\ upState \in {"none", "waiting", "replying", "fin"}
    /\ framing \in [Requests -> FramingKinds \cup {"unanswered", "error"}]
    /\ met \subseteq Hazards
    /\ pc \in {"forward", "respHead"} /\ upState \in {"replying", "fin"} =>
          framing[cur] \in FramingKinds

LEMMA InvTypes == Inv /\ KindInv /\ CountInv => TypeOK
<1> SUFFICES ASSUME Inv, KindInv, CountInv PROVE TypeOK
  OBVIOUS
<1>1. Len(sent) \in Nat /\ Len(sent) <= MaxRequests /\ MaxRequests \in Nat
      /\ cur \in 0..Len(sent) /\ bodyDue \in 0..Len(sent)
  BY UnreadTyped, RequestAssumption DEF RequestAssumption, Inv, RequestInv
<1>2. cur \in Requests \cup {0} /\ bodyDue \in Requests \cup {0}
  BY <1>1 DEF Requests
<1> QED
  BY <1>2 DEF TypeOK, Inv, RequestInv, ResponseInv, KindInv, CountInv

LEMMA InitKindInv == Init => KindInv
<1> SUFFICES ASSUME Init PROVE KindInv
  OBVIOUS
<1>1. framing \in [Requests -> FramingKinds \cup {"unanswered", "error"}]
  BY DEF Init
<1>2. extra \in Seq(Parts) /\ upIn \in Seq(Parts)
  BY DEF Init
<1>3. "none" \in FramingKinds
  BY DEF FramingKinds
<1> QED
  BY <1>1, <1>2, <1>3 DEF Init, KindInv

\* Hazards are met, and none is forgotten.
LEMMA MeetMore ==
    ASSUME NEW kinds, Meet(kinds), met \subseteq Hazards
    PROVE  met' \subseteq Hazards /\ met \subseteq met'
  BY DEF Meet

LEMMA NextKindInv == Inv /\ CountInv /\ KindInv /\ [Next]_vars => KindInv'
<1> SUFFICES ASSUME Inv, CountInv, KindInv, [Next]_vars PROVE KindInv'
  OBVIOUS
<1> USE DEF KindInv, clientVars, proxyVars, upVars
<1>1. CASE ClientStep
  <2>1. UNCHANGED <<pc, cur, keep, extra, mode, upIn, upState, framing, closed>>
        /\ clientFin' \in BOOLEAN
    BY <1>1 DEF ClientStep, SendHead, SendBody, ClientClose
  <2>2. met' \subseteq Hazards
    BY <1>1, MeetMore DEF ClientStep, SendHead, SendBody, ClientClose
  <2> QED
    BY <2>1, <2>2
<1>2. CASE UpReply
  <2>1. PICK f \in Framings : framing' = [framing EXCEPT ![cur] = f]
    BY <1>2 DEF UpReply
  <2>2. f \in FramingKinds
    BY KindAssumption DEF KindAssumption
  <2>3. cur \in Requests
    BY <1>2, CurIsRequest DEF UpReply, Inv, ResponseInv
  <2>4. met' \subseteq Hazards
    BY <1>2, MeetMore DEF UpReply
  <2>5. /\ upState' = "replying"
        /\ UNCHANGED <<pc, cur, keep, extra, mode, upIn, clientFin, closed>>
    BY <1>2 DEF UpReply
  <2>6. framing' \in [Requests -> FramingKinds \cup {"unanswered", "error"}]
        /\ framing'[cur] \in FramingKinds
    BY <2>1, <2>2, <2>3
  <2> QED
    BY <2>4, <2>5, <2>6
<1>3. CASE UpSend
  BY <1>3 DEF UpSend
<1>4. CASE UpClose
  <2>1. met' \subseteq Hazards
    BY <1>4, MeetMore DEF UpClose
  <2> QED
    BY <1>4, <2>1 DEF UpClose
<1>5. CASE ReadHead /\ UNCHANGED met
  <2>1. pc = "readHead" /\ UNCHANGED <<clientFin, mode, upIn, upState, framing>>
    BY <1>5 DEF ReadHead
  <2>2. PICK n \in 1..Len(toProxy) :
            LET raw == Joined(buf, SubSeq(toProxy, 1, n)) IN
            /\ toProxy' = SubSeq(toProxy, n + 1, Len(toProxy))
            /\ \/ UNCHANGED <<pc, closed, cur, extra, keep>>
               \/ \E h \in 1..2 \cap DOMAIN raw :
                  /\ extra' = SubSeq(raw, h + 1, Len(raw))
                  /\ keep' \in BOOLEAN
                  /\ pc' = "connect" /\ UNCHANGED closed
               \/ Leave /\ UNCHANGED <<cur, extra, keep>>
    BY <1>5 DEF ReadHead, Joined
  <2> DEFINE raw == Joined(buf, SubSeq(toProxy, 1, n))
  <2>3. raw \in Seq(Parts) /\ Len(raw) \in Nat /\ DOMAIN raw = 1..Len(raw)
    BY <2>1, <2>2, ReadOn, LenProperties
  <2>4. \/ UNCHANGED <<pc, closed, cur, extra, keep>>
        \/ \E h \in 1..2 \cap DOMAIN raw :
              /\ extra' = SubSeq(raw, h + 1, Len(raw))
              /\ keep' \in BOOLEAN
              /\ pc' = "connect" /\ UNCHANGED closed
        \/ Leave /\ UNCHANGED <<cur, extra, keep>>
    BY <2>2
  <2> HIDE DEF raw
  <2>5. CASE UNCHANGED <<pc, closed, cur, extra, keep>>
    BY <1>5, <2>1, <2>5
  <2>6. ASSUME NEW h \in 1..2 \cap DOMAIN raw,
               extra' = SubSeq(raw, h + 1, Len(raw)), keep' \in BOOLEAN,
               pc' = "connect", UNCHANGED closed
        PROVE  KindInv'
    <3>1. h + 1 \in 1..Len(raw) + 1 /\ Len(raw) \in 0..Len(raw)
      BY <2>3
    <3>2. extra' \in Seq(Parts)
      BY <2>3, <2>6, <3>1, SubParts
    <3> QED
      BY <1>5, <2>1, <2>6, <3>2
  <2>7. CASE Leave /\ UNCHANGED <<cur, extra, keep>>
    BY <1>5, <2>1, <2>7 DEF Leave
  <2> QED
    BY <2>4, <2>5, <2>6, <2>7
<1>6. CASE ReadHeadEof /\ UNCHANGED met
  BY <1>6 DEF ReadHeadEof, Leave
<1>7. CASE Connect /\ UNCHANGED met
  BY <1>7 DEF Connect
<1>8. CASE ConnectFails /\ UNCHANGED met
  BY <1>8 DEF ConnectFails, Leave
<1>9. CASE Forward /\ UNCHANGED met
  <2>1. cur \in Requests
    BY <1>9, CurIsRequest DEF Forward, Inv, ResponseInv
  <2>2. <<RebuildOrigin(cur)>> \in Seq(Parts)
    BY <2>1 DEF RebuildOrigin, Part, Parts
  <2>3. upIn' \in Seq(Parts)
    BY <1>9, <2>2, ConcatProperties DEF Forward
  <2> QED
    BY <1>9, <2>3 DEF Forward
<1>10. CASE ReadRespHead /\ UNCHANGED met
  <2>1. pc = "respHead" /\ upState \in {"replying", "fin"}
    BY <1>10 DEF ReadRespHead, Inv, ResponseInv
  <2>2. \A head : BodyMode(head) \in FramingKinds
    BY <2>1 DEF BodyMode, FramingKinds
  <2>3. mode' \in FramingKinds /\ pc' \in {"done", "relay"}
    BY <1>10, <2>2 DEF ReadRespHead
  <2> QED
    BY <1>10, <2>3 DEF ReadRespHead
<1>11. CASE (RelayPieces \/ RelayLastChunk \/ FlushChunks \/ ReadChunks) /\ UNCHANGED met
  <2>1. pc' \in {"relay", "done"}
    BY <1>11 DEF RelayPieces, RelayLastChunk, FlushChunks, ReadChunks
  <2>2. UNCHANGED <<clientFin, closed, keep, extra, upIn, mode, upState, framing, met>>
    BY <1>11 DEF RelayPieces, RelayLastChunk, FlushChunks, ReadChunks
  <2> QED
    BY <2>1, <2>2
<1>12. CASE UpstreamEof /\ UNCHANGED met
  BY <1>12 DEF UpstreamEof, Leave
<1>13. CASE (UpstreamReset \/ Done) /\ UNCHANGED met
  <2>1. DropUp /\ UNCHANGED <<clientFin, keep, extra, mode, met>>
    BY <1>13 DEF UpstreamReset, Done
  <2>2. pc' \in {"readHead", "gone"} /\ closed' \in BOOLEAN
    BY <1>13 DEF UpstreamReset, Done, Leave
  <2>3. upIn' \in Seq(Parts) /\ upState' = "none" /\ UNCHANGED framing
    BY <2>1 DEF DropUp
  <2> QED
    BY <2>1, <2>2, <2>3
<1>14. CASE UNCHANGED vars
  BY <1>14 DEF vars
<1> QED
  BY <1>1, <1>2, <1>3, <1>4, <1>5, <1>6, <1>7, <1>8, <1>9, <1>10, <1>11, <1>12, <1>13,
     <1>14 DEF Next, UpStep, ProxyStep

\* Each variable of the connection keeps its type: what is left of a body with
\* Content-Length, an unsigned number, never runs below zero, however much of it a server
\* sends and a read takes, because of the min(left) of proxy_server.rs:538 and 552; and
\* the request that is served is one that was sent, or the body of one.
THEOREM TypeCorrect == Spec => []TypeOK
<1>1. Init => Inv /\ CountInv /\ KindInv
  BY InitInv, InitCountInv, InitKindInv
<1>2. Inv /\ CountInv /\ KindInv /\ [Next]_vars => (Inv /\ CountInv /\ KindInv)'
  BY NextInv, NextCountInv, NextKindInv
<1> QED
  BY <1>1, <1>2, InvTypes, PTL DEF Spec

-----------------------------------------------------------------------------
(* Nothing is lost, and everything counted.                                 *)

\* What the client has of a response from part k on, what is held back, in flight and
\* still to come.
Owed(k) == Joined(Joined(Joined(From(got, k), buf), upOut), upPlan)

\* What the client has from part k on is the response to c, and nothing before is.
Behind(s, k, c) == \A m \in DOMAIN s : s[m].req = c <=> m > k

\* `all` of a response is there, or is as far as the server let it get.
Intact(whole, all) ==
    /\ IsPrefix(whole, all)
    /\ upState = "replying" \/ "truncate" \notin met => whole = all

\* ... and the same after a step.
IntactThen(whole, all) ==
    /\ IsPrefix(whole, all)
    /\ upState' = "replying" \/ "truncate" \notin met' => whole = all

Reply(interim, trailer, excess) == Response(cur, framing[cur], interim, trailer, excess)

\* Nothing of the response to c in s says that it is complete.
NoLast(s, c) == \A m \in DOMAIN s : s[m] # Part(c, "last")

\* Until its head is read the whole response is in flight or still to come; while it is
\* relayed the client's part of it goes before.
WholeInv ==
    /\ upState = "fin" => upPlan = <<>>
    /\ pc \in {"forward", "respHead"} /\ upState \in {"replying", "fin"} =>
          \E interim \in BOOLEAN, trailer \in BOOLEAN, excess \in BOOLEAN :
              Intact(Joined(upOut, upPlan), Reply(interim, trailer, excess))
    /\ pc = "relay" => mode = framing[cur] /\ mode # "none" /\ cur # 0
    /\ pc = "relay" /\ mode # "chunked" => buf = <<>>
    /\ pc = "relay" /\ mode = "chunked" => NoLast(got, cur)
    /\ pc = "relay" /\ mode # "close" =>
          \E k \in 0..Len(got), trailer \in BOOLEAN, excess \in BOOLEAN :
              Behind(got, k, cur) /\ Intact(Owed(k), Reply(FALSE, trailer, excess))

\* Until a trailer says that the terminal chunk was not seen, every part is counted.
CountedInv ==
    pc # "gone" /\ "truncate" \notin met /\ (\A m \in DOMAIN got : got[m].what # "trailer") =>
        bytesDown = Len(got)

LEMMA WholeNothingLost == Inv /\ WholeInv => NothingLost
<1> SUFFICES ASSUME Inv, WholeInv, pc = "relay", mode # "close"
             PROVE  \E n \in 0..Len(got), trailer \in BOOLEAN, excess \in BOOLEAN :
                        LET whole == SubSeq(got, n + 1, Len(got)) \o buf \o upOut \o upPlan
                            all   == Response(cur, framing[cur], FALSE, trailer, excess)
                        IN  /\ \A m \in DOMAIN got : got[m].req = cur <=> m > n
                            /\ IsPrefix(whole, all)
                            /\ upState = "replying" => whole = all
  BY DEF NothingLost
<1>1. PICK k \in 0..Len(got), trailer \in BOOLEAN, excess \in BOOLEAN :
          Behind(got, k, cur) /\ Intact(Owed(k), Reply(FALSE, trailer, excess))
  BY DEF WholeInv
<1>2. Owed(k) = SubSeq(got, k + 1, Len(got)) \o buf \o upOut \o upPlan
  BY DEF Owed, Joined, From
<1> QED
  BY <1>1, <1>2 DEF Behind, Intact, Reply

LEMMA InitWholeInv == Init => WholeInv /\ CountedInv
  BY DEF Init, WholeInv, CountedInv

\* A part of what is the beginning of a sequence is the beginning of it too.
LEMMA PrefixOfPrefix ==
    ASSUME NEW S, NEW x \in Seq(S), NEW y \in Seq(S), NEW z \in Seq(S),
           IsPrefix(Joined(x, y), z)
    PROVE  IsPrefix(x, z)
<1> DEFINE w == Joined(x, y)
<1>1. /\ w \in Seq(S) /\ Len(w) = Len(x) + Len(y)
      /\ \A i \in 1..Len(x) + Len(y) : w[i] = IF i <= Len(x) THEN x[i] ELSE y[i - Len(x)]
      /\ Len(x) \in Nat /\ Len(y) \in Nat /\ Len(z) \in Nat
  BY JoinedProperties, LenProperties
<1>2. Len(w) <= Len(z) /\ SubSeq(w, 1, Len(w)) = SubSeq(z, 1, Len(w))
  BY DEF IsPrefix
<1> HIDE DEF w
<1>3. \A i \in 1..Len(w) : w[i] = z[i]
  <2>1. SubSeq(w, 1, Len(w)) = w
    BY <1>1, SubSeqFull
  <2>2. \A i \in 1..Len(w) : z[i] \in S
    BY <1>1, <1>2, ElementOfSeq
  <2>3. \A i \in 1..Len(w) - 1 + 1 : SubSeq(z, 1, Len(w))[i] = z[1 + i - 1]
    BY <2>2, SubSeqProperties
  <2> QED
    BY <1>1, <1>2, <2>1, <2>3
<1>4. Len(x) <= Len(z) /\ \A i \in 1..Len(x) : x[i] = z[i]
  BY <1>1, <1>2, <1>3
<1>5. SubSeq(x, 1, Len(x)) = x
  BY SubSeqFull
<1>6. SubSeq(z, 1, Len(x)) = x
  <2>1. \A i \in 1..Len(x) : z[i] \in S
    BY <1>1, <1>4, ElementOfSeq
  <2>2. /\ SubSeq(z, 1, Len(x)) \in Seq(S)
        /\ Len(SubSeq(z, 1, Len(x))) = IF 1 <= Len(x) THEN Len(x) - 1 + 1 ELSE 0
        /\ \A i \in 1..Len(x) - 1 + 1 : SubSeq(z, 1, Len(x))[i] = z[1 + i - 1]
    BY <2>1, SubSeqProperties
  <2>3. Len(SubSeq(z, 1, Len(x))) = Len(x)
    BY <1>1, <2>2
  <2>4. \A i \in 1..Len(x) : SubSeq(z, 1, Len(x))[i] = x[i]
    BY <1>1, <1>4, <2>2
  <2> QED
    BY <2>2, <2>3, <2>4, SeqEqual
<1> QED
  BY <1>4, <1>5, <1>6 DEF IsPrefix

\* A prefix that is not empty begins with the same part.
LEMMA PrefixFirst ==
    ASSUME NEW S, NEW x \in Seq(S), NEW z \in Seq(S), IsPrefix(x, z), x # <<>>
    PROVE  x[1] = z[1]
<1>1. Len(x) \in Nat \ {0} /\ Len(z) \in Nat /\ Len(x) <= Len(z)
  BY LenProperties, EmptySeq DEF IsPrefix
<1>2. 1 \in 1..Len(x) - 1 + 1 /\ 1 + 1 - 1 = 1
  BY <1>1
<1>3. (\A i \in 1..Len(x) : x[i] \in S) /\ (\A i \in 1..Len(x) : z[i] \in S)
  BY <1>1, ElementOfSeq
<1>4. \A i \in 1..Len(x) - 1 + 1 : /\ SubSeq(x, 1, Len(x))[i] = x[1 + i - 1]
                                   /\ SubSeq(z, 1, Len(x))[i] = z[1 + i - 1]
  BY <1>3, SubSeqProperties
<1>5. SubSeq(x, 1, Len(x)) = SubSeq(z, 1, Len(x))
  BY DEF IsPrefix
<1> QED
  BY <1>2, <1>4, <1>5

LEMMA SameIsPrefix ==
    ASSUME NEW S, NEW s \in Seq(S)
    PROVE  IsPrefix(s, s)
  BY LenProperties DEF IsPrefix

\* A response begins with a head, and a chunked one has its terminal chunk or trailer
\* fields.
LEMMA ResponseEnds ==
    ASSUME NEW c \in Requests, NEW f, NEW interim \in BOOLEAN, NEW trailer \in BOOLEAN,
           NEW excess \in BOOLEAN
    PROVE  LET all == Response(c, f, interim, trailer, excess) IN
           /\ all[1] = Part(c, IF interim THEN "interim" ELSE "head")
           /\ f = "chunked" =>
                 \E e \in 1..Len(all) :
                    all[e] = Part(c, IF trailer THEN "trailer" ELSE "last")
<1> DEFINE first  == IF interim THEN <<Part(c, "interim")>> ELSE <<>>
           head   == <<Part(c, "head")>>
           pieces == IF f = "none" THEN <<>> ELSE <<Part(c, "piece"), Part(c, "piece")>>
           end    == IF f # "chunked" THEN <<>>
                     ELSE <<IF trailer THEN Part(c, "trailer") ELSE Part(c, "last")>>
           more   == IF excess THEN <<Part(c, "excess")>> ELSE <<>>
           begun  == first \o head
           main   == begun \o pieces
           ended  == main \o end
           all    == ended \o more
<1>1. Response(c, f, interim, trailer, excess) = all
  BY DEF Response
<1>2. first \in Seq(Parts) /\ head \in Seq(Parts) /\ pieces \in Seq(Parts)
      /\ end \in Seq(Parts) /\ more \in Seq(Parts)
  <2>1. \A what \in {"head", "interim", "piece", "last", "trailer", "excess"} :
            Part(c, what) \in Parts
    BY DEF Part, Parts
  <2> QED
    BY <2>1
<1>3. /\ head # <<>> /\ head[1] = Part(c, "head")
      /\ interim => first # <<>> /\ first[1] = Part(c, "interim")
      /\ ~interim => first = <<>>
  OBVIOUS
<1>4. f = "chunked" => Len(end) = 1
                       /\ end[1] = Part(c, IF trailer THEN "trailer" ELSE "last")
  OBVIOUS
<1> HIDE DEF first, head, pieces, end, more
<1>5. begun \in Seq(Parts) /\ begun # <<>>
  BY <1>2, <1>3, ConcatParts, ConcatEqualIffEmpty
<1>6. begun[1] = Part(c, IF interim THEN "interim" ELSE "head")
  <2>1. CASE interim
    BY <1>2, <1>3, <2>1, ConcatParts
  <2>2. CASE ~interim
    BY <1>2, <1>3, <2>2, ConcatEmptySeq
  <2> QED
    BY <2>1, <2>2
<1> HIDE DEF begun
<1>7. main \in Seq(Parts) /\ main # <<>> /\ main[1] = begun[1]
  BY <1>2, <1>5, ConcatParts, ConcatEqualIffEmpty
<1> HIDE DEF main
<1>8. ended \in Seq(Parts) /\ ended # <<>> /\ ended[1] = main[1]
  BY <1>2, <1>7, ConcatParts, ConcatEqualIffEmpty
<1>9. ASSUME f = "chunked"
      PROVE  Len(ended) \in Nat \ {0} /\ ended[Len(ended)] = end[1]
  <2>1. Len(ended) = Len(main) + Len(end) /\ Len(main) \in Nat /\ Len(end) = 1
    BY <1>2, <1>4, <1>7, <1>9, ConcatProperties, LenProperties
  <2>2. Len(ended) \in 1..Len(main) + Len(end) /\ ~(Len(ended) <= Len(main))
        /\ Len(ended) - Len(main) = 1
    BY <2>1
  <2>3. \A i \in 1..Len(main) + Len(end) :
           ended[i] = IF i <= Len(main) THEN main[i] ELSE end[i - Len(main)]
    BY <1>2, <1>7, ConcatProperties
  <2>4. ended[Len(ended)] = end[1]
    BY <2>2, <2>3
  <2> HIDE DEF ended
  <2> QED
    BY <2>1, <2>2, <2>4
<1> HIDE DEF ended
<1>10. all[1] = ended[1]
  BY <1>2, <1>8, ConcatParts
<1>11. ASSUME f = "chunked"
       PROVE  Len(ended) \in 1..Len(all) /\ all[Len(ended)] = end[1]
  <2>1. Len(all) = Len(ended) + Len(more) /\ Len(ended) \in Nat \ {0} /\ Len(more) \in Nat
    BY <1>2, <1>8, <1>9, <1>11, ConcatProperties, LenProperties
  <2>2. Len(ended) \in 1..Len(ended) + Len(more) /\ Len(ended) <= Len(ended)
    BY <2>1
  <2>3. \A i \in 1..Len(ended) + Len(more) :
           all[i] = IF i <= Len(ended) THEN ended[i] ELSE more[i - Len(ended)]
    BY <1>2, <1>8, ConcatProperties
  <2>4. all[Len(ended)] = ended[Len(ended)]
    BY <2>2, <2>3
  <2> HIDE DEF all
  <2> QED
    BY <1>9, <1>11, <2>1, <2>2, <2>4
<1> HIDE DEF all
<1> QED
  BY <1>1, <1>4, <1>6, <1>7, <1>8, <1>10, <1>11

LEMMA PartsTyped ==
    Inv => /\ got \in Seq(Parts) /\ buf \in Seq(Parts) /\ upOut \in Seq(Parts)
           /\ upPlan \in Seq(Parts)
           /\ Len(got) \in Nat /\ Len(buf) \in Nat /\ Len(upOut) \in Nat
           /\ Len(upPlan) \in Nat
  BY LenProperties DEF Inv, RequestInv, ResponseInv

\* What the current response is still made of, in sequences of parts.
LEMMA OwedTyped ==
    ASSUME Inv, NEW k \in 0..Len(got)
    PROVE  /\ From(got, k) \in Seq(Parts)
           /\ Joined(From(got, k), buf) \in Seq(Parts)
           /\ Joined(Joined(From(got, k), buf), upOut) \in Seq(Parts)
           /\ Owed(k) \in Seq(Parts)
<1>1. /\ got \in Seq(Parts) /\ buf \in Seq(Parts) /\ upOut \in Seq(Parts)
      /\ upPlan \in Seq(Parts)
  BY PartsTyped
<1>2. From(got, k) \in Seq(Parts)
  BY <1>1, FromProperties
<1>3. Joined(From(got, k), buf) \in Seq(Parts)
  BY <1>1, <1>2, JoinedProperties
<1>4. Joined(Joined(From(got, k), buf), upOut) \in Seq(Parts)
  BY <1>1, <1>3, JoinedProperties
<1>5. Owed(k) \in Seq(Parts)
  BY <1>1, <1>4, JoinedProperties DEF Owed
<1> QED
  BY <1>2, <1>3, <1>4, <1>5

\* Parts of the current response go behind those the client has of it.
LEMMA BehindMore ==
    ASSUME NEW g \in Seq(Parts), NEW t \in Seq(Parts), NEW k \in 0..Len(g), NEW c,
           Behind(g, k, c), About(t, c)
    PROVE  /\ Behind(Joined(g, t), k, c) /\ k \in 0..Len(Joined(g, t))
           /\ From(Joined(g, t), k) = Joined(From(g, k), t)
<1>1. Len(g) \in Nat /\ Len(t) \in Nat /\ Len(Joined(g, t)) = Len(g) + Len(t)
      /\ Joined(g, t) \in Seq(Parts)
  BY LenProperties, JoinedProperties
<1>2. k \in 0..Len(Joined(g, t))
  BY <1>1
<1>3. DOMAIN Joined(g, t) = 1..Len(g) + Len(t)
  BY <1>1, LenProperties
<1>4. ASSUME NEW m \in 1..Len(g) + Len(t)
      PROVE  Joined(g, t)[m].req = c <=> m > k
  <2>1. Joined(g, t)[m] = IF m <= Len(g) THEN g[m] ELSE t[m - Len(g)]
    BY JoinedProperties
  <2>2. CASE m <= Len(g)
    <3>1. m \in DOMAIN g
      BY <1>1, <2>2, LenProperties
    <3> QED
      BY <2>1, <2>2, <3>1 DEF Behind
  <2>3. CASE ~(m <= Len(g))
    <3>1. m - Len(g) \in 1..Len(t) /\ m > k
      BY <1>1, <2>3
    <3>2. m - Len(g) \in DOMAIN t
      BY <3>1, LenProperties
    <3> QED
      BY <2>1, <2>3, <3>1, <3>2 DEF About
  <2> QED
    BY <2>2, <2>3
<1> QED
  BY <1>2, <1>3, <1>4, FromJoined DEF Behind

LEMMA NoLastMore ==
    ASSUME NEW g \in Seq(Parts), NEW t \in Seq(Parts), NEW c, NoLast(g, c), NoLast(t, c)
    PROVE  NoLast(Joined(g, t), c)
  BY ConcatParts DEF NoLast, Joined

\* The invariant after a step, from what it says before the step.
LEMMA WholeThen ==
    ASSUME UNCHANGED <<cur, framing>>,
           upState' = "fin" => upPlan' = <<>>,
           pc' = "relay",
           mode' = framing[cur] /\ mode' # "none" /\ cur # 0,
           mode' # "chunked" => buf' = <<>>,
           mode' = "chunked" => NoLast(got', cur),
           mode' # "close" => \E k \in 0..Len(got'), trailer \in BOOLEAN, excess \in BOOLEAN :
               Behind(got', k, cur) /\ IntactThen(Owed(k)', Reply(FALSE, trailer, excess))
    PROVE  WholeInv'
<1>1. ASSUME mode' # "close"
      PROVE  \E k \in 0..Len(got'), trailer \in BOOLEAN, excess \in BOOLEAN :
                 Behind(got', k, cur') /\ Intact(Owed(k), Reply(FALSE, trailer, excess))'
  <2>1. PICK k \in 0..Len(got'), trailer \in BOOLEAN, excess \in BOOLEAN :
            Behind(got', k, cur) /\ IntactThen(Owed(k)', Reply(FALSE, trailer, excess))
    BY <1>1
  <2>2. Reply(FALSE, trailer, excess)' = Reply(FALSE, trailer, excess)
    BY DEF Reply
  <2>3. Intact(Owed(k), Reply(FALSE, trailer, excess))'
    BY <2>1, <2>2 DEF Intact, IntactThen
  <2>4. Behind(got', k, cur')
    BY <2>1
  <2> QED
    BY <2>3, <2>4
<1> QED
  BY <1>1 DEF WholeInv

\* The same while the response's head was not read.
LEMMA HeadThen ==
    ASSUME UNCHANGED <<cur, framing>>,
           upState' = "fin" => upPlan' = <<>>,
           pc' \in {"forward", "respHead"},
           NEW interim \in BOOLEAN, NEW trailer \in BOOLEAN, NEW excess \in BOOLEAN,
           IntactThen(Joined(upOut', upPlan'), Reply(interim, trailer, excess))
    PROVE  WholeInv'
<1>1. Reply(interim, trailer, excess)' = Reply(interim, trailer, excess)
  BY DEF Reply
<1>2. Intact(Joined(upOut, upPlan), Reply(interim, trailer, excess))'
  BY <1>1 DEF Intact, IntactThen
<1>3. \E i, t, e \in BOOLEAN : Intact(Joined(upOut, upPlan), Reply(i, t, e))'
  BY <1>2, Zenon
<1> QED
  BY <1>3 DEF WholeInv

LEMMA ReplyWhole == Inv /\ KindInv /\ UpReply => WholeInv'
<1> SUFFICES ASSUME Inv, KindInv, UpReply PROVE WholeInv'
  OBVIOUS
<1>1. PICK f \in Framings, interim \in BOOLEAN, trailer \in BOOLEAN, excess \in BOOLEAN :
          /\ upPlan' = Response(cur, f, interim, trailer, excess)
          /\ framing' = [framing EXCEPT ![cur] = f]
  BY DEF UpReply
<1>2. pc' = pc /\ pc \in {"forward", "respHead"} /\ upOut' = <<>> /\ cur' = cur
      /\ cur \in Requests /\ upState' = "replying"
  BY CurIsRequest DEF UpReply, Inv, ResponseInv, proxyVars
<1>3. framing'[cur'] = f
  BY <1>1, <1>2 DEF KindInv
<1>4. upPlan' \in Seq(Parts)
  BY <1>1, <1>2, ResponseBegins
<1>5. upPlan' = Reply(interim, trailer, excess)'
  BY <1>1, <1>2, <1>3 DEF Reply
<1>6. Joined(upOut', upPlan') = upPlan' /\ IsPrefix(upPlan', upPlan')
  BY <1>2, <1>4, JoinedEmpty, SameIsPrefix
<1>7. Intact(Joined(upOut, upPlan), Reply(interim, trailer, excess))'
  BY <1>5, <1>6 DEF Intact
<1> QED
  BY <1>2, <1>7 DEF WholeInv

LEMMA SendWhole == Inv /\ WholeInv /\ UpSend => WholeInv'
<1> SUFFICES ASSUME Inv, WholeInv, UpSend PROVE WholeInv'
  OBVIOUS
<1>1. /\ upPlan # <<>> /\ upOut' = Append(upOut, Head(upPlan)) /\ upPlan' = Tail(upPlan)
      /\ UNCHANGED <<pc, cur, got, buf, mode, upState, framing, met>> /\ upState = "replying"
  BY DEF UpSend, proxyVars
<1>2. /\ got \in Seq(Parts) /\ buf \in Seq(Parts) /\ upOut \in Seq(Parts)
      /\ upPlan \in Seq(Parts)
  BY PartsTyped
<1>3. Joined(upOut', upPlan') = Joined(upOut, upPlan)
  BY <1>1, <1>2, NextMoved
<1>4. ASSUME NEW k \in 0..Len(got) PROVE Owed(k)' = Owed(k)
  <2> DEFINE x == Joined(From(got, k), buf)
  <2>1. x \in Seq(Parts) /\ Joined(x, upOut) \in Seq(Parts) /\ Head(upPlan) \in Parts
    BY <1>1, <1>2, OwedTyped, HeadTailProperties
  <2> DEFINE p == Head(upPlan)
  <2> HIDE DEF x, p
  <2>2. Joined(x, upOut') = Append(Joined(x, upOut), Head(upPlan))
    <3>1. p \in Parts /\ upOut' = Append(upOut, p)
      BY <1>1, <2>1 DEF p
    <3>2. Append(Joined(x, upOut), p) = Joined(x, Append(upOut, p))
      BY <1>2, <2>1, <3>1, AppendInFlight
    <3> QED
      BY <3>1, <3>2 DEF p
  <2>3. Joined(Append(Joined(x, upOut), Head(upPlan)), Tail(upPlan))
          = Joined(Joined(x, upOut), upPlan)
    BY <1>1, <1>2, <2>1, NextMoved
  <2>4. Owed(k)' = Joined(Joined(x, upOut'), upPlan')
    BY <1>1 DEF Owed, x
  <2>5. Owed(k) = Joined(Joined(x, upOut), upPlan)
    BY DEF Owed, x
  <2> QED
    BY <1>1, <2>2, <2>3, <2>4, <2>5
<1>5. \A whole, all : Intact(whole, all) => IntactThen(whole, all)
  BY <1>1 DEF Intact, IntactThen
<1>6. CASE pc \in {"forward", "respHead"}
  <2>1. PICK interim \in BOOLEAN, trailer \in BOOLEAN, excess \in BOOLEAN :
            Intact(Joined(upOut, upPlan), Reply(interim, trailer, excess))
    BY <1>1, <1>6 DEF WholeInv
  <2> QED
    BY <1>1, <1>3, <1>5, <1>6, <2>1, HeadThen
<1>7. CASE pc = "relay"
  <2>1. ASSUME mode # "close"
        PROVE  \E k \in 0..Len(got'), trailer \in BOOLEAN, excess \in BOOLEAN :
                   Behind(got', k, cur) /\ IntactThen(Owed(k)', Reply(FALSE, trailer, excess))
    <3>1. PICK k \in 0..Len(got), trailer \in BOOLEAN, excess \in BOOLEAN :
              Behind(got, k, cur) /\ Intact(Owed(k), Reply(FALSE, trailer, excess))
      BY <1>7, <2>1 DEF WholeInv
    <3> QED
      BY <1>1, <1>4, <1>5, <3>1
  <2> QED
    BY <1>1, <1>7, <2>1, WholeThen DEF WholeInv
<1>8. CASE pc \notin {"forward", "respHead", "relay"}
  BY <1>1, <1>8 DEF WholeInv
<1> QED
  BY <1>6, <1>7, <1>8

LEMMA CloseWhole == Inv /\ WholeInv /\ UpClose => WholeInv'
<1> SUFFICES ASSUME Inv, WholeInv, UpClose PROVE WholeInv'
  OBVIOUS
<1>1. /\ UNCHANGED <<pc, cur, got, buf, mode, upOut, framing>> /\ upState = "replying"
      /\ upPlan' = <<>> /\ upState' = "fin"
      /\ (upPlan = <<>> /\ UNCHANGED met) \/ "truncate" \in met'
  BY DEF UpClose, Meet, proxyVars
<1>2. /\ got \in Seq(Parts) /\ buf \in Seq(Parts) /\ upOut \in Seq(Parts)
      /\ upPlan \in Seq(Parts)
  BY PartsTyped
<1>3. ASSUME NEW x \in Seq(Parts), NEW all, Intact(Joined(x, upPlan), all)
      PROVE  IntactThen(Joined(x, upPlan'), all)
  <2>1. Joined(x, upPlan') = x
    BY <1>1, <1>3, JoinedEmpty
  <2>2. Joined(x, upPlan) = all /\ IsPrefix(Joined(x, upPlan), all)
    BY <1>1, <1>3 DEF Intact
  <2>3. IsPrefix(x, all)
    <3>1. all \in Seq(Parts)
      BY <1>2, <2>2, JoinedProperties
    <3> QED
      BY <1>2, <2>2, <3>1, PrefixOfPrefix
  <2>4. CASE upPlan = <<>>
    <3>1. x = all
      BY <1>1, <2>1, <2>2, <2>4
    <3> QED
      BY <2>1, <2>3, <3>1 DEF IntactThen
  <2>5. CASE "truncate" \in met'
    BY <1>1, <2>1, <2>3, <2>5 DEF IntactThen
  <2> QED
    BY <1>1, <2>4, <2>5
<1>4. CASE pc \in {"forward", "respHead"}
  <2>1. PICK interim \in BOOLEAN, trailer \in BOOLEAN, excess \in BOOLEAN :
            Intact(Joined(upOut, upPlan), Reply(interim, trailer, excess))
    BY <1>1, <1>4 DEF WholeInv
  <2>2. IntactThen(Joined(upOut', upPlan'), Reply(interim, trailer, excess))
    BY <1>1, <1>2, <1>3, <2>1
  <2> QED
    BY <1>1, <1>4, <2>2, HeadThen
<1>5. CASE pc = "relay"
  <2>1. ASSUME mode # "close"
        PROVE  \E k \in 0..Len(got'), trailer \in BOOLEAN, excess \in BOOLEAN :
                   Behind(got', k, cur) /\ IntactThen(Owed(k)', Reply(FALSE, trailer, excess))
    <3>1. PICK k \in 0..Len(got), trailer \in BOOLEAN, excess \in BOOLEAN :
              Behind(got, k, cur) /\ Intact(Owed(k), Reply(FALSE, trailer, excess))
      BY <1>5, <2>1 DEF WholeInv
    <3> DEFINE x == Joined(Joined(From(got, k), buf), upOut)
    <3>2. x \in Seq(Parts) /\ Owed(k) = Joined(x, upPlan) /\ Owed(k)' = Joined(x, upPlan')
      BY <1>1, OwedTyped DEF Owed
    <3> HIDE DEF x
    <3>3. IntactThen(Owed(k)', Reply(FALSE, trailer, excess))
      BY <1>3, <3>1, <3>2
    <3> QED
      BY <1>1, <3>1, <3>3
  <2> QED
    BY <1>1, <1>5, <2>1, WholeThen DEF WholeInv
<1>6. CASE pc \notin {"forward", "respHead", "relay"}
  BY <1>1, <1>6 DEF WholeInv
<1> QED
  BY <1>4, <1>5, <1>6

\* Before its head is read nothing happens to a response but what the server does.
LEMMA HeadKept ==
    ASSUME WholeInv, UNCHANGED <<cur, framing, upOut, upPlan, upState>>,
           "truncate" \in met' <=> "truncate" \in met,
           pc \in {"forward", "respHead"}, pc' \in {"forward", "respHead"}
    PROVE  WholeInv'
<1>1. upState \in {"replying", "fin"} =>
          \E i, t, e \in BOOLEAN : Intact(Joined(upOut, upPlan), Reply(i, t, e))'
  <2>1. SUFFICES ASSUME upState \in {"replying", "fin"}
                 PROVE  \E i, t, e \in BOOLEAN : Intact(Joined(upOut, upPlan), Reply(i, t, e))'
    OBVIOUS
  <2>2. PICK i \in BOOLEAN, t \in BOOLEAN, e \in BOOLEAN :
            Intact(Joined(upOut, upPlan), Reply(i, t, e))
    BY <2>1 DEF WholeInv
  <2>3. Reply(i, t, e)' = Reply(i, t, e)
    BY DEF Reply
  <2>4. Intact(Joined(upOut, upPlan), Reply(i, t, e))'
    BY <2>2, <2>3 DEF Intact
  <2> QED
    BY <2>4, Zenon
<1> QED
  BY <1>1 DEF WholeInv

\* No response is under way after the step.
LEMMA NoneUnderWay ==
    ASSUME upState' = "fin" => upPlan' = <<>>,
           pc' \notin {"forward", "respHead", "relay"}
    PROVE  WholeInv'
  BY DEF WholeInv

\* A step that leaves the response alone.
LEMMA WholeKept ==
    ASSUME WholeInv, UNCHANGED <<pc, cur, got, buf, mode, upOut, upPlan, upState, framing>>,
           "truncate" \in met' <=> "truncate" \in met
    PROVE  WholeInv'
<1>1. CASE pc \in {"forward", "respHead"}
  BY <1>1, HeadKept
<1>2. CASE pc = "relay"
  <2>1. ASSUME mode # "close"
        PROVE  \E k \in 0..Len(got'), trailer \in BOOLEAN, excess \in BOOLEAN :
                   Behind(got', k, cur) /\ IntactThen(Owed(k)', Reply(FALSE, trailer, excess))
    <3>1. PICK k \in 0..Len(got), trailer \in BOOLEAN, excess \in BOOLEAN :
              Behind(got, k, cur) /\ Intact(Owed(k), Reply(FALSE, trailer, excess))
      BY <1>2, <2>1 DEF WholeInv
    <3>2. Owed(k)' = Owed(k)
      BY DEF Owed
    <3> QED
      BY <3>1, <3>2 DEF Intact, IntactThen
  <2> QED
    BY <1>2, <2>1, WholeThen DEF WholeInv
<1>3. CASE pc \notin {"forward", "respHead", "relay"}
  BY <1>3, NoneUnderWay DEF WholeInv
<1> QED
  BY <1>1, <1>2, <1>3

\* One read() of the current response goes where it belongs, to the client or the
\* accumulator.
LEMMA RelayPiecesWhole ==
    Inv /\ CountInv /\ WholeInv /\ RelayPieces /\ UNCHANGED met => WholeInv'
<1> SUFFICES ASSUME Inv, CountInv, WholeInv, RelayPieces, UNCHANGED met PROVE WholeInv'
  OBVIOUS
<1>1. PICK n \in 1..Len(upOut) :
          LET take == IF mode = "length" THEN Take(n, left) ELSE n IN
          /\ got' = got \o SubSeq(upOut, 1, take)
          /\ upOut' = SubSeq(upOut, n + 1, Len(upOut))
          /\ pc' = IF mode = "length" /\ left = take THEN "done" ELSE pc
  BY DEF RelayPieces
<1>2. /\ pc = "relay" /\ mode \in {"length", "close"} /\ pc' \in {"relay", "done"}
      /\ UNCHANGED <<cur, buf, mode, upPlan, upState, framing, met>>
  BY DEF RelayPieces
<1>3. CASE pc' = "done"
  BY <1>2, <1>3, NoneUnderWay DEF WholeInv
<1>4. CASE pc' = "relay"
  <2>1. /\ got \in Seq(Parts) /\ upOut \in Seq(Parts) /\ upPlan \in Seq(Parts)
        /\ Body(upOut, cur) /\ buf = <<>>
    BY <1>2, PartsTyped DEF Inv, ResponseInv, WholeInv
  <2> DEFINE read == SubSeq(upOut, 1, n)
  <2>2. read \in Seq(Parts) /\ About(read, cur)
    <3>1. 1 \in 1..Len(upOut) + 1 /\ n \in 0..Len(upOut)
      BY <2>1, LenProperties
    <3> QED
      BY <2>1, <3>1, SubParts DEF Body, About
  <2> HIDE DEF read
  <2>3. got' = Joined(got, read) /\ upOut' = From(upOut, n)
    <3>1. mode = "length" => Take(n, left) = n
      <4>1. left \in Nat /\ n \in Nat
        BY <2>1, LenProperties DEF CountInv
      <4>2. mode = "length" => left # Take(n, left)
        BY <1>1, <1>4
      <4> QED
        BY <4>1, <4>2 DEF Take
    <3> QED
      BY <1>1, <3>1 DEF Joined, From, read
  <2>4. ASSUME mode # "close"
        PROVE  \E k \in 0..Len(got'), trailer \in BOOLEAN, excess \in BOOLEAN :
                   Behind(got', k, cur) /\ IntactThen(Owed(k)', Reply(FALSE, trailer, excess))
    <3>1. PICK k \in 0..Len(got), trailer \in BOOLEAN, excess \in BOOLEAN :
              Behind(got, k, cur) /\ Intact(Owed(k), Reply(FALSE, trailer, excess))
      BY <1>2, <2>4 DEF WholeInv
    <3> DEFINE had == From(got, k)
    <3>2. had \in Seq(Parts)
      BY <2>1, FromProperties
    <3>3. /\ Behind(got', k, cur) /\ k \in 0..Len(got')
          /\ From(got', k) = Joined(had, read)
      BY <2>1, <2>2, <2>3, <3>1, BehindMore
    <3>4. Joined(had, <<>>) = had /\ Joined(Joined(had, read), <<>>) = Joined(had, read)
      BY <2>2, <3>2, JoinedEmpty, JoinedProperties
    <3> HIDE DEF had
    <3>5. Joined(Joined(had, read), upOut') = Joined(had, upOut)
      BY <2>1, <2>3, <3>2, Moved DEF read
    <3>6. Owed(k) = Joined(Joined(had, upOut), upPlan)
      BY <2>1, <3>4 DEF Owed, had
    <3>7. Owed(k)' = Joined(Joined(Joined(had, read), upOut'), upPlan)
      BY <1>2, <2>1, <3>3, <3>4 DEF Owed
    <3>8. IntactThen(Owed(k)', Reply(FALSE, trailer, excess))
      BY <1>2, <3>1, <3>5, <3>6, <3>7 DEF Intact, IntactThen
    <3> QED
      BY <3>3, <3>8
  <2> QED
    BY <1>2, <1>4, <2>1, <2>4, WholeThen DEF WholeInv
<1> QED
  BY <1>2, <1>3, <1>4

LEMMA FlushWhole == Inv /\ WholeInv /\ FlushChunks /\ UNCHANGED met => WholeInv'
<1> SUFFICES ASSUME Inv, WholeInv, FlushChunks, UNCHANGED met PROVE WholeInv'
  OBVIOUS
<1>1. /\ pc = "relay" /\ mode = "chunked" /\ got' = got \o buf /\ buf' = <<>>
      /\ ~FindChunkEnd(buf)
      /\ UNCHANGED <<pc, cur, mode, upOut, upPlan, upState, framing, met>>
  BY DEF FlushChunks, upVars
<1>2. /\ got \in Seq(Parts) /\ buf \in Seq(Parts) /\ About(buf, cur) /\ NoLast(got, cur)
  BY <1>1, PartsTyped DEF Inv, ResponseInv, WholeInv, Body, About
<1>3. got' = Joined(got, buf)
  BY <1>1 DEF Joined
<1>4. NoLast(got', cur)
  <2>1. NoLast(buf, cur)
    BY <1>1 DEF FindChunkEnd, ToSet, NoLast
  <2> QED
    BY <1>2, <1>3, <2>1, NoLastMore
<1>5. PICK k \in 0..Len(got), trailer \in BOOLEAN, excess \in BOOLEAN :
          Behind(got, k, cur) /\ Intact(Owed(k), Reply(FALSE, trailer, excess))
  BY <1>1 DEF WholeInv
<1>6. /\ Behind(got', k, cur) /\ k \in 0..Len(got')
      /\ From(got', k) = Joined(From(got, k), buf)
  BY <1>2, <1>3, <1>5, BehindMore
<1>7. Joined(From(got', k), buf') = Joined(From(got, k), buf)
  <2>1. Joined(From(got, k), buf) \in Seq(Parts)
    BY <1>2, FromProperties, JoinedProperties
  <2> QED
    BY <1>1, <1>6, <2>1, JoinedEmpty
<1>8. Owed(k)' = Owed(k)
  BY <1>1, <1>7 DEF Owed
<1>9. IntactThen(Owed(k)', Reply(FALSE, trailer, excess))
  BY <1>1, <1>5, <1>8 DEF Intact, IntactThen
<1> QED
  BY <1>1, <1>4, <1>6, <1>9, WholeThen DEF WholeInv

LEMMA ReadChunksWhole == Inv /\ WholeInv /\ ReadChunks /\ UNCHANGED met => WholeInv'
<1> SUFFICES ASSUME Inv, WholeInv, ReadChunks, UNCHANGED met PROVE WholeInv'
  OBVIOUS
<1>1. PICK n \in 1..Len(upOut) : /\ buf' = buf \o SubSeq(upOut, 1, n)
                                 /\ upOut' = SubSeq(upOut, n + 1, Len(upOut))
  BY DEF ReadChunks
<1>2. /\ pc = "relay" /\ mode = "chunked"
      /\ UNCHANGED <<pc, cur, got, mode, upPlan, upState, framing, met>>
  BY DEF ReadChunks
<1>3. /\ got \in Seq(Parts) /\ buf \in Seq(Parts) /\ upOut \in Seq(Parts)
      /\ upPlan \in Seq(Parts)
  BY PartsTyped
<1>4. PICK k \in 0..Len(got), trailer \in BOOLEAN, excess \in BOOLEAN :
          Behind(got, k, cur) /\ Intact(Owed(k), Reply(FALSE, trailer, excess))
  BY <1>2 DEF WholeInv
<1> DEFINE had  == From(got, k)
           read == SubSeq(upOut, 1, n)
<1>5. had \in Seq(Parts)
  BY <1>3, FromProperties
<1>6. read \in Seq(Parts)
  <2>1. 1 \in 1..Len(upOut) + 1 /\ n \in 0..Len(upOut)
    BY <1>3, LenProperties
  <2> QED
    BY <1>3, <2>1, SubParts
<1>7. Owed(k) = Joined(Joined(Joined(had, buf), upOut), upPlan)
  BY DEF Owed
<1>8. buf' = Joined(buf, read) /\ upOut' = From(upOut, n)
  BY <1>1 DEF Joined, From
<1>9. Owed(k)' = Joined(Joined(Joined(had, Joined(buf, read)), upOut'), upPlan)
  BY <1>2, <1>8 DEF Owed
<1> HIDE DEF had
<1>10. Joined(Joined(Joined(had, buf), read), upOut') = Joined(Joined(had, buf), upOut)
  <2>1. Joined(had, buf) \in Seq(Parts)
    BY <1>3, <1>5, JoinedProperties
  <2> QED
    BY <1>3, <1>8, <2>1, Moved
<1> HIDE DEF read
<1>11. Joined(had, Joined(buf, read)) = Joined(Joined(had, buf), read)
  BY <1>3, <1>5, <1>6, JoinedAssociative
<1>12. IntactThen(Owed(k)', Reply(FALSE, trailer, excess))
  BY <1>2, <1>4, <1>7, <1>9, <1>10, <1>11 DEF Intact, IntactThen
<1>13. k \in 0..Len(got') /\ Behind(got', k, cur)
  BY <1>2, <1>4
<1> QED
  BY <1>2, <1>12, <1>13, WholeThen DEF WholeInv

\* The head and what was read with it are with the client, or in the accumulator.
LEMMA HeadWhole ==
    Inv /\ KindInv /\ WholeInv /\ ReadRespHead /\ UNCHANGED met => WholeInv'
<1> SUFFICES ASSUME Inv, KindInv, WholeInv, ReadRespHead, UNCHANGED met PROVE WholeInv'
  OBVIOUS
<1>1. PICK n \in 1..Len(upOut) :
          LET head == upOut[1]
              rest == SubSeq(upOut, 2, n)
              m    == BodyMode(head)
              now  == IF m = "length" THEN SubSeq(rest, 1, Take(Len(rest), 2)) ELSE <<>>
          IN  /\ upOut' = SubSeq(upOut, n + 1, Len(upOut))
              /\ mode' = m
              /\ left' = IF m = "length" THEN 2 - Len(now) ELSE 0
              /\ buf' = IF m = "chunked" THEN rest ELSE <<>>
              /\ got' = Append(got, head) \o now
              /\ bytesDown' = bytesDown + 1 + Len(now)
              /\ pc' = IF m = "none" \/ (m = "length" /\ Len(now) = 2)
                       THEN "done" ELSE "relay"
  BY DEF ReadRespHead
<1> DEFINE head == upOut[1]
           rest == SubSeq(upOut, 2, n)
           cut  == SubSeq(rest, 1, Take(Len(rest), 2))
           now  == IF mode' = "length" THEN cut ELSE <<>>
<1>2. /\ upOut' = From(upOut, n)
      /\ mode' = BodyMode(head)
      /\ buf' = IF mode' = "chunked" THEN rest ELSE <<>>
      /\ got' = Joined(Append(got, head), now)
      /\ pc' \in {"done", "relay"}
      /\ mode' = "none" => pc' = "done"
      /\ mode' = "length" /\ pc' = "relay" => Len(cut) # 2
  BY <1>1 DEF From, Joined
<1>3. /\ pc = "respHead" /\ upOut # <<>>
      /\ UNCHANGED <<cur, upPlan, upState, framing, met>>
  BY DEF ReadRespHead
<1>4. CASE pc' = "done"
  BY <1>3, <1>4, NoneUnderWay DEF WholeInv
<1>5. CASE pc' = "relay"
  <2>1. /\ got \in Seq(Parts) /\ upOut \in Seq(Parts) /\ upPlan \in Seq(Parts)
        /\ Len(got) \in Nat /\ Len(upOut) \in Nat
        /\ Before(got, cur) /\ About(upOut, cur) /\ upState \in {"replying", "fin"}
    BY <1>3, PartsTyped DEF Inv, ResponseInv, KindInv, Whole, BeginsOnce
  <2>2. cur \in Requests /\ cur \in Nat /\ cur # 0
    BY <1>3, CurIsRequest, LenProperties DEF Inv, ResponseInv, RequestInv
  <2>3. PICK interim \in BOOLEAN, trailer \in BOOLEAN, excess \in BOOLEAN :
            Intact(Joined(upOut, upPlan), Reply(interim, trailer, excess))
    BY <1>3, <2>1 DEF WholeInv
  <2>4. head = Part(cur, IF interim THEN "interim" ELSE "head")
    <3>1. Reply(interim, trailer, excess) \in Seq(Parts)
          /\ Reply(interim, trailer, excess)[1]
                = Part(cur, IF interim THEN "interim" ELSE "head")
      BY <2>2, ResponseBegins, ResponseEnds DEF Reply
    <3>2. IsPrefix(upOut, Reply(interim, trailer, excess))
      BY <2>1, <2>3, <3>1, PrefixOfPrefix DEF Intact
    <3> QED
      BY <1>3, <2>1, <3>1, <3>2, PrefixFirst
  <2>5. ~interim /\ mode' = framing[cur] /\ mode' # "none" /\ head = Part(cur, "head")
    BY <1>2, <1>5, <2>4 DEF BodyMode, Part
  <2>6. head \in Parts /\ head.req = cur /\ head # Part(cur, "last")
    BY <2>2, <2>5 DEF Parts, Part
  <2>7. rest \in Seq(Parts) /\ About(rest, cur)
    <3>1. 2 \in 1..Len(upOut) + 1 /\ n \in 0..Len(upOut)
      BY <2>1
    <3> QED
      BY <2>1, <3>1, SubParts DEF About
  <2>8. Joined(<<head>>, rest) = SubSeq(upOut, 1, n)
        /\ Joined(SubSeq(upOut, 1, n), From(upOut, n)) = upOut
    BY <2>1, FirstAndRest, Divided
  <2> HIDE DEF head, rest
  <2>9. mode' = "length" => cut = rest
    <3> DEFINE take == Take(Len(rest), 2)
    <3>1. Len(rest) \in Nat
      BY <2>7, LenProperties
    <3>2. take \in 0..Len(rest) /\ (take # 2 => take = Len(rest))
      BY <3>1, TakeBounds
    <3> HIDE DEF take
    <3>3. Len(SubSeq(rest, 1, take)) = take
      BY <2>7, <3>2, PrefixLength
    <3>4. mode' = "length" => take # 2
      BY <1>2, <1>5, <3>3 DEF take
    <3>5. SubSeq(rest, 1, Len(rest)) = rest
      BY <2>7, SubSeqFull
    <3> QED
      BY <3>2, <3>4, <3>5 DEF take
  <2> HIDE DEF cut
  <2> DEFINE more == Append(got, head)
  <2> PICK k \in Nat : k = Len(got)
    BY <2>1
  <2>10. /\ more \in Seq(Parts) /\ Len(more) = k + 1 /\ DOMAIN more = 1..k + 1
        /\ (\A i \in 1..k : more[i] = got[i]) /\ more[k + 1] = head
    BY <2>1, <2>6, AppendProperties, LenProperties
  <2>11. now \in Seq(Parts) /\ About(now, cur) /\ (mode' = "chunked" => now = <<>>)
    <3>1. <<>> \in Seq(Parts) /\ About(<<>>, cur)
      BY DEF About
    <3> QED
      BY <2>7, <2>9, <3>1
  <2>12. mode' # "close" => Joined(Joined(<<head>>, now), buf') = SubSeq(upOut, 1, n)
    <3>1. <<head>> \in Seq(Parts)
      BY <2>6
    <3>2. Joined(<<head>>, <<>>) = <<head>>
      BY <3>1, JoinedEmpty
    <3>3. SubSeq(upOut, 1, n) \in Seq(Parts)
      BY <2>7, <2>8, <3>1, JoinedProperties
    <3>4. Joined(SubSeq(upOut, 1, n), <<>>) = SubSeq(upOut, 1, n)
      BY <3>3, JoinedEmpty
    <3>5. mode' # "close" => mode' \in {"length", "chunked"}
      BY <1>3, <2>1, <2>5 DEF KindInv, FramingKinds
    <3> QED
      BY <1>2, <2>8, <2>9, <3>2, <3>4, <3>5
  <2> HIDE DEF now
  <2>13. Behind(more, k, cur) /\ k \in 0..Len(more)
    <3>1. \A i \in 1..k : more[i].req < cur /\ more[i].req \in Nat
      BY <2>1, <2>10, ElementOfSeq, LenProperties, PartFields DEF Before
    <3>2. \A i \in 1..k + 1 : more[i].req = cur <=> i > k
      BY <2>2, <2>6, <2>10, <3>1
    <3> QED
      BY <2>10, <3>2 DEF Behind
  <2>14. From(more, k) = <<head>>
    <3>1. k \in 0..Len(got) /\ k >= Len(got)
      BY <2>1
    <3>2. From(more, k) = Append(From(got, k), head)
      BY <2>1, <2>6, <3>1, FromAppend
    <3>3. From(got, k) = <<>>
      BY <2>1, <3>1, FromEnd
    <3> QED
      BY <2>6, <3>2, <3>3
  <2> HIDE DEF more
  <2>15. /\ Behind(got', k, cur) /\ k \in 0..Len(got')
         /\ From(got', k) = Joined(<<head>>, now)
    BY <1>2, <2>10, <2>11, <2>13, <2>14, BehindMore DEF more
  <2>16. mode' = "chunked" => NoLast(got', cur)
    <3>1. NoLast(more, cur)
      <4>1. \A i \in 1..k : more[i].req # cur
        BY <2>10, <2>13 DEF Behind
      <4>2. \A i \in 1..k + 1 : more[i] # Part(cur, "last")
        BY <2>6, <2>10, <4>1 DEF Part
      <4> QED
        BY <2>10, <4>2 DEF NoLast
    <3>2. mode' = "chunked" => got' = more
      BY <1>2, <2>10, <2>11, JoinedEmpty DEF more
    <3> QED
      BY <3>1, <3>2
  <2>17. ASSUME mode' # "close" PROVE IntactThen(Owed(k)', Reply(FALSE, trailer, excess))
    <3>1. Owed(k)' = Joined(Joined(Joined(From(got', k), buf'), upOut'), upPlan')
      BY DEF Owed
    <3>2. Owed(k)' = Joined(upOut, upPlan)
      BY <1>2, <1>3, <2>8, <2>12, <2>15, <2>17, <3>1
    <3>3. Reply(FALSE, trailer, excess) = Reply(interim, trailer, excess)
      BY <2>5
    <3> QED
      BY <1>3, <2>3, <3>2, <3>3 DEF Intact, IntactThen
  <2>18. upState' = "fin" => upPlan' = <<>>
    BY <1>3 DEF WholeInv
  <2>19. mode' # "chunked" => buf' = <<>>
    BY <1>2
  <2> QED
    BY <1>3, <1>5, <2>2, <2>5, <2>15, <2>16, <2>17, <2>18, <2>19, WholeThen
<1> QED
  BY <1>2, <1>4, <1>5

LEMMA NextWholeInv ==
    Inv /\ CountInv /\ KindInv /\ WholeInv /\ [Next]_vars => WholeInv'
<1> SUFFICES ASSUME Inv, CountInv, KindInv, WholeInv, [Next]_vars PROVE WholeInv'
  OBVIOUS
<1>1. CASE ClientStep
  <2>1. UNCHANGED <<pc, cur, got, buf, mode, upOut, upPlan, upState, framing>>
    BY <1>1 DEF ClientStep, SendHead, SendBody, ClientClose, proxyVars, upVars
  <2>2. "truncate" \in met' <=> "truncate" \in met
    BY <1>1 DEF ClientStep, SendHead, SendBody, ClientClose, Meet, When
  <2> QED
    BY <2>1, <2>2, WholeKept
<1>2. CASE UpStep
  BY <1>2, ReplyWhole, SendWhole, CloseWhole DEF UpStep
<1>3. CASE ProxyStep /\ UNCHANGED met
  <2>1. CASE ReadHead \/ ReadHeadEof \/ ConnectFails
    <3>1. /\ pc' \in {"readHead", "connect", "gone"} /\ UNCHANGED <<upState, upPlan>>
      BY <2>1 DEF ReadHead, ReadHeadEof, ConnectFails, Leave, upVars
    <3> QED
      BY <3>1, NoneUnderWay DEF WholeInv
  <2>2. CASE Connect
    BY <2>2 DEF Connect, WholeInv
  <2>3. CASE Forward
    <3>1. /\ pc = "forward" /\ pc' = "respHead"
          /\ UNCHANGED <<cur, framing, upOut, upPlan, upState>>
      BY <2>3 DEF Forward
    <3> QED
      BY <1>3, <3>1, HeadKept
  <2>4. CASE ReadRespHead \/ RelayPieces \/ FlushChunks \/ ReadChunks
    BY <1>3, <2>4, HeadWhole, RelayPiecesWhole, FlushWhole, ReadChunksWhole
  <2>5. CASE RelayLastChunk \/ UpstreamEof
    <3>1. pc' \in {"done", "gone"} /\ UNCHANGED <<upState, upPlan>>
      BY <2>5 DEF RelayLastChunk, UpstreamEof, Leave, upVars
    <3> QED
      BY <3>1, NoneUnderWay DEF WholeInv
  <2>6. CASE UpstreamReset \/ Done
    BY <2>6, NoneUnderWay DEF UpstreamReset, Done, DropUp, Leave
  <2> QED
    BY <1>3, <2>1, <2>2, <2>3, <2>4, <2>5, <2>6 DEF ProxyStep
<1>4. CASE UNCHANGED vars
  <2>1. UNCHANGED <<pc, cur, got, buf, mode, upOut, upPlan, upState, framing, met>>
    BY <1>4 DEF vars, proxyVars, upVars
  <2> QED
    BY <2>1, WholeKept
<1> QED
  BY <1>1, <1>2, <1>3, <1>4 DEF Next

NoTrailer(s) == \A m \in DOMAIN s : s[m].what # "trailer"

\* What is relayed is counted.
LEMMA RelayedIsCounted ==
    ASSUME CountedInv, pc # "gone", "truncate" \notin met, NEW t,
           got \in Seq(Parts), t \in Seq(Parts), got' = Joined(got, t), NoTrailer(got'),
           bytesDown' = bytesDown + Len(t)
    PROVE  bytesDown' = Len(got')
<1>1. /\ Len(got) \in Nat /\ Len(t) \in Nat /\ Len(got') = Len(got) + Len(t)
      /\ DOMAIN got = 1..Len(got) /\ DOMAIN got' = 1..Len(got) + Len(t)
  BY JoinedProperties, LenProperties
<1>2. \A m \in 1..Len(got) : m \in 1..Len(got) + Len(t) /\ got'[m] = got[m]
  <2>1. \A m \in 1..Len(got) : m \in 1..Len(got) + Len(t) /\ m <= Len(got)
    BY <1>1
  <2>2. \A m \in 1..Len(got) + Len(t) :
           got'[m] = IF m <= Len(got) THEN got[m] ELSE t[m - Len(got)]
    BY JoinedProperties
  <2> QED
    BY <2>1, <2>2
<1>3. NoTrailer(got)
  BY <1>1, <1>2 DEF NoTrailer
<1>4. bytesDown = Len(got)
  BY <1>3 DEF CountedInv, NoTrailer
<1> QED
  BY <1>1, <1>4

\* A chunked response whose stream ended without its terminal chunk, and which its
\* server did not truncate, ended with trailer fields, and they are with the client.
LEMMA EndsWithTrailer ==
    ASSUME Inv, WholeInv, pc = "relay", mode = "chunked", upState = "fin", upOut = <<>>,
           "truncate" \notin met, ~FindChunkEnd(buf)
    PROVE  ~NoTrailer(Joined(got, buf))
<1>1. /\ got \in Seq(Parts) /\ buf \in Seq(Parts) /\ upPlan = <<>> /\ NoLast(got, cur)
      /\ About(buf, cur) /\ framing[cur] = "chunked"
  BY PartsTyped DEF Inv, ResponseInv, WholeInv, Body, About
<1>2. PICK k \in 0..Len(got), trailer \in BOOLEAN, excess \in BOOLEAN :
          Behind(got, k, cur) /\ Intact(Owed(k), Reply(FALSE, trailer, excess))
  BY DEF WholeInv
<1> DEFINE all   == Joined(got, buf)
           whole == From(all, k)
<1>3. /\ Behind(all, k, cur) /\ k \in 0..Len(all) /\ whole = Joined(From(got, k), buf)
      /\ all \in Seq(Parts)
  BY <1>1, <1>2, BehindMore, JoinedProperties
<1>4. whole \in Seq(Parts) /\ Len(all) \in Nat /\ Len(whole) = Len(all) - k
      /\ (\A i \in 1..Len(all) - k : whole[i] = all[k + i]) /\ DOMAIN all = 1..Len(all)
  BY <1>3, FromProperties, LenProperties
<1>5. NoLast(all, cur)
  <2>1. NoLast(buf, cur)
    BY DEF FindChunkEnd, ToSet, NoLast
  <2> QED
    BY <1>1, <2>1, NoLastMore
<1> HIDE DEF all
<1>6. Owed(k) = whole
  <2>1. Owed(k) = Joined(Joined(whole, upOut), upPlan)
    BY <1>3 DEF Owed
  <2> HIDE DEF whole
  <2>2. Joined(whole, <<>>) = whole
    BY <1>4, JoinedEmpty
  <2> QED
    BY <1>1, <2>1, <2>2
<1>7. whole = Response(cur, "chunked", FALSE, trailer, excess)
  BY <1>1, <1>2, <1>6 DEF Intact, Reply
<1> HIDE DEF whole
<1>8. cur \in Requests
  BY CurIsRequest DEF WholeInv
<1>9. PICK e \in 1..Len(whole) :
          whole[e] = Part(cur, IF trailer THEN "trailer" ELSE "last")
  <2>1. \A f : \A interim \in BOOLEAN :
           f = "chunked" => \E e \in 1..Len(Response(cur, f, interim, trailer, excess)) :
               Response(cur, f, interim, trailer, excess)[e]
                 = Part(cur, IF trailer THEN "trailer" ELSE "last")
    BY <1>8, ResponseEnds
  <2> QED
    BY <1>7, <2>1
<1>10. k + e \in DOMAIN all /\ all[k + e] = whole[e]
  <2>1. e \in 1..Len(all) - k /\ k + e \in 1..Len(all)
    BY <1>3, <1>4, <1>9
  <2> QED
    BY <1>4, <2>1
<1>11. all[k + e].what = "trailer"
  BY <1>5, <1>9, <1>10 DEF NoLast, Part
<1> QED
  BY <1>10, <1>11 DEF NoTrailer, all

LEMMA NextCountedInv ==
    Inv /\ CountInv /\ KindInv /\ WholeInv /\ CountedInv /\ [Next]_vars => CountedInv'
<1> SUFFICES ASSUME Inv, CountInv, KindInv, WholeInv, CountedInv, [Next]_vars,
                    pc' # "gone", "truncate" \notin met', NoTrailer(got')
             PROVE  bytesDown' = Len(got')
  BY DEF CountedInv, NoTrailer
<1>1. got \in Seq(Parts) /\ buf \in Seq(Parts) /\ upOut \in Seq(Parts)
      /\ Len(upOut) \in Nat /\ bytesDown \in Nat
  BY PartsTyped DEF CountInv
<1>2. UNCHANGED <<got, bytesDown>> /\ pc # "gone" /\ "truncate" \notin met
         => bytesDown' = Len(got')
  BY DEF CountedInv, NoTrailer
<1>3. CASE ClientStep \/ UpStep
  <2>1. UNCHANGED <<pc, got, bytesDown>>
    BY <1>3 DEF ClientStep, SendHead, SendBody, ClientClose, UpStep, UpReply, UpSend,
                UpClose, proxyVars
  <2>2. \/ UNCHANGED met
        \/ \E kinds \in SUBSET Hazards : Meet(kinds)
    <3>1. \A kinds : Meet(kinds) => kinds \in SUBSET Hazards
      BY DEF Meet
    <3>2. CASE ClientStep
      BY <3>1, <3>2 DEF ClientStep, SendHead, SendBody, ClientClose
    <3>3. CASE UpStep
      BY <3>1, <3>3 DEF UpStep, UpReply, UpSend, UpClose
    <3> QED
      BY <1>3, <3>2, <3>3
  <2>3. "truncate" \notin met
    BY <2>2, MeetMore DEF KindInv
  <2> QED
    BY <1>2, <2>1, <2>3
<1>4. CASE ProxyStep /\ UNCHANGED met
  <2>1. CASE ReadHead \/ ReadHeadEof \/ Connect \/ Forward \/ ReadChunks \/ UpstreamReset
             \/ Done
    BY <1>2, <1>4, <2>1
    DEF ReadHead, ReadHeadEof, Connect, Forward, ReadChunks, UpstreamReset, Done
  <2>2. CASE ConnectFails
    BY <2>2 DEF ConnectFails, Leave
  <2>3. CASE ReadRespHead
    <3>1. PICK n \in 1..Len(upOut) :
              LET head == upOut[1]
                  rest == SubSeq(upOut, 2, n)
                  m    == BodyMode(head)
                  now  == IF m = "length" THEN SubSeq(rest, 1, Take(Len(rest), 2))
                          ELSE <<>>
              IN  /\ got' = Append(got, head) \o now
                  /\ bytesDown' = bytesDown + 1 + Len(now)
      BY <2>3 DEF ReadRespHead
    <3> DEFINE head == upOut[1]
               rest == SubSeq(upOut, 2, n)
               cut  == SubSeq(rest, 1, Take(Len(rest), 2))
               now  == IF BodyMode(head) = "length" THEN cut ELSE <<>>
    <3>2. pc = "respHead"
      BY <2>3 DEF ReadRespHead
    <3>3. 1 \in 1..Len(upOut) /\ 2 \in 1..Len(upOut) + 1 /\ n \in 0..Len(upOut)
      BY <1>1
    <3>4. head \in Parts /\ now \in Seq(Parts)
      <4>1. rest \in Seq(Parts) /\ Len(rest) \in Nat /\ <<>> \in Seq(Parts)
        BY <1>1, <3>3, SubParts, LenProperties
      <4>2. upOut[1] \in Parts
        BY <1>1, <3>3, ElementOfSeq
      <4> HIDE DEF rest
      <4>3. 1 \in 1..Len(rest) + 1 /\ Take(Len(rest), 2) \in 0..Len(rest)
        BY <4>1 DEF Take
      <4>4. cut \in Seq(Parts)
        BY <4>1, <4>3, SubParts
      <4> QED
        BY <4>1, <4>2, <4>4
    <3>5. got' = Append(got, head) \o now /\ bytesDown' = bytesDown + 1 + Len(now)
      BY <3>1
    <3> HIDE DEF head, rest, cut, now
    <3> DEFINE first == <<head>>
               t     == Joined(first, now)
    <3>6. first \in Seq(Parts) /\ Len(first) = 1 /\ Append(got, head) = Joined(got, first)
      BY <1>1, <3>4, AppendIsConcat DEF Joined
    <3> HIDE DEF first
    <3>7. t \in Seq(Parts) /\ Len(t) = 1 + Len(now)
      BY <3>4, <3>6, JoinedProperties
    <3>8. got' = Joined(got, t)
      <4>1. got' = Joined(Joined(got, first), now)
        BY <3>5, <3>6 DEF Joined
      <4> QED
        BY <1>1, <3>4, <3>6, <4>1, JoinedAssociative
    <3>9. bytesDown' = bytesDown + Len(t)
      BY <1>1, <3>4, <3>5, <3>7, LenProperties
    <3> HIDE DEF t
    <3> QED
      BY <1>1, <1>4, <3>2, <3>7, <3>8, <3>9, RelayedIsCounted
  <2>4. CASE RelayPieces
    <3>1. PICK n \in 1..Len(upOut) :
              LET take == IF mode = "length" THEN Take(n, left) ELSE n IN
              got' = got \o SubSeq(upOut, 1, take) /\ bytesDown' = bytesDown + take
      BY <2>4 DEF RelayPieces
    <3> DEFINE take == IF mode = "length" THEN Take(n, left) ELSE n
               t    == SubSeq(upOut, 1, take)
    <3>2. pc = "relay"
      BY <2>4 DEF RelayPieces
    <3>3. t \in Seq(Parts) /\ Len(t) = take
      <4>1. take \in 0..Len(upOut) /\ 1 \in 1..Len(upOut) + 1
        BY <1>1 DEF CountInv, Take
      <4> HIDE DEF take
      <4> QED
        BY <1>1, <4>1, SubParts, PrefixLength
    <3>4. got' = Joined(got, t) /\ bytesDown' = bytesDown + Len(t)
      BY <3>1, <3>3 DEF Joined
    <3> HIDE DEF t
    <3> QED
      BY <1>1, <1>4, <3>2, <3>3, <3>4, RelayedIsCounted
  <2>5. CASE RelayLastChunk
    <3>1. PICK end \in DOMAIN buf :
              got' = got \o SubSeq(buf, 1, end) /\ bytesDown' = bytesDown + end
      BY <2>5 DEF RelayLastChunk
    <3> DEFINE t == SubSeq(buf, 1, end)
    <3>2. pc = "relay"
      BY <2>5 DEF RelayLastChunk
    <3>3. t \in Seq(Parts) /\ Len(t) = end
      <4>1. DOMAIN buf = 1..Len(buf) /\ Len(buf) \in Nat
        BY <1>1, LenProperties
      <4>2. end \in 0..Len(buf) /\ 1 \in 1..Len(buf) + 1
        BY <4>1
      <4> QED
        BY <1>1, <4>2, SubParts, PrefixLength
    <3>4. got' = Joined(got, t) /\ bytesDown' = bytesDown + Len(t)
      BY <3>1, <3>3 DEF Joined
    <3> HIDE DEF t
    <3> QED
      BY <1>1, <1>4, <3>2, <3>3, <3>4, RelayedIsCounted
  <2>6. CASE FlushChunks
    <3>1. pc = "relay" /\ got' = Joined(got, buf) /\ bytesDown' = bytesDown + Len(buf)
      BY <2>6 DEF FlushChunks, Joined
    <3> QED
      BY <1>1, <1>4, <3>1, RelayedIsCounted
  <2>7. CASE UpstreamEof
    <3>1. /\ pc = "relay" /\ got' = Joined(got, buf) /\ bytesDown' = bytesDown
          /\ upState = "fin" /\ upOut = <<>> /\ (mode = "chunked" => ~FindChunkEnd(buf))
      BY <2>7 DEF UpstreamEof, Leave, Joined
    <3>2. mode # "chunked"
      BY <1>4, <3>1, EndsWithTrailer
    <3>3. buf = <<>>
      BY <3>1, <3>2 DEF WholeInv
    <3>4. got' = got
      BY <1>1, <3>1, <3>3, JoinedEmpty
    <3> QED
      BY <1>2, <1>4, <3>1, <3>4
  <2> QED
    BY <1>4, <2>1, <2>2, <2>3, <2>4, <2>5, <2>6, <2>7 DEF ProxyStep
<1>5. CASE UNCHANGED vars
  BY <1>2, <1>5 DEF vars, proxyVars
<1> QED
  BY <1>3, <1>4, <1>5 DEF Next

LEMMA CountedAllCounted == Inv /\ CountedInv => AllCounted
<1> SUFFICES ASSUME Inv, CountedInv, pc \in {"readHead", "connect"},
                    "truncate" \notin met, \A r \in Requests : ~Received(r, "trailer")
             PROVE  bytesDown = Len(got)
  BY DEF AllCounted
<1>1. ASSUME NEW m \in DOMAIN got, got[m].what = "trailer" PROVE FALSE
  <2>1. got[m] \in Parts
    BY PartsTyped, ElementOfSeq, LenProperties
  <2>2. got[m].req \in Requests /\ got[m] = Part(got[m].req, "trailer")
    BY <1>1, <2>1 DEF Parts, Part
  <2> QED
    BY <2>2 DEF Received
<1> QED
  BY <1>1 DEF CountedInv

\* proxy_server.rs:515-587: whatever the sizes of the reads and the limit of the
\* accumulator, what the client has of the response that is relayed, what is held back,
\* in flight and still to come make up what its server sends, in order; a server that
\* truncates it takes only its end.
THEOREM NothingIsLost == Spec => []NothingLost
<1>1. Init => Inv /\ CountInv /\ KindInv /\ WholeInv
  BY InitInv, InitCountInv, InitKindInv, InitWholeInv
<1>2. Inv /\ CountInv /\ KindInv /\ WholeInv /\ [Next]_vars
         => (Inv /\ CountInv /\ KindInv /\ WholeInv)'
  BY NextInv, NextCountInv, NextKindInv, NextWholeInv
<1>3. Inv /\ WholeInv => NothingLost
  BY WholeNothingLost
<1> QED
  BY <1>1, <1>2, <1>3, PTL DEF Spec

\* Stats.bytes_down is the size of what the client got, whenever the proxy waits for a
\* request, unless a server truncated a response or one had trailer fields: the rest of
\* such a chunked body is written and not counted (proxy_server.rs:568-573).
THEOREM EverythingIsCounted == Spec => []AllCounted
<1>1. Init => Inv /\ KindInv /\ CountInv /\ WholeInv /\ CountedInv
  BY InitInv, InitKindInv, InitCountInv, InitWholeInv
<1>2. Inv /\ KindInv /\ CountInv /\ WholeInv /\ CountedInv /\ [Next]_vars
         => (Inv /\ KindInv /\ CountInv /\ WholeInv /\ CountedInv)'
  BY NextInv, NextKindInv, NextCountInv, NextWholeInv, NextCountedInv
<1>3. Inv /\ CountedInv => AllCounted
  BY CountedAllCounted
<1> QED
  BY <1>1, <1>2, <1>3, PTL DEF Spec

=============================================================================
