------------------------------ MODULE ChunkRelay ------------------------------
(***************************************************************************)
(* One chunked response body on its way through relay_one_response         *)
(* (proxy_server.rs), byte by byte: where the proxy takes it to end, and   *)
(* what of it reaches the client.  PlainHttp has the same relay part by    *)
(* part, within the whole exchange; here the parts are the bytes in which  *)
(* find_chunk_end looks for the terminal chunk, so that data can look like *)
(* it and the flush of a full accumulator can cut through it.              *)
(***************************************************************************)
EXTENDS Naturals, Sequences, SequencesExt

CONSTANTS
    Bytes,       \* "0", "r", "n" and whatever else is told apart
    Bodies,      \* chunked bodies a server may send
    FlushAt,     \* the accumulator's limit (1 MiB)
    Truncates    \* may a server close in the middle of a body?

ASSUME BodiesAssumption    == Bodies \subseteq Seq(Bytes)
ASSUME FlushAssumption     == FlushAt \in Nat
ASSUME TruncatesAssumption == Truncates \in BOOLEAN

VARIABLES
    body,    \* the body the server means to send
    sent,    \* what it has sent of it
    fin,     \* has the server closed its side?
    wire,    \* bytes between the server and the proxy
    acc,     \* acc
    got,     \* what the client was sent of the body
    pc       \* relay_one_response: "head", "relay", "done" or "broken"

vars == <<body, sent, fin, wire, acc, got, pc>>

TypeOK ==
    /\ body \in Seq(Bytes) /\ sent \in Seq(Bytes) /\ wire \in Seq(Bytes)
    /\ acc \in Seq(Bytes) /\ got \in Seq(Bytes)
    /\ fin \in BOOLEAN
    /\ pc \in {"head", "relay", "done", "broken"}

Init ==
    /\ body \in Bodies
    /\ sent = <<>> /\ fin = FALSE /\ wire = <<>>
    /\ acc = <<>> /\ got = <<>>
    /\ pc = "head"

-----------------------------------------------------------------------------
(* External: the server.  It is told Connection: close, and may not obey.   *)

SendByte ==
    /\ ~fin /\ Len(sent) < Len(body)
    /\ sent' = Append(sent, body[Len(sent) + 1])
    /\ wire' = Append(wire, body[Len(sent) + 1])
    /\ UNCHANGED <<body, fin, acc, got, pc>>

Close ==
    /\ ~fin /\ (sent = body \/ Truncates)
    /\ fin' = TRUE
    /\ UNCHANGED <<body, sent, wire, acc, got, pc>>

-----------------------------------------------------------------------------
(* The proxy.                                                               *)

Terminal == <<"0", "r", "n", "r", "n">>

\* Mutant: the windows end one byte too early.
EndsShort(bytes) ==
    {end \in 5..(Len(bytes) - 1) : SubSeq(bytes, end - 4, end) = Terminal}

\* Where a window of five bytes that is the terminal chunk ends.
Ends(bytes) == {end \in 5..Len(bytes) : SubSeq(bytes, end - 4, end) = Terminal}

\* find_chunk_end: the first one.
FindChunkEnd(end) == end \in Ends(acc) /\ \A other \in Ends(acc) : end <= other

\* What read_head_up read behind the head; nothing else was relayed yet.
ReadHead ==
    /\ pc = "head"
    /\ \E n \in 0..Len(wire) :
          /\ acc' = SubSeq(wire, 1, n)
          /\ wire' = SubSeq(wire, n + 1, Len(wire))
    /\ pc' = "relay"
    /\ UNCHANGED <<body, sent, fin, got>>

\* Mutant: all of acc is taken to belong to what is relayed, and only up to the window.
RelayEndStart ==
    /\ pc = "relay"
    /\ \E end \in 5..Len(acc) : FindChunkEnd(end) /\ got' = got \o SubSeq(acc, 1, end - 5)
    /\ acc' = <<>>
    /\ pc' = "done"
    /\ UNCHANGED <<body, sent, fin, wire>>

\* The terminal chunk is in acc: nothing behind it is relayed.
RelayEnd ==
    /\ pc = "relay"
    /\ \E end \in 5..Len(acc) : FindChunkEnd(end) /\ got' = got \o SubSeq(acc, 1, end)
    /\ acc' = <<>>
    /\ pc' = "done"
    /\ UNCHANGED <<body, sent, fin, wire>>

\* Mutant: what the comment says and the code does not: a tail is kept, but written too.
FlushTwice ==
    /\ pc = "relay" /\ Ends(acc) = {} /\ Len(acc) > FlushAt
    /\ got' = got \o acc
    /\ acc' = SubSeq(acc, Len(acc), Len(acc))
    /\ UNCHANGED <<body, sent, fin, wire, pc>>

\* It is not, and acc is full: all of it is written out.
Flush ==
    /\ pc = "relay" /\ Ends(acc) = {} /\ Len(acc) > FlushAt
    /\ got' = got \o acc
    /\ acc' = <<>>
    /\ UNCHANGED <<body, sent, fin, wire, pc>>

\* It is not, and more is read ...
Read ==
    /\ pc = "relay" /\ Ends(acc) = {} /\ Len(acc) <= FlushAt
    /\ \E n \in 1..Len(wire) :
          /\ acc' = acc \o SubSeq(wire, 1, n)
          /\ wire' = SubSeq(wire, n + 1, Len(wire))
    /\ UNCHANGED <<body, sent, fin, got, pc>>

\* ... or there is no more.
Eof ==
    /\ pc = "relay" /\ Ends(acc) = {} /\ Len(acc) <= FlushAt
    /\ wire = <<>> /\ fin
    /\ got' = got \o acc
    /\ acc' = <<>>
    /\ pc' = "done"
    /\ UNCHANGED <<body, sent, fin, wire>>

\* A read or a write fails; acc is gone with the connection.
Break ==
    /\ pc \in {"head", "relay"}
    /\ pc' = "broken"
    /\ UNCHANGED <<body, sent, fin, wire, acc, got>>

RelayStep == ReadHead \/ RelayEnd \/ Flush \/ Read \/ Eof

Next == SendByte \/ Close \/ RelayStep \/ Break

\* The runtime polls the task; nothing makes the server send, or close.
Spec     == Init /\ [][Next]_vars
FairSpec == Spec /\ WF_vars(RelayStep)

-----------------------------------------------------------------------------

Pipe == INSTANCE BytePipe WITH
            Payload <- Bytes, sentAll <- fin, received <- got, receivedAll <- FALSE

\* The relay is a pipe: whatever is read with the head, held back, flushed, or written at
\* the end, the client has a prefix of what the server sent, nothing left out and nothing
\* twice (proxy_server.rs:558-587).  It never learns from the connection that this was all.
RelayIsPipe == Pipe!Spec

\* proxy_server.rs:559, "pass through chunk framing until terminal 0-chunk": a body that
\* is over, and was not cut short by its server, has been relayed to its end.
EndsAtTerminalChunk == pc = "done" /\ (fin => sent = body) => got = body

\* Bytes before the end of a body that look like it: a size that ends in 0 and data that
\* begins with a blank line, or data that holds the five bytes.
Imitates(bytes) == \E n \in 1..(Len(bytes) - 5) : SubSeq(bytes, n, n + 4) = Terminal

\* So it has, unless something in the body imitates its end.
WholeUnlessImitated == ~Imitates(body) => EndsAtTerminalChunk

\* A flush went through the terminal chunk.
Cut == Len(body) - 5 < Len(got) /\ Len(got) < Len(body)

\* Once a body that has a terminal chunk was sent the relay ends, whether or not the
\* server closes (proxy_server.rs:562-566); only after a flush in the middle of that
\* chunk does the proxy wait for the server.
EndIsNoticed ==
    sent = body /\ IsSuffix(Terminal, body) ~> pc \in {"done", "broken"} \/ Cut

=============================================================================
