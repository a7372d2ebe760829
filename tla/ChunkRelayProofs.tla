--------------------------- MODULE ChunkRelayProofs ---------------------------
(***************************************************************************)
(* The chunked relay implements a pipe, and ends where the body ends unless *)
(* something in the body imitates its end: for all bodies, all limits of   *)
(* the accumulator, and all ways in which the bytes are cut into reads.    *)
(***************************************************************************)
EXTENDS ChunkRelay, SequenceTheorems, TLAPS

(* Prefixes of sequences.                                                   *)

Prefix(s, t) == Len(s) <= Len(t) /\ s = SubSeq(t, 1, Len(s))

LEMMA SplitAt ==
  ASSUME NEW S, NEW s \in Seq(S), NEW n \in 0..Len(s)
  PROVE  /\ SubSeq(s, 1, n) \in Seq(S) /\ SubSeq(s, n + 1, Len(s)) \in Seq(S)
         /\ Len(SubSeq(s, 1, n)) = n
         /\ \A i \in 1..n : SubSeq(s, 1, n)[i] = s[i]
         /\ SubSeq(s, 1, n) \o SubSeq(s, n + 1, Len(s)) = s
<1>1. Len(s) \in Nat
  BY LenProperties
<1>2. \A i \in 1..Len(s) : s[i] \in S
  BY ElementOfSeq
<1>3. /\ SubSeq(s, 1, n) \in Seq(S) /\ Len(SubSeq(s, 1, n)) = n
      /\ \A i \in 1..n : SubSeq(s, 1, n)[i] = s[i]
  BY <1>1, <1>2, SubSeqProperties
<1>4. SubSeq(s, n + 1, Len(s)) \in Seq(S)
  BY <1>1, <1>2, SubSeqProperties
<1>5. SubSeq(s, 1, n) \o SubSeq(s, n + 1, Len(s)) = SubSeq(s, 1, Len(s))
  <2>1. 1 \in 1..Len(s) + 1 /\ n \in 1 - 1..Len(s) /\ Len(s) \in n..Len(s)
    BY <1>1
  <2> QED
    BY <2>1, ConcatAdjacentSubSeq
<1> QED
  BY <1>3, <1>4, <1>5, SubSeqFull

LEMMA PrefixByElements ==
  ASSUME NEW S, NEW s \in Seq(S), NEW t \in Seq(S)
  PROVE  Prefix(s, t) <=> Len(s) <= Len(t) /\ \A i \in 1..Len(s) : s[i] = t[i]
<1>1. Len(s) \in Nat /\ Len(t) \in Nat
  BY LenProperties
<1>2. CASE Len(s) <= Len(t)
  <2>1. /\ SubSeq(t, 1, Len(s)) \in Seq(S) /\ Len(SubSeq(t, 1, Len(s))) = Len(s)
        /\ \A i \in 1..Len(s) : SubSeq(t, 1, Len(s))[i] = t[i]
    BY <1>1, <1>2, SplitAt
  <2>2. (\A i \in 1..Len(s) : s[i] = t[i]) => s = SubSeq(t, 1, Len(s))
    BY <2>1, SeqEqual
  <2> QED
    BY <1>2, <2>1, <2>2 DEF Prefix
<1>3. CASE ~(Len(s) <= Len(t))
  BY <1>3 DEF Prefix
<1> QED
  BY <1>2, <1>3

LEMMA PrefixTransitive ==
  ASSUME NEW S, NEW s \in Seq(S), NEW t \in Seq(S), NEW u \in Seq(S),
         Prefix(s, t), Prefix(t, u)
  PROVE  Prefix(s, u)
<1>1. Len(s) \in Nat /\ Len(t) \in Nat /\ Len(u) \in Nat
  BY LenProperties
<1>2. Len(s) <= Len(t) /\ Len(t) <= Len(u)
  BY DEF Prefix
<1>3. \A i \in 1..Len(s) : i \in 1..Len(t) /\ s[i] = t[i] /\ t[i] = u[i]
  BY <1>1, <1>2, PrefixByElements
<1> QED
  BY <1>1, <1>2, <1>3, PrefixByElements

LEMMA PrefixOfConcat ==
  ASSUME NEW S, NEW s \in Seq(S), NEW t \in Seq(S)
  PROVE  Prefix(s, s \o t)
<1>1. Len(s) \in Nat /\ Len(t) \in Nat
  BY LenProperties
<1>2. /\ s \o t \in Seq(S) /\ Len(s) <= Len(s \o t)
      /\ \A i \in 1..Len(s) : s[i] = (s \o t)[i]
  BY <1>1, ConcatProperties
<1> QED
  BY <1>2, PrefixByElements

LEMMA PrefixExtends ==
  ASSUME NEW S, NEW r \in Seq(S), NEW s \in Seq(S), NEW n \in 0..Len(s)
  PROVE  Prefix(r \o SubSeq(s, 1, n), r \o s)
<1> DEFINE p == SubSeq(s, 1, n)
           q == SubSeq(s, n + 1, Len(s))
<1>1. p \in Seq(S) /\ q \in Seq(S) /\ p \o q = s
  BY SplitAt
<1> HIDE DEF p, q
<1>2. (r \o p) \o q = r \o (p \o q)
  <2>1. p \in Seq(S) /\ q \in Seq(S)
    BY <1>1
  <2> QED
    BY <2>1, ConcatAssociative
<1>3. r \o p \in Seq(S)
  BY <1>1, ConcatProperties
<1>4. Prefix(r \o p, r \o s)
  <2>1. Prefix(r \o p, (r \o p) \o q)
    BY <1>1, <1>3, PrefixOfConcat
  <2> QED
    BY <1>1, <1>2, <2>1
<1> QED
  BY <1>4 DEF p

LEMMA PrefixWhole ==
  ASSUME NEW S, NEW s \in Seq(S), NEW t \in Seq(S), Prefix(s, t), Len(t) <= Len(s)
  PROVE  s = t
<1>1. Len(s) \in Nat /\ Len(t) \in Nat
  BY LenProperties
<1>2. Len(s) = Len(t)
  BY <1>1 DEF Prefix
<1> QED
  BY <1>2, SubSeqFull DEF Prefix

-----------------------------------------------------------------------------

LEMMA PrefixOfAll ==
  ASSUME NEW S, NEW s \in Seq(S)
  PROVE  Prefix(<<>>, s)
<1>1. Len(s) \in Nat /\ <<>> \in Seq(S) /\ Len(<<>>) = 0
  BY LenProperties, EmptySeq
<1>2. <<>> \o s = s
  BY ConcatEmptySeq
<1>3. Prefix(<<>>, <<>> \o s)
  BY <1>1, PrefixOfConcat
<1> QED
  BY <1>2, <1>3

\* Concatenation is associative.
LEMMA Associative ==
  \A s, t, u \in Seq(Bytes) : (s \o t) \o u = s \o (t \o u)
<1> TAKE s, t, u \in Seq(Bytes)
<1> QED
  BY ConcatAssociative

LEMMA ConstantFacts == Bodies \subseteq Seq(Bytes) /\ FlushAt \in Nat
  BY BodiesAssumption, FlushAssumption DEF BodiesAssumption, FlushAssumption

LEMMA InitTypeOK == Init => TypeOK
  BY ConstantFacts, EmptySeq DEF Init, TypeOK

LEMMA NextTypeOK == TypeOK /\ [Next]_vars => TypeOK'
<1> SUFFICES ASSUME TypeOK, [Next]_vars PROVE TypeOK'
  OBVIOUS
<1> USE DEF TypeOK
<1>0. Len(wire) \in Nat /\ Len(acc) \in Nat /\ Len(sent) \in Nat /\ Len(body) \in Nat
  BY LenProperties
<1>1. CASE SendByte
  <2>1. body[Len(sent) + 1] \in Bytes
    BY <1>0, <1>1, ElementOfSeq DEF SendByte
  <2> QED
    BY <1>1, <2>1, AppendProperties DEF SendByte
<1>2. CASE Close
  BY <1>2 DEF Close
<1>3. CASE ReadHead
  BY <1>0, <1>3, SplitAt DEF ReadHead
<1>4. CASE RelayEnd
  <2>1. PICK end \in 5..Len(acc) : got' = got \o SubSeq(acc, 1, end)
    BY <1>4 DEF RelayEnd
  <2>2. SubSeq(acc, 1, end) \in Seq(Bytes)
    BY <1>0, SplitAt
  <2> QED
    BY <1>4, <2>1, <2>2, ConcatProperties, EmptySeq DEF RelayEnd
<1>5. CASE Flush
  BY <1>5, ConcatProperties, EmptySeq DEF Flush
<1>6. CASE Read
  <2>1. PICK n \in 1..Len(wire) : /\ acc' = acc \o SubSeq(wire, 1, n)
                                 /\ wire' = SubSeq(wire, n + 1, Len(wire))
    BY <1>6 DEF Read
  <2>2. n \in 0..Len(wire)
    BY <1>0
  <2>3. SubSeq(wire, 1, n) \in Seq(Bytes) /\ SubSeq(wire, n + 1, Len(wire)) \in Seq(Bytes)
    BY <2>2, SplitAt
  <2> QED
    BY <1>6, <2>1, <2>3, ConcatProperties DEF Read
<1>7. CASE Eof
  BY <1>7, ConcatProperties, EmptySeq DEF Eof
<1>8. CASE Break
  BY <1>8 DEF Break
<1>9. CASE UNCHANGED vars
  BY <1>9 DEF vars
<1> QED
  BY <1>1, <1>2, <1>3, <1>4, <1>5, <1>6, <1>7, <1>8, <1>9 DEF Next, RelayStep

\* The types of the relay's variables.
THEOREM TypeCorrect == Spec => []TypeOK
  BY InitTypeOK, NextTypeOK, PTL DEF Spec

-----------------------------------------------------------------------------

\* Where every byte of the body is: still to be sent, on the wire, held back in acc, or
\* with the client.  Once the relay is over the client has everything, or what it has
\* ends in the five bytes of the terminal chunk.
EndsInTerminal(s) == Len(s) >= 5 /\ SubSeq(s, Len(s) - 4, Len(s)) = Terminal

Inv ==
    /\ Prefix(sent, body)
    /\ Prefix(got, sent)
    /\ pc = "head" => acc = <<>> /\ got = <<>>
    /\ pc \in {"head", "relay"} => sent = (got \o acc) \o wire
    /\ pc = "done" => (fin /\ got = sent) \/ EndsInTerminal(got)

LEMMA InitInv == Init => TypeOK /\ Inv
<1> SUFFICES ASSUME Init PROVE TypeOK /\ Inv
  OBVIOUS
<1>1. TypeOK
  BY InitTypeOK
<1>2. <<>> \in Seq(Bytes) /\ Len(<<>>) = 0
  BY EmptySeq
<1>3. Len(body) \in Nat
  BY <1>1, LenProperties DEF TypeOK
<1>4. Prefix(<<>>, body) /\ Prefix(<<>>, <<>>)
  <2>1. body \in Seq(Bytes)
    BY <1>1 DEF TypeOK
  <2> QED
    BY <1>2, <2>1, PrefixOfAll
<1>5. (<<>> \o <<>>) \o <<>> = <<>>
  BY <1>2, ConcatEmptySeq
<1> QED
  BY <1>1, <1>4, <1>5 DEF Init, Inv

\* The bytes a relay step writes are those that follow what the client has.
LEMMA Written ==
  ASSUME TypeOK, Inv, pc = "relay", NEW n \in 0..Len(acc)
  PROVE  /\ got \o SubSeq(acc, 1, n) \in Seq(Bytes)
         /\ Prefix(got \o SubSeq(acc, 1, n), sent)
<1> USE DEF TypeOK
<1>1. SubSeq(acc, 1, n) \in Seq(Bytes)
  BY SplitAt
<1>2. got \o SubSeq(acc, 1, n) \in Seq(Bytes) /\ got \o acc \in Seq(Bytes)
  BY <1>1, ConcatProperties
<1>3. Prefix(got \o SubSeq(acc, 1, n), got \o acc)
  BY PrefixExtends
<1>4. Prefix(got \o acc, (got \o acc) \o wire)
  BY <1>2, PrefixOfConcat
<1>5. sent = (got \o acc) \o wire
  BY DEF Inv
<1>6. Prefix(got \o acc, sent)
  BY <1>4, <1>5
<1> QED
  BY <1>2, <1>3, <1>6, PrefixTransitive

LEMMA WrittenAll ==
  ASSUME TypeOK, Inv, pc = "relay"
  PROVE  Prefix(got \o acc, sent)
<1>1. Len(acc) \in 0..Len(acc) /\ SubSeq(acc, 1, Len(acc)) = acc
  BY LenProperties, SubSeqFull DEF TypeOK
<1> QED
  BY <1>1, Written

LEMMA SendInv == TypeOK /\ Inv /\ SendByte => Inv'
<1> SUFFICES ASSUME TypeOK, Inv, SendByte PROVE Inv'
  OBVIOUS
<1> USE DEF TypeOK, SendByte
<1> DEFINE e == body[Len(sent) + 1]
<1>0. Len(sent) \in Nat /\ Len(body) \in Nat /\ Len(got) \in Nat
  BY LenProperties
<1>1. e \in Bytes /\ <<e>> \in Seq(Bytes)
  BY <1>0, ElementOfSeq
<1>2. sent' \in Seq(Bytes) /\ sent' = sent \o <<e>> /\ wire' = wire \o <<e>>
  BY <1>1, AppendProperties, AppendIsConcat
<1>3. Prefix(sent', body')
  <2>1. /\ Len(sent') = Len(sent) + 1 /\ sent'[Len(sent) + 1] = e
        /\ \A i \in 1..Len(sent) : sent'[i] = sent[i]
    BY <1>1, AppendProperties
  <2>2. \A i \in 1..Len(sent) : sent[i] = body[i]
    BY PrefixByElements DEF Inv
  <2>3. \A i \in 1..Len(sent') : sent'[i] = body[i]
    BY <1>0, <2>1, <2>2
  <2> QED
    <3>1. Len(sent') <= Len(body)
      BY <1>0, <2>1
    <3>2. Prefix(sent', body)
      BY <1>2, <2>3, <3>1, PrefixByElements
    <3> QED
      BY <3>2
<1>4. Prefix(got', sent')
  <2>1. Prefix(sent, sent \o <<e>>)
    BY <1>1, PrefixOfConcat
  <2>2. Prefix(got, sent)
    BY DEF Inv
  <2>3. Prefix(got, sent \o <<e>>)
    BY <1>2, <2>1, <2>2, PrefixTransitive
  <2> QED
    BY <1>2, <2>3
<1>5. pc' \in {"head", "relay"} => sent' = (got' \o acc') \o wire'
  <2> SUFFICES ASSUME pc \in {"head", "relay"} PROVE sent' = (got \o acc) \o wire'
    OBVIOUS
  <2>1. got \o acc \in Seq(Bytes)
    BY ConcatProperties
  <2>2. sent = (got \o acc) \o wire
    BY DEF Inv
  <2> HIDE DEF e, SendByte
  <2>3. ((got \o acc) \o wire) \o <<e>> = (got \o acc) \o (wire \o <<e>>)
    BY <1>1, <2>1, Associative, Zenon
  <2> QED
    BY <1>2, <2>2, <2>3
<1>6. (pc = "head" => acc = <<>> /\ got = <<>>)'
  BY DEF Inv
<1>7. (pc = "done" => (fin /\ got = sent) \/ EndsInTerminal(got))'
  BY DEF Inv, EndsInTerminal
<1> QED
  BY <1>3, <1>4, <1>5, <1>6, <1>7 DEF Inv

LEMMA ReadInv == TypeOK /\ Inv /\ (ReadHead \/ Read) => Inv'
<1> SUFFICES ASSUME TypeOK, Inv, ReadHead \/ Read PROVE Inv'
  OBVIOUS
<1> USE DEF TypeOK
<1>1. PICK n \in 0..Len(wire) :
        /\ acc' = acc \o SubSeq(wire, 1, n)
        /\ wire' = SubSeq(wire, n + 1, Len(wire))
  <2>0. Len(wire) \in Nat
    BY LenProperties
  <2>1. CASE ReadHead
    <3>1. PICK n \in 0..Len(wire) : /\ acc' = SubSeq(wire, 1, n)
                                   /\ wire' = SubSeq(wire, n + 1, Len(wire))
      BY <2>1 DEF ReadHead
    <3>2. acc = <<>>
      BY <2>1 DEF ReadHead, Inv
    <3>3. SubSeq(wire, 1, n) \in Seq(Bytes)
      BY SplitAt
    <3> QED
      BY <3>1, <3>2, <3>3, ConcatEmptySeq
  <2>2. CASE Read
    <3>1. PICK n \in 1..Len(wire) : /\ acc' = acc \o SubSeq(wire, 1, n)
                                   /\ wire' = SubSeq(wire, n + 1, Len(wire))
      BY <2>2 DEF Read
    <3>2. n \in 0..Len(wire)
      BY <2>0
    <3> QED
      BY <3>1, <3>2
  <2> QED
    BY <2>1, <2>2
<1>2. /\ SubSeq(wire, 1, n) \in Seq(Bytes) /\ SubSeq(wire, n + 1, Len(wire)) \in Seq(Bytes)
      /\ SubSeq(wire, 1, n) \o SubSeq(wire, n + 1, Len(wire)) = wire
  BY SplitAt
<1>3. pc' = "relay" /\ UNCHANGED <<body, sent, fin, got>>
  BY DEF ReadHead, Read
<1>4. sent = (got \o acc) \o wire
  BY DEF ReadHead, Read, Inv
<1>5. (got \o acc') \o wire' = (got \o acc) \o wire
  <2> DEFINE p == SubSeq(wire, 1, n)
             q == SubSeq(wire, n + 1, Len(wire))
  <2>1. p \in Seq(Bytes) /\ q \in Seq(Bytes) /\ p \o q = wire /\ acc' = acc \o p /\ wire' = q
    BY <1>1, <1>2
  <2> HIDE DEF p, q
  <2>2. got \o acc \in Seq(Bytes)
    BY ConcatProperties
  <2>3. p \in Seq(Bytes) /\ q \in Seq(Bytes)
    BY <2>1
  <2>4. (got \o acc) \o p = got \o (acc \o p)
    BY <2>3, Associative, Zenon
  <2>5. ((got \o acc) \o p) \o q = (got \o acc) \o (p \o q)
    BY <2>2, <2>3, Associative, Zenon
  <2> QED
    BY <2>1, <2>4, <2>5
<1> QED
  BY <1>3, <1>4, <1>5 DEF Inv

LEMMA RelayEndInv == TypeOK /\ Inv /\ RelayEnd => Inv'
<1> SUFFICES ASSUME TypeOK, Inv, RelayEnd PROVE Inv'
  OBVIOUS
<1> USE DEF TypeOK
<1>1. PICK end \in 5..Len(acc) : FindChunkEnd(end) /\ got' = got \o SubSeq(acc, 1, end)
  BY DEF RelayEnd
<1>2. end \in 0..Len(acc) /\ Len(acc) \in Nat /\ Len(got) \in Nat
  BY LenProperties
<1>3. Prefix(got', sent)
  BY <1>1, <1>2, Written DEF RelayEnd
<1>4. EndsInTerminal(got')
  <2> DEFINE p == SubSeq(acc, 1, end)
  <2>1. p \in Seq(Bytes) /\ Len(p) = end
    BY <1>2, SplitAt
  <2>2. SubSeq(p, end - 4, end) = Terminal
    <3>1. 1 \in 1..Len(acc) /\ end \in 1..Len(acc) /\ end - 4 \in 1..end - 1 + 1
          /\ end \in 1..end - 1 + 1
      BY <1>2
    <3>2. SubSeq(p, end - 4, end) = SubSeq(acc, 1 + (end - 4) - 1, 1 + end - 1)
      BY <2>1, <3>1, SubSeqOfSubSeq
    <3>3. 1 + (end - 4) - 1 = end - 4 /\ 1 + end - 1 = end
      BY <1>2
    <3> QED
      BY <1>1, <3>2, <3>3 DEF FindChunkEnd, Ends
  <2> HIDE DEF p
  <2>3. Len(got \o p) = Len(got) + end
    BY <2>1, ConcatProperties
  <2>4. SubSeq(got \o p, Len(got) + end - 4, Len(got) + end) = SubSeq(p, end - 4, end)
    <3>1. /\ Len(got) + end - 4 \in Len(got) + 1..Len(got) + Len(p)
          /\ Len(got) + end \in Len(got) + 1..Len(got) + Len(p)
          /\ (Len(got) + end - 4) - Len(got) = end - 4
          /\ (Len(got) + end) - Len(got) = end
      BY <1>2, <2>1
    <3> QED
      BY <2>1, <3>1, SubSeqOfConcat2
  <2>5. Len(got) + end >= 5
    BY <1>2
  <2>6. EndsInTerminal(got \o p)
    <3>1. SubSeq(got \o p, Len(got \o p) - 4, Len(got \o p)) = Terminal
      <4>1. SubSeq(got \o p, Len(got) + end - 4, Len(got) + end) = Terminal
        BY <2>2, <2>4, Zenon
      <4>2. Len(got \o p) - 4 = Len(got) + end - 4
        BY <1>2, <2>3
      <4> QED
        BY <2>3, <4>1, <4>2
    <3>2. Len(got \o p) >= 5
      BY <2>3, <2>5
    <3> QED
      BY <3>1, <3>2, Zenon DEF EndsInTerminal
  <2> QED
    BY <1>1, <2>6 DEF p
<1> QED
  BY <1>3, <1>4 DEF RelayEnd, Inv

LEMMA NextInv == TypeOK /\ Inv /\ [Next]_vars => Inv'
<1> SUFFICES ASSUME TypeOK, Inv, [Next]_vars PROVE Inv'
  OBVIOUS
<1>1. CASE SendByte
  BY <1>1, SendInv
<1>2. CASE ReadHead \/ Read
  BY <1>2, ReadInv
<1>3. CASE RelayEnd
  BY <1>3, RelayEndInv
<1>4. CASE Close
  BY <1>4 DEF Close, Inv, EndsInTerminal
<1>5. CASE Flush
  <2>1. got \o acc \in Seq(Bytes)
    BY ConcatProperties DEF TypeOK
  <2>2. Prefix(got', sent)
    BY <1>5, WrittenAll DEF Flush
  <2>3. (got \o acc) \o <<>> = got \o acc
    BY <2>1, ConcatEmptySeq
  <2> QED
    BY <1>5, <2>2, <2>3 DEF Flush, Inv
<1>6. CASE Eof
  <2>1. got \o acc \in Seq(Bytes)
    BY ConcatProperties DEF TypeOK
  <2>2. Prefix(got', sent)
    BY <1>6, WrittenAll DEF Eof
  <2>3. (got \o acc) \o <<>> = got \o acc
    BY <2>1, ConcatEmptySeq
  <2>4. sent = (got \o acc) \o <<>>
    BY <1>6 DEF Eof, Inv
  <2> QED
    BY <1>6, <2>2, <2>3, <2>4 DEF Eof, Inv
<1>7. CASE Break
  BY <1>7 DEF Break, Inv
<1>8. CASE UNCHANGED vars
  BY <1>8 DEF vars, Inv, EndsInTerminal
<1> QED
  BY <1>1, <1>2, <1>3, <1>4, <1>5, <1>6, <1>7, <1>8 DEF Next, RelayStep

LEMMA Invariant == Spec => [](TypeOK /\ Inv)
<1>1. TypeOK /\ Inv /\ [Next]_vars => (TypeOK /\ Inv)'
  BY NextTypeOK, NextInv
<1> QED
  BY InitInv, <1>1, PTL DEF Spec

-----------------------------------------------------------------------------

LEMMA EndOfBody == TypeOK /\ Inv => WholeUnlessImitated
<1> SUFFICES ASSUME TypeOK, Inv, ~Imitates(body), pc = "done", fin => sent = body
             PROVE  got = body
  BY DEF WholeUnlessImitated, EndsAtTerminalChunk
<1>1. Len(got) \in Nat /\ Len(body) \in Nat
  BY LenProperties DEF TypeOK
<1>2. Prefix(got, body)
  BY PrefixTransitive DEF TypeOK, Inv
<1>3. CASE fin /\ got = sent
  BY <1>3
<1>4. CASE EndsInTerminal(got) /\ Len(got) < Len(body)
  <2>1. Len(got) >= 5 /\ SubSeq(got, Len(got) - 4, Len(got)) = Terminal
    BY <1>4 DEF EndsInTerminal
  <2>2. got = SubSeq(body, 1, Len(got))
    BY <1>2 DEF Prefix
  <2>3. SubSeq(SubSeq(body, 1, Len(got)), Len(got) - 4, Len(got))
          = SubSeq(body, 1 + (Len(got) - 4) - 1, 1 + Len(got) - 1)
    <3>1. /\ 1 \in 1..Len(body) /\ Len(got) \in 1..Len(body)
          /\ Len(got) - 4 \in 1..Len(got) - 1 + 1 /\ Len(got) \in 1..Len(got) - 1 + 1
      BY <1>1, <1>4, <2>1
    <3>2. body \in Seq(Bytes)
      BY DEF TypeOK
    <3> QED
      BY <3>1, <3>2, SubSeqOfSubSeq
  <2>4. /\ 1 + (Len(got) - 4) - 1 = Len(got) - 4 /\ 1 + Len(got) - 1 = (Len(got) - 4) + 4
        /\ Len(got) - 4 \in 1..(Len(body) - 5)
    BY <1>1, <1>4, <2>1
  <2>5. SubSeq(body, Len(got) - 4, (Len(got) - 4) + 4) = Terminal
    BY <2>1, <2>2, <2>3, <2>4, Zenon
  <2>6. Imitates(body)
    BY <2>4, <2>5, Zenon DEF Imitates
  <2> QED
    BY <2>6
<1>5. CASE EndsInTerminal(got) /\ ~(Len(got) < Len(body))
  <2>1. Len(body) <= Len(got)
    BY <1>1, <1>5
  <2> QED
    BY <1>2, <2>1, PrefixWhole DEF TypeOK
<1> QED
  BY <1>3, <1>4, <1>5 DEF Inv

\* A body in which nothing imitates the terminal chunk reaches the client whole
\* (proxy_server.rs:558-587).
THEOREM BodyIsWhole == Spec => []WholeUnlessImitated
  BY Invariant, EndOfBody, PTL

-----------------------------------------------------------------------------

\* Writing a part of acc is a delivery of the pipe, or nothing.
LEMMA Delivered ==
  ASSUME TypeOK, Inv, pc = "relay", NEW n \in 0..Len(acc),
         got' = got \o SubSeq(acc, 1, n), UNCHANGED <<sent, fin>>
  PROVE  [Pipe!Next]_(Pipe!pipeVars)
<1>1. Len(acc) \in Nat /\ Len(got) \in Nat /\ Len(sent) \in Nat
  BY LenProperties DEF TypeOK
<1>2. SubSeq(acc, 1, n) \in Seq(Bytes) /\ Len(SubSeq(acc, 1, n)) = n
  BY SplitAt DEF TypeOK
<1>3. Len(got') = Len(got) + n
  BY <1>2, ConcatProperties DEF TypeOK
<1>4. Len(got') <= Len(sent) /\ got' = SubSeq(sent, 1, Len(got'))
  BY Written DEF Prefix
<1>5. CASE n = 0
  <2>1. SubSeq(acc, 1, n) = <<>>
    BY <1>2, <1>5, EmptySeq
  <2>2. got' = got
    BY <2>1, ConcatEmptySeq DEF TypeOK
  <2> QED
    BY <2>2 DEF Pipe!pipeVars
<1>6. CASE n # 0
  <2>1. Len(got') \in (Len(got) + 1)..Len(sent)
    BY <1>1, <1>3, <1>4, <1>6
  <2> QED
    BY <1>4, <2>1 DEF Pipe!Next, Pipe!Deliver
<1> QED
  BY <1>5, <1>6

LEMMA NextPipe == TypeOK /\ Inv /\ [Next]_vars => [Pipe!Next]_(Pipe!pipeVars)
<1> SUFFICES ASSUME TypeOK, Inv, [Next]_vars PROVE [Pipe!Next]_(Pipe!pipeVars)
  OBVIOUS
<1>0. Len(acc) \in Nat /\ Len(sent) \in Nat /\ Len(body) \in Nat
  BY LenProperties DEF TypeOK
<1>1. CASE SendByte
  <2>1. body[Len(sent) + 1] \in Bytes
    BY <1>0, <1>1, ElementOfSeq DEF SendByte, TypeOK
  <2> QED
    BY <1>1, <2>1 DEF SendByte, Pipe!Next, Pipe!Send
<1>2. CASE Close
  BY <1>2 DEF Close, Pipe!Next, Pipe!Finish
<1>3. CASE ReadHead \/ Read \/ Break \/ UNCHANGED vars
  BY <1>3 DEF ReadHead, Read, Break, vars, Pipe!pipeVars
<1>4. CASE RelayEnd
  <2>1. PICK end \in 5..Len(acc) : got' = got \o SubSeq(acc, 1, end)
    BY <1>4 DEF RelayEnd
  <2>2. end \in 0..Len(acc)
    BY <1>0
  <2> QED
    BY <1>4, <2>1, <2>2, Delivered DEF RelayEnd
<1>5. CASE Flush \/ Eof
  <2>1. Len(acc) \in 0..Len(acc) /\ SubSeq(acc, 1, Len(acc)) = acc
    BY <1>0, SubSeqFull DEF TypeOK
  <2>2. pc = "relay" /\ got' = got \o SubSeq(acc, 1, Len(acc)) /\ UNCHANGED <<sent, fin>>
    BY <1>5, <2>1 DEF Flush, Eof
  <2> QED
    BY <2>1, <2>2, Delivered
<1> QED
  BY <1>1, <1>2, <1>3, <1>4, <1>5 DEF Next, RelayStep

\* The relay of a chunked body implements a pipe: nothing is lost, doubled or out of
\* order on the way to the client (proxy_server.rs:558-587).
THEOREM RelayImplementsPipe == Spec => RelayIsPipe
<1>1. Init => Pipe!Init
  BY DEF Init, Pipe!Init
<1> QED
  BY Invariant, <1>1, NextPipe, PTL DEF Spec, RelayIsPipe, Pipe!Spec

=============================================================================
