---------------------------- MODULE StreamProofs ----------------------------
(***************************************************************************)
(* Lemmas about streams of parts: what arrived, what is in flight behind   *)
(* it, and a step that moves some of it on.  Concatenation and the rest of *)
(* a sequence have names of their own here, so that the proofs about       *)
(* Tunnel and PlainHttp can use the lemmas without unfolding them.         *)
(***************************************************************************)
EXTENDS Integers, Sequences, SequenceTheorems, TLAPS

\* What follows the first k parts of s.
From(s, k) == SubSeq(s, k + 1, Len(s))

LEMMA FromProperties ==
    ASSUME NEW S, NEW s \in Seq(S), NEW k \in 0..Len(s)
    PROVE  /\ From(s, k) \in Seq(S) /\ Len(From(s, k)) = Len(s) - k
           /\ \A i \in 1..Len(s) - k : From(s, k)[i] = s[k + i]
<1>1. Len(s) \in Nat /\ \A i \in k + 1..Len(s) : i \in 1..Len(s)
  BY LenProperties
<1>2. \A i \in k + 1..Len(s) : s[i] \in S
  BY <1>1, ElementOfSeq
<1>3. /\ SubSeq(s, k + 1, Len(s)) \in Seq(S)
      /\ Len(SubSeq(s, k + 1, Len(s))) = IF k + 1 <= Len(s) THEN Len(s) - (k + 1) + 1 ELSE 0
      /\ \A i \in 1..Len(s) - (k + 1) + 1 : SubSeq(s, k + 1, Len(s))[i] = s[k + 1 + i - 1]
  BY <1>1, <1>2, SubSeqProperties
<1> QED
  BY <1>1, <1>3 DEF From

LEMMA FromEnd ==
    ASSUME NEW S, NEW s \in Seq(S), NEW k \in Nat, k >= Len(s)
    PROVE  From(s, k) = <<>>
  BY LenProperties, SubSeqEmpty DEF From

LEMMA FromZero ==
    ASSUME NEW S, NEW s \in Seq(S)
    PROVE  From(s, 0) = s
  BY SubSeqFull DEF From

LEMMA FromAppend ==
    ASSUME NEW S, NEW s \in Seq(S), NEW p \in S, NEW k \in 0..Len(s)
    PROVE  From(Append(s, p), k) = Append(From(s, k), p)
<1> DEFINE t == Append(s, p)
           u == From(s, k)
<1>1. Len(s) \in Nat /\ t \in Seq(S) /\ Len(t) = Len(s) + 1
      /\ (\A i \in 1..Len(s) : t[i] = s[i]) /\ t[Len(s) + 1] = p
  BY LenProperties, AppendProperties
<1>2. u \in Seq(S) /\ Len(u) = Len(s) - k /\ \A i \in 1..Len(s) - k : u[i] = s[k + i]
  BY FromProperties
<1>3. /\ Append(u, p) \in Seq(S) /\ Len(Append(u, p)) = Len(u) + 1
      /\ (\A i \in 1..Len(u) : Append(u, p)[i] = u[i]) /\ Append(u, p)[Len(u) + 1] = p
  BY <1>2, AppendProperties
<1>4. k \in 0..Len(t)
  BY <1>1
<1>5. /\ From(t, k) \in Seq(S) /\ Len(From(t, k)) = Len(t) - k
      /\ \A i \in 1..Len(t) - k : From(t, k)[i] = t[k + i]
  BY <1>1, <1>4, FromProperties
<1> HIDE DEF t, u
<1>6. Len(From(t, k)) = Len(Append(u, p))
  BY <1>1, <1>2, <1>3, <1>5
<1>7. ASSUME NEW i \in 1..Len(From(t, k))
      PROVE  From(t, k)[i] = Append(u, p)[i]
  <2>1. CASE i \in 1..Len(u)
    BY <1>1, <1>2, <1>3, <1>5, <2>1
  <2>2. CASE i = Len(u) + 1
    <3>1. i \in 1..Len(t) - k /\ k + i = Len(s) + 1
      BY <1>1, <1>2, <2>2
    <3> QED
      BY <1>1, <1>3, <1>5, <2>2, <3>1
  <2>3. i \in 1..Len(u) \/ i = Len(u) + 1
    BY <1>1, <1>2, <1>5
  <2> QED
    BY <2>1, <2>2, <2>3
<1>8. From(t, k) = Append(u, p)
  BY <1>3, <1>5, <1>6, <1>7, SeqEqual
<1> QED
  BY <1>8 DEF t, u

LEMMA FromFrom ==
    ASSUME NEW S, NEW s \in Seq(S), NEW k \in 0..Len(s), NEW n \in 0..Len(s) - k
    PROVE  From(From(s, k), n) = From(s, k + n)
<1> DEFINE t == From(s, k)
<1>1. t \in Seq(S) /\ Len(t) = Len(s) - k /\ \A i \in 1..Len(s) - k : t[i] = s[k + i]
  BY FromProperties
<1>2. Len(s) \in Nat /\ k + n \in 0..Len(s)
  BY LenProperties
<1>3. /\ From(s, k + n) \in Seq(S) /\ Len(From(s, k + n)) = Len(s) - (k + n)
      /\ \A i \in 1..Len(s) - (k + n) : From(s, k + n)[i] = s[k + n + i]
  BY <1>2, FromProperties
<1> HIDE DEF t
<1>4. n \in 0..Len(t)
  BY <1>1
<1>5. /\ From(t, n) \in Seq(S) /\ Len(From(t, n)) = Len(t) - n
      /\ \A i \in 1..Len(t) - n : From(t, n)[i] = t[n + i]
  BY <1>1, <1>4, FromProperties
<1>6. Len(From(t, n)) = Len(From(s, k + n))
  <2>1. Len(s) - k - n = Len(s) - (k + n)
    BY <1>2
  <2>2. Len(From(t, n)) = Len(s) - k - n
    BY <1>1, <1>5
  <2> QED
    BY <1>3, <2>1, <2>2
<1>7. ASSUME NEW i \in 1..Len(From(t, n))
      PROVE  From(t, n)[i] = From(s, k + n)[i]
  <2>1. i \in 1..Len(t) - n /\ n + i \in 1..Len(s) - k /\ i \in 1..Len(s) - (k + n)
        /\ k + (n + i) = k + n + i
    BY <1>1, <1>2, <1>5
  <2> QED
    BY <1>1, <1>3, <1>5, <2>1
<1>8. From(t, n) = From(s, k + n)
  BY <1>3, <1>5, <1>6, <1>7, SeqEqual
<1> QED
  BY <1>8 DEF t

LEMMA TailIsFrom ==
    ASSUME NEW S, NEW s \in Seq(S), s # <<>>
    PROVE  Tail(s) = From(s, 1)
  BY TailIsSubSeq DEF From

LEMMA Regrouped ==
    ASSUME NEW S, NEW got \in Seq(S), NEW a \in Seq(S), NEW z \in Seq(S),
           NEW flight, flight = a \o z
    PROVE  (got \o a) \o z = got \o flight
  BY ConcatAssociative

\* What arrived, and what is in flight behind it.
Joined(s, t) == s \o t

LEMMA JoinedEmpty ==
    ASSUME NEW S, NEW s \in Seq(S)
    PROVE  Joined(<<>>, s) = s /\ Joined(s, <<>>) = s
  BY ConcatEmptySeq DEF Joined

\* A part moves from the front of what is in flight to the end of what has arrived.
LEMMA Moved ==
    ASSUME NEW S, NEW got \in Seq(S), NEW flight \in Seq(S), NEW n \in 1..Len(flight)
    PROVE  LET all == Joined(got, flight)
               now == Joined(got, SubSeq(flight, 1, n)) IN
           /\ now \in Seq(S) /\ From(flight, n) \in Seq(S)
           /\ Joined(now, From(flight, n)) = all
           /\ Len(now) = Len(got) + n /\ Len(got) + n \in (Len(got) + 1)..Len(all)
           /\ now = SubSeq(all, 1, Len(got) + n)
<1> DEFINE a   == SubSeq(flight, 1, n)
           z   == From(flight, n)
           all == got \o flight
           now == got \o a
<1>1. Len(got) \in Nat /\ Len(flight) \in Nat /\ all \in Seq(S)
      /\ Len(all) = Len(got) + Len(flight)
  BY LenProperties, ConcatProperties
<1>2. \A i \in 1..n : flight[i] \in S
  BY <1>1, ElementOfSeq
<1>3. a \in Seq(S) /\ Len(a) = n
  BY <1>1, <1>2, SubSeqProperties
<1>4. z \in Seq(S)
  BY <1>1, FromProperties
<1>5. a \o z = flight
  <2>1. 1 \in 1..Len(flight) + 1 /\ n \in 1 - 1..Len(flight) /\ Len(flight) \in n..Len(flight)
    BY <1>1
  <2>2. SubSeq(flight, 1, n) \o SubSeq(flight, n + 1, Len(flight))
          = SubSeq(flight, 1, Len(flight))
    BY <2>1, ConcatAdjacentSubSeq
  <2> QED
    BY <2>2, SubSeqFull DEF From
<1> HIDE DEF a, z
<1>6. now \in Seq(S) /\ Len(now) = Len(got) + n
  BY <1>3, ConcatProperties
<1>7. now \o z = all
  <2>1. a \in Seq(S) /\ flight = a \o z
    BY <1>3, <1>5
  <2>2. (got \o a) \o z = got \o flight
    BY <1>4, <2>1, Regrouped
  <2> QED
    BY <2>2
<1>8. now = SubSeq(all, 1, Len(got) + n)
  <2> HIDE DEF now
  <2>1. 1 \in 1..Len(now) /\ Len(got) + n \in 1..Len(now)
    BY <1>1, <1>6
  <2>2. SubSeq(now \o z, 1, Len(got) + n) = SubSeq(now, 1, Len(got) + n)
    BY <1>4, <1>6, <2>1, SubSeqOfConcat1
  <2>3. SubSeq(now, 1, Len(got) + n) = now
    BY <1>6, SubSeqFull
  <2> QED
    BY <1>7, <2>2, <2>3
<1>9. Len(got) + n \in (Len(got) + 1)..Len(all)
  BY <1>1
<1> QED
  BY <1>4, <1>6, <1>7, <1>8, <1>9 DEF a, z, Joined

LEMMA AppendInFlight ==
    ASSUME NEW S, NEW got \in Seq(S), NEW flight \in Seq(S), NEW p \in S
    PROVE  Append(Joined(got, flight), p) = Joined(got, Append(flight, p))
<1>1. <<p>> \in Seq(S) /\ Append(flight, p) = flight \o <<p>>
  BY AppendIsConcat
<1>2. got \o flight \in Seq(S)
  BY ConcatProperties
<1>3. Append(got \o flight, p) = (got \o flight) \o <<p>>
  BY <1>2, AppendIsConcat
<1> QED
  BY <1>1, <1>3, ConcatAssociative DEF Joined

LEMMA FromJoined ==
    ASSUME NEW S, NEW s \in Seq(S), NEW t \in Seq(S), NEW k \in 0..Len(s)
    PROVE  From(Joined(s, t), k) = Joined(From(s, k), t)
<1> DEFINE u == s \o t
           v == From(s, k)
<1>1. Len(s) \in Nat /\ Len(t) \in Nat /\ u \in Seq(S) /\ Len(u) = Len(s) + Len(t)
      /\ \A i \in 1..Len(s) + Len(t) : u[i] = IF i <= Len(s) THEN s[i] ELSE t[i - Len(s)]
  BY LenProperties, ConcatProperties
<1>2. v \in Seq(S) /\ Len(v) = Len(s) - k /\ \A i \in 1..Len(s) - k : v[i] = s[k + i]
  BY FromProperties
<1>3. /\ v \o t \in Seq(S) /\ Len(v \o t) = Len(v) + Len(t)
      /\ \A i \in 1..Len(v) + Len(t) :
            (v \o t)[i] = IF i <= Len(v) THEN v[i] ELSE t[i - Len(v)]
  BY <1>2, ConcatProperties
<1>4. k \in 0..Len(u)
  BY <1>1
<1>5. /\ From(u, k) \in Seq(S) /\ Len(From(u, k)) = Len(u) - k
      /\ \A i \in 1..Len(u) - k : From(u, k)[i] = u[k + i]
  BY <1>1, <1>4, FromProperties
<1> DEFINE w == v \o t
<1> HIDE DEF u, v, w
<1>6. Len(From(u, k)) = Len(w)
  BY <1>1, <1>2, <1>3, <1>5 DEF w
<1>7. ASSUME NEW i \in 1..Len(From(u, k))
      PROVE  From(u, k)[i] = w[i]
  <2>1. i \in 1..Len(u) - k /\ i \in 1..Len(v) + Len(t)
    BY <1>1, <1>2, <1>5
  <2>2. From(u, k)[i] = IF k + i <= Len(s) THEN s[k + i] ELSE t[k + i - Len(s)]
    BY <1>1, <1>5, <2>1
  <2>3. w[i] = IF i <= Len(v) THEN v[i] ELSE t[i - Len(v)]
    BY <1>3, <2>1 DEF w
  <2>4. CASE i <= Len(v)
    <3>1. k + i <= Len(s) /\ i \in 1..Len(s) - k
      BY <1>1, <1>2, <2>1, <2>4
    <3> QED
      BY <1>2, <2>2, <2>3, <2>4, <3>1
  <2>5. CASE ~(i <= Len(v))
    <3>1. ~(k + i <= Len(s)) /\ i - Len(v) = k + i - Len(s)
      BY <1>1, <1>2, <2>1, <2>5
    <3> QED
      BY <2>2, <2>3, <2>5, <3>1
  <2> QED
    BY <2>4, <2>5
<1>8. From(u, k) = w
  BY <1>3, <1>5, <1>6, <1>7, SeqEqual DEF w
<1> QED
  BY <1>8 DEF u, v, w, Joined

LEMMA JoinedProperties ==
    ASSUME NEW S, NEW s \in Seq(S), NEW t \in Seq(S)
    PROVE  /\ Joined(s, t) \in Seq(S) /\ Len(Joined(s, t)) = Len(s) + Len(t)
           /\ \A i \in 1..Len(s) + Len(t) :
                 Joined(s, t)[i] = IF i <= Len(s) THEN s[i] ELSE t[i - Len(s)]
  BY ConcatProperties DEF Joined

LEMMA JoinedAssociative ==
    ASSUME NEW S, NEW r \in Seq(S), NEW s \in Seq(S), NEW t \in Seq(S)
    PROVE  Joined(r, Joined(s, t)) = Joined(Joined(r, s), t)
  BY ConcatAssociative DEF Joined

\* What was read and what was not make up what there was.
LEMMA Divided ==
    ASSUME NEW S, NEW s \in Seq(S), NEW n \in 1..Len(s)
    PROVE  Joined(SubSeq(s, 1, n), From(s, n)) = s
<1>1. 1 \in 1..Len(s) + 1 /\ n \in 1 - 1..Len(s) /\ Len(s) \in n..Len(s)
  BY LenProperties
<1>2. SubSeq(s, 1, n) \o SubSeq(s, n + 1, Len(s)) = SubSeq(s, 1, Len(s))
  BY <1>1, ConcatAdjacentSubSeq
<1> QED
  BY <1>2, SubSeqFull DEF From, Joined

\* The next part goes from what is to come to what is in flight.
LEMMA NextMoved ==
    ASSUME NEW S, NEW s \in Seq(S), NEW t \in Seq(S), t # <<>>
    PROVE  Joined(Append(s, Head(t)), Tail(t)) = Joined(s, t)
<1> DEFINE h == t[1]
           z == Tail(t)
<1>1. Len(t) \in Nat \ {0} /\ Head(t) = h /\ h \in S /\ z \in Seq(S)
  BY LenProperties, EmptySeq, HeadTailProperties
<1>2. t = <<h>> \o z
  <2>1. 1 \in 1..Len(t) /\ Len(t) \in 1..Len(t)
    BY <1>1
  <2>2. SubSeq(t, 1, Len(t)) = <<t[1]>> \o SubSeq(t, 1 + 1, Len(t))
    BY <2>1, SubSeqRecursiveFirst
  <2>3. SubSeq(t, 1, Len(t)) = t /\ SubSeq(t, 1 + 1, Len(t)) = Tail(t)
    BY SubSeqFull, TailIsSubSeq
  <2> QED
    BY <2>2, <2>3
<1> HIDE DEF h, z
<1>3. <<h>> \in Seq(S)
  BY <1>1
<1>4. Append(s, h) = s \o <<h>>
  BY <1>1, AppendIsConcat
<1>5. (s \o <<h>>) \o z = s \o t
  BY <1>1, <1>2, <1>3, Regrouped
<1> QED
  BY <1>1, <1>4, <1>5 DEF Joined, z

\* The first part and the others that were read.
LEMMA FirstAndRest ==
    ASSUME NEW S, NEW s \in Seq(S), NEW n \in 1..Len(s)
    PROVE  Joined(<<s[1]>>, SubSeq(s, 2, n)) = SubSeq(s, 1, n)
<1>1. 1 \in 1..Len(s) /\ n \in 1..Len(s)
  BY LenProperties
<1>2. SubSeq(s, 1, n) = <<s[1]>> \o SubSeq(s, 1 + 1, n)
  BY <1>1, SubSeqRecursiveFirst
<1> QED
  BY <1>2 DEF Joined

=============================================================================
