--------------------------- MODULE Sockets_proofs ---------------------------
(***************************************************************************)
(* Proofs about Sockets, for any stream, reply, buffer and number of       *)
(* datagrams: readline() neither loses nor doubles a byte and returns one  *)
(* line at a time, writen() sends replies in sequence, and the programs    *)
(* with datagrams are in step as far as the network allows.  Each has an   *)
(* invariant of its own, ReaderInv, WriterInv and DatagramsInv.  The first *)
(* part is about FlattenSeq, which the first two are stated with.          *)
(***************************************************************************)
EXTENDS Sockets, SequencesExt, FiniteSetTheorems, SequenceTheorems, WellFoundedInduction, TLAPS

-----------------------------------------------------------------------------
(* Sequences of sequences, laid end to end. *)

LEMMA Least ==
    ASSUME NEW B, B \subseteq Nat, B # {}
    PROVE  \E least \in B : \A k \in B : least <= k
  <1>1. PICK least \in B : \A k \in B : ~ (<<k, least>> \in OpToRel(<, Nat))
    BY NatLessThanWellFounded, WFMin, Zenon
  <1>2. \A k \in B : ~(k < least)
    BY <1>1 DEF OpToRel
  <1> QED
    BY <1>2

(* flat[i] is the first i sequences, end to end. *)
IsFlat(seqs, flat, N) ==
    /\ flat = [i \in 1..N |-> flat[i]]
    /\ \A i \in 1..N : flat[i] = IF i = 1 THEN seqs[i] ELSE flat[i - 1] \o seqs[i]

LEMMA FlatExists ==
    ASSUME NEW E, NEW seqs \in Seq(Seq(E)), NEW N \in 0..Len(seqs)
    PROVE  \E flat \in [1..N -> Seq(E)] : IsFlat(seqs, flat, N)
  <1> DEFINE None == {k \in 0..Len(seqs) : ~ \E flat \in [1..k -> Seq(E)] : IsFlat(seqs, flat, k)}
  <1> SUFFICES ASSUME None # {} PROVE FALSE
    OBVIOUS
  <1>0. Len(seqs) \in Nat
    OBVIOUS
  <1>1. PICK k \in None : \A j \in None : k <= j
    <2>1. None \subseteq Nat
      BY <1>0
    <2> HIDE DEF None
    <2> QED
      BY <2>1, Least
  <1>2. k # 0
    <2>1. [i \in 1..0 |-> << >>] \in [1..0 -> Seq(E)]
      OBVIOUS
    <2>2. IsFlat(seqs, [i \in 1..0 |-> << >>], 0)
      BY DEF IsFlat
    <2> QED
      BY <2>1, <2>2
  <1>3. k - 1 \in 0..Len(seqs) /\ k - 1 \notin None /\ k \in 1..Len(seqs)
    <2>1. k \in 0..Len(seqs) /\ k - 1 < k
      BY <1>0
    <2>2. k - 1 \in 0..Len(seqs) /\ k \in 1..Len(seqs)
      BY <1>0, <1>2, <2>1
    <2> HIDE DEF None
    <2> QED
      BY <1>1, <2>1, <2>2
  <1>4. PICK flat \in [1..(k - 1) -> Seq(E)] : IsFlat(seqs, flat, k - 1)
    BY <1>3
  <1>5. seqs[k] \in Seq(E) /\ (k # 1 => flat[k - 1] \in Seq(E) /\ flat[k - 1] \o seqs[k] \in Seq(E))
    <2>1. seqs[k] \in Seq(E)
      BY <1>3
    <2>2. k # 1 => k - 1 \in 1..(k - 1)
      BY <1>3
    <2> QED
      BY <2>1, <2>2
  <1> DEFINE more == [i \in 1..k |-> IF i < k THEN flat[i]
                                     ELSE IF k = 1 THEN seqs[k] ELSE flat[k - 1] \o seqs[k]]
  <1>6. more \in [1..k -> Seq(E)]
    BY <1>3, <1>5
  <1>7. IsFlat(seqs, more, k)
    <2>1. more = [i \in 1..k |-> more[i]]
      BY <1>6, Zenon
    <2>2. ASSUME NEW i \in 1..k
          PROVE  more[i] = IF i = 1 THEN seqs[i] ELSE more[i - 1] \o seqs[i]
      <3>1. i # 1 => i - 1 \in 1..k /\ more[i - 1] = flat[i - 1]
        BY <1>3
      <3>2. CASE i = k
        BY <1>3, <3>1, <3>2
      <3>3. CASE i < k
        <4>1. i \in 1..(k - 1) /\ more[i] = flat[i]
          BY <1>3, <3>3
        <4> HIDE DEF more
        <4> QED
          BY <1>4, <3>1, <4>1 DEF IsFlat
      <3> QED
        BY <1>3, <3>2, <3>3
    <2> HIDE DEF more
    <2> QED
      BY <2>1, <2>2 DEF IsFlat
  <1> QED
    BY <1>3, <1>6, <1>7

Agree(f, g, N) == \A i \in 1..N : f[i] = g[i]

LEMMA FlatUnique ==
    ASSUME NEW N \in Nat, NEW M \in Nat, N <= M,
           NEW seqs, NEW others, Agree(seqs, others, N),
           NEW f, NEW g, IsFlat(seqs, f, N), IsFlat(others, g, M)
    PROVE  Agree(f, g, N)
  <1> DEFINE Bad == {i \in 1..N : f[i] # g[i]}
  <1> SUFFICES ASSUME Bad # {} PROVE FALSE
    BY DEF Agree
  <1>1. PICK k \in Bad : \A j \in Bad : k <= j
    <2>1. Bad \subseteq Nat
      OBVIOUS
    <2> HIDE DEF Bad
    <2> QED
      BY <2>1, Least
  <1>2. k \in 1..N /\ k \in 1..N /\ k \in 1..M /\ seqs[k] = others[k] /\ f[k] # g[k]
    BY DEF Agree
  <1>3. k # 1 => f[k - 1] = g[k - 1]
    <2>1. k # 1 => k - 1 \in 1..N /\ ~(k <= k - 1)
      BY <1>2
    <2> QED
      BY <1>1, <2>1
  <1>4. /\ f[k] = IF k = 1 THEN seqs[k] ELSE f[k - 1] \o seqs[k]
        /\ g[k] = IF k = 1 THEN others[k] ELSE g[k - 1] \o others[k]
    BY <1>2 DEF IsFlat
  <1> HIDE DEF Bad
  <1> QED
    BY <1>2, <1>3, <1>4

LEMMA FlattenIsFlat ==
    ASSUME NEW E, NEW seqs \in Seq(Seq(E)), Len(seqs) # 0
    PROVE  \E flat \in [1..Len(seqs) -> Seq(E)] :
              IsFlat(seqs, flat, Len(seqs)) /\ FlattenSeq(seqs) = flat[Len(seqs)]
  <1> DEFINE Table(flat) == [i \in 1..Len(seqs) |-> IF i = 1 THEN seqs[i] ELSE flat[i - 1] \o seqs[i]]
             all == CHOOSE flat : flat = Table(flat)
  <1>0. Len(seqs) \in Nat /\ Len(seqs) \in 0..Len(seqs)
    OBVIOUS
  <1>1. FlattenSeq(seqs) = all[Len(seqs)]
    BY DEF FlattenSeq
  <1>2. PICK flat \in [1..Len(seqs) -> Seq(E)] : IsFlat(seqs, flat, Len(seqs))
    BY <1>0, FlatExists
  <1>3. flat = Table(flat)
    BY <1>2 DEF IsFlat
  <1>4. all = Table(all)
    BY <1>3
  <1>5. IsFlat(seqs, all, Len(seqs))
    <2> HIDE DEF all
    <2>1. \A i \in 1..Len(seqs) : all[i] = Table(all)[i]
      BY <1>4, Zenon
    <2>2. all = [i \in 1..Len(seqs) |-> all[i]]
      BY <1>4
    <2> QED
      BY <2>1, <2>2 DEF IsFlat
  <1>6. \A i \in 1..Len(seqs) : all[i] = flat[i]
    <2> DEFINE N == Len(seqs)
    <2> HIDE DEF all
    <2>1. N \in Nat /\ N <= N /\ Agree(seqs, seqs, N)
      BY <1>0 DEF Agree
    <2>2. IsFlat(seqs, all, N) /\ IsFlat(seqs, flat, N)
      BY <1>2, <1>5
    <2> HIDE DEF N
    <2>3. Agree(all, flat, N)
      BY <2>1, <2>2, FlatUnique
    <2> QED
      BY <2>3 DEF N, Agree
  <1> HIDE DEF all, Table
  <1>7. Len(seqs) \in 1..Len(seqs)
    BY <1>0
  <1> QED
    BY <1>1, <1>2, <1>6, <1>7

LEMMA FlattenEmpty == FlattenSeq(<< >>) = << >>
  BY DEF FlattenSeq

LEMMA FlattenAppend ==
    ASSUME NEW E, NEW seqs \in Seq(Seq(E)), NEW s \in Seq(E)
    PROVE  /\ FlattenSeq(seqs) \in Seq(E)
           /\ FlattenSeq(Append(seqs, s)) = FlattenSeq(seqs) \o s
  <1> DEFINE N == Len(seqs)
             longer == Append(seqs, s)
  <1>1. /\ longer \in Seq(Seq(E)) /\ Len(longer) = N + 1 /\ N \in Nat
        /\ longer[N + 1] = s /\ \A i \in 1..N : seqs[i] = longer[i]
    OBVIOUS
  <1> HIDE DEF longer
  <1>2. PICK g \in [1..(N + 1) -> Seq(E)] :
              IsFlat(longer, g, N + 1) /\ FlattenSeq(longer) = g[N + 1]
    BY <1>1, FlattenIsFlat
  <1>3. g[N + 1] = IF N + 1 = 1 THEN s ELSE g[N] \o s
    <2>1. N + 1 \in 1..(N + 1) /\ (N + 1) - 1 = N
      BY <1>1
    <2> QED
      BY <1>1, <1>2, <2>1 DEF IsFlat
  <1>4. CASE N = 0
    <2>1. seqs = << >> /\ FlattenSeq(seqs) = << >>
      BY <1>4, FlattenEmpty
    <2>2. << >> \o s = s
      OBVIOUS
    <2>3. FlattenSeq(longer) = s
      BY <1>1, <1>2, <1>3, <1>4
    <2>4. << >> \in Seq(E)
      OBVIOUS
    <2>5. FlattenSeq(seqs) \o s = s /\ FlattenSeq(seqs) \in Seq(E)
      BY <2>1, <2>2, <2>4, Zenon
    <2> QED
      BY <2>3, <2>5 DEF longer
  <1>5. CASE N # 0
    <2>1. PICK f \in [1..N -> Seq(E)] : IsFlat(seqs, f, N) /\ FlattenSeq(seqs) = f[N]
      BY <1>5, FlattenIsFlat
    <2>2. Agree(f, g, N)
      <3>1. N + 1 \in Nat /\ N <= N + 1 /\ N \in Nat /\ Agree(seqs, longer, N)
        BY <1>1 DEF Agree
      <3> DEFINE M == N + 1
      <3>2. IsFlat(longer, g, M)
        BY <1>2
      <3> HIDE DEF N, M
      <3> QED
        BY <2>1, <3>1, <3>2, FlatUnique DEF M
    <2>3. N \in 1..N
      BY <1>1, <1>5
    <2>4. g[N + 1] = f[N] \o s /\ f[N] \in Seq(E)
      <3>1. N + 1 # 1 /\ f[N] = g[N] /\ f[N] \in Seq(E)
        <4> HIDE DEF N
        <4> QED
          BY <1>1, <1>5, <2>1, <2>2, <2>3 DEF Agree
      <3> QED
        BY <1>3, <3>1
    <2> QED
      BY <1>2, <2>1, <2>4 DEF longer
  <1> QED
    BY <1>4, <1>5

-----------------------------------------------------------------------------
(* The elements of a sequence made of two, and of one made longer. *)

LEMMA Joined ==
    ASSUME NEW E, NEW s \in Seq(E), NEW t \in Seq(E), NEW N \in Nat, NEW M \in Nat,
           N = Len(s), M = Len(t)
    PROVE  /\ s \o t \in Seq(E) /\ Len(s \o t) = N + M /\ DOMAIN (s \o t) = 1..(N + M)
           /\ \A i \in 1..N : (s \o t)[i] = s[i]
           /\ \A i \in (N + 1)..(N + M) : i - N \in 1..M /\ (s \o t)[i] = t[i - N]
  <1>1. \A i \in 1..(N + M) : (s \o t)[i] = IF i <= N THEN s[i] ELSE t[i - N]
    BY ConcatProperties
  <1>2. s \o t \in Seq(E) /\ Len(s \o t) = N + M
    BY ConcatProperties
  <1>3. \A i \in 1..N : i \in 1..(N + M) /\ i <= N
    OBVIOUS
  <1>4. \A i \in (N + 1)..(N + M) : i \in 1..(N + M) /\ ~(i <= N) /\ i - N \in 1..M
    OBVIOUS
  <1> QED
    BY <1>1, <1>2, <1>3, <1>4

LEMMA Appended ==
    ASSUME NEW E, NEW s \in Seq(E), NEW e \in E
    PROVE  /\ DOMAIN Append(s, e) = (DOMAIN s) \cup {Len(s) + 1}
           /\ \A i \in DOMAIN s : Append(s, e)[i] = s[i]
           /\ Append(s, e)[Len(s) + 1] = e
  <1>1. /\ Append(s, e) \in Seq(E) /\ Len(Append(s, e)) = Len(s) + 1 /\ Len(s) \in Nat
        /\ \A i \in 1..Len(s) : Append(s, e)[i] = s[i]
        /\ Append(s, e)[Len(s) + 1] = e
    OBVIOUS
  <1>2. DOMAIN s = 1..Len(s) /\ DOMAIN Append(s, e) = 1..(Len(s) + 1)
    BY <1>1
  <1> QED
    BY <1>1, <1>2
-----------------------------------------------------------------------------
(***************************************************************************)
(* readline().                                                             *)
(***************************************************************************)

(* The bytes s lie in t behind its first n. *)
Lies(s, n, t) == n + Len(s) <= Len(t) /\ \A i \in 1..Len(s) : s[i] = t[n + i]

Given == FlattenSeq(messages)

(* Where the bytes of the call begin. *)
Base == Len(Given) + Len(lost)

(* A stream that was reset may have lost what had arrived. *)
ReaderFlow ==
    /\ Lies(Given, 0, sent) /\ Lies(lost, Len(Given), sent)
    /\ Lies(buf, Base, sent) /\ Lies(peeked, Base + Len(buf), sent)
    /\ \/ /\ Lies(arrived, Base + Len(buf) + got, sent)
          /\ Base + Len(buf) + got + Len(arrived) = Len(sent)
       \/ peer = "reset" /\ arrived = << >>

ReaderCall ==
    /\ pc # "readn" => peeked = << >> /\ want = 0 /\ got = 0
    /\ pc \in {"wait", "closed"} => buf = << >>
    /\ pc \in {"wait", "peek"} => Len(buf) < MaxLen - 1
    /\ pc = "readn" => want \in 1..Len(peeked)
    /\ lost # << >> => peer = "eof" /\ arrived = << >> /\ pc \in {"wait", "closed"}
                       /\ (blocking => pc = "closed")

NoNewlineYet ==
    /\ \A i \in 1..Len(buf) : buf[i] # Newline
    /\ \A i \in 1..Len(peeked) : i < want => peeked[i] # Newline

ReaderInv == R!TypeOK /\ R!BufferRespected /\ ReaderFlow /\ ReaderCall /\ NoNewlineYet /\ R!OneLineAtMost

(* Pieces of a sequence, side by side. *)
LEMMA LiesJoined ==
    ASSUME NEW s \in Seq(Bytes), NEW u \in Seq(Bytes), NEW t \in Seq(Bytes), NEW n \in Nat, NEW k,
           k = n + Len(s), Lies(s, n, t), Lies(u, k, t)
    PROVE  s \o u \in Seq(Bytes) /\ Len(s \o u) = Len(s) + Len(u) /\ Lies(s \o u, n, t)
  <1>1. s \o u \in Seq(Bytes) /\ Len(s \o u) = Len(s) + Len(u)
    OBVIOUS
  <1>2. ASSUME NEW i \in 1..Len(s \o u) PROVE (s \o u)[i] = t[n + i]
    <2>1. CASE i <= Len(s)
      BY <1>1, <2>1 DEF Lies
    <2>2. CASE i > Len(s)
      <3>1. i - Len(s) \in 1..Len(u) /\ (s \o u)[i] = u[i - Len(s)]
        BY <1>1, <2>2
      <3>2. u[i - Len(s)] = t[n + Len(s) + (i - Len(s))]
        BY <3>1 DEF Lies
      <3>3. n + Len(s) + (i - Len(s)) = n + i
        BY <1>1
      <3> QED
        BY <3>1, <3>2, <3>3
    <2> QED
      BY <1>1, <2>1, <2>2
  <1> QED
    BY <1>1, <1>2 DEF Lies

LEMMA LiesEmpty ==
    ASSUME NEW t \in Seq(Bytes), NEW n \in 0..Len(t)
    PROVE  Lies(<< >>, n, t)
  BY DEF Lies

LEMMA LiesStart ==
    ASSUME NEW s \in Seq(Bytes), NEW t \in Seq(Bytes), NEW n \in Nat, NEW k \in 0..Len(s), Lies(s, n, t)
    PROVE  SubSeq(s, 1, k) \in Seq(Bytes) /\ Len(SubSeq(s, 1, k)) = k /\ Lies(SubSeq(s, 1, k), n, t)
  <1> DEFINE a == SubSeq(s, 1, k)
  <1>1. a \in Seq(Bytes) /\ Len(a) = k /\ \A i \in 1..Len(a) : a[i] = s[i]
    OBVIOUS
  <1> HIDE DEF a
  <1> QED
    BY <1>1 DEF Lies, a

LEMMA LiesRest ==
    ASSUME NEW s \in Seq(Bytes), NEW t \in Seq(Bytes), NEW n \in Nat, NEW k \in 0..Len(s), Lies(s, n, t)
    PROVE  /\ SubSeq(s, k + 1, Len(s)) \in Seq(Bytes) /\ Len(SubSeq(s, k + 1, Len(s))) = Len(s) - k
           /\ Lies(SubSeq(s, k + 1, Len(s)), n + k, t)
  <1> DEFINE r == SubSeq(s, k + 1, Len(s))
  <1>1. r \in Seq(Bytes) /\ Len(r) = Len(s) - k /\ \A i \in 1..Len(r) : r[i] = s[k + i]
    OBVIOUS
  <1> HIDE DEF r
  <1>2. ASSUME NEW i \in 1..Len(r) PROVE r[i] = t[n + k + i]
    <2>1. k + i \in 1..Len(s) /\ n + (k + i) = n + k + i
      BY <1>1
    <2> QED
      BY <1>1, <2>1 DEF Lies
  <1>3. n + k + Len(r) <= Len(t)
    BY <1>1 DEF Lies
  <1> QED
    BY <1>1, <1>2, <1>3 DEF Lies, r

(* More bytes behind t. *)
LEMMA LiesLonger ==
    ASSUME NEW s \in Seq(Bytes), NEW t \in Seq(Bytes), NEW b \in Bytes, NEW n \in Nat, Lies(s, n, t)
    PROVE  Lies(s, n, Append(t, b))
  <1>1. Len(Append(t, b)) = Len(t) + 1 /\ \A i \in 1..Len(t) : Append(t, b)[i] = t[i]
    OBVIOUS
  <1>2. \A i \in 1..Len(s) : n + i \in 1..Len(t)
    BY DEF Lies
  <1> QED
    BY <1>1, <1>2 DEF Lies

LEMMA LiesAppended ==
    ASSUME NEW s \in Seq(Bytes), NEW t \in Seq(Bytes), NEW b \in Bytes, NEW n \in Nat, Lies(s, n, t),
           n + Len(s) = Len(t)
    PROVE  /\ Lies(Append(s, b), n, Append(t, b))
           /\ n + Len(Append(s, b)) = Len(Append(t, b))
  <1>1. /\ Len(Append(t, b)) = Len(t) + 1 /\ \A i \in 1..Len(t) : Append(t, b)[i] = t[i]
        /\ Append(t, b)[Len(t) + 1] = b
    OBVIOUS
  <1>2. /\ Len(Append(s, b)) = Len(s) + 1 /\ \A i \in 1..Len(s) : Append(s, b)[i] = s[i]
        /\ Append(s, b)[Len(s) + 1] = b
    OBVIOUS
  <1>3. \A i \in 1..Len(s) : n + i \in 1..Len(t)
    BY DEF Lies
  <1>4. ASSUME NEW i \in 1..(Len(s) + 1) PROVE Append(s, b)[i] = Append(t, b)[n + i]
    <2>1. CASE i = Len(s) + 1
      BY <1>1, <1>2, <2>1
    <2>2. CASE i \in 1..Len(s)
      BY <1>1, <1>2, <1>3, <2>2 DEF Lies
    <2> QED
      BY <2>1, <2>2
  <1> QED
    BY <1>1, <1>2, <1>4 DEF Lies

LEMMA ReaderInit == R!Init => ReaderInv
  <1> SUFFICES ASSUME R!Init PROVE ReaderInv
    OBVIOUS
  <1>0. /\ sent = << >> /\ arrived = << >> /\ buf = << >> /\ peeked = << >>
        /\ messages = << >> /\ lost = << >> /\ want = 0 /\ got = 0 /\ pc = "wait"
        /\ blocking \in BOOLEAN /\ peer = "open"
    BY DEF R!Init
  <1>1. R!TypeOK /\ R!BufferRespected
    BY <1>0, SocketsAssumption DEF R!ReaderAssumption, R!TypeOK, R!BufferRespected
  <1>2. Given = << >> /\ Base = 0
    BY <1>0, FlattenEmpty DEF Given, Base
  <1>3. ReaderFlow
    BY <1>0, <1>2 DEF ReaderFlow, Lies
  <1>4. ReaderCall /\ NoNewlineYet
    BY <1>0, SocketsAssumption DEF R!ReaderAssumption, ReaderCall, NoNewlineYet
  <1>5. R!OneLineAtMost
    <2>1. Range(<< >>) = {}
      BY DEF Range
    <2> QED
      BY <1>0, <2>1 DEF R!OneLineAtMost, R!Range, Range
  <1> QED
    BY <1>1, <1>3, <1>4, <1>5 DEF ReaderInv

(* The types, once. *)
LEMMA ReaderTypes ==
    ASSUME ReaderInv
    PROVE  /\ blocking \in BOOLEAN /\ sent \in Seq(Bytes) /\ arrived \in Seq(Bytes)
           /\ peer \in {"open", "eof", "reset"} /\ pc \in {"wait", "peek", "readn", "closed"}
           /\ buf \in Seq(Bytes) /\ peeked \in Seq(Bytes)
           /\ want \in 0..(MaxLen - 1) /\ got \in 0..want /\ want \in Nat /\ got \in Nat
           /\ messages \in Seq(Seq(Bytes)) /\ lost \in Seq(Bytes)
           /\ Given \in Seq(Bytes) /\ Len(Given) \in Nat /\ Base \in Nat
           /\ MaxLen \in Nat \ {0, 1} /\ Newline \in Bytes /\ MaxBytes \in Nat
  <1>1. R!TypeOK
    BY DEF ReaderInv
  <1>2. MaxLen \in Nat \ {0, 1} /\ Newline \in Bytes /\ MaxBytes \in Nat
    BY SocketsAssumption DEF R!ReaderAssumption
  <1>3. Given \in Seq(Bytes)
    <2>1. << >> \in Seq(Bytes) /\ messages \in Seq(Seq(Bytes))
      BY <1>1 DEF R!TypeOK
    <2> QED
      BY <2>1, FlattenAppend DEF Given
  <1> QED
    BY <1>1, <1>2, <1>3 DEF R!TypeOK, Base

(* The peer's bytes, and its end. *)
LEMMA PeerSendKeeps ==
    ASSUME ReaderInv, NEW b \in Bytes, R!PeerSend(b)
    PROVE  ReaderInv'
  <1>0. /\ sent' = Append(sent, b) /\ arrived' = Append(arrived, b) /\ peer = "open"
        /\ UNCHANGED <<blocking, peer, pc, buf, peeked, want, got, messages, lost>>
    BY DEF R!PeerSend, R!call
  <1>1. Given' = Given /\ Base' = Base
    BY <1>0 DEF Given, Base
  <1>2. R!TypeOK' /\ R!BufferRespected'
    BY <1>0 DEF ReaderInv, R!TypeOK, R!BufferRespected
  <1>3. lost = << >>
    BY <1>0 DEF ReaderInv, ReaderCall
  <1>4. ReaderFlow'
    <2>1. /\ Lies(Given, 0, sent') /\ Lies(lost, Len(Given), sent')
          /\ Lies(buf, Base, sent') /\ Lies(peeked, Base + Len(buf), sent')
      <3>1. /\ Lies(Given, 0, sent) /\ Lies(lost, Len(Given), sent)
            /\ Lies(buf, Base, sent) /\ Lies(peeked, Base + Len(buf), sent)
        BY DEF ReaderInv, ReaderFlow
      <3>2. /\ Given \in Seq(Bytes) /\ lost \in Seq(Bytes) /\ buf \in Seq(Bytes)
            /\ peeked \in Seq(Bytes) /\ sent \in Seq(Bytes)
        BY ReaderTypes
      <3>3. Len(Given) \in Nat /\ Base \in Nat /\ Len(buf) \in Nat /\ 0 \in Nat
        BY ReaderTypes
      <3>4. Base + Len(buf) \in Nat
        BY <3>3
      <3>5. Lies(Given, 0, Append(sent, b)) /\ Lies(lost, Len(Given), Append(sent, b))
        BY <3>1, <3>2, <3>3, LiesLonger
      <3>6. Lies(buf, Base, Append(sent, b)) /\ Lies(peeked, Base + Len(buf), Append(sent, b))
        BY <3>1, <3>2, <3>3, <3>4, LiesLonger
      <3> QED
        BY <1>0, <3>5, <3>6, Zenon
    <2> DEFINE n == Base + Len(buf) + got
    <2>2. Lies(arrived, n, sent) /\ n + Len(arrived) = Len(sent) /\ n \in Nat
      <3>1. n \in Nat
        <4>1. Base \in Nat /\ Len(buf) \in Nat /\ got \in Nat
          BY ReaderTypes
        <4> QED
          BY <4>1
      <3>2. Lies(arrived, n, sent) /\ n + Len(arrived) = Len(sent)
        BY <1>0 DEF ReaderInv, ReaderFlow
      <3> QED
        BY <3>1, <3>2
    <2> HIDE DEF n
    <2>3. Lies(arrived', n, sent') /\ n + Len(arrived') = Len(sent')
      <3>1. arrived \in Seq(Bytes) /\ sent \in Seq(Bytes)
        BY ReaderTypes
      <3>2. /\ Lies(Append(arrived, b), n, Append(sent, b))
            /\ n + Len(Append(arrived, b)) = Len(Append(sent, b))
        BY <2>2, <3>1, LiesAppended
      <3> QED
        BY <1>0, <3>2, Zenon
    <2> QED
      BY <1>0, <1>1, <2>1, <2>3 DEF ReaderFlow, n
  <1>5. ReaderCall' /\ NoNewlineYet' /\ R!OneLineAtMost'
    BY <1>0, <1>3 DEF ReaderInv, ReaderCall, NoNewlineYet, R!OneLineAtMost
  <1> QED
    BY <1>2, <1>4, <1>5 DEF ReaderInv

LEMMA PeerEndsKeeps ==
    ASSUME ReaderInv, R!PeerCloses \/ R!PeerResets
    PROVE  ReaderInv'
  <1>0. /\ peer = "open" /\ peer' \in {"eof", "reset"}
        /\ UNCHANGED <<blocking, sent, pc, buf, peeked, want, got, messages, lost>>
        /\ arrived' = arrived \/ (arrived' = << >> /\ peer' = "reset")
    BY DEF R!PeerCloses, R!PeerResets, R!call
  <1>1. Given' = Given /\ Base' = Base
    BY <1>0 DEF Given, Base
  <1>2. R!TypeOK' /\ R!BufferRespected'
    <2>1. arrived' \in Seq(Bytes)
      <3>1. << >> \in Seq(Bytes)
        OBVIOUS
      <3> QED
        BY <1>0, <3>1, ReaderTypes, Zenon
    <2> QED
      BY <1>0, <2>1 DEF ReaderInv, R!TypeOK, R!BufferRespected
  <1>3. lost = << >>
    BY <1>0 DEF ReaderInv, ReaderCall
  <1>4. ReaderFlow'
    BY <1>0, <1>1 DEF ReaderInv, ReaderFlow
  <1>5. ReaderCall' /\ NoNewlineYet' /\ R!OneLineAtMost'
    BY <1>0, <1>3 DEF ReaderInv, ReaderCall, NoNewlineYet, R!OneLineAtMost
  <1> QED
    BY <1>2, <1>4, <1>5 DEF ReaderInv

(* Between two calls only pc changes. *)
LEMMA TurnKeeps ==
    ASSUME ReaderInv, R!Closed \/ R!Receive \/ R!ReceiveNext
    PROVE  ReaderInv'
  <1>0. /\ UNCHANGED <<blocking, sent, arrived, peer, buf, peeked, want, got, messages, lost>>
        /\ pc = "wait"
        /\ \/ pc' = "closed" /\ ~blocking
           \/ pc' = "peek" /\ (arrived # << >> \/ blocking)
    BY DEF R!Closed, R!Receive, R!ReceiveNext, R!stream, R!call
  <1>1. R!TypeOK' /\ R!BufferRespected' /\ NoNewlineYet' /\ R!OneLineAtMost'
    BY <1>0 DEF ReaderInv, R!TypeOK, R!BufferRespected, NoNewlineYet, R!OneLineAtMost
  <1>2. ReaderFlow'
    BY <1>0 DEF ReaderInv, ReaderFlow, Given, Base
  <1>3. ReaderCall'
    BY <1>0 DEF ReaderInv, ReaderCall
  <1> QED
    BY <1>1, <1>2, <1>3 DEF ReaderInv

(* A look at the first n bytes that have arrived. *)
LEMMA PeekKeeps ==
    ASSUME ReaderInv, R!Peek
    PROVE  ReaderInv'
  <1> DEFINE n == IF Len(arrived) < R!nleft THEN Len(arrived) ELSE R!nleft
             nl == {i \in 1..n : arrived[i] = Newline}
             first == IF nl = {} THEN n ELSE CHOOSE i \in nl : \A j \in nl : i <= j
  <1>0. /\ pc = "peek" /\ arrived # << >> /\ peeked' = SubSeq(arrived, 1, n) /\ want' = first
        /\ got' = 0 /\ pc' = "readn"
        /\ UNCHANGED <<blocking, sent, arrived, peer, buf, messages, lost>>
    BY DEF R!Peek, R!stream
  <1>1. /\ peeked = << >> /\ want = 0 /\ got = 0 /\ lost = << >> /\ Len(buf) < MaxLen - 1
    BY <1>0 DEF ReaderInv, ReaderCall
  <1>2. n \in 1..Len(arrived) /\ Len(buf) + n <= MaxLen - 1
    <2>1. PICK k \in Nat : k = Len(arrived)
      BY ReaderTypes
    <2>2. PICK b \in Nat : b = Len(buf)
      BY ReaderTypes
    <2>3. k # 0
      BY <1>0, <2>1, ReaderTypes
    <2>4. MaxLen \in Nat /\ b < MaxLen - 1
      BY <1>1, <2>2, ReaderTypes
    <2>5. R!nleft = (MaxLen - 1) - b
      BY <2>2 DEF R!nleft
    <2>6. n = IF k < (MaxLen - 1) - b THEN k ELSE (MaxLen - 1) - b
      BY <2>1, <2>5
    <2> HIDE DEF n
    <2>7. n \in 1..k /\ b + n <= MaxLen - 1
      BY <2>3, <2>4, <2>6
    <2> QED
      BY <2>1, <2>2, <2>7
  <1>3. first \in 1..n /\ \A i \in 1..n : i < first => arrived[i] # Newline
    <2>1. CASE nl = {}
      BY <1>2, <2>1
    <2>2. CASE nl # {}
      <3>1. PICK k \in nl : \A j \in nl : k <= j
        <4>1. nl \subseteq Nat
          BY <1>2
        <4> HIDE DEF nl
        <4> QED
          BY <2>2, <4>1, Least
      <3>2. first \in nl /\ \A j \in nl : first <= j
        BY <2>2, <3>1
      <3>3. \A i \in 1..n : arrived[i] = Newline => first <= i
        BY <3>2
      <3>4. first \in 1..n
        BY <3>2
      <3> HIDE DEF first, nl, n
      <3> QED
        BY <3>3, <3>4, <1>2
    <2> QED
      BY <2>1, <2>2
  <1> HIDE DEF n, nl, first
  <1>4. /\ peeked' \in Seq(Bytes) /\ Len(peeked') = n /\ \A i \in 1..n : peeked'[i] = arrived[i]
    <2>1. arrived \in Seq(Bytes) /\ peeked' = SubSeq(arrived, 1, n) /\ n \in 1..Len(arrived)
      BY <1>0, <1>2, ReaderTypes
    <2> QED
      BY <2>1
  <1>5. R!TypeOK' /\ R!BufferRespected'
    <2>1. R!TypeOK /\ R!BufferRespected
      BY DEF ReaderInv
    <2>2. MaxLen \in Nat \ {0, 1} /\ Len(buf) \in Nat /\ Len(arrived) \in Nat /\ first \in 1..n
      BY <1>3, ReaderTypes
    <2>3. first \in 0..(MaxLen - 1) /\ 0 \in 0..first
      BY <1>2, <2>2
    <2> HIDE DEF first
    <2>4. R!TypeOK'
      BY <1>0, <1>4, <2>1, <2>3 DEF R!TypeOK
    <2>5. Len(peeked') = n /\ Len(buf') = Len(buf)
      BY <1>0, <1>2, <1>4, <2>2
    <2>6. R!BufferRespected'
      BY <1>2, <2>5 DEF R!BufferRespected
    <2> QED
      BY <2>4, <2>6
  <1>6. Given' = Given /\ Base' = Base
    BY <1>0 DEF Given, Base
  <1>7. ReaderFlow'
    <2>1. Lies(arrived, Base + Len(buf), sent) /\ Base + Len(buf) + Len(arrived) = Len(sent)
      BY <1>0, <1>1, ReaderTypes DEF ReaderInv, ReaderFlow
    <2>2. Lies(peeked', Base + Len(buf), sent)
      <3>1. arrived \in Seq(Bytes) /\ sent \in Seq(Bytes) /\ Base \in Nat /\ Len(buf) \in Nat
        BY ReaderTypes
      <3>2. Base + Len(buf) \in Nat /\ n \in 0..Len(arrived)
        BY <1>2, <3>1
      <3>3. Lies(SubSeq(arrived, 1, n), Base + Len(buf), sent)
        BY <2>1, <3>1, <3>2, LiesStart
      <3> QED
        BY <1>0, <3>3, Zenon
    <2>3. Base + Len(buf) + got' = Base + Len(buf)
      BY <1>0, ReaderTypes
    <2> QED
      BY <1>0, <1>6, <2>1, <2>2, <2>3 DEF ReaderInv, ReaderFlow
  <1>8. ReaderCall'
    BY <1>0, <1>1, <1>3, <1>4 DEF ReaderInv, ReaderCall
  <1>9. NoNewlineYet' /\ R!OneLineAtMost'
    BY <1>0, <1>3, <1>4 DEF ReaderInv, NoNewlineYet, R!OneLineAtMost
  <1> QED
    BY <1>5, <1>7, <1>8, <1>9 DEF ReaderInv

LEMMA ReadSomeKeeps ==
    ASSUME ReaderInv, R!ReadSome
    PROVE  ReaderInv'
  <1>0. PICK k \in 1..Len(arrived) :
           /\ pc = "readn" /\ got < want /\ arrived # << >> /\ k <= want - got /\ got' = got + k
           /\ arrived' = SubSeq(arrived, k + 1, Len(arrived))
           /\ UNCHANGED <<blocking, sent, peer, pc, buf, peeked, want, messages, lost>>
    BY DEF R!ReadSome
  <1>1. k \in 0..Len(arrived) /\ k \in Nat /\ Len(arrived) \in Nat
    BY ReaderTypes
  <1>2. lost = << >>
    BY <1>0 DEF ReaderInv, ReaderCall
  <1>3. Given' = Given /\ Base' = Base
    BY <1>0 DEF Given, Base
  <1> DEFINE n == Base + Len(buf) + got
  <1>4. Lies(arrived, n, sent) /\ n + Len(arrived) = Len(sent) /\ n \in Nat
    <2>1. Len(buf) \in Nat /\ got \in Nat /\ Base \in Nat
      BY ReaderTypes
    <2> QED
      BY <1>0, <2>1 DEF ReaderInv, ReaderFlow
  <1>5. Base + Len(buf) + got' = n + k
    <2>1. Len(buf) \in Nat /\ got \in Nat /\ Base \in Nat
      BY ReaderTypes
    <2>2. got' = got + k
      BY <1>0
    <2> QED
      BY <1>1, <2>1, <2>2
  <1> HIDE DEF n
  <1>6. /\ arrived' \in Seq(Bytes) /\ Len(arrived') = Len(arrived) - k /\ Lies(arrived', n + k, sent)
    <2>1. arrived \in Seq(Bytes) /\ sent \in Seq(Bytes)
      BY ReaderTypes
    <2> QED
      BY <1>0, <1>1, <1>4, <2>1, LiesRest
  <1>7. n + k + Len(arrived') = Len(sent)
    BY <1>1, <1>4, <1>6
  <1>8. R!TypeOK' /\ R!BufferRespected'
    BY <1>0, <1>1, <1>6, ReaderTypes DEF ReaderInv, R!TypeOK, R!BufferRespected
  <1>9. ReaderFlow'
    BY <1>0, <1>3, <1>5, <1>6, <1>7 DEF ReaderInv, ReaderFlow
  <1>10. ReaderCall' /\ NoNewlineYet' /\ R!OneLineAtMost'
    BY <1>0, <1>2 DEF ReaderInv, ReaderCall, NoNewlineYet, R!OneLineAtMost
  <1> QED
    BY <1>8, <1>9, <1>10 DEF ReaderInv

(* receive() returns msg and leaves skipped behind. *)
LEMMA ReturnKeeps ==
    ASSUME ReaderInv, NEW msg \in Seq(Bytes), NEW skipped \in Seq(Bytes),
           R!Return(msg, skipped), UNCHANGED <<blocking, sent, arrived, peer>>,
           lost = << >>, Lies(msg, Len(Given), sent), Lies(skipped, Len(Given) + Len(msg), sent),
           \/ /\ Lies(arrived, Len(Given) + Len(msg) + Len(skipped), sent)
              /\ Len(Given) + Len(msg) + Len(skipped) + Len(arrived) = Len(sent)
           \/ peer = "reset" /\ arrived = << >>,
           skipped # << >> => peer = "eof" /\ arrived = << >> /\ msg = << >>,
           \A i \in 1..Len(msg) : msg[i] = Newline => i = Len(msg) \/ peer = "reset"
    PROVE  ReaderInv'
  <1>0. /\ messages' = Append(messages, msg) /\ lost' = skipped
        /\ buf' = << >> /\ peeked' = << >> /\ want' = 0 /\ got' = 0
        /\ pc' = IF blocking /\ msg = << >> THEN "closed" ELSE "wait"
    BY DEF R!Return
  <1>1. /\ Given' = Given \o msg /\ Given' \in Seq(Bytes) /\ Len(Given') = Len(Given) + Len(msg)
        /\ Lies(Given', 0, sent)
    <2>1. messages \in Seq(Seq(Bytes)) /\ Given \in Seq(Bytes) /\ sent \in Seq(Bytes)
      BY ReaderTypes
    <2>2. Given' = Given \o msg
      BY <1>0, <2>1, FlattenAppend DEF Given
    <2>3. Lies(Given, 0, sent) /\ 0 + Len(Given) = Len(Given)
      BY <2>1 DEF ReaderInv, ReaderFlow
    <2>4. Lies(msg, 0 + Len(Given), sent)
      BY <2>3
    <2>5. /\ Given \o msg \in Seq(Bytes) /\ Len(Given \o msg) = Len(Given) + Len(msg)
          /\ Lies(Given \o msg, 0, sent)
      BY <2>1, <2>3, <2>4, LiesJoined
    <2> QED
      BY <2>2, <2>5
  <1>2. Base' = Len(Given) + Len(msg) + Len(skipped) /\ Base' <= Len(sent) /\ Base' \in Nat
    BY <1>0, <1>1, ReaderTypes DEF Base, Lies
  <1>3. R!TypeOK' /\ R!BufferRespected'
    <2>1. << >> \in Seq(Bytes) /\ 0 \in 0..0 /\ 0 \in 0..(MaxLen - 1)
      BY ReaderTypes
    <2>2. messages' \in Seq(Seq(Bytes))
      BY <1>0, ReaderTypes
    <2>3. Len(buf') + Len(peeked') <= MaxLen - 1
      <3>1. MaxLen \in Nat \ {0, 1}
        BY ReaderTypes
      <3>2. Len(buf') = 0 /\ Len(peeked') = 0
        BY <1>0
      <3> QED
        BY <3>1, <3>2
    <2> QED
      BY <1>0, <2>1, <2>2, <2>3 DEF ReaderInv, R!TypeOK, R!BufferRespected
  <1>4. ReaderFlow'
    <2>1. Lies(buf', Base', sent) /\ Lies(peeked', Base' + Len(buf'), sent)
      <3>1. buf' = << >> /\ peeked' = << >> /\ Base' + 0 = Base'
        BY <1>0, <1>2
      <3>2. Lies(<< >>, Base', sent)
        <4>1. sent \in Seq(Bytes)
          BY ReaderTypes
        <4> QED
          BY <1>2, <4>1, LiesEmpty
      <3> QED
        BY <3>1, <3>2
    <2>2. Base' + Len(buf') + got' = Base'
      BY <1>0, <1>2
    <2> QED
      BY <1>0, <1>1, <1>2, <2>1, <2>2 DEF ReaderFlow
  <1>5. ReaderCall'
    <2>1. MaxLen \in Nat \ {0, 1}
      BY ReaderTypes
    <2>2. 0 < MaxLen - 1
      BY <2>1
    <2> QED
      BY <1>0, <2>2 DEF ReaderCall
  <1>6. NoNewlineYet'
    BY <1>0 DEF NoNewlineYet
  <1>7. R!OneLineAtMost'
    <2>1. Range(messages') = Range(messages) \cup {msg}
      <3>1. messages \in Seq(Seq(Bytes))
        BY ReaderTypes
      <3>2. /\ DOMAIN messages' = (DOMAIN messages) \cup {Len(messages) + 1}
            /\ \A i \in DOMAIN messages : messages'[i] = messages[i]
            /\ messages'[Len(messages) + 1] = msg
        <4>1. messages' = Append(messages, msg)
          BY <1>0
        <4> QED
          BY <3>1, <4>1, Appended
      <3> QED
        BY <3>2 DEF Range
    <2> QED
      BY <2>1 DEF ReaderInv, R!OneLineAtMost, R!Range, Range
  <1> QED
    BY <1>3, <1>4, <1>5, <1>6, <1>7 DEF ReaderInv

LEMMA PeekFailsKeeps ==
    ASSUME ReaderInv, R!PeekFails
    PROVE  ReaderInv'
  <1>0. /\ pc = "peek" /\ arrived = << >> /\ UNCHANGED <<blocking, sent, arrived, peer>>
        /\ IF peer = "eof" THEN R!Return(<< >>, buf) ELSE R!Return(buf, << >>)
    BY DEF R!PeekFails, R!stream
  <1>1. peeked = << >> /\ got = 0 /\ lost = << >>
    BY <1>0 DEF ReaderInv, ReaderCall
  <1>2. /\ buf \in Seq(Bytes) /\ << >> \in Seq(Bytes) /\ Len(buf) \in Nat /\ Len(Given) \in Nat
        /\ Base = Len(Given) /\ sent \in Seq(Bytes)
    BY <1>1, ReaderTypes DEF Base
  <1>3. /\ Lies(buf, Len(Given), sent)
        /\ \/ Len(Given) + Len(buf) = Len(sent)
           \/ peer = "reset"
    BY <1>0, <1>1, <1>2 DEF ReaderInv, ReaderFlow
  <1>4. Len(Given) + Len(buf) \in 0..Len(sent) /\ Len(Given) \in 0..Len(sent)
    BY <1>2, <1>3 DEF Lies
  <1>5. Lies(<< >>, Len(Given), sent) /\ Lies(<< >>, Len(Given) + Len(buf), sent)
    BY <1>2, <1>4, LiesEmpty
  <1>6. CASE peer = "eof"
    <2> DEFINE none == << >>
    <2>1. /\ Len(none) = 0 /\ Len(Given) + Len(none) = Len(Given)
          /\ Len(Given) + Len(none) + Len(buf) = Len(Given) + Len(buf)
          /\ Len(Given) + Len(buf) + Len(arrived) = Len(Given) + Len(buf)
      BY <1>0, <1>2
    <2>2. /\ none \in Seq(Bytes) /\ R!Return(none, buf) /\ Lies(none, Len(Given), sent)
          /\ none = << >> /\ \A i \in 1..Len(none) : none[i] = Newline => i = Len(none)
      BY <1>0, <1>2, <1>5, <1>6
    <2>3. Lies(arrived, Len(Given) + Len(buf), sent) /\ Len(Given) + Len(buf) = Len(sent)
      BY <1>0, <1>3, <1>5, <1>6
    <2> HIDE DEF none
    <2> QED
      BY <1>0, <1>1, <1>2, <1>3, <1>6, <2>1, <2>2, <2>3, ReturnKeeps
  <1>7. CASE peer # "eof"
    <2> DEFINE none == << >>
    <2>1. /\ Len(none) = 0 /\ Len(Given) + Len(buf) + Len(none) = Len(Given) + Len(buf)
          /\ Len(Given) + Len(buf) + Len(arrived) = Len(Given) + Len(buf)
      BY <1>0, <1>2
    <2>2. none \in Seq(Bytes) /\ R!Return(buf, none) /\ Lies(none, Len(Given) + Len(buf), sent)
          /\ none = << >> /\ arrived = none
      BY <1>0, <1>2, <1>5, <1>7
    <2>3. \A i \in 1..Len(buf) : buf[i] # Newline
      BY DEF ReaderInv, NoNewlineYet
    <2> HIDE DEF none
    <2> QED
      BY <1>0, <1>1, <1>2, <1>3, <2>1, <2>2, <2>3, ReturnKeeps
  <1> QED
    BY <1>6, <1>7

(***************************************************************************)
(* A read that falls short of its count follows a reset, because what was  *)
(* peeked at does not go away otherwise.                                   *)
(***************************************************************************)
LEMMA ReadnReturnsKeeps ==
    ASSUME ReaderInv, R!ReadnReturns
    PROVE  ReaderInv'
  <1> DEFINE failed == got < want /\ arrived = << >>
             head   == SubSeq(peeked, 1, want)
             taken  == buf \o head
  <1>0. /\ pc = "readn" /\ (got = want \/ failed)
        /\ UNCHANGED <<blocking, sent, arrived, peer>>
    BY DEF R!ReadnReturns, R!stream
  <1>1. \/ failed /\ want # 1 /\ R!Return(buf \o peeked, << >>)
        \/ /\ (failed /\ want = 1) \/ got = want
           /\ \/ /\ taken[Len(taken)] = Newline \/ Len(taken) = MaxLen - 1
                 /\ R!Return(taken, << >>)
              \/ /\ ~(taken[Len(taken)] = Newline \/ Len(taken) = MaxLen - 1)
                 /\ buf' = taken /\ peeked' = << >> /\ want' = 0 /\ got' = 0 /\ pc' = "peek"
                 /\ UNCHANGED <<messages, lost>>
    BY DEF R!ReadnReturns, R!Last
  <1>2. /\ lost = << >> /\ want \in 1..Len(peeked)
    BY <1>0 DEF ReaderInv, ReaderCall
  <1>3. /\ buf \in Seq(Bytes) /\ peeked \in Seq(Bytes) /\ sent \in Seq(Bytes) /\ Base = Len(Given)
        /\ Len(Given) \in Nat /\ Len(buf) \in Nat /\ Len(peeked) \in Nat /\ want \in Nat /\ got \in Nat
        /\ arrived \in Seq(Bytes) /\ Len(arrived) \in Nat /\ Len(sent) \in Nat
    BY <1>2, ReaderTypes DEF Base
  <1>4. Lies(buf, Len(Given), sent) /\ Lies(peeked, Len(Given) + Len(buf), sent)
    BY <1>3 DEF ReaderInv, ReaderFlow
  <1>5. failed => peer = "reset"
    <2> SUFFICES ASSUME failed, peer # "reset" PROVE FALSE
      OBVIOUS
    <2>1. Len(Given) + Len(buf) + got + Len(arrived) = Len(sent)
      BY <1>3 DEF ReaderInv, ReaderFlow
    <2>2. Len(Given) + Len(buf) + Len(peeked) <= Len(sent) /\ Len(arrived) = 0
      BY <1>4 DEF Lies
    <2> QED
      BY <1>2, <1>3, <2>1, <2>2
  <1>6. /\ \A i \in 1..Len(buf) : buf[i] # Newline
        /\ \A i \in 1..Len(peeked) : i < want => peeked[i] # Newline
    BY DEF ReaderInv, NoNewlineYet
  <1>7. /\ head \in Seq(Bytes) /\ Len(head) = want /\ Lies(head, Len(Given) + Len(buf), sent)
        /\ \A i \in 1..want : head[i] = peeked[i]
    BY <1>2, <1>3, <1>4, LiesStart
  <1> HIDE DEF head
  <1>8. /\ taken \in Seq(Bytes) /\ Len(taken) = Len(buf) + want /\ Lies(taken, Len(Given), sent)
    BY <1>3, <1>4, <1>7, LiesJoined
  <1>9. \A i \in 1..Len(taken) : taken[i] = Newline => i = Len(taken)
    <2> SUFFICES ASSUME NEW i \in 1..Len(taken), taken[i] = Newline, i # Len(taken) PROVE FALSE
      OBVIOUS
    <2>1. CASE i <= Len(buf)
      BY <1>3, <1>6, <1>7, <2>1
    <2>2. CASE i > Len(buf)
      <3>1. i - Len(buf) \in 1..want /\ i - Len(buf) < want /\ taken[i] = head[i - Len(buf)]
        BY <1>2, <1>3, <1>7, <1>8, <2>2
      <3> QED
        BY <1>2, <1>3, <1>6, <1>7, <3>1
    <2> QED
      BY <1>8, <2>1, <2>2
  <1> HIDE DEF taken
  <1> DEFINE none == << >>
  <1>10. none \in Seq(Bytes) /\ Len(none) = 0 /\ none = << >>
    OBVIOUS
  <1>11. ASSUME failed, R!Return(buf \o peeked, none) PROVE ReaderInv'
    <2> DEFINE all == buf \o peeked
    <2>1. all \in Seq(Bytes) /\ Lies(all, Len(Given), sent) /\ Len(all) \in Nat
      <3>1. all \in Seq(Bytes) /\ Lies(all, Len(Given), sent)
        BY <1>3, <1>4, LiesJoined
      <3> HIDE DEF all
      <3> QED
        BY <3>1
    <2>2. R!Return(all, none) /\ peer = "reset" /\ arrived = << >>
      BY <1>5, <1>11
    <2> HIDE DEF all, none
    <2>3. Lies(none, Len(Given) + Len(all), sent)
      <3>1. Len(Given) + Len(all) \in 0..Len(sent)
        BY <1>3, <2>1 DEF Lies
      <3> QED
        BY <1>3, <1>10, <3>1, LiesEmpty
    <2> QED
      BY <1>0, <1>2, <1>10, <2>1, <2>2, <2>3, ReturnKeeps
  (* What lies behind the bytes taken. *)
  <1>12. ASSUME failed \/ got = want
         PROVE  \/ /\ Lies(arrived, Len(Given) + Len(taken), sent)
                   /\ Len(Given) + Len(taken) + Len(arrived) = Len(sent)
                \/ peer = "reset" /\ arrived = << >>
    <2>1. CASE failed
      BY <1>5, <2>1
    <2>2. CASE got = want
      <3>1. Base + Len(buf) + got = Len(Given) + Len(taken)
        BY <1>3, <1>8, <2>2
      <3> QED
        BY <3>1 DEF ReaderInv, ReaderFlow
    <2> QED
      BY <1>12, <2>1, <2>2
  <1>13. ASSUME failed \/ got = want, R!Return(taken, none) PROVE ReaderInv'
    <2>1. Len(Given) + Len(taken) + Len(none) = Len(Given) + Len(taken)
      BY <1>3, <1>8, <1>10
    <2>2. Lies(none, Len(Given) + Len(taken), sent)
      <3>1. Len(Given) + Len(taken) \in 0..Len(sent)
        BY <1>3, <1>8 DEF Lies
      <3> HIDE DEF none
      <3> QED
        BY <1>3, <1>10, <3>1, LiesEmpty
    <2>3. \/ /\ Lies(arrived, Len(Given) + Len(taken) + Len(none), sent)
             /\ Len(Given) + Len(taken) + Len(none) + Len(arrived) = Len(sent)
          \/ peer = "reset" /\ arrived = << >>
      BY <1>12, <1>13, <2>1
    <2> HIDE DEF none
    <2> QED
      BY <1>0, <1>2, <1>8, <1>9, <1>10, <1>13, <2>2, <2>3, ReturnKeeps
  <1>14. ASSUME failed \/ got = want,
                ~(taken[Len(taken)] = Newline \/ Len(taken) = MaxLen - 1),
                buf' = taken, peeked' = << >>, want' = 0, got' = 0, pc' = "peek",
                UNCHANGED <<messages, lost>>
         PROVE  ReaderInv'
    <2>0. MaxLen \in Nat \ {0, 1} /\ MaxLen - 1 \in Nat
      BY ReaderTypes
    <2>1. Len(taken) < MaxLen - 1
      <3>1. Len(buf) + Len(peeked) <= MaxLen - 1 /\ want <= Len(peeked)
        BY <1>2, <1>3 DEF ReaderInv, R!BufferRespected
      <3>2. Len(taken) # MaxLen - 1
        BY <1>14
      <3> QED
        BY <1>3, <1>8, <2>0, <3>1, <3>2
    <2>2. << >> \in Seq(Bytes) /\ 0 \in 0..0 /\ 0 \in 0..(MaxLen - 1) /\ Len(<< >>) = 0
      BY <2>0
    <2>3. R!TypeOK'
      BY <1>0, <1>8, <1>14, <2>2 DEF ReaderInv, R!TypeOK
    <2>4. R!BufferRespected'
      <3>1. Len(buf') = Len(taken) /\ Len(peeked') = 0
        BY <1>14
      <3> QED
        BY <1>3, <1>8, <2>0, <2>1, <3>1 DEF R!BufferRespected
    <2>5. Given' = Given /\ Base' = Base
      BY <1>14 DEF Given, Base
    <2>6. ReaderFlow'
      <3>1. Len(Given) + Len(taken) \in 0..Len(sent) /\ Len(Given) + Len(taken) + got' = Len(Given) + Len(taken)
        BY <1>3, <1>8, <1>14 DEF Lies
      <3>2. Lies(peeked', Len(Given) + Len(taken), sent)
        BY <1>3, <1>14, <3>1, LiesEmpty
      <3> QED
        BY <1>0, <1>3, <1>8, <1>12, <1>14, <2>5, <3>1, <3>2 DEF ReaderInv, ReaderFlow
    <2>7. ReaderCall'
      BY <1>2, <1>14, <2>1 DEF ReaderCall
    <2>8. NoNewlineYet'
      BY <1>8, <1>9, <1>14, <2>2 DEF NoNewlineYet
    <2>9. R!OneLineAtMost'
      BY <1>0, <1>14 DEF ReaderInv, R!OneLineAtMost
    <2> QED
      BY <2>3, <2>4, <2>6, <2>7, <2>8, <2>9 DEF ReaderInv
  <1> HIDE DEF failed
  <1> QED
    BY <1>0, <1>1, <1>11, <1>13, <1>14 DEF none

LEMMA ReaderStays ==
    ASSUME ReaderInv, UNCHANGED R!vars
    PROVE  ReaderInv'
  <1>0. UNCHANGED <<blocking, sent, arrived, peer, pc, buf, peeked, want, got, messages, lost>>
    BY DEF R!vars, R!stream, R!call
  <1> QED
    BY <1>0 DEF ReaderInv, R!TypeOK, R!BufferRespected, ReaderFlow, Given, Base, ReaderCall,
                NoNewlineYet, R!OneLineAtMost

(* "blocking" is the writer's too, and no program changes it. *)
LEMMA WriterLeavesBlocking == W!Next => blocking' = blocking
  BY DEF W!Next, W!Send, W!WriteSome, W!AllWritten, W!WouldBlock, W!WriteToClosed, W!WriteFails,
         W!PeerTakes, W!PeerCloses, W!Return

LEMMA ReaderKeeps ==
    ASSUME ReaderInv, [SocketsNext]_socketVars
    PROVE  ReaderInv'
  <1>1. CASE R!Next
    BY <1>1, PeerSendKeeps, PeerEndsKeeps, TurnKeeps, PeekKeeps, PeekFailsKeeps, ReadSomeKeeps,
       ReadnReturnsKeeps DEF R!Next, R!Peer, R!IOThread
  <1>2. CASE UNCHANGED R!vars
    BY <1>2, ReaderStays
  <1>3. UNCHANGED <<blocking, readerVars>> => UNCHANGED R!vars
    BY DEF readerVars, R!vars, R!stream, R!call
  <1> QED
    BY <1>1, <1>2, <1>3, WriterLeavesBlocking DEF SocketsNext, socketVars

(***************************************************************************)
(* What the invariant says of the property.                                *)
(***************************************************************************)
LEMMA Conserved ==
    ASSUME ReaderInv
    PROVE  R!StreamConserved
  <1> DEFINE head == SubSeq(peeked, 1, got)
  <1>0. R!FlattenSeq(messages) = Given
    BY DEF Given, FlattenSeq, R!FlattenSeq
  <1>1. /\ sent \in Seq(Bytes) /\ Given \in Seq(Bytes) /\ lost \in Seq(Bytes) /\ buf \in Seq(Bytes)
        /\ peeked \in Seq(Bytes) /\ arrived \in Seq(Bytes) /\ got \in Nat /\ want \in Nat
        /\ got <= want /\ Len(Given) \in Nat /\ Len(lost) \in Nat /\ Base = Len(Given) + Len(lost)
        /\ Len(buf) \in Nat
    BY ReaderTypes DEF Base
  <1>2. lost # << >> => peer = "eof"
    BY DEF ReaderInv, ReaderCall
  <1>3. CASE peer = "reset"
    <2>1. R!IsPrefix(Given, sent)
      BY <1>1 DEF ReaderInv, ReaderFlow, Lies, R!IsPrefix
    <2> QED
      BY <1>0, <1>3, <2>1 DEF R!StreamConserved, ReaderInv
  <1>4. CASE peer # "reset"
    <2>1. got \in 0..Len(peeked)
      BY <1>1 DEF ReaderInv, ReaderCall
    <2>2. /\ Lies(Given, 0, sent) /\ Lies(lost, Len(Given), sent)
          /\ Lies(buf, Base, sent) /\ Lies(peeked, Base + Len(buf), sent)
          /\ Lies(arrived, Base + Len(buf) + got, sent)
          /\ Base + Len(buf) + got + Len(arrived) = Len(sent)
      BY <1>4 DEF ReaderInv, ReaderFlow
    <2>3. head \in Seq(Bytes) /\ Len(head) = got /\ Lies(head, Base + Len(buf), sent)
      BY <1>1, <2>1, <2>2, LiesStart
    <2> HIDE DEF head
    <2> DEFINE a == Given \o lost
               b == a \o buf
               c == b \o head
               d == c \o arrived
    <2>4. a \in Seq(Bytes) /\ Len(a) = Base /\ Lies(a, 0, sent)
      BY <1>1, <2>2, LiesJoined
    <2> HIDE DEF a
    <2>5. Base = 0 + Len(a) /\ 0 \in Nat /\ Base \in Nat
      BY <1>1, <2>4
    <2>6. b \in Seq(Bytes) /\ Len(b) = Len(a) + Len(buf) /\ Lies(b, 0, sent)
      BY <1>1, <2>2, <2>4, <2>5, LiesJoined
    <2> HIDE DEF b
    <2>7. Base + Len(buf) = 0 + Len(b)
      BY <1>1, <2>4, <2>6
    <2>8. Lies(head, 0 + Len(b), sent)
      BY <2>3, <2>7, Zenon
    <2>9. c \in Seq(Bytes) /\ Len(c) = Len(b) + Len(head) /\ Lies(c, 0, sent)
      BY <1>1, <2>3, <2>5, <2>6, <2>8, LiesJoined
    <2> HIDE DEF c
    <2>10. Base + Len(buf) + got = 0 + Len(c)
      BY <1>1, <2>3, <2>7, <2>9
    <2>11. d \in Seq(Bytes) /\ Len(d) = Len(c) + Len(arrived) /\ Lies(d, 0, sent)
      BY <1>1, <2>2, <2>5, <2>9, <2>10, LiesJoined
    <2> HIDE DEF d
    <2>12. Len(d) = Len(sent)
      <3>1. Len(c) \in Nat /\ Len(arrived) \in Nat /\ Len(c) = Base + Len(buf) + got
        BY <1>1, <2>5, <2>9, <2>10
      <3>2. Base + Len(buf) + got + Len(arrived) = Len(sent)
        BY <2>2
      <3>3. Len(d) = Len(c) + Len(arrived)
        BY <2>11
      <3> QED
        BY <3>1, <3>2, <3>3, Zenon
    <2>13. d = sent
      <3>1. \A i \in 1..Len(d) : d[i] = sent[i]
        BY <2>11 DEF Lies
      <3> QED
        BY <1>1, <2>11, <2>12, <3>1, SeqEqual
    <2> QED
      BY <1>0, <1>2, <1>4, <2>13 DEF a, b, c, d, head, R!StreamConserved, ReaderInv
  <1> QED
    BY <1>3, <1>4

LEMMA ReaderInvHolds == SocketsSpec => []ReaderInv
  <1>1. SocketsInit => ReaderInv
    BY ReaderInit DEF SocketsInit
  <1> QED
    BY <1>1, ReaderKeeps, PTL DEF SocketsSpec

(***************************************************************************)
(* readline(), for every MaxLen, every byte stream and every way the bytes *)
(* arrive between its system calls: what the callers have been given, what *)
(* the call has copied and what still lies in the socket are together the  *)
(* bytes sent, in order and each once; only the start of a line that the   *)
(* peer never finished is lost.                                            *)
(***************************************************************************)
THEOREM NoByteLostOrDoubled == SocketsSpec => []StreamConserved
  <1>1. ReaderInv => StreamConserved
    BY Conserved DEF StreamConserved
  <1> QED
    BY <1>1, ReaderInvHolds, PTL

(***************************************************************************)
(* readline(): a message has a newline at its end or nowhere, unless the   *)
(* connection was reset between the peek and the read.                     *)
(***************************************************************************)
THEOREM LinesOneByOne == SocketsSpec => []OneLineAtMost
  <1>1. ReaderInv => OneLineAtMost
    BY DEF ReaderInv, OneLineAtMost
  <1> QED
    BY <1>1, ReaderInvHolds, PTL

-----------------------------------------------------------------------------
(***************************************************************************)
(* writen().                                                               *)
(***************************************************************************)

(* The first n bytes of reply r, and the first k replies cut like this. *)
Part(r, n) == [j \in 1..n |-> <<r, j>>]
Parts(p, k) == [r \in 1..k |-> Part(r, p[r])]

(* The bytes of reply r in the stream s. *)
Share(s, r) == {i \in DOMAIN s : s[i][1] = r}

(* Reply r was cut to its first p[r] bytes. *)
Cut(p) ==
    /\ p \in [1..m -> 0..Size]
    /\ received \o buffer = FlattenSeq(Parts(p, m))
    /\ wPeer = "open" =>
          /\ m # 0 => p[m] = done
          /\ \A r \in 1..m : p[r] < Size => r \in cut \/ (r = m /\ wPc = "writen")

WriterInv ==
    /\ W!TypeOK
    /\ received \in Seq(Nat \X Nat) /\ buffer \in Seq(Nat \X Nat)
    /\ wPc = "writen" => m # 0
    /\ wPeer = "open" /\ cut # {} => ~blocking
    /\ \E p \in [1..m -> 0..Size] : Cut(p)

Byte == Nat \X Nat

LEMMA WriterConstants == Replies \in Nat /\ Size \in Nat /\ Size # 0
  BY SocketsAssumption DEF W!WriterAssumption

LEMMA Associative ==
    ASSUME NEW s \in Seq(Byte), NEW t \in Seq(Byte), NEW u \in Seq(Byte)
    PROVE  (s \o t) \o u = s \o (t \o u)
  BY ConcatAssociative

LEMMA PartTypes ==
    ASSUME NEW r \in Nat, NEW n \in Nat
    PROVE  /\ Part(r, n) \in Seq(Byte) /\ Len(Part(r, n)) = n
           /\ \A j \in 1..n : Part(r, n)[j] = <<r, j>>
  BY DEF Part, Byte

LEMMA PartsTypes ==
    ASSUME NEW N \in Nat, NEW p \in [1..N -> 0..Size], NEW k \in 0..N
    PROVE  /\ Parts(p, k) \in Seq(Seq(Byte)) /\ Len(Parts(p, k)) = k
           /\ FlattenSeq(Parts(p, k)) \in Seq(Byte)
  <1>1. k \in Nat /\ \A r \in 1..k : r \in Nat /\ p[r] \in Nat
    BY WriterConstants
  <1>2. \A r \in 1..k : Part(r, p[r]) \in Seq(Byte)
    BY <1>1, PartTypes
  <1>3. Parts(p, k) \in Seq(Seq(Byte)) /\ Len(Parts(p, k)) = k
    BY <1>1, <1>2 DEF Parts
  <1>4. << >> \in Seq(Byte)
    OBVIOUS
  <1> QED
    BY <1>3, <1>4, FlattenAppend

(* One reply more. *)
LEMMA PartsMore ==
    ASSUME NEW N \in Nat, NEW p \in [1..N -> 0..Size], NEW k \in 1..N
    PROVE  FlattenSeq(Parts(p, k)) = FlattenSeq(Parts(p, k - 1)) \o Part(k, p[k])
  <1> DEFINE before == Parts(p, k - 1)
             last   == Part(k, p[k])
  <1>1. k - 1 \in 0..N /\ k \in Nat /\ p[k] \in Nat /\ k - 1 \in Nat
    BY WriterConstants
  <1>2. before \in Seq(Seq(Byte)) /\ last \in Seq(Byte) /\ Len(before) = k - 1
    <2>1. before \in Seq(Seq(Byte)) /\ Len(before) = k - 1
      BY <1>1, PartsTypes
    <2>2. last \in Seq(Byte)
      BY <1>1, PartTypes
    <2> QED
      BY <2>1, <2>2
  <1>3. Parts(p, k) = Append(before, last)
    <2>1. Parts(p, k) \in Seq(Seq(Byte)) /\ Len(Parts(p, k)) = k
      <3>1. k \in 0..N
        OBVIOUS
      <3> QED
        BY <3>1, PartsTypes
    <2>2. \A r \in 1..k : Parts(p, k)[r] = IF r = k THEN last ELSE before[r]
      <3>1. \A r \in 1..k : r # k => r \in 1..(k - 1)
        BY <1>1
      <3> QED
        BY <3>1 DEF Parts
    <2> HIDE DEF before, last
    <2>3. /\ Append(before, last) \in Seq(Seq(Byte)) /\ Len(Append(before, last)) = k
          /\ \A r \in 1..k : Append(before, last)[r] = IF r = k THEN last ELSE before[r]
      BY <1>1, <1>2
    <2> QED
      BY <2>1, <2>2, <2>3, SeqEqual
  <1> HIDE DEF before, last
  <1>4. FlattenSeq(Append(before, last)) = FlattenSeq(before) \o last
    BY <1>2, FlattenAppend
  <1> QED
    BY <1>3, <1>4 DEF before, last

(* What follows a reply does not change it. *)
LEMMA PartsAlike ==
    ASSUME NEW k, NEW p, NEW q, \A r \in 1..k : p[r] = q[r]
    PROVE  Parts(p, k) = Parts(q, k)
  BY DEF Parts

(* How many bytes of each reply are in the stream. *)
LEMMA SharesOfParts ==
    ASSUME NEW N \in Nat, NEW p \in [1..N -> 0..Size], NEW r \in 1..N
    PROVE  Cardinality(Share(FlattenSeq(Parts(p, N)), r)) = p[r]
  <1> DEFINE F(k) == FlattenSeq(Parts(p, k))
             Good(k) == Cardinality(Share(F(k), r)) = IF r <= k THEN p[r] ELSE 0
             Bad == {k \in 0..N : ~Good(k)}
  <1>0. N \in 0..N /\ r <= N /\ p[r] \in Nat /\ r \in Nat
    BY WriterConstants
  <1> SUFFICES ASSUME Bad # {} PROVE FALSE
    <2>1. Bad = {} => Good(N)
      BY <1>0
    <2> QED
      BY <1>0, <2>1
  <1>1. PICK k \in Bad : \A j \in Bad : k <= j
    <2>1. Bad \subseteq Nat
      OBVIOUS
    <2> HIDE DEF Bad
    <2> QED
      BY <2>1, Least
  <1>2. k \in 0..N /\ ~Good(k)
    OBVIOUS
  <1>3. k # 0
    <2> SUFFICES ASSUME k = 0 PROVE Good(0)
      BY <1>2
    <2>1. Parts(p, 0) = << >>
      BY DEF Parts
    <2>2. F(0) = << >>
      BY <2>1, FlattenEmpty
    <2>3. Share(<< >>, r) = {}
      BY DEF Share
    <2> QED
      <3>1. Cardinality(Share(F(0), r)) = 0
        BY <2>2, <2>3, FS_EmptySet, Zenon
      <3>2. ~(r <= 0)
        BY <1>0
      <3> QED
        BY <3>1, <3>2
  <1>4. k \in 1..N /\ k - 1 \in 0..N /\ ~(k <= k - 1) /\ k \in Nat /\ p[k] \in Nat
    BY <1>2, <1>3, WriterConstants
  <1>5. Good(k - 1)
    <2>1. k - 1 \notin Bad
      <3> HIDE DEF Bad
      <3> QED
        BY <1>1, <1>4
    <2> QED
      BY <1>4, <2>1
  <1> DEFINE s == F(k - 1)
             t == Part(k, p[k])
  <1>6. F(k) = s \o t
    BY <1>4, PartsMore
  <1>7. /\ s \in Seq(Byte) /\ t \in Seq(Byte) /\ Len(t) = p[k]
        /\ \A j \in 1..p[k] : t[j] = <<k, j>>
    BY <1>4, PartsTypes, PartTypes
  <1> HIDE DEF s, t
  <1> DEFINE u == s \o t
  <1>8. /\ DOMAIN s = 1..Len(s) /\ DOMAIN u = 1..(Len(s) + p[k]) /\ Len(s) \in Nat
        /\ \A i \in 1..Len(s) : u[i] = s[i]
        /\ \A i \in (Len(s) + 1)..(Len(s) + p[k]) : u[i] = t[i - Len(s)] /\ i - Len(s) \in 1..p[k]
    <2>1. Len(s) \in Nat /\ DOMAIN s = 1..Len(s)
      BY <1>7
    <2> DEFINE n == Len(s)
    <2>2. n \in Nat /\ n = Len(s) /\ p[k] \in Nat /\ p[k] = Len(t)
      BY <1>4, <1>7, <2>1
    <2> HIDE DEF n
    <2>3. s \in Seq(Byte) /\ t \in Seq(Byte)
      BY <1>7
    <2>4. /\ DOMAIN u = 1..(n + p[k])
          /\ \A i \in 1..n : u[i] = s[i]
          /\ \A i \in (n + 1)..(n + p[k]) : i - n \in 1..p[k] /\ u[i] = t[i - n]
      BY <2>2, <2>3, Joined
    <2> QED
      BY <2>1, <2>4 DEF n
  <1>9. \A i \in (Len(s) + 1)..(Len(s) + p[k]) : u[i][1] = k
    <2> SUFFICES ASSUME NEW i \in (Len(s) + 1)..(Len(s) + p[k]) PROVE u[i][1] = k
      OBVIOUS
    <2>1. u[i] = <<k, i - Len(s)>>
      BY <1>7, <1>8
    <2> HIDE DEF u
    <2> QED
      BY <2>1
  <1> HIDE DEF u
  <1>10. CASE r # k
    <2>1. Share(u, r) = Share(s, r)
      <3>1. \A i \in (Len(s) + 1)..(Len(s) + p[k]) : u[i][1] # r
        BY <1>9, <1>10
      <3>2. /\ DOMAIN u = (DOMAIN s) \cup ((Len(s) + 1)..(Len(s) + p[k]))
            /\ \A i \in DOMAIN s : u[i] = s[i]
        BY <1>4, <1>8
      <3> QED
        BY <3>1, <3>2, Zenon DEF Share
    <2>2. (r <= k) <=> (r <= k - 1)
      BY <1>0, <1>4, <1>10
    <2> QED
      BY <1>2, <1>5, <1>6, <2>1, <2>2 DEF s, u
  <1>11. CASE r = k
    <2>1. Share(s, r) = {}
      <3>1. IsFiniteSet(DOMAIN s) /\ Share(s, r) \subseteq DOMAIN s
        BY <1>8, FS_Interval DEF Share
      <3>2. Cardinality(Share(s, r)) = 0
        BY <1>0, <1>4, <1>5, <1>11 DEF s
      <3> QED
        BY <3>1, <3>2, FS_Subset, FS_EmptySet
    <2>2. Share(u, r) = (Len(s) + 1)..(Len(s) + p[k])
      <3>1. \A i \in (Len(s) + 1)..(Len(s) + p[k]) : u[i][1] = r
        BY <1>9, <1>11
      <3>2. /\ DOMAIN u = (DOMAIN s) \cup ((Len(s) + 1)..(Len(s) + p[k]))
            /\ \A i \in DOMAIN s : u[i] = s[i]
        BY <1>4, <1>8
      <3>3. \A i \in DOMAIN s : s[i][1] # r
        <4> SUFFICES ASSUME NEW i \in DOMAIN s, s[i][1] = r PROVE FALSE
          OBVIOUS
        <4>1. i \in Share(s, r)
          BY DEF Share
        <4> QED
          BY <2>1, <4>1
      <3> DEFINE own == (Len(s) + 1)..(Len(s) + p[k])
      <3> HIDE DEF own
      <3>4. /\ \A i \in own : u[i][1] = r
            /\ DOMAIN u = (DOMAIN s) \cup own
        BY <3>1, <3>2, Zenon DEF own
      <3>5. own \subseteq Share(u, r)
        BY <3>4, Zenon DEF Share
      <3>6. Share(u, r) \subseteq own
        <4> SUFFICES ASSUME NEW i \in DOMAIN u, u[i][1] = r, i \notin own PROVE FALSE
          BY Zenon DEF Share
        <4>1. i \in DOMAIN s
          BY <3>4, Zenon
        <4> QED
          BY <3>2, <3>3, <4>1
      <3> QED
        BY <3>5, <3>6, Zenon DEF own
    <2>3. Cardinality((Len(s) + 1)..(Len(s) + p[k])) = p[k]
      <3>1. /\ Len(s) + 1 \in Int /\ Len(s) + p[k] \in Int
            /\ (IF Len(s) + 1 > Len(s) + p[k] THEN 0 ELSE (Len(s) + p[k]) - (Len(s) + 1) + 1) = p[k]
        <4> DEFINE a == Len(s)
                   b == p[k]
        <4>1. a \in Nat /\ b \in Nat
          BY <1>4, <1>8
        <4> HIDE DEF a, b
        <4>2. /\ a + 1 \in Int /\ a + b \in Int
              /\ (IF a + 1 > a + b THEN 0 ELSE (a + b) - (a + 1) + 1) = b
          BY <4>1
        <4> QED
          BY <4>2, Zenon DEF a, b
      <3>2. Cardinality((Len(s) + 1)..(Len(s) + p[k])) =
              IF Len(s) + 1 > Len(s) + p[k] THEN 0 ELSE (Len(s) + p[k]) - (Len(s) + 1) + 1
        BY <3>1, FS_Interval
      <3> QED
        BY <3>1, <3>2
    <2> QED
      BY <1>2, <1>4, <1>6, <1>11, <2>2, <2>3 DEF s, u
  <1> QED
    BY <1>10, <1>11

LEMMA WriterTypes ==
    ASSUME WriterInv
    PROVE  /\ m \in 0..Replies /\ m \in Nat /\ done \in 0..Size /\ done \in Nat /\ Room \in Nat
           /\ received \in Seq(Byte) /\ buffer \in Seq(Byte) /\ Len(buffer) \in Nat
           /\ Replies \in Nat /\ Size \in Nat
  BY SocketsAssumption DEF WriterInv, W!TypeOK, W!WriterAssumption, Byte

LEMMA WriterInit == W!Init => WriterInv
  <1> SUFFICES ASSUME W!Init PROVE WriterInv
    OBVIOUS
  <1>1. /\ buffer = << >> /\ received = << >> /\ wPeer = "open" /\ wPc = "idle" /\ m = 0 /\ done = 0
        /\ cut = {} /\ blocking \in BOOLEAN
    BY DEF W!Init
  <1>2. W!TypeOK /\ received \in Seq(Byte) /\ buffer \in Seq(Byte)
    <2>1. Room \in Nat /\ Replies \in Nat /\ Size \in Nat
      BY SocketsAssumption DEF W!WriterAssumption
    <2>2. Len(<< >>) = 0 /\ << >> \in Seq(Byte)
      OBVIOUS
    <2>3. Len(buffer) <= Room /\ m \in 0..Replies /\ done \in 0..Size
      BY <1>1, <2>1, <2>2
    <2> QED
      BY <1>1, <2>2, <2>3 DEF W!TypeOK
  <1> DEFINE p == [r \in 1..0 |-> 0]
  <1>3. p \in [1..m -> 0..Size] /\ Parts(p, 0) = << >>
    BY <1>1, WriterConstants DEF Parts
  <1>4. received \o buffer = << >>
    <2>1. << >> \o << >> = << >>
      OBVIOUS
    <2> QED
      BY <1>1, <2>1, Zenon
  <1> HIDE DEF p
  <1>5. Cut(p)
    <2>1. FlattenSeq(Parts(p, m)) = << >>
      BY <1>1, <1>3, FlattenEmpty
    <2>2. \A r \in 1..m : FALSE
      BY <1>1
    <2> QED
      BY <1>1, <1>3, <1>4, <2>1, <2>2 DEF Cut
  <1> QED
    BY <1>1, <1>2, <1>3, <1>5 DEF WriterInv, Byte

(* A step that leaves the stream and the replies alone keeps the cut. *)
LEMMA CutKept ==
    ASSUME WriterInv, received' \o buffer' = received \o buffer, m' = m,
           wPeer' = "open" =>
              /\ wPeer = "open" /\ done' = done /\ cut \subseteq cut'
              /\ m \in cut' \/ wPc' = wPc \/ done = Size
    PROVE  \E p \in [1..m' -> 0..Size] : Cut(p)'
  <1>1. PICK p \in [1..m -> 0..Size] : Cut(p)
    BY DEF WriterInv
  <1>2. Cut(p)'
    <2>1. wPeer' = "open" =>
            /\ m' # 0 => p[m'] = done'
            /\ \A r \in 1..m' : p[r] < Size => r \in cut' \/ (r = m' /\ wPc' = "writen")
      <3> SUFFICES ASSUME wPeer' = "open"
                   PROVE  /\ m # 0 => p[m] = done
                          /\ \A r \in 1..m : p[r] < Size => r \in cut' \/ (r = m /\ wPc' = "writen")
        OBVIOUS
      <3>1. /\ m # 0 => p[m] = done
            /\ \A r \in 1..m : p[r] < Size => r \in cut \/ (r = m /\ wPc = "writen")
        BY <1>1 DEF Cut
      <3>2. m \in Nat /\ Size \in Nat
        BY WriterTypes
      <3>3. ASSUME NEW r \in 1..m, p[r] < Size
            PROVE  r \in cut' \/ (r = m /\ wPc' = "writen")
        <4>1. CASE r \in cut
          BY <4>1
        <4>2. CASE r = m /\ wPc = "writen"
          <5>1. done # Size
            BY <3>1, <3>2, <3>3, <4>2
          <5> QED
            BY <4>2, <5>1
        <4> QED
          BY <3>1, <3>3, <4>1, <4>2
      <3> QED
        BY <3>1, <3>3
    <2> QED
      BY <1>1, <2>1 DEF Cut
  <1> QED
    BY <1>1, <1>2

LEMMA SendKeeps ==
    ASSUME WriterInv, W!Send
    PROVE  WriterInv'
  <1>1. /\ wPc = "idle" /\ m < Replies /\ m' = m + 1 /\ done' = 0 /\ wPc' = "writen"
        /\ UNCHANGED <<blocking, buffer, received, wPeer, cut>>
    BY DEF W!Send
  <1>2. W!TypeOK'
    <2>1. m + 1 \in 0..Replies /\ 0 \in 0..Size
      BY <1>1, WriterTypes
    <2> QED
      BY <1>1, <2>1 DEF WriterInv, W!TypeOK
  <1>3. PICK p \in [1..m -> 0..Size] : Cut(p)
    BY DEF WriterInv
  <1>4. PICK N \in Nat : N = m + 1
    BY WriterTypes
  <1>5. PICK q : q = [r \in 1..N |-> IF r = N THEN 0 ELSE p[r]]
    OBVIOUS
  <1>6. N \in Nat /\ N \in 1..N /\ N - 1 = m /\ N # 0 /\ q \in [1..N -> 0..Size] /\ q[N] = 0
        /\ \A r \in 1..m : q[r] = p[r] /\ r # N
    BY <1>3, <1>4, <1>5, WriterTypes
  <1>7. \A r \in 1..N : r = N \/ r \in 1..m
    BY <1>4, <1>6, WriterTypes
  <1>8. Parts(q, m) = Parts(p, m)
    BY <1>6, PartsAlike
  <1>9. Part(N, 0) = << >>
    BY DEF Part
  <1>10. FlattenSeq(Parts(q, N)) = FlattenSeq(Parts(p, m))
    <2>1. FlattenSeq(Parts(q, N)) = FlattenSeq(Parts(q, N - 1)) \o Part(N, q[N])
      <3>1. N \in Nat /\ N \in 1..N /\ q \in [1..N -> 0..Size]
        BY <1>6
      <3> QED
        BY <3>1, PartsMore
    <2> DEFINE s == FlattenSeq(Parts(p, m))
    <2>2. s \in Seq(Byte)
      <3>1. m \in 0..m
        BY WriterTypes
      <3> QED
        BY <3>1, PartsTypes, WriterTypes
    <2> HIDE DEF s
    <2>3. s \o << >> = s
      BY <2>2
    <2> QED
      BY <1>6, <1>8, <1>9, <2>1, <2>3 DEF s
  <1>11. Cut(q)'
    <2>1. wPeer' = "open" =>
            /\ m' # 0 => q[m'] = done'
            /\ \A r \in 1..m' : q[r] < Size => r \in cut' \/ (r = m' /\ wPc' = "writen")
      <3> SUFFICES ASSUME wPeer = "open", NEW r \in 1..N, q[r] < Size, r # N PROVE r \in cut
        BY <1>1, <1>4, <1>6
      <3>1. r \in 1..m /\ p[r] < Size
        BY <1>6, <1>7
      <3> QED
        BY <1>1, <1>3, <3>1 DEF Cut
    <2>2. received' \o buffer' = FlattenSeq(Parts(q, m'))
      BY <1>1, <1>3, <1>4, <1>10 DEF Cut
    <2> QED
      BY <1>1, <1>4, <1>6, <2>1, <2>2 DEF Cut
  <1> QED
    BY <1>1, <1>2, <1>4, <1>6, <1>11 DEF WriterInv

LEMMA WriteSomeKeeps ==
    ASSUME WriterInv, W!WriteSome
    PROVE  WriterInv'
  <1> DEFINE limit == W!Min({Size - done, Room - Len(buffer)})
  <1>1. /\ wPc = "writen" /\ wPeer = "open"
        /\ UNCHANGED <<blocking, received, wPeer, wPc, m, cut>>
    BY DEF W!WriteSome
  <1>2. PICK k \in 1..limit : buffer' = buffer \o [j \in 1..k |-> <<m, done + j>>] /\ done' = done + k
    BY DEF W!WriteSome
  <1>3. limit \in Nat /\ limit <= Size - done /\ limit <= Room - Len(buffer)
    <2>1. Size - done \in Nat /\ Room - Len(buffer) \in Nat
      <3>1. Len(buffer) <= Room
        BY DEF WriterInv, W!TypeOK
      <3>2. Len(buffer) \in Nat /\ Room \in Nat /\ done \in 0..Size /\ Size \in Nat
        BY WriterTypes
      <3> QED
        BY <3>1, <3>2
    <2>2. \E y \in {Size - done, Room - Len(buffer)} : \A z \in {Size - done, Room - Len(buffer)} : y <= z
      BY <2>1
    <2>3. /\ limit \in {Size - done, Room - Len(buffer)}
          /\ \A z \in {Size - done, Room - Len(buffer)} : limit <= z
      BY <2>2 DEF W!Min
    <2> QED
      BY <2>1, <2>3
  <1> HIDE DEF limit
  <1>4. k \in Nat /\ done + k \in 0..Size /\ Len(buffer) + k <= Room /\ m # 0 /\ m \in 1..m
        /\ m \in Nat /\ done + k \in Nat /\ done \in Nat
    <2>1. Len(buffer) \in Nat /\ Room \in Nat /\ done \in 0..Size /\ Size \in Nat /\ m \in Nat
      BY WriterTypes
    <2>2. m # 0
      BY <1>1 DEF WriterInv
    <2>3. k \in Nat /\ k <= limit
      BY <1>3
    <2> QED
      BY <1>3, <2>1, <2>2, <2>3
  <1> DEFINE more == [j \in 1..k |-> <<m, done + j>>]
             all  == buffer \o more
  <1>5. more \in Seq(Byte) /\ Len(more) = k /\ \A j \in 1..k : more[j] = <<m, done + j>>
    BY <1>4 DEF Byte
  <1> HIDE DEF more
  <1>6. all \in Seq(Byte) /\ Len(all) = Len(buffer) + k
    <2>1. buffer \in Seq(Byte) /\ more \in Seq(Byte)
      BY <1>5, WriterTypes
    <2> QED
      BY <1>5, <2>1, ConcatProperties
  <1>7. buffer' = all
    BY <1>2 DEF more
  <1>8. W!TypeOK'
    <2> HIDE DEF all
    <2>1. Len(buffer') <= Room /\ done' \in 0..Size
      BY <1>2, <1>4, <1>6, <1>7
    <2> QED
      BY <1>1, <2>1 DEF WriterInv, W!TypeOK
  <1>9. PICK p \in [1..m -> 0..Size] : Cut(p)
    BY DEF WriterInv
  <1>10. PICK q : q = [p EXCEPT ![m] = done + k]
    OBVIOUS
  <1> DEFINE old == Part(m, done)
             new == Part(m, done + k)
  <1>11. q \in [1..m -> 0..Size] /\ q[m] = done + k /\ p[m] = done
         /\ \A r \in 1..m : r # m => q[r] = p[r]
    BY <1>1, <1>4, <1>9, <1>10 DEF Cut
  <1>12. m - 1 \in 0..m /\ \A r \in 1..(m - 1) : r \in 1..m /\ r # m
    BY <1>4
  <1>13. Parts(q, m - 1) = Parts(p, m - 1)
    BY <1>11, <1>12, PartsAlike
  <1> DEFINE s == FlattenSeq(Parts(p, m - 1))
  <1>14. /\ FlattenSeq(Parts(p, m)) = s \o old
         /\ FlattenSeq(Parts(q, m)) = s \o new
    <2>1. FlattenSeq(Parts(p, m)) = FlattenSeq(Parts(p, m - 1)) \o Part(m, p[m])
      BY <1>4, <1>9, PartsMore
    <2>2. FlattenSeq(Parts(q, m)) = FlattenSeq(Parts(q, m - 1)) \o Part(m, q[m])
      BY <1>4, <1>11, PartsMore
    <2> QED
      BY <1>11, <1>13, <2>1, <2>2
  <1>15. /\ s \in Seq(Byte) /\ old \in Seq(Byte) /\ new \in Seq(Byte)
         /\ Len(old) = done /\ Len(new) = done + k
         /\ \A j \in 1..done : old[j] = <<m, j>>
         /\ \A j \in 1..(done + k) : new[j] = <<m, j>>
    BY <1>4, <1>9, <1>12, PartsTypes, PartTypes
  <1> HIDE DEF s, old, new
  <1>16. new = old \o more
    <2> DEFINE both == old \o more
    <2>1. /\ both \in Seq(Byte) /\ Len(both) = done + k
          /\ \A j \in 1..done : both[j] = old[j]
          /\ \A j \in (done + 1)..(done + k) : j - done \in 1..k /\ both[j] = more[j - done]
      <3>1. /\ old \in Seq(Byte) /\ more \in Seq(Byte) /\ done \in Nat /\ k \in Nat
            /\ done = Len(old) /\ k = Len(more)
        BY <1>4, <1>5, <1>15
      <3> HIDE DEF both
      <3>2. both = old \o more
        BY DEF both
      <3> QED
        BY <3>1, <3>2, Joined
    <2> HIDE DEF both
    <2>2. \A j \in 1..(done + k) : both[j] = <<m, j>>
      <3> TAKE j \in 1..(done + k)
      <3>1. CASE j \in 1..done
        BY <1>15, <2>1, <3>1
      <3>2. CASE j \in (done + 1)..(done + k)
        <4>1. done + (j - done) = j
          BY <1>4, <3>2
        <4> QED
          BY <1>5, <2>1, <3>2, <4>1
      <3> QED
        BY <1>4, <3>1, <3>2
    <2>3. Len(new) = Len(both) /\ \A j \in 1..Len(new) : new[j] = both[j]
      <3>1. \A j \in 1..(done + k) : new[j] = <<m, j>>
        BY <1>15
      <3>2. Len(both) = done + k /\ Len(new) = done + k
        BY <1>15, <2>1
      <3> QED
        BY <2>2, <3>1, <3>2
    <2>4. new = both
      BY <1>15, <2>1, <2>3, SeqEqual
    <2> QED
      BY <2>4 DEF both
  <1>17. received \o all = FlattenSeq(Parts(q, m))
    <2>1. received \o buffer = s \o old
      BY <1>9, <1>14 DEF Cut
    <2>2. received \o all = (received \o buffer) \o more
      <3>1. received \in Seq(Byte) /\ buffer \in Seq(Byte) /\ more \in Seq(Byte)
        BY <1>5, WriterTypes
      <3> QED
        BY <3>1, Associative
    <2>3. (s \o old) \o more = s \o (old \o more)
      <3>1. s \in Seq(Byte) /\ old \in Seq(Byte) /\ more \in Seq(Byte)
        BY <1>5, <1>15
      <3> QED
        BY <3>1, Associative
    <2> QED
      BY <1>14, <1>16, <2>1, <2>2, <2>3, Zenon
  <1> HIDE DEF all
  <1>18. Cut(q)'
    <2>1. \A r \in 1..m : q[r] < Size => r \in cut \/ r = m
      BY <1>1, <1>9, <1>11 DEF Cut
    <2>2. received' \o buffer' = FlattenSeq(Parts(q, m'))
      BY <1>1, <1>7, <1>17
    <2> QED
      BY <1>1, <1>2, <1>11, <2>1, <2>2 DEF Cut
  <1> QED
    BY <1>1, <1>6, <1>7, <1>8, <1>11, <1>18, WriterTypes DEF WriterInv, Byte

LEMMA ReturnsKeep ==
    ASSUME WriterInv, W!AllWritten \/ W!WouldBlock \/ W!WriteFails
    PROVE  WriterInv'
  <1>1. /\ UNCHANGED <<blocking, buffer, received, wPeer, m, done>> /\ wPc = "writen"
        /\ wPc' \in {"idle", "killed"} /\ cut \subseteq cut' /\ cut' \subseteq cut \cup {m}
        /\ wPeer = "open" => (done = Size /\ cut' = cut) \/ (m \in cut' /\ ~blocking)
    BY DEF W!AllWritten, W!WouldBlock, W!WriteFails, W!Return
  <1>2. W!TypeOK'
    <2>1. m \in 1..Replies
      BY <1>1, WriterTypes DEF WriterInv
    <2> QED
      BY <1>1, <2>1 DEF WriterInv, W!TypeOK
  <1>3. \E p \in [1..m' -> 0..Size] : Cut(p)'
    BY <1>1, CutKept
  <1> QED
    BY <1>1, <1>2, <1>3 DEF WriterInv

LEMMA WriteToClosedKeeps ==
    ASSUME WriterInv, W!WriteToClosed
    PROVE  WriterInv'
  <1>1. /\ wPeer = "closed" /\ wPeer' \in {"closed", "reset"}
        /\ UNCHANGED <<blocking, buffer, received, wPc, m, cut>>
    BY DEF W!WriteToClosed
  <1>2. done' \in 0..Size
    BY WriterTypes DEF W!WriteToClosed
  <1>3. W!TypeOK'
    BY <1>1, <1>2 DEF WriterInv, W!TypeOK
  <1>4. \E p \in [1..m' -> 0..Size] : Cut(p)'
    BY <1>1, CutKept
  <1> QED
    BY <1>1, <1>3, <1>4 DEF WriterInv

LEMMA PeerTakesKeeps ==
    ASSUME WriterInv, W!PeerTakes
    PROVE  WriterInv'
  <1>1. /\ wPeer = "open" /\ UNCHANGED <<blocking, wPeer, wPc, m, done, cut>>
    BY DEF W!PeerTakes
  <1>2. PICK k \in 1..Len(buffer) : /\ received' = received \o SubSeq(buffer, 1, k)
                                    /\ buffer' = SubSeq(buffer, k + 1, Len(buffer))
    BY DEF W!PeerTakes
  <1> DEFINE a == SubSeq(buffer, 1, k)
             b == SubSeq(buffer, k + 1, Len(buffer))
  <1>3. a \in Seq(Byte) /\ b \in Seq(Byte) /\ Len(b) <= Len(buffer)
    BY WriterTypes
  <1>4. a \o b = buffer
    <2>1. k \in 0..Len(buffer) /\ 1 \in 1..(Len(buffer) + 1) /\ Len(buffer) \in k..Len(buffer)
          /\ k \in (1 - 1)..Len(buffer)
      BY WriterTypes
    <2>2. a \o b = SubSeq(buffer, 1, Len(buffer))
      BY <2>1, WriterTypes, ConcatAdjacentSubSeq
    <2>3. SubSeq(buffer, 1, Len(buffer)) = buffer
      BY WriterTypes
    <2> QED
      BY <2>2, <2>3
  <1> HIDE DEF a, b
  <1>5. received' = received \o a /\ buffer' = b
    BY <1>2 DEF a, b
  <1>6. (received \o a) \o b = received \o (a \o b)
    <2>1. received \in Seq(Byte) /\ a \in Seq(Byte) /\ b \in Seq(Byte)
      BY <1>3, WriterTypes
    <2> QED
      BY <2>1, Associative
  <1>7. \E p \in [1..m' -> 0..Size] : Cut(p)'
    <2>1. received' \o buffer' = received \o buffer
      BY <1>4, <1>5, <1>6, Zenon
    <2> QED
      BY <1>1, <2>1, CutKept
  <1>8. received \o a \in Seq(Byte)
    BY <1>3, WriterTypes
  <1>9. W!TypeOK'
    <2>0. Len(buffer) <= Room
      BY DEF WriterInv, W!TypeOK
    <2>1. Len(b) \in Nat /\ Len(b) <= Room
      <3>1. Len(b) \in Nat /\ Len(buffer) \in Nat /\ Room \in Nat /\ Len(b) <= Len(buffer)
        BY <1>3, WriterTypes
      <3> QED
        BY <2>0, <3>1
    <2> QED
      BY <1>1, <1>5, <2>1 DEF WriterInv, W!TypeOK
  <1> QED
    BY <1>1, <1>3, <1>5, <1>7, <1>8, <1>9 DEF WriterInv, Byte

LEMMA WriterStays ==
    ASSUME WriterInv, W!PeerCloses \/ UNCHANGED W!vars
    PROVE  WriterInv'
  <1>1. /\ UNCHANGED <<blocking, buffer, received, wPc, m, done, cut>>
        /\ wPeer' = wPeer \/ wPeer' = "closed"
    BY DEF W!PeerCloses, W!vars
  <1>2. \E p \in [1..m' -> 0..Size] : Cut(p)'
    BY <1>1, CutKept
  <1> QED
    BY <1>1, <1>2 DEF WriterInv, W!TypeOK

(* No program changes "blocking", which is the reader's too. *)
LEMMA ReaderLeavesBlocking == R!Next => blocking' = blocking
  BY DEF R!Next, R!Peer, R!PeerCloses, R!PeerResets, R!PeerSend, R!IOThread, R!Closed, R!Receive,
         R!ReceiveNext, R!Peek, R!PeekFails, R!ReadSome, R!ReadnReturns, R!stream

LEMMA WriterKeeps ==
    ASSUME WriterInv, [SocketsNext]_socketVars
    PROVE  WriterInv'
  <1>1. CASE W!Next
    BY <1>1, SendKeeps, WriteSomeKeeps, ReturnsKeep, WriteToClosedKeeps, PeerTakesKeeps, WriterStays
       DEF W!Next
  <1>2. CASE UNCHANGED W!vars
    BY <1>2, WriterStays
  <1>3. UNCHANGED <<blocking, writerVars>> => UNCHANGED W!vars
    BY DEF writerVars, W!vars
  <1> QED
    BY <1>1, <1>2, <1>3, ReaderLeavesBlocking DEF SocketsNext, socketVars

(***************************************************************************)
(* What the invariant says of the property.                                *)
(***************************************************************************)
LEMMA InSequence ==
    ASSUME WriterInv
    PROVE  W!RepliesInSequence
  <1> DEFINE stream == received \o buffer
             part(r) == W!Cardinality({i \in DOMAIN stream : stream[i][1] = r})
  <1>1. PICK p \in [1..m -> 0..Size] : Cut(p)
    BY DEF WriterInv
  <1>2. \A r \in 1..m : part(r) = p[r]
    <2> TAKE r \in 1..m
    <2>1. Cardinality(Share(FlattenSeq(Parts(p, m)), r)) = p[r]
      BY WriterTypes, SharesOfParts
    <2>2. FlattenSeq(Parts(p, m)) = stream
      BY <1>1 DEF Cut
    <2>3. part(r) = Cardinality({i \in DOMAIN stream : stream[i][1] = r})
      BY DEF W!Cardinality, Cardinality
    <2> HIDE DEF part, stream
    <2> QED
      BY <2>1, <2>2, <2>3 DEF Share
  <1> HIDE DEF part
  <1>3. [r \in 1..m |-> [j \in 1..part(r) |-> <<r, j>>]] = Parts(p, m)
    BY <1>2 DEF Parts, Part
  <1>4. stream = W!FlattenSeq([r \in 1..m |-> [j \in 1..part(r) |-> <<r, j>>]])
    <2>1. W!FlattenSeq(Parts(p, m)) = FlattenSeq(Parts(p, m))
      BY DEF W!FlattenSeq, FlattenSeq
    <2> QED
      BY <1>1, <1>3, <2>1 DEF Cut
  <1>5. wPeer = "open" =>
          /\ \A r \in 1..m : part(r) < Size => r \in cut \/ (r = m /\ wPc = "writen")
          /\ cut # {} => ~blocking
    BY <1>1, <1>2 DEF WriterInv, Cut
  <1> QED
    BY <1>4, <1>5 DEF part, W!RepliesInSequence, WriterInv

LEMMA WriterInvHolds == SocketsSpec => []WriterInv
  <1>1. SocketsInit => WriterInv
    BY WriterInit DEF SocketsInit
  <1> QED
    BY <1>1, WriterKeeps, PTL DEF SocketsSpec

(***************************************************************************)
(* writen(), for any number of replies of any size and a buffer of any     *)
(* size: the replies come in order, each byte once, each from its          *)
(* beginning and whole, except those that writen() gave up.                *)
(***************************************************************************)
THEOREM RepliesInOrder == SocketsSpec => []RepliesInSequence
  <1>1. WriterInv => RepliesInSequence
    BY InSequence DEF RepliesInSequence
  <1> QED
    BY <1>1, WriterInvHolds, PTL

-----------------------------------------------------------------------------
(***************************************************************************)
(* Datagrams.                                                              *)
(***************************************************************************)

Mail == [from : D!Hosts, to : D!Hosts, of : D!Hosts, n : Nat, full : BOOLEAN]
Heard == Mail \cup [of : D!Hosts, n : Nat, awaited : Nat]

(* A bag, and how often d is in it. *)
IsBag(b) == b \in [DOMAIN b -> Nat \ {0}]
Times(b, d) == IF d \in DOMAIN b THEN b[d] ELSE 0

MailTypes ==
    /\ D!TypeOK
    /\ IsBag(mail) /\ DOMAIN mail \subseteq Mail
    /\ asked \in Mail /\ vanished \in Nat /\ dups \in Nat
    /\ answers \in [D!Hosts -> Seq(Heard)]

(* Who does what in which program. *)
Roles ==
    /\ serverAt = "type" => talk = D!uchar
    /\ serverAt # "type" => asked = D!None
    /\ serverAt = "news" => talk = D!news
    /\ serverAt = "recv" => talk # D!news
    /\ \A c \in Clients : clnt[c] = "away" => talk = D!news
    /\ talk = D!news => \A c \in Clients : clnt[c] \in {"away", "recv"}
    /\ refused \subseteq IF talk = D!uecho_con THEN Clients ELSE {}
    /\ D!ZerosOutside

(* Requests and answers of client c. *)
Request(d, c)  == d.to = Server /\ d.from = c /\ d.of = c
Response(d, c) == d.to = c /\ d.from = Server /\ d.of = c

TalkMail ==
    /\ \A d \in DOMAIN mail : d.of \in Clients /\ d.n <= nsent[d.of]
                             /\ (Request(d, d.of) \/ Response(d, d.of))
    /\ serverAt = "type" => asked.of \in Clients /\ asked.n <= nsent[asked.of] /\ Request(asked, asked.of)

(* Without duplicates one request or answer at most is under way for a     *)
(* client, the one it waits for.                                           *)
InStep ==
    dups = 0 =>
        /\ \A d \in DOMAIN mail :
              /\ mail[d] = 1 /\ clnt[d.of] = "recv" /\ d.n = nsent[d.of]
              /\ d.of \notin refused /\ (serverAt = "type" => asked.of # d.of)
              /\ \A e \in DOMAIN mail : e.of = d.of => e = d
        /\ serverAt = "type" =>
              clnt[asked.of] = "recv" /\ asked.n = nsent[asked.of] /\ asked.of \notin refused
        /\ \A c \in refused : clnt[c] = "recv"

Waiting ==
    vanished = 0 /\ serverAt # "done" =>
        \A c \in Clients : clnt[c] = "recv" /\ c \notin unsent =>
            \/ \E d \in DOMAIN mail : d.of = c
            \/ serverAt = "type" /\ asked.of = c

Matching ==
    \A c \in Clients : \A i \in DOMAIN answers[c] :
        /\ answers[c][i].of = c /\ answers[c][i].n <= answers[c][i].awaited
        /\ dups = 0 => answers[c][i].n = answers[c][i].awaited

TalkInv == TalkMail /\ InStep /\ Waiting /\ Matching

(* Each message of the bound hosts is under way, taken or gone. *)
BoundMail ==
    /\ \A d \in DOMAIN mail : d.to = Server /\ d.of \in Clients /\ d.of = d.from /\ d.n <= nsent[d.of]
    /\ \A i \in DOMAIN answers[Server] :
          answers[Server][i] \in Mail /\ answers[Server][i].n <= nsent[answers[Server][i].of]
    /\ dups = 0 =>
          /\ \A d \in DOMAIN mail : mail[d] = 1 /\ \A i \in DOMAIN answers[Server] : answers[Server][i] # d
          /\ \A i, j \in DOMAIN answers[Server] : answers[Server][i] = answers[Server][j] => i = j

(* The news: what was sent to c of line k, and where it is. *)
NewsLine(c, k) == D!Datagram(Server, c, Server, k, FALSE)
Hits(s, k) == Cardinality({i \in DOMAIN s : s[i].n = k})
Sent(role, from, upto, k) ==
    (IF role = "recv" /\ from < k /\ k <= upto THEN 1 ELSE 0)
    + (IF role = "recv" /\ k = MaxMsgs /\ from <= MaxMsgs /\ upto = MaxMsgs + 1 THEN 1 ELSE 0)

(* Receiver c in its role has heard s, and bag b is under way, after n     *)
(* lines, l losses and d duplicates.                                       *)
Tallied(c, role, s, b, n, l, d) ==
    /\ role = "away" => s = << >>
    /\ role = "recv" => s # << >> /\ s[1].awaited \in 0 .. n
    /\ \A k \in 1 .. MaxMsgs :
          /\ Hits(s, k) + Times(b, NewsLine(c, k)) <= Sent(role, s[1].awaited, n, k) + d
          /\ Sent(role, s[1].awaited, n, k) <= Hits(s, k) + Times(b, NewsLine(c, k)) + l

NewsMail ==
    /\ nsent[Server] \in 0 .. (MaxMsgs + 1) /\ (serverAt = "done" <=> nsent[Server] = MaxMsgs + 1)
    /\ serverAt = "absent" => nsent[Server] = 0
    /\ \A d \in DOMAIN mail : d.to \in Clients /\ clnt[d.to] = "recv" /\ d.n \in 1 .. MaxMsgs /\ d = NewsLine(d.to, d.n)
    /\ \A c \in Clients : Tallied(c, clnt[c], answers[c], mail, nsent[Server], vanished, dups)

DatagramsInv ==
    /\ MailTypes /\ Roles
    /\ talk \in D!Talk => TalkInv
    /\ talk = D!bound => BoundMail
    /\ talk = D!news => NewsMail

(* p is bag b with one more d. *)
OneMore(p, b, d) ==
    /\ IsBag(p) /\ DOMAIN p = DOMAIN b \cup {d}
    /\ \A x : Times(p, x) = Times(b, x) + (IF x = d THEN 1 ELSE 0)
    /\ \A x \in DOMAIN b : x # d => p[x] = b[x]
    /\ d \notin DOMAIN b => p[d] = 1

LEMMA BagPut ==
    ASSUME NEW b, IsBag(b), NEW d, NEW p, p = D!(+)(b, D!SetToBag({d}))
    PROVE  OneMore(p, b, d)
  BY DEF D!(+), D!SetToBag, IsBag, Times, OneMore

LEMMA BagTake ==
    ASSUME NEW b, IsBag(b), NEW d \in DOMAIN b, NEW p, p = D!(-)(b, D!SetToBag({d}))
    PROVE  /\ IsBag(p) /\ DOMAIN p \subseteq DOMAIN b
           /\ \A x : x # d => (x \in DOMAIN p <=> x \in DOMAIN b)
           /\ \A x : Times(p, x) = Times(b, x) - (IF x = d THEN 1 ELSE 0)
           /\ \A x \in DOMAIN p : b[x] = 1 => x # d /\ p[x] = 1
  BY DEF D!(-), D!SetToBag, IsBag, Times

LEMMA NetPut ==
    ASSUME MailTypes, NEW d \in Mail, mail' = D!Put(d)
    PROVE  /\ IsBag(mail') /\ DOMAIN mail' = DOMAIN mail \cup {d} /\ DOMAIN mail' \subseteq Mail
           /\ \A x : Times(mail', x) = Times(mail, x) + (IF x = d THEN 1 ELSE 0)
           /\ \A x \in DOMAIN mail : x # d => mail'[x] = mail[x]
           /\ d \notin DOMAIN mail => mail'[d] = 1
  <1>1. IsBag(mail) /\ DOMAIN mail \subseteq Mail
    BY DEF MailTypes
  <1>2. PICK p : p = mail' /\ p = D!(+)(mail, D!SetToBag({d}))
    BY DEF D!Put
  <1>3. OneMore(p, mail, d)
    BY <1>1, <1>2, BagPut
  <1>4. DOMAIN p \subseteq Mail
    BY <1>1, <1>3 DEF OneMore
  <1> QED
    BY <1>2, <1>3, <1>4 DEF OneMore

LEMMA NetTake ==
    ASSUME MailTypes, NEW d \in DOMAIN mail, mail' = D!Without(d)
    PROVE  /\ IsBag(mail') /\ DOMAIN mail' \subseteq DOMAIN mail /\ DOMAIN mail' \subseteq Mail
           /\ \A x : x # d => (x \in DOMAIN mail' <=> x \in DOMAIN mail)
           /\ \A x : Times(mail', x) = Times(mail, x) - (IF x = d THEN 1 ELSE 0)
           /\ \A x \in DOMAIN mail' : mail[x] = 1 => x # d /\ mail'[x] = 1
  <1>1. IsBag(mail) /\ DOMAIN mail \subseteq Mail
    BY DEF MailTypes
  <1>2. mail' = D!(-)(mail, D!SetToBag({d}))
    BY DEF D!Without
  <1> QED
    BY <1>1, <1>2, BagTake

LEMMA DatagramConstants ==
    /\ Server \notin Clients /\ MaxMsgs \in Nat \ {0} /\ D!Hosts = {Server} \cup Clients
    /\ Server \in D!Hosts /\ Clients \subseteq D!Hosts
  BY SocketsAssumption DEF D!DatagramsAssumption, D!Hosts

LEMMA MailFields ==
    /\ \A d \in Mail : /\ d.from \in D!Hosts /\ d.to \in D!Hosts /\ d.of \in D!Hosts
                       /\ d.n \in Nat /\ d.full \in BOOLEAN
    /\ \A from, to, of \in D!Hosts : \A n \in Nat : \A most \in BOOLEAN :
          LET d == D!Datagram(from, to, of, n, most)
          IN  d \in Mail /\ d.from = from /\ d.to = to /\ d.of = of /\ d.n = n /\ d.full = most
  BY DEF Mail, D!Datagram

LEMMA DatagramFields ==
    ASSUME NEW from \in D!Hosts, NEW to \in D!Hosts, NEW of \in D!Hosts, NEW n \in Nat, NEW most \in BOOLEAN,
           NEW d, d = D!Datagram(from, to, of, n, most)
    PROVE  d \in Mail /\ d.from = from /\ d.to = to /\ d.of = of /\ d.n = n /\ d.full = most
  BY DEF Mail, D!Datagram

(* What h has heard when it hears a. *)
LEMMA HearsMore ==
    ASSUME NEW s, s \in [D!Hosts -> Seq(Heard)], NEW h \in D!Hosts, NEW a \in Heard,
           NEW t, t = [s EXCEPT ![h] = Append(@, a)]
    PROVE  /\ t \in [D!Hosts -> Seq(Heard)] /\ t[h] = Append(s[h], a)
           /\ \A k \in D!Hosts : k # h => t[k] = s[k]
           /\ \A i \in DOMAIN t[h] : t[h][i] = a \/ (i \in DOMAIN s[h] /\ t[h][i] = s[h][i])
  <1>1. s[h] \in Seq(Heard)
    OBVIOUS
  <1>2. PICK q \in Seq(Heard) : q = s[h]
    BY <1>1
  <1>3. /\ Append(q, a) \in Seq(Heard)
        /\ \A i \in DOMAIN Append(q, a) : Append(q, a)[i] = a \/ (i \in DOMAIN q /\ Append(q, a)[i] = q[i])
    OBVIOUS
  <1>4. t[h] = Append(q, a) /\ \A k \in D!Hosts : k # h => t[k] = s[k]
    BY <1>2
  <1>5. t \in [D!Hosts -> Seq(Heard)]
    BY <1>2, <1>3
  <1> QED
    BY <1>2, <1>3, <1>4, <1>5

(* The programs of a user are neither of the others. *)
LEMMA TalkStep ==
    ASSUME talk \in D!Talk, talk' = talk, MailTypes', Roles', TalkInv'
    PROVE  DatagramsInv'
  BY DEF DatagramsInv, D!Talk, D!bound, D!news, D!uecho, D!uecho_con, D!uchar

(* The network. *)
LEMMA LoseTalk ==
    ASSUME DatagramsInv, talk \in D!Talk, NEW d \in DOMAIN mail, D!Lose(d)
    PROVE  DatagramsInv'
  <1>1. /\ mail' = D!Without(d) /\ vanished' = vanished + 1
        /\ UNCHANGED <<talk, serverAt, asked, clnt, nsent, answers, refused, outside, unsent, dups>>
    BY DEF D!Lose, D!hostVars
  <1>2. MailTypes /\ Roles /\ TalkMail /\ InStep /\ Matching
    BY DEF DatagramsInv, TalkInv
  <1>3. MailTypes'
    BY <1>1, <1>2, NetTake DEF MailTypes, D!TypeOK
  <1>4. Roles'
    BY <1>1, <1>2 DEF Roles, D!ZerosOutside
  <1>5. TalkMail' /\ InStep'
    <2>1. DOMAIN mail' \subseteq DOMAIN mail /\ \A x \in DOMAIN mail' : mail[x] = 1 => mail'[x] = 1
      BY <1>1, <1>2, NetTake
    <2> QED
      BY <1>1, <1>2, <2>1 DEF TalkMail, InStep
  <1>6. Waiting'
    BY <1>1, <1>2 DEF Waiting, MailTypes
  <1>7. Matching'
    BY <1>1, <1>2 DEF Matching
  <1> QED
    BY <1>1, <1>3, <1>4, <1>5, <1>6, <1>7, TalkStep DEF TalkInv

LEMMA DuplicateTalk ==
    ASSUME DatagramsInv, talk \in D!Talk, NEW d \in DOMAIN mail, D!Duplicate(d)
    PROVE  DatagramsInv'
  <1>1. /\ mail' = D!Put(d) /\ dups' = dups + 1
        /\ UNCHANGED <<talk, serverAt, asked, clnt, nsent, answers, refused, outside, unsent, vanished>>
    BY DEF D!Duplicate, D!hostVars
  <1>2. MailTypes /\ Roles /\ TalkMail /\ Waiting /\ Matching
    BY DEF DatagramsInv, TalkInv
  <1>3. /\ IsBag(mail') /\ DOMAIN mail' = DOMAIN mail /\ DOMAIN mail' \subseteq Mail
    <2>1. d \in Mail
      BY <1>2 DEF MailTypes
    <2> QED
      BY <1>1, <1>2, <2>1, NetPut
  <1>4. MailTypes'
    BY <1>1, <1>2, <1>3 DEF MailTypes, D!TypeOK
  <1>5. Roles'
    BY <1>1, <1>2 DEF Roles, D!ZerosOutside
  <1>6. TalkMail' /\ Waiting'
    BY <1>1, <1>2, <1>3 DEF TalkMail, Waiting
  <1>7. dups' # 0
    BY <1>1, <1>2 DEF MailTypes
  <1>8. InStep' /\ Matching'
    BY <1>1, <1>2, <1>7 DEF Matching, InStep
  <1> QED
    BY <1>1, <1>4, <1>5, <1>6, <1>8, TalkStep DEF TalkInv

LEMMA UnreachableTalk ==
    ASSUME DatagramsInv, talk \in D!Talk, NEW d \in DOMAIN mail, D!Unreachable(d)
    PROVE  DatagramsInv'
  <1>1. /\ mail' = D!Without(d) /\ vanished' = vanished + 1 /\ d.to = Server /\ serverAt \in {"absent", "done"}
        /\ refused' = IF talk = D!uecho_con THEN refused \cup {d.from} ELSE refused
        /\ UNCHANGED <<talk, serverAt, asked, clnt, nsent, answers, outside, unsent, dups>>
    BY DEF D!Unreachable
  <1>2. MailTypes /\ Roles /\ TalkMail /\ InStep /\ Matching
    BY DEF DatagramsInv, TalkInv
  <1>3. d.of \in Clients /\ d.from = d.of
    BY <1>1, <1>2, DatagramConstants DEF TalkMail, Request, Response
  <1>4. MailTypes'
    BY <1>1, <1>2, <1>3, NetTake DEF MailTypes, D!TypeOK
  <1>5. Roles'
    BY <1>1, <1>2, <1>3 DEF Roles, D!ZerosOutside
  <1>6. TalkMail' /\ InStep'
    <2>1. DOMAIN mail' \subseteq DOMAIN mail /\ \A x \in DOMAIN mail' : mail[x] = 1 => x # d /\ mail'[x] = 1
      BY <1>1, <1>2, NetTake
    <2>2. TalkMail'
      BY <1>1, <1>2, <2>1 DEF TalkMail
    <2>3. InStep'
      <3> SUFFICES ASSUME dups = 0 PROVE InStep'
        BY <1>1 DEF InStep
      <3>1. \A e \in DOMAIN mail' : e.of # d.of
        BY <1>2, <2>1 DEF InStep
      <3> QED
        BY <1>1, <1>2, <1>3, <2>1, <3>1 DEF InStep
    <2> QED
      BY <2>2, <2>3
  <1>7. Waiting'
    BY <1>1, <1>2 DEF Waiting, MailTypes
  <1>8. Matching'
    BY <1>1, <1>2 DEF Matching
  <1> QED
    BY <1>1, <1>4, <1>5, <1>6, <1>7, <1>8, TalkStep DEF TalkInv

LEMMA ServerStartsTalk ==
    ASSUME DatagramsInv, talk \in D!Talk, D!ServerStarts
    PROVE  DatagramsInv'
  <1>0. talk # D!news
    BY DEF D!Talk, D!news, D!uecho, D!uecho_con, D!uchar
  <1>1. /\ serverAt = "absent" /\ serverAt' = "recv"
        /\ UNCHANGED <<talk, mail, vanished, asked, clnt, nsent, answers, refused, outside, unsent, dups>>
    BY <1>0 DEF D!ServerStarts
  <1>2. MailTypes /\ Roles /\ TalkMail /\ InStep /\ Matching /\ Waiting
    BY DEF DatagramsInv, TalkInv
  <1>3. MailTypes'
    BY <1>1, <1>2 DEF MailTypes, D!TypeOK
  <1>4. Roles'
    BY <1>0, <1>1, <1>2 DEF Roles, D!ZerosOutside
  <1>5. TalkMail' /\ InStep' /\ Waiting' /\ Matching'
    BY <1>1, <1>2 DEF TalkMail, InStep, Waiting, Matching
  <1> QED
    BY <1>1, <1>3, <1>4, <1>5, TalkStep DEF TalkInv

LEMMA ServerQuitsTalk ==
    ASSUME DatagramsInv, talk \in D!Talk, D!ServerQuits
    PROVE  DatagramsInv'
  <1>1. /\ serverAt = "type" /\ serverAt' = "done" /\ asked' = D!None
        /\ UNCHANGED <<talk, mail, vanished, clnt, nsent, answers, refused, outside, unsent, dups>>
    BY DEF D!ServerQuits
  <1>2. MailTypes /\ Roles /\ TalkMail /\ InStep /\ Matching
    BY DEF DatagramsInv, TalkInv
  <1>3. D!None \in Mail
    BY DatagramConstants, MailFields DEF D!None
  <1>4. MailTypes'
    BY <1>1, <1>2, <1>3 DEF MailTypes, D!TypeOK
  <1>5. Roles'
    BY <1>1, <1>2 DEF Roles, D!ZerosOutside
  <1>6. TalkMail' /\ InStep' /\ Waiting' /\ Matching'
    BY <1>1, <1>2 DEF TalkMail, InStep, Waiting, Matching
  <1> QED
    BY <1>1, <1>4, <1>5, <1>6, TalkStep DEF TalkInv

(* uecho_server, uchar_server. *)
LEMMA EchoTalk ==
    ASSUME DatagramsInv, talk \in D!Talk, NEW d \in DOMAIN mail, D!Echo(d)
    PROVE  DatagramsInv'
  <1>1. /\ serverAt = "recv" /\ d.to = Server
        /\ answers' = [answers EXCEPT ![Server] = Append(@, d)]
        /\ UNCHANGED <<talk, serverAt, asked, clnt, nsent, refused, outside, unsent, vanished, dups>>
    BY DEF D!Echo, D!Hears, D!Arrived
  <1>2. MailTypes /\ Roles /\ TalkMail /\ InStep /\ Matching /\ Waiting
    BY DEF DatagramsInv, TalkInv
  <1>3. d \in Mail /\ d.of \in Clients /\ d.from = d.of /\ d.n <= nsent[d.of] /\ d.n \in Nat /\ d.full \in BOOLEAN
    BY <1>1, <1>2, MailFields, DatagramConstants DEF TalkMail, Request, Response, MailTypes
  <1>4. PICK e : e = D!Datagram(Server, d.from, d.of, d.n, d.full)
    OBVIOUS
  <1>5. e \in Mail /\ e.from = Server /\ e.to = d.of /\ e.of = d.of /\ e.n = d.n
    <2>1. Server \in D!Hosts /\ d.from \in D!Hosts /\ d.of \in D!Hosts
      BY <1>3, DatagramConstants
    <2> QED
      BY <1>3, <1>4, <2>1, DatagramFields
  <1>6. e # d
    BY <1>1, <1>3, <1>5, DatagramConstants
  <1>7. PICK mid : mid = D!(-)(mail, D!SetToBag({d})) /\ mail' = D!(+)(mid, D!SetToBag({e}))
    BY <1>4 DEF D!Echo, D!Without
  <1>8. /\ IsBag(mid) /\ DOMAIN mid \subseteq DOMAIN mail
        /\ \A x : x # d => (x \in DOMAIN mid <=> x \in DOMAIN mail)
        /\ \A x \in DOMAIN mid : mail[x] = 1 => x # d /\ mid[x] = 1
    BY <1>2, <1>7, BagTake DEF MailTypes
  <1>9. /\ IsBag(mail') /\ DOMAIN mail' = DOMAIN mid \cup {e}
        /\ \A x \in DOMAIN mid : x # e => mail'[x] = mid[x]
        /\ e \notin DOMAIN mid => mail'[e] = 1
    <2>1. PICK p : p = mail' /\ p = D!(+)(mid, D!SetToBag({e}))
      BY <1>7
    <2>2. OneMore(p, mid, e)
      BY <1>8, <2>1, BagPut
    <2> QED
      BY <2>1, <2>2 DEF OneMore
  <1>10. answers' \in [D!Hosts -> Seq(Heard)] /\ \A c \in Clients : answers'[c] = answers[c]
    <2>1. answers \in [D!Hosts -> Seq(Heard)] /\ d \in Heard /\ Server \in D!Hosts
      BY <1>2, <1>3, DatagramConstants DEF MailTypes, Heard
    <2>2. answers' \in [D!Hosts -> Seq(Heard)] /\ \A k \in D!Hosts : k # Server => answers'[k] = answers[k]
      BY <1>1, <2>1, HearsMore
    <2> QED
      BY <2>2, DatagramConstants
  <1>11. MailTypes'
    <2>1. DOMAIN mail' \subseteq Mail
      BY <1>2, <1>5, <1>8, <1>9 DEF MailTypes
    <2>2. answers' \in [D!Hosts -> Seq(Heard)]
      BY <1>10
    <2> QED
      BY <1>1, <1>2, <1>9, <2>1, <2>2 DEF MailTypes, D!TypeOK
  <1>12. Roles'
    BY <1>1, <1>2 DEF Roles, D!ZerosOutside
  <1>13. TalkMail'
    BY <1>1, <1>2, <1>3, <1>5, <1>8, <1>9 DEF TalkMail, Response
  <1>14. InStep'
    <2> SUFFICES ASSUME dups = 0 PROVE InStep'
      BY <1>1 DEF InStep
    <2>1. \A x \in DOMAIN mid : mid[x] = 1 /\ x.of # d.of
      BY <1>2, <1>8 DEF InStep
    <2>2. clnt[d.of] = "recv" /\ d.n = nsent[d.of] /\ d.of \notin refused
      BY <1>2 DEF InStep
    <2>3. e \notin DOMAIN mid /\ mail'[e] = 1
      BY <1>5, <1>9, <2>1
    <2>4. \A x \in DOMAIN mail' : x # e => x \in DOMAIN mail /\ mail'[x] = 1 /\ x.of # e.of
      BY <1>5, <1>8, <1>9, <2>1
    <2> QED
      BY <1>1, <1>2, <1>5, <2>2, <2>3, <2>4 DEF InStep
  <1>15. Waiting'
    <2>1. \A x \in DOMAIN mail : \E y \in DOMAIN mail' : y.of = x.of
      BY <1>5, <1>8, <1>9
    <2> QED
      BY <1>1, <1>2, <2>1 DEF Waiting
  <1>16. Matching'
    <2>1. \A c \in Clients : answers'[c] = answers[c]
      BY <1>10
    <2>2. dups' = dups
      BY <1>1
    <2> QED
      BY <1>2, <2>1, <2>2 DEF Matching
  <1> QED
    BY <1>1, <1>11, <1>12, <1>13, <1>14, <1>15, <1>16, TalkStep DEF TalkInv

LEMMA TakeRequestTalk ==
    ASSUME DatagramsInv, talk \in D!Talk, NEW d \in DOMAIN mail, D!TakeRequest(d)
    PROVE  DatagramsInv'
  <1>1. /\ serverAt = "recv" /\ d.to = Server /\ talk = D!uchar /\ serverAt' = "type" /\ asked' = d
        /\ answers' = [answers EXCEPT ![Server] = Append(@, d)]
        /\ mail' = D!Without(d) /\ outside' = IF d.full THEN outside \cup {Server} ELSE outside
        /\ UNCHANGED <<talk, clnt, nsent, refused, unsent, vanished, dups>>
    BY DEF D!TakeRequest, D!Hears, D!Arrived
  <1>2. MailTypes /\ Roles /\ TalkMail /\ InStep /\ Matching /\ Waiting
    BY DEF DatagramsInv, TalkInv
  <1>3. d \in Mail /\ d.of \in Clients /\ d.from = d.of /\ d.n <= nsent[d.of]
    <2>1. d \in Mail
      BY <1>2 DEF MailTypes
    <2> QED
      BY <1>1, <1>2, <2>1, DatagramConstants DEF TalkMail, Request, Response
  <1>4. /\ IsBag(mail') /\ DOMAIN mail' \subseteq DOMAIN mail /\ DOMAIN mail' \subseteq Mail
        /\ \A x : x # d => (x \in DOMAIN mail' <=> x \in DOMAIN mail)
        /\ \A x \in DOMAIN mail' : mail[x] = 1 => x # d /\ mail'[x] = 1
    BY <1>1, <1>2, NetTake
  <1>5. answers' \in [D!Hosts -> Seq(Heard)] /\ \A c \in Clients : answers'[c] = answers[c]
    <2>1. answers \in [D!Hosts -> Seq(Heard)] /\ d \in Heard /\ Server \in D!Hosts
      BY <1>2, <1>3, DatagramConstants DEF MailTypes, Heard
    <2>2. answers' \in [D!Hosts -> Seq(Heard)] /\ \A k \in D!Hosts : k # Server => answers'[k] = answers[k]
      BY <1>1, <2>1, HearsMore
    <2> QED
      BY <2>2, DatagramConstants
  <1>6. MailTypes'
    <2>1. answers' \in [D!Hosts -> Seq(Heard)]
      BY <1>5
    <2> QED
      BY <1>1, <1>2, <1>3, <1>4, <2>1 DEF MailTypes, D!TypeOK
  <1>7. Roles'
    <2>1. D!uchar # D!news
      BY DEF D!uchar, D!news
    <2> QED
      BY <1>1, <1>2, <2>1 DEF Roles, D!ZerosOutside
  <1>8. TalkMail'
    BY <1>1, <1>2, <1>3, <1>4 DEF TalkMail, Request
  <1>9. InStep'
    BY <1>1, <1>2, <1>3, <1>4 DEF InStep
  <1>10. Waiting'
    BY <1>1, <1>2, <1>4 DEF Waiting
  <1>11. Matching'
    <2>1. \A c \in Clients : answers'[c] = answers[c]
      BY <1>5
    <2>2. dups' = dups
      BY <1>1
    <2> QED
      BY <1>2, <2>1, <2>2 DEF Matching
  <1> QED
    BY <1>1, <1>6, <1>7, <1>8, <1>9, <1>10, <1>11, TalkStep DEF TalkInv

LEMMA AnswerRequestTalk ==
    ASSUME DatagramsInv, talk \in D!Talk, D!AnswerRequest
    PROVE  DatagramsInv'
  <1>1. /\ serverAt = "type" /\ serverAt' = "recv" /\ asked' = D!None
        /\ mail' = D!Put(D!Datagram(Server, asked.from, asked.of, asked.n, FALSE))
        /\ UNCHANGED <<talk, clnt, nsent, answers, refused, outside, unsent, vanished, dups>>
    BY DEF D!AnswerRequest
  <1>2. MailTypes /\ Roles /\ TalkMail /\ InStep /\ Matching /\ Waiting
    BY DEF DatagramsInv, TalkInv
  <1>3. /\ asked.of \in Clients /\ asked.from = asked.of /\ asked.n <= nsent[asked.of] /\ asked.n \in Nat
    BY <1>1, <1>2, MailFields DEF TalkMail, Request, MailTypes
  <1>4. PICK e : e = D!Datagram(Server, asked.from, asked.of, asked.n, FALSE)
    OBVIOUS
  <1>5. e \in Mail /\ e.from = Server /\ e.to = asked.of /\ e.of = asked.of /\ e.n = asked.n
    <2>1. Server \in D!Hosts /\ asked.from \in D!Hosts /\ asked.of \in D!Hosts
      BY <1>3, DatagramConstants
    <2>2. PICK from, of, n : from = asked.from /\ of = asked.of /\ n = asked.n
      OBVIOUS
    <2>3. n \in Nat /\ FALSE \in BOOLEAN /\ e = D!Datagram(Server, from, of, n, FALSE)
      BY <1>3, <1>4, <2>2
    <2>4. e \in Mail /\ e.from = Server /\ e.to = from /\ e.of = of /\ e.n = n
      BY <2>1, <2>2, <2>3 DEF D!Datagram, Mail
    <2> QED
      BY <1>3, <2>2, <2>4
  <1>6. /\ IsBag(mail') /\ DOMAIN mail' = DOMAIN mail \cup {e} /\ DOMAIN mail' \subseteq Mail
        /\ \A x \in DOMAIN mail : x # e => mail'[x] = mail[x]
        /\ e \notin DOMAIN mail => mail'[e] = 1
    BY <1>1, <1>2, <1>4, <1>5, NetPut
  <1>7. MailTypes'
    <2>1. D!None \in Mail
      BY DatagramConstants, MailFields DEF D!None
    <2> QED
      BY <1>1, <1>2, <1>6, <2>1 DEF MailTypes, D!TypeOK
  <1>8. Roles'
    <2>1. talk # D!news
      BY DEF D!Talk, D!news, D!uecho, D!uecho_con, D!uchar
    <2> QED
      BY <1>1, <1>2, <2>1 DEF Roles, D!ZerosOutside
  <1>9. TalkMail'
    BY <1>1, <1>2, <1>3, <1>5, <1>6 DEF TalkMail, Response
  <1>10. InStep'
    <2> SUFFICES ASSUME dups = 0 PROVE InStep'
      BY <1>1 DEF InStep
    <2>1. \A x \in DOMAIN mail : mail[x] = 1 /\ x.of # e.of
      BY <1>1, <1>2, <1>5 DEF InStep
    <2>2. clnt[e.of] = "recv" /\ e.n = nsent[e.of] /\ e.of \notin refused
      BY <1>1, <1>2, <1>5 DEF InStep
    <2>3. mail'[e] = 1 /\ \A x \in DOMAIN mail' : x # e => x \in DOMAIN mail /\ mail'[x] = 1 /\ x.of # e.of
      BY <1>6, <2>1
    <2>4. UNCHANGED <<clnt, nsent, refused>> /\ serverAt' = "recv"
      BY <1>1
    <2>5. ASSUME NEW d \in DOMAIN mail'
          PROVE  /\ mail'[d] = 1 /\ clnt[d.of] = "recv" /\ d.n = nsent[d.of] /\ d.of \notin refused
                 /\ \A x \in DOMAIN mail' : x.of = d.of => x = d
      <3>1. CASE d = e
        BY <2>2, <2>3, <3>1
      <3>2. CASE d # e
        <4>1. d \in DOMAIN mail /\ mail'[d] = 1 /\ d.of # e.of
          BY <2>3, <3>2
        <4>2. /\ clnt[d.of] = "recv" /\ d.n = nsent[d.of] /\ d.of \notin refused
              /\ \A x \in DOMAIN mail : x.of = d.of => x = d
          BY <1>1, <1>2, <4>1 DEF InStep
        <4> QED
          BY <2>3, <4>1, <4>2
      <3> QED
        BY <3>1, <3>2
    <2>6. \A c \in refused : clnt[c] = "recv"
      BY <1>1, <1>2 DEF InStep
    <2>7. clnt' = clnt /\ nsent' = nsent /\ refused' = refused /\ ~(serverAt' = "type")
      BY <2>4
    <2> QED
      BY <2>5, <2>6, <2>7, Zenon DEF InStep
  <1>11. Waiting'
    BY <1>1, <1>2, <1>5, <1>6 DEF Waiting
  <1>12. Matching'
    BY <1>1, <1>2 DEF Matching
  <1> QED
    BY <1>1, <1>7, <1>8, <1>9, <1>10, <1>11, <1>12, TalkStep DEF TalkInv

(* uecho_client, uecho_con_client, uchar_client. *)
LEMMA ClientSendsTalk ==
    ASSUME DatagramsInv, talk \in D!Talk, NEW c \in Clients, D!ClientSends(c)
    PROVE  DatagramsInv'
  <1>1. /\ clnt[c] = "type" /\ nsent' = [nsent EXCEPT ![c] = @ + 1]
        /\ refused' = refused \ {c} /\ clnt' = [clnt EXCEPT ![c] = "recv"]
        /\ UNCHANGED <<talk, serverAt, asked, answers, outside, vanished, dups>>
    BY DEF D!ClientSends
  <1>2. MailTypes /\ Roles /\ TalkMail /\ InStep /\ Matching /\ Waiting
    BY DEF DatagramsInv, TalkInv
  <1>3. /\ nsent \in [D!Hosts -> Nat] /\ clnt \in [Clients -> {"type", "recv", "away", "done"}]
        /\ c \in D!Hosts /\ nsent[c] \in Nat
    BY <1>2, DatagramConstants DEF MailTypes, D!TypeOK
  <1>4. /\ nsent' \in [D!Hosts -> Nat] /\ nsent'[c] = nsent[c] + 1
        /\ clnt' \in [Clients -> {"type", "recv", "away", "done"}] /\ clnt'[c] = "recv"
        /\ \A k \in Clients : k # c => nsent'[k] = nsent[k] /\ clnt'[k] = clnt[k]
    BY <1>1, <1>3, DatagramConstants
  <1>5. Roles'
    BY <1>1, <1>2, <1>4 DEF Roles, D!ZerosOutside
  <1>6. Matching'
    BY <1>1, <1>2 DEF Matching
  <1>7. \A d \in Mail : d.n \in Nat
    BY MailFields
  <1>8. ASSUME c \in refused, mail' = mail, unsent' = unsent \cup {c}
        PROVE  DatagramsInv'
    <2>1. MailTypes'
      BY <1>1, <1>2, <1>4, <1>8 DEF MailTypes, D!TypeOK
    <2>2. dups # 0
      BY <1>1, <1>2, <1>8 DEF InStep
    <2>3. TalkMail'
      BY <1>1, <1>2, <1>3, <1>4, <1>7, <1>8 DEF TalkMail, MailTypes
    <2>4. InStep'
      BY <1>1, <2>2 DEF InStep
    <2>5. Waiting'
      BY <1>1, <1>2, <1>4, <1>8 DEF Waiting
    <2> QED
      BY <1>1, <1>5, <1>6, <2>1, <2>3, <2>4, <2>5, TalkStep DEF TalkInv
  <1>9. ASSUME c \notin refused, mail' = D!Put(D!Datagram(c, Server, c, nsent[c] + 1, talk = D!uchar)), unsent' = unsent
        PROVE  DatagramsInv'
    <2>1. PICK e : e = D!Datagram(c, Server, c, nsent[c] + 1, talk = D!uchar)
      OBVIOUS
    <2>2. e \in Mail /\ e.from = c /\ e.to = Server /\ e.of = c /\ e.n = nsent[c] + 1
      <3>1. nsent[c] + 1 \in Nat
        BY <1>3
      <3>2. PICK nth, most : nth = nsent[c] + 1 /\ most = (talk = D!uchar) /\ e = D!Datagram(c, Server, c, nth, most)
        BY <2>1
      <3>4. most \in BOOLEAN
        BY <3>2
      <3>3. Server \in D!Hosts
        BY DatagramConstants
      <3> QED
        BY <1>3, <3>1, <3>2, <3>3, <3>4 DEF D!Datagram, Mail
    <2>3. /\ IsBag(mail') /\ DOMAIN mail' = DOMAIN mail \cup {e} /\ DOMAIN mail' \subseteq Mail
          /\ \A x \in DOMAIN mail : x # e => mail'[x] = mail[x]
          /\ e \notin DOMAIN mail => mail'[e] = 1
      BY <1>2, <1>9, <2>1, <2>2, NetPut
    <2>4. MailTypes'
      BY <1>1, <1>2, <1>4, <1>9, <2>3 DEF MailTypes, D!TypeOK
    <2>5. TalkMail'
      BY <1>1, <1>2, <1>3, <1>4, <1>7, <2>2, <2>3 DEF TalkMail, MailTypes, Request
    <2>6. InStep'
      <3> SUFFICES ASSUME dups = 0 PROVE InStep'
        BY <1>1 DEF InStep
      <3>1. \A x \in DOMAIN mail : x.of # c /\ x.of \in Clients
        BY <1>1, <1>2 DEF InStep, TalkMail
      <3>2. serverAt = "type" => asked.of # c /\ asked.of \in Clients
        BY <1>1, <1>2 DEF InStep, TalkMail
      <3>3. mail'[e] = 1 /\ \A x \in DOMAIN mail' : x # e => x \in DOMAIN mail /\ mail'[x] = mail[x]
        BY <2>2, <2>3, <3>1
      <3> QED
        BY <1>1, <1>2, <1>4, <1>9, <2>2, <2>3, <3>1, <3>2, <3>3 DEF InStep
    <2>7. Waiting'
      BY <1>1, <1>2, <1>4, <1>9, <2>2, <2>3 DEF Waiting
    <2> QED
      BY <1>1, <1>5, <1>6, <2>4, <2>5, <2>6, <2>7, TalkStep DEF TalkInv
  <1> QED
    BY <1>8, <1>9 DEF D!ClientSends

LEMMA ClientQuitsTalk ==
    ASSUME DatagramsInv, talk \in D!Talk, NEW c \in Clients, D!ClientQuits(c)
    PROVE  DatagramsInv'
  <1>1. /\ clnt[c] = "type" /\ clnt' = [clnt EXCEPT ![c] = "done"]
        /\ UNCHANGED <<talk, mail, serverAt, asked, nsent, answers, refused, outside, unsent, vanished, dups>>
    BY DEF D!ClientQuits
  <1>2. MailTypes /\ Roles /\ TalkMail /\ InStep /\ Matching /\ Waiting
    BY DEF DatagramsInv, TalkInv
  <1>3. /\ clnt' \in [Clients -> {"type", "recv", "away", "done"}] /\ clnt'[c] = "done"
        /\ \A k \in Clients : k # c => clnt'[k] = clnt[k]
    BY <1>1, <1>2 DEF MailTypes, D!TypeOK
  <1>4. MailTypes'
    BY <1>1, <1>2, <1>3 DEF MailTypes, D!TypeOK
  <1>5. Roles'
    <2>1. talk # D!news
      BY DEF D!Talk, D!news, D!uecho, D!uecho_con, D!uchar
    <2> QED
      BY <1>1, <1>2, <1>3, <2>1 DEF Roles, D!ZerosOutside
  <1>6. TalkMail' /\ Waiting' /\ Matching'
    BY <1>1, <1>2, <1>3 DEF TalkMail, Waiting, Matching
  <1>7. InStep'
    <2>1. refused \subseteq Clients
      BY <1>2 DEF MailTypes, D!TypeOK
    <2> QED
      BY <1>1, <1>2, <1>3, <2>1 DEF InStep, TalkMail
  <1> QED
    BY <1>1, <1>4, <1>5, <1>6, <1>7, TalkStep DEF TalkInv

LEMMA ClientReceivesTalk ==
    ASSUME DatagramsInv, talk \in D!Talk, NEW c \in Clients, NEW d \in DOMAIN mail, D!ClientReceives(c, d)
    PROVE  DatagramsInv'
  <1>1. /\ clnt[c] = "recv" /\ d.to = c /\ mail' = D!Without(d) /\ c \notin refused
        /\ answers' = [answers EXCEPT ![c] = Append(@, [of |-> d.of, n |-> d.n, awaited |-> nsent[c]])]
        /\ clnt' = [clnt EXCEPT ![c] = "type"]
        /\ UNCHANGED <<talk, serverAt, asked, nsent, refused, outside, unsent, vanished, dups>>
    BY DEF D!ClientReceives, D!Hears, D!Arrived
  <1>2. MailTypes /\ Roles /\ TalkMail /\ InStep /\ Matching /\ Waiting
    BY DEF DatagramsInv, TalkInv
  <1>3. d.of = c /\ d.n <= nsent[c] /\ d.n \in Nat /\ nsent[c] \in Nat /\ c \in D!Hosts
    <2>1. d \in Mail /\ c \in D!Hosts /\ nsent[c] \in Nat
      BY <1>2, DatagramConstants DEF MailTypes, D!TypeOK
    <2>2. d.n \in Nat
      BY <2>1, MailFields
    <2>3. d.of = c /\ d.n <= nsent[c]
      BY <1>1, <1>2, DatagramConstants DEF TalkMail, Request, Response
    <2> QED
      BY <2>1, <2>2, <2>3
  <1>4. /\ IsBag(mail') /\ DOMAIN mail' \subseteq DOMAIN mail /\ DOMAIN mail' \subseteq Mail
        /\ \A x : x # d => (x \in DOMAIN mail' <=> x \in DOMAIN mail)
        /\ \A x \in DOMAIN mail' : mail[x] = 1 => x # d /\ mail'[x] = 1
    BY <1>1, <1>2, NetTake
  <1>5. /\ clnt' \in [Clients -> {"type", "recv", "away", "done"}] /\ clnt'[c] = "type"
        /\ \A k \in Clients : k # c => clnt'[k] = clnt[k]
    BY <1>1, <1>2 DEF MailTypes, D!TypeOK
  <1>6. PICK a : a = [of |-> d.of, n |-> d.n, awaited |-> nsent[c]]
    OBVIOUS
  <1>7. a \in Heard /\ a.of = c /\ a.n = d.n /\ a.awaited = nsent[c]
    BY <1>3, <1>6 DEF Heard
  <1>8. answers[c] \in Seq(Heard) /\ answers' = [answers EXCEPT ![c] = Append(@, a)]
    BY <1>1, <1>2, <1>3, <1>6 DEF MailTypes
  <1>9. /\ answers' \in [D!Hosts -> Seq(Heard)] /\ answers'[c] = Append(answers[c], a)
        /\ \A k \in D!Hosts : k # c => answers'[k] = answers[k]
        /\ \A i \in DOMAIN answers'[c] :
              answers'[c][i] = a \/ (i \in DOMAIN answers[c] /\ answers'[c][i] = answers[c][i])
    <2>1. answers \in [D!Hosts -> Seq(Heard)]
      BY <1>2 DEF MailTypes
    <2> QED
      BY <1>3, <1>7, <1>8, <2>1, HearsMore
  <1>10. MailTypes'
    <2>1. answers' \in [D!Hosts -> Seq(Heard)]
      BY <1>9
    <2> QED
      BY <1>1, <1>2, <1>4, <1>5, <2>1 DEF MailTypes, D!TypeOK
  <1>11. Roles'
    <2>1. talk # D!news
      BY DEF D!Talk, D!news, D!uecho, D!uecho_con, D!uchar
    <2> QED
      BY <1>1, <1>2, <1>5, <2>1 DEF Roles, D!ZerosOutside
  <1>12. TalkMail'
    BY <1>1, <1>2, <1>4 DEF TalkMail
  <1>13. InStep'
    <2> SUFFICES ASSUME dups = 0 PROVE InStep'
      BY <1>1 DEF InStep
    <2>1. \A x \in DOMAIN mail' : x # d /\ x.of # c /\ x.of \in Clients
      BY <1>2, <1>3, <1>4 DEF InStep, TalkMail
    <2>2. serverAt = "type" => asked.of # c /\ asked.of \in Clients
      BY <1>2, <1>3 DEF InStep, TalkMail
    <2>3. refused \subseteq Clients
      BY <1>2 DEF MailTypes, D!TypeOK
    <2> QED
      BY <1>1, <1>2, <1>4, <1>5, <2>1, <2>2, <2>3 DEF InStep
  <1>14. Waiting'
    BY <1>1, <1>2, <1>3, <1>4, <1>5 DEF Waiting
  <1>15. Matching'
    <2>1. \A k \in Clients : k # c => answers'[k] = answers[k]
      BY <1>9, DatagramConstants
    <2>2. dups = 0 => a.n = a.awaited
      BY <1>2, <1>3, <1>7 DEF InStep
    <2>3. dups' = dups
      BY <1>1
    <2>4. \A k \in Clients : k # c => \A i \in DOMAIN answers'[k] :
              /\ answers'[k][i].of = k /\ answers'[k][i].n <= answers'[k][i].awaited
              /\ dups' = 0 => answers'[k][i].n = answers'[k][i].awaited
      BY <1>2, <2>1, <2>3 DEF Matching
    <2>5. \A i \in DOMAIN answers[c] :
              /\ answers[c][i].of = c /\ answers[c][i].n <= answers[c][i].awaited
              /\ dups = 0 => answers[c][i].n = answers[c][i].awaited
      BY <1>2 DEF Matching
    <2>6. \A i \in DOMAIN answers'[c] :
              /\ answers'[c][i].of = c /\ answers'[c][i].n <= answers'[c][i].awaited
              /\ dups' = 0 => answers'[c][i].n = answers'[c][i].awaited
      BY <1>3, <1>7, <1>9, <2>2, <2>3, <2>5
    <2> QED
      BY <2>4, <2>6 DEF Matching
  <1> QED
    BY <1>1, <1>10, <1>11, <1>12, <1>13, <1>14, <1>15, TalkStep DEF TalkInv

LEMMA ClientRefusedTalk ==
    ASSUME DatagramsInv, talk \in D!Talk, NEW c \in Clients, D!ClientRefused(c)
    PROVE  DatagramsInv'
  <1>1. /\ clnt[c] = "recv" /\ c \in refused /\ refused' = refused \ {c} /\ outside' = outside \cup {c}
        /\ clnt' = [clnt EXCEPT ![c] = "type"]
        /\ UNCHANGED <<talk, mail, serverAt, asked, nsent, answers, unsent, vanished, dups>>
    BY DEF D!ClientRefused
  <1>2. MailTypes /\ Roles /\ TalkMail /\ InStep /\ Matching /\ Waiting
    BY DEF DatagramsInv, TalkInv
  <1>3. /\ clnt' \in [Clients -> {"type", "recv", "away", "done"}] /\ clnt'[c] = "type"
        /\ \A k \in Clients : k # c => clnt'[k] = clnt[k]
    BY <1>1, <1>2 DEF MailTypes, D!TypeOK
  <1>4. MailTypes'
    BY <1>1, <1>2, <1>3 DEF MailTypes, D!TypeOK
  <1>5. Roles'
    <2>1. talk # D!news /\ talk = D!uecho_con /\ D!uecho_con # D!uchar
      BY <1>1, <1>2 DEF Roles, D!Talk, D!news, D!uecho, D!uecho_con, D!uchar
    <2> QED
      BY <1>1, <1>2, <1>3, <2>1 DEF Roles, D!ZerosOutside
  <1>6. TalkMail' /\ Waiting' /\ Matching'
    BY <1>1, <1>2, <1>3 DEF TalkMail, Waiting, Matching
  <1>7. InStep'
    <2>1. refused \subseteq Clients
      BY <1>2 DEF MailTypes, D!TypeOK
    <2> QED
      BY <1>1, <1>2, <1>3, <2>1 DEF InStep, TalkMail
  <1> QED
    BY <1>1, <1>4, <1>5, <1>6, <1>7, TalkStep DEF TalkInv

(* bound_host1 and bound_host2. *)
LEMMA BoundStep ==
    ASSUME talk = D!bound, talk' = talk, MailTypes', Roles', BoundMail'
    PROVE  DatagramsInv'
  BY DEF DatagramsInv, D!Talk, D!bound, D!news, D!uecho, D!uecho_con, D!uchar

LEMMA LoseBound ==
    ASSUME DatagramsInv, talk = D!bound, NEW d \in DOMAIN mail, D!Lose(d) \/ D!Unreachable(d)
    PROVE  DatagramsInv'
  <1>1. /\ mail' = D!Without(d) /\ vanished' = vanished + 1 /\ refused' = refused
        /\ UNCHANGED <<talk, serverAt, asked, clnt, nsent, answers, outside, unsent, dups>>
    BY DEF D!Lose, D!Unreachable, D!hostVars, D!bound, D!uecho_con
  <1>2. MailTypes /\ Roles /\ BoundMail
    BY DEF DatagramsInv
  <1>3. /\ IsBag(mail') /\ DOMAIN mail' \subseteq DOMAIN mail /\ DOMAIN mail' \subseteq Mail
        /\ \A x \in DOMAIN mail' : mail[x] = 1 => mail'[x] = 1
    BY <1>1, <1>2, NetTake
  <1>4. MailTypes'
    BY <1>1, <1>2, <1>3 DEF MailTypes, D!TypeOK
  <1>5. Roles'
    BY <1>1, <1>2 DEF Roles, D!ZerosOutside
  <1>6. BoundMail'
    BY <1>1, <1>2, <1>3 DEF BoundMail
  <1> QED
    BY <1>1, <1>4, <1>5, <1>6, BoundStep

LEMMA DuplicateBound ==
    ASSUME DatagramsInv, talk = D!bound, NEW d \in DOMAIN mail, D!Duplicate(d)
    PROVE  DatagramsInv'
  <1>1. /\ mail' = D!Put(d) /\ dups' = dups + 1
        /\ UNCHANGED <<talk, serverAt, asked, clnt, nsent, answers, refused, outside, unsent, vanished>>
    BY DEF D!Duplicate, D!hostVars
  <1>2. MailTypes /\ Roles /\ BoundMail
    BY DEF DatagramsInv
  <1>3. /\ IsBag(mail') /\ DOMAIN mail' = DOMAIN mail /\ DOMAIN mail' \subseteq Mail
    <2>1. d \in Mail
      BY <1>2 DEF MailTypes
    <2> QED
      BY <1>1, <1>2, <2>1, NetPut
  <1>4. MailTypes'
    BY <1>1, <1>2, <1>3 DEF MailTypes, D!TypeOK
  <1>5. Roles'
    BY <1>1, <1>2 DEF Roles, D!ZerosOutside
  <1>6. dups' # 0
    BY <1>1, <1>2 DEF MailTypes
  <1>7. BoundMail'
    BY <1>1, <1>2, <1>3, <1>6 DEF BoundMail
  <1> QED
    BY <1>1, <1>4, <1>5, <1>7, BoundStep

LEMMA ServerStartsBound ==
    ASSUME DatagramsInv, talk = D!bound, D!ServerStarts
    PROVE  DatagramsInv'
  <1>0. talk # D!news
    BY DEF D!bound, D!news
  <1>1. /\ serverAt = "absent" /\ serverAt' = "recv"
        /\ UNCHANGED <<talk, mail, vanished, asked, clnt, nsent, answers, refused, outside, unsent, dups>>
    BY <1>0 DEF D!ServerStarts
  <1>2. MailTypes /\ Roles /\ BoundMail
    BY DEF DatagramsInv
  <1>3. MailTypes'
    BY <1>1, <1>2 DEF MailTypes, D!TypeOK
  <1>4. Roles'
    BY <1>0, <1>1, <1>2 DEF Roles, D!ZerosOutside
  <1>5. BoundMail'
    BY <1>1, <1>2 DEF BoundMail
  <1> QED
    BY <1>1, <1>3, <1>4, <1>5, BoundStep

LEMMA bound_host1Bound ==
    ASSUME DatagramsInv, talk = D!bound, NEW d \in DOMAIN mail, D!bound_host1(d)
    PROVE  DatagramsInv'
  <1>1. /\ serverAt = "recv" /\ d.to = Server /\ mail' = D!Without(d)
        /\ answers' = [answers EXCEPT ![Server] = Append(@, d)]
        /\ serverAt' \in {"done", "recv"}
        /\ UNCHANGED <<talk, asked, clnt, nsent, refused, outside, unsent, vanished, dups>>
    BY DEF D!bound_host1, D!Hears, D!Arrived
  <1>2. MailTypes /\ Roles /\ BoundMail
    BY DEF DatagramsInv
  <1>3. d \in Mail /\ d.of \in Clients /\ d.n <= nsent[d.of]
    BY <1>2 DEF MailTypes, BoundMail
  <1>4. /\ IsBag(mail') /\ DOMAIN mail' \subseteq DOMAIN mail /\ DOMAIN mail' \subseteq Mail
        /\ \A x : x # d => (x \in DOMAIN mail' <=> x \in DOMAIN mail)
        /\ \A x \in DOMAIN mail' : mail[x] = 1 => x # d /\ mail'[x] = 1
    BY <1>1, <1>2, NetTake
  <1>5. answers \in [D!Hosts -> Seq(Heard)] /\ d \in Heard /\ Server \in D!Hosts
    BY <1>2, <1>3, DatagramConstants DEF MailTypes, Heard
  <1>6. /\ answers' \in [D!Hosts -> Seq(Heard)] /\ answers'[Server] = Append(answers[Server], d)
        /\ \A i \in DOMAIN answers'[Server] :
              answers'[Server][i] = d \/ (i \in DOMAIN answers[Server] /\ answers'[Server][i] = answers[Server][i])
    BY <1>1, <1>5, HearsMore
  <1>7. \A i, j \in DOMAIN answers'[Server] :
            i = j \/ i \in DOMAIN answers[Server] \/ j \in DOMAIN answers[Server]
    <2>1. PICK q \in Seq(Heard) : q = answers[Server]
      BY <1>5
    <2>2. \A i, j \in DOMAIN Append(q, d) : i = j \/ i \in DOMAIN q \/ j \in DOMAIN q
      BY <1>5
    <2> QED
      BY <1>6, <2>1, <2>2
  <1>8. \A i \in DOMAIN answers[Server] : i \in DOMAIN answers'[Server] /\ answers'[Server][i] = answers[Server][i]
    <2>1. PICK q \in Seq(Heard) : q = answers[Server]
      BY <1>5
    <2>2. \A i \in DOMAIN q : i \in DOMAIN Append(q, d) /\ Append(q, d)[i] = q[i]
      BY <1>5
    <2> QED
      BY <1>6, <2>1, <2>2
  <1>9. MailTypes'
    BY <1>1, <1>2, <1>4, <1>6 DEF MailTypes, D!TypeOK
  <1>10. Roles'
    <2>1. D!bound # D!news /\ D!bound # D!uchar
      BY DEF D!bound, D!news, D!uchar
    <2> QED
      BY <1>1, <1>2, <2>1 DEF Roles, D!ZerosOutside
  <1>11. BoundMail'
    <2>1. \A x \in DOMAIN mail' : x.to = Server /\ x.of \in Clients /\ x.of = x.from /\ x.n <= nsent'[x.of]
      BY <1>1, <1>2, <1>4 DEF BoundMail
    <2>2. \A i \in DOMAIN answers'[Server] :
              answers'[Server][i] \in Mail /\ answers'[Server][i].n <= nsent'[answers'[Server][i].of]
      BY <1>1, <1>2, <1>3, <1>6 DEF BoundMail
    <2>3. ASSUME dups = 0 PROVE
              /\ \A x \in DOMAIN mail' : mail'[x] = 1 /\ \A i \in DOMAIN answers'[Server] : answers'[Server][i] # x
              /\ \A i, j \in DOMAIN answers'[Server] : answers'[Server][i] = answers'[Server][j] => i = j
      <3>1. /\ \A x \in DOMAIN mail : mail[x] = 1 /\ \A i \in DOMAIN answers[Server] : answers[Server][i] # x
            /\ \A i, j \in DOMAIN answers[Server] : answers[Server][i] = answers[Server][j] => i = j
        BY <1>2, <2>3 DEF BoundMail
      <3>2. \A x \in DOMAIN mail' : mail'[x] = 1 /\ \A i \in DOMAIN answers'[Server] : answers'[Server][i] # x
        BY <1>4, <1>6, <3>1
      <3>3. ASSUME NEW i \in DOMAIN answers'[Server], NEW j \in DOMAIN answers'[Server],
                   answers'[Server][i] = answers'[Server][j]
            PROVE  i = j
        <4>1. CASE i \in DOMAIN answers[Server] /\ j \in DOMAIN answers[Server]
          BY <1>8, <3>1, <3>3, <4>1
        <4>2. CASE i \in DOMAIN answers[Server] /\ j \notin DOMAIN answers[Server]
          BY <1>6, <1>8, <3>1, <3>3, <4>2
        <4>3. CASE i \notin DOMAIN answers[Server] /\ j \in DOMAIN answers[Server]
          BY <1>6, <1>8, <3>1, <3>3, <4>3
        <4>4. CASE i \notin DOMAIN answers[Server] /\ j \notin DOMAIN answers[Server]
          BY <1>7, <4>4
        <4> QED
          BY <4>1, <4>2, <4>3, <4>4
      <3> QED
        BY <3>2, <3>3
    <2>4. dups' = dups
      BY <1>1
    <2> QED
      BY <2>1, <2>2, <2>3, <2>4 DEF BoundMail
  <1> QED
    BY <1>1, <1>9, <1>10, <1>11, BoundStep

LEMMA bound_host2Bound ==
    ASSUME DatagramsInv, talk = D!bound, NEW c \in Clients, D!bound_host2(c)
    PROVE  DatagramsInv'
  <1>1. /\ nsent' = [nsent EXCEPT ![c] = @ + 1]
        /\ mail' = D!Put(D!Datagram(c, Server, c, nsent[c] + 1, FALSE))
        /\ clnt' = [clnt EXCEPT ![c] = IF nsent[c] = 2 THEN "done" ELSE @]
        /\ UNCHANGED <<talk, serverAt, asked, answers, refused, outside, unsent, vanished, dups>>
    BY DEF D!bound_host2
  <1>2. MailTypes /\ Roles /\ BoundMail
    BY DEF DatagramsInv
  <1>3. /\ nsent \in [D!Hosts -> Nat] /\ c \in D!Hosts /\ Server \in D!Hosts /\ nsent[c] \in Nat
        /\ clnt \in [Clients -> {"type", "recv", "away", "done"}] /\ Clients \subseteq D!Hosts
    BY <1>2, DatagramConstants DEF MailTypes, D!TypeOK
  <1>4. /\ nsent' \in [D!Hosts -> Nat] /\ nsent'[c] = nsent[c] + 1
        /\ \A k \in D!Hosts : k # c => nsent'[k] = nsent[k]
        /\ clnt' \in [Clients -> {"type", "recv", "away", "done"}]
        /\ \A k \in Clients : clnt'[k] = "away" => clnt[k] = "away"
    BY <1>1, <1>3
  <1>5. PICK n, e : n = nsent[c] + 1 /\ e = D!Datagram(c, Server, c, n, FALSE) /\ mail' = D!Put(e)
    BY <1>1
  <1>6. e \in Mail /\ e.from = c /\ e.to = Server /\ e.of = c /\ e.n = n /\ n \in Nat
    BY <1>3, <1>5 DEF D!Datagram, Mail
  <1>7. /\ IsBag(mail') /\ DOMAIN mail' = DOMAIN mail \cup {e} /\ DOMAIN mail' \subseteq Mail
        /\ \A x \in DOMAIN mail : x # e => mail'[x] = mail[x]
        /\ e \notin DOMAIN mail => mail'[e] = 1
    BY <1>2, <1>5, <1>6, NetPut
  <1>8. MailTypes'
    BY <1>1, <1>2, <1>4, <1>7 DEF MailTypes, D!TypeOK
  <1>9. Roles'
    <2>1. D!bound # D!news
      BY DEF D!bound, D!news
    <2> QED
      BY <1>1, <1>2, <1>4, <2>1 DEF Roles, D!ZerosOutside
  <1>10. BoundMail'
    <2>1. \A x \in Mail : x.n \in Nat /\ x.of \in D!Hosts
      BY MailFields
    <2>2. \A h \in D!Hosts : nsent[h] \in Nat /\ nsent'[h] \in Nat /\ nsent[h] <= nsent'[h]
      BY <1>3, <1>4
    <2>3. \A x \in Mail : x.n <= nsent[x.of] => x.n <= nsent'[x.of] /\ x # e
      <3> TAKE x \in Mail
      <3>1. HAVE x.n <= nsent[x.of]
      <3>2. PICK a, b, nth \in Nat : a = nsent[x.of] /\ b = nsent'[x.of] /\ nth = x.n /\ nth <= a /\ a <= b
        BY <2>1, <2>2, <3>1
      <3>3. x.n <= nsent'[x.of]
        BY <3>2
      <3>4. ASSUME x = e PROVE FALSE
        <4>1. x.n = n /\ nsent[x.of] = nsent[c]
          BY <1>6, <3>4
        <4> QED
          BY <1>3, <1>5, <3>1, <4>1
      <3> QED
        BY <3>3, <3>4
    <2>4. \A x \in DOMAIN mail : x \in Mail /\ x.to = Server /\ x.of \in Clients /\ x.of = x.from /\ x.n <= nsent[x.of]
      BY <1>2 DEF BoundMail, MailTypes
    <2>5. e.n <= nsent'[e.of]
      <3>1. nsent'[e.of] = nsent'[c] /\ e.n = nsent'[c]
        BY <1>4, <1>5, <1>6
      <3>2. nsent'[c] \in Nat
        BY <1>3, <1>4
      <3> QED
        BY <3>1, <3>2
    <2>6. \A x \in DOMAIN mail' : x.to = Server /\ x.of \in Clients /\ x.of = x.from /\ x.n <= nsent'[x.of]
      BY <1>6, <1>7, <2>3, <2>4, <2>5
    <2>7. \A i \in DOMAIN answers[Server] : /\ answers[Server][i] \in Mail /\ answers[Server][i] # e
                                            /\ answers[Server][i].n <= nsent'[answers[Server][i].of]
      BY <1>2, <2>3 DEF BoundMail
    <2>8. e \notin DOMAIN mail
      BY <2>3, <2>4
    <2>9. answers' = answers /\ dups' = dups
      BY <1>1
    <2>10. dups = 0 =>
              /\ \A x \in DOMAIN mail' : mail'[x] = 1 /\ \A i \in DOMAIN answers[Server] : answers[Server][i] # x
              /\ \A i, j \in DOMAIN answers[Server] : answers[Server][i] = answers[Server][j] => i = j
      BY <1>2, <1>7, <2>7, <2>8 DEF BoundMail
    <2> QED
      BY <2>6, <2>7, <2>9, <2>10 DEF BoundMail
  <1> QED
    BY <1>1, <1>8, <1>9, <1>10, BoundStep

(* news_sender and news_receiver. *)
LEMMA LineFields ==
    /\ \A c \in Clients : \A k \in Nat : LET d == NewsLine(c, k)
          IN  d \in Mail /\ d.from = Server /\ d.to = c /\ d.of = Server /\ d.n = k
    /\ \A c, e \in Clients : \A k, j \in Nat : NewsLine(c, k) = NewsLine(e, j) => c = e /\ k = j
  BY DatagramConstants DEF NewsLine, D!Datagram, Mail

LEMMA TimesNat ==
    ASSUME NEW b, IsBag(b), NEW x
    PROVE  Times(b, x) \in Nat /\ (Times(b, x) # 0 => x \in DOMAIN b)
  BY DEF IsBag, Times

LEMMA HitsNat ==
    ASSUME NEW s \in Seq(Heard), NEW k
    PROVE  IsFiniteSet({i \in DOMAIN s : s[i].n = k}) /\ Hits(s, k) \in Nat
  <1>1. IsFiniteSet(1 .. Len(s)) /\ {i \in DOMAIN s : s[i].n = k} \subseteq 1 .. Len(s)
    BY FS_Interval
  <1>2. IsFiniteSet({i \in DOMAIN s : s[i].n = k})
    BY <1>1, FS_Subset
  <1> QED
    BY <1>2, FS_CardinalityType DEF Hits

LEMMA HitsNone ==
    ASSUME NEW a \in Heard, NEW k, a.n # k
    PROVE  Hits(<< >>, k) = 0 /\ Hits(<<a>>, k) = 0
  <1>1. {i \in DOMAIN << >> : << >>[i].n = k} = {}
    OBVIOUS
  <1>2. {i \in DOMAIN <<a>> : <<a>>[i].n = k} = {}
    OBVIOUS
  <1> QED
    BY <1>1, <1>2, FS_EmptySet DEF Hits

LEMMA HitsAppend ==
    ASSUME NEW s \in Seq(Heard), NEW a \in Heard, NEW k
    PROVE  Hits(Append(s, a), k) = Hits(s, k) + (IF a.n = k THEN 1 ELSE 0)
  <1> DEFINE before == {i \in DOMAIN s : s[i].n = k}
             after == {i \in DOMAIN Append(s, a) : Append(s, a)[i].n = k}
  <1>1. /\ DOMAIN Append(s, a) = DOMAIN s \cup {Len(s) + 1} /\ Len(s) + 1 \notin DOMAIN s
        /\ Append(s, a)[Len(s) + 1] = a /\ \A i \in DOMAIN s : Append(s, a)[i] = s[i]
    OBVIOUS
  <1>2. IsFiniteSet(before) /\ Hits(s, k) = Cardinality(before) /\ Cardinality(before) \in Nat
    BY HitsNat DEF Hits
  <1>3. CASE a.n = k
    <2>1. after = before \cup {Len(s) + 1} /\ Len(s) + 1 \notin before
      BY <1>1, <1>3
    <2>2. Cardinality(after) = Cardinality(before) + 1
      <3> HIDE DEF before, after
      <3> QED
        BY <1>2, <2>1, FS_AddElement
    <2> QED
      BY <1>2, <1>3, <2>2 DEF Hits
  <1>4. CASE a.n # k
    <2>1. after = before
      BY <1>1, <1>4
    <2>2. Hits(Append(s, a), k) = Cardinality(before)
      BY <2>1 DEF Hits
    <2> QED
      BY <1>2, <1>4, <2>2
  <1> QED
    BY <1>3, <1>4

LEMMA SentNat ==
    ASSUME NEW role, NEW from \in Nat, NEW upto \in Nat, NEW k \in Nat
    PROVE  Sent(role, from, upto, k) \in Nat
  BY DEF Sent

(* What is under way for c changes by one line, and the count of what the  *)
(* network has done with it.                                               *)
LEMMA TallyElsewhere ==
    ASSUME NEW c \in Clients, NEW role, NEW s, NEW b, NEW p, NEW n, NEW l, NEW d,
           Tallied(c, role, s, b, n, l, d), \A k \in Nat : Times(p, NewsLine(c, k)) = Times(b, NewsLine(c, k))
    PROVE  Tallied(c, role, s, p, n, l, d)
  <1>1. \A k \in 1 .. MaxMsgs : Times(p, NewsLine(c, k)) = Times(b, NewsLine(c, k))
    OBVIOUS
  <1> QED
    BY <1>1 DEF Tallied

LEMMA TallyNetwork ==
    ASSUME NEW c \in Clients, NEW role \in {"away", "recv"}, NEW s \in Seq(Heard), NEW b, IsBag(b), NEW p, IsBag(p),
           NEW n \in Nat, NEW l \in Nat, NEW d \in Nat, NEW x, Tallied(c, role, s, b, n, l, d)
    PROVE  /\ (\A y : Times(p, y) = Times(b, y) - (IF y = x THEN 1 ELSE 0)) => Tallied(c, role, s, p, n, l + 1, d)
           /\ (\A y : Times(p, y) = Times(b, y) + (IF y = x THEN 1 ELSE 0)) => Tallied(c, role, s, p, n, l, d + 1)
  <1>1. ASSUME NEW k \in 1 .. MaxMsgs,
               \/ \A y : Times(p, y) = Times(b, y) - (IF y = x THEN 1 ELSE 0)
               \/ \A y : Times(p, y) = Times(b, y) + (IF y = x THEN 1 ELSE 0)
        PROVE  \E h, v, t \in Nat : \E w :
                  /\ h = Hits(s, k) /\ v = Times(b, NewsLine(c, k)) /\ w = Sent(role, s[1].awaited, n, k)
                  /\ t = Times(p, NewsLine(c, k)) /\ h + v <= w + d /\ w <= h + v + l
    <2>1. Hits(s, k) \in Nat /\ Times(b, NewsLine(c, k)) \in Nat /\ Times(p, NewsLine(c, k)) \in Nat
      BY HitsNat, TimesNat
    <2> QED
      BY <2>1 DEF Tallied
  <1>2. \A k \in 1 .. MaxMsgs : Sent(role, s[1].awaited, n, k) \in Nat
    <2> TAKE k \in 1 .. MaxMsgs
    <2>1. k \in Nat /\ (role = "recv" => s[1].awaited \in Nat)
      BY DatagramConstants DEF Tallied
    <2> QED
      BY <2>1 DEF Sent
  <1>3. ASSUME \A y : Times(p, y) = Times(b, y) - (IF y = x THEN 1 ELSE 0)
        PROVE  Tallied(c, role, s, p, n, l + 1, d)
    <2>1. ASSUME NEW k \in 1 .. MaxMsgs
          PROVE  /\ Hits(s, k) + Times(p, NewsLine(c, k)) <= Sent(role, s[1].awaited, n, k) + d
                 /\ Sent(role, s[1].awaited, n, k) <= Hits(s, k) + Times(p, NewsLine(c, k)) + (l + 1)
      <3>1. PICK h, v, t \in Nat : \E w :
                  /\ h = Hits(s, k) /\ v = Times(b, NewsLine(c, k)) /\ w = Sent(role, s[1].awaited, n, k)
                  /\ t = Times(p, NewsLine(c, k)) /\ h + v <= w + d /\ w <= h + v + l
        BY <1>1, <1>3
      <3>2. PICK w \in Nat : w = Sent(role, s[1].awaited, n, k) /\ h + v <= w + d /\ w <= h + v + l
        BY <1>2, <3>1
      <3>3. t = v \/ t = v - 1
        BY <1>3, <3>1
      <3>4. h + t <= w + d /\ w <= h + t + (l + 1)
        BY <3>2, <3>3
      <3> QED
        BY <3>1, <3>2, <3>4
    <2> QED
      BY <2>1 DEF Tallied
  <1>4. ASSUME \A y : Times(p, y) = Times(b, y) + (IF y = x THEN 1 ELSE 0)
        PROVE  Tallied(c, role, s, p, n, l, d + 1)
    <2>1. ASSUME NEW k \in 1 .. MaxMsgs
          PROVE  /\ Hits(s, k) + Times(p, NewsLine(c, k)) <= Sent(role, s[1].awaited, n, k) + (d + 1)
                 /\ Sent(role, s[1].awaited, n, k) <= Hits(s, k) + Times(p, NewsLine(c, k)) + l
      <3>1. PICK h, v, t \in Nat : \E w :
                  /\ h = Hits(s, k) /\ v = Times(b, NewsLine(c, k)) /\ w = Sent(role, s[1].awaited, n, k)
                  /\ t = Times(p, NewsLine(c, k)) /\ h + v <= w + d /\ w <= h + v + l
        BY <1>1, <1>4
      <3>2. PICK w \in Nat : w = Sent(role, s[1].awaited, n, k) /\ h + v <= w + d /\ w <= h + v + l
        BY <1>2, <3>1
      <3>3. t = v \/ t = v + 1
        BY <1>4, <3>1
      <3>4. h + t <= w + (d + 1) /\ w <= h + t + l
        BY <3>2, <3>3
      <3> QED
        BY <3>1, <3>2, <3>4
    <2> QED
      BY <2>1 DEF Tallied
  <1> QED
    BY <1>3, <1>4

(* What c takes is counted as heard. *)
LEMMA TallyReceived ==
    ASSUME NEW c \in Clients, NEW s \in Seq(Heard), NEW b, IsBag(b), NEW p, IsBag(p),
           NEW n \in Nat, NEW l \in Nat, NEW d \in Nat, NEW j \in Nat, NEW a \in Heard, a.n = j,
           Tallied(c, "recv", s, b, n, l, d),
           \A y : Times(p, y) = Times(b, y) - (IF y = NewsLine(c, j) THEN 1 ELSE 0)
    PROVE  Tallied(c, "recv", Append(s, a), p, n, l, d)
  <1>1. s # << >> /\ s[1].awaited \in 0 .. n
    BY DEF Tallied
  <1>2. Append(s, a) # << >> /\ Append(s, a)[1] = s[1]
    BY <1>1
  <1>3. ASSUME NEW k \in 1 .. MaxMsgs
        PROVE  Hits(Append(s, a), k) + Times(p, NewsLine(c, k)) = Hits(s, k) + Times(b, NewsLine(c, k))
    <2>1. Hits(Append(s, a), k) = Hits(s, k) + (IF j = k THEN 1 ELSE 0) /\ Hits(s, k) \in Nat
      BY HitsAppend, HitsNat
    <2>2. NewsLine(c, k) = NewsLine(c, j) <=> j = k
      BY LineFields, DatagramConstants
    <2>3. Times(p, NewsLine(c, k)) = Times(b, NewsLine(c, k)) - (IF j = k THEN 1 ELSE 0)
      BY <2>2
    <2>4. Times(b, NewsLine(c, k)) \in Nat /\ Times(p, NewsLine(c, k)) \in Nat
      BY TimesNat
    <2> QED
      BY <2>1, <2>3, <2>4
  <1> QED
    BY <1>1, <1>2, <1>3 DEF Tallied

(* A line is sent to those who are in the group. *)
LEMMA TallySent ==
    ASSUME NEW c \in Clients, NEW role \in {"away", "recv"}, NEW s \in Seq(Heard), NEW b, IsBag(b), NEW p, IsBag(p),
           NEW n \in Nat, n <= MaxMsgs, NEW l \in Nat, NEW d \in Nat, Tallied(c, role, s, b, n, l, d),
           NEW line, line = IF n = MaxMsgs THEN MaxMsgs ELSE n + 1,
           \A k \in Nat : Times(p, NewsLine(c, k))
                             = Times(b, NewsLine(c, k)) + (IF role = "recv" /\ k = line THEN 1 ELSE 0)
    PROVE  Tallied(c, role, s, p, n + 1, l, d)
  <1>1. role = "recv" => s[1].awaited \in 0 .. n
    BY DEF Tallied
  <1>2. ASSUME NEW k \in 1 .. MaxMsgs
        PROVE  /\ Hits(s, k) + Times(p, NewsLine(c, k)) <= Sent(role, s[1].awaited, n + 1, k) + d
               /\ Sent(role, s[1].awaited, n + 1, k) <= Hits(s, k) + Times(p, NewsLine(c, k)) + l
    <2>1. PICK h, v, t \in Nat : h = Hits(s, k) /\ v = Times(b, NewsLine(c, k)) /\ t = Times(p, NewsLine(c, k))
      BY HitsNat, TimesNat
    <2>2. MaxMsgs \in Nat /\ MaxMsgs # 0 /\ k \in Nat
      BY DatagramConstants
    <2>3. t = v + (IF role = "recv" /\ k = line THEN 1 ELSE 0)
      BY <2>1, <2>2
    <2>4. PICK w \in Nat : w = Sent(role, s[1].awaited, n, k)
      BY <1>1, <2>2 DEF Sent
    <2>5. h + v <= w + d /\ w <= h + v + l
      BY <2>1, <2>4 DEF Tallied
    <2>6. Sent(role, s[1].awaited, n + 1, k) = w + (IF role = "recv" /\ k = line THEN 1 ELSE 0)
      BY <1>1, <2>2, <2>4 DEF Sent
    <2>7. PICK x \in {0, 1} : t = v + x /\ Sent(role, s[1].awaited, n + 1, k) = w + x
      BY <2>3, <2>6
    <2>8. h + t <= (w + x) + d /\ w + x <= h + t + l
      BY <2>5, <2>7
    <2> QED
      BY <2>1, <2>7, <2>8
  <1>3. role = "recv" => s[1].awaited \in 0 .. (n + 1)
    BY <1>1
  <1> QED
    BY <1>2, <1>3 DEF Tallied

(* Who joins is due what comes after. *)
LEMMA TallyJoined ==
    ASSUME NEW c \in Clients, NEW b, NEW n \in Nat, NEW l \in Nat, NEW d \in Nat,
           NEW a \in Heard, a.n = 0, a.awaited = n, \A k \in Nat : Times(b, NewsLine(c, k)) = 0
    PROVE  Tallied(c, "recv", <<a>>, b, n, l, d)
  <1>1. <<a>> # << >> /\ <<a>>[1] = a
    OBVIOUS
  <1>2. ASSUME NEW k \in 1 .. MaxMsgs
        PROVE  Hits(<<a>>, k) = 0 /\ Times(b, NewsLine(c, k)) = 0 /\ Sent("recv", n, n, k) = 0
    <2>1. k \in Nat /\ k # 0 /\ MaxMsgs \in Nat
      BY DatagramConstants
    <2>2. Sent("recv", n, n, k) = 0
      BY <2>1 DEF Sent
    <2> QED
      BY <2>1, <2>2, HitsNone
  <1> QED
    BY <1>1, <1>2 DEF Tallied

(* p is bag b with one more of each of items. *)
OneMoreOf(p, b, items) ==
    /\ IsBag(p) /\ DOMAIN p = DOMAIN b \cup items
    /\ \A x : Times(p, x) = Times(b, x) + (IF x \in items THEN 1 ELSE 0)

LEMMA BagPutAll ==
    ASSUME NEW b, IsBag(b), NEW items, NEW p, p = D!(+)(b, D!SetToBag(items))
    PROVE  OneMoreOf(p, b, items)
  BY DEF D!(+), D!SetToBag, IsBag, Times, OneMoreOf

LEMMA NewsStep ==
    ASSUME talk = D!news, talk' = talk, MailTypes', Roles', NewsMail'
    PROVE  DatagramsInv'
  BY DEF DatagramsInv, D!Talk, D!bound, D!news, D!uecho, D!uecho_con, D!uchar

(* What the counts need to be counts. *)
LEMMA NewsCounts ==
    ASSUME DatagramsInv, talk = D!news
    PROVE  /\ MailTypes /\ Roles /\ NewsMail /\ IsBag(mail) /\ DOMAIN mail \subseteq Mail
           /\ vanished \in Nat /\ dups \in Nat /\ nsent[Server] \in Nat /\ MaxMsgs \in Nat
           /\ \A c \in Clients : clnt[c] \in {"away", "recv"} /\ answers[c] \in Seq(Heard) /\ c \in D!Hosts
  BY DatagramConstants DEF DatagramsInv, MailTypes, NewsMail, Roles

LEMMA LoseNews ==
    ASSUME DatagramsInv, talk = D!news, NEW d \in DOMAIN mail, D!Lose(d)
    PROVE  DatagramsInv'
  <1>1. /\ mail' = D!Without(d) /\ vanished' = vanished + 1
        /\ UNCHANGED <<talk, serverAt, asked, clnt, nsent, answers, refused, outside, unsent, dups>>
    BY DEF D!Lose, D!hostVars
  <1>2. MailTypes /\ Roles /\ NewsMail
    BY NewsCounts
  <1>3. /\ IsBag(mail') /\ DOMAIN mail' \subseteq DOMAIN mail /\ DOMAIN mail' \subseteq Mail
        /\ \A x : Times(mail', x) = Times(mail, x) - (IF x = d THEN 1 ELSE 0)
    BY <1>1, <1>2, NetTake
  <1>4. MailTypes'
    BY <1>1, <1>2, <1>3 DEF MailTypes, D!TypeOK
  <1>5. Roles'
    BY <1>1, <1>2 DEF Roles, D!ZerosOutside
  <1>6. NewsMail'
    <2>1. ASSUME NEW c \in Clients
          PROVE  Tallied(c, clnt[c], answers[c], mail', nsent[Server], vanished + 1, dups)
      <3>1. Tallied(c, clnt[c], answers[c], mail, nsent[Server], vanished, dups)
        BY <1>2 DEF NewsMail
      <3> QED
        BY <1>3, <3>1, NewsCounts, TallyNetwork
    <2> QED
      BY <1>1, <1>2, <1>3, <2>1 DEF NewsMail
  <1> QED
    BY <1>1, <1>4, <1>5, <1>6, NewsStep

LEMMA DuplicateNews ==
    ASSUME DatagramsInv, talk = D!news, NEW d \in DOMAIN mail, D!Duplicate(d)
    PROVE  DatagramsInv'
  <1>1. /\ mail' = D!Put(d) /\ dups' = dups + 1
        /\ UNCHANGED <<talk, serverAt, asked, clnt, nsent, answers, refused, outside, unsent, vanished>>
    BY DEF D!Duplicate, D!hostVars
  <1>2. MailTypes /\ Roles /\ NewsMail
    BY NewsCounts
  <1>3. /\ IsBag(mail') /\ DOMAIN mail' = DOMAIN mail /\ DOMAIN mail' \subseteq Mail
        /\ \A x : Times(mail', x) = Times(mail, x) + (IF x = d THEN 1 ELSE 0)
    <2>1. d \in Mail
      BY <1>2 DEF MailTypes
    <2> QED
      BY <1>1, <1>2, <2>1, NetPut
  <1>4. MailTypes'
    BY <1>1, <1>2, <1>3 DEF MailTypes, D!TypeOK
  <1>5. Roles'
    BY <1>1, <1>2 DEF Roles, D!ZerosOutside
  <1>6. NewsMail'
    <2>1. ASSUME NEW c \in Clients
          PROVE  Tallied(c, clnt[c], answers[c], mail', nsent[Server], vanished, dups + 1)
      <3>1. Tallied(c, clnt[c], answers[c], mail, nsent[Server], vanished, dups)
        BY <1>2 DEF NewsMail
      <3> QED
        BY <1>3, <3>1, NewsCounts, TallyNetwork
    <2> QED
      BY <1>1, <1>2, <1>3, <2>1 DEF NewsMail
  <1> QED
    BY <1>1, <1>4, <1>5, <1>6, NewsStep

LEMMA ServerStartsNews ==
    ASSUME DatagramsInv, talk = D!news, D!ServerStarts
    PROVE  DatagramsInv'
  <1>1. /\ serverAt = "absent" /\ serverAt' = "news"
        /\ UNCHANGED <<talk, mail, vanished, asked, clnt, nsent, answers, refused, outside, unsent, dups>>
    BY DEF D!ServerStarts
  <1>2. MailTypes /\ Roles /\ NewsMail
    BY NewsCounts
  <1>3. MailTypes'
    BY <1>1, <1>2 DEF MailTypes, D!TypeOK
  <1>4. Roles'
    BY <1>1, <1>2 DEF Roles, D!ZerosOutside
  <1>5. NewsMail'
    BY <1>1, <1>2 DEF NewsMail
  <1> QED
    BY <1>1, <1>3, <1>4, <1>5, NewsStep

LEMMA news_senderNews ==
    ASSUME DatagramsInv, talk = D!news, D!news_sender
    PROVE  DatagramsInv'
  <1>1. PICK n, line, group :
            /\ n = nsent[Server] /\ line = IF n = MaxMsgs THEN MaxMsgs ELSE n + 1
            /\ group = {NewsLine(c, line) : c \in {x \in Clients : clnt[x] = "recv"}}
            /\ mail' = D!(+)(mail, D!SetToBag(group))
            /\ nsent' = [nsent EXCEPT ![Server] = @ + 1]
            /\ serverAt = "news" /\ serverAt' = IF n = MaxMsgs THEN "done" ELSE "news"
    BY DEF D!news_sender, NewsLine
  <1>2. UNCHANGED <<talk, asked, clnt, answers, refused, outside, unsent, vanished, dups>>
    BY DEF D!news_sender
  <1>3. MailTypes /\ Roles /\ NewsMail
    BY NewsCounts
  <1>4. n \in Nat /\ n <= MaxMsgs /\ MaxMsgs \in Nat /\ line \in 1 .. MaxMsgs /\ line \in Nat
    BY <1>1, <1>3, DatagramConstants DEF NewsMail
  <1>5. /\ IsBag(mail') /\ DOMAIN mail' = DOMAIN mail \cup group
        /\ \A x : Times(mail', x) = Times(mail, x) + (IF x \in group THEN 1 ELSE 0)
    <2>1. PICK p : p = mail' /\ p = D!(+)(mail, D!SetToBag(group))
      BY <1>1
    <2>2. IsBag(mail)
      BY <1>3 DEF MailTypes
    <2>3. OneMoreOf(p, mail, group)
      BY <2>1, <2>2, BagPutAll
    <2> QED
      BY <2>1, <2>3 DEF OneMoreOf
  <1>6. /\ \A x \in group : \E c \in Clients : x = NewsLine(c, line) /\ clnt[c] = "recv"
        /\ \A c \in Clients : \A k \in Nat : NewsLine(c, k) \in group <=> clnt[c] = "recv" /\ k = line
    BY <1>1, <1>4, LineFields
  <1>7. DOMAIN mail' \subseteq Mail
    BY <1>3, <1>4, <1>5, <1>6, LineFields DEF MailTypes
  <1>8. nsent' \in [D!Hosts -> Nat] /\ nsent'[Server] = n + 1
    BY <1>1, <1>3, DatagramConstants DEF MailTypes, D!TypeOK
  <1>9. MailTypes'
    BY <1>1, <1>2, <1>3, <1>5, <1>7, <1>8 DEF MailTypes, D!TypeOK
  <1>10. Roles'
    BY <1>1, <1>2, <1>3 DEF Roles, D!ZerosOutside
  <1>11. NewsMail'
    <2>1. \A x \in DOMAIN mail' : x.to \in Clients /\ clnt[x.to] = "recv" /\ x.n \in 1 .. MaxMsgs /\ x = NewsLine(x.to, x.n)
      <3>1. \A x \in DOMAIN mail : x.to \in Clients /\ clnt[x.to] = "recv" /\ x.n \in 1 .. MaxMsgs /\ x = NewsLine(x.to, x.n)
        BY <1>3 DEF NewsMail
      <3>2. \A x \in group : x.to \in Clients /\ clnt[x.to] = "recv" /\ x.n \in 1 .. MaxMsgs /\ x = NewsLine(x.to, x.n)
        BY <1>4, <1>6, LineFields
      <3> QED
        BY <1>5, <3>1, <3>2
    <2>2. ASSUME NEW c \in Clients
          PROVE  Tallied(c, clnt[c], answers[c], mail', n + 1, vanished, dups)
      <3>1. Tallied(c, clnt[c], answers[c], mail, n, vanished, dups)
        BY <1>1, <1>3 DEF NewsMail
      <3>2. \A k \in Nat : Times(mail', NewsLine(c, k)) = Times(mail, NewsLine(c, k))
                                + (IF clnt[c] = "recv" /\ k = line THEN 1 ELSE 0)
        BY <1>5, <1>6
      <3>3. /\ clnt[c] \in {"away", "recv"} /\ answers[c] \in Seq(Heard) /\ vanished \in Nat /\ dups \in Nat
            /\ IsBag(mail) /\ IsBag(mail')
        BY <1>5, NewsCounts
      <3>4. PICK role \in {"away", "recv"}, s \in Seq(Heard) : role = clnt[c] /\ s = answers[c]
        BY <3>3
      <3>5. PICK l \in Nat, d \in Nat : l = vanished /\ d = dups
        BY <3>3
      <3>6. PICK b, p : b = mail /\ p = mail'
        OBVIOUS
      <3>7. Tallied(c, role, s, b, n, l, d)
        BY <3>1, <3>4, <3>5, <3>6
      <3>8. \A k \in Nat : Times(p, NewsLine(c, k)) = Times(b, NewsLine(c, k)) + (IF role = "recv" /\ k = line THEN 1 ELSE 0)
        BY <3>2, <3>4, <3>6
      <3>9. n \in Nat /\ n <= MaxMsgs /\ line = IF n = MaxMsgs THEN MaxMsgs ELSE n + 1
        BY <1>1, <1>4
      <3>10. IsBag(b) /\ IsBag(p)
        BY <3>3, <3>6
      <3>11. Tallied(c, role, s, p, n + 1, l, d)
        BY <3>7, <3>8, <3>9, <3>10, TallySent
      <3> QED
        BY <3>4, <3>5, <3>6, <3>11
    <2>3. n + 1 \in 0 .. (MaxMsgs + 1) /\ (serverAt' = "done" <=> n + 1 = MaxMsgs + 1) /\ serverAt' # "absent"
      BY <1>1, <1>4
    <2> QED
      BY <1>2, <1>8, <2>1, <2>2, <2>3 DEF NewsMail
  <1> QED
    BY <1>2, <1>9, <1>10, <1>11, NewsStep

LEMMA JoinNews ==
    ASSUME DatagramsInv, talk = D!news, NEW c \in Clients, D!Join(c)
    PROVE  DatagramsInv'
  <1>1. PICK a : /\ a = [of |-> Server, n |-> 0, awaited |-> nsent[Server]]
                 /\ clnt[c] = "away" /\ clnt' = [clnt EXCEPT ![c] = "recv"]
                 /\ answers' = [answers EXCEPT ![c] = <<a>>]
                 /\ UNCHANGED <<talk, mail, serverAt, asked, nsent, refused, outside, unsent, vanished, dups>>
    BY DEF D!Join
  <1>2. MailTypes /\ Roles /\ NewsMail
    BY NewsCounts
  <1>3. a \in Heard /\ a.n = 0 /\ a.awaited = nsent[Server]
    BY <1>1, NewsCounts, DatagramConstants DEF Heard
  <1>4. /\ clnt' \in [Clients -> {"type", "recv", "away", "done"}] /\ clnt'[c] = "recv"
        /\ \A k \in Clients : k # c => clnt'[k] = clnt[k]
    BY <1>1, <1>2 DEF MailTypes, D!TypeOK
  <1>5. /\ answers' \in [D!Hosts -> Seq(Heard)] /\ answers'[c] = <<a>>
        /\ \A k \in Clients : k # c => answers'[k] = answers[k]
    <2>1. <<a>> \in Seq(Heard) /\ answers \in [D!Hosts -> Seq(Heard)]
      BY <1>2, <1>3 DEF MailTypes
    <2> QED
      BY <1>1, <2>1, DatagramConstants
  <1>6. MailTypes'
    BY <1>1, <1>2, <1>4, <1>5 DEF MailTypes, D!TypeOK
  <1>7. Roles'
    BY <1>1, <1>2, <1>4 DEF Roles, D!ZerosOutside
  <1>8. NewsMail'
    <2>1. \A k \in Nat : Times(mail, NewsLine(c, k)) = 0
      <3> TAKE k \in Nat
      <3>1. NewsLine(c, k) \notin DOMAIN mail
        BY <1>1, <1>2, LineFields DEF NewsMail
      <3> QED
        BY <3>1 DEF Times
    <2>2. Tallied(c, "recv", <<a>>, mail, nsent[Server], vanished, dups)
      BY <1>3, <2>1, NewsCounts, TallyJoined
    <2>3. \A k \in Clients : Tallied(k, clnt'[k], answers'[k], mail, nsent[Server], vanished, dups)
      BY <1>2, <1>4, <1>5, <2>2 DEF NewsMail
    <2> QED
      BY <1>1, <1>2, <1>4, <2>3 DEF NewsMail
  <1> QED
    BY <1>1, <1>6, <1>7, <1>8, NewsStep

LEMMA news_receiverNews ==
    ASSUME DatagramsInv, talk = D!news, NEW c \in Clients, NEW d \in DOMAIN mail, D!news_receiver(c, d)
    PROVE  DatagramsInv'
  <1>1. PICK a : /\ a = [of |-> d.of, n |-> d.n, awaited |-> 0]
                 /\ clnt[c] = "recv" /\ d.to = c /\ mail' = D!Without(d)
                 /\ answers' = [answers EXCEPT ![c] = Append(@, a)]
                 /\ UNCHANGED <<talk, serverAt, asked, clnt, nsent, refused, outside, unsent, vanished, dups>>
    BY DEF D!news_receiver, D!Hears, D!Arrived
  <1>2. MailTypes /\ Roles /\ NewsMail
    BY NewsCounts
  <1>3. d \in Mail /\ d.of \in D!Hosts /\ d.n \in Nat /\ d = NewsLine(c, d.n)
    BY <1>1, <1>2, MailFields DEF MailTypes, NewsMail
  <1>4. a \in Heard /\ a.n = d.n
    BY <1>1, <1>3 DEF Heard
  <1>5. /\ IsBag(mail') /\ DOMAIN mail' \subseteq DOMAIN mail /\ DOMAIN mail' \subseteq Mail
        /\ \A x : Times(mail', x) = Times(mail, x) - (IF x = d THEN 1 ELSE 0)
    BY <1>1, <1>2, NetTake
  <1>6. /\ answers' \in [D!Hosts -> Seq(Heard)] /\ answers'[c] = Append(answers[c], a)
        /\ \A k \in D!Hosts : k # c => answers'[k] = answers[k]
    <2>1. answers \in [D!Hosts -> Seq(Heard)] /\ c \in D!Hosts
      BY <1>2, DatagramConstants DEF MailTypes
    <2> QED
      BY <1>1, <1>4, <2>1, HearsMore
  <1>7. MailTypes'
    BY <1>1, <1>2, <1>5, <1>6 DEF MailTypes, D!TypeOK
  <1>8. Roles'
    BY <1>1, <1>2 DEF Roles, D!ZerosOutside
  <1>9. NewsMail'
    <2>1. Tallied(c, "recv", answers'[c], mail', nsent[Server], vanished, dups)
      <3>1. Tallied(c, "recv", answers[c], mail, nsent[Server], vanished, dups)
        BY <1>1, <1>2 DEF NewsMail
      <3>2. \A y : Times(mail', y) = Times(mail, y) - (IF y = NewsLine(c, d.n) THEN 1 ELSE 0)
        BY <1>3, <1>5
      <3>3. Tallied(c, "recv", Append(answers[c], a), mail', nsent[Server], vanished, dups)
        BY <1>3, <1>4, <1>5, <3>1, <3>2, NewsCounts, TallyReceived
      <3> QED
        BY <1>6, <3>3
    <2>2. ASSUME NEW k \in Clients, k # c
          PROVE  Tallied(k, clnt[k], answers'[k], mail', nsent[Server], vanished, dups)
      <3>1. Tallied(k, clnt[k], answers[k], mail, nsent[Server], vanished, dups)
        BY <1>2 DEF NewsMail
      <3>2. \A j \in Nat : Times(mail', NewsLine(k, j)) = Times(mail, NewsLine(k, j))
        <4> TAKE j \in Nat
        <4>1. NewsLine(k, j) # d
          BY <1>3, <2>2, LineFields
        <4>2. Times(mail, NewsLine(k, j)) \in Nat
          BY <1>2, TimesNat DEF MailTypes
        <4> QED
          BY <1>5, <4>1, <4>2
      <3>3. Tallied(k, clnt[k], answers[k], mail', nsent[Server], vanished, dups)
        BY <3>1, <3>2, TallyElsewhere
      <3>4. answers'[k] = answers[k]
        BY <1>6, <2>2, DatagramConstants
      <3> QED
        BY <3>3, <3>4
    <2>3. \A k \in Clients : Tallied(k, clnt[k], answers'[k], mail', nsent[Server], vanished, dups)
      BY <1>1, <2>1, <2>2
    <2> QED
      BY <1>1, <1>2, <1>5, <2>3 DEF NewsMail
  <1> QED
    BY <1>1, <1>7, <1>8, <1>9, NewsStep

(* The programs together. *)
LEMMA DatagramsInit ==
    ASSUME SocketsInit
    PROVE  DatagramsInv
  <1>1. /\ talk \in D!Programs /\ mail = D!EmptyBag /\ serverAt = "absent" /\ asked = D!None
        /\ clnt = [c \in Clients |-> IF talk = D!news THEN "away" ELSE "type"]
        /\ nsent = [h \in D!Hosts |-> 0] /\ answers = [h \in D!Hosts |-> << >>]
        /\ refused = {} /\ outside = {} /\ unsent = {} /\ vanished = 0 /\ dups = 0
    BY DEF SocketsInit, D!Init
  <1>2. DOMAIN mail = {} /\ IsBag(mail)
    BY <1>1 DEF D!EmptyBag, D!SetToBag, IsBag
  <1>3. D!None \in Mail
    BY DatagramConstants DEF D!None, D!Datagram, Mail
  <1>4. << >> \in Seq(Heard)
    OBVIOUS
  <1>5. MailTypes
    BY <1>1, <1>2, <1>3, <1>4, DatagramConstants DEF MailTypes, D!TypeOK
  <1>6. Roles
    BY <1>1 DEF Roles, D!ZerosOutside
  <1>7. \A h \in D!Hosts : DOMAIN answers[h] = {} /\ answers[h] = << >> /\ nsent[h] = 0
    BY <1>1
  <1>8. talk \in D!Talk => TalkInv
    <2>1. D!news \notin D!Talk
      BY DEF D!Talk, D!news, D!uecho, D!uecho_con, D!uchar
    <2> QED
      BY <1>1, <1>2, <1>7, <2>1, DatagramConstants DEF TalkInv, TalkMail, InStep, Waiting, Matching
  <1>9. BoundMail
    BY <1>2, <1>7, DatagramConstants DEF BoundMail
  <1>10. ASSUME talk = D!news PROVE NewsMail
    <2>1. \A c \in Clients : Tallied(c, "away", << >>, mail, 0, 0, 0)
      <3> TAKE c \in Clients
      <3>1. ASSUME NEW k \in 1 .. MaxMsgs
            PROVE  Hits(<< >>, k) = 0 /\ Times(mail, NewsLine(c, k)) = 0 /\ \A x : Sent("away", x, 0, k) = 0
        <4>1. {i \in DOMAIN << >> : << >>[i].n = k} = {}
          OBVIOUS
        <4> QED
          BY <1>2, <4>1, FS_EmptySet DEF Hits, Times, Sent
      <3> QED
        BY <3>1 DEF Tallied
    <2>2. \A c \in Clients : clnt[c] = "away" /\ answers[c] = << >>
      BY <1>1, <1>7, <1>10, DatagramConstants
    <2>3. \A c \in Clients : Tallied(c, clnt[c], answers[c], mail, nsent[Server], vanished, dups)
      BY <1>1, <1>7, <2>1, <2>2, DatagramConstants
    <2> QED
      BY <1>1, <1>2, <1>7, <2>3, DatagramConstants DEF NewsMail
  <1> QED
    BY <1>5, <1>6, <1>8, <1>9, <1>10 DEF DatagramsInv

LEMMA TalkNext ==
    ASSUME DatagramsInv, talk \in D!Talk, D!Next
    PROVE  DatagramsInv'
  <1>1. /\ talk # D!news /\ talk # D!bound /\ serverAt # "news"
        /\ \A c \in Clients : clnt[c] # "away"
    BY DEF D!Talk, D!bound, D!news, D!uecho, D!uecho_con, D!uchar, DatagramsInv, Roles
  <1>2. \A d : d \in D!BagToSet(mail) <=> d \in DOMAIN mail
    BY DEF D!BagToSet
  <1>3. CASE D!Network
    BY <1>2, <1>3, LoseTalk, DuplicateTalk, UnreachableTalk DEF D!Network
  <1>4. CASE D!ServerStep
    BY <1>1, <1>2, <1>4, ServerStartsTalk, AnswerRequestTalk, ServerQuitsTalk, EchoTalk, TakeRequestTalk
    DEF D!ServerStep, D!news_sender, D!bound_host1
  <1>5. CASE \E c \in Clients : D!ClientStep(c)
    BY <1>1, <1>2, <1>5, ClientSendsTalk, ClientQuitsTalk, ClientRefusedTalk, ClientReceivesTalk
    DEF D!ClientStep, D!bound_host2, D!Join, D!news_receiver
  <1> QED
    BY <1>3, <1>4, <1>5 DEF D!Next

LEMMA BoundNext ==
    ASSUME DatagramsInv, talk = D!bound, D!Next
    PROVE  DatagramsInv'
  <1>1. /\ talk \notin D!Talk /\ talk \notin {D!news, D!uecho, D!uecho_con, D!uchar}
        /\ serverAt \notin {"news", "type"} /\ refused = {}
        /\ \A c \in Clients : clnt[c] # "away"
    BY DEF D!Talk, D!bound, D!news, D!uecho, D!uecho_con, D!uchar, DatagramsInv, Roles
  <1>2. \A d : d \in D!BagToSet(mail) <=> d \in DOMAIN mail
    BY DEF D!BagToSet
  <1>3. CASE D!Network
    BY <1>2, <1>3, LoseBound, DuplicateBound DEF D!Network
  <1>4. CASE D!ServerStep
    BY <1>1, <1>2, <1>4, ServerStartsBound, bound_host1Bound
    DEF D!ServerStep, D!news_sender, D!AnswerRequest, D!ServerQuits, D!Echo, D!TakeRequest
  <1>5. CASE \E c \in Clients : D!ClientStep(c)
    BY <1>1, <1>2, <1>5, bound_host2Bound
    DEF D!ClientStep, D!ClientSends, D!ClientQuits, D!ClientRefused, D!ClientReceives, D!Join, D!news_receiver
  <1> QED
    BY <1>3, <1>4, <1>5 DEF D!Next

LEMMA NewsNext ==
    ASSUME DatagramsInv, talk = D!news, D!Next
    PROVE  DatagramsInv'
  <1>1. /\ talk \notin D!Talk /\ talk \notin {D!bound, D!uecho, D!uecho_con, D!uchar}
        /\ serverAt \notin {"recv", "type"} /\ refused = {}
    BY DEF D!Talk, D!bound, D!news, D!uecho, D!uecho_con, D!uchar, DatagramsInv, Roles
  <1>2. \A d : d \in D!BagToSet(mail) <=> d \in DOMAIN mail
    BY DEF D!BagToSet
  <1>3. \A d \in DOMAIN mail : ~ D!Unreachable(d)
    BY NewsCounts, DatagramConstants DEF NewsMail, D!Unreachable
  <1>4. CASE D!Network
    BY <1>2, <1>3, <1>4, LoseNews, DuplicateNews DEF D!Network
  <1>5. CASE D!ServerStep
    BY <1>1, <1>2, <1>5, ServerStartsNews, news_senderNews
    DEF D!ServerStep, D!AnswerRequest, D!ServerQuits, D!Echo, D!TakeRequest, D!bound_host1
  <1>6. CASE \E c \in Clients : D!ClientStep(c)
    BY <1>1, <1>2, <1>6, JoinNews, news_receiverNews
    DEF D!ClientStep, D!ClientSends, D!ClientQuits, D!ClientRefused, D!ClientReceives, D!bound_host2
  <1> QED
    BY <1>4, <1>5, <1>6 DEF D!Next

LEMMA DatagramsNext ==
    ASSUME DatagramsInv, D!Next
    PROVE  DatagramsInv'
  <1>1. talk \in D!Talk \/ talk = D!bound \/ talk = D!news
    BY DEF DatagramsInv, MailTypes, D!TypeOK, D!Programs, D!Talk
  <1> QED
    BY <1>1, TalkNext, BoundNext, NewsNext

LEMMA DatagramsStutter ==
    ASSUME DatagramsInv, UNCHANGED datagrams
    PROVE  DatagramsInv'
  BY DEF datagrams, DatagramsInv, MailTypes, Roles, TalkInv, TalkMail, InStep, Waiting, Matching, BoundMail,
         NewsMail, D!TypeOK, D!ZerosOutside

LEMMA DatagramsShown ==
    ASSUME DatagramsInv
    PROVE  D!DatagramsAccountedFor
  <1>1. D!TypeOK /\ D!ZerosOutside
    BY DEF DatagramsInv, MailTypes, Roles
  <1>2. \A d : d \in D!BagToSet(mail) <=> d \in DOMAIN mail
    BY DEF D!BagToSet
  <1>3. D!NobodyWaitsInVain
    <2> SUFFICES ASSUME NEW c \in Clients, talk \in D!Talk, clnt[c] = "recv", vanished = 0, serverAt # "done", c \notin unsent
                 PROVE  \/ D!Arrived(c) # {}
                        \/ \E d \in D!Arrived(Server) \cup {asked} : d.from = c
      BY DEF D!NobodyWaitsInVain
    <2>1. TalkMail /\ Waiting
      BY DEF DatagramsInv, TalkInv
    <2>2. (\E d \in DOMAIN mail : d.of = c) \/ (serverAt = "type" /\ asked.of = c)
      BY <2>1 DEF Waiting
    <2>3. ASSUME NEW d \in DOMAIN mail, d.of = c
          PROVE  \/ D!Arrived(c) # {}
                 \/ \E e \in D!Arrived(Server) \cup {asked} : e.from = c
      <3>1. Request(d, c) \/ Response(d, c)
        BY <2>1, <2>3 DEF TalkMail
      <3> QED
        BY <1>2, <3>1 DEF Request, Response, D!Arrived
    <2>4. ASSUME serverAt = "type", asked.of = c
          PROVE  \E e \in D!Arrived(Server) \cup {asked} : e.from = c
      BY <2>1, <2>4 DEF TalkMail, Request
    <2> QED
      BY <2>2, <2>3, <2>4
  <1>4. D!AnswersMatch
    BY DEF DatagramsInv, TalkInv, Matching, D!AnswersMatch
  <1>5. D!NewsOnceButTheLast
    <2> SUFFICES ASSUME talk = D!news, NEW c \in Clients, NEW k \in 1 .. MaxMsgs,
                        NEW first, first = IF clnt[c] = "away" \/ k <= answers[c][1].awaited THEN 0 ELSE 1,
                        NEW again, again = IF k = MaxMsgs /\ clnt[c] = "recv" /\ answers[c][1].awaited <= MaxMsgs
                                           THEN 1 ELSE 0
                 PROVE  /\ D!Copies(c, k) <= first + again + dups
                        /\ serverAt = "done" /\ D!Arrived(c) = {} => D!Copies(c, k) + vanished >= first + again
      BY DEF D!NewsOnceButTheLast
    <2>1. Tallied(c, clnt[c], answers[c], mail, nsent[Server], vanished, dups)
      BY NewsCounts DEF NewsMail
    <2>2. D!Copies(c, k) = Hits(answers[c], k)
      BY DEF D!Copies, Hits, D!Cardinality, Cardinality
    <2>3. PICK h, t, n, l, d \in Nat : /\ h = Hits(answers[c], k) /\ t = Times(mail, NewsLine(c, k))
                                       /\ n = nsent[Server] /\ l = vanished /\ d = dups
      BY NewsCounts, HitsNat, TimesNat
    <2>4. PICK role, from : role \in {"away", "recv"} /\ role = clnt[c] /\ from = answers[c][1].awaited
      BY NewsCounts
    <2>5. role = "recv" => from \in Nat
      BY <2>1, <2>3, <2>4 DEF Tallied
    <2>6. PICK w : w = Sent(role, from, n, k)
      OBVIOUS
    <2>7. h + t <= w + d /\ w <= h + t + l
      BY <2>1, <2>3, <2>4, <2>6 DEF Tallied
    <2>8. k \in Nat /\ MaxMsgs \in Nat
      BY DatagramConstants
    <2>9. w \in Nat /\ first \in Nat /\ again \in Nat /\ w <= first + again
      BY <2>4, <2>5, <2>6, <2>8 DEF Sent
    <2>10. D!Copies(c, k) <= first + again + dups
      <3>1. h <= first + again + d
        BY <2>3, <2>7, <2>9
      <3> QED
        BY <2>2, <2>3, <3>1
    <2>11. ASSUME serverAt = "done", D!Arrived(c) = {}
           PROVE  D!Copies(c, k) + vanished >= first + again
      <3>1. NewsLine(c, k) \notin DOMAIN mail
        BY <1>2, <2>8, <2>11, LineFields DEF D!Arrived
      <3>2. t = 0
        BY <2>3, <3>1 DEF Times
      <3>3. n = MaxMsgs + 1
        BY <2>3, <2>11, NewsCounts DEF NewsMail
      <3>4. w = first + again
        BY <2>4, <2>5, <2>6, <2>8, <3>3 DEF Sent
      <3>5. h + l >= first + again
        BY <2>3, <2>7, <2>9, <3>2, <3>4
      <3> QED
        BY <2>2, <2>3, <3>5
    <2> QED
      BY <2>10, <2>11
  <1>6. D!ThreeOfThree
    BY DEF DatagramsInv, BoundMail, D!ThreeOfThree
  <1> QED
    BY <1>1, <1>3, <1>4, <1>5, <1>6 DEF D!DatagramsAccountedFor

(* The datagram programs of ch06, ch14 and multibroadcast: for every number
   of clients, of lines, and of datagrams lost and duplicated, a client that
   waits without anything under way for it has had a loss, a failed write()
   or a server that quit; it hears answers to its own lines only, and to an
   old one only after a duplicate; each receiver is sent every line once and
   the last one twice; and zeros are written outside the buffer by
   uchar_server and by refused clients alone. *)
THEOREM NoDatagramUnaccounted == SocketsSpec => []DatagramsAccountedFor
  <1>1. DatagramsInv /\ [SocketsNext]_socketVars => DatagramsInv'
    BY DatagramsNext, DatagramsStutter DEF SocketsNext, socketVars
  <1>2. DatagramsInv => DatagramsAccountedFor
    BY DatagramsShown DEF DatagramsAccountedFor
  <1> QED
    BY <1>1, <1>2, DatagramsInit, PTL DEF SocketsSpec
=============================================================================
