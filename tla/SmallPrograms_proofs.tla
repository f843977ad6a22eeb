------------------------ MODULE SmallPrograms_proofs ------------------------
(***************************************************************************)
(* What the small programs guarantee for every number of threads, rounds,  *)
(* places, wakeups and expiries.                                           *)
(*                                                                         *)
(* First productConsumer by itself: TypeOK is inductive together with what *)
(* a producer about to store has in hand.  It is what makes the product it *)
(* stores one of its products, and what a consumer takes from a queue that *)
(* is not empty a product at all.                                          *)
(*                                                                         *)
(* Then the programs as SmallPrograms composes them, an invariant for      *)
(* each: OrderInv (productConsumer), EventfdInv, TimerInv, PipesInv,       *)
(* ChatInv, CountersInv, ChildrenInv, AlarmsInv.  At the end, that a step  *)
(* of one program is none of the others, and the theorems.                 *)
(***************************************************************************)
EXTENDS SmallPrograms, FiniteSetTheorems, SequenceTheorems, WellFoundedInduction, TLAPS

(* condSignal() puts no thread to sleep. *)
LEMMA SignalledSubset ==
    ASSUME NEW S, NEW R \in Notified(S)
    PROVE  R \subseteq S
  BY DEF Notified

LEMMA InitTypeOK == Init => TypeOK
  <1> SUFFICES ASSUME Init PROVE TypeOK
    OBVIOUS
  <1> QED
    BY QueSizeAssumption, LoopsAssumption DEF Init, TypeOK

(* What main() does to the threads. *)
LEMMA MainKeepsTypeOK ==
    ASSUME TypeOK, MainStep
    PROVE  TypeOK'
  <1>1. ASSUME NEW t \in Threads, StartThread(t) PROVE TypeOK'
    <2>1. main' \in {"starting", "joinProducers", "joinConsumers", "ended"}
      BY <1>1, Zenon DEF StartThread
    <2> QED
      BY <1>1, <2>1 DEF StartThread, TypeOK
  <1>2. CASE JoinThreads(Producers, "joinProducers", "joinConsumers")
    BY <1>2 DEF JoinThreads, TypeOK
  <1>3. CASE JoinThreads(Consumers, "joinConsumers", "ended")
    BY <1>3 DEF JoinThreads, TypeOK
  <1> QED
    BY <1>1, <1>2, <1>3 DEF MainStep

(* The rounds of a thread outside of the queue. *)
LEMMA RoundsKeepTypeOK ==
    ASSUME TypeOK, NEW t \in Threads,
           \/ LeaveLoop(t)
           \/ t \in Producers /\ Produce(t)
           \/ t \in Consumers /\ Consume(t)
           \/ SpuriousWakeup(t)
    PROVE  TypeOK'
  <1> USE LoopsAssumption
  <1>1. CASE LeaveLoop(t)
    BY <1>1 DEF LeaveLoop, TypeOK
  <1>2. CASE t \in Producers /\ Produce(t)
    <2>1. cnt[t] \in 1..Loops
      BY <1>2 DEF Produce, TypeOK
    <2>2. <<t, cnt[t]>> \in Products
      BY <1>2, <2>1 DEF Products
    <2> QED
      BY <1>2, <2>1, <2>2 DEF Produce, TypeOK
  <1>3. CASE t \in Consumers /\ Consume(t)
    BY <1>3 DEF Consume, TypeOK
  <1>4. CASE SpuriousWakeup(t)
    BY <1>4 DEF SpuriousWakeup, TypeOK
  <1> QED
    BY <1>1, <1>2, <1>3, <1>4

(* A producer that is about to store holds one of its products. *)
ProductInHand == \A p \in Producers : pc[p] = "push" => product[p] \in Products

IndInv == TypeOK /\ ProductInHand

LEMMA PushKeepsTypeOK ==
    ASSUME IndInv, NEW p \in Producers, PushWait(p) \/ PushStore(p)
    PROVE  TypeOK'
  <1> USE QueSizeAssumption DEF IndInv
  <1>1. CASE PushWait(p)
    BY <1>1 DEF PushWait, TypeOK
  <1>2. CASE PushStore(p)
    <2>1. product[p] \in Products
      BY <1>2 DEF PushStore, ProductInHand
    <2>2. que' \in Seq(Products) /\ Len(que') <= QueSize
      BY <1>2, <2>1 DEF PushStore, TypeOK, isFull
    <2>3. notEmpty' \subseteq Consumers
      BY <1>2, SignalledSubset DEF PushStore, TypeOK
    <2> QED
      BY <1>2, <2>2, <2>3 DEF PushStore, TypeOK
  <1> QED
    BY <1>1, <1>2

LEMMA PopKeepsTypeOK ==
    ASSUME TypeOK, NEW c \in Consumers, PopWait(c) \/ PopTake(c)
    PROVE  TypeOK'
  <1> USE QueSizeAssumption
  <1>1. CASE PopWait(c)
    BY <1>1 DEF PopWait, TypeOK
  <1>2. CASE PopTake(c)
    <2>1. que \in Seq(Products) /\ que # << >>
      BY <1>2 DEF PopTake, TypeOK, isEmpty
    <2>2. /\ Head(que) \in Products
          /\ que' \in Seq(Products)
          /\ Len(que') <= QueSize
      BY <1>2, <2>1 DEF PopTake, TypeOK
    <2>3. received' \in [Consumers -> Seq(Products)]
      <3>1. Append(received[c], Head(que)) \in Seq(Products)
        BY <2>2 DEF TypeOK
      <3> QED
        BY <1>2, <3>1 DEF PopTake, TypeOK
    <2>4. notFull' \subseteq Producers
      BY <1>2, SignalledSubset DEF PopTake, TypeOK
    <2> QED
      BY <1>2, <2>2, <2>3, <2>4 DEF PopTake, TypeOK
  <1> QED
    BY <1>1, <1>2

(* Only its own Produce() takes a producer into push(), product in hand. *)
LEMMA HandsKept ==
    ASSUME IndInv, [Next]_vars
    PROVE  ProductInHand'
  <1> USE ThreadsAssumption DEF IndInv, ProductInHand
  <1>1. ASSUME NEW t \in Threads, StartThread(t) PROVE ProductInHand'
    BY <1>1 DEF StartThread, TypeOK, Threads
  <1>2. ASSUME NEW G, NEW f, NEW g, JoinThreads(G, f, g) PROVE ProductInHand'
    BY <1>2 DEF JoinThreads
  <1>3. ASSUME NEW t \in Threads, LeaveLoop(t) PROVE ProductInHand'
    BY <1>3 DEF LeaveLoop, TypeOK, Threads
  <1>4. ASSUME NEW p \in Producers, Produce(p) PROVE ProductInHand'
    <2>1. <<p, cnt[p]>> \in Products
      BY <1>4, LoopsAssumption DEF Produce, TypeOK, Threads, Products
    <2> QED
      BY <1>4, <2>1 DEF Produce, TypeOK, Threads
  <1>5. ASSUME NEW p \in Producers, PushWait(p) PROVE ProductInHand'
    BY <1>5 DEF PushWait
  <1>6. ASSUME NEW p \in Producers, PushStore(p) PROVE ProductInHand'
    BY <1>6 DEF PushStore, TypeOK, Threads
  <1>7. ASSUME NEW c \in Consumers, Consume(c) PROVE ProductInHand'
    BY <1>7 DEF Consume, TypeOK, Threads
  <1>8. ASSUME NEW c \in Consumers, PopWait(c) PROVE ProductInHand'
    BY <1>8 DEF PopWait
  <1>9. ASSUME NEW c \in Consumers, PopTake(c) PROVE ProductInHand'
    BY <1>9 DEF PopTake, TypeOK, Threads
  <1>10. ASSUME NEW t \in Threads, SpuriousWakeup(t) PROVE ProductInHand'
    BY <1>10 DEF SpuriousWakeup
  <1>11. CASE UNCHANGED vars
    BY <1>11 DEF vars
  <1> QED
    BY <1>1, <1>2, <1>3, <1>4, <1>5, <1>6, <1>7, <1>8, <1>9, <1>10, <1>11
    DEF Next, MainStep, ProducerStep, ConsumerStep, Threads

LEMMA NextKeepsIndInv == IndInv /\ [Next]_vars => IndInv'
  <1> SUFFICES ASSUME IndInv, [Next]_vars PROVE IndInv'
    OBVIOUS
  <1> USE DEF IndInv
  <1>1. TypeOK'
    <2>1. CASE MainStep
      BY <2>1, MainKeepsTypeOK
    <2>2. ASSUME NEW p \in Producers, ProducerStep(p) PROVE TypeOK'
      BY <2>2, RoundsKeepTypeOK, PushKeepsTypeOK DEF ProducerStep, Threads
    <2>3. ASSUME NEW c \in Consumers, ConsumerStep(c) PROVE TypeOK'
      BY <2>3, RoundsKeepTypeOK, PopKeepsTypeOK DEF ConsumerStep, Threads
    <2>4. ASSUME NEW t \in Threads, SpuriousWakeup(t) PROVE TypeOK'
      BY <2>4, RoundsKeepTypeOK
    <2>5. CASE UNCHANGED vars
      BY <2>5 DEF vars, TypeOK
    <2> QED
      BY <2>1, <2>2, <2>3, <2>4, <2>5 DEF Next
  <1>2. ProductInHand'
    BY HandsKept
  <1> QED
    BY <1>1, <1>2

LEMMA IndInvHolds == Spec => []IndInv
  <1>1. Init => IndInv
    BY InitTypeOK DEF IndInv, Init, ProductInHand, Threads
  <1> QED
    BY <1>1, NextKeepsIndInv, PTL DEF Spec

(* The variables of the program hold what its declarations say, and the
   queue never more than _queSize products. *)
THEOREM TypeCorrect == Spec => []TypeOK
  <1>1. IndInv => TypeOK
    BY DEF IndInv
  <1> QED
    BY <1>1, IndInvHolds, PTL

-----------------------------------------------------------------------------
(* What a thread of the program waits for, as the abstract queue sees it. *)
Mode(t) == IF pc[t] = "push" THEN "putting"
           ELSE IF pc[t] = "pop" THEN "taking" ELSE "idle"

(* A step that leaves the queue, the hands and the modes alone. *)
LEMMA HiddenStep ==
    ASSUME que' = que, product' = product,
           \A t \in Threads : Mode(t)' = Mode(t)
    PROVE  UNCHANGED BQ!vars
  BY DEF BQ!vars, Mode

(* Each step of a thread is a step of the abstract queue, or none. *)
LEMMA StepsRefine ==
    ASSUME IndInv, [Next]_vars
    PROVE  [BQ!Next]_(BQ!vars)
  <1> USE ThreadsAssumption DEF IndInv
  <1>1. ASSUME NEW t \in Threads, StartThread(t) PROVE UNCHANGED BQ!vars
    BY <1>1, HiddenStep DEF StartThread, TypeOK, Mode
  <1>2. ASSUME NEW G, NEW f, NEW g, JoinThreads(G, f, g) PROVE UNCHANGED BQ!vars
    BY <1>2, HiddenStep DEF JoinThreads, Mode
  <1>3. ASSUME NEW t \in Threads, LeaveLoop(t) PROVE UNCHANGED BQ!vars
    BY <1>3, HiddenStep DEF LeaveLoop, TypeOK, Mode
  <1>4. ASSUME NEW p \in Producers, Produce(p) PROVE BQ!Next
    <2>1. <<p, cnt[p]>> \in Products
      BY <1>4, LoopsAssumption DEF Produce, TypeOK, Threads, Products
    <2>2. PICK x \in Products : x = <<p, cnt[p]>>
      BY <2>1
    <2>3. BQ!Offer(p, x)
      BY <1>4, <2>2 DEF Produce, TypeOK, Threads, BQ!Offer
    <2> QED
      BY <2>3 DEF BQ!Next, Threads
  <1>5. ASSUME NEW p \in Producers, PushStore(p) PROVE BQ!Next
    <2> DEFINE M == [t \in Threads |-> Mode(t)]
    <2>1. M[p] = "putting" /\ M' = [M EXCEPT ![p] = "idle"]
      BY <1>5 DEF PushStore, TypeOK, Threads, Mode
    <2>2. Len(que) < QueSize
      BY <1>5, QueSizeAssumption DEF PushStore, TypeOK, isFull
    <2>3. BQ!Put(p)
      BY <1>5, <2>1, <2>2 DEF PushStore, BQ!Put, Mode
    <2> QED
      BY <2>3 DEF BQ!Next, Threads
  <1>6. ASSUME NEW c \in Consumers, Consume(c) PROVE BQ!Next
    <2>1. BQ!Ask(c)
      BY <1>6 DEF Consume, TypeOK, Threads, BQ!Ask
    <2> QED
      BY <2>1 DEF BQ!Next, Threads
  <1>7. ASSUME NEW c \in Consumers, PopTake(c) PROVE BQ!Next
    <2>1. BQ!Take(c)
      BY <1>7 DEF PopTake, TypeOK, Threads, isEmpty, BQ!Take
    <2> QED
      BY <2>1 DEF BQ!Next, Threads
  <1>8. ASSUME NEW t \in Threads, PushWait(t) \/ PopWait(t) \/ SpuriousWakeup(t)
        PROVE  UNCHANGED BQ!vars
    BY <1>8, HiddenStep DEF PushWait, PopWait, SpuriousWakeup, Mode
  <1>9. CASE UNCHANGED vars
    BY <1>9, HiddenStep DEF vars, Mode
  <1> QED
    BY <1>1, <1>2, <1>3, <1>4, <1>5, <1>6, <1>7, <1>8, <1>9
    DEF Next, MainStep, ProducerStep, ConsumerStep, Threads

(* pushProduct() and popProduct() together implement the atomic bounded
   FIFO queue, for any number of threads, rounds and places. *)
THEOREM QueueRefinement == Spec => ImplementsBoundedQueue
  <1>1. Init => BQ!Init
    BY DEF Init, BQ!Init
  <1>2. IndInv /\ [Next]_vars => [BQ!Next]_(BQ!vars)
    BY StepsRefine
  <1> QED
    BY <1>1, <1>2, IndInvHolds, PTL DEF Spec, ImplementsBoundedQueue, BQ!Spec

-----------------------------------------------------------------------------
(***************************************************************************)
(* The order of products.  A producer's products are numbered downwards;   *)
(* those it has left to store have lower numbers than those it stored,     *)
(* and what is in the queue has lower numbers than what was popped.        *)
(***************************************************************************)
Falling(s) ==
    \A i, j \in 1..Len(s) : i < j /\ s[i][1] = s[j][1] => s[i][2] > s[j][2]

Above(s, t) ==
    \A i \in 1..Len(s), j \in 1..Len(t) : s[i][1] = t[j][1] => s[i][2] > t[j][2]

Left == [p \in Producers |-> cnt[p] + (IF pc[p] = "push" THEN 1 ELSE 0)]

StoredBefore(s) == \A i \in 1..Len(s) : s[i][2] > Left[s[i][1]]

OrderInv ==
    /\ \A p \in Producers : pc[p] = "push" => product[p] = <<p, cnt[p] + 1>>
    /\ Falling(que) /\ StoredBefore(que)
    /\ \A c \in Consumers : /\ Falling(received[c]) /\ StoredBefore(received[c])
                             /\ Above(received[c], que)

LEMMA OneIn ==
    ASSUME NEW q \in Products
    PROVE  q[1] \in Producers /\ q[2] \in Nat
  BY LoopsAssumption DEF Products

LEMMA AppendedOrder ==
    ASSUME NEW S, NEW s \in Seq(S), NEW e \in S
    PROVE  /\ Append(s, e) \in Seq(S) /\ Len(Append(s, e)) = Len(s) + 1
           /\ Len(s) \in Nat
           /\ \A i \in 1..(Len(s) + 1) : Append(s, e)[i] = IF i <= Len(s) THEN s[i] ELSE e
  OBVIOUS

LEMMA TailOrder ==
    ASSUME NEW S, NEW s \in Seq(S), s # << >>
    PROVE  /\ Tail(s) \in Seq(S) /\ Len(Tail(s)) + 1 = Len(s) /\ Len(Tail(s)) \in Nat
           /\ Head(s) = s[1] /\ Head(s) \in S
           /\ \A i \in 1..Len(Tail(s)) : Tail(s)[i] = s[i + 1]
  OBVIOUS

LEMMA FallingAppended ==
    ASSUME NEW s \in Seq(Products), NEW e \in Products, Falling(s),
           \A i \in 1..Len(s) : s[i][1] = e[1] => s[i][2] > e[2]
    PROVE  Falling(Append(s, e))
  <1> DEFINE t == Append(s, e)
  <1>1. /\ Len(t) = Len(s) + 1 /\ Len(s) \in Nat
        /\ \A i \in 1..(Len(s) + 1) : t[i] = IF i <= Len(s) THEN s[i] ELSE e
    BY AppendedOrder
  <1> HIDE DEF t
  <1> SUFFICES ASSUME NEW i \in 1..Len(t), NEW j \in 1..Len(t), i < j, t[i][1] = t[j][1]
               PROVE  t[i][2] > t[j][2]
    BY DEF Falling, t
  <1>2. i \in 1..Len(s) /\ t[i] = s[i]
    BY <1>1
  <1>3. CASE j \in 1..Len(s)
    <2>1. t[j] = s[j]
      BY <1>1, <1>3
    <2> QED
      BY <1>2, <1>3, <2>1 DEF Falling
  <1>4. CASE j = Len(s) + 1
    <2>1. t[j] = e
      BY <1>1, <1>4
    <2> QED
      BY <1>2, <2>1
  <1> QED
    BY <1>1, <1>3, <1>4

LEMMA FallingTail ==
    ASSUME NEW s \in Seq(Products), s # << >>, Falling(s)
    PROVE  /\ Falling(Tail(s))
           /\ \A j \in 1..Len(Tail(s)) :
                Head(s)[1] = Tail(s)[j][1] => Head(s)[2] > Tail(s)[j][2]
  <1> DEFINE t == Tail(s)
             h == Head(s)
  <1>1. /\ Len(t) + 1 = Len(s) /\ Len(t) \in Nat /\ h = s[1]
        /\ \A i \in 1..Len(t) : t[i] = s[i + 1]
    BY TailOrder
  <1> HIDE DEF t, h
  <1>2. \A i \in 1..Len(t) : i + 1 \in 1..Len(s) /\ 1 < i + 1 /\ 1 \in 1..Len(s)
    BY <1>1
  <1>3. Falling(t)
    <2> SUFFICES ASSUME NEW i \in 1..Len(t), NEW j \in 1..Len(t), i < j, t[i][1] = t[j][1]
                 PROVE  t[i][2] > t[j][2]
      BY DEF Falling
    <2>1. i + 1 < j + 1 /\ t[i] = s[i + 1] /\ t[j] = s[j + 1]
      BY <1>1
    <2> QED
      BY <1>2, <2>1 DEF Falling
  <1>4. \A j \in 1..Len(t) : h[1] = t[j][1] => h[2] > t[j][2]
    BY <1>1, <1>2 DEF Falling
  <1> QED
    BY <1>3, <1>4 DEF t, h

(* What a consumer pops is below all it has popped and above the rest. *)
LEMMA PopKeepsAbove ==
    ASSUME NEW r \in Seq(Products), NEW s \in Seq(Products), s # << >>,
           Falling(r), Falling(s), Above(r, s)
    PROVE  Falling(Append(r, Head(s))) /\ Above(Append(r, Head(s)), Tail(s))
  <1> DEFINE t == Tail(s)
             h == Head(s)
             a == Append(r, h)
  <1>1. /\ Len(t) + 1 = Len(s) /\ Len(t) \in Nat /\ h = s[1] /\ h \in Products
        /\ \A i \in 1..Len(t) : t[i] = s[i + 1]
    BY TailOrder
  <1>2. /\ Len(a) = Len(r) + 1 /\ Len(r) \in Nat
        /\ \A i \in 1..(Len(r) + 1) : a[i] = IF i <= Len(r) THEN r[i] ELSE h
    BY <1>1, AppendedOrder
  <1>3. \A j \in 1..Len(t) : h[1] = t[j][1] => h[2] > t[j][2]
    BY FallingTail
  <1>4. Falling(a)
    <2>1. 1 \in 1..Len(s)
      BY <1>1
    <2>2. \A i \in 1..Len(r) : r[i][1] = h[1] => r[i][2] > h[2]
      BY <1>1, <2>1 DEF Above
    <2> QED
      BY <1>1, <2>2, FallingAppended
  <1> HIDE DEF t, h, a
  <1>5. Above(a, t)
    <2> SUFFICES ASSUME NEW i \in 1..Len(a), NEW j \in 1..Len(t), a[i][1] = t[j][1]
                 PROVE  a[i][2] > t[j][2]
      BY DEF Above
    <2>1. CASE i \in 1..Len(r)
      <3>1. a[i] = r[i] /\ t[j] = s[j + 1] /\ j + 1 \in 1..Len(s)
        BY <1>1, <1>2, <2>1
      <3> QED
        BY <2>1, <3>1 DEF Above
    <2>2. CASE i = Len(r) + 1
      <3>1. a[i] = h
        BY <1>2, <2>2
      <3> QED
        BY <1>3, <3>1
    <2> QED
      BY <1>2, <2>1, <2>2
  <1> QED
    BY <1>4, <1>5 DEF t, h, a

(* A step that stores nothing and pops nothing. *)
LEMMA OrderUntouched ==
    ASSUME IndInv, OrderInv, UNCHANGED <<que, received>>,
           \A p \in Producers : /\ Left'[p] = Left[p]
                                /\ pc'[p] = "push" => product'[p] = <<p, cnt'[p] + 1>>
    PROVE  OrderInv'
  <1>1. \A s \in Seq(Products) : StoredBefore(s) => StoredBefore(s)'
    <2>1. \A s \in Seq(Products) : \A i \in 1..Len(s) : s[i][1] \in Producers
      <3> TAKE s \in Seq(Products)
      <3> TAKE i \in 1..Len(s)
      <3>1. s[i] \in Products
        OBVIOUS
      <3> QED
        BY <3>1, OneIn
    <2> QED
      BY <2>1 DEF StoredBefore
  <1>2. que \in Seq(Products) /\ \A c \in Consumers : received[c] \in Seq(Products)
    BY DEF IndInv, TypeOK
  <1>3. StoredBefore(que)' /\ \A c \in Consumers : StoredBefore(received[c])'
    <2>1. \A s \in Seq(Products) : s = s
      OBVIOUS
    <2> QED
      BY <1>1, <1>2 DEF OrderInv, StoredBefore
  <1> QED
    BY <1>3 DEF OrderInv, Falling, Above

LEMMA StoreKeepsOrder ==
    ASSUME IndInv, OrderInv, NEW p \in Producers, PushStore(p)
    PROVE  OrderInv'
  <1> USE ThreadsAssumption
  <1>1. /\ p \in Threads /\ pc \in [Threads -> {"unborn", "loop", "push", "pop", "done"}]
        /\ cnt \in [Threads -> 0..Loops] /\ product \in [Threads -> Products \cup {NULL}]
        /\ que \in Seq(Products) /\ cnt[p] \in Nat
        /\ \A c \in Consumers : received[c] \in Seq(Products)
    BY LoopsAssumption DEF IndInv, TypeOK, Threads
  <1>2. PICK e \in Products : e = product[p]
    BY DEF IndInv, ProductInHand, PushStore
  <1>3. e = <<p, cnt[p] + 1>> /\ e[1] = p /\ e[2] = cnt[p] + 1
    BY <1>2 DEF OrderInv, PushStore
  <1>4. /\ que' = Append(que, e) /\ pc[p] = "push" /\ pc' = [pc EXCEPT ![p] = "loop"]
        /\ product' = [product EXCEPT ![p] = NULL] /\ UNCHANGED <<cnt, received>>
    BY <1>2 DEF PushStore
  <1>5. /\ Left[p] = cnt[p] + 1 /\ Left'[p] = cnt[p]
        /\ \A q \in Producers : q # p => Left'[q] = Left[q]
    BY <1>1, <1>4 DEF Left
  <1>6. \A s \in Seq(Products) : StoredBefore(s) =>
            \A i \in 1..Len(s) : /\ s[i][2] > Left'[s[i][1]]
                                 /\ s[i][1] = e[1] => s[i][2] > e[2]
    <2> SUFFICES ASSUME NEW s \in Seq(Products), StoredBefore(s), NEW i \in 1..Len(s)
                 PROVE  s[i][2] > Left'[s[i][1]] /\ (s[i][1] = e[1] => s[i][2] > e[2])
      OBVIOUS
    <2>1. s[i][1] \in Producers /\ s[i][2] \in Nat
      <3>1. s[i] \in Products
        OBVIOUS
      <3> QED
        BY <3>1, OneIn
    <2>2. s[i][2] > Left[s[i][1]]
      BY DEF StoredBefore
    <2> QED
      BY <1>1, <1>3, <1>5, <2>1, <2>2
  <1>7. Falling(que')
    BY <1>1, <1>4, <1>6, FallingAppended DEF OrderInv
  <1>8. /\ Len(que') = Len(que) + 1 /\ Len(que) \in Nat
        /\ \A i \in 1..(Len(que) + 1) : que'[i] = IF i <= Len(que) THEN que[i] ELSE e
    BY <1>1, <1>4, AppendedOrder
  <1>9. StoredBefore(que)'
    <2> SUFFICES ASSUME NEW i \in 1..(Len(que) + 1)
                 PROVE  que'[i][2] > Left'[que'[i][1]]
      BY <1>8 DEF StoredBefore
    <2>1. CASE i \in 1..Len(que)
      BY <1>1, <1>6, <1>8, <2>1 DEF OrderInv
    <2>2. CASE i = Len(que) + 1
      <3>1. que'[i] = e
        BY <1>8, <2>2
      <3> QED
        BY <1>1, <1>3, <1>5, <3>1
    <2> QED
      BY <1>8, <2>1, <2>2
  <1>10. \A c \in Consumers : StoredBefore(received[c])'
    BY <1>1, <1>4, <1>6 DEF OrderInv, StoredBefore
  <1>11. \A c \in Consumers : Above(received[c], que')
    <2> SUFFICES ASSUME NEW c \in Consumers, NEW i \in 1..Len(received[c]),
                        NEW j \in 1..(Len(que) + 1), received[c][i][1] = que'[j][1]
                 PROVE  received[c][i][2] > que'[j][2]
      BY <1>8 DEF Above
    <2>1. CASE j \in 1..Len(que)
      <3>1. que'[j] = que[j]
        BY <1>8, <2>1
      <3> QED
        BY <2>1, <3>1 DEF OrderInv, Above
    <2>2. CASE j = Len(que) + 1
      <3>1. que'[j] = e
        BY <1>8, <2>2
      <3> QED
        BY <1>1, <1>6, <3>1 DEF OrderInv
    <2> QED
      BY <1>8, <2>1, <2>2
  <1>12. \A q \in Producers : pc'[q] = "push" => product'[q] = <<q, cnt'[q] + 1>>
    BY <1>1, <1>4 DEF OrderInv, Threads
  <1> QED
    BY <1>4, <1>7, <1>9, <1>10, <1>11, <1>12 DEF OrderInv

LEMMA TakeKeepsOrder ==
    ASSUME IndInv, OrderInv, NEW c \in Consumers, PopTake(c)
    PROVE  OrderInv'
  <1> USE ThreadsAssumption
  <1>1. /\ c \in Threads /\ pc \in [Threads -> {"unborn", "loop", "push", "pop", "done"}]
        /\ product \in [Threads -> Products \cup {NULL}]
        /\ que \in Seq(Products) /\ que # << >> /\ received \in [Consumers -> Seq(Products)]
        /\ c \notin Producers
    BY DEF IndInv, TypeOK, Threads, PopTake, isEmpty
  <1>2. /\ que' = Tail(que) /\ received' = [received EXCEPT ![c] = Append(@, Head(que))]
        /\ product' = [product EXCEPT ![c] = Head(que)]
        /\ pc' = [pc EXCEPT ![c] = "loop"] /\ UNCHANGED cnt
    BY DEF PopTake
  <1>3. \A p \in Producers : /\ pc'[p] = pc[p] /\ product'[p] = product[p]
                             /\ Left'[p] = Left[p]
    BY <1>1, <1>2 DEF Left, Threads
  <1>4. \A s \in Seq(Products) : StoredBefore(s) =>
            \A i \in 1..Len(s) : s[i][2] > Left'[s[i][1]]
    <2> SUFFICES ASSUME NEW s \in Seq(Products), StoredBefore(s), NEW i \in 1..Len(s)
                 PROVE  s[i][2] > Left'[s[i][1]]
      OBVIOUS
    <2>1. s[i][1] \in Producers
      <3>1. s[i] \in Products
        OBVIOUS
      <3> QED
        BY <3>1, OneIn
    <2> QED
      BY <1>3, <2>1 DEF StoredBefore
  <1>5. /\ que' \in Seq(Products) /\ Len(que') + 1 = Len(que) /\ Len(que') \in Nat
        /\ Head(que) = que[1] /\ Head(que) \in Products
        /\ \A i \in 1..Len(que') : que'[i] = que[i + 1]
    BY <1>1, <1>2, TailOrder
  <1>6. Falling(que')
    BY <1>1, <1>2, FallingTail DEF OrderInv
  <1>7. StoredBefore(que)'
    <2>1. \A i \in 1..Len(que') : i + 1 \in 1..Len(que)
      BY <1>5
    <2> QED
      BY <1>1, <1>4, <1>5, <2>1 DEF OrderInv, StoredBefore
  <1>8. ASSUME NEW d \in Consumers
        PROVE  Falling(received'[d]) /\ StoredBefore(received[d])' /\ Above(received'[d], que')
    <2>1. CASE d = c
      <3>1. received'[d] = Append(received[c], Head(que)) /\ received[c] \in Seq(Products)
        BY <1>1, <1>2, <2>1
      <3>2. Falling(received'[d]) /\ Above(received'[d], que')
        BY <1>1, <1>2, <3>1, PopKeepsAbove DEF OrderInv
      <3>3. /\ Len(received'[d]) = Len(received[c]) + 1 /\ Len(received[c]) \in Nat
            /\ \A i \in 1..(Len(received[c]) + 1) :
                 received'[d][i] = IF i <= Len(received[c]) THEN received[c][i] ELSE Head(que)
        BY <1>5, <3>1, AppendedOrder
      <3>4. StoredBefore(received[d])'
        <4> SUFFICES ASSUME NEW i \in 1..(Len(received[c]) + 1)
                     PROVE  received'[d][i][2] > Left'[received'[d][i][1]]
          BY <3>3 DEF StoredBefore
        <4>1. CASE i \in 1..Len(received[c])
          <5>1. received'[d][i] = received[c][i]
            BY <3>3, <4>1
          <5>2. StoredBefore(received[c])
            BY DEF OrderInv
          <5>3. \A j \in 1..Len(received[c]) : received[c][j][2] > Left'[received[c][j][1]]
            BY <1>4, <3>1, <5>2
          <5> QED
            BY <4>1, <5>1, <5>3
        <4>2. CASE i = Len(received[c]) + 1
          <5>1. received'[d][i] = que[1] /\ 1 \in 1..Len(que)
            BY <1>5, <3>3, <4>2
          <5> QED
            BY <1>1, <1>4, <5>1 DEF OrderInv
        <4> QED
          BY <3>3, <4>1, <4>2
      <3> QED
        BY <3>2, <3>4
    <2>2. CASE d # c
      <3>1. received'[d] = received[d] /\ received[d] \in Seq(Products)
        BY <1>1, <1>2, <2>2
      <3>2. Above(received'[d], que')
        <4> SUFFICES ASSUME NEW i \in 1..Len(received[d]), NEW j \in 1..Len(que'),
                            received[d][i][1] = que'[j][1]
                     PROVE  received[d][i][2] > que'[j][2]
          BY <3>1 DEF Above
        <4>1. j + 1 \in 1..Len(que) /\ que'[j] = que[j + 1]
          BY <1>5
        <4>2. Above(received[d], que)
          BY DEF OrderInv
        <4> QED
          BY <4>1, <4>2 DEF Above
      <3>3. StoredBefore(received[d])'
        BY <1>4, <3>1 DEF OrderInv, StoredBefore
      <3> QED
        BY <3>1, <3>2, <3>3 DEF OrderInv
    <2> QED
      BY <2>1, <2>2
  <1> QED
    BY <1>2, <1>3, <1>6, <1>7, <1>8 DEF OrderInv

LEMMA NextKeepsOrder == IndInv /\ OrderInv /\ [Next]_vars => OrderInv'
  <1> SUFFICES ASSUME IndInv, OrderInv, [Next]_vars PROVE OrderInv'
    OBVIOUS
  <1> USE ThreadsAssumption
  <1>0. /\ pc \in [Threads -> {"unborn", "loop", "push", "pop", "done"}]
        /\ cnt \in [Threads -> 0..Loops] /\ product \in [Threads -> Products \cup {NULL}]
        /\ Producers \subseteq Threads
        /\ \A p \in Producers : pc[p] = "push" => product[p] = <<p, cnt[p] + 1>>
    BY DEF IndInv, TypeOK, Threads, OrderInv
  <1>1. ASSUME NEW t \in Threads,
               \/ StartThread(t) \/ LeaveLoop(t)
               \/ PushWait(t) \/ PopWait(t) \/ SpuriousWakeup(t)
               \/ t \in Consumers /\ Consume(t)
        PROVE  OrderInv'
    <2>1. UNCHANGED <<que, received>>
      BY <1>1 DEF StartThread, LeaveLoop, PushWait, PopWait, SpuriousWakeup, Consume
    <2>2. \A p \in Producers :
            cnt'[p] = cnt[p] /\ product'[p] = product[p] /\ (pc'[p] = "push" <=> pc[p] = "push")
      BY <1>0, <1>1
      DEF StartThread, LeaveLoop, PushWait, PopWait, SpuriousWakeup, Consume
    <2>3. \A p \in Producers : /\ Left'[p] = Left[p]
                               /\ pc'[p] = "push" => product'[p] = <<p, cnt'[p] + 1>>
      BY <1>0, <2>2 DEF Left
    <2> QED
      BY <2>1, <2>3, OrderUntouched
  <1>2. ASSUME NEW G, NEW f, NEW g, JoinThreads(G, f, g) PROVE OrderInv'
    <2>1. UNCHANGED <<que, received, pc, cnt, product>>
      BY <1>2 DEF JoinThreads
    <2> QED
      BY <1>0, <2>1, OrderUntouched DEF Left
  <1>3. ASSUME NEW p \in Producers, Produce(p) PROVE OrderInv'
    <2>1. UNCHANGED <<que, received>>
      BY <1>3 DEF Produce
    <2>2. cnt[p] \in Nat /\ cnt[p] - 1 + 1 = cnt[p] /\ pc[p] = "loop"
      BY <1>0, <1>3, LoopsAssumption DEF Produce
    <2>3. /\ cnt' = [cnt EXCEPT ![p] = @ - 1]
          /\ product' = [product EXCEPT ![p] = <<p, cnt[p]>>]
          /\ pc' = [pc EXCEPT ![p] = "push"]
      BY <1>3 DEF Produce
    <2>4. ASSUME NEW q \in Producers
          PROVE  /\ Left'[q] = Left[q]
                 /\ pc'[q] = "push" => product'[q] = <<q, cnt'[q] + 1>>
      <3>1. CASE q = p
        <4>1. cnt'[q] = cnt[p] - 1 /\ pc'[q] = "push" /\ product'[q] = <<p, cnt[p]>>
          BY <1>0, <2>3, <3>1
        <4> QED
          BY <2>2, <3>1, <4>1 DEF Left
      <3>2. CASE q # p
        <4>1. cnt'[q] = cnt[q] /\ pc'[q] = pc[q] /\ product'[q] = product[q]
          BY <1>0, <2>3, <3>2
        <4> QED
          BY <1>0, <4>1 DEF Left
      <3> QED
        BY <3>1, <3>2
    <2> QED
      BY <2>1, <2>4, OrderUntouched
  <1>4. CASE UNCHANGED vars
    BY <1>0, <1>4, OrderUntouched DEF vars, Left
  <1> QED
    BY <1>1, <1>2, <1>3, <1>4, StoreKeepsOrder, TakeKeepsOrder
    DEF Next, MainStep, ProducerStep, ConsumerStep, Threads

LEMMA InitOrderInv == Init => OrderInv
  <1> SUFFICES ASSUME Init PROVE OrderInv
    OBVIOUS
  <1>1. Len(<< >>) = 0
    OBVIOUS
  <1>2. que = << >> /\ \A c \in Consumers : received[c] = << >>
    BY DEF Init
  <1>3. \A p \in Producers : pc[p] # "push"
    BY DEF Init, Threads
  <1> QED
    BY <1>1, <1>2, <1>3 DEF OrderInv, Falling, StoredBefore, Above

LEMMA OrderInvKeepsOrder == OrderInv => OrderKept
  BY DEF OrderInv, OrderKept, Falling

-----------------------------------------------------------------------------
(* The eventfd: what was signalled is in the counter or has been served. *)
EventfdInv == E!TypeOK /\ E!NoWakeupForgotten

LEMMA EventfdInit == E!Init => EventfdInv
  BY ProgramsAssumption DEF E!Init, EventfdInv, E!TypeOK, E!NoWakeupForgotten

LEMMA EventfdNext == EventfdInv /\ E!Next => EventfdInv'
  <1> SUFFICES ASSUME EventfdInv, E!Next PROVE EventfdInv'
    OBVIOUS
  <1>1. isStarted' \in BOOLEAN
    BY Zenon
    DEF EventfdInv, E!TypeOK, E!Next, E!Start, E!Wakeup, E!Stop, E!Join, E!SubStep,
        E!Begin, E!Test, E!PollTimeout, E!PollReady, E!HandleRead
  <1> DEFINE Numbers == /\ counter \in 0..MaxWakeups /\ sent \in 0..MaxWakeups
                        /\ served \in 0..MaxWakeups /\ sent = served + counter
                        /\ sub = "read" => counter > 0
             Places == /\ sub \in {"unborn", "begin", "test", "poll", "read", "done"}
                       /\ mainThread \in {"new", "started", "join", "ended"}
  <1>2. Numbers /\ Places
    BY DEF EventfdInv, E!TypeOK, E!NoWakeupForgotten
  <1>3. Places'
    BY <1>2
    DEF E!Next, E!Start, E!Wakeup, E!Stop, E!Join, E!SubStep, E!Begin, E!Test,
        E!PollTimeout, E!PollReady, E!HandleRead
  <1>4. Numbers'
    <2>1. CASE E!Wakeup
      BY <1>2, <2>1, ProgramsAssumption DEF E!Wakeup
    <2>2. CASE E!HandleRead
      BY <1>2, <2>2, ProgramsAssumption DEF E!HandleRead
    <2>3. CASE ~(E!Wakeup \/ E!HandleRead)
      BY <1>2, <2>3
      DEF E!Next, E!Start, E!Stop, E!Join, E!SubStep, E!Begin, E!Test, E!PollTimeout,
          E!PollReady
    <2> QED
      BY <2>1, <2>2, <2>3
  <1> QED
    BY <1>1, <1>3, <1>4 DEF EventfdInv, E!TypeOK, E!NoWakeupForgotten

(* The timer: nothing expires before the sub-thread arms the timer, and the
   count in the timerfd never exceeds what no callback has begun after. *)
TimerCounts ==
    /\ expired \in 0..MaxExpiries /\ ticks \in 0..MaxExpiries
    /\ tServed \in 0..MaxExpiries
    /\ tSub \in {"unborn", "arm", "begin", "test", "poll", "read", "done"}
    /\ tMain \in {"new", "started", "disarm", "join", "ended"}
    /\ tServed + expired <= ticks
    /\ T!ReadBlocksOnlyDisarmed /\ T!NoExpiryForgotten
    /\ tMain = "new" => tSub = "unborn"
    /\ tSub \in {"unborn", "arm"} => ticks = 0

TimerInv ==
    /\ tStarted \in BOOLEAN /\ armed \in BOOLEAN
    /\ tSub \in {"unborn", "arm"} => armed = FALSE
    /\ TimerCounts

LEMMA TimerInit == T!Init => TimerInv
  <1> SUFFICES ASSUME T!Init PROVE TimerInv
    OBVIOUS
  <1>1. tStarted \in BOOLEAN /\ armed \in BOOLEAN /\ armed = FALSE
    BY Zenon DEF T!Init
  <1>2. TimerCounts
    BY ProgramsAssumption
    DEF T!Init, TimerCounts, T!ReadBlocksOnlyDisarmed, T!NoExpiryForgotten
  <1> QED
    BY <1>1, <1>2 DEF TimerInv

LEMMA TimerNext == TimerInv /\ T!Next => TimerInv'
  <1> SUFFICES ASSUME TimerInv, T!Next PROVE TimerInv'
    OBVIOUS
  <1>1. tStarted' \in BOOLEAN
    BY Zenon
    DEF TimerInv, T!Next, T!Expire, T!Start, T!StopIdle, T!Stop, T!MainStep, T!Disarm,
        T!Join, T!SubStep, T!Arm, T!Begin, T!Test, T!PollTimeout, T!PollReady,
        T!HandleRead
  <1>2. /\ armed' \in BOOLEAN
        /\ tSub' \in {"unborn", "arm"} => armed' = FALSE
    <2>1. \/ armed' = TRUE /\ tSub' = "begin"
          \/ armed' = FALSE
          \/ armed' = armed /\ (tSub' = tSub \/ (tMain = "new" /\ tSub' = "arm")
                               \/ tSub' \in {"test", "poll", "read", "done"})
      BY DEF T!Next, T!Expire, T!Start, T!StopIdle, T!Stop, T!MainStep, T!Disarm, T!Join,
             T!SubStep, T!Arm, T!Begin, T!Test, T!PollTimeout, T!PollReady, T!HandleRead,
             T!SetTimerFd
    <2>2. armed \in BOOLEAN /\ (tSub \in {"unborn", "arm"} => armed = FALSE)
          /\ (tMain = "new" => tSub = "unborn")
      BY DEF TimerInv, TimerCounts
    <2> QED
      BY <2>1, <2>2
  <1>3. TimerCounts'
    <2>0. TimerCounts /\ (tSub \in {"unborn", "arm"} => ~armed)
      BY DEF TimerInv
    <2> USE ProgramsAssumption
        DEF TimerCounts, T!ReadBlocksOnlyDisarmed, T!NoExpiryForgotten, T!history
    <2>1. CASE T!Expire
      BY <2>0, <2>1 DEF T!Expire
    <2>2. CASE T!Start
      BY <2>0, <2>2 DEF T!Start
    <2>3. CASE T!StopIdle \/ T!Stop \/ T!Join
      BY <2>0, <2>3 DEF T!StopIdle, T!Stop, T!Join
    <2>4. CASE T!Disarm
      BY <2>0, <2>4 DEF T!Disarm, T!SetTimerFd
    <2>5. CASE T!Arm
      BY <2>0, <2>5 DEF T!Arm, T!SetTimerFd
    <2>6. CASE T!Begin \/ T!Test \/ T!PollTimeout \/ T!PollReady
      BY <2>0, <2>6 DEF T!Begin, T!Test, T!PollTimeout, T!PollReady
    <2>7. CASE T!HandleRead
      BY <2>0, <2>7 DEF T!HandleRead
    <2> QED
      BY <2>1, <2>2, <2>3, <2>4, <2>5, <2>6, <2>7 DEF T!Next, T!SubStep, T!MainStep
  <1> QED
    BY <1>1, <1>2, <1>3 DEF TimerInv

LEMMA TimerClaims ==
    TimerInv => T!TypeOK /\ T!ReadBlocksOnlyDisarmed /\ T!NoExpiryForgotten
  BY DEF TimerInv, TimerCounts, T!TypeOK

-----------------------------------------------------------------------------
(***************************************************************************)
(* Pipes.  The programs with a pipe for each direction, and pipe1, take    *)
(* turns: the child is as far as the parent, or one call ahead after a     *)
(* write to pipe 1, or one behind after a write to pipe 2.                 *)
(***************************************************************************)
c_at == calls["child"]
p_at == calls["parent"]

TurnsTaken == {P!pipe1, P!pipe3, P!kehou4}
AllEnds == P!PipeNames \X {"r", "w"}

TurnsInv ==
    /\ \/ c_at = p_at
       \/ c_at = p_at + 1 /\ p_at \in {0, 2, 4}
       \/ p_at = c_at + 1 /\ c_at \in {1, 3, 5}
    /\ pipe[1] = IF c_at = p_at + 1 THEN <<"child">> ELSE << >>
    /\ pipe[2] = IF p_at = c_at + 1 THEN <<"parent">> ELSE << >>

(* pipe2, if its sleeps are long enough: the child writes first, and reads *)
(* after the parent has written.                                           *)
SleepsInv ==
    /\ p_at >= 1 => c_at >= 1
    /\ c_at >= 2 => p_at >= 2
    /\ pipe[1] = IF c_at >= 1 /\ p_at = 0 THEN <<"child">>
                 ELSE IF p_at >= 2 /\ c_at <= 2 THEN <<"parent">> ELSE << >>

(* test03: what a process still needs it has open.                         *)
ClosesInv ==
    /\ {<<1, "w">>, <<2, "r">>} \subseteq ends["child"]
    /\ {<<1, "r">>, <<2, "w">>} \subseteq ends["parent"]
    /\ p_at >= 2 => c_at >= 2
    /\ c_at = 4 => p_at = 4
    /\ pipe[1] = IF c_at >= 2 /\ p_at <= 1 THEN <<"child">> ELSE << >>
    /\ pipe[2] = IF p_at = 4 /\ c_at <= 3 THEN <<"parent">> ELSE << >>

(* The length of a program. *)
CallsOf(prog) == IF prog = P!pipe1 THEN 1 ELSE IF prog = P!pipe3 THEN 2 ELSE IF prog = P!kehou4 THEN 6
                 ELSE IF prog = P!pipe2 THEN 3 ELSE 4

PipesInv ==
    /\ piping \in P!Programs /\ timely \in BOOLEAN /\ killed = {}
    /\ calls \in [P!Procs -> 0 .. CallsOf(piping)]
    /\ pipe \in [P!PipeNames -> Seq(P!Procs)]
    /\ (piping = P!pipe2 => timely) => \A p \in P!Procs : heard[p] \in Seq({<<P!Other(p)>>})
    /\ DOMAIN heard = P!Procs
    /\ piping # P!test03 => ends = [p \in P!Procs |-> AllEnds]
    /\ piping \in TurnsTaken => TurnsInv
    /\ piping = P!pipe2 /\ timely => SleepsInv
    /\ piping = P!test03 => ClosesInv /\ ends \in [P!Procs -> SUBSET AllEnds]

LEMMA PipeLengths ==
    \A p \in P!Procs : /\ Len(P!pipe1[p]) = 1 /\ Len(P!pipe2[p]) = 3 /\ Len(P!pipe3[p]) = 2
                       /\ Len(P!kehou4[p]) = 6 /\ Len(P!test03[p]) = 4
  BY DEF P!Procs, P!pipe1, P!pipe2, P!pipe3, P!kehou4, P!test03

LEMMA PipesDiffer ==
    /\ P!pipe1 \notin {P!pipe2, P!pipe3, P!kehou4, P!test03} /\ P!pipe2 \notin {P!pipe3, P!kehou4, P!test03}
    /\ P!pipe3 \notin {P!kehou4, P!test03} /\ P!kehou4 # P!test03
  <1>1. "child" \in P!Procs
    BY DEF P!Procs
  <1>2. /\ Len(P!pipe1["child"]) = 1 /\ Len(P!pipe2["child"]) = 3 /\ Len(P!pipe3["child"]) = 2
        /\ Len(P!kehou4["child"]) = 6 /\ Len(P!test03["child"]) = 4
    BY <1>1, PipeLengths
  <1> QED
    BY <1>2

LEMMA PipeCalls ==
    \A prog \in P!Programs : CallsOf(prog) \in 0 .. 6 /\ \A p \in P!Procs : Len(prog[p]) = CallsOf(prog)
  <1>1. /\ CallsOf(P!pipe1) = 1 /\ CallsOf(P!pipe2) = 3 /\ CallsOf(P!pipe3) = 2
        /\ CallsOf(P!kehou4) = 6 /\ CallsOf(P!test03) = 4
    BY PipesDiffer DEF CallsOf
  <1>2. \A prog \in P!Programs : prog \in {P!pipe1, P!pipe2, P!pipe3, P!kehou4, P!test03}
    BY DEF P!Programs
  <1>3. \A prog \in P!Programs : CallsOf(prog) \in 0 .. 6
    BY DEF CallsOf
  <1> QED
    BY <1>1, <1>2, <1>3, PipeLengths

LEMMA TurnsScript ==
    ASSUME NEW prog \in TurnsTaken, NEW i \in 0 .. (CallsOf(prog) - 1)
    PROVE  /\ prog["child"][i + 1] = IF i \in {0, 2, 4} THEN P!W(1) ELSE P!R(2)
           /\ prog["parent"][i + 1] = IF i \in {0, 2, 4} THEN P!R(1) ELSE P!W(2)
           /\ i \in {0, 2, 4} \/ i \in {1, 3, 5}
  <1>1. CASE prog = P!pipe1
    BY <1>1 DEF CallsOf, P!pipe1
  <1>2. CASE prog = P!pipe3
    <2>1. i \in {0, 1}
      BY <1>2, PipesDiffer DEF CallsOf
    <2> QED
      BY <1>2, <2>1 DEF P!pipe3
  <1>3. CASE prog = P!kehou4
    <2>1. i \in {0, 1, 2, 3, 4, 5}
      BY <1>3, PipesDiffer DEF CallsOf
    <2> QED
      BY <1>3, <2>1 DEF P!kehou4
  <1> QED
    BY <1>1, <1>2, <1>3 DEF TurnsTaken

LEMMA SleepsScript ==
    /\ P!pipe2["child"][1] = P!W(1) /\ P!pipe2["child"][2] = P!Sleep /\ P!pipe2["child"][3] = P!R(1)
    /\ P!pipe2["parent"][1] = P!R(1) /\ P!pipe2["parent"][2] = P!W(1) /\ P!pipe2["parent"][3] = P!Sleep
  BY DEF P!pipe2

LEMMA ClosesScript ==
    /\ P!test03["child"][1] = P!X(1, "r") /\ P!test03["child"][2] = P!W(1)
    /\ P!test03["child"][3] = P!X(2, "w") /\ P!test03["child"][4] = P!R(2)
    /\ P!test03["parent"][1] = P!X(1, "w") /\ P!test03["parent"][2] = P!R(1)
    /\ P!test03["parent"][3] = P!X(2, "r") /\ P!test03["parent"][4] = P!W(2)
  BY DEF P!test03

(* What each call of a process does. *)
LEMMA CallIs ==
    ASSUME PipesInv, NEW p \in P!Procs, P!Step(p)
    PROVE  /\ calls[p] \in 0 .. (CallsOf(piping) - 1) /\ ~ P!Done(p)
           /\ P!Call(p) = piping[p][calls[p] + 1]
           /\ P!Call(p).op = "write" => P!Write(p)
           /\ P!Call(p).op = "read" => P!Read(p)
           /\ P!Call(p).op = "close" => P!Close(p)
           /\ P!Call(p).op = "sleep" => P!Awaken(p)
  <1>1. ~ P!Done(p) /\ calls[p] # Len(piping[p])
    BY DEF P!Step, P!Write, P!Read, P!Close, P!Awaken, P!At, P!Done
  <1>2. calls[p] \in 0 .. CallsOf(piping) /\ Len(piping[p]) = CallsOf(piping) /\ CallsOf(piping) \in 0 .. 6
    BY PipeCalls DEF PipesInv
  <1>3. calls[p] \in 0 .. (CallsOf(piping) - 1)
    BY <1>1, <1>2
  <1>4. /\ P!Write(p) => P!Call(p).op = "write"
        /\ P!Read(p) => P!Call(p).op = "read"
        /\ P!Close(p) => P!Call(p).op = "close"
        /\ P!Awaken(p) => P!Call(p).op = "sleep"
    BY DEF P!Write, P!Read, P!Close, P!Awaken, P!At
  <1>5. P!Write(p) \/ P!Read(p) \/ P!Close(p) \/ P!Awaken(p)
    BY DEF P!Step
  <1>6. P!Call(p) = piping[p][calls[p] + 1]
    BY DEF P!Call
  <1> QED
    BY <1>1, <1>3, <1>4, <1>5, <1>6

LEMMA Fields ==
    /\ \A f : P!W(f).op = "write" /\ P!W(f).pipe = f
    /\ \A f : P!R(f).op = "read" /\ P!R(f).pipe = f
    /\ \A f, e : P!X(f, e).op = "close" /\ P!X(f, e).pipe = f /\ P!X(f, e).end = e
    /\ P!Sleep.op = "sleep"
  BY DEF P!W, P!R, P!X, P!Sleep

(* A process that makes calls holds what it has not closed. *)
LEMMA Holding ==
    ASSUME NEW p \in P!Procs, ~ P!Done(p), NEW f, NEW e, <<f, e>> \in ends[p]
    PROVE  P!Holders(f, e) # {}
  BY DEF P!Holders

LEMMA WriteGoes ==
    ASSUME PipesInv, NEW p \in P!Procs, P!Write(p), NEW f \in P!PipeNames, P!Call(p).pipe = f, P!Holders(f, "r") # {}
    PROVE  /\ pipe' = [pipe EXCEPT ![f] = Append(@, p)] /\ calls' = [calls EXCEPT ![p] = @ + 1]
           /\ UNCHANGED <<piping, timely, ends, heard, killed>>
  BY DEF P!Write

LEMMA ReadGoes ==
    ASSUME PipesInv, NEW p \in P!Procs, P!Read(p), NEW f \in P!PipeNames, P!Call(p).pipe = f, P!Holders(f, "w") # {}
    PROVE  /\ pipe[f] # << >>
           /\ heard' = [heard EXCEPT ![p] = Append(@, pipe[f])]
           /\ pipe' = [pipe EXCEPT ![f] = << >>] /\ calls' = [calls EXCEPT ![p] = @ + 1]
           /\ UNCHANGED <<piping, timely, ends, killed>>
  BY DEF P!Read, P!Readable

(* What all the programs have in common stays. *)
LEMMA PipesKeep ==
    ASSUME PipesInv, NEW p \in P!Procs, calls[p] \in 0 .. (CallsOf(piping) - 1),
           calls' = [calls EXCEPT ![p] = @ + 1], UNCHANGED <<piping, timely, killed>>,
           \/ pipe' = pipe /\ heard' = heard
           \/ \E f \in P!PipeNames : pipe' = [pipe EXCEPT ![f] = Append(@, p)] /\ heard' = heard
           \/ \E f \in P!PipeNames :
                 /\ pipe' = [pipe EXCEPT ![f] = << >>]
                 /\ heard' = [heard EXCEPT ![p] = Append(@, pipe[f])]
                 /\ (piping = P!pipe2 => timely) => pipe[f] = <<P!Other(p)>>
    PROVE  /\ piping' \in P!Programs /\ timely' \in BOOLEAN /\ killed' = {}
           /\ calls' \in [P!Procs -> 0 .. CallsOf(piping')]
           /\ calls'[p] = calls[p] + 1 /\ \A q \in P!Procs : q # p => calls'[q] = calls[q]
           /\ pipe' \in [P!PipeNames -> Seq(P!Procs)]
           /\ (piping' = P!pipe2 => timely') => \A q \in P!Procs : heard'[q] \in Seq({<<P!Other(q)>>})
           /\ DOMAIN heard' = P!Procs
  <1>1. calls' \in [P!Procs -> 0 .. CallsOf(piping)] /\ calls'[p] = calls[p] + 1
        /\ \A q \in P!Procs : q # p => calls'[q] = calls[q]
    <2>1. CallsOf(piping) \in 0 .. 6
      BY PipeCalls DEF PipesInv
    <2> QED
      BY <2>1 DEF PipesInv
  <1>2. pipe' \in [P!PipeNames -> Seq(P!Procs)]
    <2>1. pipe \in [P!PipeNames -> Seq(P!Procs)]
      BY DEF PipesInv
    <2>2. ASSUME NEW f \in P!PipeNames
          PROVE  /\ [pipe EXCEPT ![f] = Append(@, p)] \in [P!PipeNames -> Seq(P!Procs)]
                 /\ [pipe EXCEPT ![f] = << >>] \in [P!PipeNames -> Seq(P!Procs)]
      <3>1. Append(pipe[f], p) \in Seq(P!Procs) /\ << >> \in Seq(P!Procs)
        BY <2>1
      <3> QED
        BY <2>1, <3>1
    <2> QED
      BY <2>1, <2>2
  <1>3. DOMAIN heard' = P!Procs
    BY DEF PipesInv
  <1>4. ASSUME piping = P!pipe2 => timely PROVE \A q \in P!Procs : heard'[q] \in Seq({<<P!Other(q)>>})
    <2>1. \A q \in P!Procs : heard[q] \in Seq({<<P!Other(q)>>})
      BY <1>4 DEF PipesInv
    <2>2. CASE heard' = heard
      BY <2>1, <2>2
    <2>3. ASSUME NEW f \in P!PipeNames, heard' = [heard EXCEPT ![p] = Append(@, pipe[f])], pipe[f] = <<P!Other(p)>>
          PROVE  \A q \in P!Procs : heard'[q] \in Seq({<<P!Other(q)>>})
      <3>1. heard'[p] = Append(heard[p], <<P!Other(p)>>) /\ \A q \in P!Procs : q # p => heard'[q] = heard[q]
        BY <2>3 DEF PipesInv
      <3>2. Append(heard[p], <<P!Other(p)>>) \in Seq({<<P!Other(p)>>})
        BY <2>1
      <3> QED
        BY <2>1, <3>1, <3>2
    <2> QED
      BY <1>4, <2>2, <2>3
  <1> QED
    BY <1>1, <1>2, <1>3, <1>4 DEF PipesInv

LEMMA TurnsStep ==
    ASSUME PipesInv, piping \in TurnsTaken, NEW p \in P!Procs, P!Step(p)
    PROVE  PipesInv'
  <1>1. /\ TurnsInv /\ piping # P!test03 /\ piping # P!pipe2 /\ ends = [q \in P!Procs |-> AllEnds]
        /\ c_at \in 0 .. CallsOf(piping) /\ p_at \in 0 .. CallsOf(piping) /\ CallsOf(piping) \in 0 .. 6
        /\ pipe \in [P!PipeNames -> Seq(P!Procs)]
    BY PipesDiffer, PipeCalls DEF PipesInv, TurnsTaken, c_at, p_at, P!Procs
  <1>2. \A f \in P!PipeNames : P!Holders(f, "r") # {} /\ P!Holders(f, "w") # {}
    BY <1>1, CallIs, Holding DEF AllEnds
  <1>3. 1 \in P!PipeNames /\ 2 \in P!PipeNames /\ \A f \in P!PipeNames : f = 1 \/ f = 2
    BY DEF P!PipeNames
  <1>4. calls[p] \in 0 .. (CallsOf(piping) - 1) /\ P!Call(p) = piping[p][calls[p] + 1]
    BY CallIs
  <1>5. ASSUME piping' = piping, ends' = ends, TurnsInv',
               /\ piping' \in P!Programs /\ timely' \in BOOLEAN /\ killed' = {}
               /\ calls' \in [P!Procs -> 0 .. CallsOf(piping')]
               /\ pipe' \in [P!PipeNames -> Seq(P!Procs)]
               /\ (piping' = P!pipe2 => timely') => \A q \in P!Procs : heard'[q] \in Seq({<<P!Other(q)>>})
               /\ DOMAIN heard' = P!Procs
        PROVE  PipesInv'
    BY <1>1, <1>5 DEF PipesInv
  <1>6. CASE p = "child"
    <2>1. c_at \in 0 .. (CallsOf(piping) - 1) /\ P!Call(p) = IF c_at \in {0, 2, 4} THEN P!W(1) ELSE P!R(2)
      BY <1>4, <1>6, TurnsScript DEF c_at
    <2>2. CASE c_at \in {0, 2, 4}
      <3>1. P!Write(p) /\ P!Call(p).pipe = 1
        BY <2>1, <2>2, CallIs, Fields
      <3>2. /\ pipe' = [pipe EXCEPT ![1] = Append(@, p)] /\ calls' = [calls EXCEPT ![p] = @ + 1]
            /\ UNCHANGED <<piping, timely, ends, heard, killed>>
        BY <1>2, <1>3, <3>1, WriteGoes
      <3>3. c_at = p_at /\ pipe[1] = << >> /\ pipe[2] = << >>
        BY <1>1, <2>2 DEF TurnsInv
      <3>4. c_at' = c_at + 1 /\ p_at' = p_at
        BY <1>6, <3>2 DEF c_at, p_at, PipesInv, P!Procs
      <3>5. pipe'[1] = <<"child">> /\ pipe'[2] = pipe[2]
        BY <1>1, <1>3, <1>6, <3>2, <3>3
      <3>6. TurnsInv'
        BY <1>1, <2>2, <3>3, <3>4, <3>5 DEF TurnsInv
      <3> QED
        BY <1>3, <1>4, <1>5, <3>2, <3>6, PipesKeep
    <2>3. CASE c_at \notin {0, 2, 4}
      <3>1. P!Read(p) /\ P!Call(p).pipe = 2
        BY <2>1, <2>3, CallIs, Fields
      <3>2. /\ pipe[2] # << >>
            /\ heard' = [heard EXCEPT ![p] = Append(@, pipe[2])]
            /\ pipe' = [pipe EXCEPT ![2] = << >>] /\ calls' = [calls EXCEPT ![p] = @ + 1]
            /\ UNCHANGED <<piping, timely, ends, killed>>
        BY <1>2, <1>3, <3>1, ReadGoes
      <3>3. p_at = c_at + 1 /\ pipe[2] = <<"parent">> /\ pipe[1] = << >>
        BY <1>1, <3>2 DEF TurnsInv
      <3>4. c_at' = c_at + 1 /\ p_at' = p_at
        BY <1>6, <3>2 DEF c_at, p_at, PipesInv, P!Procs
      <3>5. pipe'[2] = << >> /\ pipe'[1] = pipe[1]
        BY <1>1, <1>3, <3>2
      <3>6. TurnsInv'
        BY <1>1, <3>3, <3>4, <3>5 DEF TurnsInv
      <3>7. pipe[2] = <<P!Other(p)>>
        BY <1>6, <3>3 DEF P!Other
      <3> QED
        BY <1>3, <1>4, <1>5, <3>2, <3>6, <3>7, PipesKeep
    <2> QED
      BY <2>2, <2>3
  <1>7. CASE p = "parent"
    <2>1. p_at \in 0 .. (CallsOf(piping) - 1) /\ P!Call(p) = IF p_at \in {0, 2, 4} THEN P!R(1) ELSE P!W(2)
      BY <1>4, <1>7, TurnsScript DEF p_at
    <2>2. CASE p_at \notin {0, 2, 4}
      <3>1. P!Write(p) /\ P!Call(p).pipe = 2
        BY <2>1, <2>2, CallIs, Fields
      <3>2. /\ pipe' = [pipe EXCEPT ![2] = Append(@, p)] /\ calls' = [calls EXCEPT ![p] = @ + 1]
            /\ UNCHANGED <<piping, timely, ends, heard, killed>>
        BY <1>2, <1>3, <3>1, WriteGoes
      <3>3. c_at = p_at /\ pipe[1] = << >> /\ pipe[2] = << >> /\ p_at \in {1, 3, 5}
        BY <1>1, <2>1, <2>2 DEF TurnsInv
      <3>4. p_at' = p_at + 1 /\ c_at' = c_at
        BY <1>7, <3>2 DEF c_at, p_at, PipesInv, P!Procs
      <3>5. pipe'[2] = <<"parent">> /\ pipe'[1] = pipe[1]
        BY <1>1, <1>3, <1>7, <3>2, <3>3
      <3>6. TurnsInv'
        BY <1>1, <2>2, <3>3, <3>4, <3>5 DEF TurnsInv
      <3> QED
        BY <1>3, <1>4, <1>5, <3>2, <3>6, PipesKeep
    <2>3. CASE p_at \in {0, 2, 4}
      <3>1. P!Read(p) /\ P!Call(p).pipe = 1
        BY <2>1, <2>3, CallIs, Fields
      <3>2. /\ pipe[1] # << >>
            /\ heard' = [heard EXCEPT ![p] = Append(@, pipe[1])]
            /\ pipe' = [pipe EXCEPT ![1] = << >>] /\ calls' = [calls EXCEPT ![p] = @ + 1]
            /\ UNCHANGED <<piping, timely, ends, killed>>
        BY <1>2, <1>3, <3>1, ReadGoes
      <3>3. c_at = p_at + 1 /\ pipe[1] = <<"child">> /\ pipe[2] = << >>
        BY <1>1, <3>2 DEF TurnsInv
      <3>4. p_at' = p_at + 1 /\ c_at' = c_at
        BY <1>7, <3>2 DEF c_at, p_at, PipesInv, P!Procs
      <3>5. pipe'[1] = << >> /\ pipe'[2] = pipe[2]
        BY <1>1, <1>3, <3>2
      <3>6. TurnsInv'
        BY <1>1, <3>3, <3>4, <3>5 DEF TurnsInv
      <3>7. pipe[1] = <<P!Other(p)>>
        BY <1>7, <3>3 DEF P!Other
      <3> QED
        BY <1>3, <1>4, <1>5, <3>2, <3>6, <3>7, PipesKeep
    <2> QED
      BY <2>2, <2>3
  <1> QED
    BY <1>6, <1>7 DEF P!Procs

(* pipe2: without the sleeps long enough at least nobody is killed. *)
LEMMA SleepsStep ==
    ASSUME PipesInv, piping = P!pipe2, NEW p \in P!Procs, P!Step(p)
    PROVE  PipesInv'
  <1>1. /\ piping # P!test03 /\ piping \notin TurnsTaken /\ ends = [q \in P!Procs |-> AllEnds]
        /\ CallsOf(piping) = 3 /\ c_at \in 0 .. 3 /\ p_at \in 0 .. 3
        /\ pipe \in [P!PipeNames -> Seq(P!Procs)] /\ (timely => SleepsInv)
    BY PipesDiffer DEF PipesInv, TurnsTaken, c_at, p_at, P!Procs, CallsOf
  <1>2. \A f \in P!PipeNames : P!Holders(f, "r") # {} /\ P!Holders(f, "w") # {}
    BY <1>1, CallIs, Holding DEF AllEnds
  <1>3. 1 \in P!PipeNames
    BY DEF P!PipeNames
  <1>4. calls[p] \in 0 .. 2 /\ P!Call(p) = P!pipe2[p][calls[p] + 1]
    BY <1>1, CallIs
  <1>5. ASSUME piping' = piping, ends' = ends, timely' => SleepsInv',
               /\ piping' \in P!Programs /\ timely' \in BOOLEAN /\ killed' = {}
               /\ calls' \in [P!Procs -> 0 .. CallsOf(piping')]
               /\ pipe' \in [P!PipeNames -> Seq(P!Procs)]
               /\ (piping' = P!pipe2 => timely') => \A q \in P!Procs : heard'[q] \in Seq({<<P!Other(q)>>})
               /\ DOMAIN heard' = P!Procs
        PROVE  PipesInv'
    BY <1>1, <1>5 DEF PipesInv
  <1>6. ASSUME P!Write(p), P!Call(p) = P!W(1), timely =>
               (p = "child" /\ c_at = 0) \/ (p = "parent" /\ p_at = 1)
        PROVE  PipesInv'
    <2>1. /\ pipe' = [pipe EXCEPT ![1] = Append(@, p)] /\ calls' = [calls EXCEPT ![p] = @ + 1]
          /\ UNCHANGED <<piping, timely, ends, heard, killed>>
      <3>1. P!Call(p).pipe = 1 /\ P!Holders(1, "r") # {}
        BY <1>2, <1>3, <1>6, Fields
      <3> QED
        BY <1>3, <1>6, <3>1, WriteGoes
    <2>2. ASSUME timely PROVE SleepsInv'
      <3>1. SleepsInv /\ pipe'[1] = Append(pipe[1], p)
        BY <1>1, <1>3, <2>1, <2>2
      <3>2. CASE p = "child"
        <4>1. c_at = 0 /\ p_at = 0 /\ pipe[1] = << >>
          BY <1>1, <1>6, <2>2, <3>1, <3>2 DEF SleepsInv
        <4>2. c_at' = 1 /\ p_at' = 0 /\ pipe'[1] = <<"child">>
          BY <2>1, <3>1, <3>2, <4>1 DEF c_at, p_at, PipesInv, P!Procs
        <4> QED
          BY <4>2 DEF SleepsInv
      <3>3. CASE p = "parent"
        <4>1. p_at = 1 /\ c_at = 1 /\ pipe[1] = << >>
          BY <1>1, <1>6, <2>2, <3>1, <3>3 DEF SleepsInv
        <4>2. c_at' = 1 /\ p_at' = 2 /\ pipe'[1] = <<"parent">>
          BY <2>1, <3>1, <3>3, <4>1 DEF c_at, p_at, PipesInv, P!Procs
        <4> QED
          BY <4>2 DEF SleepsInv
      <3> QED
        BY <3>2, <3>3 DEF P!Procs
    <2>3. calls[p] \in 0 .. (CallsOf(piping) - 1)
      BY <1>1, <1>4
    <2> QED
      BY <1>3, <1>5, <2>1, <2>2, <2>3, PipesKeep
  <1>7. ASSUME P!Read(p), P!Call(p) = P!R(1), timely =>
               (p = "child" /\ c_at = 2) \/ (p = "parent" /\ p_at = 0)
        PROVE  PipesInv'
    <2>1. /\ pipe[1] # << >>
          /\ heard' = [heard EXCEPT ![p] = Append(@, pipe[1])]
          /\ pipe' = [pipe EXCEPT ![1] = << >>] /\ calls' = [calls EXCEPT ![p] = @ + 1]
          /\ UNCHANGED <<piping, timely, ends, killed>>
      BY <1>2, <1>3, <1>7, Fields, ReadGoes
    <2>2. ASSUME timely PROVE SleepsInv' /\ pipe[1] = <<P!Other(p)>>
      <3>1. SleepsInv /\ pipe'[1] = << >>
        BY <1>1, <1>3, <2>1, <2>2
      <3>2. CASE p = "child"
        <4>1. c_at = 2 /\ p_at >= 2 /\ pipe[1] = <<"parent">>
          BY <1>1, <1>7, <2>2, <3>1, <3>2 DEF SleepsInv
        <4>2. c_at' = 3 /\ p_at' = p_at
          BY <2>1, <3>2, <4>1 DEF c_at, p_at, PipesInv, P!Procs
        <4> QED
          BY <1>1, <3>1, <3>2, <4>1, <4>2 DEF SleepsInv, P!Other
      <3>3. CASE p = "parent"
        <4>1. p_at = 0 /\ c_at >= 1 /\ c_at < 2 /\ pipe[1] = <<"child">>
          BY <1>1, <1>7, <2>1, <2>2, <3>1, <3>3 DEF SleepsInv
        <4>2. c_at' = c_at /\ p_at' = 1
          BY <2>1, <3>3, <4>1 DEF c_at, p_at, PipesInv, P!Procs
        <4> QED
          BY <1>1, <3>1, <3>3, <4>1, <4>2 DEF SleepsInv, P!Other
      <3> QED
        BY <3>2, <3>3 DEF P!Procs
    <2>3. calls[p] \in 0 .. (CallsOf(piping) - 1)
      BY <1>1, <1>4
    <2>4. (piping = P!pipe2 => timely) => pipe[1] = <<P!Other(p)>>
      BY <1>1, <2>2, PipesDiffer DEF PipesInv
    <2> QED
      BY <1>3, <1>5, <2>1, <2>2, <2>3, <2>4, PipesKeep
  <1>8. ASSUME P!Awaken(p), (p = "child" /\ c_at = 1) \/ (p = "parent" /\ p_at = 2)
        PROVE  PipesInv'
    <2>1. /\ calls' = [calls EXCEPT ![p] = @ + 1]
          /\ UNCHANGED <<piping, timely, ends, pipe, heard, killed>>
      BY <1>8 DEF P!Awaken
    <2>2. ASSUME timely PROVE SleepsInv'
      <3>1. SleepsInv
        BY <1>1, <2>2
      <3>2. CASE p = "child"
        <4>1. c_at = 1 /\ p_at \in {0, 1, 2, 3}
          BY <1>1, <1>8, <3>2
        <4>2. p_at # 0
          <5>1. SUFFICES ASSUME p_at = 0 PROVE FALSE
            OBVIOUS
          <5>2. pipe[1] = <<"child">>
            BY <3>1, <4>1, <5>1 DEF SleepsInv
          <5>3. P!Call("parent") = P!R(1) /\ ~ P!Done("parent")
            BY <1>1, <5>1, SleepsScript, PipeLengths DEF P!Call, P!Done, p_at, PipesInv, P!Procs
          <5>4. P!Readable("parent")
            <6>1. P!R(1).op = "read" /\ P!R(1).pipe = 1
              BY Fields
            <6>2. pipe[1] # << >>
              BY <5>2
            <6> QED
              BY <5>3, <6>1, <6>2 DEF P!Readable
          <5>5. ~ P!At("parent", "sleep")
            BY <5>3, Fields DEF P!At
          <5> QED
            BY <1>8, <2>2, <3>2, <5>3, <5>4, <5>5 DEF P!Awaken, P!Other
        <4>3. p_at # 1
          <5>1. SUFFICES ASSUME p_at = 1 PROVE FALSE
            OBVIOUS
          <5>2. P!Call("parent") = P!W(1) /\ ~ P!Done("parent")
            BY <1>1, <5>1, SleepsScript, PipeLengths DEF P!Call, P!Done, p_at, PipesInv, P!Procs
          <5>3. ~ P!At("parent", "sleep") /\ ~ P!At("parent", "read")
            BY <5>2, Fields DEF P!At
          <5> QED
            BY <1>8, <2>2, <3>2, <5>2, <5>3 DEF P!Awaken, P!Other
        <4>4. c_at' = 2 /\ p_at' = p_at /\ pipe'[1] = pipe[1]
          BY <2>1, <3>2, <4>1 DEF c_at, p_at, PipesInv, P!Procs
        <4> QED
          BY <3>1, <4>1, <4>2, <4>3, <4>4 DEF SleepsInv
      <3>3. CASE p = "parent"
        <4>1. p_at = 2
          BY <1>8, <3>3
        <4>2. p_at' = 3 /\ c_at' = c_at /\ pipe'[1] = pipe[1]
          BY <2>1, <3>3, <4>1 DEF c_at, p_at, PipesInv, P!Procs
        <4> QED
          BY <1>1, <3>1, <4>1, <4>2 DEF SleepsInv
      <3> QED
        BY <3>2, <3>3 DEF P!Procs
    <2>3. calls[p] \in 0 .. (CallsOf(piping) - 1)
      BY <1>1, <1>4
    <2> QED
      BY <1>5, <2>1, <2>2, <2>3, PipesKeep
  <1>9. CASE p = "child"
    <2>1. c_at \in {0, 1, 2} /\ P!Call(p) = P!pipe2["child"][c_at + 1]
      BY <1>4, <1>9 DEF c_at
    <2>2. CASE c_at = 0
      <3>1. P!Call(p) = P!W(1)
        BY <2>1, <2>2, SleepsScript
      <3>2. P!Write(p)
        BY <3>1, Fields, CallIs
      <3> QED
        BY <1>6, <1>9, <2>2, <3>1, <3>2
    <2>3. CASE c_at = 1
      <3>1. P!Call(p) = P!Sleep
        BY <2>1, <2>3, SleepsScript
      <3>2. P!Awaken(p)
        BY <3>1, Fields, CallIs
      <3> QED
        BY <1>8, <1>9, <2>3, <3>2
    <2>4. CASE c_at = 2
      <3>1. P!Call(p) = P!R(1)
        BY <2>1, <2>4, SleepsScript
      <3>2. P!Read(p)
        BY <3>1, Fields, CallIs
      <3> QED
        BY <1>7, <1>9, <2>4, <3>1, <3>2
    <2> QED
      BY <2>1, <2>2, <2>3, <2>4
  <1>10. CASE p = "parent"
    <2>1. p_at \in {0, 1, 2} /\ P!Call(p) = P!pipe2["parent"][p_at + 1]
      BY <1>4, <1>10 DEF p_at
    <2>2. CASE p_at = 0
      <3>1. P!Call(p) = P!R(1)
        BY <2>1, <2>2, SleepsScript
      <3>2. P!Read(p)
        BY <3>1, Fields, CallIs
      <3> QED
        BY <1>7, <1>10, <2>2, <3>1, <3>2
    <2>3. CASE p_at = 1
      <3>1. P!Call(p) = P!W(1)
        BY <2>1, <2>3, SleepsScript
      <3>2. P!Write(p)
        BY <3>1, Fields, CallIs
      <3> QED
        BY <1>6, <1>10, <2>3, <3>1, <3>2
    <2>4. CASE p_at = 2
      <3>1. P!Call(p) = P!Sleep
        BY <2>1, <2>4, SleepsScript
      <3>2. P!Awaken(p)
        BY <3>1, Fields, CallIs
      <3> QED
        BY <1>8, <1>10, <2>4, <3>2
    <2> QED
      BY <2>1, <2>2, <2>3, <2>4
  <1> QED
    BY <1>9, <1>10 DEF P!Procs

LEMMA ClosesStep ==
    ASSUME PipesInv, piping = P!test03, NEW p \in P!Procs, P!Step(p)
    PROVE  PipesInv'
  <1>1. /\ piping # P!pipe2 /\ piping \notin TurnsTaken /\ ClosesInv /\ ends \in [P!Procs -> SUBSET AllEnds]
        /\ CallsOf(piping) = 4 /\ c_at \in 0 .. 4 /\ p_at \in 0 .. 4
        /\ pipe \in [P!PipeNames -> Seq(P!Procs)]
    BY PipesDiffer DEF PipesInv, TurnsTaken, c_at, p_at, P!Procs, CallsOf
  <1>2. 1 \in P!PipeNames /\ 2 \in P!PipeNames
    BY DEF P!PipeNames
  <1>3. calls[p] \in 0 .. 3 /\ P!Call(p) = P!test03[p][calls[p] + 1]
    BY <1>1, CallIs
  <1>4. "child" \in P!Procs /\ "parent" \in P!Procs
    BY DEF P!Procs
  <1>5. /\ ~ P!Done("child") <=> c_at # 4
        /\ ~ P!Done("parent") <=> p_at # 4
    BY <1>1, <1>4, PipeLengths DEF P!Done, PipesInv, c_at, p_at
  <1>6. ASSUME piping' = piping, ClosesInv', ends' \in [P!Procs -> SUBSET AllEnds],
               /\ piping' \in P!Programs /\ timely' \in BOOLEAN /\ killed' = {}
               /\ calls' \in [P!Procs -> 0 .. CallsOf(piping')]
               /\ pipe' \in [P!PipeNames -> Seq(P!Procs)]
               /\ (piping' = P!pipe2 => timely') => \A q \in P!Procs : heard'[q] \in Seq({<<P!Other(q)>>})
               /\ DOMAIN heard' = P!Procs
        PROVE  PipesInv'
    BY <1>1, <1>6 DEF PipesInv
  <1>7. calls[p] \in 0 .. (CallsOf(piping) - 1)
    BY <1>1, <1>3
  <1>8. ASSUME NEW f \in {1, 2}, NEW e \in {"r", "w"}, P!Call(p) = P!X(f, e),
               \/ p = "child" /\ ((c_at = 0 /\ f = 1 /\ e = "r") \/ (c_at = 2 /\ f = 2 /\ e = "w"))
               \/ p = "parent" /\ ((p_at = 0 /\ f = 1 /\ e = "w") \/ (p_at = 2 /\ f = 2 /\ e = "r"))
        PROVE  PipesInv'
    <2>1. P!Close(p)
      BY <1>8, Fields, CallIs
    <2>2. /\ ends' = [ends EXCEPT ![p] = @ \ {<<f, e>>}] /\ calls' = [calls EXCEPT ![p] = @ + 1]
          /\ UNCHANGED <<piping, timely, pipe, heard, killed>>
      <3>1. P!Call(p).pipe = f /\ P!Call(p).end = e
        BY <1>8, Fields
      <3> QED
        BY <2>1, <3>1 DEF P!Close
    <2>3. ends' \in [P!Procs -> SUBSET AllEnds]
      BY <1>1, <2>2
    <2>4. CASE p = "child"
      <3>1. c_at' = c_at + 1 /\ p_at' = p_at /\ c_at \in {0, 2}
        BY <1>8, <2>2, <2>4, <1>4 DEF c_at, p_at, PipesInv
      <3>2. ends'["child"] = ends["child"] \ {<<f, e>>} /\ ends'["parent"] = ends["parent"]
        BY <1>1, <1>4, <2>2, <2>4
      <3>3. <<f, e>> \notin {<<1, "w">>, <<2, "r">>}
        BY <1>8, <2>4
      <3> QED
        <4>1. ClosesInv'
          BY <1>1, <2>2, <3>1, <3>2, <3>3 DEF ClosesInv
        <4> QED
          BY <1>6, <1>7, <2>2, <2>3, <4>1, PipesKeep
    <2>5. CASE p = "parent"
      <3>1. p_at' = p_at + 1 /\ c_at' = c_at /\ p_at \in {0, 2}
        BY <1>8, <2>2, <2>5, <1>4 DEF c_at, p_at, PipesInv
      <3>2. ends'["parent"] = ends["parent"] \ {<<f, e>>} /\ ends'["child"] = ends["child"]
        BY <1>1, <1>4, <2>2, <2>5
      <3>3. <<f, e>> \notin {<<1, "r">>, <<2, "w">>}
        BY <1>8, <2>5
      <3> QED
        <4>1. ClosesInv'
          BY <1>1, <2>2, <3>1, <3>2, <3>3 DEF ClosesInv
        <4> QED
          BY <1>6, <1>7, <2>2, <2>3, <4>1, PipesKeep
    <2> QED
      BY <2>4, <2>5 DEF P!Procs
  <1>9. CASE p = "child"
    <2>1. c_at \in {0, 1, 2, 3} /\ P!Call(p) = P!test03["child"][c_at + 1]
      BY <1>3, <1>9 DEF c_at
    <2>2. CASE c_at = 0
      <3>1. P!Call(p) = P!X(1, "r")
        BY <2>1, <2>2, ClosesScript
      <3> QED
        BY <1>8, <1>9, <2>2, <3>1
    <2>3. CASE c_at = 2
      <3>1. P!Call(p) = P!X(2, "w")
        BY <2>1, <2>3, ClosesScript
      <3> QED
        BY <1>8, <1>9, <2>3, <3>1
    <2>4. CASE c_at = 1
      <3>1. P!Call(p) = P!W(1)
        BY <2>1, <2>4, ClosesScript
      <3>2. P!Write(p) /\ P!Call(p).pipe = 1
        BY <3>1, Fields, CallIs
      <3>3. p_at < 2 /\ pipe[1] = << >>
        BY <1>1, <2>4 DEF ClosesInv
      <3>4. P!Holders(1, "r") # {}
        BY <1>1, <1>4, <1>5, <3>3, Holding DEF ClosesInv
      <3>5. /\ pipe' = [pipe EXCEPT ![1] = Append(@, p)] /\ calls' = [calls EXCEPT ![p] = @ + 1]
            /\ UNCHANGED <<piping, timely, ends, heard, killed>>
        BY <1>2, <3>2, <3>4, WriteGoes
      <3>6. c_at' = 2 /\ p_at' = p_at /\ pipe'[1] = <<"child">> /\ pipe'[2] = pipe[2]
        BY <1>1, <1>2, <1>4, <1>9, <2>4, <3>3, <3>5 DEF c_at, p_at, PipesInv
      <3>7. ClosesInv'
        BY <1>1, <2>4, <3>3, <3>5, <3>6 DEF ClosesInv
      <3> QED
        BY <1>1, <1>2, <1>6, <1>7, <3>5, <3>7, PipesKeep
    <2>5. CASE c_at = 3
      <3>1. P!Call(p) = P!R(2)
        BY <2>1, <2>5, ClosesScript
      <3>2. P!Read(p) /\ P!Call(p).pipe = 2
        BY <3>1, Fields, CallIs
      <3>3. p_at = 4 /\ pipe[2] = <<"parent">>
        <4>1. p_at = 4
          <5>1. SUFFICES ASSUME p_at # 4 PROVE FALSE
            OBVIOUS
          <5>2. P!Holders(2, "w") # {} /\ pipe[2] = << >>
            BY <1>1, <1>4, <1>5, <5>1, Holding DEF ClosesInv
          <5> QED
            BY <3>2, <5>2 DEF P!Read, P!Readable
        <4> QED
          BY <1>1, <2>5, <4>1 DEF ClosesInv
      <3>4. /\ heard' = [heard EXCEPT ![p] = Append(@, pipe[2])]
            /\ pipe' = [pipe EXCEPT ![2] = << >>] /\ calls' = [calls EXCEPT ![p] = @ + 1]
            /\ UNCHANGED <<piping, timely, ends, killed>>
        BY <3>2 DEF P!Read
      <3>5. c_at' = 4 /\ p_at' = p_at /\ pipe'[2] = << >> /\ pipe'[1] = pipe[1]
        BY <1>1, <1>2, <1>4, <1>9, <2>5, <3>4 DEF c_at, p_at, PipesInv
      <3>6. ClosesInv' /\ pipe[2] = <<P!Other(p)>>
        BY <1>1, <1>9, <2>5, <3>3, <3>4, <3>5 DEF ClosesInv, P!Other
      <3> QED
        BY <1>1, <1>2, <1>6, <1>7, <3>4, <3>6, PipesKeep
    <2> QED
      BY <2>1, <2>2, <2>3, <2>4, <2>5
  <1>10. CASE p = "parent"
    <2>1. p_at \in {0, 1, 2, 3} /\ P!Call(p) = P!test03["parent"][p_at + 1]
      BY <1>3, <1>10 DEF p_at
    <2>2. CASE p_at = 0
      <3>1. P!Call(p) = P!X(1, "w")
        BY <2>1, <2>2, ClosesScript
      <3> QED
        BY <1>8, <1>10, <2>2, <3>1
    <2>3. CASE p_at = 2
      <3>1. P!Call(p) = P!X(2, "r")
        BY <2>1, <2>3, ClosesScript
      <3> QED
        BY <1>8, <1>10, <2>3, <3>1
    <2>4. CASE p_at = 1
      <3>1. P!Call(p) = P!R(1)
        BY <2>1, <2>4, ClosesScript
      <3>2. P!Read(p) /\ P!Call(p).pipe = 1
        BY <3>1, Fields, CallIs
      <3>3. c_at # 4
        BY <1>1, <2>4 DEF ClosesInv
      <3>4. P!Holders(1, "w") # {}
        BY <1>1, <1>4, <1>5, <3>3, Holding DEF ClosesInv
      <3>5. /\ pipe[1] # << >>
            /\ heard' = [heard EXCEPT ![p] = Append(@, pipe[1])]
            /\ pipe' = [pipe EXCEPT ![1] = << >>] /\ calls' = [calls EXCEPT ![p] = @ + 1]
            /\ UNCHANGED <<piping, timely, ends, killed>>
        BY <1>2, <3>2, <3>4, ReadGoes
      <3>6. c_at >= 2 /\ pipe[1] = <<"child">>
        BY <1>1, <2>4, <3>5 DEF ClosesInv
      <3>7. p_at' = 2 /\ c_at' = c_at /\ pipe'[1] = << >> /\ pipe'[2] = pipe[2]
        BY <1>1, <1>2, <1>4, <1>10, <2>4, <3>5 DEF c_at, p_at, PipesInv
      <3>8. ClosesInv' /\ pipe[1] = <<P!Other(p)>>
        BY <1>1, <1>10, <2>4, <3>3, <3>5, <3>6, <3>7 DEF ClosesInv, P!Other
      <3> QED
        BY <1>1, <1>2, <1>6, <1>7, <3>5, <3>8, PipesKeep
    <2>5. CASE p_at = 3
      <3>1. P!Call(p) = P!W(2)
        BY <2>1, <2>5, ClosesScript
      <3>2. P!Write(p) /\ P!Call(p).pipe = 2
        BY <3>1, Fields, CallIs
      <3>3. c_at < 4 /\ c_at >= 2 /\ pipe[2] = << >>
        BY <1>1, <2>5 DEF ClosesInv
      <3>4. P!Holders(2, "r") # {}
        BY <1>1, <1>4, <1>5, <3>3, Holding DEF ClosesInv
      <3>5. /\ pipe' = [pipe EXCEPT ![2] = Append(@, p)] /\ calls' = [calls EXCEPT ![p] = @ + 1]
            /\ UNCHANGED <<piping, timely, ends, heard, killed>>
        BY <1>2, <3>2, <3>4, WriteGoes
      <3>6. p_at' = 4 /\ c_at' = c_at /\ pipe'[2] = <<"parent">> /\ pipe'[1] = pipe[1]
        BY <1>1, <1>2, <1>4, <1>10, <2>5, <3>3, <3>5 DEF c_at, p_at, PipesInv
      <3>7. ClosesInv'
        BY <1>1, <2>5, <3>3, <3>5, <3>6 DEF ClosesInv
      <3> QED
        BY <1>1, <1>2, <1>6, <1>7, <3>5, <3>7, PipesKeep
    <2> QED
      BY <2>1, <2>2, <2>3, <2>4, <2>5
  <1> QED
    BY <1>9, <1>10 DEF P!Procs

LEMMA PipesInit ==
    ASSUME ProgramsInit
    PROVE  PipesInv
  <1>1. /\ piping \in P!Programs /\ timely \in BOOLEAN /\ calls = [p \in P!Procs |-> 0]
        /\ ends = [p \in P!Procs |-> AllEnds] /\ pipe = [f \in P!PipeNames |-> << >>]
        /\ heard = [p \in P!Procs |-> << >>] /\ killed = {}
    BY DEF ProgramsInit, P!Init, AllEnds
  <1>2. CallsOf(piping) \in 0 .. 6 /\ c_at = 0 /\ p_at = 0
    BY <1>1, PipeCalls DEF c_at, p_at, P!Procs
  <1>3. \A f \in {1, 2} : pipe[f] = << >>
    BY <1>1 DEF P!PipeNames
  <1>4. calls \in [P!Procs -> 0 .. CallsOf(piping)] /\ pipe \in [P!PipeNames -> Seq(P!Procs)]
    BY <1>1, <1>2
  <1>5. TurnsInv /\ SleepsInv /\ ClosesInv
    BY <1>1, <1>2, <1>3 DEF TurnsInv, SleepsInv, ClosesInv, AllEnds, P!Procs, P!PipeNames
  <1> QED
    BY <1>1, <1>4, <1>5 DEF PipesInv

LEMMA PipesNext ==
    ASSUME PipesInv, P!Next
    PROVE  PipesInv'
  BY TurnsStep, SleepsStep, ClosesStep DEF P!Next, PipesInv, P!Programs, TurnsTaken

LEMMA PipesStutter ==
    ASSUME PipesInv, UNCHANGED pipes
    PROVE  PipesInv'
  BY DEF pipes, PipesInv, TurnsInv, SleepsInv, ClosesInv, c_at, p_at

LEMMA PipesShown ==
    ASSUME PipesInv
    PROVE  P!OneAnswerEach
  <1>1. ASSUME piping = P!Trusting => timely, NEW p \in P!Procs, NEW i \in DOMAIN heard[p]
        PROVE  heard[p][i] = <<P!Other(p)>>
    <2>1. heard[p] \in Seq({<<P!Other(p)>>})
      BY <1>1 DEF PipesInv, P!Trusting
    <2> QED
      BY <1>1, <2>1
  <1> QED
    BY <1>1 DEF PipesInv, P!OneAnswerEach

-----------------------------------------------------------------------------
(***************************************************************************)
(* The chat over two FIFOs.  A process has both descriptors open or none,  *)
(* and a.c, which goes on without them, has none only when b.c is over and *)
(* all its lines are read.                                                 *)
(***************************************************************************)
Full == {"r", "w"}

(* a.c after the end of the FIFO. *)
Alone(p) == p = "a" /\ fds[p] = {} /\ fifo[p] = << >> /\ F!Over("b")

OnTheList(p) ==
    /\ todo[p] \in {<<"fifo">>, <<"stdin">>, F!InOrder(p)}
    /\ todo[p] = <<"fifo">> \/ F!StdinReady(p)

ChatTypes ==
    /\ chatPc \in [F!Procs -> {"open1", "open2", "select", "ready", "spin", "done", "killed"}]
    /\ todo \in [F!Procs -> Seq({"fifo", "stdin"})] /\ fds \in [F!Procs -> SUBSET Full]
    /\ fifo \in [F!Procs -> Seq(Int)] /\ lines \in [F!Procs -> Seq(Int)] /\ written \in [F!Procs -> Seq(Int)]
    /\ stdin \in [F!Procs -> Nat] /\ typed \in [F!Procs -> Nat]

Flows(p) == written[F!Other(p)] = lines[p] \o fifo[p]

Side(p) ==
    /\ chatPc[p] = "open1" => chatPc[F!Other(p)] = "open1" /\ fds[p] = {}
    /\ chatPc[p] = "open2" => chatPc[F!Other(p)] = "open2" /\ fds[p] = {IF p = "a" THEN "r" ELSE "w"}
    /\ chatPc[p] = "select" => fds[p] = Full
    /\ chatPc[p] = "ready" => OnTheList(p) /\ (fds[p] = Full \/ (Alone(p) /\ todo[p] = <<"stdin">>))
    /\ chatPc[p] = "spin" => Alone(p)
    /\ F!Over(p) => fds[p] = {}
    /\ chatPc[p] = "done" /\ p \notin eof => fifo[p] = << >> /\ F!Over(F!Other(p))

ChatInv == ChatTypes /\ \A p \in F!Procs : Flows(p) /\ Side(p)

LEMMA Sides ==
    ASSUME NEW p \in F!Procs
    PROVE  /\ F!Other(p) \in F!Procs /\ F!Other(p) # p /\ F!Other(F!Other(p)) = p
           /\ \A q \in F!Procs : q = p \/ q = F!Other(p)
           /\ p = "a" \/ p = "b"
           /\ p = "a" => F!Other(p) = "b"
           /\ p = "b" => F!Other(p) = "a"
  BY DEF F!Procs, F!Other

(* What is still to be handled. *)
LEMMA ListHandled ==
    ASSUME NEW p \in F!Procs, NEW list \in {<<"fifo">>, <<"stdin">>, F!InOrder(p)}
    PROVE  /\ list \in Seq({"fifo", "stdin"}) /\ Tail(list) \in Seq({"fifo", "stdin"})
           /\ Len(list) > 1 <=> list = F!InOrder(p)
           /\ Len(list) > 1 => Tail(list) \in {<<"fifo">>, <<"stdin">>}
           /\ Len(list) > 1 /\ Head(list) = "fifo" => Tail(list) = <<"stdin">>
           /\ Len(list) > 1 /\ Head(list) = "stdin" => Tail(list) = <<"fifo">>
           /\ Len(list) > 1 /\ p = "a" => Head(list) = "fifo"
           /\ Head(list) = "stdin" => list # <<"fifo">>
           /\ Head(list) = "fifo" => list # <<"stdin">>
  <1> DEFINE f == <<"fifo">>
             u == <<"stdin">>
             fu == <<"fifo", "stdin">>
             uf == <<"stdin", "fifo">>
  <1>0. f = <<"fifo">> /\ u = <<"stdin">>
    OBVIOUS
  <1>1. /\ Len(f) = 1 /\ Len(u) = 1 /\ Len(fu) = 2 /\ Len(uf) = 2
        /\ Head(f) = "fifo" /\ Head(u) = "stdin" /\ Head(fu) = "fifo" /\ Head(uf) = "stdin"
    OBVIOUS
  <1>2. Tail(fu) = u
    OBVIOUS
  <1>3. Tail(uf) = f
    OBVIOUS
  <1>4. Tail(f) = << >> /\ Tail(u) = << >>
    OBVIOUS
  <1>5. \A s \in {f, u, fu, uf, << >>} : s \in Seq({"fifo", "stdin"})
    <2>1. f \in Seq({"fifo", "stdin"})
      OBVIOUS
    <2>2. u \in Seq({"fifo", "stdin"})
      OBVIOUS
    <2>3. fu \in Seq({"fifo", "stdin"})
      OBVIOUS
    <2>4. uf \in Seq({"fifo", "stdin"})
      OBVIOUS
    <2>5. << >> \in Seq({"fifo", "stdin"})
      OBVIOUS
    <2> HIDE DEF f, u, fu, uf
    <2> QED
      BY <2>1, <2>2, <2>3, <2>4, <2>5
  <1>6. f # u /\ "fifo" # "stdin"
    BY <1>1
  <1>7. F!InOrder(p) = IF p = "a" THEN fu ELSE uf
    BY DEF F!InOrder
  <1> HIDE DEF f, u, fu, uf
  <1>8. list = f \/ list = u \/ list = F!InOrder(p)
    BY <1>0
  <1>9. CASE list = f
    BY <1>1, <1>4, <1>5, <1>6, <1>7, <1>9, <1>0
  <1>10. CASE list = u
    BY <1>1, <1>4, <1>5, <1>6, <1>7, <1>10, <1>0
  <1>11. CASE list = F!InOrder(p) /\ p = "a"
    BY <1>1, <1>2, <1>5, <1>6, <1>7, <1>11, <1>0
  <1>12. CASE list = F!InOrder(p) /\ p # "a"
    BY <1>1, <1>3, <1>5, <1>6, <1>7, <1>12, <1>0
  <1> QED
    BY <1>8, <1>9, <1>10, <1>11, <1>12

(* The other one is as it was: it does not depend on who is still there.   *)
LEMMA OtherSide ==
    ASSUME ChatInv, NEW p \in F!Procs, NEW q \in F!Procs, q = F!Other(p), chatPc[p] \in {"select", "ready"},
           chatPc'[q] = chatPc[q], todo'[q] = todo[q], fds'[q] = fds[q], stdin'[q] = stdin[q], eof' = eof
    PROVE  Side(q)'
  <1>1. p = F!Other(q) /\ Side(p) /\ Side(q) /\ ~F!Over(p) /\ (q = "a" => p = "b")
    BY Sides DEF ChatInv, F!Over
  <1>2. ~Alone(q)
    BY <1>1 DEF Alone
  <1>3. chatPc[q] \notin {"open1", "open2", "spin"} /\ (chatPc[q] = "done" => q \in eof)
    BY <1>1, <1>2 DEF Side
  <1>4. OnTheList(q)' = OnTheList(q)
    BY DEF OnTheList, F!StdinReady
  <1>5. F!Over(q)' = F!Over(q)
    BY DEF F!Over
  <1> QED
    BY <1>1, <1>2, <1>3, <1>4, <1>5 DEF Side

LEMMA AppendedLines ==
    ASSUME NEW s \in Seq(Int), NEW t \in Seq(Int), NEW x \in Int
    PROVE  /\ Append(s \o t, x) = s \o Append(t, x) /\ s \o t \in Seq(Int) /\ Append(t, x) \in Seq(Int)
           /\ s \o << >> = s /\ << >> \in Seq(Int)
  <1>1. s \o t \in Seq(Int) /\ <<x>> \in Seq(Int) /\ Append(t, x) \in Seq(Int)
        /\ s \o << >> = s /\ << >> \in Seq(Int)
    OBVIOUS
  <1>2. Append(s \o t, x) = (s \o t) \o <<x>> /\ Append(t, x) = t \o <<x>>
    BY <1>1, AppendIsConcat
  <1>3. (s \o t) \o <<x>> = s \o (t \o <<x>>)
    BY <1>1, ConcatAssociative
  <1> QED
    BY <1>1, <1>2, <1>3

(* All lines of one process to the other, when one moves and not its side. *)
LEMMA FlowStands ==
    ASSUME NEW p \in F!Procs, Flows(p), written' = written, lines'[p] = lines[p], fifo'[p] = fifo[p]
    PROVE  Flows(p)'
  BY DEF Flows

LEMMA OpensKept ==
    ASSUME ChatInv, NEW p \in F!Procs, F!Open(p)
    PROVE  ChatInv'
  <1> DEFINE q == F!Other(p)
  <1>1. /\ F!Opening(p) = "r" /\ F!Opening(q) = "w"
        /\ chatPc' = [o \in F!Procs |-> IF chatPc[o] = "open1" THEN "open2" ELSE "select"]
        /\ fds' = [o \in F!Procs |-> fds[o] \cup {F!Opening(o)}]
        /\ UNCHANGED <<todo, stdin, eof, typed, fifo, written, lines>>
    BY DEF F!Open
  <1>2. chatPc[p] \in {"open1", "open2"} /\ chatPc[q] \in {"open1", "open2"}
    BY <1>1 DEF F!Opening
  <1>3. q \in F!Procs /\ q # p /\ F!Other(q) = p /\ \A o \in F!Procs : o = p \/ o = q
    BY Sides
  <1>4. Side(p) /\ Side(q) /\ Flows(p) /\ Flows(q) /\ ChatTypes
    BY <1>3 DEF ChatInv
  <1>5. chatPc[p] = chatPc[q]
    BY <1>2, <1>3, <1>4 DEF Side
  <1> HIDE DEF q
  <1>6. ASSUME NEW o \in F!Procs
        PROVE  /\ F!Opening(o) \in Full
               /\ chatPc[o] = "open1" => F!Opening(o) = (IF o = "a" THEN "r" ELSE "w")
               /\ chatPc[o] = "open2" => F!Opening(o) = (IF o = "a" THEN "w" ELSE "r")
    <2>1. chatPc[o] \in {"open1", "open2"}
      BY <1>2, <1>3
    <2>2. F!a_opens[1] = "r" /\ F!a_opens[2] = "w" /\ F!b_opens[1] = "w" /\ F!b_opens[2] = "r"
      BY DEF F!a_opens, F!b_opens
    <2> QED
      BY <2>1, <2>2 DEF F!Opening, Full
  <1>7. ChatTypes'
    BY <1>1, <1>4, <1>6 DEF ChatTypes
  <1>8. ASSUME NEW o \in F!Procs PROVE Side(o)' /\ Flows(o)'
    <2>1. Flows(o)'
      BY <1>1, <1>3, <1>4 DEF Flows
    <2>2. /\ F!Other(o) \in F!Procs /\ chatPc[F!Other(o)] = chatPc[o] /\ Side(o) /\ chatPc[o] \in {"open1", "open2"}
      BY <1>2, <1>3, <1>4, <1>5, Sides
    <2>3. fds'[o] = fds[o] \cup {F!Opening(o)}
      BY <1>1
    <2>4. CASE chatPc[o] = "open1"
      <3>1. chatPc'[o] = "open2" /\ chatPc'[F!Other(o)] = "open2"
        BY <1>1, <2>2, <2>4
      <3>2. fds'[o] = {IF o = "a" THEN "r" ELSE "w"}
        BY <1>6, <2>2, <2>3, <2>4 DEF Side
      <3> QED
        BY <2>1, <3>1, <3>2 DEF Side, F!Over
    <2>5. CASE chatPc[o] = "open2"
      <3>1. chatPc'[o] = "select"
        BY <1>1, <2>5
      <3>2. fds'[o] = Full
        BY <1>6, <2>2, <2>3, <2>5 DEF Side, Full
      <3> QED
        BY <2>1, <3>1, <3>2 DEF Side, F!Over
    <2> QED
      BY <2>2, <2>4, <2>5
  <1> QED
    BY <1>7, <1>8 DEF ChatInv

(* The users.  More to read, or the end of it, changes what is ready only. *)
LEMMA TypingKept ==
    ASSUME ChatInv, NEW p \in F!Procs, F!TypeLine(p) \/ F!TypeEof(p)
    PROVE  ChatInv'
  <1>1. /\ UNCHANGED <<chatPc, todo, fds, fifo, written, lines>> /\ eof \subseteq eof'
        /\ stdin' \in [F!Procs -> Nat] /\ typed' \in [F!Procs -> Nat] /\ \A o \in F!Procs : stdin'[o] >= stdin[o]
    <2>1. stdin \in [F!Procs -> Nat] /\ typed \in [F!Procs -> Nat]
      BY DEF ChatInv, ChatTypes
    <2>2. CASE F!TypeLine(p)
      BY <2>1, <2>2 DEF F!TypeLine
    <2>3. CASE F!TypeEof(p)
      BY <2>1, <2>3 DEF F!TypeEof
    <2> QED
      BY <2>2, <2>3
  <1>2. ChatTypes'
    BY <1>1 DEF ChatInv, ChatTypes
  <1>3. ASSUME NEW o \in F!Procs PROVE Side(o)' /\ Flows(o)'
    <2>1. Side(o) /\ Flows(o) /\ stdin[o] \in Nat /\ stdin'[o] \in Nat /\ stdin'[o] >= stdin[o]
      BY <1>1 DEF ChatInv, ChatTypes
    <2>2. OnTheList(o) => OnTheList(o)'
      BY <1>1, <2>1 DEF OnTheList, F!StdinReady
    <2>3. Alone(o)' = Alone(o) /\ F!Over(o)' = F!Over(o) /\ F!Over(F!Other(o))' = F!Over(F!Other(o))
      BY <1>1 DEF Alone, F!Over
    <2>4. Flows(o)'
      BY <1>1, <2>1 DEF Flows
    <2> QED
      BY <1>1, <2>1, <2>2, <2>3, <2>4 DEF Side
  <1> QED
    BY <1>2, <1>3 DEF ChatInv

(* A step of p. *)
LEMMA Moved ==
    ASSUME ChatInv, NEW p \in F!Procs, chatPc[p] \in {"select", "ready"}, UNCHANGED <<eof, typed>>,
           NEW to \in {"select", "ready", "spin", "done", "killed"}, chatPc' = [chatPc EXCEPT ![p] = to],
           NEW list \in Seq({"fifo", "stdin"}), todo' = [todo EXCEPT ![p] = list],
           NEW open \in SUBSET Full, fds' = [fds EXCEPT ![p] = open],
           NEW n \in Nat, stdin' = [stdin EXCEPT ![p] = n],
           fifo' \in [F!Procs -> Seq(Int)], lines' \in [F!Procs -> Seq(Int)], written' \in [F!Procs -> Seq(Int)],
           \A o \in F!Procs : Flows(o)',
           Side(p)'
    PROVE  ChatInv'
  <1>1. ChatTypes'
    BY DEF ChatInv, ChatTypes
  <1>2. ASSUME NEW o \in F!Procs, o # p PROVE Side(o)'
    <2>1. o = F!Other(p)
      BY <1>2, Sides
    <2>2. chatPc'[o] = chatPc[o] /\ todo'[o] = todo[o] /\ fds'[o] = fds[o] /\ stdin'[o] = stdin[o] /\ eof' = eof
      BY <1>2 DEF ChatInv, ChatTypes
    <2> QED
      BY <2>1, <2>2, OtherSide
  <1> QED
    BY <1>1, <1>2 DEF ChatInv

LEMMA MovedQuietly ==
    ASSUME ChatInv, NEW p \in F!Procs, chatPc[p] \in {"select", "ready"},
           UNCHANGED <<stdin, eof, typed, fifo, written, lines>>,
           NEW to \in {"select", "ready", "spin", "done", "killed"}, chatPc' = [chatPc EXCEPT ![p] = to],
           NEW list \in Seq({"fifo", "stdin"}), todo' = [todo EXCEPT ![p] = list],
           NEW open \in SUBSET Full, fds' = [fds EXCEPT ![p] = open],
           Side(p)'
    PROVE  ChatInv'
  <1>1. ASSUME NEW o \in F!Procs PROVE Flows(o)'
    BY DEF ChatInv, Flows
  <1>2. /\ stdin[p] \in Nat /\ stdin' = [stdin EXCEPT ![p] = stdin[p]]
        /\ fifo' \in [F!Procs -> Seq(Int)] /\ lines' \in [F!Procs -> Seq(Int)] /\ written' \in [F!Procs -> Seq(Int)]
    BY DEF ChatInv, ChatTypes
  <1> QED
    BY <1>1, <1>2, Moved

LEMMA SelectKept ==
    ASSUME ChatInv, NEW p \in F!Procs, F!Select(p)
    PROVE  ChatInv'
  <1>1. PICK list \in {<<"fifo">>, <<"stdin">>, F!InOrder(p)} :
            /\ list = <<"fifo">> \/ F!StdinReady(p)
            /\ todo' = [todo EXCEPT ![p] = list]
    BY DEF F!Select
  <1>2. /\ chatPc[p] = "select" /\ chatPc' = [chatPc EXCEPT ![p] = "ready"]
        /\ UNCHANGED <<fds, stdin, eof, typed, fifo, written, lines>>
    BY DEF F!Select
  <1>3. fds[p] = Full /\ fds' = [fds EXCEPT ![p] = Full] /\ ChatTypes
    BY <1>2 DEF ChatInv, Side, ChatTypes
  <1>4. chatPc'[p] = "ready" /\ todo'[p] = list /\ fds'[p] = Full /\ list \in Seq({"fifo", "stdin"})
    BY <1>1, <1>2, <1>3, ListHandled DEF ChatTypes
  <1>5. OnTheList(p)'
    BY <1>1, <1>2, <1>4 DEF OnTheList, F!StdinReady
  <1>6. Side(p)'
    BY <1>4, <1>5 DEF Side, F!Over
  <1> QED
    BY <1>1, <1>2, <1>3, <1>4, <1>6, MovedQuietly

(* What it means to face a descriptor. *)
LEMMA FacesIt ==
    ASSUME ChatInv, NEW p \in F!Procs, NEW what \in {"fifo", "stdin"}, F!Facing(p, what)
    PROVE  /\ chatPc[p] = "ready" /\ ChatTypes /\ todo[p] \in {<<"fifo">>, <<"stdin">>, F!InOrder(p)}
           /\ todo[p] = <<"fifo">> \/ F!StdinReady(p)
           /\ Head(todo[p]) = what
           /\ fds[p] = Full \/ (Alone(p) /\ todo[p] = <<"stdin">> /\ what = "stdin")
           /\ what = "stdin" => F!StdinReady(p) /\ (p = "a" => Len(todo[p]) <= 1)
           /\ Len(todo[p]) \in Nat /\ Tail(todo[p]) \in Seq({"fifo", "stdin"})
           /\ Len(todo[p]) > 1 => Tail(todo[p]) \in {<<"fifo">>, <<"stdin">>} /\ F!StdinReady(p)
           /\ Len(todo[p]) > 1 /\ what = "fifo" => Tail(todo[p]) = <<"stdin">>
           /\ Len(todo[p]) > 1 /\ what = "stdin" => Tail(todo[p]) = <<"fifo">>
  <1>1. /\ chatPc[p] = "ready" /\ ChatTypes /\ Head(todo[p]) = what /\ OnTheList(p)
        /\ fds[p] = Full \/ (Alone(p) /\ todo[p] = <<"stdin">>)
    BY DEF F!Facing, ChatInv, Side
  <1>2. Len(todo[p]) \in Nat
    BY <1>1, LenProperties DEF ChatTypes
  <1> DEFINE list == todo[p]
  <1>3. list \in {<<"fifo">>, <<"stdin">>, F!InOrder(p)} /\ (list = <<"fifo">> \/ F!StdinReady(p))
    BY <1>1 DEF OnTheList
  <1>4. "fifo" # "stdin"
    OBVIOUS
  <1>5. Head(<<"stdin">>) = "stdin" /\ Len(<<"fifo">>) = 1
    OBVIOUS
  <1>6. todo[p] = <<"stdin">> => what = "stdin"
    BY <1>1, <1>5
  <1> HIDE DEF list
  <1>7. /\ Tail(list) \in Seq({"fifo", "stdin"})
        /\ Len(list) > 1 => Tail(list) \in {<<"fifo">>, <<"stdin">>}
        /\ Len(list) > 1 /\ Head(list) = "fifo" => Tail(list) = <<"stdin">>
        /\ Len(list) > 1 /\ Head(list) = "stdin" => Tail(list) = <<"fifo">>
        /\ Len(list) > 1 /\ p = "a" => Head(list) = "fifo"
        /\ Head(list) = "stdin" => list # <<"fifo">>
    BY <1>3, ListHandled
  <1>8. Len(list) > 1 => F!StdinReady(p)
    BY <1>3, <1>5
  <1> QED
    BY <1>1, <1>2, <1>3, <1>4, <1>6, <1>7, <1>8 DEF list

LEMMA HandledOn ==
    ASSUME ChatInv, NEW p \in F!Procs, NEW what \in {"fifo", "stdin"}, F!Facing(p, what),
           NEW open \in BOOLEAN, F!Handled(p, open)
    PROVE  \E to \in {"select", "ready", "spin"} :
              /\ chatPc' = [chatPc EXCEPT ![p] = to] /\ chatPc'[p] = to
              /\ todo' = [todo EXCEPT ![p] = Tail(todo[p])] /\ todo'[p] = Tail(todo[p])
              /\ to = "ready" <=> Len(todo[p]) > 1
              /\ to = "select" => open
              /\ to = "spin" => ~open
  BY FacesIt DEF F!Handled, ChatTypes

(* A turn of the loop with everything open. *)
LEMMA TurnKept ==
    ASSUME ChatInv, NEW p \in F!Procs, NEW what \in {"fifo", "stdin"}, F!Facing(p, what),
           F!Handled(p, TRUE), fds[p] = Full, UNCHANGED <<fds, eof, typed>>,
           NEW n \in Nat, stdin' = [stdin EXCEPT ![p] = n], what = "fifo" => n = stdin[p],
           fifo' \in [F!Procs -> Seq(Int)], lines' \in [F!Procs -> Seq(Int)], written' \in [F!Procs -> Seq(Int)],
           \A o \in F!Procs : Flows(o)'
    PROVE  ChatInv'
  <1>1. PICK to \in {"select", "ready", "spin"} :
            /\ chatPc' = [chatPc EXCEPT ![p] = to] /\ chatPc'[p] = to
            /\ todo' = [todo EXCEPT ![p] = Tail(todo[p])] /\ todo'[p] = Tail(todo[p])
            /\ to = "ready" <=> Len(todo[p]) > 1
            /\ to # "spin"
    BY HandledOn
  <1>2. fds' = [fds EXCEPT ![p] = Full] /\ fds'[p] = Full /\ Full \in SUBSET Full /\ stdin'[p] = n /\ stdin[p] \in Nat
    BY DEF ChatInv, ChatTypes
  <1>3. ASSUME to = "ready" PROVE OnTheList(p)'
    <2>1. CASE what = "fifo"
      <3>1. Tail(todo[p]) = <<"stdin">> /\ F!StdinReady(p) /\ n = stdin[p]
        BY <1>1, <1>3, <2>1, FacesIt
      <3> QED
        BY <1>1, <1>2, <3>1 DEF OnTheList, F!StdinReady
    <2>2. CASE what = "stdin"
      <3>1. Tail(todo[p]) = <<"fifo">>
        BY <1>1, <1>3, <2>2, FacesIt
      <3> QED
        BY <1>1, <3>1 DEF OnTheList
    <2> QED
      BY <2>1, <2>2
  <1>4. Side(p)'
    BY <1>1, <1>2, <1>3 DEF Side, F!Over
  <1>5. chatPc[p] = "ready" /\ Tail(todo[p]) \in Seq({"fifo", "stdin"})
    BY FacesIt
  <1> QED
    BY <1>1, <1>2, <1>4, <1>5, Moved

LEMMA ReadFifoKept ==
    ASSUME ChatInv, NEW p \in F!Procs, F!ReadFifo(p)
    PROVE  ChatInv'
  <1>1. /\ F!Facing(p, "fifo") /\ F!Handled(p, TRUE) /\ UNCHANGED <<fds, stdin, eof, typed, written>>
        /\ lines' = [lines EXCEPT ![p] = lines[p] \o fifo[p]] /\ fifo' = [fifo EXCEPT ![p] = << >>]
    BY DEF F!ReadFifo
  <1>2. fds[p] = Full /\ ChatTypes
    BY <1>1, FacesIt
  <1>3. /\ lines[p] \in Seq(Int) /\ fifo[p] \in Seq(Int) /\ stdin[p] \in Nat /\ stdin' = [stdin EXCEPT ![p] = stdin[p]]
        /\ written' \in [F!Procs -> Seq(Int)]
    BY <1>1, <1>2 DEF ChatTypes
  <1>4. /\ lines[p] \o fifo[p] \in Seq(Int) /\ << >> \in Seq(Int)
        /\ (lines[p] \o fifo[p]) \o << >> = lines[p] \o fifo[p]
    BY <1>3
  <1>5. lines' \in [F!Procs -> Seq(Int)] /\ fifo' \in [F!Procs -> Seq(Int)]
    BY <1>1, <1>2, <1>4 DEF ChatTypes
  <1>6. ASSUME NEW o \in F!Procs PROVE Flows(o)'
    <2>1. CASE o = p
      <3>1. lines'[p] = lines[p] \o fifo[p] /\ fifo'[p] = << >>
        BY <1>1, <1>2 DEF ChatTypes
      <3>2. written'[F!Other(p)] = lines[p] \o fifo[p]
        BY <1>1 DEF ChatInv, Flows
      <3> QED
        BY <1>4, <2>1, <3>1, <3>2 DEF Flows
    <2>2. CASE o # p
      BY <1>1, <1>2, <2>2, FlowStands DEF ChatTypes, ChatInv
    <2> QED
      BY <2>1, <2>2
  <1> QED
    BY <1>1, <1>2, <1>3, <1>5, <1>6, TurnKept

(* The end: everything is closed. *)
LEMMA LeftKept ==
    ASSUME ChatInv, NEW p \in F!Procs, chatPc[p] = "ready", NEW how \in {"done", "killed"}, F!Leave(p, how),
           NEW n \in Nat, stdin' = [stdin EXCEPT ![p] = n], UNCHANGED <<eof, typed, fifo, written, lines>>,
           how = "done" /\ p \notin eof => fifo[p] = << >> /\ F!Over(F!Other(p))
    PROVE  ChatInv'
  <1>1. /\ chatPc' = [chatPc EXCEPT ![p] = how] /\ todo' = [todo EXCEPT ![p] = << >>]
        /\ fds' = [fds EXCEPT ![p] = {}] /\ ChatTypes
    BY DEF F!Leave, ChatInv
  <1>2. chatPc'[p] = how /\ fds'[p] = {} /\ {} \in SUBSET Full /\ << >> \in Seq({"fifo", "stdin"})
    BY <1>1 DEF ChatTypes
  <1>3. chatPc'[F!Other(p)] = chatPc[F!Other(p)]
    BY <1>1, Sides DEF ChatTypes
  <1>4. Side(p)'
    BY <1>2, <1>3 DEF Side, F!Over
  <1>5. ASSUME NEW o \in F!Procs PROVE Flows(o)'
    BY DEF ChatInv, Flows
  <1>6. fifo' \in [F!Procs -> Seq(Int)] /\ lines' \in [F!Procs -> Seq(Int)] /\ written' \in [F!Procs -> Seq(Int)]
    BY <1>1 DEF ChatTypes
  <1> QED
    BY <1>1, <1>2, <1>4, <1>5, <1>6, Moved

(* The other has closed its end of the FIFO: it is over. *)
LEMMA GoneIsOver ==
    ASSUME ChatInv, NEW p \in F!Procs, chatPc[p] = "ready", "w" \notin fds[F!Other(p)]
    PROVE  F!Over(F!Other(p))
  <1> DEFINE q == F!Other(p)
  <1>1. q \in F!Procs /\ Side(q) /\ Side(p) /\ F!Other(q) = p /\ (q = "a" => p = "b") /\ ChatTypes /\ ~F!Over(p)
    BY Sides DEF ChatInv, F!Over
  <1> HIDE DEF q
  <1>2. ~Alone(q)
    BY <1>1 DEF Alone
  <1>3. "w" \notin fds[q]
    BY DEF q
  <1>4. chatPc[q] \notin {"open1", "open2", "select", "ready", "spin"}
    BY <1>1, <1>2, <1>3 DEF Side, Full
  <1>5. chatPc[q] \in {"done", "killed"}
    BY <1>1, <1>4 DEF ChatTypes
  <1> QED
    BY <1>5 DEF F!Over, q

LEMMA FifoEndsKept ==
    ASSUME ChatInv, NEW p \in F!Procs, F!FifoEnds(p)
    PROVE  ChatInv'
  <1>1. F!Facing(p, "fifo") /\ fifo[p] = << >> /\ "w" \notin fds[F!Other(p)]
        /\ UNCHANGED <<stdin, eof, typed, fifo, written, lines>>
    BY DEF F!FifoEnds, F!Ends
  <1>2. chatPc[p] = "ready" /\ ChatTypes
    BY <1>1, FacesIt
  <1>3. F!Over(F!Other(p))
    BY <1>1, <1>2, GoneIsOver
  <1>4. CASE p = "a"
    <2>1. F!Handled(p, FALSE) /\ fds' = [fds EXCEPT ![p] = {}]
      BY <1>4 DEF F!FifoEnds
    <2>2. PICK to \in {"select", "ready", "spin"} :
            /\ chatPc' = [chatPc EXCEPT ![p] = to] /\ chatPc'[p] = to
            /\ todo' = [todo EXCEPT ![p] = Tail(todo[p])] /\ todo'[p] = Tail(todo[p])
            /\ to = "ready" <=> Len(todo[p]) > 1
            /\ to # "select"
      BY <1>1, <2>1, HandledOn
    <2>3. fds'[p] = {} /\ {} \in SUBSET Full /\ fifo'[p] = << >>
      BY <1>1, <1>2, <2>1 DEF ChatTypes
    <2>4. F!Over("b") /\ chatPc'["b"] = chatPc["b"] /\ "b" # p
      BY <1>2, <1>3, <1>4, <2>2, Sides DEF F!Procs, ChatTypes
    <2>5. Alone(p)'
      BY <1>4, <2>3, <2>4 DEF Alone, F!Over
    <2>6. ASSUME to = "ready" PROVE OnTheList(p)' /\ todo'[p] = <<"stdin">>
      <3>1. Tail(todo[p]) = <<"stdin">> /\ F!StdinReady(p)
        BY <1>1, <2>2, <2>6, FacesIt
      <3> QED
        BY <1>1, <2>2, <3>1 DEF OnTheList, F!StdinReady
    <2>7. Side(p)'
      BY <2>2, <2>3, <2>5, <2>6 DEF Side, F!Over
    <2>8. Tail(todo[p]) \in Seq({"fifo", "stdin"})
      BY <1>1, FacesIt
    <2> QED
      BY <1>1, <1>2, <2>1, <2>2, <2>3, <2>7, <2>8, MovedQuietly
  <1>5. CASE p # "a"
    <2>1. F!Leave(p, "done")
      BY <1>5 DEF F!FifoEnds
    <2>2. stdin[p] \in Nat /\ stdin' = [stdin EXCEPT ![p] = stdin[p]]
      BY <1>1, <1>2 DEF ChatTypes
    <2> QED
      BY <1>1, <1>2, <1>3, <2>1, <2>2, LeftKept
  <1> QED
    BY <1>4, <1>5

LEMMA StdinEndsKept ==
    ASSUME ChatInv, NEW p \in F!Procs, F!StdinEnds(p)
    PROVE  ChatInv'
  <1>1. /\ F!Facing(p, "stdin") /\ stdin[p] = 0 /\ F!Leave(p, "done")
        /\ UNCHANGED <<stdin, eof, typed, fifo, written, lines>>
    BY DEF F!StdinEnds
  <1>2. chatPc[p] = "ready" /\ p \in eof /\ ChatTypes
    BY <1>1, FacesIt DEF F!StdinReady
  <1>3. stdin[p] \in Nat /\ stdin' = [stdin EXCEPT ![p] = stdin[p]]
    BY <1>1, <1>2 DEF ChatTypes
  <1> QED
    BY <1>1, <1>2, <1>3, LeftKept

LEMMA PassLineKept ==
    ASSUME ChatInv, NEW p \in F!Procs, F!PassLine(p)
    PROVE  ChatInv'
  <1> DEFINE q == F!Other(p)
             line == typed[p] - stdin[p] + 1
             n == stdin[p] - 1
  <1>1. F!Facing(p, "stdin") /\ stdin[p] > 0 /\ stdin' = [stdin EXCEPT ![p] = stdin[p] - 1]
        /\ UNCHANGED <<eof, typed, lines>>
    BY DEF F!PassLine
  <1>2. chatPc[p] = "ready" /\ ChatTypes /\ q \in F!Procs /\ q # p /\ F!Other(q) = p
        /\ \A o \in F!Procs : o = p \/ o = q
    BY <1>1, FacesIt, Sides
  <1>3. n \in Nat /\ line \in Int
    <2>1. stdin[p] \in Nat /\ typed[p] \in Nat /\ stdin[p] > 0
      BY <1>1, <1>2 DEF ChatTypes
    <2> QED
      BY <2>1
  <1>4. stdin' = [stdin EXCEPT ![p] = n]
    BY <1>1
  <1>5. CASE "w" \notin fds[p]
    <2>1. F!Handled(p, FALSE) /\ UNCHANGED <<fds, fifo, written>>
      BY <1>5 DEF F!PassLine
    <2>2. Alone(p) /\ todo[p] = <<"stdin">>
      BY <1>1, <1>5, FacesIt DEF Full
    <2>3. PICK to \in {"select", "ready", "spin"} :
            /\ chatPc' = [chatPc EXCEPT ![p] = to] /\ chatPc'[p] = to
            /\ todo' = [todo EXCEPT ![p] = Tail(todo[p])] /\ todo'[p] = Tail(todo[p])
            /\ to = "ready" <=> Len(todo[p]) > 1
            /\ to # "select"
      BY <1>1, <2>1, HandledOn
    <2>4. to = "spin"
      BY <2>2, <2>3
    <2>5. /\ fds[p] = {} /\ fds' = [fds EXCEPT ![p] = {}] /\ fds'[p] = {} /\ {} \in SUBSET Full
          /\ Tail(todo[p]) \in Seq({"fifo", "stdin"})
      BY <1>1, <1>2, <2>1, <2>2, FacesIt DEF ChatTypes, Alone
    <2>6. Alone(p)'
      <3>1. p = "a" /\ F!Over("b") /\ fifo'[p] = << >> /\ chatPc'["b"] = chatPc["b"]
        BY <1>2, <2>1, <2>2, <2>3, Sides DEF Alone, F!Procs, ChatTypes
      <3> QED
        BY <2>5, <3>1 DEF Alone, F!Over
    <2>7. Side(p)'
      BY <2>3, <2>4, <2>6 DEF Side, F!Over
    <2>8. ASSUME NEW o \in F!Procs PROVE Flows(o)'
      BY <1>1, <2>1 DEF ChatInv, Flows
    <2>9. fifo' \in [F!Procs -> Seq(Int)] /\ lines' \in [F!Procs -> Seq(Int)] /\ written' \in [F!Procs -> Seq(Int)]
      BY <1>1, <1>2, <2>1 DEF ChatTypes
    <2> HIDE DEF n
    <2> QED
      BY <1>1, <1>2, <1>3, <1>4, <2>3, <2>5, <2>7, <2>8, <2>9, Moved
  <1>6. CASE "w" \in fds[p] /\ "r" \notin fds[q]
    <2>1. F!Leave(p, "killed") /\ UNCHANGED <<fifo, written>>
      BY <1>6 DEF F!PassLine
    <2> HIDE DEF n
    <2> QED
      BY <1>1, <1>2, <1>3, <1>4, <2>1, LeftKept
  <1>7. CASE "w" \in fds[p] /\ "r" \in fds[q]
    <2>1. /\ fifo' = [fifo EXCEPT ![q] = Append(fifo[q], line)]
          /\ written' = [written EXCEPT ![p] = Append(written[p], line)]
          /\ F!Handled(p, TRUE) /\ UNCHANGED fds
      BY <1>7 DEF F!PassLine
    <2>2. fds[p] = Full
      BY <1>1, <1>7, FacesIt DEF Alone
    <2>3. fifo[q] \in Seq(Int) /\ lines[q] \in Seq(Int) /\ written[p] = lines[q] \o fifo[q]
      BY <1>2 DEF ChatTypes, ChatInv, Flows
    <2> HIDE DEF q, line, n
    <2>4. /\ Append(lines[q] \o fifo[q], line) = lines[q] \o Append(fifo[q], line)
          /\ Append(fifo[q], line) \in Seq(Int) /\ lines[q] \o fifo[q] \in Seq(Int)
      <3>1. PICK s, t, x : s = lines[q] /\ t = fifo[q] /\ x = line
        OBVIOUS
      <3>2. s \in Seq(Int) /\ t \in Seq(Int) /\ x \in Int
        BY <1>3, <2>3, <3>1, Zenon
      <3>3. Append(s \o t, x) = s \o Append(t, x) /\ Append(t, x) \in Seq(Int) /\ s \o t \in Seq(Int)
        BY <3>2, AppendedLines
      <3> QED
        BY <3>1, <3>3, Zenon
    <2>5. Append(written[p], line) \in Seq(Int)
      BY <1>3, <2>3, <2>4
    <2>6. fifo' \in [F!Procs -> Seq(Int)] /\ lines' \in [F!Procs -> Seq(Int)] /\ written' \in [F!Procs -> Seq(Int)]
      BY <1>1, <1>2, <2>1, <2>4, <2>5 DEF ChatTypes
    <2>7. /\ fifo'[q] = Append(fifo[q], line) /\ written'[p] = Append(written[p], line) /\ lines' = lines
          /\ fifo'[p] = fifo[p] /\ written'[q] = written[q]
      BY <1>1, <1>2, <2>1 DEF ChatTypes
    <2>8. ASSUME NEW o \in F!Procs PROVE Flows(o)'
      <3>1. CASE o = p
        <4>1. written[q] = lines[p] \o fifo[p]
          BY DEF ChatInv, Flows, q
        <4> QED
          BY <2>7, <3>1, <4>1 DEF Flows, q
      <3>2. CASE o = q
        BY <1>2, <2>3, <2>4, <2>7, <3>2 DEF Flows
      <3> QED
        BY <1>2, <3>1, <3>2
    <2> QED
      BY <1>1, <1>3, <1>4, <2>1, <2>2, <2>6, <2>8, TurnKept
  <1> QED
    BY <1>5, <1>6, <1>7

LEMMA ChatInit ==
    ASSUME ProgramsInit
    PROVE  ChatInv
  <1>1. F!Init
    BY DEF ProgramsInit
  <1>2. << >> \in Seq(Int) /\ << >> \in Seq({"fifo", "stdin"}) /\ << >> \o << >> = << >> /\ {} \in SUBSET Full
    BY EmptySeq, ConcatEmptySeq
  <1>3. ChatTypes
    BY <1>1, <1>2 DEF F!Init, ChatTypes
  <1>4. ASSUME NEW p \in F!Procs PROVE Flows(p) /\ Side(p)
    BY <1>1, <1>2, Sides DEF F!Init, Flows, Side, F!Over
  <1> QED
    BY <1>3, <1>4 DEF ChatInv

LEMMA ChatNext ==
    ASSUME ChatInv, F!Next
    PROVE  ChatInv'
  <1>1. ASSUME NEW p \in F!Procs, F!Step(p) PROVE ChatInv'
    BY <1>1, SelectKept, ReadFifoKept, FifoEndsKept, PassLineKept, StdinEndsKept DEF F!Step
  <1>2. "a" \in F!Procs /\ "b" \in F!Procs
    BY DEF F!Procs
  <1> QED
    BY <1>1, <1>2, OpensKept, TypingKept DEF F!Next, F!Opens, F!a_loop, F!b_loop

LEMMA ChatStutter ==
    ASSUME ChatInv, UNCHANGED fifoChat
    PROVE  ChatInv'
  BY DEF fifoChat, ChatInv, ChatTypes, Flows, Side, OnTheList, Alone, F!StdinReady, F!Over

LEMMA ChatShown ==
    ASSUME ChatInv
    PROVE  F!LinesConserved
  <1>1. ASSUME NEW p \in F!Procs, Alone(p) PROVE fifo[p] = << >> /\ F!Over(F!Other(p))
    BY <1>1, Sides DEF Alone
  <1> QED
    BY <1>1 DEF ChatInv, Flows, Side, F!LinesConserved

-----------------------------------------------------------------------------
(***************************************************************************)
(* Sums.                                                                   *)
(***************************************************************************)
LEMMA Least ==
    ASSUME NEW B, B \subseteq Nat, B # {}
    PROVE  \E least \in B : \A k \in B : least <= k
  <1>1. PICK least \in B : \A k \in B : ~ (<<k, least>> \in OpToRel(<, Nat))
    BY NatLessThanWellFounded, WFMin, Zenon
  <1>2. \A k \in B : ~(k < least)
    BY <1>1 DEF OpToRel
  <1> QED
    BY <1>2

(* f[n] is the sum of the first n numbers. *)
Sums(s, f, K1) ==
    /\ f = [n \in 0 .. K1 |-> f[n]]
    /\ f[0] = 0
    /\ \A n \in 1 .. K1 : f[n] = f[n - 1] + s[n]

(* The integers, the naturals, ... *)
Additive(Kind) == Kind \subseteq Int /\ 0 \in Kind /\ \A a \in Kind, b \in Kind : a + b \in Kind

LEMMA SumsExist ==
    ASSUME NEW Kind, Additive(Kind), NEW s \in Seq(Kind), NEW K1 \in 0 .. Len(s)
    PROVE  \E f \in [0 .. K1 -> Kind] : Sums(s, f, K1)
  <1> DEFINE None == {k \in 0 .. Len(s) : ~ \E f \in [0 .. k -> Kind] : Sums(s, f, k)}
  <1> SUFFICES ASSUME None # {} PROVE FALSE
    OBVIOUS
  <1>0. Len(s) \in Nat
    OBVIOUS
  <1>1. PICK k \in None : \A j \in None : k <= j
    <2>1. None \subseteq Nat
      BY <1>0
    <2> HIDE DEF None
    <2> QED
      BY <2>1, Least
  <1>2. k # 0
    <2>1. [i \in 0 .. 0 |-> 0] \in [0 .. 0 -> Kind]
      BY DEF Additive
    <2>2. Sums(s, [i \in 0 .. 0 |-> 0], 0)
      BY DEF Sums
    <2> QED
      BY <2>1, <2>2
  <1>3. k - 1 \in 0 .. Len(s) /\ k - 1 \notin None /\ k \in 1 .. Len(s) /\ k \in Nat
    <2>1. k \in 0 .. Len(s) /\ k - 1 < k
      BY <1>0
    <2>2. k - 1 \in 0 .. Len(s) /\ k \in 1 .. Len(s) /\ k \in Nat
      BY <1>0, <1>2, <2>1
    <2> HIDE DEF None
    <2> QED
      BY <1>1, <2>1, <2>2
  <1>4. PICK f \in [0 .. (k - 1) -> Kind] : Sums(s, f, k - 1)
    BY <1>3
  <1>5. s[k] \in Kind /\ f[k - 1] \in Kind /\ f[k - 1] + s[k] \in Kind
    <2>1. k - 1 \in 0 .. (k - 1)
      BY <1>3
    <2>2. s[k] \in Kind /\ f[k - 1] \in Kind
      BY <1>3, <2>1, ElementOfSeq
    <2> QED
      BY <2>2 DEF Additive
  <1> DEFINE more == [i \in 0 .. k |-> IF i < k THEN f[i] ELSE f[k - 1] + s[k]]
  <1>6. more \in [0 .. k -> Kind]
    <2>1. \A i \in 0 .. k : i < k => i \in 0 .. (k - 1)
      BY <1>3
    <2> QED
      BY <1>3, <1>5, <2>1
  <1>7. Sums(s, more, k)
    <2>1. more = [i \in 0 .. k |-> more[i]] /\ more[0] = f[0]
      BY <1>3
    <2>2. ASSUME NEW i \in 1 .. k
          PROVE  more[i] = more[i - 1] + s[i]
      <3>1. i - 1 \in 0 .. k /\ more[i - 1] = f[i - 1]
        BY <1>3
      <3>2. CASE i = k
        BY <1>3, <3>1, <3>2
      <3>3. CASE i < k
        <4>1. i \in 1 .. (k - 1) /\ more[i] = f[i]
          BY <1>3, <3>3
        <4> HIDE DEF more
        <4> QED
          BY <1>4, <3>1, <4>1 DEF Sums
      <3> QED
        BY <1>3, <3>2, <3>3
    <2> HIDE DEF more
    <2> QED
      BY <1>4, <2>1, <2>2 DEF Sums
  <1> QED
    BY <1>3, <1>6, <1>7

Alike(s, r, Dom) == \A i \in Dom : s[i] = r[i]

LEMMA SumsUnique ==
    ASSUME NEW K1 \in Nat, NEW s, NEW r, Alike(s, r, 1 .. K1), NEW M \in Nat, K1 <= M,
           NEW f, NEW g, Sums(s, f, K1), Sums(r, g, M)
    PROVE  Alike(f, g, 0 .. K1)
  <1> DEFINE Bad == {i \in 0 .. K1 : f[i] # g[i]}
  <1> SUFFICES ASSUME Bad # {} PROVE FALSE
    BY DEF Alike
  <1>1. PICK k \in Bad : \A j \in Bad : k <= j
    <2>1. Bad \subseteq Nat
      OBVIOUS
    <2> HIDE DEF Bad
    <2> QED
      BY <2>1, Least
  <1>2. k \in 0 .. K1 /\ f[k] # g[k] /\ k # 0
    BY DEF Sums
  <1>3. k \in 1 .. K1 /\ k \in 1 .. M /\ k - 1 \in 0 .. K1 /\ ~(k <= k - 1)
    BY <1>2
  <1>4. f[k - 1] = g[k - 1]
    BY <1>1, <1>3
  <1>5. f[k] = f[k - 1] + s[k] /\ g[k] = g[k - 1] + r[k]
    BY <1>3 DEF Sums
  <1>6. s[k] = r[k]
    BY <1>3 DEF Alike
  <1> HIDE DEF Bad
  <1> QED
    BY <1>2, <1>3, <1>4, <1>5, <1>6

LEMMA SumIs ==
    ASSUME NEW Kind, Additive(Kind), NEW s \in Seq(Kind)
    PROVE  \E f \in [0 .. Len(s) -> Kind] : Sums(s, f, Len(s)) /\ N!Sum(s) = f[Len(s)]
  <1> DEFINE Step(f) == [n \in 0 .. Len(s) |-> IF n = 0 THEN 0 ELSE f[n - 1] + s[n]]
             all == CHOOSE f : f = Step(f)
  <1>0. Len(s) \in Nat /\ Len(s) \in 0 .. Len(s)
    OBVIOUS
  <1>1. N!Sum(s) = all[Len(s)]
    BY DEF N!Sum
  <1>2. PICK f \in [0 .. Len(s) -> Kind] : Sums(s, f, Len(s))
    BY <1>0, SumsExist
  <1>3. f = Step(f)
    <2>1. ASSUME NEW n \in 0 .. Len(s) PROVE f[n] = IF n = 0 THEN 0 ELSE f[n - 1] + s[n]
      <3>1. n = 0 \/ n \in 1 .. Len(s)
        BY <1>0
      <3> QED
        BY <1>0, <1>2, <3>1 DEF Sums
    <2> QED
      BY <2>1
  <1>4. all = Step(all)
    BY <1>3
  <1>5. Sums(s, all, Len(s))
    <2> HIDE DEF all
    <2>1. all[0] = 0 /\ all = [n \in 0 .. Len(s) |-> all[n]]
      BY <1>0, <1>4
    <2>2. ASSUME NEW n \in 1 .. Len(s)
          PROVE  all[n] = all[n - 1] + s[n]
      <3>1. n \in 0 .. Len(s) /\ n # 0
        BY <1>0
      <3>2. all[n] = Step(all)[n]
        BY <1>4, Zenon
      <3> QED
        BY <3>1, <3>2
    <2> QED
      BY <2>1, <2>2 DEF Sums
  <1>6. \A n \in 0 .. Len(s) : all[n] = f[n]
    <2> DEFINE M == Len(s)
    <2> HIDE DEF all
    <2>1. M \in Nat /\ M <= M /\ Sums(s, all, M) /\ Sums(s, f, M) /\ Alike(s, s, 1 .. M)
      BY <1>0, <1>2, <1>5 DEF Alike
    <2> HIDE DEF M
    <2>2. Alike(all, f, 0 .. M)
      BY <2>1, SumsUnique
    <2> QED
      BY <2>2 DEF M, Alike
  <1> HIDE DEF all, Step
  <1> QED
    BY <1>0, <1>1, <1>2, <1>6

LEMMA SumIn ==
    ASSUME NEW Kind, Additive(Kind), NEW s \in Seq(Kind)
    PROVE  N!Sum(s) \in Kind
  BY SumIs, LenProperties

(* What adds up like the sums is the sum. *)
LEMMA SumForm ==
    ASSUME NEW s \in Seq(Int), NEW f \in [0 .. Len(s) -> Int], f[0] = 0,
           \A n \in 1 .. Len(s) : f[n] = f[n - 1] + s[n]
    PROVE  N!Sum(s) = f[Len(s)]
  <1> DEFINE M == Len(s)
  <1>1. PICK g \in [0 .. M -> Int] : Sums(s, g, M) /\ N!Sum(s) = g[M]
    BY SumIs DEF Additive
  <1>2. M \in Nat /\ M <= M /\ Sums(s, f, M) /\ Sums(s, g, M) /\ Alike(s, s, 1 .. M) /\ M \in 0 .. M
    <2>1. M \in Nat /\ Alike(s, s, 1 .. M)
      BY DEF Alike
    <2>2. M <= M /\ M \in 0 .. M
      BY <2>1
    <2>3. Sums(s, f, M)
      BY DEF Sums
    <2> QED
      BY <1>1, <2>1, <2>2, <2>3
  <1> HIDE DEF M
  <1>3. Alike(f, g, 0 .. M)
    BY <1>2, SumsUnique
  <1> QED
    BY <1>1, <1>2, <1>3 DEF Alike, M

LEMMA SumEmpty == N!Sum(<< >>) = 0
  <1>1. << >> \in Seq({0}) /\ Additive({0})
    BY DEF Additive
  <1>2. N!Sum(<< >>) \in {0}
    BY <1>1, SumIn
  <1> QED
    BY <1>2

LEMMA Additives ==
    /\ Additive(Int) /\ Additive(Nat) /\ Additive({i \in Int : i <= 0}) /\ Additive({0})
  BY DEF Additive

(* The first k numbers and the rest. *)
LEMMA SumSplit ==
    ASSUME NEW s \in Seq(Int), NEW k \in 0 .. Len(s)
    PROVE  /\ SubSeq(s, 1, k) \in Seq(Int) /\ SubSeq(s, k + 1, Len(s)) \in Seq(Int)
           /\ N!Sum(SubSeq(s, 1, k)) + N!Sum(SubSeq(s, k + 1, Len(s))) = N!Sum(s)
  <1> DEFINE L == Len(s)
             first == SubSeq(s, 1, k)
             rest  == SubSeq(s, k + 1, L)
  <1>1. /\ L \in Nat /\ k \in Nat /\ k <= L
        /\ first \in Seq(Int) /\ Len(first) = k /\ \A i \in 1 .. k : first[i] = s[i]
    OBVIOUS
  <1>2. rest \in Seq(Int) /\ Len(rest) = L - k /\ \A i \in 1 .. (L - k) : rest[i] = s[k + i]
    OBVIOUS
  <1>3. PICK f \in [0 .. L -> Int] : Sums(s, f, L) /\ N!Sum(s) = f[L]
    BY SumIs, Additives
  <1> HIDE DEF first, rest, L
  <1> DEFINE G == [n \in 0 .. k |-> f[n]]
             R == [n \in 0 .. (L - k) |-> f[k + n] - f[k]]
  <1>4. N!Sum(first) = f[k]
    <2>1. G \in [0 .. Len(first) -> Int] /\ G[0] = 0 /\ G[Len(first)] = f[k]
      BY <1>1, <1>3 DEF Sums
    <2>2. ASSUME NEW n \in 1 .. Len(first) PROVE G[n] = G[n - 1] + first[n]
      <3>1. n \in 1 .. L /\ n \in 0 .. k /\ n - 1 \in 0 .. k /\ n \in 1 .. k
        BY <1>1
      <3> QED
        BY <1>1, <1>3, <3>1 DEF Sums
    <2> HIDE DEF G
    <2> QED
      BY <1>1, <2>1, <2>2, SumForm
  <1>5. N!Sum(rest) = f[L] - f[k]
    <2>1. /\ R \in [0 .. Len(rest) -> Int] /\ R[0] = 0 /\ R[Len(rest)] = f[L] - f[k]
      <3>1. \A n \in 0 .. (L - k) : k + n \in 0 .. L
        BY <1>1
      <3>2. k \in 0 .. L /\ L - k \in Nat /\ k + (L - k) = L /\ k + 0 = k
        BY <1>1
      <3> QED
        BY <1>1, <1>2, <1>3, <3>1, <3>2
    <2>2. ASSUME NEW n \in 1 .. Len(rest) PROVE R[n] = R[n - 1] + rest[n]
      <3>1. /\ k + n \in 1 .. L /\ n \in 0 .. (L - k) /\ n - 1 \in 0 .. (L - k) /\ n \in 1 .. (L - k)
            /\ k + (n - 1) = (k + n) - 1 /\ (k + n) - 1 \in 0 .. L /\ k \in 0 .. L /\ k + n \in 0 .. L
        <4>1. n \in 1 .. (L - k) /\ L - k \in Nat
          BY <1>1, <1>2
        <4>2. k + n \in 1 .. L /\ (k + n) - 1 \in 0 .. L /\ k + n \in 0 .. L /\ k \in 0 .. L
          BY <1>1, <4>1
        <4>3. n \in 0 .. (L - k) /\ n - 1 \in 0 .. (L - k) /\ k + (n - 1) = (k + n) - 1
          BY <1>1, <4>1
        <4> QED
          BY <4>1, <4>2, <4>3
      <3>2. f[k + n] = f[(k + n) - 1] + s[k + n]
        BY <1>3, <3>1 DEF Sums
      <3>3. R[n] = f[k + n] - f[k] /\ R[n - 1] = f[(k + n) - 1] - f[k] /\ rest[n] = s[k + n]
        BY <1>2, <3>1
      <3>4. f[k + n] \in Int /\ f[(k + n) - 1] \in Int /\ f[k] \in Int /\ s[k + n] \in Int
        <4>1. s[k + n] \in Int
          BY <3>1, ElementOfSeq DEF L
        <4> QED
          BY <1>3, <3>1, <4>1
      <3>5. R[n - 1] + rest[n] = (f[(k + n) - 1] - f[k]) + s[k + n]
        BY <3>3, Zenon
      <3>6. (f[(k + n) - 1] - f[k]) + s[k + n] = (f[(k + n) - 1] + s[k + n]) - f[k]
        BY <3>4
      <3> QED
        BY <3>2, <3>3, <3>5, <3>6, Zenon
    <2> HIDE DEF R
    <2> QED
      BY <1>2, <2>1, <2>2, SumForm
  <1>6. f[L] \in Int /\ f[k] \in Int
    BY <1>1, <1>3
  <1> QED
    BY <1>1, <1>2, <1>3, <1>4, <1>5, <1>6 DEF first, rest, L

(* One number changed. *)
LEMMA SumExcept ==
    ASSUME NEW m \in Nat, NEW s \in [1 .. m -> Int], NEW t \in 1 .. m, NEW x \in Int
    PROVE  N!Sum([s EXCEPT ![t] = x]) = N!Sum(s) - s[t] + x
  <1> DEFINE r == [s EXCEPT ![t] = x]
  <1>1. s \in Seq(Int) /\ Len(s) = m /\ r \in Seq(Int) /\ Len(r) = m /\ r[t] = x /\ \A i \in 1 .. m : i # t => r[i] = s[i]
    OBVIOUS
  <1>2. PICK f \in [0 .. m -> Int] : Sums(s, f, m) /\ N!Sum(s) = f[m]
    <2>1. \E f \in [0 .. Len(s) -> Int] : Sums(s, f, Len(s)) /\ N!Sum(s) = f[Len(s)]
      BY <1>1, SumIs, Additives
    <2> QED
      BY <1>1, <2>1
  <1> DEFINE G == [n \in 0 .. m |-> IF n < t THEN f[n] ELSE f[n] - s[t] + x]
  <1>3. G \in [0 .. Len(r) -> Int] /\ G[0] = 0 /\ G[Len(r)] = f[m] - s[t] + x
    <2>1. s[t] \in Int /\ f \in [0 .. m -> Int] /\ f[0] = 0 /\ Len(r) = m
      BY <1>1, <1>2 DEF Sums
    <2> HIDE DEF r
    <2>2. G \in [0 .. m -> Int]
      <3>1. ASSUME NEW n \in 0 .. m PROVE f[n] \in Int /\ f[n] - s[t] + x \in Int
        BY <2>1
      <3> QED
        BY <3>1
    <2>3. G[0] = 0
      BY <2>1
    <2>4. G[m] = f[m] - s[t] + x
      BY <2>1
    <2> QED
      BY <2>1, <2>2, <2>3, <2>4
  <1>4. ASSUME NEW n \in 1 .. Len(r) PROVE G[n] = G[n - 1] + r[n]
    <2>1. n \in 1 .. m /\ n \in 0 .. m /\ n - 1 \in 0 .. m /\ f[n] \in Int /\ f[n - 1] \in Int /\ s[n] \in Int /\ s[t] \in Int
      BY <1>1, <1>2
    <2>2. f[n] = f[n - 1] + s[n]
      BY <1>2, <2>1 DEF Sums
    <2> HIDE DEF r
    <2>3. CASE n < t
      BY <1>1, <2>1, <2>2, <2>3
    <2>4. CASE n = t
      BY <1>1, <2>1, <2>2, <2>4
    <2>5. CASE n > t
      BY <1>1, <2>1, <2>2, <2>5
    <2> QED
      BY <2>1, <2>3, <2>4, <2>5
  <1> HIDE DEF G, r
  <1>5. N!Sum(r) = G[Len(r)]
    BY <1>1, <1>3, <1>4, SumForm
  <1> QED
    BY <1>2, <1>3, <1>5 DEF r

-----------------------------------------------------------------------------
(***************************************************************************)
(* Threads that count.  What has been added and what is left make the sum: *)
(* exactly, under the mutex; without it, no load nor store is ever above   *)
(* what the rising threads have taken so far, or below what the falling    *)
(* ones have.                                                              *)
(***************************************************************************)
LastThread ==
    IF counting \in {N!mutex, N!thread4} THEN NUM_THREAD
    ELSE IF counting \in {N!thread1, N!thread2} THEN 1 ELSE 2

Negative == {i \in Int : i <= 0}

CounterTypes ==
    /\ counting \in N!Programs /\ cMain \in {"create", "wait", "ended"} /\ created \in Nat
    /\ cPc \in [N!Threads -> {"unborn", "begin", "load", "store", "post", "done"}]
    /\ left \in [N!Threads -> Seq(Int)] /\ reg \in [N!Threads -> Int] /\ num \in Int
    /\ holder \in Int /\ sem_one \in Int /\ sem_two \in Int /\ added \in Seq(Int)

ThreadStands(t) ==
    /\ t > created => cPc[t] = "unborn"
    /\ cPc[t] \in {"load", "store"} => counting \in {N!mutex, N!thread3, N!thread4}
    /\ cPc[t] = "post" => counting = N!semaphore
    /\ cPc[t] \in {"store", "post"} => left[t] # << >>
    /\ cPc[t] = "done" /\ counting # N!thread1 => left[t] = << >>
    /\ cMain = "ended" /\ t <= LastThread => cPc[t] = "done"

ThreadsStand ==
    /\ created <= LastThread
    /\ cMain = "create" => created < LastThread
    /\ cMain # "create" => created = LastThread
    /\ \A t \in N!Threads : ThreadStands(t)

Lefts == [t \in N!Threads |-> N!Sum(left[t])]
Total == N!Sum([t \in N!Threads |-> N!Sum(N!Numbers(N!mutex, t))])

Exact ==
    /\ num + N!Sum(Lefts) = Total
    /\ \A t \in N!Threads : /\ cPc[t] \in {"load", "store"} <=> holder = t
                            /\ cPc[t] = "store" => reg[t] = num

Rises(t) == t <= LastThread /\ (counting = N!thread3 \/ t % 2 = 0)
Falls(t) == t <= LastThread /\ ~(counting = N!thread3 \/ t % 2 = 0)
Ups == [t \in N!Threads |-> IF Rises(t) THEN N!Sum(left[t]) ELSE 0]
Downs == [t \in N!Threads |-> IF Falls(t) THEN N!Sum(left[t]) ELSE 0]
AllUps == [t \in N!Threads |-> IF Rises(t) THEN N!Sum(N!Numbers(counting, t)) ELSE 0]
AllDowns == [t \in N!Threads |-> IF Falls(t) THEN N!Sum(N!Numbers(counting, t)) ELSE 0]

(* A value of the variable, or one that is loaded. *)
Between(n) == n + N!Sum(Ups) <= N!Sum(AllUps) /\ n + N!Sum(Downs) >= N!Sum(AllDowns)

Bounded ==
    /\ Between(num)
    /\ \A t \in N!Threads : /\ cPc[t] = "store" => Between(reg[t])
                            /\ Rises(t) => left[t] \in Seq(Nat)
                            /\ Falls(t) => left[t] \in Seq(Negative)

(* Who comes last adds the last number of its range at least. *)
LastNumberIn ==
    /\ num >= 0
    /\ \A t \in {1, 2} : /\ cPc[t] = "store" => reg[t] >= 0
                         /\ left[t] \in Seq(Nat)
                         /\ left[t] # << >> => left[t][Len(left[t])] >= Rounds
    /\ left[1] = << >> /\ left[2] = << >> => num >= Rounds

Handed(t) == Rounds - Len(left[t])
Taken(t) == Handed(t) + (IF cPc[t] = "post" THEN 1 ELSE 0)

HandOver ==
    /\ Len(left[1]) <= Rounds /\ Len(left[2]) <= Rounds
    /\ \A i \in 1 .. Len(left[1]) : left[1][i] = Handed(1) + i
    /\ num = Taken(1)
    /\ Len(added) = Taken(2) /\ \A i \in 1 .. Len(added) : added[i] = i
    /\ sem_one = Handed(1) - Taken(2) /\ sem_two = (Handed(2) + 1) - Taken(1)
    /\ sem_one >= 0 /\ sem_two >= 0

CountersInv ==
    /\ CounterTypes /\ ThreadsStand
    /\ counting = N!mutex => Exact
    /\ counting \in {N!thread3, N!thread4} => Bounded
    /\ counting = N!thread3 => LastNumberIn
    /\ counting = N!semaphore => HandOver

LEMMA CounterFacts ==
    ASSUME counting \in N!Programs
    PROVE  /\ NUM_THREAD \in Nat /\ Rounds \in Nat /\ Rounds >= 1
           /\ N!Threads = 1 .. NUM_THREAD /\ 1 \in N!Threads /\ 2 \in N!Threads
           /\ LastThread \in N!Threads /\ LastThread \in Nat /\ LastThread >= 1 /\ LastThread <= NUM_THREAD
           /\ N!Used = 1 .. LastThread /\ N!Max(N!Used) = LastThread
           /\ counting \in {N!semaphore, N!thread3} => LastThread = 2
           /\ counting \in {N!mutex, N!thread4} => LastThread = NUM_THREAD
           /\ N!Used \subseteq N!Threads /\ \A t \in N!Threads : t \in N!Used <=> t <= LastThread
  <1>1. /\ NUM_THREAD \in Nat /\ Rounds \in Nat /\ Rounds >= 1 /\ NUM_THREAD >= 2
        /\ N!Threads = 1 .. NUM_THREAD
    BY ProgramsAssumption DEF N!CountersAssumption, N!Threads
  <1>2. /\ N!mutex = "mutex" /\ N!semaphore = "semaphore" /\ N!thread1 = "thread1" /\ N!thread2 = "thread2"
        /\ N!thread3 = "thread3" /\ N!thread4 = "thread4"
    BY DEF N!mutex, N!semaphore, N!thread1, N!thread2, N!thread3, N!thread4
  <1>3. /\ LastThread \in {1, 2, NUM_THREAD}
        /\ counting \in {N!semaphore, N!thread3} => LastThread = 2
        /\ counting \in {N!mutex, N!thread4} => LastThread = NUM_THREAD
        /\ counting \in {N!thread1, N!thread2} => LastThread = 1
    BY <1>2 DEF LastThread
  <1>4. LastThread \in Nat /\ LastThread >= 1 /\ LastThread <= NUM_THREAD
    BY <1>1, <1>3
  <1>5. N!Used = 1 .. LastThread
    <2>1. CASE counting \in {N!mutex, N!thread4}
      BY <1>1, <1>3, <2>1 DEF N!Used
    <2>2. CASE counting \in {N!thread1, N!thread2}
      <3>1. LastThread = 1
        BY <1>3, <2>2
      <3>2. N!Used = {1}
        BY <1>2, <2>2, Zenon DEF N!Used
      <3>3. 1 .. 1 = {1}
        OBVIOUS
      <3> QED
        BY <3>1, <3>2, <3>3
    <2>3. CASE counting \in {N!semaphore, N!thread3}
      <3>1. N!Used = {1, 2} /\ LastThread = 2
        BY <1>2, <1>3, <2>3 DEF N!Used
      <3> QED
        BY <3>1
    <2> QED
      BY <2>1, <2>2, <2>3 DEF N!Programs
  <1>6. N!Max(N!Used) = LastThread
    <2>1. LastThread \in N!Used /\ \A y \in N!Used : LastThread >= y
      BY <1>4, <1>5
    <2>2. \A x \in N!Used : (\A y \in N!Used : x >= y) => x = LastThread
      BY <1>4, <1>5, <2>1
    <2> QED
      BY <2>1, <2>2 DEF N!Max
  <1> QED
    BY <1>1, <1>3, <1>4, <1>5, <1>6

LEMMA CountersKnown ==
    ASSUME CountersInv
    PROVE  CounterTypes /\ ThreadsStand /\ counting \in N!Programs /\ created \in Nat
           /\ \A t \in N!Threads : t \in Nat /\ ThreadStands(t)
  <1>1. CounterTypes /\ ThreadsStand /\ counting \in N!Programs /\ created \in Nat
    BY DEF CountersInv, CounterTypes
  <1> QED
    BY <1>1, CounterFacts DEF ThreadsStand

(* Nothing is stored, nothing handed over. *)
LEMMA CountsQuiet ==
    ASSUME CountersInv, CounterTypes', ThreadsStand', UNCHANGED <<counting, left, num>>,
           \A t \in N!Threads : cPc'[t] = "store" => (cPc[t] = "store" /\ reg'[t] = reg[t]) \/ reg'[t] = num,
           counting = N!mutex => \A t \in N!Threads : cPc'[t] \in {"load", "store"} <=> holder' = t,
           counting = N!semaphore =>
              UNCHANGED <<sem_one, sem_two, added>> /\ \A t \in {1, 2} : cPc'[t] = "post" <=> cPc[t] = "post"
    PROVE  CountersInv'
  <1>0. counting \in N!Programs /\ CounterTypes
    BY CountersKnown
  <1>1. ASSUME counting = N!mutex PROVE Exact'
    <2>1. Exact
      BY <1>1 DEF CountersInv
    <2>2. Lefts' = Lefts /\ Total' = Total
      BY DEF Lefts, Total
    <2> QED
      BY <1>1, <2>1, <2>2 DEF Exact
  <1>2. ASSUME counting \in {N!thread3, N!thread4} PROVE Bounded'
    <2>1. Bounded
      BY <1>2 DEF CountersInv
    <2>2. LastThread' = LastThread
      BY DEF LastThread
    <2>3. \A t \in N!Threads : Rises(t)' = Rises(t) /\ Falls(t)' = Falls(t)
      BY <2>2 DEF Rises, Falls
    <2>4. Ups' = Ups /\ Downs' = Downs /\ AllUps' = AllUps /\ AllDowns' = AllDowns
      BY <2>3 DEF Ups, Downs, AllUps, AllDowns
    <2>5. Between(num)' = Between(num)
      BY <2>4 DEF Between
    <2>6. ASSUME NEW t \in N!Threads, cPc'[t] = "store" PROVE Between(reg[t])'
      <3>1. CASE reg'[t] = num
        BY <2>1, <2>4, <3>1 DEF Bounded, Between
      <3>2. CASE cPc[t] = "store" /\ reg'[t] = reg[t]
        BY <2>1, <2>4, <3>2 DEF Bounded, Between
      <3> QED
        BY <2>6, <3>1, <3>2
    <2> QED
      BY <2>1, <2>3, <2>5, <2>6 DEF Bounded
  <1>3. ASSUME counting = N!thread3 PROVE LastNumberIn'
    <2>1. LastNumberIn /\ 1 \in N!Threads /\ 2 \in N!Threads
      BY <1>0, <1>3, CounterFacts DEF CountersInv
    <2> QED
      BY <2>1 DEF LastNumberIn
  <1>4. ASSUME counting = N!semaphore PROVE HandOver'
    <2>1. HandOver /\ UNCHANGED <<sem_one, sem_two, added>>
      BY <1>4 DEF CountersInv
    <2>2. Taken(1)' = Taken(1) /\ Taken(2)' = Taken(2) /\ Handed(1)' = Handed(1) /\ Handed(2)' = Handed(2)
      BY <1>4 DEF Taken, Handed
    <2> QED
      BY <2>1, <2>2 DEF HandOver
  <1> QED
    BY <1>1, <1>2, <1>3, <1>4 DEF CountersInv

LEMMA CreateKept ==
    ASSUME CountersInv, N!Create
    PROVE  CountersInv'
  <1> DEFINE n == created + 1
  <1>1. /\ cMain = "create" /\ created' = n /\ cPc' = [cPc EXCEPT ![n] = "begin"]
        /\ cMain' = (IF n = LastThread THEN "wait" ELSE "create")
        /\ UNCHANGED <<counting, left, reg, num, holder, sem_one, sem_two, added>>
    BY CountersKnown, CounterFacts DEF N!Create
  <1>2. /\ CounterTypes /\ ThreadsStand /\ created \in Nat /\ counting \in N!Programs
        /\ created < LastThread /\ n \in Nat /\ n \in N!Threads /\ n <= LastThread /\ LastThread' = LastThread
        /\ LastThread \in Nat
    BY <1>1, CountersKnown, CounterFacts DEF ThreadsStand, LastThread
  <1>3. cPc[n] = "unborn" /\ ThreadStands(n)
    BY <1>2 DEF ThreadsStand, ThreadStands
  <1>4. CounterTypes'
    BY <1>1, <1>2 DEF CounterTypes
  <1>5. ASSUME NEW t \in N!Threads PROVE ThreadStands(t)'
    <2>1. ThreadStands(t) /\ cMain' # "ended" /\ (t > created' => t > created /\ t # n)
      BY <1>1, <1>2, CounterFacts DEF ThreadsStand
    <2>2. cPc'[t] = IF t = n THEN "begin" ELSE cPc[t]
      BY <1>1, <1>2 DEF CounterTypes
    <2> QED
      BY <1>1, <2>1, <2>2 DEF ThreadStands
  <1>6. ThreadsStand'
    BY <1>1, <1>2, <1>5 DEF ThreadsStand
  <1>7. \A t \in N!Threads : cPc'[t] = IF t = n THEN "begin" ELSE cPc[t]
    BY <1>1, <1>2 DEF CounterTypes
  <1>8. counting = N!mutex => \A t \in N!Threads : cPc'[t] \in {"load", "store"} <=> holder' = t
    <2>1. counting = N!mutex => \A t \in N!Threads : cPc[t] \in {"load", "store"} <=> holder = t
      BY DEF CountersInv, Exact
    <2> QED
      BY <1>1, <1>3, <1>7, <2>1
  <1>9. \A t \in {1, 2} : cPc'[t] = "post" <=> cPc[t] = "post"
    BY <1>2, <1>3, <1>7, CounterFacts
  <1> QED
    BY <1>1, <1>4, <1>6, <1>7, <1>8, <1>9, CountsQuiet

LEMMA EndKept ==
    ASSUME CountersInv, N!End
    PROVE  CountersInv'
  <1>1. /\ cMain = "wait" /\ (counting = N!thread1 \/ \A t \in N!Used : cPc[t] = "done") /\ cMain' = "ended"
        /\ cPc' = [t \in N!Threads |-> IF t \in N!Used THEN "done" ELSE cPc[t]]
        /\ UNCHANGED <<counting, created, left, reg, num, holder, sem_one, sem_two, added>>
    BY DEF N!End
  <1>2. /\ CounterTypes /\ ThreadsStand /\ created \in Nat /\ counting \in N!Programs
        /\ LastThread' = LastThread /\ created = LastThread /\ created \in Nat
    BY <1>1, CountersKnown, CounterFacts DEF ThreadsStand, LastThread
  <1>3. ASSUME NEW t \in N!Threads
        PROVE  /\ cPc'[t] \in {cPc[t], "done"} /\ (t <= LastThread => cPc'[t] = "done")
               /\ (t > LastThread => cPc'[t] = cPc[t]) /\ t \in Nat
               /\ counting # N!thread1 => cPc'[t] = cPc[t]
    BY <1>1, <1>2, CounterFacts
  <1>4. CounterTypes'
    <2>1. cPc' \in [N!Threads -> {"unborn", "begin", "load", "store", "post", "done"}]
      BY <1>1, <1>2 DEF CounterTypes
    <2> QED
      BY <1>1, <1>2, <2>1 DEF CounterTypes
  <1>5. ASSUME NEW t \in N!Threads PROVE ThreadStands(t)'
    <2>1. ThreadStands(t)
      BY CountersKnown
    <2> QED
      BY <1>1, <1>2, <1>3, <2>1 DEF ThreadStands
  <1>6. ThreadsStand'
    BY <1>1, <1>2, <1>5 DEF ThreadsStand
  <1>7. counting = N!mutex => \A t \in N!Threads : cPc'[t] \in {"load", "store"} <=> holder' = t
    <2>1. counting = N!mutex => \A t \in N!Threads : cPc[t] \in {"load", "store"} <=> holder = t
      BY DEF CountersInv, Exact
    <2>2. N!mutex # N!thread1 /\ N!semaphore # N!thread1
      BY DEF N!mutex, N!thread1, N!semaphore
    <2> QED
      BY <1>1, <1>3, <2>1, <2>2
  <1>8. counting = N!semaphore => \A t \in {1, 2} : cPc'[t] = "post" <=> cPc[t] = "post"
    <2>1. N!semaphore # N!thread1
      BY DEF N!thread1, N!semaphore
    <2> QED
      BY <1>2, <1>3, <2>1, CounterFacts
  <1>9. \A t \in N!Threads : cPc'[t] = "store" => cPc[t] = "store" /\ reg'[t] = reg[t]
    BY <1>1, <1>3
  <1> QED
    BY <1>1, <1>4, <1>6, <1>7, <1>8, <1>9, CountsQuiet

(* A thread moves on. *)
LEMMA GoesOn ==
    ASSUME CountersInv, NEW t \in N!Threads, cPc[t] # "unborn", cPc[t] # "done", NEW to \in {"begin", "load", "store", "post", "done"},
           N!Go(t, to), UNCHANGED <<counting, cMain, created>>,
           to \in {"load", "store"} => counting \in {N!mutex, N!thread3, N!thread4},
           to = "post" => counting = N!semaphore,
           to \in {"store", "post"} => left'[t] # << >>,
           to = "done" => left'[t] = << >>,
           \A q \in N!Threads : q # t => left'[q] = left[q]
    PROVE  /\ ThreadsStand' /\ cPc' \in [N!Threads -> {"unborn", "begin", "load", "store", "post", "done"}]
           /\ \A q \in N!Threads : cPc'[q] = IF q = t THEN to ELSE cPc[q]
  <1>1. /\ CounterTypes /\ ThreadsStand /\ created \in Nat /\ counting \in N!Programs /\ LastThread' = LastThread
    BY CountersKnown DEF LastThread
  <1>2. /\ cPc' \in [N!Threads -> {"unborn", "begin", "load", "store", "post", "done"}]
        /\ \A q \in N!Threads : cPc'[q] = IF q = t THEN to ELSE cPc[q]
    BY <1>1 DEF N!Go, CounterTypes
  <1>3. ASSUME NEW q \in N!Threads PROVE ThreadStands(q)'
    <2>1. ThreadStands(q)
      BY CountersKnown
    <2>2. CASE q = t
      BY <1>1, <1>2, <2>1, <2>2 DEF ThreadStands
    <2>3. CASE q # t
      BY <1>1, <1>2, <2>1, <2>3 DEF ThreadStands
    <2> QED
      BY <2>2, <2>3
  <1>4. ThreadsStand'
    BY <1>1, <1>3 DEF ThreadsStand
  <1> QED
    BY <1>2, <1>4

LEMMA ProgramsDiffer ==
    /\ N!semaphore \notin {N!mutex, N!thread1, N!thread2, N!thread3, N!thread4}
    /\ N!mutex \notin {N!thread1, N!thread2, N!thread3, N!thread4}
    /\ N!thread3 \notin {N!thread1, N!thread2, N!thread4} /\ N!thread4 \notin {N!thread1, N!thread2}
    /\ N!thread1 # N!thread2
  BY DEF N!mutex, N!semaphore, N!thread1, N!thread2, N!thread3, N!thread4

LEMMA EnterKept ==
    ASSUME CountersInv, NEW t \in N!Threads, N!Enter(t)
    PROVE  CountersInv'
  <1>1. /\ cPc[t] = "begin" /\ counting \in {N!mutex, N!thread3, N!thread4} /\ (counting = N!mutex => holder = 0)
        /\ holder' = (IF counting = N!mutex THEN t ELSE 0) /\ N!Go(t, "load")
        /\ UNCHANGED <<counting, cMain, created, left, reg, num, sem_one, sem_two, added>>
    BY DEF N!Enter
  <1>2. CounterTypes /\ t \in Nat /\ t # 0 /\ N!Threads = 1 .. NUM_THREAD /\ counting # N!semaphore
    BY <1>1, CountersKnown, CounterFacts, ProgramsDiffer
  <1>3. /\ ThreadsStand' /\ cPc' \in [N!Threads -> {"unborn", "begin", "load", "store", "post", "done"}]
        /\ \A q \in N!Threads : cPc'[q] = IF q = t THEN "load" ELSE cPc[q]
    BY <1>1, GoesOn
  <1>4. CounterTypes'
    <2>1. holder' \in Int
      BY <1>1, <1>2
    <2> QED
      BY <1>1, <1>2, <1>3, <2>1 DEF CounterTypes
  <1>5. ASSUME counting = N!mutex, NEW q \in N!Threads PROVE cPc'[q] \in {"load", "store"} <=> holder' = q
    <2>1. cPc[q] \in {"load", "store"} <=> holder = q
      BY <1>5 DEF CountersInv, Exact
    <2> QED
      BY <1>1, <1>2, <1>3, <1>5, <2>1
  <1>6. \A q \in N!Threads : cPc'[q] = "store" => cPc[q] = "store" /\ reg'[q] = reg[q]
    BY <1>1, <1>3
  <1> QED
    BY <1>1, <1>2, <1>3, <1>4, <1>5, <1>6, CountsQuiet

LEMMA LoadKept ==
    ASSUME CountersInv, NEW t \in N!Threads, N!Load(t)
    PROVE  CountersInv'
  <1>1. /\ cPc[t] = "load" /\ left[t] # << >> /\ reg' = [reg EXCEPT ![t] = num] /\ N!Go(t, "store")
        /\ UNCHANGED <<counting, cMain, created, left, num, holder, sem_one, sem_two, added>>
    BY DEF N!Load
  <1>2. CounterTypes /\ counting \in {N!mutex, N!thread3, N!thread4} /\ counting # N!semaphore
    BY <1>1, CountersKnown, ProgramsDiffer DEF ThreadStands
  <1>3. /\ ThreadsStand' /\ cPc' \in [N!Threads -> {"unborn", "begin", "load", "store", "post", "done"}]
        /\ \A q \in N!Threads : cPc'[q] = IF q = t THEN "store" ELSE cPc[q]
    BY <1>1, <1>2, GoesOn
  <1>4. CounterTypes'
    BY <1>1, <1>2, <1>3 DEF CounterTypes
  <1>5. ASSUME counting = N!mutex, NEW q \in N!Threads PROVE cPc'[q] \in {"load", "store"} <=> holder' = q
    <2>1. cPc[q] \in {"load", "store"} <=> holder = q
      BY <1>5 DEF CountersInv, Exact
    <2> QED
      BY <1>1, <1>3, <2>1
  <1>6. \A q \in N!Threads : cPc'[q] = "store" => (cPc[q] = "store" /\ reg'[q] = reg[q]) \/ reg'[q] = num
    BY <1>1, <1>2, <1>3 DEF CounterTypes
  <1> QED
    BY <1>1, <1>2, <1>3, <1>4, <1>5, <1>6, CountsQuiet

LEMMA LeaveKept ==
    ASSUME CountersInv, NEW t \in N!Threads, N!Leave(t)
    PROVE  CountersInv'
  <1>1. /\ cPc[t] = "load" /\ left[t] = << >> /\ holder' = 0 /\ N!Go(t, "done")
        /\ UNCHANGED <<counting, cMain, created, left, reg, num, sem_one, sem_two, added>>
    BY DEF N!Leave
  <1>2. /\ CounterTypes /\ counting \in {N!mutex, N!thread3, N!thread4} /\ counting # N!semaphore
        /\ N!Threads = 1 .. NUM_THREAD /\ NUM_THREAD \in Nat
    BY <1>1, CountersKnown, CounterFacts, ProgramsDiffer DEF ThreadStands
  <1>3. /\ ThreadsStand' /\ cPc' \in [N!Threads -> {"unborn", "begin", "load", "store", "post", "done"}]
        /\ \A q \in N!Threads : cPc'[q] = IF q = t THEN "done" ELSE cPc[q]
    BY <1>1, <1>2, GoesOn
  <1>4. CounterTypes'
    <2>1. holder' \in Int
      BY <1>1
    <2> QED
      BY <1>1, <1>2, <1>3, <2>1 DEF CounterTypes
  <1>5. ASSUME counting = N!mutex, NEW q \in N!Threads PROVE cPc'[q] \in {"load", "store"} <=> holder' = q
    <2>1. (cPc[q] \in {"load", "store"} <=> holder = q) /\ holder = t /\ holder' # q
      BY <1>1, <1>2, <1>5 DEF CountersInv, Exact
    <2> QED
      BY <1>1, <1>3, <2>1
  <1>6. \A q \in N!Threads : cPc'[q] = "store" => cPc[q] = "store" /\ reg'[q] = reg[q]
    BY <1>1, <1>3
  <1> QED
    BY <1>1, <1>2, <1>3, <1>4, <1>5, <1>6, CountsQuiet

LEMMA ReturnKept ==
    ASSUME CountersInv, NEW t \in N!Threads, N!Return(t)
    PROVE  CountersInv'
  <1>1. /\ counting \in {N!semaphore, N!thread1, N!thread2} /\ cPc[t] = "begin" /\ left[t] = << >> /\ N!Go(t, "done")
        /\ UNCHANGED <<counting, cMain, created, left, reg, num, holder, sem_one, sem_two, added>>
    BY DEF N!Return
  <1>2. CounterTypes /\ counting # N!mutex
    BY <1>1, CountersKnown, ProgramsDiffer
  <1>3. /\ ThreadsStand' /\ cPc' \in [N!Threads -> {"unborn", "begin", "load", "store", "post", "done"}]
        /\ \A q \in N!Threads : cPc'[q] = IF q = t THEN "done" ELSE cPc[q]
    BY <1>1, GoesOn
  <1>4. CounterTypes'
    BY <1>1, <1>2, <1>3 DEF CounterTypes
  <1>5. \A q \in {1, 2} : cPc'[q] = "post" <=> cPc[q] = "post"
    BY <1>1, <1>2, <1>3, CountersKnown, CounterFacts
  <1>6. \A q \in N!Threads : cPc'[q] = "store" => cPc[q] = "store" /\ reg'[q] = reg[q]
    BY <1>1, <1>3
  <1> QED
    BY <1>1, <1>2, <1>3, <1>4, <1>5, <1>6, CountsQuiet

(* The last of the numbers is no more than their sum. *)
LEMMA SumLast ==
    ASSUME NEW s \in Seq(Nat), s # << >>
    PROVE  Len(s) \in 1 .. Len(s) /\ s[Len(s)] \in Nat /\ N!Sum(s) >= s[Len(s)]
  <1> DEFINE L == Len(s)
  <1>1. PICK f \in [0 .. L -> Nat] : Sums(s, f, L) /\ N!Sum(s) = f[L]
    BY SumIs, Additives
  <1>2. L \in Nat /\ L # 0
    BY EmptySeq, LenProperties
  <1>3. L \in 1 .. L /\ L - 1 \in 0 .. L /\ L \in 0 .. L
    BY <1>2
  <1>4. f[L] = f[L - 1] + s[L]
    BY <1>1, <1>3 DEF Sums
  <1>5. s[L] \in Nat
    BY <1>3, ElementOfSeq
  <1>6. f[L - 1] \in Nat
    BY <1>1, <1>3
  <1> HIDE DEF L
  <1>7. f[L] >= s[L]
    BY <1>4, <1>5, <1>6
  <1> QED
    BY <1>1, <1>3, <1>5, <1>7 DEF L

(* The first k numbers are of the kind of all of them. *)
LEMMA PartsOf ==
    ASSUME NEW Kind, NEW s \in Seq(Kind), NEW k \in 0 .. Len(s)
    PROVE  SubSeq(s, 1, k) \in Seq(Kind) /\ SubSeq(s, k + 1, Len(s)) \in Seq(Kind)
  OBVIOUS

(* The sums of what is left to the threads of S. *)
Parts(m, L, S) == [q \in 1 .. m |-> IF q \in S THEN N!Sum(L[q]) ELSE 0]

LEMMA PartsSum ==
    ASSUME NEW m \in Nat, NEW L \in [1 .. m -> Seq(Int)], NEW S \in SUBSET (1 .. m)
    PROVE  Parts(m, L, S) \in [1 .. m -> Int] /\ Parts(m, L, S) \in Seq(Int) /\ N!Sum(Parts(m, L, S)) \in Int
  <1>1. \A q \in 1 .. m : N!Sum(L[q]) \in Int
    BY SumIn, Additives
  <1>2. Parts(m, L, S) \in [1 .. m -> Int]
    BY <1>1 DEF Parts
  <1>3. Parts(m, L, S) \in Seq(Int)
    BY <1>2
  <1> QED
    BY <1>2, <1>3, SumIn, Additives

LessBy(m, L, t, rest, S) ==
    N!Sum(Parts(m, [L EXCEPT ![t] = rest], S)) =
       N!Sum(Parts(m, L, S)) - (IF t \in S THEN N!Sum(L[t]) - N!Sum(rest) ELSE 0)

LEMMA SumsLeft ==
    ASSUME NEW m, m \in Nat, NEW L, L \in [1 .. m -> Seq(Int)], NEW t, t \in 1 .. m, NEW rest, rest \in Seq(Int), NEW S, S \subseteq 1 .. m
    PROVE  LessBy(m, L, t, rest, S)
  <1> DEFINE before == Parts(m, L, S)
             after  == Parts(m, [L EXCEPT ![t] = rest], S)
             x == IF t \in S THEN N!Sum(rest) ELSE 0
  <1>1. N!Sum(rest) \in Int /\ N!Sum(L[t]) \in Int
    BY SumIn, Additives
  <1>2. /\ before \in [1 .. m -> Int] /\ N!Sum(before) \in Int /\ x \in Int
        /\ before[t] = (IF t \in S THEN N!Sum(L[t]) ELSE 0)
    <2>1. before \in [1 .. m -> Int] /\ N!Sum(before) \in Int
      BY PartsSum
    <2>2. x \in Int
      BY <1>1
    <2>3. before[t] = (IF t \in S THEN N!Sum(L[t]) ELSE 0)
      BY DEF Parts
    <2> QED
      BY <2>1, <2>2, <2>3
  <1>3. after = [before EXCEPT ![t] = x]
    BY <1>1 DEF Parts
  <1>4. before[t] \in Int
    BY <1>2
  <1> HIDE DEF before, after, x
  <1>5. N!Sum(after) = N!Sum(before) - before[t] + x
    BY <1>2, <1>3, SumExcept
  <1>6. N!Sum(after) = N!Sum(before) - (IF t \in S THEN N!Sum(L[t]) - N!Sum(rest) ELSE 0)
    <2>1. CASE t \in S
      <3>1. x = N!Sum(rest) /\ before[t] = N!Sum(L[t])
        BY <1>2, <2>1 DEF x
      <3> QED
        BY <1>1, <1>2, <1>5, <2>1, <3>1
    <2>2. CASE t \notin S
      <3>1. x = 0 /\ before[t] = 0
        BY <1>2, <2>2 DEF x
      <3> QED
        BY <1>2, <1>5, <2>2, <3>1
    <2> QED
      BY <2>1, <2>2
  <1> QED
    BY <1>6 DEF before, after, LessBy

LEMMA NumbersAre ==
    ASSUME counting \in N!Programs, NEW t \in N!Threads
    PROVE  /\ N!Numbers(counting, t) \in Seq(Int) /\ Len(N!Numbers(counting, t)) = Rounds
           /\ counting = N!thread3 => N!Numbers(counting, t) = [k \in 1 .. Rounds |-> (t - 1) * Rounds + k]
           /\ counting = N!semaphore => N!Numbers(counting, t) = [k \in 1 .. Rounds |-> k]
           /\ counting \in {N!mutex, N!thread4} =>
                 N!Numbers(counting, t) = (IF t % 2 = 0 THEN [k \in 1 .. Rounds |-> 1] ELSE [k \in 1 .. Rounds |-> -1])
           /\ Rises(t) /\ counting \in {N!thread3, N!thread4} => N!Numbers(counting, t) \in Seq(Nat)
           /\ Falls(t) /\ counting \in {N!thread3, N!thread4} => N!Numbers(counting, t) \in Seq(Negative)
  <1>1. Rounds \in Nat /\ t \in Nat /\ t >= 1
    BY CounterFacts
  <1>2. \A k \in 1 .. Rounds : (t - 1) * Rounds + k \in Nat
    <2>1. (t - 1) * Rounds \in Nat
      BY <1>1
    <2> QED
      BY <1>1, <2>1
  <1> DEFINE one == [k \in 1 .. Rounds |-> 1]
             less == [k \in 1 .. Rounds |-> -1]
             up == [k \in 1 .. Rounds |-> (t - 1) * Rounds + k]
             all == [k \in 1 .. Rounds |-> k]
  <1>3. one \in Seq(Nat) /\ one \in Seq(Int) /\ Len(one) = Rounds
    BY <1>1
  <1>4. less \in Seq(Negative) /\ less \in Seq(Int) /\ Len(less) = Rounds
    BY <1>1 DEF Negative
  <1>5. up \in Seq(Nat) /\ up \in Seq(Int) /\ Len(up) = Rounds
    BY <1>1, <1>2
  <1>6. all \in Seq(Nat) /\ all \in Seq(Int) /\ Len(all) = Rounds
    BY <1>1
  <1> HIDE DEF one, less, up, all
  <1>7. /\ counting = N!thread3 => N!Numbers(counting, t) = up
        /\ counting \in {N!semaphore, N!thread1, N!thread2} => N!Numbers(counting, t) = all
        /\ counting \in {N!mutex, N!thread4} => N!Numbers(counting, t) = (IF t % 2 = 0 THEN one ELSE less)
    BY ProgramsDiffer DEF N!Numbers, N!thread_inc, N!thread_des, N!thread_summation, one, less, up, all
  <1>8. CASE counting = N!thread3
    BY <1>5, <1>7, <1>8, ProgramsDiffer DEF Falls, up
  <1>9. CASE counting \in {N!semaphore, N!thread1, N!thread2}
    BY <1>6, <1>7, <1>9, ProgramsDiffer DEF all
  <1>10. CASE counting \in {N!mutex, N!thread4}
    BY <1>3, <1>4, <1>7, <1>10, ProgramsDiffer DEF Rises, Falls, one, less
  <1> QED
    BY <1>8, <1>9, <1>10 DEF N!Programs

LEMMA AllSums ==
    ASSUME counting \in N!Programs
    PROVE  N!Sum(AllUps) \in Int /\ N!Sum(AllDowns) \in Int
  <1>1. \A t \in N!Threads : N!Sum(N!Numbers(counting, t)) \in Int
    BY NumbersAre, SumIn, Additives
  <1> DEFINE m == NUM_THREAD
  <1>2. N!Threads = 1 .. m /\ m \in Nat
    BY CounterFacts
  <1> HIDE DEF m
  <1>3. AllUps \in [1 .. m -> Int] /\ AllDowns \in [1 .. m -> Int]
    BY <1>1, <1>2 DEF AllUps, AllDowns
  <1>4. AllUps \in Seq(Int) /\ AllDowns \in Seq(Int)
    BY <1>2, <1>3
  <1> QED
    BY <1>4, SumIn, Additives

(* What a store does. *)
Stored(t, first, rest) ==
    /\ first \in Seq(Int) /\ rest \in Seq(Int) /\ N!Sum(first) + N!Sum(rest) = N!Sum(left[t])
    /\ left[t] \in Seq(Nat) => first \in Seq(Nat) /\ rest \in Seq(Nat)
    /\ left[t] \in Seq(Negative) => first \in Seq(Negative) /\ rest \in Seq(Negative)
    /\ rest # << >> => rest[Len(rest)] = left[t][Len(left[t])]
    /\ num' = reg[t] + N!Sum(first) /\ left' = [left EXCEPT ![t] = rest] /\ reg' = [reg EXCEPT ![t] = 0]
    /\ cPc[t] = "store" /\ N!Go(t, "load")
    /\ UNCHANGED <<counting, cMain, created, holder, sem_one, sem_two, added>>

LEMMA RestIs ==
    ASSUME NEW s \in Seq(Int), NEW k \in 1 .. Len(s)
    PROVE  /\ Len(SubSeq(s, k + 1, Len(s))) = Len(s) - k
           /\ \A i \in 1 .. (Len(s) - k) : SubSeq(s, k + 1, Len(s))[i] = s[k + i]
  <1> DEFINE L == Len(s)
             rest == SubSeq(s, k + 1, L)
  <1>1. Len(rest) = L - k
    OBVIOUS
  <1>2. \A i \in 1 .. (L - k) : rest[i] = s[k + i]
    OBVIOUS
  <1> QED
    BY <1>1, <1>2

LEMMA StoreIs ==
    ASSUME CountersInv, NEW t \in N!Threads, N!Store(t)
    PROVE  \E first, rest : Stored(t, first, rest)
  <1> DEFINE L == left[t]
  <1>1. PICK k \in 1 .. Len(L) :
            num' = reg[t] + N!Sum(SubSeq(L, 1, k)) /\ left' = [left EXCEPT ![t] = SubSeq(L, k + 1, Len(L))]
    BY DEF N!Store
  <1>2. /\ cPc[t] = "store" /\ N!Go(t, "load") /\ reg' = [reg EXCEPT ![t] = 0]
        /\ UNCHANGED <<counting, cMain, created, holder, sem_one, sem_two, added>>
    BY DEF N!Store
  <1>3. L \in Seq(Int)
    BY CountersKnown DEF CounterTypes
  <1>4. Len(L) \in Nat /\ k \in 0 .. Len(L) /\ k \in Nat
    BY <1>3
  <1> HIDE DEF L
  <1> DEFINE first == SubSeq(L, 1, k)
             rest == SubSeq(L, k + 1, Len(L))
  <1>5. first \in Seq(Int) /\ rest \in Seq(Int) /\ N!Sum(first) + N!Sum(rest) = N!Sum(L)
    BY <1>3, <1>4, SumSplit
  <1>6. ASSUME L \in Seq(Nat) PROVE first \in Seq(Nat) /\ rest \in Seq(Nat)
    BY <1>4, <1>6, PartsOf
  <1>7. ASSUME L \in Seq(Negative) PROVE first \in Seq(Negative) /\ rest \in Seq(Negative)
    BY <1>4, <1>7, PartsOf
  <1>8. ASSUME rest # << >> PROVE rest[Len(rest)] = L[Len(L)]
    <2>1. Len(rest) = Len(L) - k /\ \A i \in 1 .. (Len(L) - k) : rest[i] = L[k + i]
      BY <1>3, <1>4, RestIs
    <2>2. Len(rest) # 0
      BY <1>5, <1>8, EmptySeq
    <2>3. Len(L) - k \in 1 .. (Len(L) - k) /\ k + (Len(L) - k) = Len(L)
      BY <1>4, <2>1, <2>2
    <2> QED
      BY <2>1, <2>3
  <1> HIDE DEF first, rest
  <1>9. num' = reg[t] + N!Sum(first) /\ left' = [left EXCEPT ![t] = rest]
    BY <1>1 DEF first, rest
  <1>10. Stored(t, first, rest)
    BY <1>2, <1>5, <1>6, <1>7, <1>8, <1>9 DEF Stored, L
  <1> QED
    BY <1>10

LEMMA StoreKept ==
    ASSUME CountersInv, NEW t \in N!Threads, N!Store(t)
    PROVE  CountersInv'
  <1>1. PICK first, rest : Stored(t, first, rest)
    BY StoreIs
  <1> DEFINE d == N!Sum(first)
  <1>2. /\ first \in Seq(Int) /\ rest \in Seq(Int) /\ d + N!Sum(rest) = N!Sum(left[t])
        /\ left[t] \in Seq(Nat) => first \in Seq(Nat) /\ rest \in Seq(Nat)
        /\ left[t] \in Seq(Negative) => first \in Seq(Negative) /\ rest \in Seq(Negative)
        /\ rest # << >> => rest[Len(rest)] = left[t][Len(left[t])]
        /\ num' = reg[t] + d /\ left' = [left EXCEPT ![t] = rest] /\ reg' = [reg EXCEPT ![t] = 0]
        /\ cPc[t] = "store" /\ N!Go(t, "load")
        /\ UNCHANGED <<counting, cMain, created, holder, sem_one, sem_two, added>>
    BY <1>1 DEF Stored
  <1>3. /\ CounterTypes /\ counting \in {N!mutex, N!thread3, N!thread4} /\ counting # N!semaphore
        /\ counting \in N!Programs /\ N!Threads = 1 .. NUM_THREAD /\ NUM_THREAD \in Nat /\ t \in 1 .. NUM_THREAD
        /\ left \in [1 .. NUM_THREAD -> Seq(Int)] /\ left[t] \in Seq(Int) /\ left[t] # << >> /\ t \in Nat
        /\ LastThread' = LastThread /\ created <= LastThread /\ created \in Nat /\ LastThread \in Nat
    BY <1>2, CountersKnown, CounterFacts, ProgramsDiffer DEF ThreadStands, CounterTypes, LastThread, ThreadsStand
  <1>4. d \in Int /\ N!Sum(rest) \in Int /\ N!Sum(left[t]) \in Int /\ reg[t] \in Int
        /\ d = N!Sum(left[t]) - N!Sum(rest)
    <2>1. d \in Int /\ N!Sum(rest) \in Int /\ N!Sum(left[t]) \in Int /\ reg[t] \in Int
      BY <1>2, <1>3, SumIn, Additives DEF CounterTypes
    <2> QED
      BY <1>2, <2>1
  <1> HIDE DEF d
  <1>5. left'[t] = rest /\ reg'[t] = 0 /\ \A q \in N!Threads : q # t => left'[q] = left[q] /\ reg'[q] = reg[q]
    BY <1>2, <1>3 DEF CounterTypes
  <1>6. /\ ThreadsStand' /\ cPc' \in [N!Threads -> {"unborn", "begin", "load", "store", "post", "done"}]
        /\ \A q \in N!Threads : cPc'[q] = IF q = t THEN "load" ELSE cPc[q]
    <2>1. cPc[t] # "unborn" /\ cPc[t] # "done" /\ N!Go(t, "load") /\ UNCHANGED <<counting, cMain, created>>
      BY <1>2
    <2>2. \A q \in N!Threads : q # t => left'[q] = left[q]
      BY <1>5
    <2> QED
      BY <1>3, <2>1, <2>2, GoesOn
  <1>7. CounterTypes'
    <2>0. reg[t] + d \in Int
      BY <1>4
    <2>1. num' \in Int /\ left' \in [N!Threads -> Seq(Int)] /\ reg' \in [N!Threads -> Int]
      <3>1. num' \in Int
        BY <1>2, <2>0
      <3>2. left' \in [N!Threads -> Seq(Int)]
        BY <1>2, <1>3
      <3>3. reg' \in [N!Threads -> Int]
        BY <1>2, <1>3 DEF CounterTypes
      <3> QED
        BY <3>1, <3>2, <3>3
    <2> QED
      BY <1>2, <1>3, <1>6, <2>1 DEF CounterTypes
  <1>8. t <= LastThread
    <2>1. ~(t > created)
      BY <1>2, CountersKnown DEF ThreadStands
    <2> QED
      BY <1>3, <2>1
  <1>9. ASSUME counting = N!mutex PROVE Exact'
    <2>1. /\ num + N!Sum(Lefts) = Total /\ reg[t] = num /\ holder = t /\ num \in Int
          /\ \A q \in N!Threads : cPc[q] \in {"load", "store"} <=> holder = q
      BY <1>2, <1>3, <1>9 DEF CountersInv, Exact, CounterTypes
    <2> DEFINE S == 1 .. NUM_THREAD
    <2>2. Parts(NUM_THREAD, left, S) = Lefts
      BY <1>3 DEF Lefts, Parts
    <2>3. Parts(NUM_THREAD, [left EXCEPT ![t] = rest], S) = Lefts'
      BY <1>2, <1>3 DEF Lefts, Parts
    <2>4. S \in SUBSET (1 .. NUM_THREAD) /\ t \in S
      BY <1>3
    <2> HIDE DEF S
    <2>5. N!Sum(Lefts)' = N!Sum(Lefts) - d /\ N!Sum(Lefts) \in Int /\ Total' = Total
      <3>1. N!Sum(Lefts)' = N!Sum(Lefts) - (N!Sum(left[t]) - N!Sum(rest))
        <4>1. N!Sum(Parts(NUM_THREAD, [left EXCEPT ![t] = rest], S)) =
                 N!Sum(Parts(NUM_THREAD, left, S)) - (IF t \in S THEN N!Sum(left[t]) - N!Sum(rest) ELSE 0)
          <5>1. /\ NUM_THREAD \in Nat /\ left \in [1 .. NUM_THREAD -> Seq(Int)] /\ t \in 1 .. NUM_THREAD
                /\ rest \in Seq(Int) /\ S \subseteq 1 .. NUM_THREAD
            BY <1>2, <1>3, <2>4
          <5>2. LessBy(NUM_THREAD, left, t, rest, S)
            BY <5>1, SumsLeft
          <5> QED
            BY <5>2 DEF LessBy
        <4> QED
          BY <2>2, <2>3, <2>4, <4>1
      <3>2. N!Sum(Lefts) \in Int
        BY <1>3, <2>2, <2>4, PartsSum
      <3>3. Total' = Total
        BY DEF Total
      <3> QED
        BY <1>4, <3>1, <3>2, <3>3
    <2>6. num' + N!Sum(Lefts)' = Total'
      BY <1>2, <1>4, <2>1, <2>5
    <2> QED
      BY <1>2, <1>5, <1>6, <2>1, <2>6 DEF Exact
  <1>10. ASSUME counting \in {N!thread3, N!thread4} PROVE Bounded'
    <2>1. Bounded
      BY <1>10 DEF CountersInv
    <2>2. /\ \A q \in N!Threads : Rises(q)' = Rises(q) /\ Falls(q)' = Falls(q)
          /\ AllUps' = AllUps /\ AllDowns' = AllDowns
      BY <1>2, <1>3 DEF Rises, Falls, AllUps, AllDowns
    <2>3. (Rises(t) /\ ~Falls(t)) \/ (Falls(t) /\ ~Rises(t))
      BY <1>8 DEF Rises, Falls
    <2>4. /\ N!Sum(Ups) \in Int /\ N!Sum(Ups)' = N!Sum(Ups) - (IF Rises(t) THEN d ELSE 0)
      <3> DEFINE S == {q \in 1 .. NUM_THREAD : Rises(q)}
      <3>1. S \in SUBSET (1 .. NUM_THREAD) /\ (t \in S <=> Rises(t))
        BY <1>3
      <3>2. Parts(NUM_THREAD, left, S) = Ups
        BY <1>3 DEF Ups, Parts
      <3>3. Parts(NUM_THREAD, [left EXCEPT ![t] = rest], S) = Ups'
        BY <1>2, <1>3, <2>2 DEF Ups, Parts
      <3> HIDE DEF S
      <3>4. N!Sum(Ups)' = N!Sum(Ups) - (IF t \in S THEN N!Sum(left[t]) - N!Sum(rest) ELSE 0)
        <4>1. N!Sum(Parts(NUM_THREAD, [left EXCEPT ![t] = rest], S)) =
                 N!Sum(Parts(NUM_THREAD, left, S)) - (IF t \in S THEN N!Sum(left[t]) - N!Sum(rest) ELSE 0)
          <5>1. /\ NUM_THREAD \in Nat /\ left \in [1 .. NUM_THREAD -> Seq(Int)] /\ t \in 1 .. NUM_THREAD
                /\ rest \in Seq(Int) /\ S \subseteq 1 .. NUM_THREAD
            BY <1>2, <1>3, <3>1
          <5>2. LessBy(NUM_THREAD, left, t, rest, S)
            BY <5>1, SumsLeft
          <5> QED
            BY <5>2 DEF LessBy
        <4> QED
          BY <3>2, <3>3, <4>1
      <3>5. N!Sum(Ups) \in Int
        BY <1>3, <3>1, <3>2, PartsSum
      <3> QED
        BY <1>4, <3>1, <3>4, <3>5
    <2>5. /\ N!Sum(Downs) \in Int /\ N!Sum(Downs)' = N!Sum(Downs) - (IF Falls(t) THEN d ELSE 0)
      <3> DEFINE S == {q \in 1 .. NUM_THREAD : Falls(q)}
      <3>1. S \in SUBSET (1 .. NUM_THREAD) /\ (t \in S <=> Falls(t))
        BY <1>3
      <3>2. Parts(NUM_THREAD, left, S) = Downs
        BY <1>3 DEF Downs, Parts
      <3>3. Parts(NUM_THREAD, [left EXCEPT ![t] = rest], S) = Downs'
        BY <1>2, <1>3, <2>2 DEF Downs, Parts
      <3> HIDE DEF S
      <3>4. N!Sum(Downs)' = N!Sum(Downs) - (IF t \in S THEN N!Sum(left[t]) - N!Sum(rest) ELSE 0)
        <4>1. N!Sum(Parts(NUM_THREAD, [left EXCEPT ![t] = rest], S)) =
                 N!Sum(Parts(NUM_THREAD, left, S)) - (IF t \in S THEN N!Sum(left[t]) - N!Sum(rest) ELSE 0)
          <5>1. /\ NUM_THREAD \in Nat /\ left \in [1 .. NUM_THREAD -> Seq(Int)] /\ t \in 1 .. NUM_THREAD
                /\ rest \in Seq(Int) /\ S \subseteq 1 .. NUM_THREAD
            BY <1>2, <1>3, <3>1
          <5>2. LessBy(NUM_THREAD, left, t, rest, S)
            BY <5>1, SumsLeft
          <5> QED
            BY <5>2 DEF LessBy
        <4> QED
          BY <3>2, <3>3, <4>1
      <3>5. N!Sum(Downs) \in Int
        BY <1>3, <3>1, <3>2, PartsSum
      <3> QED
        BY <1>4, <3>1, <3>4, <3>5
    <2>6. /\ Rises(t) => d >= 0 /\ rest \in Seq(Nat)
          /\ Falls(t) => d <= 0 /\ rest \in Seq(Negative)
      <3>1. ASSUME Rises(t) PROVE d \in Nat /\ rest \in Seq(Nat)
        BY <1>2, <2>1, <3>1, SumIn, Additives DEF Bounded, d
      <3>2. ASSUME Falls(t) PROVE d \in Negative /\ rest \in Seq(Negative)
        BY <1>2, <2>1, <3>2, SumIn, Additives DEF Bounded, d, Negative
      <3> QED
        BY <3>1, <3>2 DEF Negative
    <2>7. N!Sum(AllUps) \in Int /\ N!Sum(AllDowns) \in Int
      BY <1>3, AllSums
    <2>8. ASSUME NEW n \in Int, Between(n)
          PROVE  /\ n + N!Sum(Ups)' <= N!Sum(AllUps) /\ n + N!Sum(Downs)' >= N!Sum(AllDowns)
                 /\ n + d + N!Sum(Ups)' <= N!Sum(AllUps) /\ n + d + N!Sum(Downs)' >= N!Sum(AllDowns)
      <3>1. n + N!Sum(Ups) <= N!Sum(AllUps) /\ n + N!Sum(Downs) >= N!Sum(AllDowns)
        BY <2>8 DEF Between
      <3>2. CASE Rises(t) /\ ~Falls(t)
        <4>1. N!Sum(Ups)' = N!Sum(Ups) - d /\ N!Sum(Downs)' = N!Sum(Downs) /\ d >= 0
          BY <2>4, <2>5, <2>6, <3>2
        <4> QED
          BY <1>4, <2>4, <2>5, <2>7, <3>1, <4>1
      <3>3. CASE Falls(t) /\ ~Rises(t)
        <4>1. N!Sum(Ups)' = N!Sum(Ups) /\ N!Sum(Downs)' = N!Sum(Downs) - d /\ d <= 0
          BY <2>4, <2>5, <2>6, <3>3
        <4> QED
          BY <1>4, <2>4, <2>5, <2>7, <3>1, <4>1
      <3> QED
        BY <2>3, <3>2, <3>3
    <2>9. Between(num)'
      <3>1. Between(reg[t])
        BY <1>2, <2>1 DEF Bounded
      <3> QED
        BY <1>2, <1>4, <2>2, <2>8, <3>1 DEF Between
    <2>10. ASSUME NEW q \in N!Threads
           PROVE  /\ cPc'[q] = "store" => Between(reg[q])'
                  /\ Rises(q)' => left'[q] \in Seq(Nat)
                  /\ Falls(q)' => left'[q] \in Seq(Negative)
      <3>1. CASE q = t
        BY <1>5, <1>6, <2>2, <2>6, <3>1
      <3>2. CASE q # t
        <4>1. /\ cPc'[q] = cPc[q] /\ left'[q] = left[q] /\ reg'[q] = reg[q] /\ reg[q] \in Int
          BY <1>3, <1>5, <1>6, <3>2 DEF CounterTypes
        <4>2. cPc[q] = "store" => Between(reg[q])
          BY <2>1 DEF Bounded
        <4>3. cPc'[q] = "store" => Between(reg[q])'
          BY <2>2, <2>8, <4>1, <4>2 DEF Between
        <4> QED
          BY <2>1, <2>2, <4>1, <4>3 DEF Bounded
      <3> QED
        BY <3>1, <3>2
    <2> QED
      BY <2>9, <2>10 DEF Bounded
  <1>11. ASSUME counting = N!thread3 PROVE LastNumberIn'
    <2>1. LastNumberIn /\ t \in {1, 2} /\ 1 \in N!Threads /\ 2 \in N!Threads /\ Rounds \in Nat
      <3>1. LastThread = 2 /\ 1 \in N!Threads /\ 2 \in N!Threads /\ Rounds \in Nat
        BY <1>3, <1>11, CounterFacts
      <3>2. t \in {1, 2}
        BY <1>3, <1>8, <3>1
      <3> QED
        BY <1>11, <3>1, <3>2 DEF CountersInv
    <2>2. left[t] \in Seq(Nat) /\ left[t][Len(left[t])] >= Rounds /\ reg[t] >= 0
      BY <1>2, <1>3, <2>1 DEF LastNumberIn
    <2>3. d \in Nat /\ rest \in Seq(Nat)
      BY <1>2, <2>2, SumIn, Additives DEF d
    <2>4. num' >= 0
      BY <1>2, <1>4, <2>2, <2>3
    <2>5. ASSUME NEW q \in {1, 2}
          PROVE  /\ cPc'[q] = "store" => reg'[q] >= 0
                 /\ left'[q] \in Seq(Nat)
                 /\ left'[q] # << >> => left'[q][Len(left'[q])] >= Rounds
      <3>1. CASE q = t
        BY <1>2, <1>5, <1>6, <2>1, <2>2, <2>3, <3>1
      <3>2. CASE q # t
        <4>1. cPc'[q] = cPc[q] /\ left'[q] = left[q] /\ reg'[q] = reg[q]
          BY <1>5, <1>6, <2>1, <3>2
        <4> QED
          BY <2>1, <4>1 DEF LastNumberIn
      <3> QED
        BY <3>1, <3>2
    <2>6. ASSUME left'[1] = << >>, left'[2] = << >> PROVE num' >= Rounds
      <3>1. rest = << >>
        BY <1>5, <2>1, <2>6
      <3>2. d = N!Sum(left[t])
        BY <1>4, <3>1, SumEmpty
      <3>3. left[t][Len(left[t])] \in Nat /\ N!Sum(left[t]) >= left[t][Len(left[t])]
        BY <1>3, <2>2, SumLast
      <3>4. d >= Rounds
        BY <1>4, <2>1, <2>2, <3>2, <3>3
      <3>5. reg[t] + d >= Rounds
        BY <1>4, <2>1, <2>2, <3>4
      <3> QED
        BY <1>2, <3>5
    <2> QED
      BY <2>4, <2>5, <2>6 DEF LastNumberIn
  <1> QED
    BY <1>2, <1>3, <1>6, <1>7, <1>9, <1>10, <1>11 DEF CountersInv

(* The semaphores. *)
LEMMA Handing ==
    ASSUME CountersInv, counting = N!semaphore
    PROVE  /\ CounterTypes /\ HandOver /\ LastThread = 2 /\ counting \in N!Programs
           /\ counting \notin {N!mutex, N!thread1, N!thread2, N!thread3, N!thread4}
           /\ 1 \in N!Threads /\ 2 \in N!Threads /\ N!Threads = 1 .. NUM_THREAD /\ Rounds \in Nat
           /\ left[1] \in Seq(Int) /\ left[2] \in Seq(Int) /\ Len(left[1]) \in Nat /\ Len(left[2]) \in Nat
           /\ Handed(1) \in Nat /\ Handed(2) \in Nat /\ Taken(1) \in Nat /\ Taken(2) \in Nat
  <1>1. /\ CounterTypes /\ HandOver /\ LastThread = 2 /\ counting \in N!Programs
        /\ counting \notin {N!mutex, N!thread1, N!thread2, N!thread3, N!thread4}
        /\ 1 \in N!Threads /\ 2 \in N!Threads /\ N!Threads = 1 .. NUM_THREAD /\ Rounds \in Nat
    BY CountersKnown, CounterFacts, ProgramsDiffer DEF CountersInv
  <1>2. left[1] \in Seq(Int) /\ left[2] \in Seq(Int)
    BY <1>1 DEF CounterTypes
  <1>3. Len(left[1]) \in Nat /\ Len(left[2]) \in Nat /\ Len(left[1]) <= Rounds /\ Len(left[2]) <= Rounds
    BY <1>1, <1>2 DEF HandOver
  <1>4. Handed(1) \in Nat /\ Handed(2) \in Nat
    BY <1>1, <1>3 DEF Handed
  <1>5. Taken(1) \in Nat /\ Taken(2) \in Nat
    BY <1>4 DEF Taken
  <1> QED
    BY <1>1, <1>2, <1>3, <1>4, <1>5

LEMMA ReadNumberKept ==
    ASSUME CountersInv, NEW t \in N!Threads, N!ReadNumber(t)
    PROVE  CountersInv'
  <1>1. /\ counting = N!semaphore /\ t = 1 /\ cPc[1] = "begin" /\ left[1] # << >> /\ sem_two > 0
        /\ sem_two' = sem_two - 1 /\ num' = Head(left[1]) /\ N!Go(1, "post")
        /\ UNCHANGED <<counting, cMain, created, left, reg, holder, sem_one, added>>
    BY DEF N!ReadNumber
  <1>2. /\ CounterTypes /\ HandOver /\ LastThread = 2 /\ 1 \in N!Threads /\ 2 \in N!Threads /\ Rounds \in Nat
        /\ left[1] \in Seq(Int) /\ Len(left[1]) \in Nat /\ Len(left[2]) \in Nat
        /\ Handed(1) \in Nat /\ Handed(2) \in Nat /\ Taken(1) \in Nat /\ Taken(2) \in Nat
        /\ sem_one \in Int /\ sem_two \in Int
        /\ counting \notin {N!mutex, N!thread1, N!thread2, N!thread3, N!thread4}
    BY <1>1, Handing DEF CounterTypes
  <1>3. /\ ThreadsStand' /\ cPc' \in [N!Threads -> {"unborn", "begin", "load", "store", "post", "done"}]
        /\ \A q \in N!Threads : cPc'[q] = IF q = 1 THEN "post" ELSE cPc[q]
    BY <1>1, <1>2, GoesOn
  <1>4. num' = Handed(1) + 1
    <2>1. Len(left[1]) # 0 /\ Head(left[1]) = left[1][1]
      BY <1>1, <1>2, EmptySeq
    <2>2. 1 \in 1 .. Len(left[1])
      BY <1>2, <2>1
    <2> QED
      BY <1>1, <1>2, <2>1, <2>2 DEF HandOver
  <1>5. CounterTypes'
    <2>1. num' \in Int /\ sem_two' \in Int
      BY <1>1, <1>2, <1>4
    <2> QED
      BY <1>1, <1>2, <1>3, <2>1 DEF CounterTypes
  <1>6. /\ Handed(1)' = Handed(1) /\ Handed(2)' = Handed(2)
        /\ Taken(1)' = Handed(1) + 1 /\ Taken(1) = Handed(1) /\ Taken(2)' = Taken(2)
    BY <1>1, <1>2, <1>3 DEF Handed, Taken
  <1>7. sem_two' = (Handed(2) + 1) - Taken(1)' /\ sem_two' >= 0
    <2>1. sem_two = (Handed(2) + 1) - Taken(1)
      BY <1>2 DEF HandOver
    <2>2. sem_two = (Handed(2) + 1) - Handed(1) /\ sem_two' = sem_two - 1 /\ sem_two > 0
      BY <1>1, <1>6, <2>1
    <2>3. sem_two' = (Handed(2) + 1) - (Handed(1) + 1) /\ sem_two' >= 0
      <3>1. sem_two \in Int /\ Handed(1) \in Nat /\ Handed(2) \in Nat
        BY <1>2
      <3> HIDE DEF Handed
      <3> QED
        BY <2>2, <3>1
    <2> QED
      BY <1>6, <2>3
  <1>8. HandOver'
    BY <1>1, <1>2, <1>4, <1>6, <1>7 DEF HandOver
  <1> QED
    BY <1>1, <1>2, <1>3, <1>5, <1>8 DEF CountersInv

LEMMA AccumulateKept ==
    ASSUME CountersInv, NEW t \in N!Threads, N!Accumulate(t)
    PROVE  CountersInv'
  <1>1. /\ counting = N!semaphore /\ t = 2 /\ cPc[2] = "begin" /\ left[2] # << >> /\ sem_one > 0
        /\ sem_one' = sem_one - 1 /\ added' = Append(added, num) /\ N!Go(2, "post")
        /\ UNCHANGED <<counting, cMain, created, left, reg, num, holder, sem_two>>
    BY DEF N!Accumulate
  <1>2. /\ CounterTypes /\ HandOver /\ LastThread = 2 /\ 1 \in N!Threads /\ 2 \in N!Threads /\ Rounds \in Nat
        /\ Len(left[1]) \in Nat /\ Len(left[2]) \in Nat /\ added \in Seq(Int) /\ num \in Int
        /\ Handed(1) \in Nat /\ Handed(2) \in Nat /\ Taken(1) \in Nat /\ Taken(2) \in Nat
        /\ sem_one \in Int /\ sem_two \in Int
        /\ counting \notin {N!mutex, N!thread1, N!thread2, N!thread3, N!thread4}
    BY <1>1, Handing DEF CounterTypes
  <1>3. /\ ThreadsStand' /\ cPc' \in [N!Threads -> {"unborn", "begin", "load", "store", "post", "done"}]
        /\ \A q \in N!Threads : cPc'[q] = IF q = 2 THEN "post" ELSE cPc[q]
    BY <1>1, <1>2, GoesOn
  <1>4. added' \in Seq(Int) /\ Len(added') = Len(added) + 1 /\ Len(added) \in Nat
        /\ \A i \in 1 .. Len(added) + 1 : added'[i] = IF i = Len(added) + 1 THEN num ELSE added[i]
    BY <1>1, <1>2
  <1>5. CounterTypes'
    BY <1>1, <1>2, <1>3, <1>4 DEF CounterTypes
  <1>6. /\ Handed(1)' = Handed(1) /\ Handed(2)' = Handed(2) /\ Taken(1)' = Taken(1)
        /\ Taken(2)' = Handed(2) + 1 /\ Taken(2) = Handed(2) /\ (Taken(1) = Handed(1) \/ Taken(1) = Handed(1) + 1)
    BY <1>1, <1>2, <1>3 DEF Handed, Taken
  <1>7. num = Len(added) + 1
    <2>1. /\ num = Taken(1) /\ Len(added) = Taken(2) /\ sem_one = Handed(1) - Taken(2)
          /\ sem_two = (Handed(2) + 1) - Taken(1) /\ sem_two >= 0 /\ sem_one > 0
      BY <1>1, <1>2 DEF HandOver
    <2> QED
      BY <1>2, <1>6, <2>1
  <1>8. /\ Len(added') = Taken(2)' /\ \A i \in 1 .. Len(added') : added'[i] = i
        /\ sem_one' = Handed(1) - Taken(2)' /\ sem_one' >= 0
    <2>1. Len(added) = Taken(2) /\ sem_one = Handed(1) - Taken(2) /\ \A i \in 1 .. Len(added) : added[i] = i
      BY <1>2 DEF HandOver
    <2>2. Len(added') = Taken(2)' /\ sem_one' = Handed(1) - Taken(2)' /\ sem_one' >= 0
      <3>1. Len(added') = Handed(2) + 1
        BY <1>4, <1>6, <2>1
      <3>2. sem_one = Handed(1) - Handed(2) /\ sem_one' = sem_one - 1 /\ sem_one > 0
        BY <1>1, <1>6, <2>1
      <3>3. sem_one' = Handed(1) - (Handed(2) + 1) /\ sem_one' >= 0
        BY <1>2, <3>2
      <3> QED
        BY <1>6, <3>1, <3>3
    <2>3. ASSUME NEW i \in 1 .. Len(added) + 1 PROVE added'[i] = i
      <3>1. i = Len(added) + 1 \/ i \in 1 .. Len(added)
        BY <1>4
      <3> QED
        BY <1>4, <1>7, <2>1, <3>1
    <2> QED
      BY <1>4, <2>2, <2>3
  <1>9. HandOver'
    BY <1>1, <1>2, <1>6, <1>8 DEF HandOver
  <1> QED
    BY <1>1, <1>2, <1>3, <1>5, <1>9 DEF CountersInv

LEMMA PostKept ==
    ASSUME CountersInv, NEW t \in N!Threads, N!Post(t)
    PROVE  CountersInv'
  <1>1. /\ counting = N!semaphore /\ cPc[t] = "post" /\ left' = [left EXCEPT ![t] = Tail(left[t])] /\ N!Go(t, "begin")
        /\ UNCHANGED <<counting, cMain, created, reg, num, holder, added>>
        /\ IF t = 1 THEN sem_one' = sem_one + 1 /\ UNCHANGED sem_two
                    ELSE sem_two' = sem_two + 1 /\ UNCHANGED sem_one
    BY DEF N!Post
  <1>2. /\ CounterTypes /\ HandOver /\ LastThread = 2 /\ 1 \in N!Threads /\ 2 \in N!Threads /\ Rounds \in Nat
        /\ left \in [N!Threads -> Seq(Int)] /\ left[t] \in Seq(Int)
        /\ left[1] \in Seq(Int) /\ Len(left[1]) \in Nat /\ Len(left[2]) \in Nat
        /\ Handed(1) \in Nat /\ Handed(2) \in Nat /\ Taken(1) \in Nat /\ Taken(2) \in Nat
        /\ sem_one \in Int /\ sem_two \in Int /\ Len(added) = Taken(2) /\ num = Taken(1)
        /\ sem_one = Handed(1) - Taken(2) /\ sem_two = (Handed(2) + 1) - Taken(1) /\ sem_one >= 0 /\ sem_two >= 0
        /\ counting \notin {N!mutex, N!thread1, N!thread2, N!thread3, N!thread4}
    BY <1>1, Handing DEF CounterTypes, HandOver
  <1>3. /\ ThreadsStand' /\ cPc' \in [N!Threads -> {"unborn", "begin", "load", "store", "post", "done"}]
        /\ \A q \in N!Threads : cPc'[q] = IF q = t THEN "begin" ELSE cPc[q]
    <2>1. \A q \in N!Threads : q # t => left'[q] = left[q]
      BY <1>1, <1>2
    <2> QED
      BY <1>1, <2>1, GoesOn
  <1>4. t \in {1, 2} /\ left[t] # << >>
    <2>1. ThreadStands(t) /\ created <= LastThread /\ created \in Nat /\ t \in Nat /\ t >= 1
      BY CountersKnown, CounterFacts DEF ThreadsStand
    <2>2. ~(t > created) /\ left[t] # << >>
      BY <1>1, <2>1 DEF ThreadStands
    <2> QED
      BY <1>2, <2>1, <2>2
  <1>5. left'[t] = Tail(left[t]) /\ Tail(left[t]) \in Seq(Int) /\ Len(left'[t]) = Len(left[t]) - 1
        /\ \A i \in 1 .. Len(left[t]) - 1 : left'[t][i] = left[t][i + 1]
    BY <1>1, <1>2, <1>4
  <1>6. CounterTypes'
    <2>1. left' \in [N!Threads -> Seq(Int)]
      BY <1>1, <1>2, <1>5
    <2>2. sem_one \in Int /\ sem_two \in Int
      BY <1>2 DEF CounterTypes
    <2>3. sem_one' \in {sem_one, sem_one + 1} /\ sem_two' \in {sem_two, sem_two + 1}
      BY <1>1
    <2>4. sem_one' \in Int /\ sem_two' \in Int
      BY <2>2, <2>3
    <2> QED
      BY <1>1, <1>2, <1>3, <2>1, <2>4 DEF CounterTypes
  <1>7. HandOver'
    <2>1. CASE t = 1
      <3>1. left'[2] = left[2] /\ Len(left'[1]) = Len(left[1]) - 1 /\ Len(left[1]) \in Nat
        BY <1>1, <1>2, <1>5, <2>1
      <3>2. /\ Handed(1)' = Handed(1) + 1 /\ Handed(2)' = Handed(2)
            /\ Taken(1) = Handed(1) + 1 /\ Taken(1)' = Handed(1) + 1 /\ Taken(2)' = Taken(2)
        <4>1. cPc[1] = "post" /\ cPc'[1] = "begin" /\ cPc'[2] = cPc[2]
          BY <1>1, <1>2, <1>3, <2>1
        <4>2. Handed(1)' = Handed(1) + 1 /\ Handed(2)' = Handed(2)
          BY <1>2, <3>1 DEF Handed
        <4>3. Handed(1) + 1 \in Int /\ Handed(1)' + 0 = Handed(1) + 1 /\ Handed(1) + 1 = Taken(1)
          BY <1>2, <4>1, <4>2 DEF Taken
        <4>4. Taken(1)' = Handed(1)' + 0 /\ Taken(2)' = Taken(2)
          BY <4>1, <4>2 DEF Taken
        <4> QED
          BY <4>2, <4>3, <4>4
      <3>3. sem_one' = Handed(1)' - Taken(2)' /\ sem_two' = (Handed(2)' + 1) - Taken(1)' /\ sem_one' >= 0 /\ sem_two' >= 0
        <4>1. /\ Handed(1)' = Handed(1) + 1 /\ Handed(2)' = Handed(2)
              /\ Taken(1) = Handed(1) + 1 /\ Taken(1)' = Handed(1) + 1 /\ Taken(2)' = Taken(2)
          BY <3>2, Zenon
        <4>2. sem_one' = sem_one + 1 /\ sem_two' = sem_two
          BY <1>1, <2>1
        <4>3. Handed(1) \in Nat /\ Handed(2) \in Nat /\ Taken(2) \in Nat /\ sem_one >= 0 /\ sem_two >= 0
          BY <1>2, Zenon
        <4>4. sem_one = Handed(1) - Taken(2) /\ sem_two = (Handed(2) + 1) - (Handed(1) + 1)
          BY <1>2, <4>1, Zenon
        <4>5. sem_one' = (Handed(1) + 1) - Taken(2) /\ sem_two' = (Handed(2) + 1) - (Handed(1) + 1) /\ sem_one' >= 0 /\ sem_two' >= 0
          BY <4>2, <4>3, <4>4
        <4> QED
          BY <4>1, <4>5, Zenon
      <3>4. ASSUME NEW i \in 1 .. Len(left'[1]) PROVE left'[1][i] = Handed(1)' + i
        <4>1. i \in 1 .. Len(left[1]) - 1 /\ i + 1 \in 1 .. Len(left[1]) /\ i \in Nat
          BY <1>2, <3>1
        <4>2. left'[1][i] = left[1][i + 1] /\ left[1][i + 1] = Handed(1) + (i + 1)
          BY <1>2, <1>5, <2>1, <4>1 DEF HandOver
        <4> QED
          BY <1>2, <3>2, <4>1, <4>2
      <3>5. Len(left'[1]) <= Rounds /\ Len(left'[2]) <= Rounds
        BY <1>2, <3>1 DEF HandOver
      <3>6. num' = Taken(1)' /\ Len(added') = Taken(2)' /\ \A i \in 1 .. Len(added') : added'[i] = i
        BY <1>1, <1>2, <3>2 DEF HandOver
      <3> QED
        BY <3>3, <3>4, <3>5, <3>6 DEF HandOver
    <2>2. CASE t = 2
      <3>1. left'[1] = left[1] /\ Len(left'[2]) = Len(left[2]) - 1 /\ Len(left[2]) \in Nat
        BY <1>1, <1>2, <1>5, <2>2
      <3>2. /\ Handed(2)' = Handed(2) + 1 /\ Handed(1)' = Handed(1)
            /\ Taken(2) = Handed(2) + 1 /\ Taken(2)' = Handed(2) + 1 /\ Taken(1)' = Taken(1)
        <4>1. cPc[2] = "post" /\ cPc'[2] = "begin" /\ cPc'[1] = cPc[1]
          BY <1>1, <1>2, <1>3, <2>2
        <4>2. Handed(2)' = Handed(2) + 1 /\ Handed(1)' = Handed(1)
          BY <1>2, <3>1 DEF Handed
        <4>3. Handed(2) + 1 \in Int /\ Handed(2)' + 0 = Handed(2) + 1 /\ Handed(2) + 1 = Taken(2)
          BY <1>2, <4>1, <4>2 DEF Taken
        <4>4. Taken(2)' = Handed(2)' + 0 /\ Taken(1)' = Taken(1)
          BY <4>1, <4>2 DEF Taken
        <4> QED
          BY <4>2, <4>3, <4>4
      <3>3. sem_one' = Handed(1)' - Taken(2)' /\ sem_two' = (Handed(2)' + 1) - Taken(1)' /\ sem_one' >= 0 /\ sem_two' >= 0
        <4>1. /\ Handed(2)' = Handed(2) + 1 /\ Handed(1)' = Handed(1)
              /\ Taken(2) = Handed(2) + 1 /\ Taken(2)' = Handed(2) + 1 /\ Taken(1)' = Taken(1)
          BY <3>2, Zenon
        <4>2. sem_two' = sem_two + 1 /\ sem_one' = sem_one
          BY <1>1, <2>2
        <4>3. Handed(1) \in Nat /\ Handed(2) \in Nat /\ Taken(1) \in Nat /\ sem_one >= 0 /\ sem_two >= 0
          BY <1>2, Zenon
        <4>4. sem_one = Handed(1) - (Handed(2) + 1) /\ sem_two = (Handed(2) + 1) - Taken(1)
          BY <1>2, <4>1, Zenon
        <4>5. sem_one' = Handed(1) - (Handed(2) + 1) /\ sem_two' = (Handed(2) + 1 + 1) - Taken(1) /\ sem_one' >= 0 /\ sem_two' >= 0
          BY <4>2, <4>3, <4>4
        <4> QED
          BY <4>1, <4>5, Zenon
      <3>4. \A i \in 1 .. Len(left'[1]) : left'[1][i] = Handed(1)' + i
        BY <1>2, <3>1, <3>2 DEF HandOver
      <3>5. Len(left'[1]) <= Rounds /\ Len(left'[2]) <= Rounds
        BY <1>2, <3>1 DEF HandOver
      <3>6. num' = Taken(1)' /\ Len(added') = Taken(2)' /\ \A i \in 1 .. Len(added') : added'[i] = i
        BY <1>1, <1>2, <3>2 DEF HandOver
      <3> QED
        BY <3>3, <3>4, <3>5, <3>6 DEF HandOver
    <2> QED
      BY <1>4, <2>1, <2>2
  <1> QED
    BY <1>1, <1>2, <1>3, <1>6, <1>7 DEF CountersInv

LEMMA RoundKept ==
    ASSUME CountersInv, NEW t \in N!Threads, N!Round(t)
    PROVE  CountersInv'
  <1>1. /\ counting \in {N!thread1, N!thread2} /\ cPc[t] = "begin" /\ left[t] # << >>
        /\ left' = [left EXCEPT ![t] = Tail(left[t])]
        /\ UNCHANGED <<counting, cMain, created, cPc, reg, num, holder, sem_one, sem_two, added>>
    BY DEF N!Round
  <1>2. /\ CounterTypes /\ left \in [N!Threads -> Seq(Int)] /\ left[t] \in Seq(Int)
        /\ counting \notin {N!mutex, N!thread3, N!thread4, N!semaphore}
    BY <1>1, CountersKnown, ProgramsDiffer DEF CounterTypes
  <1>3. N!Go(t, "begin")
    BY <1>1, <1>2 DEF CounterTypes, N!Go
  <1>4. /\ left' \in [N!Threads -> Seq(Int)] /\ \A q \in N!Threads : q # t => left'[q] = left[q]
    <2>1. Tail(left[t]) \in Seq(Int)
      BY <1>1, <1>2
    <2> QED
      BY <1>1, <1>2, <2>1
  <1>5. ThreadsStand'
    BY <1>1, <1>3, <1>4, GoesOn
  <1>6. CounterTypes'
    BY <1>1, <1>2, <1>4 DEF CounterTypes
  <1> QED
    BY <1>1, <1>2, <1>5, <1>6 DEF CountersInv

LEMMA CountersInit ==
    ASSUME ProgramsInit
    PROVE  CountersInv
  <1>1. /\ counting \in N!Programs /\ cMain = "create" /\ created = 0 /\ cPc = [t \in N!Threads |-> "unborn"]
        /\ left = [t \in N!Threads |-> N!Numbers(counting, t)] /\ reg = [t \in N!Threads |-> 0]
        /\ num = 0 /\ holder = 0 /\ sem_one = 0 /\ sem_two = 1 /\ added = << >>
    BY DEF ProgramsInit, N!Init
  <1>2. /\ N!Threads = 1 .. NUM_THREAD /\ NUM_THREAD \in Nat /\ Rounds \in Nat /\ Rounds >= 1
        /\ 1 \in N!Threads /\ 2 \in N!Threads /\ LastThread \in Nat /\ LastThread >= 1
        /\ counting \in {N!semaphore, N!thread3} => LastThread = 2
    BY <1>1, CounterFacts
  <1>3. /\ \A t \in N!Threads : left[t] = N!Numbers(counting, t) /\ left[t] \in Seq(Int) /\ Len(left[t]) = Rounds
        /\ left \in [N!Threads -> Seq(Int)]
    BY <1>1, NumbersAre
  <1>4. CounterTypes
    <2>1. added \in Seq(Int)
      BY <1>1
    <2> QED
      BY <1>1, <1>3, <2>1 DEF CounterTypes
  <1>5. ThreadsStand
    <2>1. \A t \in N!Threads : ThreadStands(t)
      BY <1>1, <1>2 DEF ThreadStands
    <2> QED
      BY <1>1, <1>2, <2>1 DEF ThreadsStand
  <1>6. ASSUME counting = N!mutex PROVE Exact
    <2>1. Lefts = [t \in N!Threads |-> N!Sum(N!Numbers(N!mutex, t))]
      BY <1>3, <1>6 DEF Lefts
    <2>2. Parts(NUM_THREAD, left, 1 .. NUM_THREAD) = Lefts
      BY <1>2 DEF Lefts, Parts
    <2>3. N!Sum(Lefts) \in Int
      BY <1>2, <1>3, <2>2, PartsSum
    <2>4. num + N!Sum(Lefts) = Total
      BY <1>1, <2>1, <2>3 DEF Total
    <2> QED
      BY <1>1, <1>2, <2>4 DEF Exact
  <1>7. ASSUME counting \in {N!thread3, N!thread4} PROVE Bounded
    <2>1. Ups = AllUps /\ Downs = AllDowns
      BY <1>3 DEF Ups, AllUps, Downs, AllDowns
    <2>2. N!Sum(AllUps) \in Int /\ N!Sum(AllDowns) \in Int
      BY <1>1, AllSums
    <2>3. Between(num)
      BY <1>1, <2>1, <2>2 DEF Between
    <2>4. ASSUME NEW t \in N!Threads
          PROVE  /\ cPc[t] # "store" /\ (Rises(t) => left[t] \in Seq(Nat)) /\ (Falls(t) => left[t] \in Seq(Negative))
      BY <1>1, <1>3, <1>7, NumbersAre
    <2> QED
      BY <2>3, <2>4 DEF Bounded
  <1>8. ASSUME counting = N!thread3 PROVE LastNumberIn
    <2>1. ASSUME NEW t \in {1, 2}
          PROVE  /\ cPc[t] # "store" /\ left[t] \in Seq(Nat) /\ left[t] # << >>
                 /\ left[t][Len(left[t])] >= Rounds
      <3>1. t \in N!Threads /\ t \in Nat /\ t >= 1 /\ t <= LastThread
        BY <1>2, <1>8
      <3>2. left[t] = [k \in 1 .. Rounds |-> (t - 1) * Rounds + k]
        BY <1>1, <1>3, <1>8, <3>1, NumbersAre
      <3>3. left[t][Rounds] >= Rounds
        <4>1. (t - 1) * Rounds \in Nat
          BY <1>2, <3>1
        <4>2. left[t][Rounds] = (t - 1) * Rounds + Rounds
          BY <1>2, <3>2
        <4> QED
          BY <1>2, <4>1, <4>2
      <3>4. left[t] \in Seq(Nat)
        BY <1>1, <1>3, <1>8, <3>1, NumbersAre DEF Rises
      <3>5. left[t] # << >>
        BY <1>2, <1>3, <3>1
      <3> QED
        BY <1>1, <1>3, <3>1, <3>3, <3>4, <3>5
    <2> QED
      BY <1>1, <2>1 DEF LastNumberIn
  <1>9. ASSUME counting = N!semaphore PROVE HandOver
    <2>1. Handed(1) = 0 /\ Handed(2) = 0 /\ Taken(1) = 0 /\ Taken(2) = 0
      BY <1>1, <1>2, <1>3 DEF Handed, Taken
    <2>2. left[1] = [k \in 1 .. Rounds |-> k]
      BY <1>1, <1>2, <1>3, <1>9, NumbersAre
    <2>3. \A i \in 1 .. Len(left[1]) : left[1][i] = Handed(1) + i
      BY <1>2, <1>3, <2>1, <2>2
    <2>4. Len(left[1]) <= Rounds /\ Len(left[2]) <= Rounds
      BY <1>2, <1>3
    <2>5. Len(added) = 0 /\ \A i \in 1 .. Len(added) : added[i] = i
      BY <1>1
    <2>6. num = Taken(1) /\ Len(added) = Taken(2)
      BY <1>1, <2>1, <2>5
    <2>7. sem_one = Handed(1) - Taken(2) /\ sem_two = (Handed(2) + 1) - Taken(1)
      BY <1>1, <2>1
    <2>8. sem_one >= 0 /\ sem_two >= 0
      BY <1>1
    <2> QED
      BY <2>3, <2>4, <2>5, <2>6, <2>7, <2>8 DEF HandOver
  <1> QED
    BY <1>4, <1>5, <1>6, <1>7, <1>8, <1>9 DEF CountersInv

LEMMA CountersNext ==
    ASSUME CountersInv, N!Next
    PROVE  CountersInv'
  <1>1. CASE N!MainStep
    BY <1>1, CreateKept, EndKept DEF N!MainStep
  <1>2. ASSUME NEW t \in N!Threads, N!ThreadStep(t) PROVE CountersInv'
    BY <1>2, EnterKept, LoadKept, StoreKept, LeaveKept, ReadNumberKept, AccumulateKept, PostKept, RoundKept, ReturnKept
       DEF N!ThreadStep
  <1> QED
    BY <1>1, <1>2 DEF N!Next

LEMMA CountersStutter ==
    ASSUME CountersInv, UNCHANGED counters
    PROVE  CountersInv'
  <1>1. UNCHANGED <<counting, cMain, created, cPc, left, reg, num, holder, sem_one, sem_two, added>>
    BY DEF counters
  <1>2. CounterTypes'
    BY <1>1, CountersKnown DEF CounterTypes
  <1>3. ThreadsStand'
    <2>1. LastThread' = LastThread
      BY <1>1 DEF LastThread
    <2>2. \A t \in N!Threads : ThreadStands(t)'
      BY <1>1, <2>1, CountersKnown DEF ThreadStands
    <2> QED
      BY <1>1, <2>1, <2>2, CountersKnown DEF ThreadsStand
  <1>4. counting = N!mutex => \A t \in N!Threads : cPc'[t] \in {"load", "store"} <=> holder' = t
    BY <1>1 DEF CountersInv, Exact
  <1> QED
    BY <1>1, <1>2, <1>3, <1>4, CountsQuiet

LEMMA SumZero ==
    ASSUME NEW m \in Nat, NEW s, s \in [1 .. m -> {0}]
    PROVE  N!Sum(s) = 0
  <1>1. s \in Seq({0})
    OBVIOUS
  <1>2. N!Sum(s) \in {0}
    BY <1>1, SumIn, Additives
  <1> QED
    BY <1>2

LEMMA NoneLeft ==
    ASSUME CountersInv, cMain = "ended", counting # N!thread1
    PROVE  \A t \in N!Threads : t <= LastThread => left[t] = << >>
  BY CountersKnown DEF ThreadStands

(* The numbers of thread_inc() and of thread_des(). *)
LEMMA SumsOfOnes ==
    ASSUME NEW t \in N!Threads, counting = N!thread4
    PROVE  N!Sum(N!Numbers(counting, t)) = IF t % 2 = 0 THEN Rounds ELSE -Rounds
  <1>1. Rounds \in Nat /\ counting \in N!Programs
    BY CounterFacts DEF N!Programs
  <1>2. N!Numbers(counting, t) = (IF t % 2 = 0 THEN [k \in 1 .. Rounds |-> 1] ELSE [k \in 1 .. Rounds |-> -1])
    BY <1>1, NumbersAre
  <1>3. N!Sum([k \in 1 .. Rounds |-> 1]) = Rounds
    <2> DEFINE s == [k \in 1 .. Rounds |-> 1]
               f == [n \in 0 .. Rounds |-> n]
    <2>1. s \in Seq(Int) /\ Len(s) = Rounds
      BY <1>1
    <2>2. f \in [0 .. Len(s) -> Int] /\ f[0] = 0 /\ f[Len(s)] = Rounds
      BY <1>1, <2>1
    <2>3. ASSUME NEW n \in 1 .. Len(s) PROVE f[n] = f[n - 1] + s[n]
      BY <1>1, <2>1
    <2> HIDE DEF f, s
    <2>4. N!Sum(s) = f[Len(s)]
      BY <2>1, <2>2, <2>3, SumForm
    <2> QED
      BY <2>2, <2>4 DEF s
  <1>4. N!Sum([k \in 1 .. Rounds |-> -1]) = -Rounds
    <2> DEFINE s == [k \in 1 .. Rounds |-> -1]
               f == [n \in 0 .. Rounds |-> 0 - n]
    <2>1. s \in Seq(Int) /\ Len(s) = Rounds
      BY <1>1
    <2>2. f \in [0 .. Len(s) -> Int] /\ f[0] = 0 /\ f[Len(s)] = -Rounds
      <3>1. \A n \in 0 .. Rounds : 0 - n \in Int
        BY <1>1
      <3>2. Rounds \in 0 .. Rounds /\ 0 \in 0 .. Rounds
        BY <1>1
      <3>3. f \in [0 .. Rounds -> Int]
        BY <3>1
      <3>4. f[Rounds] = -Rounds /\ f[0] = 0
        <4>1. f[Rounds] = 0 - Rounds /\ f[0] = 0 - 0
          BY <3>2
        <4> HIDE DEF f
        <4> QED
          BY <1>1, <4>1
      <3> QED
        BY <2>1, <3>3, <3>4
    <2>3. ASSUME NEW n \in 1 .. Len(s) PROVE f[n] = f[n - 1] + s[n]
      BY <1>1, <2>1
    <2> HIDE DEF f, s
    <2>4. N!Sum(s) = f[Len(s)]
      BY <2>1, <2>2, <2>3, SumForm
    <2> QED
      BY <2>2, <2>4 DEF s
  <1> QED
    BY <1>2, <1>3, <1>4

(* What the threads of thread4.c add, and what they take away. *)
LEMMA Thread4Sums ==
    ASSUME counting = N!thread4
    PROVE  /\ N!Sum(AllUps) = Rounds * (NUM_THREAD \div 2)
           /\ N!Sum(AllDowns) = -(Rounds * ((NUM_THREAD + 1) \div 2))
  <1> DEFINE m == NUM_THREAD
             R == Rounds
  <1>1. m \in Nat /\ R \in Nat /\ N!Threads = 1 .. m /\ LastThread = m /\ counting # N!thread3
    BY CounterFacts, ProgramsDiffer DEF N!Programs
  <1>2. \A t \in 1 .. m : /\ AllUps[t] = (IF t % 2 = 0 THEN R ELSE 0)
                          /\ AllDowns[t] = (IF t % 2 = 0 THEN 0 ELSE -R)
    <2>1. ASSUME NEW t \in 1 .. m
          PROVE  /\ AllUps[t] = (IF t % 2 = 0 THEN R ELSE 0)
                 /\ AllDowns[t] = (IF t % 2 = 0 THEN 0 ELSE -R)
      <3>1. t \in N!Threads /\ t <= LastThread
        BY <1>1
      <3>2. (Rises(t) <=> t % 2 = 0) /\ (Falls(t) <=> t % 2 # 0)
        BY <1>1, <3>1 DEF Rises, Falls
      <3>3. N!Sum(N!Numbers(counting, t)) = IF t % 2 = 0 THEN R ELSE -R
        BY <3>1, SumsOfOnes
      <3>4. /\ AllUps[t] = IF Rises(t) THEN N!Sum(N!Numbers(counting, t)) ELSE 0
            /\ AllDowns[t] = IF Falls(t) THEN N!Sum(N!Numbers(counting, t)) ELSE 0
        BY <3>1 DEF AllUps, AllDowns
      <3> QED
        BY <3>2, <3>3, <3>4
    <2> QED
      BY <2>1
  <1>3. AllUps \in [1 .. m -> Int] /\ AllDowns \in [1 .. m -> Int]
    <2>1. AllUps = [t \in 1 .. m |-> AllUps[t]] /\ AllDowns = [t \in 1 .. m |-> AllDowns[t]]
      BY <1>1 DEF AllUps, AllDowns
    <2>2. -R \in Int
      BY <1>1
    <2>3. \A t \in 1 .. m : AllUps[t] \in Int /\ AllDowns[t] \in Int
      BY <1>1, <1>2, <2>2
    <2> HIDE DEF m, R
    <2> QED
      BY <2>1, <2>3
  <1> HIDE DEF m, R
  <1>4. PICK up, down : up = AllUps /\ down = AllDowns
    OBVIOUS
  <1>5. /\ up \in Seq(Int) /\ Len(up) = m /\ down \in Seq(Int) /\ Len(down) = m
    BY <1>1, <1>3, <1>4
  <1>6. \A n \in 1 .. m : /\ up[n] = (IF n % 2 = 0 THEN R ELSE 0)
                          /\ down[n] = (IF n % 2 = 0 THEN 0 ELSE -R)
    BY <1>2, <1>4
  <1> DEFINE f == [n \in 0 .. m |-> R * (n \div 2)]
             g == [n \in 0 .. m |-> -(R * ((n + 1) \div 2))]
  <1>7. \A x \in Int : R * x \in Int /\ R * (x + 1) = R * x + R /\ R * 0 = 0
    BY <1>1
  <1>8. \A n \in Nat : n \div 2 \in Nat /\ (n + 1) \div 2 \in Nat
    OBVIOUS
  <1>9. N!Sum(up) = f[m]
    <2>1. f \in [0 .. Len(up) -> Int] /\ f[0] = 0
      <3>1. 0 \div 2 = 0
        OBVIOUS
      <3> QED
        BY <1>1, <1>5, <1>7, <1>8, <3>1
    <2>2. ASSUME NEW n \in 1 .. Len(up) PROVE f[n] = f[n - 1] + up[n]
      <3>1. n \in 1 .. m /\ n \in 0 .. m /\ n - 1 \in 0 .. m /\ n - 1 \in Nat /\ n \in Nat
        BY <1>1, <1>5
      <3>2. f[n] = R * (n \div 2) /\ f[n - 1] = R * ((n - 1) \div 2)
        BY <3>1
      <3>3. CASE n % 2 = 0
        <4>1. n \div 2 = ((n - 1) \div 2) + 1
          BY <3>1, <3>3
        <4>2. up[n] = R
          BY <1>6, <3>1, <3>3
        <4>3. PICK x \in Int : x = (n - 1) \div 2
          BY <1>8, <3>1
        <4>4. f[n] = R * x + R /\ f[n - 1] = R * x
          BY <1>7, <3>2, <4>1, <4>3
        <4> HIDE DEF f
        <4> QED
          BY <4>2, <4>4
      <3>4. CASE n % 2 # 0
        <4>1. n \div 2 = (n - 1) \div 2
          BY <3>1, <3>4
        <4>2. up[n] = 0
          BY <1>6, <3>1, <3>4
        <4>3. PICK x \in Int : x = (n - 1) \div 2
          BY <1>8, <3>1
        <4>4. f[n] = R * x /\ f[n - 1] = R * x /\ R * x \in Int
          BY <1>7, <3>2, <4>1, <4>3
        <4> HIDE DEF f
        <4> QED
          BY <4>2, <4>4
      <3> QED
        BY <3>3, <3>4
    <2> HIDE DEF f
    <2> QED
      BY <1>5, <2>1, <2>2, SumForm
  <1>10. N!Sum(down) = g[m]
    <2>1. g \in [0 .. Len(down) -> Int] /\ g[0] = 0
      <3>1. (0 + 1) \div 2 = 0
        OBVIOUS
      <3> QED
        BY <1>1, <1>5, <1>7, <1>8, <3>1
    <2>2. ASSUME NEW n \in 1 .. Len(down) PROVE g[n] = g[n - 1] + down[n]
      <3>1. n \in 1 .. m /\ n \in 0 .. m /\ n - 1 \in 0 .. m /\ n - 1 \in Nat /\ n \in Nat /\ (n - 1) + 1 = n
        BY <1>1, <1>5
      <3>2. g[n] = -(R * ((n + 1) \div 2)) /\ g[n - 1] = -(R * (n \div 2))
        BY <3>1
      <3>3. CASE n % 2 = 0
        <4>1. (n + 1) \div 2 = n \div 2
          BY <3>1, <3>3
        <4>2. down[n] = 0
          BY <1>6, <3>1, <3>3
        <4>3. PICK x \in Int : x = n \div 2
          BY <1>8, <3>1
        <4>4. g[n] = -(R * x) /\ g[n - 1] = -(R * x) /\ R * x \in Int
          BY <1>7, <3>2, <4>1, <4>3
        <4> HIDE DEF g
        <4> QED
          BY <4>2, <4>4
      <3>4. CASE n % 2 # 0
        <4>1. (n + 1) \div 2 = (n \div 2) + 1
          BY <3>1, <3>4
        <4>2. down[n] = -R
          BY <1>6, <3>1, <3>4
        <4>3. PICK x \in Int : x = n \div 2
          BY <1>8, <3>1
        <4>4. g[n] = -(R * x + R) /\ g[n - 1] = -(R * x) /\ R * x \in Int
          BY <1>7, <3>2, <4>1, <4>3
        <4> HIDE DEF g
        <4> QED
          BY <1>1, <4>2, <4>4
      <3> QED
        BY <3>3, <3>4
    <2> HIDE DEF g
    <2> QED
      BY <1>5, <2>1, <2>2, SumForm
  <1>11. f[m] = R * (m \div 2) /\ g[m] = -(R * ((m + 1) \div 2))
    BY <1>1
  <1> HIDE DEF f, g
  <1> QED
    BY <1>4, <1>9, <1>10, <1>11 DEF m, R

(* What the two threads of thread3.c add. *)
LEMMA Thread3Sum ==
    ASSUME counting = N!thread3
    PROVE  N!Sum(AllUps) = N!Sum(N!Numbers(N!thread3, 1)) + N!Sum(N!Numbers(N!thread3, 2))
  <1> DEFINE m == NUM_THREAD
             a == N!Sum(N!Numbers(N!thread3, 1))
             b == N!Sum(N!Numbers(N!thread3, 2))
  <1>1. m \in Nat /\ m >= 2 /\ N!Threads = 1 .. m /\ LastThread = 2 /\ counting \in N!Programs
    <2>1. counting \in N!Programs
      BY DEF N!Programs
    <2> QED
      BY <2>1, CounterFacts
  <1>2. a \in Int /\ b \in Int
    <2>1. 1 \in N!Threads /\ 2 \in N!Threads
      BY <1>1
    <2> QED
      BY <1>1, <2>1, NumbersAre, SumIn, Additives
  <1>3. AllUps = [t \in 1 .. m |-> IF t = 1 THEN a ELSE IF t = 2 THEN b ELSE 0]
    <2>1. \A t \in 1 .. m : Rises(t) <=> (t = 1 \/ t = 2)
      BY <1>1 DEF Rises
    <2> HIDE DEF m
    <2> QED
      BY <1>1, <2>1 DEF AllUps
  <1> HIDE DEF a, b, m
  <1>4. PICK up : up = [t \in 1 .. m |-> IF t = 1 THEN a ELSE IF t = 2 THEN b ELSE 0]
    OBVIOUS
  <1>5. up \in Seq(Int) /\ Len(up) = m
    BY <1>1, <1>2, <1>4
  <1> DEFINE f == [n \in 0 .. m |-> IF n = 0 THEN 0 ELSE IF n = 1 THEN a ELSE a + b]
  <1>6. f \in [0 .. Len(up) -> Int] /\ f[0] = 0 /\ f[m] = a + b
    BY <1>1, <1>2, <1>5
  <1>7. ASSUME NEW n \in 1 .. Len(up) PROVE f[n] = f[n - 1] + up[n]
    BY <1>1, <1>2, <1>4, <1>5
  <1> HIDE DEF f
  <1>8. N!Sum(up) = f[m]
    BY <1>5, <1>6, <1>7, SumForm
  <1> QED
    BY <1>3, <1>4, <1>6, <1>8 DEF a, b

(* Nothing left, the variable is between the sums. *)
LEMMA EndsBetween ==
    ASSUME CountersInv, cMain = "ended", counting \in {N!thread3, N!thread4}
    PROVE  num <= N!Sum(AllUps) /\ num >= N!Sum(AllDowns)
  <1>1. /\ CounterTypes /\ N!Threads = 1 .. NUM_THREAD /\ NUM_THREAD \in Nat /\ num \in Int
        /\ counting \in N!Programs /\ counting # N!thread1 /\ Bounded
    BY CountersKnown, CounterFacts, ProgramsDiffer DEF CountersInv, CounterTypes
  <1>2. \A t \in N!Threads : t <= LastThread => N!Sum(left[t]) = 0
    BY <1>1, NoneLeft, SumEmpty
  <1>3. Ups \in [1 .. NUM_THREAD -> {0}] /\ Downs \in [1 .. NUM_THREAD -> {0}]
    BY <1>1, <1>2 DEF Ups, Downs, Rises, Falls
  <1>4. N!Sum(Ups) = 0 /\ N!Sum(Downs) = 0
    BY <1>1, <1>3, SumZero
  <1>5. N!Sum(AllUps) \in Int /\ N!Sum(AllDowns) \in Int
    BY <1>1, AllSums
  <1> QED
    BY <1>1, <1>4, <1>5 DEF Bounded, Between

LEMMA FirstOf ==
    ASSUME NEW s \in Seq(Int), NEW k \in 0 .. Len(s)
    PROVE  /\ SubSeq(s, 1, k) \in Seq(Int) /\ Len(SubSeq(s, 1, k)) = k
           /\ \A i \in 1 .. k : SubSeq(s, 1, k)[i] = s[i]
  OBVIOUS

LEMMA HandedOn ==
    ASSUME CountersInv, counting = N!semaphore
    PROVE  /\ N!IsPrefix(added, N!Numbers(N!semaphore, 1))
           /\ cMain = "ended" => added = N!Numbers(N!semaphore, 1)
  <1> DEFINE all == N!Numbers(N!semaphore, 1)
  <1>1. /\ CounterTypes /\ HandOver /\ LastThread = 2 /\ 1 \in N!Threads /\ 2 \in N!Threads /\ Rounds \in Nat
        /\ left[2] \in Seq(Int) /\ Len(left[1]) \in Nat /\ Len(left[2]) \in Nat
        /\ Taken(2) \in Nat /\ counting \in N!Programs /\ counting # N!thread1
        /\ Len(added) = Taken(2) /\ Handed(1) \in Nat
    BY Handing DEF HandOver
  <1>2. all = [k \in 1 .. Rounds |-> k] /\ all \in Seq(Int) /\ Len(all) = Rounds
    BY <1>1, NumbersAre
  <1> HIDE DEF all
  <1>3. Len(added) <= Rounds
    <2>1. sem_one = Handed(1) - Taken(2) /\ sem_one >= 0
      BY <1>1 DEF HandOver
    <2>2. Handed(1) <= Rounds
      BY <1>1 DEF Handed
    <2>3. Taken(2) <= Handed(1)
      BY <1>1, <2>1
    <2> QED
      BY <1>1, <2>2, <2>3
  <1>4. PICK s \in Seq(Int) : s = added
    BY <1>1 DEF CounterTypes
  <1>5. \A i \in 1 .. Len(s) : s[i] = i
    BY <1>1, <1>4 DEF HandOver
  <1>6. SubSeq(s, 1, Len(s)) = SubSeq(all, 1, Len(s))
    <2>1. Len(s) \in Nat /\ Len(s) <= Len(all)
      BY <1>1, <1>2, <1>3, <1>4
    <2>2. /\ SubSeq(s, 1, Len(s)) \in Seq(Int) /\ Len(SubSeq(s, 1, Len(s))) = Len(s)
          /\ \A i \in 1 .. Len(s) : SubSeq(s, 1, Len(s))[i] = s[i]
      BY <2>1
    <2> DEFINE k == Len(s)
    <2>3. k \in Nat /\ k <= Rounds /\ k \in 0 .. Len(all)
      <3>1. k \in Nat /\ k <= Rounds
        BY <1>2, <2>1
      <3> HIDE DEF k
      <3> QED
        BY <1>1, <1>2, <3>1
    <2>4. \A i \in 1 .. k : all[i] = i
      <3>1. ASSUME NEW i \in 1 .. k PROVE all[i] = i
        <4>1. i \in 1 .. Rounds
          <5> HIDE DEF k
          <5> QED
            BY <1>1, <2>3
        <4> QED
          BY <1>2, <4>1
      <3> QED
        BY <3>1
    <2>5. /\ SubSeq(all, 1, k) \in Seq(Int) /\ Len(SubSeq(all, 1, k)) = k
          /\ \A i \in 1 .. k : SubSeq(all, 1, k)[i] = all[i]
      <3> HIDE DEF k
      <3> QED
        BY <1>2, <2>3, FirstOf
    <2> DEFINE x == SubSeq(s, 1, Len(s))
               y == SubSeq(all, 1, Len(s))
    <2>6. x \in Seq(Int) /\ y \in Seq(Int) /\ Len(x) = Len(y) /\ \A i \in 1 .. Len(x) : x[i] = y[i]
      BY <1>5, <2>2, <2>4, <2>5
    <2> HIDE DEF x, y
    <2>7. x = y
      BY <2>6, SeqEqual
    <2> QED
      BY <2>7 DEF x, y
  <1>7. N!IsPrefix(added, all)
    BY <1>2, <1>3, <1>4, <1>6 DEF N!IsPrefix
  <1>8. ASSUME cMain = "ended" PROVE added = all
    <2>1. left[2] = << >> /\ cPc[2] = "done"
      BY <1>1, <1>8, NoneLeft, CountersKnown DEF ThreadStands
    <2>2. Len(added) = Rounds
      BY <1>1, <2>1 DEF Taken, Handed
    <2>3. Len(s) = Len(all) /\ \A i \in 1 .. Len(s) : s[i] = all[i]
      BY <1>2, <1>4, <1>5, <2>2
    <2>4. s = all
      BY <1>2, <2>3, SeqEqual
    <2> QED
      BY <1>4, <2>4
  <1> QED
    BY <1>7, <1>8 DEF all

LEMMA CountersShown ==
    ASSUME CountersInv
    PROVE  N!ResultsKnown
  <1>1. /\ CounterTypes /\ N!Threads = 1 .. NUM_THREAD /\ NUM_THREAD \in Nat /\ num \in Int /\ counting \in N!Programs
        /\ 1 \in N!Threads /\ 2 \in N!Threads /\ LastThread \in Nat /\ LastThread >= 1
    BY CountersKnown, CounterFacts DEF CounterTypes
  <1>2. ASSUME cMain = "ended", counting = N!mutex PROVE num = Total
    <2>1. \A t \in N!Threads : left[t] = << >>
      BY <1>1, <1>2, NoneLeft, CounterFacts, ProgramsDiffer
    <2>2. Lefts \in [1 .. NUM_THREAD -> {0}]
      BY <1>1, <2>1, SumEmpty DEF Lefts
    <2>3. N!Sum(Lefts) = 0
      BY <1>1, <2>2, SumZero
    <2> QED
      BY <1>1, <1>2, <2>3 DEF CountersInv, Exact
  <1>3. ASSUME cMain = "ended", counting = N!thread3
        PROVE  /\ num >= Rounds
               /\ num <= N!Sum(N!Numbers(N!thread3, 1)) + N!Sum(N!Numbers(N!thread3, 2))
    <2>1. left[1] = << >> /\ left[2] = << >>
      <3>1. LastThread = 2 /\ counting # N!thread1
        BY <1>1, <1>3, CounterFacts, ProgramsDiffer
      <3> QED
        BY <1>1, <1>3, <3>1, NoneLeft
    <2>2. num >= Rounds
      BY <1>3, <2>1 DEF CountersInv, LastNumberIn
    <2> QED
      BY <1>3, <2>2, EndsBetween, Thread3Sum
  <1>4. ASSUME cMain = "ended", counting = N!thread4
        PROVE  /\ num <= Rounds * (NUM_THREAD \div 2)
               /\ num >= -(Rounds * ((NUM_THREAD + 1) \div 2))
    BY <1>4, EndsBetween, Thread4Sums
  <1>5. ASSUME cMain = "ended", counting = N!thread2 PROVE left[1] = << >>
    BY <1>1, <1>5, NoneLeft, ProgramsDiffer
  <1> QED
    BY <1>2, <1>3, <1>4, <1>5, HandedOn DEF N!ResultsKnown, N!Result, Total

-----------------------------------------------------------------------------
(***************************************************************************)
(* Children.  Who forks when, who has been collected when, and how many    *)
(* zombies a handler of SIGCHLD still has to see.                          *)
(***************************************************************************)
Is(k, state) == IF kid[k] = state THEN 1 ELSE 0
ZombiesLeft == Is(1, "zombie") + Is(2, "zombie")
Reaped == Is(1, "reaped") + Is(2, "reaped")

Forks(prog) == IF prog \in {K!wait, K!remove_zomebie} THEN 2 ELSE 1
Born == IF cAt < Forks(forking) THEN cAt ELSE Forks(forking)

ChildrenTypes ==
    /\ forking \in K!Programs /\ cAt \in 0 .. (Len(forking.parent) + 1)
    /\ kid \in [K!Kids -> {"unborn", "running", "zombie", "reaped", "adopted"}]
    /\ gval \in [{0} \cup K!Kids -> Int]
    /\ pending \in BOOLEAN /\ handling \in BOOLEAN /\ merged \in Nat

ChildrenInv ==
    /\ ChildrenTypes
    /\ ~unset
    /\ \A k \in K!Kids : kid[k] # "unborn" <=> k <= Born
    /\ gval[0] = 11 + Born * forking.change
    /\ Born > 0 => gval[1] = 11 + forking.kidChange
    /\ ~forking.handler => ~pending /\ ~handling /\ merged = 0
    /\ forking.handler /\ ~K!Over => ZombiesLeft = (IF pending THEN 1 ELSE 0) + (IF handling THEN 1 ELSE 0) + merged
    /\ K!Over => ~handling /\ ~pending /\ \A k \in K!Kids : kid[k] \notin {"running", "zombie"}
    /\ forking = K!wait => (cAt >= 3 => Reaped >= 1) /\ (cAt >= 4 => Reaped = 2)
    /\ forking = K!waitpid => (cAt >= 2 => Reaped = 1)

LEMMA KidsCounted ==
    ASSUME NEW S, S \subseteq {1, 2}
    PROVE  Cardinality(S) = (IF 1 \in S THEN 1 ELSE 0) + (IF 2 \in S THEN 1 ELSE 0)
  <1>1. S = {} \/ S = {1} \/ S = {2} \/ S = {1, 2}
    OBVIOUS
  <1>2. Cardinality({}) = 0 /\ Cardinality({1}) = 1 /\ Cardinality({2}) = 1
    BY FS_EmptySet, FS_Singleton
  <1>3. Cardinality({1, 2}) = 2
    <2>1. IsFiniteSet({1})
      BY FS_Singleton, Zenon
    <2>2. 2 \notin {1} /\ {1, 2} = {1} \cup {2}
      OBVIOUS
    <2> QED
      BY <1>2, <2>1, <2>2, FS_AddElement
  <1>4. CASE S = {}
    BY <1>2, <1>4
  <1>5. CASE S = {1}
    BY <1>2, <1>5
  <1>6. CASE S = {2}
    BY <1>2, <1>6
  <1>7. CASE S = {1, 2}
    BY <1>3, <1>7
  <1> QED
    BY <1>1, <1>4, <1>5, <1>6, <1>7

LEMMA ForkingPrograms ==
    /\ \A prog \in K!Programs :
          /\ Len(prog.parent) \in 1 .. 7 /\ Forks(prog) \in {1, 2} /\ Forks(prog) <= Len(prog.parent)
          /\ (prog.handler <=> prog = K!remove_zomebie) /\ prog.change \in Int /\ prog.kidChange \in Int
          /\ Forks(prog) = 2 => prog.change = 0
          /\ \A i \in 0 .. (Len(prog.parent) - 1) :
                /\ prog.parent[i + 1] = K!Fork <=> i < Forks(prog)
                /\ prog.parent[i + 1] = K!Sleep => i >= Forks(prog)
                /\ prog.parent[i + 1] \in {K!Wait, K!Poll} => prog \in {K!wait, K!waitpid}
    /\ Len(K!wait.parent) = 5 /\ K!wait.parent[3] = K!Wait /\ K!wait.parent[4] = K!Wait /\ K!wait.parent[5] = K!Sleep
    /\ Forks(K!wait) = 2
    /\ Len(K!waitpid.parent) = 2 /\ K!waitpid.parent[2] = K!Poll /\ Forks(K!waitpid) = 1
    /\ K!wait # K!waitpid /\ K!remove_zomebie \notin {K!wait, K!waitpid}
  <1>1. /\ K!fork.parent = <<K!Fork>> /\ K!kehou3.parent = <<K!Fork>>
        /\ K!wait.parent = <<K!Fork, K!Fork, K!Wait, K!Wait, K!Sleep>>
        /\ K!waitpid.parent = <<K!Fork, K!Poll>> /\ K!zombie.parent = <<K!Fork, K!Sleep>>
        /\ K!remove_zomebie.parent = <<K!Fork, K!Fork, K!Sleep, K!Sleep, K!Sleep, K!Sleep, K!Sleep>>
        /\ K!Fork = "fork" /\ K!Sleep = "sleep" /\ K!Wait = "wait" /\ K!Poll = "poll"
    BY DEF K!fork, K!kehou3, K!wait, K!waitpid, K!zombie, K!remove_zomebie, K!Program, K!Fork, K!Sleep, K!Wait, K!Poll
  <1>2. /\ ~K!fork.handler /\ ~K!kehou3.handler /\ ~K!wait.handler /\ ~K!waitpid.handler /\ ~K!zombie.handler
        /\ K!remove_zomebie.handler
        /\ K!fork.change = -2 /\ K!kehou3.change = 0 /\ K!wait.change = 0 /\ K!waitpid.change = 0
        /\ K!zombie.change = 0 /\ K!remove_zomebie.change = 0
        /\ K!fork.kidChange = 2 /\ K!kehou3.kidChange = 0 /\ K!wait.kidChange = 0 /\ K!waitpid.kidChange = 0
        /\ K!zombie.kidChange = 0 /\ K!remove_zomebie.kidChange = 0
    BY DEF K!fork, K!kehou3, K!wait, K!waitpid, K!zombie, K!remove_zomebie, K!Program
  <1>3. /\ Len(K!fork.parent) = 1 /\ Len(K!kehou3.parent) = 1 /\ Len(K!wait.parent) = 5
        /\ Len(K!waitpid.parent) = 2 /\ Len(K!zombie.parent) = 2 /\ Len(K!remove_zomebie.parent) = 7
    BY <1>1
  <1>4. /\ Forks(K!wait) = 2 /\ Forks(K!remove_zomebie) = 2
        /\ Forks(K!fork) = 1 /\ Forks(K!kehou3) = 1 /\ Forks(K!waitpid) = 1 /\ Forks(K!zombie) = 1
        /\ K!wait # K!waitpid /\ K!remove_zomebie \notin {K!wait, K!waitpid}
        /\ K!remove_zomebie \notin {K!fork, K!kehou3, K!zombie}
    BY <1>3 DEF Forks
  <1>5. ASSUME NEW prog \in K!Programs, NEW i \in 0 .. (Len(prog.parent) - 1)
        PROVE  /\ prog.parent[i + 1] = K!Fork <=> i < Forks(prog)
               /\ prog.parent[i + 1] = K!Sleep => i >= Forks(prog)
               /\ prog.parent[i + 1] \in {K!Wait, K!Poll} => prog \in {K!wait, K!waitpid}
    <2>1. CASE prog \in {K!fork, K!kehou3}
      BY <1>1, <1>3, <1>4, <2>1
    <2>2. CASE prog = K!waitpid
      <3>1. i \in {0, 1}
        <4>1. Len(prog.parent) = 2
          BY <1>3, <2>2
        <4> QED
          BY <4>1
      <3> QED
        BY <1>1, <1>4, <2>2, <3>1
    <2>3. CASE prog = K!zombie
      <3>1. i \in {0, 1}
        <4>1. Len(prog.parent) = 2
          BY <1>3, <2>3
        <4> QED
          BY <4>1
      <3> QED
        BY <1>1, <1>4, <2>3, <3>1
    <2>4. CASE prog = K!wait
      <3>1. i \in {0, 1, 2, 3, 4}
        <4>1. Len(prog.parent) = 5
          BY <1>3, <2>4
        <4> QED
          BY <4>1
      <3> QED
        BY <1>1, <1>4, <2>4, <3>1
    <2>5. CASE prog = K!remove_zomebie
      <3>1. i \in {0, 1, 2, 3, 4, 5, 6}
        <4>1. Len(prog.parent) = 7
          BY <1>3, <2>5
        <4> QED
          BY <4>1
      <3> QED
        BY <1>1, <1>4, <2>5, <3>1
    <2> QED
      BY <2>1, <2>2, <2>3, <2>4, <2>5 DEF K!Programs
  <1>6. ASSUME NEW prog \in K!Programs
        PROVE  /\ Len(prog.parent) \in 1 .. 7 /\ Forks(prog) \in {1, 2} /\ Forks(prog) <= Len(prog.parent)
               /\ prog.change \in Int /\ prog.kidChange \in Int /\ (Forks(prog) = 2 => prog.change = 0)
    <2>1. \/ Len(prog.parent) = 1 /\ Forks(prog) = 1
          \/ Len(prog.parent) = 2 /\ Forks(prog) = 1
          \/ Len(prog.parent) = 5 /\ Forks(prog) = 2
          \/ Len(prog.parent) = 7 /\ Forks(prog) = 2
      BY <1>3, <1>4 DEF K!Programs
    <2>2. prog.change \in {-2, 0} /\ prog.kidChange \in {0, 2} /\ (Forks(prog) = 2 => prog.change = 0)
      BY <1>2, <1>4 DEF K!Programs
    <2>3. Len(prog.parent) \in 1 .. 7 /\ Forks(prog) \in {1, 2} /\ Forks(prog) <= Len(prog.parent)
      <3>1. PICK n \in {1, 2, 5, 7}, f \in {1, 2} : Len(prog.parent) = n /\ Forks(prog) = f /\ f <= n
        BY <2>1
      <3> QED
        BY <3>1
    <2>4. prog.change \in Int /\ prog.kidChange \in Int
      BY <2>2
    <2> QED
      BY <2>2, <2>3, <2>4
  <1>7. ASSUME NEW prog \in K!Programs PROVE prog.handler <=> prog = K!remove_zomebie
    BY <1>2 DEF K!Programs
  <1> QED
    BY <1>1, <1>3, <1>4, <1>5, <1>6, <1>7

States == {"unborn", "running", "zombie", "reaped", "adopted"}

LEMMA KidChanged ==
    ASSUME ChildrenTypes, NEW k \in K!Kids, NEW s \in States, kid' = [kid EXCEPT ![k] = s]
    PROVE  /\ kid' \in [K!Kids -> States] /\ kid'[k] = s /\ \A j \in K!Kids : j # k => kid'[j] = kid[j]
           /\ ZombiesLeft' = ZombiesLeft - Is(k, "zombie") + (IF s = "zombie" THEN 1 ELSE 0)
           /\ Reaped' = Reaped - Is(k, "reaped") + (IF s = "reaped" THEN 1 ELSE 0)
  <1>1. kid \in [K!Kids -> States] /\ 1 \in K!Kids /\ 2 \in K!Kids /\ (k = 1 \/ k = 2)
    BY DEF ChildrenTypes, States, K!Kids
  <1>2. kid' \in [K!Kids -> States] /\ kid'[k] = s /\ \A j \in K!Kids : j # k => kid'[j] = kid[j]
    BY <1>1
  <1> QED
    BY <1>1, <1>2 DEF ZombiesLeft, Reaped, Is

LEMMA KidsKnown ==
    ASSUME ChildrenInv
    PROVE  /\ 1 \in K!Kids /\ 2 \in K!Kids /\ \A k \in K!Kids : k = 1 \/ k = 2
           /\ Cardinality(K!Zombies) = ZombiesLeft /\ K!Number = Born
           /\ (K!Zombies = {} <=> ZombiesLeft = 0) /\ ZombiesLeft \in 0 .. 2 /\ Reaped \in 0 .. 2
           /\ Born \in 0 .. 2 /\ cAt \in Nat /\ Forks(forking) \in {1, 2}
           /\ kid \in [K!Kids -> States]
  <1>1. 1 \in K!Kids /\ 2 \in K!Kids /\ \A k \in K!Kids : k = 1 \/ k = 2
    BY DEF K!Kids
  <1>2. kid \in [K!Kids -> States]
    BY DEF ChildrenInv, ChildrenTypes, States
  <1>3. cAt \in Nat /\ Forks(forking) \in {1, 2} /\ Born \in 0 .. 2
    BY ForkingPrograms DEF ChildrenInv, ChildrenTypes, Born
  <1>4. Cardinality(K!Zombies) = ZombiesLeft
    <2>1. /\ K!Zombies \subseteq {1, 2} /\ (1 \in K!Zombies <=> kid[1] = "zombie")
          /\ (2 \in K!Zombies <=> kid[2] = "zombie")
      BY <1>1 DEF K!Zombies
    <2> QED
      BY <2>1, KidsCounted DEF ZombiesLeft, Is
  <1>5. K!Number = Born
    <2>1. PICK S : S = {k \in K!Kids : kid[k] # "unborn"}
      OBVIOUS
    <2>2. S \subseteq {1, 2} /\ (1 \in S <=> 1 <= Born) /\ (2 \in S <=> 2 <= Born)
      BY <1>1, <2>1 DEF ChildrenInv
    <2>3. Cardinality(S) = Born
      <3>1. Cardinality(S) = (IF 1 \in S THEN 1 ELSE 0) + (IF 2 \in S THEN 1 ELSE 0)
        BY <2>2, KidsCounted
      <3> QED
        BY <1>3, <2>2, <3>1
    <2>4. K!Number = Cardinality(S)
      BY <2>1 DEF K!Number, K!Cardinality, Cardinality
    <2> QED
      BY <2>3, <2>4
  <1>6. (K!Zombies = {} <=> ZombiesLeft = 0) /\ ZombiesLeft \in 0 .. 2 /\ Reaped \in 0 .. 2
    BY <1>1 DEF K!Zombies, ZombiesLeft, Reaped, Is
  <1> QED
    BY <1>1, <1>2, <1>3, <1>4, <1>5, <1>6

(* What happens after the forks leaves them alone. *)
LEMMA ForkKept ==
    ASSUME ChildrenInv, ChildrenTypes', ~unset', UNCHANGED <<forking, gval>>,
           cAt' = cAt \/ (cAt' = cAt + 1 /\ cAt >= Forks(forking)),
           \A k \in K!Kids : kid'[k] = "unborn" <=> kid[k] = "unborn",
           ~forking.handler => ~pending' /\ ~handling' /\ merged' = 0,
           forking.handler /\ ~K!Over'
              => ZombiesLeft' = (IF pending' THEN 1 ELSE 0) + (IF handling' THEN 1 ELSE 0) + merged',
           K!Over' => ~handling' /\ ~pending' /\ \A k \in K!Kids : kid'[k] \notin {"running", "zombie"},
           forking = K!wait => (cAt' >= 3 => Reaped' >= 1) /\ (cAt' >= 4 => Reaped' = 2),
           forking = K!waitpid => (cAt' >= 2 => Reaped' = 1)
    PROVE  ChildrenInv'
  <1>1. Born' = Born
    BY KidsKnown DEF Born
  <1>2. \A k \in K!Kids : kid'[k] # "unborn" <=> k <= Born
    BY DEF ChildrenInv
  <1>3. gval'[0] = 11 + Born * forking.change /\ (Born > 0 => gval'[1] = 11 + forking.kidChange)
    BY DEF ChildrenInv
  <1> QED
    BY <1>1, <1>2, <1>3 DEF ChildrenInv

LEMMA DoForkKept ==
    ASSUME ChildrenInv, K!DoFork
    PROVE  ChildrenInv'
  <1>1. PICK k : /\ k = K!Number + 1 /\ kid' = [kid EXCEPT ![k] = "running"]
                 /\ gval' = [gval EXCEPT ![0] = @ + forking.change, ![k] = gval[0] + forking.kidChange]
                 /\ cAt' = cAt + 1 /\ K!At(K!Fork)
                 /\ UNCHANGED <<forking, pending, handling, merged, unset>>
    BY DEF K!DoFork
  <1>2. ChildrenTypes /\ forking \in K!Programs
    BY DEF ChildrenInv, ChildrenTypes
  <1>3. /\ cAt < Forks(forking) /\ cAt < Len(forking.parent) /\ cAt \in Nat /\ Len(forking.parent) \in Nat
    <2>1. cAt \in 0 .. (Len(forking.parent) - 1) /\ forking.parent[cAt + 1] = K!Fork
      BY <1>1, <1>2, ForkingPrograms DEF K!At, ChildrenTypes
    <2> QED
      BY <1>2, <2>1, ForkingPrograms
  <1>4. Born = cAt /\ k = cAt + 1 /\ k \in K!Kids /\ Born' = cAt + 1 /\ kid[k] = "unborn"
    <2>1. Born = cAt /\ k = cAt + 1 /\ k \in {1, 2} /\ Born' = cAt + 1
      BY <1>1, <1>3, KidsKnown DEF Born
    <2> QED
      BY <1>3, <2>1 DEF K!Kids, ChildrenInv
  <1>5. /\ kid' \in [K!Kids -> States] /\ kid'[k] = "running" /\ \A j \in K!Kids : j # k => kid'[j] = kid[j]
        /\ ZombiesLeft' = ZombiesLeft /\ Reaped' = Reaped
    <2>1. Is(k, "zombie") = 0 /\ Is(k, "reaped") = 0 /\ "running" \in States
      BY <1>4 DEF Is, States
    <2>2. /\ kid' \in [K!Kids -> States] /\ kid'[k] = "running" /\ \A j \in K!Kids : j # k => kid'[j] = kid[j]
          /\ ZombiesLeft' = ZombiesLeft - Is(k, "zombie") + 0 /\ Reaped' = Reaped - Is(k, "reaped") + 0
      BY <1>1, <1>2, <1>4, <2>1, KidChanged
    <2> QED
      BY <2>1, <2>2, KidsKnown
  <1>6. forking.change \in Int /\ forking.kidChange \in Int /\ (Forks(forking) = 2 => forking.change = 0)
    BY <1>2, ForkingPrograms
  <1>7. /\ gval' \in [{0} \cup K!Kids -> Int] /\ gval'[0] = gval[0] + forking.change
        /\ gval'[k] = gval[0] + forking.kidChange /\ (k # 1 => gval'[1] = gval[1])
    BY <1>1, <1>2, <1>4, <1>6 DEF ChildrenTypes, K!Kids
  <1>8. ChildrenTypes'
    <2>1. cAt' \in 0 .. (Len(forking.parent) + 1)
      BY <1>1, <1>3
    <2>2. forking' = forking /\ pending' = pending /\ handling' = handling /\ merged' = merged
      BY <1>1
    <2> QED
      BY <1>2, <1>5, <1>7, <2>1, <2>2 DEF ChildrenTypes, States
  <1>9. \A j \in K!Kids : kid'[j] # "unborn" <=> j <= cAt + 1
    BY <1>3, <1>4, <1>5 DEF ChildrenInv, K!Kids
  <1>10. gval'[0] = 11 + (cAt + 1) * forking.change /\ gval'[1] = 11 + forking.kidChange
    <2>1. cAt = 0 \/ (cAt = 1 /\ forking.change = 0)
      BY <1>3, <1>6, KidsKnown
    <2>2. gval[0] = 11 + cAt * forking.change /\ (cAt > 0 => gval[1] = 11 + forking.kidChange)
      BY <1>4 DEF ChildrenInv
    <2>3. CASE cAt = 0
      BY <1>4, <1>6, <1>7, <2>2, <2>3
    <2>4. CASE cAt = 1 /\ forking.change = 0
      BY <1>4, <1>6, <1>7, <2>2, <2>4
    <2> QED
      BY <2>1, <2>3, <2>4
  <1>11. /\ ~ K!Over /\ ~ K!Over' /\ cAt' < 3
         /\ forking = K!waitpid => cAt' < 2
    BY <1>1, <1>3, KidsKnown, ForkingPrograms DEF K!Over
  <1>12. /\ ~forking'.handler => ~pending' /\ ~handling' /\ merged' = 0
         /\ forking'.handler => ZombiesLeft' = (IF pending' THEN 1 ELSE 0) + (IF handling' THEN 1 ELSE 0) + merged'
    BY <1>1, <1>5, <1>11 DEF ChildrenInv
  <1>13. ~unset' /\ Born' = cAt + 1 /\ cAt' = cAt + 1
    BY <1>1, <1>4 DEF ChildrenInv
  <1>14. forking' = forking
    BY <1>1
  <1>15. /\ gval'[0] = 11 + Born' * forking'.change
         /\ Born' > 0 => gval'[1] = 11 + forking'.kidChange
         /\ \A j \in K!Kids : kid'[j] # "unborn" <=> j <= Born'
    BY <1>9, <1>10, <1>13, <1>14
  <1> QED
    BY <1>3, <1>8, <1>11, <1>12, <1>13, <1>14, <1>15 DEF ChildrenInv

(* What a step does to the types. *)
LEMMA ChildTypesKept ==
    ASSUME ChildrenTypes, UNCHANGED <<forking, gval>>, cAt' \in {cAt, cAt + 1}, cAt' <= Len(forking.parent) + 1,
           kid' \in [K!Kids -> States], pending' \in BOOLEAN, handling' \in BOOLEAN, merged' \in Nat
    PROVE  ChildrenTypes'
  <1>1. forking \in K!Programs /\ cAt \in Nat /\ Len(forking.parent) \in Nat
    BY ForkingPrograms DEF ChildrenTypes
  <1>2. cAt' \in 0 .. (Len(forking.parent) + 1)
    BY <1>1
  <1> QED
    BY <1>1, <1>2 DEF ChildrenTypes, States

(* Where a call is made. *)
LEMMA CallMade ==
    ASSUME ChildrenInv, NEW op \in {K!Sleep, K!Wait, K!Poll}, K!At(op)
    PROVE  /\ cAt \in 0 .. (Len(forking.parent) - 1) /\ cAt < Len(forking.parent)
           /\ cAt >= Forks(forking) /\ forking \in K!Programs /\ Len(forking.parent) \in Nat /\ ~handling
           /\ op = K!Sleep => forking # K!waitpid /\ (forking = K!wait => cAt = 4)
           /\ op # K!Sleep => forking \in {K!wait, K!waitpid} /\ ~forking.handler
           /\ op # K!Sleep /\ forking = K!wait => cAt \in {2, 3}
           /\ op # K!Sleep /\ forking = K!waitpid => cAt = 1
  <1>1. forking \in K!Programs /\ cAt \in 0 .. (Len(forking.parent) + 1) /\ Len(forking.parent) \in 1 .. 7
        /\ Forks(forking) \in {1, 2}
    BY ForkingPrograms DEF ChildrenInv, ChildrenTypes
  <1>2. cAt < Len(forking.parent) /\ ~handling /\ forking.parent[cAt + 1] = op
    BY DEF K!At
  <1>3. cAt \in 0 .. (Len(forking.parent) - 1)
    BY <1>1, <1>2
  <1>4. op # K!Fork /\ K!Sleep \notin {K!Wait, K!Poll} /\ (op # K!Sleep => op \in {K!Wait, K!Poll})
    BY DEF K!Sleep, K!Wait, K!Poll, K!Fork
  <1>5. ~(cAt < Forks(forking))
    BY <1>1, <1>2, <1>3, <1>4, ForkingPrograms
  <1>6. op # K!Sleep => forking \in {K!wait, K!waitpid} /\ ~forking.handler
    BY <1>1, <1>2, <1>3, <1>4, ForkingPrograms
  <1>7. ASSUME forking = K!wait
        PROVE  (op = K!Sleep => cAt = 4) /\ (op # K!Sleep => cAt \in {2, 3})
    <2>1. cAt \in {2, 3, 4}
      BY <1>1, <1>3, <1>5, <1>7, ForkingPrograms
    <2>2. cAt = 2 => op = K!Wait
      BY <1>2, <1>7, ForkingPrograms
    <2>3. cAt = 3 => op = K!Wait
      BY <1>2, <1>7, ForkingPrograms
    <2>4. cAt = 4 => op = K!Sleep
      BY <1>2, <1>7, ForkingPrograms
    <2> QED
      BY <1>4, <2>1, <2>2, <2>3, <2>4
  <1>8. ASSUME forking = K!waitpid
        PROVE  cAt = 1 /\ op # K!Sleep
    <2>1. cAt = 1
      BY <1>1, <1>3, <1>5, <1>8, ForkingPrograms
    <2> QED
      BY <1>2, <1>4, <1>8, <2>1, ForkingPrograms
  <1> QED
    BY <1>1, <1>2, <1>3, <1>5, <1>6, <1>7, <1>8

LEMMA SleepOverKept ==
    ASSUME ChildrenInv, K!SleepOver
    PROVE  ChildrenInv'
  <1>1. /\ K!At(K!Sleep) /\ cAt' = cAt + 1
        /\ UNCHANGED <<forking, kid, gval, pending, handling, merged, unset>>
    BY DEF K!SleepOver
  <1>2. /\ cAt < Len(forking.parent) /\ cAt >= Forks(forking) /\ Len(forking.parent) \in Nat /\ cAt \in Nat
        /\ forking # K!waitpid /\ (forking = K!wait => cAt = 4)
    BY <1>1, CallMade
  <1>3. ChildrenTypes'
    <2>1. ChildrenTypes /\ kid \in [K!Kids -> States] /\ pending \in BOOLEAN /\ handling \in BOOLEAN /\ merged \in Nat
      BY DEF ChildrenInv, ChildrenTypes, States
    <2>2. cAt' \in {cAt, cAt + 1} /\ cAt' <= Len(forking.parent) + 1
      BY <1>1, <1>2
    <2> QED
      BY <1>1, <2>1, <2>2, ChildTypesKept
  <1>4. ~ K!Over /\ ~ K!Over'
    BY <1>1, <1>2 DEF K!Over
  <1>5. ZombiesLeft' = ZombiesLeft /\ Reaped' = Reaped
    BY <1>1 DEF ZombiesLeft, Reaped, Is
  <1>6. ~unset' /\ (~forking.handler => ~pending' /\ ~handling' /\ merged' = 0)
        /\ (forking.handler => ZombiesLeft' = (IF pending' THEN 1 ELSE 0) + (IF handling' THEN 1 ELSE 0) + merged')
    BY <1>1, <1>4, <1>5 DEF ChildrenInv
  <1>7. forking = K!wait => Reaped' = 2
    BY <1>2, <1>5 DEF ChildrenInv
  <1>8. \A k \in K!Kids : kid'[k] = "unborn" <=> kid[k] = "unborn"
    BY <1>1
  <1> QED
    BY <1>1, <1>2, <1>3, <1>4, <1>6, <1>7, <1>8, ForkKept

LEMMA CollectKept ==
    ASSUME ChildrenInv, K!Collect
    PROVE  ChildrenInv'
  <1>1. PICK k \in K!Kids, op \in {K!Wait, K!Poll} :
            /\ kid[k] = "zombie" /\ kid' = [kid EXCEPT ![k] = "reaped"] /\ K!At(op) /\ cAt' = cAt + 1
            /\ UNCHANGED <<forking, gval, pending, handling, merged, unset>>
    BY DEF K!Collect, K!Zombies
  <1>2. op # K!Sleep
    BY DEF K!Sleep, K!Wait, K!Poll
  <1>3. /\ cAt < Len(forking.parent) /\ cAt >= Forks(forking) /\ Len(forking.parent) \in Nat /\ cAt \in Nat
        /\ forking \in {K!wait, K!waitpid} /\ ~forking.handler
        /\ (forking = K!wait => cAt \in {2, 3}) /\ (forking = K!waitpid => cAt = 1)
    BY <1>1, <1>2, CallMade
  <1>4. ChildrenTypes /\ "reaped" \in States /\ Is(k, "reaped") = 0 /\ "reaped" # "zombie"
    BY <1>1 DEF ChildrenInv, States, Is
  <1>5. /\ kid' \in [K!Kids -> States] /\ kid'[k] = "reaped" /\ \A j \in K!Kids : j # k => kid'[j] = kid[j]
        /\ Reaped' = Reaped - Is(k, "reaped") + 1
    BY <1>1, <1>4, KidChanged
  <1>6. Reaped' = Reaped + 1 /\ Reaped \in 0 .. 2 /\ Reaped' \in 0 .. 2
    BY <1>4, <1>5, KidsKnown DEF Reaped, Is
  <1>7. ChildrenTypes'
    <2>1. pending' \in BOOLEAN /\ handling' \in BOOLEAN /\ merged' \in Nat
      BY <1>1, <1>4 DEF ChildrenTypes
    <2>2. cAt' \in {cAt, cAt + 1} /\ cAt' <= Len(forking.parent) + 1
      BY <1>1, <1>3
    <2> QED
      BY <1>1, <1>4, <1>5, <2>1, <2>2, ChildTypesKept
  <1>8. ~ K!Over'
    BY <1>1, <1>3 DEF K!Over
  <1>9. ~unset' /\ ~pending' /\ ~handling' /\ merged' = 0
    BY <1>1, <1>3 DEF ChildrenInv
  <1>10. forking = K!wait => (cAt' >= 3 => Reaped' >= 1) /\ (cAt' >= 4 => Reaped' = 2)
    <2>1. forking = K!wait /\ cAt = 3 => Reaped >= 1
      BY DEF ChildrenInv
    <2> QED
      BY <1>1, <1>3, <1>6, <2>1
  <1>11. forking = K!waitpid => (cAt' >= 2 => Reaped' = 1)
    <2> SUFFICES ASSUME forking = K!waitpid PROVE Reaped' = 1
      OBVIOUS
    <2>1. Born = 1
      BY <1>3, ForkingPrograms DEF Born
    <2>2. kid[2] = "unborn" /\ k = 1
      BY <1>1, <2>1, KidsKnown DEF ChildrenInv
    <2> QED
      BY <1>5, <2>2, KidsKnown DEF Reaped, Is
  <1>12. \A j \in K!Kids : kid'[j] = "unborn" <=> kid[j] = "unborn"
    BY <1>1, <1>5
  <1> QED
    BY <1>1, <1>3, <1>7, <1>8, <1>9, <1>10, <1>11, <1>12, ForkKept

LEMMA ParentEndsKept ==
    ASSUME ChildrenInv, K!ParentEnds
    PROVE  ChildrenInv'
  <1>1. /\ cAt = Len(forking.parent) /\ ~handling /\ cAt' = cAt + 1 /\ ~pending' /\ pending' = FALSE /\ merged' = 0
        /\ kid' = [k \in K!Kids |-> IF kid[k] = "zombie" THEN "reaped"
                                    ELSE IF kid[k] = "running" THEN "adopted" ELSE kid[k]]
        /\ UNCHANGED <<forking, gval, handling, unset>>
    BY DEF K!ParentEnds
  <1>2. /\ forking \in K!Programs /\ Len(forking.parent) \in Nat /\ cAt >= Forks(forking) /\ cAt \in Nat
        /\ ChildrenTypes /\ kid \in [K!Kids -> States]
    BY <1>1, KidsKnown, ForkingPrograms DEF ChildrenInv, ChildrenTypes
  <1>3. /\ kid' \in [K!Kids -> States]
        /\ \A k \in K!Kids : /\ kid'[k] = "unborn" <=> kid[k] = "unborn"
                             /\ kid[k] = "reaped" => kid'[k] = "reaped"
                             /\ kid'[k] \notin {"running", "zombie"}
    BY <1>1, <1>2 DEF States
  <1>4. ChildrenTypes'
    <2>1. pending' \in BOOLEAN /\ handling' \in BOOLEAN /\ merged' \in Nat
      BY <1>1, <1>2 DEF ChildrenTypes
    <2>2. cAt' \in {cAt, cAt + 1} /\ cAt' <= Len(forking.parent) + 1
      BY <1>1, <1>2
    <2> QED
      BY <1>1, <1>2, <1>3, <2>1, <2>2, ChildTypesKept
  <1>5. K!Over'
    BY <1>1, <1>2 DEF K!Over
  <1>6. ASSUME forking = K!wait PROVE Reaped' = 2
    <2>1. Reaped = 2
      BY <1>1, <1>6, ForkingPrograms DEF ChildrenInv
    <2> QED
      BY <1>3, <2>1, KidsKnown DEF Reaped, Is
  <1>7. ASSUME forking = K!waitpid PROVE Reaped' = 1
    <2>1. Reaped = 1 /\ Born = 1
      BY <1>1, <1>7, ForkingPrograms DEF ChildrenInv, Born
    <2>2. kid[2] = "unborn"
      BY <2>1, KidsKnown DEF ChildrenInv
    <2> QED
      BY <1>3, <2>1, <2>2, KidsKnown DEF Reaped, Is
  <1>8. ~unset' /\ ~handling'
    BY <1>1 DEF ChildrenInv
  <1> QED
    BY <1>1, <1>2, <1>3, <1>4, <1>5, <1>6, <1>7, <1>8, ForkKept

LEMMA ChildEndsKept ==
    ASSUME ChildrenInv, NEW k \in K!Kids, K!ChildEnds(k)
    PROVE  ChildrenInv'
  <1>1. PICK s \in {"zombie", "reaped"} :
            /\ kid' = [kid EXCEPT ![k] = s]
            /\ (kid[k] = "running" /\ s = "zombie") \/ (kid[k] = "adopted" /\ s = "reaped")
            /\ UNCHANGED <<forking, cAt, gval, handling, unset>>
    <2>1. kid[k] = "running" \/ kid[k] = "adopted"
      BY DEF K!ChildEnds
    <2>2. kid \in [K!Kids -> States]
      BY KidsKnown
    <2>3. UNCHANGED <<forking, cAt, gval, handling, unset>> /\ k \in DOMAIN kid
      BY <2>2 DEF K!ChildEnds
    <2>4. kid' = [kid EXCEPT ![k] = IF kid[k] = "running" THEN "zombie" ELSE "reaped"]
      BY DEF K!ChildEnds
    <2>5. CASE kid[k] = "running"
      <3>1. kid' = [kid EXCEPT ![k] = "zombie"]
        BY <2>4, <2>5
      <3> QED
        BY <2>3, <2>5, <3>1
    <2>6. CASE kid[k] = "adopted"
      <3>1. kid' = [kid EXCEPT ![k] = "reaped"]
        BY <2>4, <2>6
      <3> QED
        BY <2>3, <2>6, <3>1
    <2> QED
      BY <2>1, <2>5, <2>6
  <1>2. IF forking.handler /\ kid[k] = "running"
          THEN pending' = TRUE /\ merged' = (IF pending THEN merged + 1 ELSE merged)
          ELSE pending' = pending /\ merged' = merged
    BY DEF K!ChildEnds
  <1>3. ChildrenTypes /\ s \in States /\ Is(k, "zombie") = 0 /\ Is(k, "reaped") = 0
    BY <1>1 DEF ChildrenInv, States, Is
  <1>4. /\ kid' \in [K!Kids -> States] /\ kid'[k] = s /\ \A j \in K!Kids : j # k => kid'[j] = kid[j]
        /\ ZombiesLeft' = ZombiesLeft - Is(k, "zombie") + (IF s = "zombie" THEN 1 ELSE 0)
        /\ Reaped' = Reaped - Is(k, "reaped") + (IF s = "reaped" THEN 1 ELSE 0)
    BY <1>1, <1>3, KidChanged
  <1>5. /\ ZombiesLeft' = ZombiesLeft + (IF s = "zombie" THEN 1 ELSE 0) /\ ZombiesLeft \in 0 .. 2
        /\ Reaped' = Reaped + (IF s = "reaped" THEN 1 ELSE 0) /\ Reaped \in 0 .. 2
    BY <1>3, <1>4, KidsKnown
  <1>6. pending' \in BOOLEAN /\ handling' \in BOOLEAN /\ merged' \in Nat
    <2>1. pending \in BOOLEAN /\ handling \in BOOLEAN /\ merged \in Nat
      BY <1>3 DEF ChildrenTypes
    <2>2. merged' \in {merged, merged + 1}
      BY <1>2
    <2>3. merged' \in Nat
      BY <2>1, <2>2
    <2>4. pending' = TRUE \/ pending' = pending
      BY <1>2
    <2>5. pending' \in BOOLEAN
      BY <2>1, <2>4, Zenon
    <2>6. handling' \in BOOLEAN
      BY <1>1, <2>1, Zenon
    <2> QED
      BY <2>3, <2>5, <2>6
  <1>7. ChildrenTypes'
    <2>1. cAt' \in {cAt, cAt + 1} /\ cAt' <= Len(forking.parent) + 1
      BY <1>1, <1>3, ForkingPrograms DEF ChildrenTypes
    <2> QED
      BY <1>1, <1>3, <1>4, <1>6, <2>1, ChildTypesKept
  <1>8. K!Over' = K!Over
    BY <1>1 DEF K!Over
  <1>9. K!Over => s = "reaped" /\ kid[k] = "adopted"
    BY <1>1 DEF ChildrenInv
  <1>10. K!Over => ~handling' /\ ~pending' /\ \A j \in K!Kids : kid'[j] \notin {"running", "zombie"}
    BY <1>1, <1>2, <1>4, <1>9 DEF ChildrenInv
  <1>11. forking.handler /\ ~ K!Over
             => ZombiesLeft' = (IF pending' THEN 1 ELSE 0) + (IF handling' THEN 1 ELSE 0) + merged'
    BY <1>1, <1>2, <1>3, <1>5 DEF ChildrenInv, ChildrenTypes
  <1>12. ~forking.handler => ~pending' /\ ~handling' /\ merged' = 0
    BY <1>1, <1>2 DEF ChildrenInv
  <1>13. /\ forking = K!wait => (cAt' >= 3 => Reaped' >= 1) /\ (cAt' >= 4 => Reaped' = 2)
         /\ forking = K!waitpid => (cAt' >= 2 => Reaped' = 1)
    <2>1. Reaped' \in 0 .. 2
      BY <1>4 DEF Reaped, Is
    <2>2. ASSUME forking = K!waitpid, cAt >= 2 PROVE Reaped' = 1
      <3>1. Reaped = 1 /\ Born = 1
        BY <2>2, ForkingPrograms, KidsKnown DEF ChildrenInv, Born
      <3>2. kid[2] = "unborn"
        BY <3>1, KidsKnown DEF ChildrenInv
      <3>3. kid[1] = "reaped" /\ k = 1
        BY <1>1, <3>1, <3>2, KidsKnown DEF Reaped, Is
      <3> QED
        BY <1>1, <3>3
    <2> QED
      BY <1>1, <1>5, <2>1, <2>2 DEF ChildrenInv
  <1>14. ~unset' /\ \A j \in K!Kids : kid'[j] = "unborn" <=> kid[j] = "unborn"
    BY <1>1, <1>4 DEF ChildrenInv
  <1> QED
    BY <1>1, <1>7, <1>8, <1>10, <1>11, <1>12, <1>13, <1>14, ForkKept

LEMMA DeliverKept ==
    ASSUME ChildrenInv, K!Deliver
    PROVE  ChildrenInv'
  <1>1. /\ pending /\ ~handling /\ cAt <= Len(forking.parent) /\ pending' = FALSE /\ handling' = TRUE
        /\ UNCHANGED <<forking, cAt, kid, gval, merged, unset>>
    BY DEF K!Deliver
  <1>2. ChildrenTypes /\ kid \in [K!Kids -> States] /\ merged \in Nat /\ forking.handler
    BY <1>1, KidsKnown DEF ChildrenInv, ChildrenTypes
  <1>3. ~ K!Over /\ ~ K!Over'
    BY <1>1, <1>2, ForkingPrograms DEF K!Over, ChildrenTypes
  <1>4. ChildrenTypes'
    <2>1. cAt' \in {cAt, cAt + 1} /\ cAt' <= Len(forking.parent) + 1
      BY <1>1, <1>2, ForkingPrograms DEF ChildrenTypes
    <2> QED
      BY <1>1, <1>2, <2>1, ChildTypesKept
  <1>5. ZombiesLeft' = ZombiesLeft /\ Reaped' = Reaped /\ ZombiesLeft \in 0 .. 2
    BY <1>1, KidsKnown DEF ZombiesLeft, Reaped, Is
  <1>6. ZombiesLeft' = (IF pending' THEN 1 ELSE 0) + (IF handling' THEN 1 ELSE 0) + merged'
    BY <1>1, <1>2, <1>3, <1>5 DEF ChildrenInv
  <1>7. /\ forking = K!wait => (cAt' >= 3 => Reaped' >= 1) /\ (cAt' >= 4 => Reaped' = 2)
        /\ forking = K!waitpid => (cAt' >= 2 => Reaped' = 1)
    BY <1>1, <1>5 DEF ChildrenInv
  <1>8. ~unset' /\ \A j \in K!Kids : kid'[j] = "unborn" <=> kid[j] = "unborn"
    BY <1>1 DEF ChildrenInv
  <1> QED
    BY <1>1, <1>2, <1>3, <1>4, <1>6, <1>7, <1>8, ForkKept

LEMMA HandlerReapsKept ==
    ASSUME ChildrenInv, K!HandlerReaps
    PROVE  ChildrenInv'
  <1>1. /\ handling /\ handling' = FALSE
        /\ cAt' = cAt \/ (cAt' = cAt + 1 /\ cAt < Len(forking.parent) /\ forking.parent[cAt + 1] = K!Sleep)
        /\ UNCHANGED <<forking, gval, pending, merged>>
    BY DEF K!HandlerReaps
  <1>2. ChildrenTypes /\ merged \in Nat /\ forking.handler /\ forking \in K!Programs /\ pending \in BOOLEAN
        /\ forking \notin {K!wait, K!waitpid} /\ Len(forking.parent) \in Nat /\ cAt \in Nat
    BY <1>1, KidsKnown, ForkingPrograms DEF ChildrenInv, ChildrenTypes
  <1>3. ~ K!Over /\ cAt <= Len(forking.parent)
    BY <1>1, <1>2 DEF ChildrenInv, K!Over
  <1>4. ZombiesLeft = (IF pending THEN 1 ELSE 0) + 1 + merged
    BY <1>1, <1>2, <1>3 DEF ChildrenInv
  <1>5. K!Zombies # {}
    BY <1>2, <1>4, KidsKnown
  <1>6. PICK k \in K!Kids : kid[k] = "zombie" /\ kid' = [kid EXCEPT ![k] = "reaped"] /\ unset' = unset
    BY <1>5 DEF K!HandlerReaps, K!Zombies
  <1>7. /\ kid' \in [K!Kids -> States] /\ kid'[k] = "reaped" /\ \A j \in K!Kids : j # k => kid'[j] = kid[j]
        /\ ZombiesLeft' = ZombiesLeft - 1
    <2>1. Is(k, "zombie") = 1 /\ "reaped" \in States /\ "reaped" # "zombie"
      BY <1>6 DEF Is, States
    <2>2. /\ kid' \in [K!Kids -> States] /\ kid'[k] = "reaped" /\ \A j \in K!Kids : j # k => kid'[j] = kid[j]
          /\ ZombiesLeft' = ZombiesLeft - Is(k, "zombie") + 0
      BY <1>2, <1>6, <2>1, KidChanged
    <2> QED
      BY <2>1, <2>2, KidsKnown
  <1>8. cAt' = cAt \/ (cAt' = cAt + 1 /\ cAt >= Forks(forking) /\ cAt < Len(forking.parent))
    <2>1. ASSUME cAt < Len(forking.parent), forking.parent[cAt + 1] = K!Sleep PROVE cAt >= Forks(forking)
      <3>1. cAt \in 0 .. (Len(forking.parent) - 1)
        BY <1>2, <2>1
      <3> QED
        BY <1>2, <2>1, <3>1, ForkingPrograms
    <2> QED
      BY <1>1, <2>1
  <1>9. ~ K!Over' /\ cAt' \in {cAt, cAt + 1} /\ cAt' <= Len(forking.parent) + 1
    BY <1>1, <1>2, <1>3, <1>8 DEF K!Over
  <1>10. ChildrenTypes'
    BY <1>1, <1>2, <1>7, <1>9, ChildTypesKept
  <1>11. ZombiesLeft' = (IF pending' THEN 1 ELSE 0) + (IF handling' THEN 1 ELSE 0) + merged'
    BY <1>1, <1>2, <1>4, <1>7
  <1>12. ~unset' /\ \A j \in K!Kids : kid'[j] = "unborn" <=> kid[j] = "unborn"
    BY <1>6, <1>7 DEF ChildrenInv
  <1> QED
    BY <1>1, <1>2, <1>8, <1>9, <1>10, <1>11, <1>12, ForkKept

LEMMA ChildrenInit ==
    ASSUME ProgramsInit
    PROVE  ChildrenInv
  <1>1. /\ forking \in K!Programs /\ cAt = 0 /\ kid = [k \in K!Kids |-> "unborn"]
        /\ gval = [k \in {0} \cup K!Kids |-> 11] /\ pending = FALSE /\ handling = FALSE /\ merged = 0 /\ unset = FALSE
    BY DEF ProgramsInit, K!Init
  <1>2. Len(forking.parent) \in 1 .. 7 /\ forking.change \in Int /\ Forks(forking) \in {1, 2}
    BY <1>1, ForkingPrograms
  <1>3. Born = 0 /\ ~ K!Over
    BY <1>1, <1>2 DEF Born, K!Over
  <1>4. ZombiesLeft = 0 /\ ChildrenTypes
    <2>1. ZombiesLeft = 0
      BY <1>1 DEF ZombiesLeft, Is, K!Kids
    <2>2. cAt \in 0 .. (Len(forking.parent) + 1) /\ 11 \in Int /\ merged \in Nat
      BY <1>1, <1>2
    <2>3. kid \in [K!Kids -> {"unborn", "running", "zombie", "reaped", "adopted"}]
      BY <1>1
    <2>4. gval \in [{0} \cup K!Kids -> Int]
      BY <1>1, <2>2
    <2> QED
      BY <1>1, <2>1, <2>2, <2>3, <2>4 DEF ChildrenTypes
  <1>5. \A k \in K!Kids : kid[k] = "unborn" /\ ~(k <= 0)
    BY <1>1 DEF K!Kids
  <1>6. gval[0] = 11 + Born * forking.change
    BY <1>1, <1>2, <1>3
  <1> QED
    BY <1>1, <1>3, <1>4, <1>5, <1>6 DEF ChildrenInv

LEMMA ChildrenNext ==
    ASSUME ChildrenInv, K!Next
    PROVE  ChildrenInv'
  BY DoForkKept, SleepOverKept, CollectKept, ParentEndsKept, ChildEndsKept, DeliverKept, HandlerReapsKept
  DEF K!Next, K!ParentStep

LEMMA ChildrenStutter ==
    ASSUME ChildrenInv, UNCHANGED children
    PROVE  ChildrenInv'
  BY DEF children, ChildrenInv, ChildrenTypes, Born, ZombiesLeft, Reaped, Is, K!Over

LEMMA ChildrenShown ==
    ASSUME ChildrenInv
    PROVE  K!ChildrenAccountedFor
  <1>1. ~unset
    BY DEF ChildrenInv
  <1>2. forking.handler /\ ~ K!Over =>
            K!Cardinality(K!Zombies) = (IF pending THEN 1 ELSE 0) + (IF handling THEN 1 ELSE 0) + merged
    BY KidsKnown DEF ChildrenInv, K!Cardinality, Cardinality
  <1>3. ASSUME forking \in {K!wait, K!waitpid}, K!Over \/ K!At(K!Sleep)
        PROVE  \A k \in K!Kids : kid[k] \in {"reaped", "unborn"}
    <2>1. CASE forking = K!wait
      <3>1. cAt >= 4
        <4>1. CASE K!Over
          BY <2>1, <4>1, ForkingPrograms, KidsKnown DEF K!Over
        <4>2. CASE K!At(K!Sleep)
          BY <2>1, <4>2, CallMade
        <4> QED
          BY <1>3, <4>1, <4>2
      <3>2. Reaped = 2
        BY <2>1, <3>1 DEF ChildrenInv
      <3> QED
        BY <3>2, KidsKnown DEF Reaped, Is
    <2>2. CASE forking = K!waitpid
      <3>1. ~ K!At(K!Sleep)
        BY <2>2, CallMade
      <3>2. cAt >= 2
        BY <1>3, <2>2, <3>1, ForkingPrograms, KidsKnown DEF K!Over
      <3>3. Reaped = 1 /\ Born = 1
        BY <2>2, <3>2, ForkingPrograms, KidsKnown DEF ChildrenInv, Born
      <3>4. kid[2] = "unborn"
        BY <3>3, KidsKnown DEF ChildrenInv
      <3> QED
        BY <3>3, <3>4, KidsKnown DEF Reaped, Is
    <2> QED
      BY <1>3, <2>1, <2>2
  <1>4. K!Number > 0 => gval[0] = 11 + K!Number * forking.change /\ gval[1] = 11 + forking.kidChange
    BY KidsKnown DEF ChildrenInv
  <1> QED
    BY <1>1, <1>2, <1>3, <1>4 DEF K!ChildrenAccountedFor

-----------------------------------------------------------------------------
(***************************************************************************)
(* Alarms.  Once its first alarm is set, a program whose handlers set the  *)
(* next has always one to come; process_sigaction may have slept through   *)
(* its only one.  In kehou5, keys and answers keep in step, the newline of *)
(* an answer standing between them.                                        *)
(***************************************************************************)
Letters == {"y", "n"}

AlarmTypes ==
    /\ alarming \in A!Programs /\ aAt \in 0 .. Len(alarming.calls)
    /\ asleep \in BOOLEAN /\ aArmed \in BOOLEAN /\ due \in BOOLEAN /\ early \in BOOLEAN
    /\ keys \in Nat /\ full \in Nat /\ replies \in Seq(Letters)

AlarmToCome ==
    /\ asleep => aAt < Len(alarming.calls) /\ alarming.calls[aAt + 1].op = "sleep"
    /\ aAt < 2 => ~aArmed /\ ~due
    /\ alarming.rearms /\ aAt >= 2 => aArmed \/ due
    /\ alarming = A!process_sigaction /\ aAt = 2 => aArmed \/ due \/ early
    /\ full > 0 => ~alarming.rearms /\ early

SavedHandler ==
    /\ alarming = A!process_signal =>
          (aAt \in 1 .. 3 => handler = "timeout01") /\ (aAt >= 4 => saved = "timeout01")
    /\ called \subseteq {"timeout01"}

Latest == replies[Len(replies)]

(* A question is not yet asked, asked, answered or left to the newline. *)
Questions ==
    \/ asks = "no" /\ answer = << >> /\ keys = 2 * Len(replies) /\ aAt = 0
    \/ asks = "asking" /\ answer = << >> /\ keys = 2 * Len(replies) + 1 /\ aAt = 0
    \/ asks = "asking" /\ answer = <<Latest, "newline">> /\ keys = 2 * Len(replies) - 1 /\ replies # << >> /\ aAt = 0
    \/ /\ asks = "no" /\ answer = <<"newline">> /\ keys = 2 * Len(replies) - 1 /\ replies # << >>
       /\ aAt = IF Latest = "y" THEN 2 ELSE 0
    \/ asks = "asking" /\ answer = <<"newline">> /\ keys = 2 * Len(replies) /\ replies # << >> /\ aAt = 0

Asked ==
    IF alarming = A!kehou5 THEN Questions /\ ~aArmed /\ ~due ELSE asks = "no"

AlarmsInv == AlarmTypes /\ AlarmToCome /\ SavedHandler /\ Asked

LEMMA AlarmScripts ==
    /\ \A prog \in A!Programs :
          /\ Len(prog.calls) \in 2 .. 8
          /\ prog \notin {A!process_sigaction, A!kehou5} <=> prog.rearms
          /\ \A i \in 0 .. (Len(prog.calls) - 1) :
                /\ prog.calls[i + 1].op = "signal" => i = 0 \/ (i = 3 /\ prog = A!process_signal)
                /\ prog.calls[i + 1].op = "signal" => prog # A!kehou5
                /\ prog.calls[i + 1].op = "alarm" => i > 0 /\ i # 3 /\ prog # A!kehou5
                /\ prog.calls[i + 1].op = "sleep" => (i >= 2 /\ i # 3) \/ prog # A!process_signal
                /\ prog.calls[i + 1].op = "sleep" => i >= 2 \/ prog = A!kehou5
                /\ prog.calls[i + 1].op = "call" => i = 6 /\ prog = A!process_signal
                /\ i = 1 /\ prog # A!kehou5 => prog.calls[i + 1].op = "alarm"
    /\ A!process_signal.calls[1].handler = "timeout01"
    /\ Len(A!process_sigaction.calls) = 3 /\ Len(A!kehou5.calls) = 2
    /\ A!kehou5 # A!process_signal /\ A!kehou5 # A!process_sigaction /\ A!process_signal # A!process_sigaction
  <1> DEFINE Op(prog, i) == prog.calls[i].op
  <1>1. /\ Len(A!sigaction.calls) = 5 /\ Len(A!signal.calls) = 5 /\ Len(A!process_sigaction.calls) = 3
        /\ Len(A!process_signal.calls) = 8 /\ Len(A!kehou5.calls) = 2
    BY DEF A!sigaction, A!signal, A!process_sigaction, A!process_signal, A!kehou5, A!Program
  <1>2. /\ A!sigaction.rearms /\ A!signal.rearms /\ A!process_signal.rearms
        /\ ~A!process_sigaction.rearms /\ ~A!kehou5.rearms
    BY DEF A!sigaction, A!signal, A!process_sigaction, A!process_signal, A!kehou5, A!Program
  <1>3. ASSUME NEW prog \in {A!sigaction, A!signal}
        PROVE  /\ Op(prog, 1) = "signal" /\ Op(prog, 2) = "alarm" /\ Op(prog, 3) = "sleep"
               /\ Op(prog, 4) = "sleep" /\ Op(prog, 5) = "sleep"
    BY DEF A!sigaction, A!signal, A!Program, A!I, A!Signal, A!Alarm, A!Sleep
  <1>4. /\ Op(A!process_sigaction, 1) = "signal" /\ Op(A!process_sigaction, 2) = "alarm"
        /\ Op(A!process_sigaction, 3) = "sleep"
    BY DEF A!process_sigaction, A!Program, A!I, A!Signal, A!Alarm, A!Sleep
  <1>5. /\ Op(A!process_signal, 1) = "signal" /\ Op(A!process_signal, 2) = "alarm"
        /\ Op(A!process_signal, 3) = "sleep" /\ Op(A!process_signal, 4) = "signal"
        /\ Op(A!process_signal, 5) = "alarm" /\ Op(A!process_signal, 6) = "sleep"
        /\ Op(A!process_signal, 7) = "call" /\ Op(A!process_signal, 8) = "sleep"
        /\ A!process_signal.calls[1].handler = "timeout01"
    BY DEF A!process_signal, A!Program, A!I, A!Signal, A!Alarm, A!Sleep, A!CallSaved
  <1>6. Op(A!kehou5, 1) = "sleep" /\ Op(A!kehou5, 2) = "again"
    BY DEF A!kehou5, A!Program, A!I, A!Sleep, A!Again
  <1> HIDE DEF Op
  <1>7. /\ A!kehou5 # A!process_signal /\ A!kehou5 # A!process_sigaction /\ A!process_signal # A!process_sigaction
        /\ A!sigaction \notin {A!process_signal, A!process_sigaction, A!kehou5}
        /\ A!signal \notin {A!process_signal, A!process_sigaction, A!kehou5}
    BY <1>1
  <1>8. ASSUME NEW prog \in A!Programs
        PROVE  /\ Len(prog.calls) \in 2 .. 8
               /\ prog \notin {A!process_sigaction, A!kehou5} <=> prog.rearms
         <2>1. PICK n \in {2, 3, 5, 8} : Len(prog.calls) = n
      BY <1>1 DEF A!Programs
    <2>2. n \in 2 .. 8
      OBVIOUS
    <2>3. prog \notin {A!process_sigaction, A!kehou5} <=> prog.rearms
      BY <1>2, <1>7 DEF A!Programs
    <2> QED
      BY <2>1, <2>2, <2>3
  <1>9. ASSUME NEW prog \in A!Programs, NEW i \in 0 .. (Len(prog.calls) - 1)
        PROVE  /\ Op(prog, i + 1) = "signal" => i = 0 \/ (i = 3 /\ prog = A!process_signal)
               /\ Op(prog, i + 1) = "signal" => prog # A!kehou5
               /\ Op(prog, i + 1) = "alarm" => i > 0 /\ i # 3 /\ prog # A!kehou5
               /\ Op(prog, i + 1) = "sleep" => (i >= 2 /\ i # 3) \/ prog # A!process_signal
               /\ Op(prog, i + 1) = "sleep" => i >= 2 \/ prog = A!kehou5
               /\ Op(prog, i + 1) = "call" => i = 6 /\ prog = A!process_signal
               /\ i = 1 /\ prog # A!kehou5 => Op(prog, i + 1) = "alarm"
    <2>1. CASE prog \in {A!sigaction, A!signal}
      <3>1. Len(prog.calls) = 5
        BY <1>1, <2>1
      <3>2. i \in {0, 1, 2, 3, 4}
        BY <3>1
      <3> QED
        BY <1>3, <1>7, <2>1, <3>2
    <2>2. CASE prog = A!process_sigaction
      <3>1. Len(prog.calls) = 3
        BY <1>1, <2>2
      <3>2. i \in {0, 1, 2}
        BY <3>1
      <3> QED
        BY <1>4, <1>7, <2>2, <3>2
    <2>3. CASE prog = A!process_signal
      <3>1. Len(prog.calls) = 8
        BY <1>1, <2>3
      <3>2. i \in {0, 1, 2, 3, 4, 5, 6, 7}
        BY <3>1
      <3> QED
        BY <1>5, <1>7, <2>3, <3>2
    <2>4. CASE prog = A!kehou5
      <3>1. Len(prog.calls) = 2
        BY <1>1, <2>4
      <3>2. i \in {0, 1}
        BY <3>1
      <3> QED
        BY <1>6, <1>7, <2>4, <3>2
    <2> QED
      BY <2>1, <2>2, <2>3, <2>4 DEF A!Programs
  <1> QED
    BY <1>1, <1>5, <1>7, <1>8, <1>9 DEF Op

(* Where the programs are. *)
LEMMA AlarmFacts ==
    ASSUME AlarmsInv
    PROVE  /\ AlarmTypes /\ AlarmToCome /\ SavedHandler /\ Asked
           /\ alarming \in A!Programs /\ Len(alarming.calls) \in Nat /\ Len(alarming.calls) >= 2 /\ aAt \in Nat
           /\ aAt <= Len(alarming.calls)
           /\ aAt < Len(alarming.calls) => aAt \in 0 .. (Len(alarming.calls) - 1)
           /\ asleep => /\ aAt \in 0 .. (Len(alarming.calls) - 1) /\ (aAt >= 2 \/ alarming = A!kehou5)
                        /\ alarming = A!process_signal => aAt # 3 /\ aAt >= 2
           /\ due => aAt >= 2 /\ alarming # A!kehou5
  <1>1. /\ AlarmTypes /\ AlarmToCome /\ SavedHandler /\ Asked
        /\ alarming \in A!Programs /\ Len(alarming.calls) \in 2 .. 8 /\ aAt \in 0 .. Len(alarming.calls)
    BY AlarmScripts DEF AlarmsInv, AlarmTypes
  <1>2. aAt < Len(alarming.calls) => aAt \in 0 .. (Len(alarming.calls) - 1)
    BY <1>1
  <1>3. asleep => /\ aAt \in 0 .. (Len(alarming.calls) - 1) /\ (aAt >= 2 \/ alarming = A!kehou5)
                  /\ alarming = A!process_signal => aAt # 3 /\ aAt >= 2
    BY <1>1, <1>2, AlarmScripts DEF AlarmToCome
  <1>4. due => aAt >= 2 /\ alarming # A!kehou5
    BY <1>1 DEF AlarmToCome, Asked
  <1>5. Len(alarming.calls) \in Nat /\ Len(alarming.calls) >= 2 /\ aAt \in Nat /\ aAt <= Len(alarming.calls)
    <2>1. PICK L \in 2 .. 8 : L = Len(alarming.calls)
      BY <1>1, Zenon
    <2>2. aAt \in 0 .. L
      BY <1>1, <2>1, Zenon
    <2>3. L \in Nat /\ L >= 2 /\ aAt \in Nat /\ aAt <= L
      BY <2>2
    <2> QED
      BY <2>1, <2>3, Zenon
  <1> QED
    BY <1>1, <1>2, <1>3, <1>4, <1>5, Zenon

(* Where a call is made. *)
LEMMA AlarmCall ==
    ASSUME AlarmsInv, NEW op, A!At(op)
    PROVE  /\ aAt \in 0 .. (Len(alarming.calls) - 1) /\ aAt < Len(alarming.calls)
           /\ alarming.calls[aAt + 1].op = op /\ asks = "no"
  BY AlarmFacts DEF A!At, A!Over

(* Questions are for kehou5; a step of the others leaves them alone. *)
LEMMA NotAsked ==
    ASSUME AlarmsInv, UNCHANGED <<alarming, asks>>, alarming # A!kehou5
    PROVE  Asked'
  BY AlarmFacts DEF Asked

LEMMA DoSignalKept ==
    ASSUME AlarmsInv, A!DoSignal
    PROVE  AlarmsInv'
  <1>1. /\ A!At("signal") /\ handler' = alarming.calls[aAt + 1].handler /\ saved' = handler /\ aAt' = aAt + 1
        /\ UNCHANGED <<alarming, asleep, aArmed, due, keys, asks, answer, replies, early, full, called>>
    BY DEF A!DoSignal, A!askVars
  <1>2. /\ aAt \in 0 .. (Len(alarming.calls) - 1) /\ alarming.calls[aAt + 1].op = "signal"
        /\ (aAt = 0 \/ (aAt = 3 /\ alarming = A!process_signal))
        /\ alarming # A!kehou5
    BY <1>1, AlarmCall, AlarmFacts, AlarmScripts
  <1>3. AlarmTypes'
    BY <1>1, <1>2, AlarmFacts DEF AlarmTypes
  <1>4. ~asleep
    BY <1>2, AlarmFacts DEF AlarmToCome
  <1>5. AlarmToCome'
    BY <1>1, <1>2, <1>4, AlarmFacts DEF AlarmToCome
  <1>6. SavedHandler'
    BY <1>1, <1>2, AlarmFacts, AlarmScripts DEF SavedHandler
  <1> QED
    BY <1>1, <1>2, <1>3, <1>5, <1>6, NotAsked DEF AlarmsInv

LEMMA DoAlarmKept ==
    ASSUME AlarmsInv, A!DoAlarm
    PROVE  AlarmsInv'
  <1>1. /\ A!At("alarm") /\ aArmed' = TRUE /\ aAt' = aAt + 1
        /\ UNCHANGED <<alarming, asleep, handler, saved, due, keys, asks, answer, replies, early, full, called>>
    BY DEF A!DoAlarm, A!askVars
  <1>2. /\ aAt \in 0 .. (Len(alarming.calls) - 1) /\ alarming.calls[aAt + 1].op = "alarm"
        /\ aAt > 0 /\ aAt # 3 /\ alarming # A!kehou5
    BY <1>1, AlarmCall, AlarmFacts, AlarmScripts
  <1>3. AlarmTypes'
    BY <1>1, <1>2, AlarmFacts DEF AlarmTypes
  <1>4. ~asleep
    BY <1>2, AlarmFacts DEF AlarmToCome
  <1>5. AlarmToCome'
    BY <1>1, <1>2, <1>4, AlarmFacts DEF AlarmToCome
  <1>6. SavedHandler'
    BY <1>1, <1>2, AlarmFacts DEF SavedHandler
  <1> QED
    BY <1>1, <1>2, <1>3, <1>5, <1>6, NotAsked DEF AlarmsInv

LEMMA FallAsleepKept ==
    ASSUME AlarmsInv, A!FallAsleep
    PROVE  AlarmsInv'
  <1>1. /\ A!At("sleep") /\ asleep' = TRUE
        /\ UNCHANGED <<alarming, aAt, handler, saved, aArmed, due, keys, asks, answer, replies, early, full, called>>
    BY DEF A!FallAsleep, A!askVars
  <1>2. aAt < Len(alarming.calls) /\ alarming.calls[aAt + 1].op = "sleep"
    BY <1>1, AlarmCall
  <1>3. AlarmTypes'
    BY <1>1, AlarmFacts DEF AlarmTypes
  <1>4. AlarmToCome' /\ SavedHandler'
    BY <1>1, <1>2, AlarmFacts DEF AlarmToCome, SavedHandler
  <1>5. Asked'
    BY <1>1, AlarmFacts DEF Asked, Questions, Latest
  <1> QED
    BY <1>3, <1>4, <1>5 DEF AlarmsInv

(* Only process_sigaction can sleep through, and only after an early alarm. *)
LEMMA SleptThrough ==
    ASSUME AlarmsInv, A!SleepOver
    PROVE  AlarmsInv'
  <1>1. /\ A!At("sleep") /\ asleep /\ ~aArmed /\ ~due /\ asleep' = FALSE /\ aAt' = aAt + 1 /\ full' = full + 1
        /\ alarming # A!kehou5
        /\ UNCHANGED <<alarming, handler, saved, aArmed, due, keys, asks, answer, replies, early, called>>
    BY DEF A!SleepOver, A!askVars
  <1>2. /\ aAt \in 0 .. (Len(alarming.calls) - 1) /\ aAt >= 2 /\ ~alarming.rearms
        /\ alarming = A!process_sigaction /\ alarming # A!process_signal
    BY <1>1, AlarmFacts, AlarmScripts DEF AlarmToCome
  <1>3. aAt = 2 /\ early
    BY <1>1, <1>2, AlarmFacts, AlarmScripts DEF AlarmToCome
  <1>4. AlarmTypes'
    <2>1. full' \in Nat /\ aAt' \in 0 .. Len(alarming.calls)
      BY <1>1, <1>2, AlarmFacts DEF AlarmTypes
    <2> QED
      BY <1>1, <2>1, AlarmFacts DEF AlarmTypes
  <1>5. AlarmToCome'
    BY <1>1, <1>2, <1>3, AlarmFacts DEF AlarmToCome
  <1>6. SavedHandler'
    BY <1>1, <1>2, AlarmFacts DEF SavedHandler
  <1> QED
    BY <1>1, <1>4, <1>5, <1>6, NotAsked DEF AlarmsInv

LEMMA LoopKept ==
    ASSUME AlarmsInv, A!Loop
    PROVE  AlarmsInv'
  <1>1. /\ asleep' = FALSE
        /\ UNCHANGED <<alarming, aAt, handler, saved, aArmed, due, keys, asks, answer, replies, early, full, called>>
    BY DEF A!Loop, A!askVars
  <1>2. AlarmTypes' /\ AlarmToCome' /\ SavedHandler'
    BY <1>1, AlarmFacts DEF AlarmTypes, AlarmToCome, SavedHandler
  <1>3. Asked'
    BY <1>1, AlarmFacts DEF Asked, Questions, Latest
  <1> QED
    BY <1>2, <1>3 DEF AlarmsInv

LEMMA DoCallKept ==
    ASSUME AlarmsInv, A!DoCall
    PROVE  AlarmsInv'
  <1>1. /\ A!At("call") /\ called' = called \cup {saved} /\ aArmed' = (aArmed \/ alarming.rearms) /\ aAt' = aAt + 1
        /\ UNCHANGED <<alarming, asleep, handler, saved, due, keys, asks, answer, replies, early, full>>
    BY DEF A!DoCall, A!askVars
  <1>2. /\ aAt \in 0 .. (Len(alarming.calls) - 1) /\ alarming.calls[aAt + 1].op = "call"
        /\ aAt = 6 /\ alarming = A!process_signal /\ alarming # A!kehou5 /\ alarming # A!process_sigaction
    BY <1>1, AlarmCall, AlarmFacts, AlarmScripts
  <1>3. AlarmTypes'
    <2>1. aArmed' \in BOOLEAN
      BY <1>1, Zenon
    <2>2. aAt' \in 0 .. Len(alarming.calls)
      BY <1>1, <1>2, AlarmFacts
    <2> QED
      BY <1>1, <2>1, <2>2, AlarmFacts DEF AlarmTypes
  <1>4. ~asleep
    BY <1>2, AlarmFacts DEF AlarmToCome
  <1>5. AlarmToCome'
    <2>1. aArmed' /\ ~asleep' /\ aAt' = 7
      <3>1. alarming.rearms
        BY <1>2, AlarmFacts, AlarmScripts
      <3>2. aArmed'
        BY <1>1, <3>1, Zenon
      <3> QED
        BY <1>1, <1>2, <1>4, <3>2
    <2>2. full' > 0 => ~alarming'.rearms /\ early'
      BY <1>1, AlarmFacts DEF AlarmToCome
    <2> QED
      BY <1>1, <1>2, <2>1, <2>2 DEF AlarmToCome
  <1>6. saved = "timeout01"
    BY <1>2, AlarmFacts DEF SavedHandler
  <1>7. SavedHandler'
    BY <1>1, <1>2, <1>6, AlarmFacts DEF SavedHandler
  <1> QED
    BY <1>1, <1>2, <1>3, <1>5, <1>7, NotAsked DEF AlarmsInv

LEMMA ExpireKept ==
    ASSUME AlarmsInv, A!Expire
    PROVE  AlarmsInv'
  <1>1. /\ aArmed /\ aArmed' = FALSE /\ due' = TRUE
        /\ UNCHANGED <<alarming, aAt, asleep, handler, saved, keys, asks, answer, replies, early, full, called>>
    BY DEF A!Expire, A!askVars
  <1>2. alarming # A!kehou5 /\ ~(aAt < 2)
    BY <1>1, AlarmFacts DEF Asked, AlarmToCome
  <1>3. AlarmTypes' /\ AlarmToCome' /\ SavedHandler'
    BY <1>1, <1>2, AlarmFacts DEF AlarmTypes, AlarmToCome, SavedHandler
  <1> QED
    BY <1>1, <1>2, <1>3, NotAsked DEF AlarmsInv

(* A signal has interrupted the sleep, if there was one.                   *)
LEMMA InterruptKept ==
    ASSUME AlarmsInv, A!Interrupts, alarming # A!kehou5, UNCHANGED <<alarming, handler, saved, asks, replies, full, called>>,
           keys' \in Nat, aArmed' \in BOOLEAN, due' \in BOOLEAN, aAt < 2 => ~aArmed' /\ ~due',
           alarming.rearms /\ aAt >= 2 => aArmed' \/ due'
    PROVE  AlarmsInv'
  <1>1. asleep' = FALSE /\ aAt' = (IF asleep THEN aAt + 1 ELSE aAt) /\ early' = (early \/ ~asleep)
    BY DEF A!Interrupts
  <1>2. /\ asleep => aAt \in 0 .. (Len(alarming.calls) - 1) /\ aAt >= 2
        /\ asleep /\ alarming = A!process_signal => aAt # 3
        /\ aAt \in Nat
    BY AlarmFacts
  <1>3. AlarmTypes'
    <2>1. early' \in BOOLEAN /\ asleep' \in BOOLEAN
      BY <1>1, Zenon
    <2>2. aAt' \in 0 .. Len(alarming.calls)
      BY <1>1, <1>2, AlarmFacts
    <2> QED
      BY <1>1, <2>1, <2>2, AlarmFacts DEF AlarmTypes
  <1>4. aAt' >= 2 => aAt >= 2
    BY <1>1, <1>2
  <1>5. aAt' < 2 => aAt < 2
    BY <1>1, <1>2
  <1>6. alarming = A!process_sigaction /\ aAt' = 2 => aArmed' \/ due' \/ early'
    <2>1. CASE asleep
      BY <1>1, <1>2, <2>1
    <2>2. CASE ~asleep
      BY <1>1, <2>2
    <2> QED
      BY <2>1, <2>2
  <1>7. AlarmToCome'
    BY <1>1, <1>4, <1>5, <1>6, AlarmFacts DEF AlarmToCome
  <1>8. SavedHandler'
    BY <1>1, <1>2, AlarmFacts DEF SavedHandler
  <1> QED
    BY <1>3, <1>7, <1>8, NotAsked DEF AlarmsInv

LEMMA HandleAlarmKept ==
    ASSUME AlarmsInv, A!HandleAlarm
    PROVE  AlarmsInv'
  <1>1. /\ due /\ due' = FALSE /\ aArmed' = (aArmed \/ alarming.rearms) /\ A!Interrupts
        /\ UNCHANGED <<alarming, handler, saved, keys, asks, answer, replies, full, called>>
    BY DEF A!HandleAlarm, A!askVars
  <1>2. aAt >= 2 /\ alarming # A!kehou5 /\ aAt \in Nat /\ keys \in Nat
    BY <1>1, AlarmFacts DEF AlarmTypes
  <1>3. aArmed' \in BOOLEAN /\ due' \in BOOLEAN /\ (alarming.rearms => aArmed')
    BY <1>1, Zenon
  <1>4. ~(aAt < 2) /\ keys' \in Nat
    BY <1>1, <1>2
  <1> QED
    BY <1>1, <1>2, <1>3, <1>4, InterruptKept

LEMMA HandleKeyKept ==
    ASSUME AlarmsInv, A!HandleKey
    PROVE  AlarmsInv'
  <1>1. /\ alarming # A!kehou5 /\ keys' = keys + 1 /\ A!Interrupts
        /\ UNCHANGED <<alarming, handler, saved, aArmed, due, asks, answer, replies, full, called>>
    BY DEF A!HandleKey
  <1>2. keys' \in Nat /\ (aAt < 2 => ~aArmed' /\ ~due') /\ (alarming.rearms /\ aAt >= 2 => aArmed' \/ due')
    BY <1>1, AlarmFacts DEF AlarmTypes, AlarmToCome
  <1>3. aArmed' \in BOOLEAN /\ due' \in BOOLEAN
    <2>1. aArmed \in BOOLEAN /\ due \in BOOLEAN
      BY AlarmFacts DEF AlarmTypes
    <2> QED
      BY <1>1, <2>1, Zenon
  <1> QED
    BY <1>1, <1>2, <1>3, InterruptKept

(* kehou5: what it does besides sleeping. *)
LEMMA QuestionFacts ==
    ASSUME AlarmsInv, alarming = A!kehou5
    PROVE  Questions /\ ~aArmed /\ ~due /\ Len(replies) \in Nat /\ keys \in Nat /\ Len(alarming.calls) = 2
           /\ (replies # << >> => Latest \in Letters) /\ (replies # << >> <=> Len(replies) > 0)
  <1>1. replies \in Seq(Letters)
    BY AlarmFacts DEF AlarmTypes
  <1>2. Len(replies) \in Nat /\ (replies # << >> => Len(replies) \in 1 .. Len(replies))
    BY <1>1, LenProperties, EmptySeq
  <1>3. replies # << >> => Latest \in Letters
    BY <1>1, <1>2, ElementOfSeq DEF Latest
  <1> QED
    BY <1>1, <1>2, <1>3, AlarmFacts, AlarmScripts DEF Asked, AlarmTypes

(* ... keeps everything but its questions and answers. *)
LEMMA QuestionKept ==
    ASSUME AlarmsInv, alarming = A!kehou5, UNCHANGED <<alarming, handler, saved, aArmed, due, full, called, early>>,
           keys' \in Nat, replies' \in Seq(Letters), Questions', asleep' = FALSE \/ UNCHANGED <<asleep, aAt>>
    PROVE  AlarmsInv'
  <1>1. aAt' \in {0, 2} /\ Len(alarming.calls) = 2
    BY QuestionFacts DEF Questions
  <1>2. asleep' \in BOOLEAN
    <2>1. asleep \in BOOLEAN
      BY AlarmFacts DEF AlarmTypes
    <2>2. asleep' = FALSE \/ asleep' = asleep
      OBVIOUS
    <2> QED
      BY <2>1, <2>2, Zenon
  <1>3. AlarmTypes'
    <2>1. aAt' \in 0 .. Len(alarming.calls)
      BY <1>1
    <2> QED
      BY <1>2, <2>1, AlarmFacts DEF AlarmTypes
  <1>4. ~alarming.rearms /\ alarming # A!process_sigaction /\ alarming # A!process_signal /\ ~aArmed /\ ~due
    BY AlarmFacts, AlarmScripts, QuestionFacts
  <1>5. asleep' => aAt' < Len(alarming'.calls) /\ alarming'.calls[aAt' + 1].op = "sleep"
    BY AlarmFacts DEF AlarmToCome
  <1>6. full' > 0 => ~alarming'.rearms /\ early'
    BY AlarmFacts DEF AlarmToCome
  <1>7. AlarmToCome' /\ SavedHandler'
    BY <1>4, <1>5, <1>6, AlarmFacts DEF AlarmToCome, SavedHandler
  <1>8. Asked'
    BY <1>4 DEF Asked
  <1> QED
    BY <1>3, <1>7, <1>8 DEF AlarmsInv

LEMMA AskKept ==
    ASSUME AlarmsInv, A!Ask
    PROVE  AlarmsInv'
  <1>1. /\ alarming = A!kehou5 /\ ~A!Over /\ asks = "no" /\ keys' = keys + 1 /\ asks' = "asking"
        /\ UNCHANGED <<alarming, aAt, asleep, handler, saved, aArmed, due, answer, replies, early, full, called>>
    BY DEF A!Ask
  <1>2. /\ Questions /\ Len(replies) \in Nat /\ keys \in Nat /\ Len(alarming.calls) = 2
        /\ replies \in Seq(Letters)
    BY <1>1, QuestionFacts, AlarmFacts DEF AlarmTypes
  <1>3. aAt # 2
    BY <1>1, <1>2 DEF A!Over
  <1>4. Questions'
    <2>1. Latest' = Latest
      BY <1>1 DEF Latest
    <2>2. CASE answer = << >> /\ keys = 2 * Len(replies) /\ aAt = 0
      BY <1>1, <1>2, <2>2 DEF Questions
    <2>3. CASE answer = <<"newline">> /\ keys = 2 * Len(replies) - 1 /\ replies # << >> /\ aAt = 0
      BY <1>1, <1>2, <2>3 DEF Questions
    <2>4. \/ answer = << >> /\ keys = 2 * Len(replies) /\ aAt = 0
          \/ answer = <<"newline">> /\ keys = 2 * Len(replies) - 1 /\ replies # << >> /\ aAt = 0
      BY <1>1, <1>2, <1>3 DEF Questions
    <2> QED
      BY <2>2, <2>3, <2>4
  <1>5. keys' \in Nat /\ replies' \in Seq(Letters)
    BY <1>1, <1>2
  <1> QED
    BY <1>1, <1>4, <1>5, QuestionKept

LEMMA AnswerKept ==
    ASSUME AlarmsInv, NEW letter \in Letters, A!Answer(letter)
    PROVE  AlarmsInv'
  <1>1. /\ asks = "asking" /\ answer = << >> /\ replies' = Append(replies, letter)
        /\ answer' = <<letter, "newline">>
        /\ UNCHANGED <<alarming, aAt, asleep, handler, saved, aArmed, due, keys, asks, early, full, called>>
    BY DEF A!Answer
  <1>2. alarming = A!kehou5
    BY <1>1, AlarmFacts DEF Asked
  <1>3. /\ Questions /\ Len(replies) \in Nat /\ keys \in Nat /\ replies \in Seq(Letters)
    BY <1>2, QuestionFacts, AlarmFacts DEF AlarmTypes
  <1>4. /\ replies' \in Seq(Letters) /\ Len(replies') = Len(replies) + 1 /\ replies'[Len(replies')] = letter
        /\ replies' # << >>
    BY <1>1, <1>3
  <1>5. keys = 2 * Len(replies) + 1 /\ aAt = 0
    BY <1>1, <1>3 DEF Questions
  <1>6. asks' = "asking" /\ answer' = <<replies'[Len(replies')], "newline">> /\ keys' = 2 * Len(replies') - 1 /\ aAt' = 0
    BY <1>1, <1>3, <1>4, <1>5
  <1>7. Questions'
    BY <1>4, <1>6 DEF Questions, Latest
  <1> QED
    BY <1>1, <1>2, <1>3, <1>4, <1>7, QuestionKept

LEMMA ReadAnswerKept ==
    ASSUME AlarmsInv, A!ReadAnswer
    PROVE  AlarmsInv'
  <1>1. /\ asks = "asking" /\ answer # << >> /\ answer' = Tail(answer) /\ asks' = "no" /\ asleep' = FALSE
        /\ aAt' = (IF Head(answer) = "y" THEN Len(alarming.calls) ELSE aAt)
        /\ UNCHANGED <<alarming, handler, saved, aArmed, due, keys, replies, early, full, called>>
    BY DEF A!ReadAnswer
  <1>2. alarming = A!kehou5
    BY <1>1, AlarmFacts DEF Asked
  <1>3. /\ Questions /\ Len(replies) \in Nat /\ keys \in Nat /\ replies \in Seq(Letters) /\ Len(alarming.calls) = 2
    BY <1>2, QuestionFacts, AlarmFacts DEF AlarmTypes
  <1>4. Latest' = Latest
    BY <1>1 DEF Latest
  <1>5. Questions'
    <2>1. CASE answer = <<Latest, "newline">> /\ keys = 2 * Len(replies) - 1 /\ replies # << >> /\ aAt = 0
      <3>1. Head(answer) = Latest /\ Tail(answer) = <<"newline">>
        BY <2>1
      <3> QED
        BY <1>1, <1>3, <1>4, <2>1, <3>1 DEF Questions
    <2>2. CASE answer = <<"newline">> /\ keys = 2 * Len(replies) /\ replies # << >> /\ aAt = 0
      <3>1. Head(answer) = "newline" /\ Tail(answer) = << >>
        BY <2>2
      <3> QED
        BY <1>1, <1>3, <2>2, <3>1 DEF Questions
    <2>3. \/ answer = <<Latest, "newline">> /\ keys = 2 * Len(replies) - 1 /\ replies # << >> /\ aAt = 0
          \/ answer = <<"newline">> /\ keys = 2 * Len(replies) /\ replies # << >> /\ aAt = 0
      BY <1>1, <1>3 DEF Questions
    <2> QED
      BY <2>1, <2>2, <2>3
  <1> QED
    BY <1>1, <1>2, <1>3, <1>5, QuestionKept

LEMMA AlarmsInit ==
    ASSUME ProgramsInit
    PROVE  AlarmsInv
  <1>1. A!Init
    BY DEF ProgramsInit
  <1>2. << >> \in Seq(Letters) /\ Len(<< >>) = 0
    BY EmptySeq
  <1>3. AlarmTypes
    <2>1. aAt \in 0 .. Len(alarming.calls)
      BY <1>1, AlarmScripts DEF A!Init
    <2> QED
      BY <1>1, <1>2, <2>1 DEF A!Init, AlarmTypes
  <1>4. AlarmToCome /\ SavedHandler
    BY <1>1 DEF A!Init, AlarmToCome, SavedHandler
  <1>5. Asked
    BY <1>1, <1>2 DEF A!Init, Asked, Questions
  <1> QED
    BY <1>3, <1>4, <1>5 DEF AlarmsInv

LEMMA AlarmsNext ==
    ASSUME AlarmsInv, A!Next
    PROVE  AlarmsInv'
  BY DoSignalKept, DoAlarmKept, FallAsleepKept, SleptThrough, LoopKept, DoCallKept, ReadAnswerKept,
     HandleAlarmKept, ExpireKept, HandleKeyKept, AskKept, AnswerKept DEF A!Next, A!Calls, A!User, Letters

LEMMA AlarmsStutter ==
    ASSUME AlarmsInv, UNCHANGED alarms
    PROVE  AlarmsInv'
  BY DEF alarms, AlarmsInv, AlarmTypes, AlarmToCome, SavedHandler, Asked, Questions, Latest

LEMMA AlarmsShown ==
    ASSUME AlarmsInv
    PROVE  A!SleepsInterrupted
  <1>1. full > 0 => ~alarming.rearms /\ early
    BY DEF AlarmsInv, AlarmToCome
  <1>2. called \subseteq {"timeout01"}
    BY DEF AlarmsInv, SavedHandler
  <1>3. ASSUME alarming = A!kehou5, A!Over \/ asks = "no"
        PROVE  /\ replies # << >> => keys \in {2 * Len(replies) - 1, 2 * Len(replies)}
               /\ A!Over => replies[Len(replies)] = "y" /\ keys = 2 * Len(replies) - 1
    <2>1. Questions /\ (A!Over <=> aAt = 2)
      BY <1>3, QuestionFacts DEF A!Over
    <2> QED
      BY <1>3, <2>1 DEF Questions, Latest
  <1> QED
    BY <1>1, <1>2, <1>3 DEF A!SleepsInterrupted

-----------------------------------------------------------------------------
(* A step of one program is none of the others. *)
LEMMA OthersStand ==
    ASSUME [ProgramsNext]_allVars
    PROVE  [Next]_vars /\ (E!Next \/ UNCHANGED eventfd) /\ (T!Next \/ UNCHANGED timer)
           /\ (P!Next \/ UNCHANGED pipes)
           /\ (F!Next \/ UNCHANGED fifoChat)
           /\ (N!Next \/ UNCHANGED counters)
           /\ (K!Next \/ UNCHANGED children)
           /\ (A!Next \/ UNCHANGED alarms)
  BY DEF ProgramsNext, allVars

(* taskQueue.cpp, Eventfd.cc, Timer.cc: whichever of the programs runs, with
   any number of threads and of signals, the products of one producer reach
   each consumer in the order in which they were made, and each wakeup and
   each expiry is in a counter until a callback begins. *)
THEOREM NothingIsForgotten == ProgramsSpec => []NothingForgotten
  <1> DEFINE Inv == IndInv /\ OrderInv /\ EventfdInv /\ TimerInv
  <1>1. ProgramsInit => Inv
    <2>1. Init => IndInv
      BY InitTypeOK DEF IndInv, Init, ProductInHand, Threads
    <2> QED
      BY <2>1, InitOrderInv, EventfdInit, TimerInit DEF ProgramsInit
  <1>2. Inv /\ [ProgramsNext]_allVars => Inv'
    <2> SUFFICES ASSUME Inv, [ProgramsNext]_allVars PROVE Inv'
      OBVIOUS
    <2>1. IndInv' /\ OrderInv'
      BY OthersStand, NextKeepsIndInv, NextKeepsOrder
    <2>2. EventfdInv'
      <3>1. CASE UNCHANGED eventfd
        BY <3>1 DEF eventfd, EventfdInv, E!TypeOK, E!NoWakeupForgotten
      <3> QED
        BY <3>1, OthersStand, EventfdNext
    <2>3. TimerInv'
      <3>1. CASE UNCHANGED timer
        BY <3>1
        DEF timer, TimerInv, TimerCounts, T!ReadBlocksOnlyDisarmed, T!NoExpiryForgotten
      <3> QED
        BY <3>1, OthersStand, TimerNext
    <2> QED
      BY <2>1, <2>2, <2>3
  <1>3. Inv => NothingForgotten
    BY OrderInvKeepsOrder, TimerClaims DEF IndInv, EventfdInv, NothingForgotten
  <1> HIDE DEF Inv
  <1> QED
    BY <1>1, <1>2, <1>3, PTL DEF ProgramsSpec

(* Pipes, the chat over FIFOs, threads that count, children and alarms,    *)
(* for every number of lines, threads and rounds: each process hears what  *)
(* the other wrote; no line of the chat is lost or doubled; the sum under  *)
(* the mutex is exact, those without it are off by no more than            *)
(* ResultsKnown says, and the semaphores hand over each number once and in *)
(* order; the zombies of a handler are those of merged signals; and        *)
(* SIGALRM ends each sleep early, but the one of a program that was late.  *)
THEOREM OneMachineStandsSafe == ProgramsSpec => []OneMachineSafe
  <1> DEFINE Inv == PipesInv /\ ChatInv /\ CountersInv /\ ChildrenInv /\ AlarmsInv
  <1>1. ProgramsInit => Inv
    BY PipesInit, ChatInit, CountersInit, ChildrenInit, AlarmsInit
  <1>2. Inv /\ [ProgramsNext]_allVars => Inv'
    <2> SUFFICES ASSUME Inv, [ProgramsNext]_allVars PROVE Inv'
      OBVIOUS
    <2>1. PipesInv'
      BY OthersStand, PipesNext, PipesStutter
    <2>2. ChatInv'
      BY OthersStand, ChatNext, ChatStutter
    <2>3. CountersInv'
      BY OthersStand, CountersNext, CountersStutter
    <2>4. ChildrenInv'
      BY OthersStand, ChildrenNext, ChildrenStutter
    <2>5. AlarmsInv'
      BY OthersStand, AlarmsNext, AlarmsStutter
    <2> QED
      BY <2>1, <2>2, <2>3, <2>4, <2>5
  <1>3. Inv => OneMachineSafe
    BY PipesShown, ChatShown, CountersShown, ChildrenShown, AlarmsShown DEF OneMachineSafe
  <1> HIDE DEF Inv
  <1> QED
    BY <1>1, <1>2, <1>3, PTL DEF ProgramsSpec
=============================================================================
