-------------------------- MODULE Threadpool_proofs --------------------------
(***************************************************************************)
(* What the task queue guarantees for any number of threads, any products  *)
(* and any capacity, and what the thread pool guarantees on top of it.     *)
(*                                                                         *)
(* The queue: none of the parts of IndInv is inductive by itself.  What    *)
(* pop() takes has the right type because the queue is not empty, which is *)
(* so because nobody else ran between the test and the front(), which is   *)
(* the lock discipline.                                                    *)
(*                                                                         *)
(* The pool, for any number of workers and adders, only takes the steps    *)
(* TaskQueue allows, so IndInv holds in it; StageInv adds who can hold a   *)
(* task at which point of the code, and TaskInv where each task is.        *)
(***************************************************************************)
EXTENDS Threadpool, FiniteSetTheorems, TLAPS

IndInv ==
    /\ TypeOK
    /\ LockDiscipline
    /\ CapacityRespected
    /\ ExitConditionStands
    /\ SleepersInPlace

(* A signal wakes threads, it puts none to sleep. *)
LEMMA NotifiedSubset ==
    ASSUME NEW S, NEW R \in Notified(S)
    PROVE  R \subseteq S
  BY DEF Notified

(* The initial state satisfies every part of the invariant. *)
LEMMA InitIndInv == Init => IndInv
  <1> SUFFICES ASSUME Init PROVE IndInv
    OBVIOUS
  <1> USE QueSizeAssumption, NULLAssumption DEF Init
  <1>1. TypeOK
    BY DEF TypeOK, Ops, PushOps
  <1>2. LockDiscipline
    BY DEF LockDiscipline, LockedOps
  <1>3. CapacityRespected
    BY DEF CapacityRespected
  <1>4. ExitConditionStands /\ SleepersInPlace
    BY DEF ExitConditionStands, SleepersInPlace
  <1> QED
    BY <1>1, <1>2, <1>3, <1>4 DEF IndInv

(* The calls and the spurious wakeups leave the mutex and the queue alone. *)
LEMMA CallsKeepIndInv ==
    ASSUME IndInv, NEW t \in Threads,
           \/ \E p \in Tasks : CallPush(t, p)
           \/ CallPop(t) \/ CallWakeup(t) \/ Discard(t) \/ SpuriousWakeup(t)
    PROVE  IndInv'
  <1> USE NULLAssumption DEF IndInv, Goto, Lock, Unlock
  <1>1. TypeOK'
    BY DEF CallPush, CallPop, CallWakeup, Discard, SpuriousWakeup, TypeOK,
           Ops, PushOps, PopOps
  <1>2. LockDiscipline'
    BY DEF CallPush, CallPop, CallWakeup, Discard, SpuriousWakeup, TypeOK,
           LockDiscipline, LockedOps
  <1>3. CapacityRespected'
    BY DEF CallPush, CallPop, CallWakeup, Discard, SpuriousWakeup,
           CapacityRespected
  <1>4. ExitConditionStands'
    BY DEF CallPush, CallPop, CallWakeup, Discard, SpuriousWakeup, TypeOK,
           ExitConditionStands, empty
  <1>5. SleepersInPlace'
    BY DEF CallPush, CallPop, CallWakeup, Discard, SpuriousWakeup, TypeOK,
           SleepersInPlace, empty, Asleep
  <1> QED
    BY <1>1, <1>2, <1>3, <1>4, <1>5

(* push(): only the last step changes the queue, and the mutex is held. *)
LEMMA PushKeepsIndInv ==
    ASSUME IndInv, NEW t \in Threads,
           PushLock(t) \/ PushWait(t) \/ PushStore(t)
    PROVE  IndInv'
  <1> USE NULLAssumption, QueSizeAssumption DEF IndInv, Goto, Lock, Unlock
  <1>1. CASE PushLock(t)
    <2>1. TypeOK' /\ CapacityRespected'
      BY <1>1 DEF PushLock, TypeOK, Ops, PushOps, PopOps, CapacityRespected
    <2>2. LockDiscipline' /\ ExitConditionStands' /\ SleepersInPlace'
      BY <1>1 DEF PushLock, TypeOK, LockDiscipline, LockedOps, ExitConditionStands,
                  SleepersInPlace, empty
    <2> QED
      BY <2>1, <2>2
  <1>2. CASE PushWait(t)
    <2>1. TypeOK' /\ CapacityRespected'
      BY <1>2 DEF PushWait, TypeOK, Ops, PushOps, PopOps, CapacityRespected
    <2>2. LockDiscipline' /\ ExitConditionStands' /\ SleepersInPlace'
      BY <1>2 DEF PushWait, TypeOK, LockDiscipline, LockedOps, ExitConditionStands,
                  SleepersInPlace, empty
    <2> QED
      BY <2>1, <2>2
  <1>3. CASE PushStore(t)
    <2>1. mutex = t /\ \A s \in Threads \ {t} : op[s] \notin LockedOps
      BY <1>3 DEF PushStore, LockDiscipline, LockedOps
    <2>2. que' \in Seq(Tasks) /\ Len(que') = Len(que) + 1 /\ Len(que) # QueSize
      BY <1>3 DEF PushStore, TypeOK, PushOps, full
    <2>3. TypeOK' /\ CapacityRespected'
      BY <1>3, <2>2, NotifiedSubset
      DEF PushStore, TypeOK, Ops, PushOps, PopOps, CapacityRespected
    <2>4. LockDiscipline' /\ ExitConditionStands'
      BY <1>3, <2>1
      DEF PushStore, TypeOK, LockDiscipline, LockedOps, ExitConditionStands
    <2>5. SleepersInPlace'
      BY <1>3, <2>1, NotifiedSubset
      DEF PushStore, TypeOK, LockedOps, SleepersInPlace
    <2> QED
      BY <2>3, <2>4, <2>5
  <1> QED
    BY <1>1, <1>2, <1>3

(* pop(): what the loop condition saw still holds when the thread acts on it,
   for the mutex is held in between. *)
LEMMA PopKeepsIndInv ==
    ASSUME IndInv, NEW t \in Threads,
           PopLock(t) \/ PopTest(t) \/ PopWait(t) \/ PopTake(t) \/ PopNull(t)
    PROVE  IndInv'
  <1> USE NULLAssumption, QueSizeAssumption DEF IndInv, Goto, Lock, Unlock
  <1>1. CASE PopLock(t)
    <2>1. TypeOK' /\ CapacityRespected'
      BY <1>1 DEF PopLock, TypeOK, Ops, PushOps, PopOps, CapacityRespected
    <2>2. LockDiscipline' /\ ExitConditionStands' /\ SleepersInPlace'
      BY <1>1 DEF PopLock, TypeOK, LockDiscipline, LockedOps, ExitConditionStands,
                  SleepersInPlace, empty
    <2> QED
      BY <2>1, <2>2
  <1>2. CASE PopTest(t)
    <2>1. TypeOK' /\ CapacityRespected'
      BY <1>2 DEF PopTest, TypeOK, Ops, PushOps, PopOps, CapacityRespected
    <2>2. LockDiscipline'
      BY <1>2 DEF PopTest, TypeOK, LockDiscipline, LockedOps
    <2>3. ExitConditionStands' /\ SleepersInPlace'
      BY <1>2 DEF PopTest, TypeOK, ExitConditionStands, SleepersInPlace, empty
    <2> QED
      BY <2>1, <2>2, <2>3
  <1>3. CASE PopWait(t)
    <2>1. TypeOK' /\ CapacityRespected'
      BY <1>3 DEF PopWait, TypeOK, Ops, PushOps, PopOps, CapacityRespected
    <2>2. LockDiscipline' /\ ExitConditionStands' /\ SleepersInPlace'
      BY <1>3 DEF PopWait, TypeOK, LockDiscipline, LockedOps, ExitConditionStands,
                  SleepersInPlace, empty
    <2> QED
      BY <2>1, <2>2
  <1>4. CASE PopTake(t)
    <2>1. \A s \in Threads \ {t} : op[s] \notin LockedOps
      BY <1>4 DEF PopTake, LockDiscipline, LockedOps
    <2>2. que # << >>
      BY <1>4 DEF PopTake, ExitConditionStands, empty
    <2>3. /\ Head(que) \in Tasks
          /\ que' \in Seq(Tasks)
          /\ Len(que') = Len(que) - 1
      BY <1>4, <2>2 DEF PopTake, TypeOK
    <2>4. TypeOK' /\ CapacityRespected'
      BY <1>4, <2>3, NotifiedSubset
      DEF PopTake, TypeOK, Ops, PushOps, PopOps, CapacityRespected
    <2>5. LockDiscipline' /\ ExitConditionStands'
      BY <1>4, <2>1
      DEF PopTake, TypeOK, LockDiscipline, LockedOps, ExitConditionStands
    <2>6. SleepersInPlace'
      BY <1>4, <2>1, NotifiedSubset
      DEF PopTake, TypeOK, LockedOps, SleepersInPlace
    <2> QED
      BY <2>4, <2>5, <2>6
  <1>5. CASE PopNull(t)
    <2>1. TypeOK' /\ CapacityRespected'
      BY <1>5 DEF PopNull, TypeOK, Ops, PushOps, PopOps, CapacityRespected
    <2>2. LockDiscipline' /\ ExitConditionStands' /\ SleepersInPlace'
      BY <1>5 DEF PopNull, TypeOK, LockDiscipline, LockedOps, ExitConditionStands,
                  SleepersInPlace, empty
    <2> QED
      BY <2>1, <2>2
  <1> QED
    BY <1>1, <1>2, <1>3, <1>4, <1>5

(* wakeup() changes _flag under the other threads' feet, and IndInv says
   nothing about _flag: that is why its two steps are harmless to safety. *)
LEMMA WakeupKeepsIndInv ==
    ASSUME IndInv, NEW t \in Threads, ClearFlag(t) \/ NotifyAll(t)
    PROVE  IndInv'
  <1> USE NULLAssumption DEF IndInv, Goto, ClearFlag, NotifyAll
  <1>1. TypeOK' /\ CapacityRespected'
    BY DEF TypeOK, Ops, PushOps, PopOps, CapacityRespected
  <1>2. LockDiscipline'
    BY DEF TypeOK, LockDiscipline, LockedOps
  <1>3. ExitConditionStands' /\ SleepersInPlace'
    BY DEF TypeOK, ExitConditionStands, SleepersInPlace, empty
  <1> QED
    BY <1>1, <1>2, <1>3

LEMMA NextKeepsIndInv == IndInv /\ [Next]_vars => IndInv'
  <1> SUFFICES ASSUME IndInv, [Next]_vars PROVE IndInv'
    OBVIOUS
  <1>1. CASE Next
    <2> PICK t \in Threads :
            \/ \E p \in Tasks : CallPush(t, p)
            \/ CallPop(t) \/ CallWakeup(t) \/ Discard(t) \/ SpuriousWakeup(t)
            \/ Step(t)
      BY <1>1 DEF Next
    <2>1. CASE Step(t)
      BY <2>1, PushKeepsIndInv, PopKeepsIndInv, WakeupKeepsIndInv DEF Step
    <2> QED
      BY <2>1, CallsKeepIndInv
  <1>2. CASE UNCHANGED vars
    BY <1>2 DEF vars, IndInv, TypeOK, LockDiscipline, CapacityRespected,
                ExitConditionStands, SleepersInPlace, empty
  <1> QED
    BY <1>1, <1>2

(* In every reachable state all parts of the invariant hold. *)
THEOREM TaskQueueInvariant == Spec => []IndInv
  BY InitIndInv, NextKeepsIndInv, PTL DEF Spec

(* TaskQueue.cc: the variables keep their types, whoever calls what. *)
THEOREM TypeCorrect == Spec => []TypeOK
  <1>1. IndInv => TypeOK
    BY DEF IndInv
  <1> QED
    BY <1>1, TaskQueueInvariant, PTL

(* TaskQueue.cc:36-62: at most one thread is inside push() or pop(), and each
   way out of them releases the mutex. *)
THEOREM MutualExclusion == Spec => []LockDiscipline
  <1>1. IndInv => LockDiscipline
    BY DEF IndInv
  <1> QED
    BY <1>1, TaskQueueInvariant, PTL

(* TaskQueue.cc:37-42: never more than _queSize products are stored. *)
THEOREM NeverOverfull == Spec => []CapacityRespected
  <1>1. IndInv => CapacityRespected
    BY DEF IndInv
  <1> QED
    BY <1>1, TaskQueueInvariant, PTL

(* TaskQueue.cc:54-56: pop() takes no front() of an empty queue although it
   reads _flag twice. *)
THEOREM NoFrontOfEmpty == Spec => []ExitConditionStands
  <1>1. IndInv => ExitConditionStands
    BY DEF IndInv
  <1> QED
    BY <1>1, TaskQueueInvariant, PTL

(* TaskQueue.cc:39, 51: who sleeps is in the wait set of the operation it is
   in, and goes to sleep in pop() on a queue that is still empty. *)
THEOREM SleepersBelong == Spec => []SleepersInPlace
  <1>1. IndInv => SleepersInPlace
    BY DEF IndInv
  <1> QED
    BY <1>1, TaskQueueInvariant, PTL

-----------------------------------------------------------------------------
(* Each step of the queue is one step of the atomic FIFO queue, or none. *)
LEMMA StepRefines ==
    ASSUME IndInv, NEW t \in Threads, Step(t)
    PROVE  [BQ!Next]_(BQ!vars)
  <1> DEFINE Mode == [s \in Threads |-> ModeOf(op[s])]
  <1> USE DEF IndInv, Goto, Lock, Unlock, ModeOf
  <1>1. CASE PushLock(t) \/ PushWait(t) \/ PopLock(t) \/ PopTest(t) \/ PopWait(t)
             \/ NotifyAll(t)
    <2>1. Mode' = Mode
      BY <1>1 DEF PushLock, PushWait, PopLock, PopTest, PopWait, NotifyAll,
                  TypeOK, PushOps, PopOps
    <2> QED
      BY <1>1, <2>1 DEF PushLock, PushWait, PopLock, PopTest, PopWait,
                        NotifyAll, BQ!vars
  <1>2. CASE PushStore(t)
    <2>1. Mode[t] = "putting" /\ Mode' = [Mode EXCEPT ![t] = "idle"]
      BY <1>2 DEF PushStore, TypeOK, PushOps, PopOps
    <2>2. Len(que) < QueSize
      BY <1>2, QueSizeAssumption DEF PushStore, TypeOK, CapacityRespected, full
    <2>3. BQ!Put(t)
      BY <1>2, <2>1, <2>2 DEF PushStore, BQ!Put
    <2> QED
      BY <2>3 DEF BQ!Next
  <1>3. CASE PopTake(t)
    <2>1. Mode[t] = "taking" /\ Mode' = [Mode EXCEPT ![t] = "idle"]
      BY <1>3 DEF PopTake, TypeOK, PushOps, PopOps
    <2>2. que # << >>
      BY <1>3 DEF PopTake, ExitConditionStands, empty
    <2>3. BQ!Take(t)
      BY <1>3, <2>1, <2>2 DEF PopTake, BQ!Take
    <2> QED
      BY <2>3 DEF BQ!Next
  <1>4. CASE PopNull(t)
    <2>1. Mode[t] = "taking" /\ Mode' = [Mode EXCEPT ![t] = "idle"]
      BY <1>4 DEF PopNull, TypeOK, PushOps, PopOps
    <2>2. ~flag
      BY <1>4 DEF PopNull, ExitConditionStands
    <2>3. BQ!Refuse(t)
      BY <1>4, <2>1, <2>2 DEF PopNull, BQ!Refuse
    <2> QED
      BY <2>3 DEF BQ!Next
  <1>5. CASE ClearFlag(t)
    <2>1. Mode' = Mode
      BY <1>5 DEF ClearFlag, TypeOK, PushOps, PopOps
    <2>2. BQ!Close
      BY <1>5, <2>1 DEF ClearFlag, BQ!Close
    <2> QED
      BY <2>2 DEF BQ!Next
  <1> QED
    BY <1>1, <1>2, <1>3, <1>4, <1>5 DEF Step

(* So is each call, and a spurious wakeup is no step of it at all. *)
LEMMA CallRefines ==
    ASSUME IndInv, NEW t \in Threads,
           \/ \E p \in Tasks : CallPush(t, p)
           \/ CallPop(t) \/ CallWakeup(t) \/ Discard(t) \/ SpuriousWakeup(t)
    PROVE  [BQ!Next]_(BQ!vars)
  <1> DEFINE Mode == [s \in Threads |-> ModeOf(op[s])]
  <1> USE DEF IndInv, Goto, Lock, Unlock, ModeOf
  <1>1. CASE \E p \in Tasks : CallPush(t, p)
    <2> PICK p \in Tasks : CallPush(t, p)
      BY <1>1
    <2>1. Mode[t] = "idle" /\ Mode' = [Mode EXCEPT ![t] = "putting"]
      BY DEF CallPush, TypeOK, PushOps, PopOps
    <2>2. BQ!Offer(t, p)
      BY <2>1 DEF CallPush, BQ!Offer
    <2> QED
      BY <2>2 DEF BQ!Next
  <1>2. CASE CallPop(t)
    <2>1. Mode[t] = "idle" /\ Mode' = [Mode EXCEPT ![t] = "taking"]
      BY <1>2 DEF CallPop, TypeOK, PushOps, PopOps
    <2>2. BQ!Ask(t)
      BY <1>2, <2>1 DEF CallPop, BQ!Ask
    <2> QED
      BY <2>2 DEF BQ!Next
  <1>3. CASE Discard(t)
    <2>1. Mode[t] = "idle" /\ Mode' = Mode
      BY <1>3 DEF Discard, TypeOK, PushOps, PopOps
    <2>2. BQ!Drop(t)
      BY <1>3, <2>1 DEF Discard, BQ!Drop
    <2> QED
      BY <2>2 DEF BQ!Next
  <1>4. CASE CallWakeup(t) \/ SpuriousWakeup(t)
    <2>1. Mode' = Mode
      BY <1>4 DEF CallWakeup, SpuriousWakeup, TypeOK, PushOps, PopOps
    <2> QED
      BY <1>4, <2>1 DEF CallWakeup, SpuriousWakeup, BQ!vars
  <1> QED
    BY <1>1, <1>2, <1>3, <1>4

(* TaskQueue.cc: with any number of threads the queue behaves as an atomic
   FIFO queue of capacity _queSize that refuses takers once it is closed. *)
THEOREM TaskQueueRefinement == Spec => ImplementsBoundedQueue
  <1>1. Init => BQ!Init
    BY DEF Init, BQ!Init, ModeOf, PushOps, PopOps
  <1>2. IndInv /\ [Next]_vars => [BQ!Next]_(BQ!vars)
    <2> SUFFICES ASSUME IndInv, [Next]_vars PROVE [BQ!Next]_(BQ!vars)
      OBVIOUS
    <2>1. CASE Next
      BY <2>1, StepRefines, CallRefines DEF Next
    <2>2. CASE UNCHANGED vars
      BY <2>2 DEF vars, BQ!vars
    <2> QED
      BY <2>1, <2>2
  <1> QED
    BY <1>1, <1>2, TaskQueueInvariant, PTL
    DEF Spec, BQ!Spec, ImplementsBoundedQueue

-----------------------------------------------------------------------------
(***************************************************************************)
(* That one pthread_cond_signal per product, and one per freed place, is   *)
(* enough.  The argument compares sizes of sets: a signal adds to the      *)
(* threads that are awake exactly the one that the new product, or the     *)
(* new place, needs.                                                       *)
(***************************************************************************)
LEMMA WiderSet ==
    ASSUME NEW A, NEW B, IsFiniteSet(B), A \subseteq B
    PROVE  /\ Cardinality(A) \in Nat /\ Cardinality(B) \in Nat
           /\ Cardinality(A) <= Cardinality(B)
  BY FS_Subset, FS_CardinalityType

LEMMA OneMore ==
    ASSUME NEW A, NEW B, NEW x, IsFiniteSet(B), A \cup {x} \subseteq B, x \notin A
    PROVE  /\ Cardinality(A) \in Nat /\ Cardinality(B) \in Nat
           /\ Cardinality(A) + 1 <= Cardinality(B)
  <1>1. IsFiniteSet(A)
    BY FS_Subset
  <1>2. Cardinality(A \cup {x}) = Cardinality(A) + 1
    BY <1>1, FS_AddElement
  <1> QED
    BY <1>1, <1>2, WiderSet, FS_CardinalityType

LEMMA OneLess ==
    ASSUME NEW A, NEW B, NEW x, IsFiniteSet(A), IsFiniteSet(B), A \ {x} \subseteq B
    PROVE  /\ Cardinality(A) \in Nat /\ Cardinality(B) \in Nat
           /\ Cardinality(A) - 1 <= Cardinality(B)
  <1>1. Cardinality(A) \in Nat
    BY FS_CardinalityType
  <1>2. Cardinality(A \ {x}) = IF x \in A THEN Cardinality(A) - 1
                               ELSE Cardinality(A)
    BY FS_RemoveElement
  <1>3. /\ Cardinality(A \ {x}) \in Nat /\ Cardinality(B) \in Nat
        /\ Cardinality(A \ {x}) <= Cardinality(B)
    BY WiderSet
  <1> QED
    BY <1>1, <1>2, <1>3

LEMMA AwakeFinite ==
    /\ IsFiniteSet(AwakePoppers) /\ IsFiniteSet(AwakePushers)
    /\ IsFiniteSet(AwakePoppers') /\ IsFiniteSet(AwakePushers')
  BY ThreadsAssumption, FS_Subset DEF AwakePoppers, AwakePushers

-----------------------------------------------------------------------------
(* The threads in pop() *)

LEMMA PopperStep ==
    ASSUME IndInv, IndInv', NoProductWithoutPopper, Next
    PROVE  NoProductWithoutPopper'
  <1> SUFFICES ASSUME flag', notEmpty' # {}
               PROVE  Len(que') <= Cardinality(AwakePoppers')
    BY DEF NoProductWithoutPopper
  <1> PICK t \in Threads :
            \/ \E p \in Tasks : CallPush(t, p)
            \/ CallPop(t) \/ CallWakeup(t) \/ Discard(t) \/ SpuriousWakeup(t)
            \/ Step(t)
    BY DEF Next
  <1> USE DEF Goto
  <1>0. Len(que) \in Nat /\ Len(que') \in Nat
    BY DEF IndInv, TypeOK
  <1>1. CASE PushStore(t)
    <2>1. flag /\ notEmpty # {} /\ Len(que') = Len(que) + 1
      BY <1>1 DEF PushStore, IndInv, TypeOK, Notified, PushOps
    <2>2. PICK s \in notEmpty : notEmpty' = notEmpty \ {s}
      BY <1>1, <2>1 DEF PushStore, Notified
    <2>3. s \notin AwakePoppers /\ AwakePoppers \cup {s} \subseteq AwakePoppers'
      BY <1>1, <2>1, <2>2
      DEF PushStore, AwakePoppers, PopOps, IndInv, TypeOK, SleepersInPlace
    <2>4. /\ Cardinality(AwakePoppers) \in Nat /\ Cardinality(AwakePoppers') \in Nat
          /\ Cardinality(AwakePoppers) + 1 <= Cardinality(AwakePoppers')
      BY <2>3, OneMore, AwakeFinite
    <2> QED
      BY <1>0, <2>1, <2>4 DEF NoProductWithoutPopper
  <1>2. CASE PopTake(t)
    <2>1. flag /\ notEmpty # {} /\ Len(que') = Len(que) - 1
      BY <1>2 DEF PopTake, IndInv, TypeOK, ExitConditionStands, empty
    <2>2. AwakePoppers \ {t} \subseteq AwakePoppers'
      BY <1>2 DEF PopTake, AwakePoppers, PopOps, IndInv, TypeOK
    <2>3. /\ Cardinality(AwakePoppers) \in Nat /\ Cardinality(AwakePoppers') \in Nat
          /\ Cardinality(AwakePoppers) - 1 <= Cardinality(AwakePoppers')
      BY <2>2, OneLess, AwakeFinite
    <2> QED
      BY <1>0, <2>1, <2>3 DEF NoProductWithoutPopper
  <1>3. CASE PopWait(t)
    <2>1. Len(que') = 0
      BY <1>3 DEF PopWait, IndInv, SleepersInPlace, empty
    <2> QED
      BY <2>1, AwakeFinite, FS_CardinalityType
  <1>4. CASE PopNull(t)
    BY <1>4 DEF PopNull, IndInv, ExitConditionStands
  <1>5. CASE ~ (PushStore(t) \/ PopTake(t) \/ PopWait(t) \/ PopNull(t))
    <2>1. flag /\ notEmpty # {} /\ que' = que
      BY <1>5 DEF CallPush, CallPop, CallWakeup, Discard, SpuriousWakeup, Step,
                  PushLock, PushWait, PopLock, PopTest, ClearFlag, NotifyAll,
                  IndInv, TypeOK
    <2>2. AwakePoppers \subseteq AwakePoppers'
      BY <1>5 DEF CallPush, CallPop, CallWakeup, Discard, SpuriousWakeup, Step,
                  PushLock, PushWait, PopLock, PopTest, ClearFlag, NotifyAll,
                  AwakePoppers, PopOps, IndInv, TypeOK
    <2> QED
      BY <1>0, <2>1, <2>2, WiderSet, AwakeFinite DEF NoProductWithoutPopper
  <1> QED
    BY <1>1, <1>2, <1>3, <1>4, <1>5

-----------------------------------------------------------------------------
(* The threads in push() *)

LEMMA PusherStep ==
    ASSUME IndInv, IndInv', NoPlaceWithoutPusher, Next
    PROVE  NoPlaceWithoutPusher'
  <1> SUFFICES ASSUME notFull' # {}
               PROVE  QueSize - Len(que') <= Cardinality(AwakePushers')
    BY DEF NoPlaceWithoutPusher
  <1> PICK t \in Threads :
            \/ \E p \in Tasks : CallPush(t, p)
            \/ CallPop(t) \/ CallWakeup(t) \/ Discard(t) \/ SpuriousWakeup(t)
            \/ Step(t)
    BY DEF Next
  <1> USE QueSizeAssumption DEF Goto
  <1>0. Len(que) \in Nat /\ Len(que') \in Nat
    BY DEF IndInv, TypeOK
  <1>1. CASE PopTake(t)
    <2>1. notFull # {} /\ Len(que') = Len(que) - 1
      BY <1>1 DEF PopTake, IndInv, TypeOK, Notified, ExitConditionStands, empty
    <2>2. PICK s \in notFull : notFull' = notFull \ {s}
      BY <1>1, <2>1 DEF PopTake, Notified
    <2>3. s \notin AwakePushers /\ AwakePushers \cup {s} \subseteq AwakePushers'
      BY <1>1, <2>1, <2>2
      DEF PopTake, AwakePushers, PushOps, IndInv, TypeOK, SleepersInPlace
    <2>4. /\ Cardinality(AwakePushers) \in Nat /\ Cardinality(AwakePushers') \in Nat
          /\ Cardinality(AwakePushers) + 1 <= Cardinality(AwakePushers')
      BY <2>3, OneMore, AwakeFinite
    <2> QED
      BY <1>0, <2>1, <2>4 DEF NoPlaceWithoutPusher
  <1>2. CASE PushStore(t)
    <2>1. notFull # {} /\ Len(que') = Len(que) + 1
      BY <1>2 DEF PushStore, IndInv, TypeOK, PushOps
    <2>2. AwakePushers \ {t} \subseteq AwakePushers'
      BY <1>2 DEF PushStore, AwakePushers, PushOps, IndInv, TypeOK
    <2>3. /\ Cardinality(AwakePushers) \in Nat /\ Cardinality(AwakePushers') \in Nat
          /\ Cardinality(AwakePushers) - 1 <= Cardinality(AwakePushers')
      BY <2>2, OneLess, AwakeFinite
    <2> QED
      BY <1>0, <2>1, <2>3 DEF NoPlaceWithoutPusher
  <1>3. CASE PushWait(t)
    <2>1. QueSize - Len(que') = 0
      BY <1>3 DEF PushWait, full
    <2> QED
      BY <2>1, AwakeFinite, FS_CardinalityType
  <1>4. CASE ~ (PushStore(t) \/ PopTake(t) \/ PushWait(t))
    <2>1. notFull # {} /\ que' = que
      BY <1>4 DEF CallPush, CallPop, CallWakeup, Discard, SpuriousWakeup, Step,
                  PushLock, PopLock, PopTest, PopWait, PopNull, ClearFlag,
                  NotifyAll, IndInv, TypeOK
    <2>2. AwakePushers \subseteq AwakePushers'
      BY <1>4 DEF CallPush, CallPop, CallWakeup, Discard, SpuriousWakeup, Step,
                  PushLock, PopLock, PopTest, PopWait, PopNull, ClearFlag,
                  NotifyAll, AwakePushers, PushOps, IndInv, TypeOK
    <2> QED
      BY <1>0, <2>1, <2>2, WiderSet, AwakeFinite DEF NoPlaceWithoutPusher
  <1> QED
    BY <1>1, <1>2, <1>3, <1>4

-----------------------------------------------------------------------------
(* TaskQueue.cc:43, 51: while a thread sleeps in pop(), every queued product
   has a thread awake in pop(): notifying one sleeper per push loses none. *)
THEOREM EnoughPoppersAwake == Spec => []NoProductWithoutPopper
  <1>1. Init => NoProductWithoutPopper
    BY DEF Init, NoProductWithoutPopper
  <1>2. IndInv /\ IndInv' /\ NoProductWithoutPopper /\ [Next]_vars
            => NoProductWithoutPopper'
    <2>1. CASE UNCHANGED vars
      BY <2>1 DEF vars, NoProductWithoutPopper, AwakePoppers
    <2> QED
      BY <2>1, PopperStep
  <1> QED
    BY <1>1, <1>2, TaskQueueInvariant, PTL DEF Spec

(* TaskQueue.cc:39, 58: while a thread sleeps in push(), every free place has
   a thread awake in push(): notifying one sleeper per pop loses none. *)
THEOREM EnoughPushersAwake == Spec => []NoPlaceWithoutPusher
  <1>1. Init => NoPlaceWithoutPusher
    BY DEF Init, NoPlaceWithoutPusher
  <1>2. IndInv /\ IndInv' /\ NoPlaceWithoutPusher /\ [Next]_vars
            => NoPlaceWithoutPusher'
    <2>1. CASE UNCHANGED vars
      BY <2>1 DEF vars, NoPlaceWithoutPusher, AwakePushers
    <2> QED
      BY <2>1, PusherStep
  <1> QED
    BY <1>1, <1>2, TaskQueueInvariant, PTL DEF Spec

(* TaskQueue.cc:43, 58: notify() instead of notifyAll() is enough on both
   sides, however many threads push and pop. *)
THEOREM OneSignalIsEnough == Spec => []SignalsSuffice
  BY EnoughPoppersAwake, EnoughPushersAwake, PTL DEF SignalsSuffice

-----------------------------------------------------------------------------
(* The thread pool. *)

(* Each step of the pool is a step of the queue or leaves it alone. *)
LEMMA PoolStepsTheQueue == [PoolNext]_allVars => [Next]_vars
  <1> SUFFICES ASSUME [PoolNext]_allVars PROVE [Next]_vars
    OBVIOUS
  <1>1. CASE MainStep \/ Stop
    <2>1. CASE SetExit
      BY <2>1, WorkersAssumption DEF SetExit, Next
    <2> QED
      BY <1>1, <2>1 DEF MainStep, Start, Stop, Join, vars
  <1>2. CASE \E w \in Workers : WorkerStep(w)
    BY <1>2, WorkersAssumption DEF WorkerStep, GetTask, LeaveLoop, RunTask, Next, vars
  <1>3. CASE \E a \in Adders : Accept(a) \/ \E task \in Tasks : AddTask(a, task)
    BY <1>3, WorkersAssumption DEF Accept, AddTask, Next, Step
  <1>4. CASE \E t \in Threads : QueueStep(t) \/ Spurious(t)
    BY <1>4 DEF QueueStep, Spurious, Next, Step
  <1>5. CASE UNCHANGED allVars
    BY <1>5 DEF allVars, vars
  <1> QED
    BY <1>1, <1>2, <1>3, <1>4, <1>5 DEF PoolNext

(* The queue's invariant, in the pool. *)
LEMMA QueueInvariant == PoolSpec => []IndInv
  <1>1. PoolInit => IndInv
    BY InitIndInv DEF PoolInit
  <1>2. IndInv /\ [PoolNext]_allVars => IndInv'
    BY PoolStepsTheQueue, NextKeepsIndInv
  <1> QED
    BY <1>1, <1>2, PTL DEF PoolSpec

-----------------------------------------------------------------------------
(***************************************************************************)
(* Workers only call pop() and others only push() and wakeup(); a worker   *)
(* holds a task from the return of pop() to the end of the task, another   *)
(* thread holds one inside push(), and no task is in two places.           *)
(***************************************************************************)
Others == Threads \ Workers

StageInv ==
    /\ isExit \in BOOLEAN
    /\ undone \subseteq Tasks
    /\ stage \in [Threads -> MainStages \cup WorkerStages]
    /\ \A w \in Workers :
        /\ stage[w] \in WorkerStages
        /\ op[w] \in {"out"} \cup PopOps
        /\ op[w] # "out" => stage[w] = "task"
        /\ slot[w] # NULL => stage[w] = "task" /\ op[w] = "out"
    /\ \A t \in Others :
        /\ stage[t] \in MainStages
        /\ op[t] \notin PopOps
        /\ slot[t] # NULL => op[t] \in PushOps

Queued == {que[i] : i \in 1..Len(que)}

TaskInv ==
    /\ \A task \in undone : task \in Queued \/ \E w \in Workers : slot[w] = task
    /\ Queued \subseteq undone
    /\ \A w \in Workers : slot[w] # NULL => slot[w] \in undone \ Queued
    /\ \A t \in Others : slot[t] \notin undone
    /\ \A i, j \in 1..Len(que) : que[i] = que[j] => i = j
    /\ \A t, u \in Threads : slot[t] = slot[u] /\ slot[t] # NULL => t = u

(* What the proofs below need to know of the queue. *)
QueueFacts ==
    /\ TypeOK
    /\ \A t \in Threads : op[t] = "popTake" => que # << >>

LEMMA QueueFactsHold == IndInv => QueueFacts
  BY DEF IndInv, ExitConditionStands, empty, QueueFacts

LEMMA InvInit == PoolInit => StageInv /\ TaskInv
  <1> SUFFICES ASSUME PoolInit PROVE StageInv /\ TaskInv
    OBVIOUS
  <1>1. StageInv
    BY NULLAssumption, QueSizeAssumption, WorkersAssumption
    DEF PoolInit, Init, StageInv, Others, MainStages, WorkerStages,
        PopOps, PushOps
  <1>2. /\ que = << >> /\ undone = {}
        /\ \A t \in Threads : slot[t] = NULL
    BY DEF PoolInit, Init
  <1>3. Len(que) = 0 /\ Queued = {}
    BY <1>2 DEF Queued
  <1> QED
    BY <1>1, <1>2, <1>3, WorkersAssumption DEF TaskInv, Others

LEMMA StageInvStep ==
    ASSUME QueueFacts, StageInv, PoolNext
    PROVE  StageInv'
  <1> USE NULLAssumption, QueSizeAssumption, WorkersAssumption DEF StageInv, Others, QueueFacts,
          TypeOK, Goto, Ops, PopOps, PushOps, MainStages, WorkerStages
  <1>1. ASSUME NEW w \in Workers, Start(w) PROVE StageInv'
    BY <1>1 DEF Start, vars
  <1>2. CASE Stop
    BY <1>2 DEF Stop, Enter, vars
  <1>3. CASE SetExit
    BY <1>3 DEF SetExit, Enter, CallWakeup
  <1>4. CASE Join
    BY <1>4 DEF Join, Enter, vars
  <1>5. ASSUME NEW w \in Workers, GetTask(w) PROVE StageInv'
    BY <1>5 DEF GetTask, Enter, CallPop
  <1>6. ASSUME NEW w \in Workers, LeaveLoop(w) PROVE StageInv'
    BY <1>6 DEF LeaveLoop, Enter, vars
  <1>7. ASSUME NEW w \in Workers, RunTask(w) PROVE StageInv'
    BY <1>7 DEF RunTask, Enter, Discard
  <1>8. ASSUME NEW a \in Adders, Accept(a) PROVE StageInv'
    BY <1>8 DEF Accept, PushStore
  <1>9. ASSUME NEW a \in Adders, NEW task \in Tasks, AddTask(a, task) PROVE StageInv'
    BY <1>9 DEF AddTask, CallPush, poolVars
  <1>10. ASSUME NEW t \in Threads, QueueStep(t) PROVE StageInv'
    <2>1. isExit' = isExit /\ stage' = stage /\ undone' = undone
      BY <1>10 DEF QueueStep, poolVars
    <2>2. CASE PushLock(t)
      BY <2>1, <2>2 DEF PushLock
    <2>3. CASE PushWait(t)
      BY <2>1, <2>3 DEF PushWait
    <2>4. CASE PopLock(t)
      BY <2>1, <2>4 DEF PopLock
    <2>5. CASE PopTest(t)
      BY <2>1, <2>5 DEF PopTest
    <2>6. CASE PopWait(t)
      BY <2>1, <2>6 DEF PopWait
    <2>7. CASE PopTake(t)
      <3>1. t \in Workers /\ stage[t] = "task"
        BY <2>7 DEF PopTake
      <3> QED
        BY <2>1, <2>7, <3>1 DEF PopTake
    <2>8. CASE PopNull(t)
      BY <2>1, <2>8 DEF PopNull
    <2>9. CASE ClearFlag(t)
      BY <2>1, <2>9 DEF ClearFlag
    <2>10. CASE NotifyAll(t)
      BY <2>1, <2>10 DEF NotifyAll
    <2> QED
      BY <1>10, <2>2, <2>3, <2>4, <2>5, <2>6, <2>7, <2>8, <2>9, <2>10 DEF QueueStep
  <1>11. ASSUME NEW t \in Threads, Spurious(t) PROVE StageInv'
    BY <1>11 DEF Spurious, SpuriousWakeup, poolVars
  <1> QED
    BY <1>1, <1>2, <1>3, <1>4, <1>5, <1>6, <1>7, <1>8, <1>9, <1>10, <1>11
    DEF PoolNext, MainStep, WorkerStep

(* The tasks of a queue that is appended to, or that loses its first one. *)
LEMMA QueuedAppend ==
    ASSUME que \in Seq(Tasks), NEW x \in Tasks, que' = Append(que, x),
           x \notin Queued,
           \A i, j \in 1..Len(que) : que[i] = que[j] => i = j
    PROVE  /\ Queued' = Queued \cup {x}
           /\ \A i, j \in 1..Len(que)' : que[i]' = que[j]' => i = j
  <1>1. /\ Len(que') = Len(que) + 1 /\ Len(que) \in Nat
        /\ \A i \in 1..Len(que) : que'[i] = que[i]
        /\ que'[Len(que) + 1] = x
    OBVIOUS
  <1>2. 1..Len(que') = 1..Len(que) \cup {Len(que) + 1}
    BY <1>1
  <1>3. \A i \in 1..Len(que) : que[i] # x
    BY DEF Queued
  <1>4. Queued' = {que'[i] : i \in 1..Len(que')}
    BY DEF Queued
  <1>5. \A v : v \in Queued' <=> v \in Queued \cup {x}
    BY <1>1, <1>2, <1>4 DEF Queued
  <1> QED
    BY <1>1, <1>2, <1>3, <1>5

LEMMA QueuedTail ==
    ASSUME que \in Seq(Tasks), que # << >>, que' = Tail(que),
           \A i, j \in 1..Len(que) : que[i] = que[j] => i = j
    PROVE  /\ Queued = Queued' \cup {Head(que)}
           /\ Head(que) \notin Queued'
           /\ Head(que) \in Tasks
           /\ \A i, j \in 1..Len(que)' : que[i]' = que[j]' => i = j
  <1>1. /\ Len(que) \in Nat \ {0}
        /\ Len(que') = Len(que) - 1
        /\ \A i \in 1..Len(que') : que'[i] = que[i + 1]
        /\ Head(que) = que[1] /\ Head(que) \in Tasks
    OBVIOUS
  <1>2. \A i \in 1..Len(que') : i + 1 \in 1..Len(que) /\ i + 1 # 1
    BY <1>1
  <1>3. \A i \in 1..Len(que) : i = 1 \/ (i - 1 \in 1..Len(que') /\ (i - 1) + 1 = i)
    BY <1>1
  <1>4. Queued' = {que'[i] : i \in 1..Len(que')}
    BY DEF Queued
  <1>5. \A v : v \in Queued => v \in Queued' \cup {Head(que)}
    <2> SUFFICES ASSUME NEW i \in 1..Len(que), i # 1 PROVE que[i] \in Queued'
      BY <1>1 DEF Queued
    <2>1. i - 1 \in 1..Len(que') /\ que'[i - 1] = que[i]
      BY <1>1, <1>3
    <2> QED
      BY <2>1, <1>4
  <1>6. \A v \in Queued' : v \in Queued /\ v # Head(que)
    <2> SUFFICES ASSUME NEW i \in 1..Len(que')
                 PROVE  que'[i] \in Queued /\ que'[i] # Head(que)
      BY <1>4
    <2>1. que'[i] = que[i + 1] /\ i + 1 \in 1..Len(que) /\ i + 1 # 1 /\ 1 \in 1..Len(que)
      BY <1>1, <1>2
    <2> QED
      BY <2>1, <1>1 DEF Queued
  <1>7. Head(que) \in Queued
    BY <1>1 DEF Queued
  <1>8. ASSUME NEW i \in 1..Len(que'), NEW j \in 1..Len(que'), que'[i] = que'[j]
        PROVE  i = j
    <2>1. i + 1 = j + 1
      BY <1>1, <1>2, <1>8
    <2> QED
      BY <2>1, <1>1
  <1> QED
    BY <1>1, <1>5, <1>6, <1>7, <1>8

LEMMA TaskInvSame ==
    ASSUME TaskInv, UNCHANGED <<que, slot, undone>>
    PROVE  TaskInv'
  BY DEF TaskInv, Queued

LEMMA TaskInvStep ==
    ASSUME QueueFacts, StageInv, TaskInv, PoolNext
    PROVE  TaskInv'
  <1> USE NULLAssumption, QueSizeAssumption, WorkersAssumption
  <1>a. /\ que \in Seq(Tasks) /\ slot \in [Threads -> Tasks \cup {NULL}]
        /\ op \in [Threads -> Ops] /\ stage \in [Threads -> MainStages \cup WorkerStages]
        /\ \A t \in Threads : op[t] \in PushOps => slot[t] \in Tasks
        /\ NULL \notin Tasks
    BY DEF QueueFacts, TypeOK, StageInv
  <1>b. \A a \in Adders : a \in Others /\ a \in Threads
    BY DEF Others
  <1>1. CASE MainStep \/ Stop
    BY <1>1, TaskInvSame DEF MainStep, Start, Stop, SetExit, Join, CallWakeup, vars
  <1>2. ASSUME NEW w \in Workers, GetTask(w) PROVE TaskInv'
    <2>1. slot' = slot
      <3>1. stage[w] = "loop" /\ slot' = [slot EXCEPT ![w] = NULL]
        BY <1>2 DEF GetTask, CallPop
      <3>2. slot[w] = NULL
        BY <3>1 DEF StageInv
      <3> QED
        BY <1>a, <3>1, <3>2
    <2> QED
      BY <1>2, <2>1, TaskInvSame DEF GetTask, CallPop
  <1>3. ASSUME NEW w \in Workers, LeaveLoop(w) PROVE TaskInv'
    BY <1>3, TaskInvSame DEF LeaveLoop, vars
  <1>4. ASSUME NEW w \in Workers, RunTask(w) PROVE TaskInv'
    <2>1. /\ que' = que /\ Queued' = Queued
          /\ undone' = undone \ {slot[w]}
          /\ slot' = [slot EXCEPT ![w] = NULL]
      BY <1>4 DEF RunTask, Discard, Queued
    <2>2. /\ slot'[w] = NULL
          /\ \A t \in Threads \ {w} : slot'[t] = slot[t]
      BY <1>a, <2>1
    <2>3. slot[w] \notin Queued
      BY <1>a DEF TaskInv, Queued
    <2>4. \A t, u \in Threads : slot'[t] = slot'[u] /\ slot'[t] # NULL => t = u
      BY <2>2 DEF TaskInv
    <2>5. \A v \in Workers : slot'[v] # NULL => slot'[v] \in undone' \ Queued'
      BY <2>1, <2>2 DEF TaskInv
    <2>6. \A t \in Others : slot'[t] \notin undone'
      BY <2>1, <2>2 DEF TaskInv, Others
    <2>7. ASSUME NEW task \in undone'
          PROVE  task \in Queued' \/ \E v \in Workers : slot'[v] = task
      BY <2>1, <2>2 DEF TaskInv
    <2> QED
      BY <2>1, <2>3, <2>4, <2>5, <2>6, <2>7 DEF TaskInv
  <1>5. ASSUME NEW a \in Adders, Accept(a) PROVE TaskInv'
    <2>1. /\ op[a] = "pushTest"
          /\ que' = Append(que, slot[a])
          /\ undone' = undone \cup {slot[a]}
          /\ slot' = [slot EXCEPT ![a] = NULL]
      BY <1>5 DEF Accept, PushStore
    <2>2. slot[a] \in Tasks /\ slot[a] \notin undone /\ slot[a] \notin Queued
      BY <1>a, <1>b, <2>1 DEF TaskInv, PushOps
    <2>3. /\ Queued' = Queued \cup {slot[a]}
          /\ \A i, j \in 1..Len(que)' : que[i]' = que[j]' => i = j
      BY <1>a, <2>1, <2>2, QueuedAppend DEF TaskInv
    <2>4. /\ slot'[a] = NULL
          /\ \A t \in Threads \ {a} : slot'[t] = slot[t] /\ slot'[t] # slot[a]
      BY <1>a, <1>b, <2>1, <2>2 DEF TaskInv
    <2>5. \A w \in Workers : w \in Threads \ {a}
      BY <1>b
    <2>6. \A t, u \in Threads : slot'[t] = slot'[u] /\ slot'[t] # NULL => t = u
      BY <2>4 DEF TaskInv
    <2>7. \A w \in Workers : slot'[w] # NULL => slot'[w] \in undone' \ Queued'
      BY <2>1, <2>3, <2>4, <2>5 DEF TaskInv
    <2>8. \A t \in Others : slot'[t] \notin undone'
      <3>1. NULL \notin undone'
        BY <1>a, <2>1, <2>2 DEF StageInv
      <3> QED
        BY <2>1, <2>4, <3>1 DEF TaskInv, Others
    <2>9. ASSUME NEW task \in undone'
          PROVE  task \in Queued' \/ \E v \in Workers : slot'[v] = task
      BY <2>1, <2>3, <2>4, <2>5 DEF TaskInv
    <2>10. Queued' \subseteq undone'
      BY <2>1, <2>3 DEF TaskInv
    <2> QED
      BY <2>3, <2>6, <2>7, <2>8, <2>9, <2>10 DEF TaskInv
  <1>6. ASSUME NEW a \in Adders, NEW task \in Tasks, AddTask(a, task) PROVE TaskInv'
    <2>1. /\ que' = que /\ Queued' = Queued /\ undone' = undone
          /\ slot' = [slot EXCEPT ![a] = task]
          /\ task \notin undone
          /\ \A t \in Threads : slot[t] # task
      BY <1>6 DEF AddTask, CallPush, poolVars, Queued
    <2>2. /\ slot'[a] = task
          /\ \A t \in Threads \ {a} : slot'[t] = slot[t]
      BY <1>a, <1>b, <2>1
    <2>3. \A w \in Workers : w \in Threads \ {a}
      BY <1>b
    <2>4. \A t, u \in Threads : slot'[t] = slot'[u] /\ slot'[t] # NULL => t = u
      BY <2>1, <2>2 DEF TaskInv
    <2>5. \A w \in Workers : slot'[w] = slot[w]
      BY <2>2, <2>3
    <2>6. \A t \in Others : slot'[t] \notin undone'
      BY <2>1, <2>2 DEF TaskInv, Others
    <2> QED
      BY <2>1, <2>4, <2>5, <2>6 DEF TaskInv
  <1>7. ASSUME NEW t \in Threads, QueueStep(t), ~PopTake(t) PROVE TaskInv'
    BY <1>7, TaskInvSame
    DEF QueueStep, poolVars, PushLock, PushWait, PopLock, PopTest, PopWait,
        PopNull, ClearFlag, NotifyAll
  <1>8. ASSUME NEW w \in Threads, QueueStep(w), PopTake(w) PROVE TaskInv'
    <2>1. /\ op[w] = "popTake"
          /\ que' = Tail(que)
          /\ slot' = [slot EXCEPT ![w] = Head(que)]
          /\ undone' = undone
      BY <1>8 DEF QueueStep, poolVars, PopTake
    <2>2. w \in Workers /\ slot[w] = NULL
      BY <2>1 DEF StageInv, Others, PopOps
    <2>3. /\ Queued = Queued' \cup {Head(que)}
          /\ Head(que) \notin Queued' /\ Head(que) \in Tasks
          /\ \A i, j \in 1..Len(que)' : que[i]' = que[j]' => i = j
      <3>1. que # << >>
        BY <2>1 DEF QueueFacts
      <3> QED
        BY <1>a, <2>1, <3>1, QueuedTail DEF TaskInv
    <2>4. /\ slot'[w] = Head(que)
          /\ \A t \in Threads \ {w} : slot'[t] = slot[t]
      BY <1>a, <2>1
    <2>5. Head(que) \in undone
      BY <2>3 DEF TaskInv
    <2>6. \A t \in Threads : slot[t] # Head(que)
      BY <1>a, <2>3, <2>5 DEF TaskInv, Others
    <2>7. \A t, u \in Threads : slot'[t] = slot'[u] /\ slot'[t] # NULL => t = u
      BY <2>4, <2>6 DEF TaskInv
    <2>8. \A v \in Workers : slot'[v] # NULL => slot'[v] \in undone' \ Queued'
      BY <2>1, <2>3, <2>4, <2>5 DEF TaskInv
    <2>9. \A t \in Others : slot'[t] \notin undone'
      BY <2>1, <2>2, <2>4 DEF TaskInv, Others
    <2>10. ASSUME NEW task \in undone'
           PROVE  task \in Queued' \/ \E v \in Workers : slot'[v] = task
      <3>1. CASE task \in Queued
        BY <2>2, <2>3, <2>4, <3>1
      <3>2. ASSUME NEW v \in Workers, slot[v] = task
            PROVE  slot'[v] = task
        <4>1. task # NULL
          BY <1>a, <2>1 DEF StageInv
        <4> QED
          BY <2>2, <2>4, <3>2, <4>1
      <3> QED
        BY <2>1, <3>1, <3>2 DEF TaskInv
    <2>11. Queued' \subseteq undone'
      BY <2>1, <2>3 DEF TaskInv
    <2> QED
      BY <2>3, <2>7, <2>8, <2>9, <2>10, <2>11 DEF TaskInv
  <1>9. ASSUME NEW t \in Threads, Spurious(t) PROVE TaskInv'
    BY <1>9, TaskInvSame DEF Spurious, poolVars, SpuriousWakeup
  <1> QED
    BY <1>1, <1>2, <1>3, <1>4, <1>5, <1>6, <1>7, <1>8, <1>9 DEF PoolNext, WorkerStep

(* Threadpool.cc:25 and :66: a task that addTask() has put into the queue is
   there, or in the hand of one worker, until that worker has run it. *)
THEOREM NoTaskLost == PoolSpec => []TasksAccountedFor
  <1>1. PoolInit => StageInv /\ TaskInv
    BY InvInit
  <1>2. IndInv /\ StageInv /\ TaskInv /\ [PoolNext]_allVars => StageInv' /\ TaskInv'
    <2>1. CASE UNCHANGED allVars
      BY <2>1 DEF allVars, vars, poolVars, StageInv, TaskInv, Queued, PopOps, PushOps
    <2> QED
      BY <2>1, QueueFactsHold, StageInvStep, TaskInvStep
  <1>3. IndInv /\ StageInv /\ TaskInv => TasksAccountedFor
    <2> SUFFICES ASSUME QueueFacts, StageInv, TaskInv PROVE TasksAccountedFor
      BY QueueFactsHold
    <2>1. PoolTypeOK
      BY DEF PoolTypeOK, QueueFacts, StageInv
    <2>2. undone = Queued \cup UNION {InHand(w) : w \in Workers}
      <3>1. \A w \in Workers : InHand(w) \subseteq undone
        BY DEF TaskInv, InHand
      <3>2. ASSUME NEW w \in Workers, slot[w] \in undone PROVE slot[w] \in InHand(w)
        BY <3>2, NULLAssumption, QueSizeAssumption DEF InHand, StageInv
      <3>3. \A task \in undone : task \in Queued \/ \E w \in Workers : task \in InHand(w)
        BY <3>2 DEF TaskInv
      <3>4. Queued \subseteq undone
        BY DEF TaskInv
      <3> QED
        BY <3>1, <3>3, <3>4
    <2>3. \A i, j \in 1..Len(que) : que[i] = que[j] => i = j
      BY DEF TaskInv
    <2>4. ASSUME NEW w \in Workers
          PROVE  /\ \A i \in 1..Len(que) : slot[w] # que[i]
                 /\ \A v \in Workers \ {w} : InHand(v) \cap InHand(w) = {}
      <3>1. NULL \notin Queued
        BY NULLAssumption, QueSizeAssumption DEF TaskInv, StageInv
      <3>2. \A i \in 1..Len(que) : que[i] \in Queued
        BY DEF Queued
      <3>3. slot[w] \notin Queued
        BY <3>1 DEF TaskInv
      <3>4. \A v \in Workers \ {w} : slot[v] # slot[w] \/ slot[w] = NULL
        BY WorkersAssumption DEF TaskInv
      <3> QED
        BY <3>2, <3>3, <3>4 DEF InHand
    <2> QED
      BY <2>1, <2>2, <2>3, <2>4 DEF TasksAccountedFor, Queued
  <1> QED
    BY <1>1, <1>2, <1>3, QueueInvariant, PTL DEF PoolSpec

-----------------------------------------------------------------------------
(***************************************************************************)
(* When only the stopping thread adds tasks, it is in no push() once it    *)
(* has called stop(): the queue it found empty stays empty, and a worker   *)
(* that has left its loop holds nothing.                                   *)
(***************************************************************************)
StopInv ==
    /\ stage[main] \in {"drain", "wakeup", "stopped"} => op[main] \notin PushOps
    /\ stage[main] \in {"wakeup", "stopped"} => que = << >>
    /\ stage[main] = "stopped" => \A w \in Workers : stage[w] = "done"

LEMMA StopInvStep ==
    ASSUME Adders \subseteq {main}, QueueFacts, StageInv, StopInv, PoolNext
    PROVE  StopInv'
  <1> USE WorkersAssumption DEF StopInv, PushOps
  <1>a. /\ op \in [Threads -> Ops]
        /\ stage \in [Threads -> MainStages \cup WorkerStages]
        /\ \A t \in Threads : op[t] = "popTake" => que # << >>
        /\ main \in Threads /\ main \notin Workers
        /\ \A t \in Threads \ Workers : t = main
    BY DEF QueueFacts, TypeOK, StageInv
  <1>1. ASSUME NEW w \in Workers, Start(w) PROVE StopInv'
    BY <1>a, <1>1 DEF Start, vars
  <1>2. CASE Stop
    BY <1>a, <1>2 DEF Stop, Enter, vars
  <1>3. CASE SetExit
    BY <1>a, <1>3 DEF SetExit, Enter, CallWakeup, Goto, empty
  <1>4. CASE Join
    BY <1>a, <1>4 DEF Join, Enter, vars
  <1>5. ASSUME NEW w \in Workers, WorkerStep(w) PROVE StopInv'
    BY <1>a, <1>5 DEF WorkerStep, GetTask, LeaveLoop, RunTask, Enter, vars, CallPop,
                      Discard, Goto
  <1>6. ASSUME NEW a \in Adders, Accept(a) PROVE StopInv'
    BY <1>a, <1>6 DEF Accept, PushStore, StageInv, Others, MainStages
  <1>7. ASSUME NEW a \in Adders, NEW task \in Tasks, AddTask(a, task) PROVE StopInv'
    BY <1>a, <1>7 DEF AddTask, CallPush, Goto, poolVars
  <1>8. ASSUME NEW t \in Threads, QueueStep(t) PROVE StopInv'
    <2>1. /\ stage' = stage
          /\ que' = que \/ PopTake(t)
          /\ op'[main] \in PushOps => op[main] \in PushOps
      BY <1>a, <1>8
      DEF QueueStep, poolVars, PushLock, PushWait, PopLock, PopTest, PopWait,
          PopTake, PopNull, ClearFlag, NotifyAll, Goto
    <2>2. PopTake(t) => que # << >>
      BY <1>a DEF PopTake
    <2> QED
      BY <2>1, <2>2
  <1>9. ASSUME NEW t \in Threads, Spurious(t) PROVE StopInv'
    BY <1>9 DEF Spurious, poolVars, SpuriousWakeup
  <1> QED
    BY <1>1, <1>2, <1>3, <1>4, <1>5, <1>6, <1>7, <1>8, <1>9 DEF PoolNext, MainStep

(* Threadpool.cc:48: stop() returns only when every accepted task has been
   run, though it looks at the queue without the mutex and never at the
   workers, if nobody but its caller adds tasks. *)
THEOREM StopLeavesNothing ==
    ASSUME Adders \subseteq {main}
    PROVE  PoolSpec => []StopDrains
  <1> DEFINE Inv == IndInv /\ StageInv /\ TaskInv
  <1>1. PoolInit => StopInv /\ StageInv /\ TaskInv
    <2>1. PoolInit => StopInv
      BY WorkersAssumption DEF PoolInit, Init, StopInv, PushOps
    <2> QED
      BY <2>1, InvInit
  <1>2. Inv /\ StopInv /\ [PoolNext]_allVars => StageInv' /\ TaskInv' /\ StopInv'
    <2>1. CASE UNCHANGED allVars
      BY <2>1 DEF allVars, vars, poolVars, StageInv, TaskInv, StopInv, Queued,
                  PopOps, PushOps
    <2> QED
      BY <2>1, QueueFactsHold, StageInvStep, TaskInvStep, StopInvStep
  <1>3. Inv /\ StopInv => StopDrains
    <2> SUFFICES ASSUME StageInv, TaskInv, StopInv, stage[main] = "stopped"
                 PROVE  undone = {}
      BY DEF StopDrains
    <2>1. que = << >> /\ \A w \in Workers : stage[w] = "done"
      BY DEF StopInv
    <2>2. Queued = {}
      BY <2>1 DEF Queued
    <2>3. \A w \in Workers : slot[w] = NULL
      BY <2>1 DEF StageInv
    <2>4. NULL \notin undone
      BY NULLAssumption, QueSizeAssumption DEF StageInv
    <2> QED
      BY <2>2, <2>3, <2>4 DEF TaskInv
  <1> QED
    BY <1>1, <1>2, <1>3, QueueInvariant, PTL DEF PoolSpec
=============================================================================
