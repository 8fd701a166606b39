--------------------------- MODULE WorkQueueProofs ---------------------------
(***************************************************************************)
(* Proofs about util::queue for any number of producers, consumers and     *)
(* tasks: the accounting of size_, no push lost by a sleeping consumer,    *)
(* the order of the tasks, and that the queue implements TaskChannel.      *)
(***************************************************************************)
EXTENDS WorkQueue, FiniteSetTheorems, SequenceTheorems, TLAPS

\* The places in pop and pop_for where the consumer has the mutex.
HasLock == {"loop", "front", "predicate", "sleep"}

(***************************************************************************)
(* What the mutex does: its holder is where it should be, a consumer about *)
(* to sleep saw the queue empty and it still is, only a blocked one is     *)
(* asleep; a producer about to append has a task left to push, since none  *)
(* has pushed more than there are.                                         *)
(***************************************************************************)
MutexInv ==
  /\ \A p \in Producers : ppc[p] = "append" <=> lock = p
  /\ \A c \in Consumers : cpc[c] \in HasLock <=> lock = c
  /\ \A c \in Consumers : cpc[c] = "sleep" => q = <<>>
  /\ \A c \in asleep : cpc[c] = "blocked"
  /\ \A p \in Producers : sent[p] <= Len(taken) + Len(q)
  /\ \A p \in Producers : ppc[p] = "append" => Len(taken) + Len(q) < MaxPush

IInv == TypeOK /\ MutexInv

-----------------------------------------------------------------------------
LEMMA InitIInv == Init => IInv
<1> SUFFICES ASSUME Init PROVE IInv
  OBVIOUS
<1>1. /\ q \in Seq(Tasks)
      /\ taken \in Seq(Tasks)
  BY EmptySeq DEF Init
<1>2. sent \in [Producers -> 0 .. MaxPush]
  BY BoundsAssumption DEF Init
<1>3. /\ ppc \in [Producers -> {"idle", "append", "count", "notify"}]
      /\ cpc \in [Consumers -> {"idle", "loop", "front", "predicate", "sleep",
                                "blocked", "stopped"}]
  BY DEF Init
<1>4. /\ lock = None /\ size = 0 /\ exit \in BOOLEAN /\ spc = "running"
      /\ asleep = {} /\ expired = {}
  BY DEF Init
<1>5. TypeOK
  BY <1>1, <1>2, <1>3, <1>4 DEF TypeOK
<1>6. MutexInv
  BY ThreadsAssumption DEF Init, MutexInv, HasLock
<1>7. QED
  BY <1>5, <1>6 DEF IInv

\* The steps of a producer.
LEMMA PushIInv ==
  ASSUME IInv, NEW p \in Producers, Push(p)
  PROVE  IInv'
<1> USE ThreadsAssumption DEF IInv
<1>1. CASE PushLock(p)
  <2>1. TypeOK'
    BY <1>1 DEF PushLock, TypeOK, Threads
  <2>2. MutexInv'
    BY <1>1 DEF PushLock, TypeOK, MutexInv, HasLock
  <2>3. QED
    BY <2>1, <2>2
<1>2. CASE PushBack(p)
  <2>1. sent[p] < MaxPush /\ sent[p] \in 0 .. MaxPush
    <3>1. Len(taken) \in Nat /\ Len(q) \in Nat
      BY LenProperties DEF TypeOK
    <3>2. sent[p] <= Len(taken) + Len(q) /\ Len(taken) + Len(q) < MaxPush
      BY <1>2 DEF PushBack, MutexInv
    <3>3. sent[p] \in 0 .. MaxPush
      BY DEF TypeOK
    <3>4. QED
      BY <3>1, <3>2, <3>3, BoundsAssumption
  <2>2. sent[p] + 1 \in 1 .. MaxPush
    BY <2>1, BoundsAssumption
  <2>3. <<p, sent[p] + 1>> \in Tasks
    BY <2>2 DEF Tasks
  <2>4. q' \in Seq(Tasks)
    BY <1>2, <2>3, AppendProperties DEF PushBack, TypeOK
  <2>5. sent' \in [Producers -> 0 .. MaxPush]
    BY <1>2, <2>2 DEF PushBack, TypeOK
  <2>6. TypeOK'
    BY <1>2, <2>4, <2>5 DEF PushBack, TypeOK
  <2>7. MutexInv'
    BY <1>2 DEF PushBack, TypeOK, MutexInv, HasLock
  <2>8. QED
    BY <2>6, <2>7
<1>3. CASE PushCount(p)
  <2>1. TypeOK'
    BY <1>3 DEF PushCount, TypeOK
  <2>2. MutexInv'
    BY <1>3 DEF PushCount, TypeOK, MutexInv, HasLock
  <2>3. QED
    BY <2>1, <2>2
<1>4. CASE PushNotify(p)
  <2>1. TypeOK'
    BY <1>4 DEF PushNotify, TypeOK
  <2>2. MutexInv'
    BY <1>4 DEF PushNotify, TypeOK, MutexInv, HasLock
  <2>3. QED
    BY <2>1, <2>2
<1>5. QED
  BY <1>1, <1>2, <1>3, <1>4 DEF Push

\* The steps of a consumer.
LEMMA PopIInv ==
  ASSUME IInv, NEW c \in Consumers, Pop(c)
  PROVE  IInv'
<1> USE ThreadsAssumption DEF IInv
<1>1. CASE PopLock(c)
  <2>1. TypeOK'
    BY <1>1 DEF PopLock, TypeOK, Threads
  <2>2. MutexInv'
    BY <1>1 DEF PopLock, TypeOK, MutexInv, HasLock
  <2>3. QED
    BY <2>1, <2>2
<1>2. CASE PopCheckExit(c)
  <2>1. TypeOK'
    BY <1>2 DEF PopCheckExit, TypeOK
  <2>2. MutexInv'
    <3>1. /\ lock = c /\ cpc[c] = "loop"
          /\ cpc' \in {[cpc EXCEPT ![c] = "stopped"], [cpc EXCEPT ![c] = "front"]}
          /\ lock' = IF cpc'[c] = "stopped" THEN None ELSE c
          /\ UNCHANGED <<q, asleep, ppc, sent, taken>>
      BY <1>2 DEF PopCheckExit, TypeOK, MutexInv, HasLock
    <3>2. \A d \in Consumers : cpc'[d] \in HasLock <=> lock' = d
      BY <3>1 DEF TypeOK, MutexInv, HasLock
    <3>3. \A p \in Producers : ppc'[p] = "append" <=> lock' = p
      BY <3>1 DEF TypeOK, MutexInv
    <3>4. /\ \A d \in Consumers : cpc'[d] = "sleep" => q' = <<>>
          /\ \A d \in asleep' : cpc'[d] = "blocked"
      BY <3>1 DEF TypeOK, MutexInv
    <3>5. \A p \in Producers :
            /\ sent'[p] <= Len(taken') + Len(q')
            /\ ppc'[p] = "append" => Len(taken') + Len(q') < MaxPush
      BY <3>1 DEF MutexInv
    <3>6. QED
      BY <3>2, <3>3, <3>4, <3>5 DEF MutexInv
  <2>3. QED
    BY <2>1, <2>2
<1>3. CASE PopFront(c)
  <2>1. Head(q) \in Tasks /\ q' \in Seq(Tasks)
    BY <1>3, HeadTailProperties DEF PopFront, TypeOK
  <2>2. taken' \in Seq(Tasks)
    BY <1>3, <2>1, AppendProperties DEF PopFront, TypeOK
  <2>3. TypeOK'
    BY <1>3, <2>1, <2>2 DEF PopFront, TypeOK
  <2>4. MutexInv'
    BY <1>3 DEF PopFront, TypeOK, MutexInv, HasLock
  <2>5. QED
    BY <2>3, <2>4
<1>4. CASE PopEmpty(c)
  <2>1. TypeOK'
    BY <1>4 DEF PopEmpty, TypeOK
  <2>2. MutexInv'
    BY <1>4 DEF PopEmpty, TypeOK, MutexInv, HasLock
  <2>3. QED
    BY <2>1, <2>2
<1>5. CASE WaitPredicate(c)
  <2>1. TypeOK'
    BY <1>5 DEF WaitPredicate, TypeOK
  <2>2. MutexInv'
    BY SMTT(30), <1>5 DEF WaitPredicate, TypeOK, MutexInv, HasLock
  <2>3. QED
    BY <2>1, <2>2
<1>6. CASE Sleep(c)
  <2>1. TypeOK'
    BY <1>6 DEF Sleep, TypeOK
  <2>2. MutexInv'
    BY <1>6 DEF Sleep, TypeOK, MutexInv, HasLock
  <2>3. QED
    BY <2>1, <2>2
<1>7. CASE Reacquire(c)
  <2>1. TypeOK'
    BY <1>7 DEF Reacquire, TypeOK, Threads
  <2>2. MutexInv'
    BY <1>7 DEF Reacquire, TypeOK, MutexInv, HasLock
  <2>3. QED
    BY <2>1, <2>2
<1>8. QED
  BY <1>1, <1>2, <1>3, <1>4, <1>5, <1>6, <1>7 DEF Pop

\* A wait that ends by itself, a call of stop(), and a step that does nothing.
LEMMA OtherIInv ==
  ASSUME IInv,
         \/ \E c \in Consumers : SpuriousWake(c) \/ Timeout(c)
         \/ Stop
         \/ UNCHANGED vars
  PROVE  IInv'
<1>1. TypeOK'
  BY DEF IInv, TypeOK, SpuriousWake, Timeout, Stop, StopStore, StopNotify,
         vars
<1>2. MutexInv'
  BY DEF IInv, MutexInv, HasLock, TypeOK, SpuriousWake, Timeout, Stop,
         StopStore, StopNotify, vars
<1>3. QED
  BY <1>1, <1>2 DEF IInv

LEMMA NextIInv == IInv /\ [Next]_vars => IInv'
BY PushIInv, PopIInv, OtherIInv DEF Next

LEMMA Invariance == Spec => []IInv
BY InitIInv, NextIInv, PTL DEF Spec

\* Every variable keeps its type: no lock holder that is no thread, no task
\* in the queue that no producer pushed (queue.h:90-95).
THEOREM TypeCorrect == Spec => []TypeOK
<1>1. IInv => TypeOK
  BY DEF IInv
<1>2. QED
  BY <1>1, Invariance, PTL

-----------------------------------------------------------------------------
(* No push is lost.                                                        *)

LEMMA InitNoLostPush == Init => NoLostPush
BY DEF Init, NoLostPush

LEMMA NextNoLostPush == IInv /\ NoLostPush /\ [Next]_vars => NoLostPush'
<1> SUFFICES ASSUME IInv, NoLostPush, [Next]_vars
             PROVE  NoLostPush'
  OBVIOUS
<1> USE DEF IInv, TypeOK, NoLostPush
<1>1. ASSUME NEW p \in Producers, Push(p)
      PROVE  NoLostPush'
  BY <1>1 DEF Push, PushLock, PushBack, PushCount, PushNotify
<1>2. ASSUME NEW c \in Consumers, Pop(c)
      PROVE  NoLostPush'
  <2>1. CASE Sleep(c)
    BY <2>1 DEF Sleep, MutexInv
  <2>2. CASE PopFront(c)
    BY <2>2 DEF PopFront
  <2>3. CASE PopLock(c) \/ PopCheckExit(c) \/ PopEmpty(c)
             \/ WaitPredicate(c) \/ Reacquire(c)
    BY <2>3 DEF PopLock, PopCheckExit, PopEmpty, WaitPredicate, Reacquire
  <2>4. QED
    BY <1>2, <2>1, <2>2, <2>3 DEF Pop
<1>3. ASSUME NEW c \in Consumers, SpuriousWake(c) \/ Timeout(c)
      PROVE  NoLostPush'
  BY <1>3 DEF SpuriousWake, Timeout
<1>4. CASE Stop
  BY <1>4 DEF Stop, StopStore, StopNotify
<1>5. CASE UNCHANGED vars
  BY <1>5 DEF vars
<1>6. QED
  BY <1>1, <1>2, <1>3, <1>4, <1>5 DEF Next

\* A consumer sleeps on a queue that holds a task only while a producer is on
\* its way to notify_all (queue.h:30-46 and 52-54).
THEOREM NoPushLost == Spec => []NoLostPush
BY Invariance, InitNoLostPush, NextNoLostPush, PTL DEF Spec

-----------------------------------------------------------------------------
(* What size_ counts.                                                      *)

LEMMA InitSizeAccounting == Init => SizeAccounting
<1> SUFFICES ASSUME Init PROVE SizeAccounting
  OBVIOUS
<1>1. Counting = {}
  BY DEF Init, Counting
<1>2. Cardinality(Counting) = 0 /\ Len(q) = 0
  BY <1>1, FS_EmptySet DEF Init
<1>3. QED
  BY <1>2 DEF Init, SizeAccounting

LEMMA CountingFinite == IsFiniteSet(Counting) /\ Cardinality(Counting) \in Nat
<1>1. Counting \subseteq Producers
  BY DEF Counting
<1>2. QED
  BY <1>1, ThreadsAssumption, FS_Subset, FS_CardinalityType

LEMMA NextSizeAccounting ==
  IInv /\ SizeAccounting /\ [Next]_vars => SizeAccounting'
<1> SUFFICES ASSUME IInv, SizeAccounting, [Next]_vars
             PROVE  SizeAccounting'
  OBVIOUS
<1>1. /\ Len(q) \in Nat
      /\ size \in Int
      /\ ppc \in [Producers -> {"idle", "append", "count", "notify"}]
  BY LenProperties DEF IInv, TypeOK
<1>2. ASSUME q' = q, size' = size, Counting' = Counting
      PROVE  SizeAccounting'
  BY <1>2 DEF SizeAccounting
<1>3. ASSUME NEW p \in Producers, Push(p)
      PROVE  SizeAccounting'
  <2>1. CASE PushBack(p)
    <3>1. p \notin Counting /\ Counting' = Counting \cup {p}
      BY <1>1, <2>1 DEF PushBack, Counting
    <3>2. Cardinality(Counting') = Cardinality(Counting) + 1
      BY <3>1, CountingFinite, FS_AddElement
    <3>3. <<p, sent[p] + 1>> \in Tasks
      BY <2>1, BoundsAssumption
      DEF PushBack, IInv, TypeOK, MutexInv, Tasks
    <3>4. Len(q') = Len(q) + 1
      BY <2>1, <3>3, AppendProperties DEF PushBack, IInv, TypeOK
    <3>5. size' = size
      BY <2>1 DEF PushBack
    <3>6. QED
      BY <1>1, <3>2, <3>4, <3>5, CountingFinite DEF SizeAccounting
  <2>2. CASE PushCount(p)
    <3>1. p \in Counting /\ Counting' = Counting \ {p}
      BY <1>1, <2>2 DEF PushCount, Counting
    <3>2. Cardinality(Counting') = Cardinality(Counting) - 1
      BY <3>1, CountingFinite, FS_RemoveElement
    <3>3. q' = q /\ size' = size + 1
      BY <2>2 DEF PushCount
    <3>4. QED
      BY <1>1, <3>2, <3>3, CountingFinite DEF SizeAccounting
  <2>3. CASE PushLock(p) \/ PushNotify(p)
    <3>1. Counting' = Counting
      BY <1>1, <2>3 DEF PushLock, PushNotify, Counting
    <3>2. q' = q /\ size' = size
      BY <2>3 DEF PushLock, PushNotify
    <3>3. QED
      BY <1>2, <3>1, <3>2
  <2>4. QED
    BY <1>3, <2>1, <2>2, <2>3 DEF Push
<1>4. ASSUME NEW c \in Consumers, Pop(c)
      PROVE  SizeAccounting'
  <2>1. Counting' = Counting
    BY <1>4 DEF Counting, Pop, PopLock, PopCheckExit, PopFront, PopEmpty,
                WaitPredicate, Sleep, Reacquire
  <2>2. CASE PopFront(c)
    <3>1. Len(q') = Len(q) - 1
      BY <2>2, HeadTailProperties DEF PopFront, IInv, TypeOK
    <3>2. size' = size - 1
      BY <2>2 DEF PopFront
    <3>3. QED
      BY <1>1, <2>1, <3>1, <3>2, CountingFinite DEF SizeAccounting
  <2>3. CASE ~PopFront(c)
    <3>1. q' = q /\ size' = size
      BY <1>4, <2>3 DEF Pop, PopLock, PopCheckExit, PopEmpty, WaitPredicate,
                        Sleep, Reacquire
    <3>2. QED
      BY <1>2, <2>1, <3>1
  <2>4. QED
    BY <2>2, <2>3
<1>5. ASSUME \/ \E c \in Consumers : SpuriousWake(c) \/ Timeout(c)
             \/ Stop
             \/ UNCHANGED vars
      PROVE  SizeAccounting'
  BY <1>2, <1>5 DEF SpuriousWake, Timeout, Stop, StopStore, StopNotify, vars,
                    Counting
<1>6. QED
  BY <1>3, <1>4, <1>5 DEF Next

\* size_ lags behind q_ by exactly the pushes between append and count
\* (queue.h:30-46 and 57-59).
THEOREM SizeIsAccounted == Spec => []SizeAccounting
BY Invariance, InitSizeAccounting, NextSizeAccounting, PTL DEF Spec

\* A number below the modulus is its own remainder.
LEMMA SmallRemainder ==
  ASSUME NEW m \in Nat \ {0}, NEW n \in Nat, n < m
  PROVE  n % m = n
OBVIOUS

\* The only producer reads the exact length when it is not inside push: the
\* dispatcher on the hasher's queue (plotter.cpp:255).
THEOREM OwnSizeIsExact == Spec => []OwnSizeExact
<1>1. IInv /\ SizeAccounting => OwnSizeExact
  <2> SUFFICES ASSUME IInv, SizeAccounting, Counting = {}, Len(q) < SizeMod
               PROVE  SizeRead = Len(q)
    BY DEF OwnSizeExact
  <2>1. Len(q) \in Nat
    BY LenProperties DEF IInv, TypeOK
  <2>2. size = Len(q)
    BY <2>1, FS_EmptySet DEF SizeAccounting
  <2>3. QED
    BY <2>1, <2>2, SmallRemainder, BoundsAssumption DEF SizeRead
<1>2. QED
  BY <1>1, Invariance, SizeIsAccounted, PTL

\* A reader that is told 0 misses at most the tasks whose producers are still
\* inside push: the dispatcher on the writers' queues (plotter.cpp:262).
THEOREM ZeroHidesLittle == Spec => []ZeroHidesOnlyUncounted
<1>1. IInv /\ SizeAccounting => ZeroHidesOnlyUncounted
  <2> SUFFICES ASSUME IInv, SizeAccounting, SizeRead = 0, Len(q) < SizeMod,
                      Len(q) > Cardinality(Counting)
               PROVE  FALSE
    BY CountingFinite, LenProperties DEF ZeroHidesOnlyUncounted, IInv, TypeOK
  <2>1. size \in Nat /\ size # 0 /\ size < SizeMod
    BY CountingFinite, LenProperties, BoundsAssumption
    DEF SizeAccounting, IInv, TypeOK
  <2>2. QED
    BY <2>1, SmallRemainder, BoundsAssumption DEF SizeRead
<1>2. QED
  BY <1>1, Invariance, SizeIsAccounted, PTL

-----------------------------------------------------------------------------
(* The queue implements the channel.                                       *)

\* The tasks taken and the tasks held, in the order of their pushes.
Log == taken \o q

\* What an action does to the log: one push extends it by the task pushed,
\* nothing else touches it, and a pop only moves the border inside it.
LEMMA PushBackLog ==
  ASSUME IInv, NEW p \in Producers, PushBack(p)
  PROVE  /\ <<p, sent[p] + 1>> \in Tasks
         /\ Log' = Append(Log, <<p, sent[p] + 1>>)
         /\ Log \in Seq(Tasks)
<1> DEFINE t == <<p, sent[p] + 1>>
<1>1. t \in Tasks
  BY BoundsAssumption DEF PushBack, IInv, TypeOK, MutexInv, Tasks
<1>2. q \in Seq(Tasks) /\ taken \in Seq(Tasks) /\ <<t>> \in Seq(Tasks)
  BY <1>1 DEF IInv, TypeOK
<1>3. Log \in Seq(Tasks)
  BY <1>2, ConcatProperties DEF Log
<1>4. q' = q \o <<t>> /\ taken' = taken
  BY <1>1, <1>2, AppendIsConcat DEF PushBack
<1>5. Log' = Log \o <<t>>
  BY <1>2, <1>4, ConcatAssociative DEF Log
<1>6. QED
  BY <1>1, <1>3, <1>5, AppendIsConcat

LEMMA PopFrontLog ==
  ASSUME IInv, NEW c \in Consumers, PopFront(c)
  PROVE  /\ Log' = Log
         /\ Len(taken') = Len(taken) + 1
         /\ Len(taken) < Len(Log)
<1>1. q \in Seq(Tasks) /\ taken \in Seq(Tasks) /\ q # <<>>
  BY DEF IInv, TypeOK, PopFront
<1>2. /\ Head(q) \in Tasks
      /\ Tail(q) \in Seq(Tasks)
      /\ Len(q) \in Nat \ {0}
      /\ Len(taken) \in Nat
  BY <1>1, HeadTailProperties, EmptySeq, LenProperties
<1>3. <<Head(q)>> \in Seq(Tasks) /\ q = <<Head(q)>> \o Tail(q)
  BY <1>1, <1>2
<1>4. taken' = taken \o <<Head(q)>> /\ q' = Tail(q)
  BY <1>1, <1>2, AppendIsConcat DEF PopFront
<1>5. Log' = Log
  BY <1>1, <1>2, <1>3, <1>4, ConcatAssociative DEF Log
<1>6. Len(Log) = Len(taken) + Len(q)
  BY <1>1, ConcatProperties DEF Log
<1>7. Len(taken') = Len(taken) + 1
  BY <1>1, <1>2, AppendProperties DEF PopFront
<1>8. QED
  BY <1>2, <1>5, <1>6, <1>7

LEMMA InitChannel == Init => Channel!Init
<1> SUFFICES ASSUME Init PROVE Channel!Init
  OBVIOUS
<1>1. <<>> \o <<>> = <<>> /\ Len(<<>>) = 0
  BY EmptySeq, ConcatEmptySeq
<1>2. QED
  BY <1>1 DEF Init, Channel!Init

LEMMA NextChannel ==
  IInv /\ [Next]_vars => [Channel!Next]_(Channel!chanVars)
<1> SUFFICES ASSUME IInv, [Next]_vars
             PROVE  [Channel!Next]_(Channel!chanVars)
  OBVIOUS
<1>1. ASSUME q' = q, taken' = taken, exit' = exit
      PROVE  UNCHANGED Channel!chanVars
  BY <1>1 DEF Channel!chanVars
<1>2. ASSUME NEW p \in Producers, Push(p)
      PROVE  [Channel!Next]_(Channel!chanVars)
  <2>1. CASE PushBack(p)
    <3>1. taken' = taken /\ exit' = exit
      BY <2>1 DEF PushBack
    <3>2. Channel!Send(<<p, sent[p] + 1>>)
      BY <2>1, <3>1, PushBackLog DEF Log, Channel!Send
    <3>3. QED
      BY <2>1, <3>2, PushBackLog DEF Channel!Next
  <2>2. CASE PushLock(p) \/ PushCount(p) \/ PushNotify(p)
    BY <1>1, <2>2 DEF PushLock, PushCount, PushNotify
  <2>3. QED
    BY <1>2, <2>1, <2>2 DEF Push
<1>3. ASSUME NEW c \in Consumers, Pop(c)
      PROVE  [Channel!Next]_(Channel!chanVars)
  <2>1. CASE PopFront(c)
    <3>1. exit' = exit
      BY <2>1 DEF PopFront
    <3>2. Channel!Deliver
      BY <2>1, <3>1, PopFrontLog DEF Log, Channel!Deliver
    <3>3. QED
      BY <3>2 DEF Channel!Next
  <2>2. CASE PopLock(c) \/ PopCheckExit(c) \/ PopEmpty(c)
             \/ WaitPredicate(c) \/ Sleep(c) \/ Reacquire(c)
    BY <1>1, <2>2 DEF PopLock, PopCheckExit, PopEmpty, WaitPredicate, Sleep,
                      Reacquire
  <2>3. QED
    BY <1>3, <2>1, <2>2 DEF Pop
<1>4. CASE StopStore
  <2>1. Channel!Close
    BY <1>4 DEF StopStore, Channel!Close
  <2>2. QED
    BY <2>1 DEF Channel!Next
<1>5. ASSUME \/ \E c \in Consumers : SpuriousWake(c) \/ Timeout(c)
             \/ StopNotify
             \/ UNCHANGED vars
      PROVE  [Channel!Next]_(Channel!chanVars)
  BY <1>1, <1>5 DEF SpuriousWake, Timeout, StopNotify, vars
<1>6. QED
  BY <1>2, <1>3, <1>4, <1>5 DEF Next, Stop

\* However push, pop, pop_for and stop interleave, the queue is a first-in
\* first-out channel that loses and duplicates nothing (queue.h:30-88).
THEOREM QueueIsChannel == Spec => ChannelSpec
BY Invariance, InitChannel, NextChannel, PTL DEF Spec, ChannelSpec, Channel!Spec

-----------------------------------------------------------------------------
(* The order of the tasks of one producer.                                 *)

\* The log holds the tasks of each producer in the order of their numbers, up
\* to the last one it has sent.
OrderInv ==
  /\ \A i \in 1 .. Len(Log) : Log[i][2] <= sent[Log[i][1]]
  /\ \A i, j \in 1 .. Len(Log) :
       i < j /\ Log[i][1] = Log[j][1] => Log[i][2] < Log[j][2]

LEMMA InitOrder == Init => OrderInv
<1> SUFFICES ASSUME Init PROVE OrderInv
  OBVIOUS
<1>1. taken \o q = <<>> /\ Len(taken \o q) = 0
  BY EmptySeq, ConcatEmptySeq DEF Init
<1>2. QED
  BY <1>1 DEF OrderInv, Log

LEMMA NextOrder == IInv /\ OrderInv /\ [Next]_vars => OrderInv'
<1> SUFFICES ASSUME IInv, OrderInv, [Next]_vars
             PROVE  OrderInv'
  OBVIOUS
<1>1. ASSUME Log' = Log, sent' = sent
      PROVE  OrderInv'
  BY <1>1 DEF OrderInv
<1>2. ASSUME NEW p \in Producers, PushBack(p)
      PROVE  OrderInv'
  <2> DEFINE n == Len(Log)
             t == <<p, sent[p] + 1>>
  <2>1. /\ Log \in Seq(Tasks) /\ n \in Nat
        /\ t \in Tasks
        /\ sent \in [Producers -> 0 .. MaxPush]
        /\ sent' = [sent EXCEPT ![p] = @ + 1]
    BY <1>2, PushBackLog, LenProperties DEF IInv, TypeOK, PushBack
  <2>2. /\ Len(Log') = n + 1
        /\ \A i \in 1 .. n : Log'[i] = Log[i]
        /\ Log'[n + 1] = t
    BY <1>2, <2>1, PushBackLog, AppendProperties
  <2>3. \A i \in 1 .. n : Log[i] \in Producers \X (1 .. MaxPush)
    BY <2>1, ElementOfSeq DEF Tasks
  <2>4. \A i \in 1 .. n : /\ Log[i][1] \in Producers
                          /\ Log[i][2] \in Nat
                          /\ Log[i][2] <= sent[Log[i][1]]
    BY <2>3 DEF OrderInv
  <2>5. \A i \in 1 .. n + 1 : Log'[i][2] <= sent'[Log'[i][1]]
    <3> SUFFICES ASSUME NEW i \in 1 .. n + 1
                 PROVE  Log'[i][2] <= sent'[Log'[i][1]]
      OBVIOUS
    <3>1. sent[p] \in Nat /\ sent'[p] = sent[p] + 1
      BY <2>1, BoundsAssumption
    <3>2. CASE i \in 1 .. n
      <4>1. /\ Log'[i] = Log[i]
            /\ Log[i][1] \in Producers /\ Log[i][2] \in Nat
            /\ Log[i][2] <= sent[Log[i][1]]
        BY <2>2, <2>4, <3>2
      <4>2. sent[Log[i][1]] \in Nat
        BY <2>1, <4>1, BoundsAssumption
      <4>3. sent'[Log[i][1]] \in {sent[Log[i][1]], sent[Log[i][1]] + 1}
        BY <2>1, <4>1
      <4>4. QED
        BY <4>1, <4>2, <4>3
    <3>3. CASE i = n + 1
      <4>1. Log'[i] = t
        BY <2>2, <3>3
      <4>2. QED
        BY <3>1, <4>1
    <3>4. i \in 1 .. n \/ i = n + 1
      <4>1. n \in Nat
        BY <2>1
      <4> HIDE DEF n
      <4>2. QED
        BY <4>1
    <3>5. QED
      BY <3>2, <3>3, <3>4
  <2>6. \A i, j \in 1 .. n + 1 :
          i < j /\ Log'[i][1] = Log'[j][1] => Log'[i][2] < Log'[j][2]
    <3> SUFFICES ASSUME NEW i \in 1 .. n + 1, NEW j \in 1 .. n + 1, i < j,
                        Log'[i][1] = Log'[j][1]
                 PROVE  Log'[i][2] < Log'[j][2]
      OBVIOUS
    <3>1. CASE j \in 1 .. n
      <4>1. i \in 1 .. n
        BY <2>1, <3>1
      <4>2. Log'[i] = Log[i] /\ Log'[j] = Log[j]
        BY <2>2, <3>1, <4>1
      <4>3. QED
        BY <3>1, <4>1, <4>2 DEF OrderInv
    <3>2. CASE j = n + 1
      <4>1. i \in 1 .. n /\ Log'[i] = Log[i] /\ Log'[j] = t
        BY <2>1, <2>2, <3>2
      <4>2. Log[i][1] = p
        BY <4>1
      <4>3. Log[i][2] <= sent[p] /\ Log[i][2] \in Nat /\ sent[p] \in Nat
        BY <2>1, <2>4, <4>1, <4>2
      <4>4. Log'[j][2] = sent[p] + 1
        BY <4>1
      <4>5. QED
        BY <4>1, <4>3, <4>4
    <3>3. n \in Nat
      BY <2>1
    <3>4. j \in 1 .. n \/ j = n + 1
      <4> HIDE DEF n
      <4>1. QED
        BY <3>3
    <3>5. QED
      BY <3>1, <3>2, <3>4
  <2>7. QED
    BY <2>2, <2>5, <2>6 DEF OrderInv
<1>3. ASSUME NEW c \in Consumers, PopFront(c)
      PROVE  OrderInv'
  BY <1>1, <1>3, PopFrontLog DEF PopFront
<1>4. ASSUME NEW p \in Producers, PushLock(p) \/ PushCount(p) \/ PushNotify(p)
      PROVE  OrderInv'
  BY <1>1, <1>4 DEF PushLock, PushCount, PushNotify, Log
<1>5. ASSUME NEW c \in Consumers,
             \/ PopLock(c) \/ PopCheckExit(c) \/ PopEmpty(c)
             \/ WaitPredicate(c) \/ Sleep(c) \/ Reacquire(c)
             \/ SpuriousWake(c) \/ Timeout(c)
      PROVE  OrderInv'
  BY <1>1, <1>5 DEF PopLock, PopCheckExit, PopEmpty, WaitPredicate, Sleep,
                    Reacquire, SpuriousWake, Timeout, Log
<1>6. ASSUME Stop \/ UNCHANGED vars
      PROVE  OrderInv'
  BY <1>1, <1>6 DEF Stop, StopStore, StopNotify, vars, Log
<1>7. QED
  BY <1>2, <1>3, <1>4, <1>5, <1>6 DEF Next, Push, Pop

\* The tasks of one producer leave in the order of their pushes, each once
\* (queue.h:30-60).
THEOREM TasksStayInOrder == Spec => []PerProducerOrder
<1>1. OrderInv => PerProducerOrder
  BY DEF OrderInv, PerProducerOrder, Log
<1>2. QED
  BY <1>1, Invariance, InitOrder, NextOrder, PTL DEF Spec
=============================================================================
