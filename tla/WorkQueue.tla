------------------------------ MODULE WorkQueue ------------------------------
(***************************************************************************)
(* util::queue (src/src/common/queue.h), one mutex operation, predicate    *)
(* test, atomic access or notification at a time.  The plotter has one for *)
(* each hand-over between threads: dispatcher -> hasher, hasher -> each    *)
(* writer, writers -> dispatcher.                                          *)
(*                                                                         *)
(* What the mutex mux_ protects (q_) changes in one step with the release  *)
(* or the acquisition next to it; what it does not protect (size_, exit_,  *)
(* the notifications) has steps of its own, because other threads see them *)
(* at any point.                                                           *)
(*                                                                         *)
(* A definition marked "Bug" is a plausible mistake in the code modelled   *)
(* by the definition after it.  No behaviour of the module uses it; put in *)
(* the place of that definition it must break the property PROJECT.json    *)
(* names with it.                                                          *)
(***************************************************************************)
EXTENDS Integers, Sequences, FiniteSets

CONSTANTS
  Producers,        \* threads that call push
  Consumers,        \* threads that call pop or pop_for
  Pollers,          \* those of the consumers that call pop_for
  MaxPush,          \* bound: how many tasks are pushed in all
  SizeMod,          \* 2^w for the width w of size_t
  None              \* no thread

ASSUME ThreadsAssumption ==
  /\ IsFiniteSet(Producers)
  /\ Pollers \subseteq Consumers
  /\ Producers \cap Consumers = {}
  /\ None \notin Producers \cup Consumers

ASSUME BoundsAssumption ==
  /\ MaxPush \in Nat
  /\ SizeMod \in Nat \ {0}

VARIABLES
  lock,             \* the holder of mux_, or None
  q,                \* q_
  size,             \* additions to minus subtractions from size_
  exit,             \* exit_
  asleep,           \* consumers blocked in cond_
  expired,          \* consumers whose wait_for has run out of time
  ppc,              \* where each producer is in push
  cpc,              \* where each consumer is in pop or pop_for
  spc,              \* where the thread that calls stop() is
  sent,             \* history: how many tasks each producer has pushed
  taken             \* history: the tasks returned by pop and pop_for

vars == <<lock, q, size, exit, asleep, expired, ppc, cpc, spc, sent, taken>>

\* The k-th task a producer pushes.
Tasks == Producers \X (1 .. MaxPush)

Threads == Producers \cup Consumers

Init ==
  /\ lock = None
  /\ q = <<>>
  /\ size = 0
  /\ exit = FALSE
  /\ asleep = {}
  /\ expired = {}
  /\ ppc = [p \in Producers |-> "idle"]
  /\ cpc = [c \in Consumers |-> "idle"]
  /\ spc = "running"
  /\ sent = [p \in Producers |-> 0]
  /\ taken = <<>>

-----------------------------------------------------------------------------
(* push(T&) and push(T&&)                                                  *)

PushLock(p) ==
  /\ ppc[p] = "idle"
  /\ Len(taken) + Len(q) < MaxPush
  /\ lock = None
  /\ lock' = p
  /\ ppc' = [ppc EXCEPT ![p] = "append"]
  /\ UNCHANGED <<q, size, exit, asleep, expired, cpc, spc, sent, taken>>

\* Bug: the value pushed has been moved from.
PushMovedFrom(p) ==
  /\ ppc[p] = "append"
  /\ q' = Append(q, <<p, 0>>)
  /\ sent' = [sent EXCEPT ![p] = @ + 1]
  /\ lock' = None
  /\ ppc' = [ppc EXCEPT ![p] = "count"]
  /\ UNCHANGED <<size, exit, asleep, expired, cpc, spc, taken>>

\* q_.push_back(v), and the end of the scope of the lock
PushBack(p) ==
  /\ ppc[p] = "append"
  /\ q' = Append(q, <<p, sent[p] + 1>>)
  /\ sent' = [sent EXCEPT ![p] = @ + 1]
  /\ lock' = None
  /\ ppc' = [ppc EXCEPT ![p] = "count"]
  /\ UNCHANGED <<size, exit, asleep, expired, cpc, spc, taken>>

\* Bug: size_ is not incremented.
PushUncounted(p) ==
  /\ ppc[p] = "count"
  /\ ppc' = [ppc EXCEPT ![p] = "notify"]
  /\ UNCHANGED <<lock, q, size, exit, asleep, expired, cpc, spc, sent, taken>>

\* Bug: nobody is notified.
PushSilent(p) ==
  /\ ppc[p] = "count"
  /\ size' = size + 1
  /\ ppc' = [ppc EXCEPT ![p] = "idle"]
  /\ UNCHANGED <<lock, q, exit, asleep, expired, cpc, spc, sent, taken>>

\* size_.fetch_add(1), outside the lock
PushCount(p) ==
  /\ ppc[p] = "count"
  /\ size' = size + 1
  /\ ppc' = [ppc EXCEPT ![p] = "notify"]
  /\ UNCHANGED <<lock, q, exit, asleep, expired, cpc, spc, sent, taken>>

\* cond_.notify_all()
PushNotify(p) ==
  /\ ppc[p] = "notify"
  /\ asleep' = {}
  /\ ppc' = [ppc EXCEPT ![p] = "idle"]
  /\ UNCHANGED <<lock, q, size, exit, expired, cpc, spc, sent, taken>>

-----------------------------------------------------------------------------
(* pop() and pop_for(ms)                                                   *)

PopLock(c) ==
  /\ cpc[c] = "idle"
  /\ lock = None
  /\ lock' = c
  /\ cpc' = [cpc EXCEPT ![c] = "loop"]
  /\ UNCHANGED <<q, size, exit, asleep, expired, ppc, spc, sent, taken>>

\* Bug: exit_ is not tested.
PopDeaf(c) ==
  /\ cpc[c] = "loop"
  /\ cpc' = [cpc EXCEPT ![c] = "front"]
  /\ UNCHANGED <<lock, q, size, exit, asleep, expired, ppc, spc, sent, taken>>

\* while (!exit_) ... return T()
PopCheckExit(c) ==
  /\ cpc[c] = "loop"
  /\ IF exit
     THEN /\ lock' = None
          /\ cpc' = [cpc EXCEPT ![c] = "stopped"]
     ELSE /\ cpc' = [cpc EXCEPT ![c] = "front"]
          /\ UNCHANGED lock
  /\ UNCHANGED <<q, size, exit, asleep, expired, ppc, spc, sent, taken>>

\* Bugs: size_ is not decremented; the last task is taken; the task stays.
PopUncounted(c) ==
  /\ cpc[c] = "front"
  /\ q # <<>>
  /\ taken' = Append(taken, Head(q))
  /\ q' = Tail(q)
  /\ lock' = None
  /\ cpc' = [cpc EXCEPT ![c] = "idle"]
  /\ UNCHANGED <<size, exit, asleep, expired, ppc, spc, sent>>

PopLast(c) ==
  /\ cpc[c] = "front"
  /\ q # <<>>
  /\ taken' = Append(taken, q[Len(q)])
  /\ q' = SubSeq(q, 1, Len(q) - 1)
  /\ size' = size - 1
  /\ lock' = None
  /\ cpc' = [cpc EXCEPT ![c] = "idle"]
  /\ UNCHANGED <<exit, asleep, expired, ppc, spc, sent>>

PopCopy(c) ==
  /\ cpc[c] = "front"
  /\ q # <<>>
  /\ taken' = Append(taken, Head(q))
  /\ lock' = None
  /\ cpc' = [cpc EXCEPT ![c] = "idle"]
  /\ UNCHANGED <<q, size, exit, asleep, expired, ppc, spc, sent>>

\* q_.empty() is false: front, pop_front, size_.fetch_sub(1), return
PopFront(c) ==
  /\ cpc[c] = "front"
  /\ q # <<>>
  /\ taken' = Append(taken, Head(q))
  /\ q' = Tail(q)
  /\ size' = size - 1
  /\ lock' = None
  /\ cpc' = [cpc EXCEPT ![c] = "idle"]
  /\ UNCHANGED <<exit, asleep, expired, ppc, spc, sent>>

\* q_.empty() is true: the wait begins, with a new deadline for pop_for
PopEmpty(c) ==
  /\ cpc[c] = "front"
  /\ q = <<>>
  /\ expired' = expired \ {c}
  /\ cpc' = [cpc EXCEPT ![c] = "predicate"]
  /\ UNCHANGED <<lock, q, size, exit, asleep, ppc, spc, sent, taken>>

\* One evaluation of the predicate of the wait, under the lock.  When it is
\* false a wait that has run out of time makes pop_for return T().
WaitPredicate(c) ==
  /\ cpc[c] = "predicate"
  /\ \/ /\ q # <<>> \/ exit
        /\ cpc' = [cpc EXCEPT ![c] = "loop"]
        /\ UNCHANGED lock
     \/ /\ q = <<>> /\ ~exit
        /\ c \in expired
        /\ cpc' = [cpc EXCEPT ![c] = "idle"]
        /\ lock' = None
     \/ /\ q = <<>> /\ ~exit
        /\ c \notin expired
        /\ cpc' = [cpc EXCEPT ![c] = "sleep"]
        /\ UNCHANGED lock
  /\ UNCHANGED <<q, size, exit, asleep, expired, ppc, spc, sent, taken>>

\* The wait releases the mutex and blocks, in one step.
Sleep(c) ==
  /\ cpc[c] = "sleep"
  /\ asleep' = asleep \cup {c}
  /\ lock' = None
  /\ cpc' = [cpc EXCEPT ![c] = "blocked"]
  /\ UNCHANGED <<q, size, exit, expired, ppc, spc, sent, taken>>

\* A thread that is no longer asleep takes the mutex back.
Reacquire(c) ==
  /\ cpc[c] = "blocked"
  /\ c \notin asleep
  /\ lock = None
  /\ lock' = c
  /\ cpc' = [cpc EXCEPT ![c] = "predicate"]
  /\ UNCHANGED <<q, size, exit, asleep, expired, ppc, spc, sent, taken>>

\* The language allows a condition variable to wake without a notification.
SpuriousWake(c) ==
  /\ c \in asleep
  /\ asleep' = asleep \ {c}
  /\ UNCHANGED <<lock, q, size, exit, expired, ppc, cpc, spc, sent, taken>>

\* The duration of wait_for is over.
Timeout(c) ==
  /\ c \in asleep \cap Pollers
  /\ asleep' = asleep \ {c}
  /\ expired' = expired \cup {c}
  /\ UNCHANGED <<lock, q, size, exit, ppc, cpc, spc, sent, taken>>

-----------------------------------------------------------------------------
(* stop(): the mutex is not taken.                                         *)

StopStore ==
  /\ spc = "running"
  /\ exit' = TRUE
  /\ spc' = "notify"
  /\ UNCHANGED <<lock, q, size, asleep, expired, ppc, cpc, sent, taken>>

StopNotify ==
  /\ spc = "notify"
  /\ asleep' = {}
  /\ spc' = "stopped"
  /\ UNCHANGED <<lock, q, size, exit, expired, ppc, cpc, sent, taken>>

-----------------------------------------------------------------------------
Push(p) == PushLock(p) \/ PushBack(p) \/ PushCount(p) \/ PushNotify(p)

Pop(c) ==
  \/ PopLock(c)
  \/ PopCheckExit(c)
  \/ PopFront(c)
  \/ PopEmpty(c)
  \/ WaitPredicate(c)
  \/ Sleep(c)
  \/ Reacquire(c)

Stop == StopStore \/ StopNotify

Next ==
  \/ \E p \in Producers : Push(p)
  \/ \E c \in Consumers : Pop(c) \/ SpuriousWake(c) \/ Timeout(c)
  \/ Stop

Spec == Init /\ [][Next]_vars

(***************************************************************************)
(* A running thread goes on running, and the mutex does not starve one     *)
(* that keeps asking for it: no holder blocks while it has the mutex.      *)
(* Nothing says that stop() is called, that a wait times out or that a     *)
(* thread wakes without being notified.                                    *)
(***************************************************************************)
Fairness ==
  /\ \A p \in Producers : WF_vars(Push(p)) /\ SF_vars(PushLock(p))
  /\ \A c \in Consumers :
       WF_vars(Pop(c)) /\ SF_vars(PopLock(c)) /\ SF_vars(Reacquire(c))
  /\ WF_vars(StopNotify)

FairSpec == Spec /\ Fairness

-----------------------------------------------------------------------------
(* What size() returns: a size_t, so a subtraction that comes before the   *)
(* addition it belongs to wraps around.                                    *)
SizeRead == size % SizeMod

\* Producers between q_.push_back and size_.fetch_add.
Counting == {p \in Producers : ppc[p] = "count"}

TypeOK ==
  /\ lock \in Threads \cup {None}
  /\ q \in Seq(Tasks)
  /\ size \in Int
  /\ exit \in BOOLEAN
  /\ asleep \subseteq Consumers
  /\ expired \subseteq Pollers
  /\ ppc \in [Producers -> {"idle", "append", "count", "notify"}]
  /\ cpc \in [Consumers -> {"idle", "loop", "front", "predicate", "sleep",
                            "blocked", "stopped"}]
  /\ spc \in {"running", "notify", "stopped"}
  /\ sent \in [Producers -> 0 .. MaxPush]
  /\ taken \in Seq(Tasks)

(***************************************************************************)
(* NoLostPush: a consumer never sleeps on a queue that holds a task unless *)
(* the producer of a task is still on its way to notify_all.  This is what *)
(* pushing under the mutex and testing the predicate under the mutex are   *)
(* for (queue.h:33-45 and 52-54).                                          *)
(***************************************************************************)
NoLostPush ==
  q # <<>> /\ asleep # {} =>
    \E p \in Producers : ppc[p] \in {"count", "notify"}

(***************************************************************************)
(* SizeAccounting: size_ lags behind q_ by exactly the pushes that have    *)
(* appended and not counted yet (queue.h:43-44 against 57-59).             *)
(***************************************************************************)
SizeAccounting == size = Len(q) - Cardinality(Counting)

(***************************************************************************)
(* OwnSizeExact: a thread that is the only producer of a queue and is not  *)
(* inside push reads the exact length, never a wrapped one.  The           *)
(* dispatcher reads the hasher's queue like this (plotter.cpp:255).        *)
(***************************************************************************)
OwnSizeExact == Counting = {} /\ Len(q) < SizeMod => SizeRead = Len(q)

(***************************************************************************)
(* ZeroHidesOnlyUncounted: a reader that is told 0 may miss the tasks of   *)
(* pushes still in progress, at most one of each producer, and no other.   *)
(* The dispatcher reads the writers' queues like this (plotter.cpp:262).   *)
(***************************************************************************)
ZeroHidesOnlyUncounted ==
  SizeRead = 0 /\ Len(q) < SizeMod => Len(q) <= Cardinality(Counting)

\* The queue implements the channel its users rely on.
Channel == INSTANCE TaskChannel
             WITH log <- taken \o q, delivered <- Len(taken), closed <- exit

(***************************************************************************)
(* ChannelSpec: the queue is a first-in first-out channel; no task is      *)
(* lost, handed out twice or overtaken by any interleaving of push, pop,   *)
(* pop_for and stop (queue.h:30-88).                                       *)
(***************************************************************************)
ChannelSpec == Channel!Spec

(***************************************************************************)
(* PerProducerOrder: the tasks of one producer leave in the order it       *)
(* pushed them, each once, the k-th one after k - 1 others of it: the      *)
(* writers' "out of order task" (worker_writer.cpp:96) cannot come from    *)
(* the queues.                                                             *)
(***************************************************************************)
PerProducerOrder ==
  \A i, j \in 1 .. Len(taken \o q) :
    i < j /\ (taken \o q)[i][1] = (taken \o q)[j][1] =>
      (taken \o q)[i][2] < (taken \o q)[j][2]

(***************************************************************************)
(* Delivery: a task in the queue is eventually taken, unless the queue is  *)
(* stopped (pop, queue.h:48-63).                                           *)
(***************************************************************************)
Delivery == (q # <<>>) ~> (q = <<>> \/ exit)

(***************************************************************************)
(* StopHeard: a consumer that is not past its last test of the predicate   *)
(* when stop() is called, or that is notified after it, returns from pop   *)
(* with an empty task (queue.h:49, 53, 62).                                *)
(***************************************************************************)
StopHeard ==
  \A c \in Consumers :
    (exit /\ c \notin asleep /\ cpc[c] # "sleep") ~> (cpc[c] = "stopped")

(***************************************************************************)
(* StopReleasesConsumers: once stop() is called every consumer leaves the  *)
(* queue.  The dispatcher joins the worker threads after it called stop()  *)
(* on each of them and then reports "all worker thread stopped!!!"         *)
(* (plotter.cpp:294-303).                                                  *)
(***************************************************************************)
StopReleasesConsumers ==
  \A c \in Consumers : exit ~> (cpc[c] = "stopped")
=============================================================================
