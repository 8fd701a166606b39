------------------------ MODULE PlotOwnershipProofs ------------------------
(***************************************************************************)
(* Proofs about the tasks in flight, for any plan, any number of drives    *)
(* and blocks and any number of failures: no two of them share a block,    *)
(* on_going_task counts them and never passes max_flying_tasks, and a      *)
(* hashed block keeps its nonces until the dispatcher takes it back.       *)
(*                                                                         *)
(* A task moves from place to place.  What a move does to the blocks is    *)
(* proved once, for any function from places to sequences of tasks; each   *)
(* action is then an instance of adding, taking or moving a task.          *)
(***************************************************************************)
EXTENDS PlotPipelineProofs

\* The tasks in flight, by place.
Flight == [p \in Places |-> At(p)]

Flights == [Places -> Seq(Task)]

\* No two tasks of A have the same block.
Distinct(A) ==
  \A p, q \in Places : \A i \in 1 .. Len(A[p]), j \in 1 .. Len(A[q]) :
    A[p][i].block = A[q][j].block => p = q /\ i = j

\* The blocks of the tasks of A.
Held(A) ==
  {b \in Blocks : \E p \in Places : \E i \in 1 .. Len(A[p]) :
                    A[p][i].block = b}

-----------------------------------------------------------------------------
(* Adding, taking and moving a task                                        *)

LEMMA FlightElement ==
  ASSUME NEW A \in Flights, NEW p \in Places, NEW i \in 1 .. Len(A[p])
  PROVE  A[p][i] \in Task /\ A[p][i].block \in Blocks
<1>1. A[p] \in Seq(Task)
  BY DEF Flights
<1>2. A[p][i] \in Task
  BY <1>1, ElementOfSeq
<1>3. QED
  BY <1>2, TaskType

LEMMA AddTask ==
  ASSUME NEW A \in Flights, NEW B \in Flights, NEW a \in Places,
         NEW t \in Task,
         B[a] = Append(A[a], t),
         \A p \in Places \ {a} : B[p] = A[p],
         Distinct(A), t.block \notin Held(A)
  PROVE  Distinct(B) /\ Held(B) = Held(A) \cup {t.block}
<1> DEFINE n == Len(A[a])
<1>1. /\ A[a] \in Seq(Task) /\ n \in Nat
      /\ Len(B[a]) = n + 1
      /\ \A i \in 1 .. n : B[a][i] = A[a][i]
      /\ B[a][n + 1] = t
  <2>1. A[a] \in Seq(Task)
    BY DEF Flights
  <2>2. QED
    BY <2>1, LenProperties, AppendProperties
\* Every slot of B but the new one is a slot of A, with the same task.
<1>2. ASSUME NEW p \in Places, NEW i \in 1 .. Len(B[p]),
             ~(p = a /\ i = n + 1)
      PROVE  i \in 1 .. Len(A[p]) /\ B[p][i] = A[p][i]
  <2>1. CASE p = a
    <3>1. i \in 1 .. n + 1 /\ i # n + 1
      BY <1>1, <1>2, <2>1
    <3>2. i \in 1 .. n
      <4>1. n \in Nat
        BY <1>1
      <4> HIDE DEF n
      <4>2. QED
        BY <3>1, <4>1
    <3>3. QED
      BY <1>1, <2>1, <3>2
  <2>2. CASE p # a
    BY <2>2
  <2>3. QED
    BY <2>1, <2>2
<1>3. ASSUME NEW p \in Places, NEW i \in 1 .. Len(A[p])
      PROVE  A[p][i].block # t.block
  BY <1>3, FlightElement DEF Held
<1>4. Distinct(B)
  <2> SUFFICES ASSUME NEW p \in Places, NEW q \in Places,
                      NEW i \in 1 .. Len(B[p]), NEW j \in 1 .. Len(B[q]),
                      B[p][i].block = B[q][j].block
               PROVE  p = q /\ i = j
    BY DEF Distinct
  <2>1. CASE p = a /\ i = n + 1
    <3>1. B[p][i] = t
      BY <1>1, <2>1
    <3>2. q = a /\ j = n + 1
      BY <1>2, <1>3, <3>1
    <3>3. QED
      BY <2>1, <3>2
  <2>2. CASE q = a /\ j = n + 1
    <3>1. B[q][j] = t
      BY <1>1, <2>2
    <3>2. p = a /\ i = n + 1
      BY <1>2, <1>3, <3>1
    <3>3. QED
      BY <2>2, <3>2
  <2>3. CASE ~(p = a /\ i = n + 1) /\ ~(q = a /\ j = n + 1)
    <3>1. i \in 1 .. Len(A[p]) /\ B[p][i] = A[p][i]
      BY <1>2, <2>3
    <3>2. j \in 1 .. Len(A[q]) /\ B[q][j] = A[q][j]
      BY <1>2, <2>3
    <3>3. QED
      BY <3>1, <3>2 DEF Distinct
  <2>4. QED
    BY <2>1, <2>2, <2>3
<1>5. Held(B) \subseteq Held(A) \cup {t.block}
  <2> SUFFICES ASSUME NEW p \in Places, NEW i \in 1 .. Len(B[p]),
                      B[p][i].block \in Blocks
               PROVE  B[p][i].block \in Held(A) \cup {t.block}
    BY ZenonT(40) DEF Held
  <2>1. CASE p = a /\ i = n + 1
    BY <1>1, <2>1
  <2>2. CASE ~(p = a /\ i = n + 1)
    BY <1>2, <2>2 DEF Held
  <2>3. QED
    BY <2>1, <2>2
<1>6. t.block \in Held(B)
  <2>1. n + 1 \in 1 .. Len(B[a]) /\ B[a][n + 1] = t
    BY <1>1
  <2>2. QED
    BY <2>1, TaskType DEF Held
<1>7. Held(A) \subseteq Held(B)
  <2> SUFFICES ASSUME NEW p \in Places, NEW i \in 1 .. Len(A[p]),
                      A[p][i].block \in Blocks
               PROVE  A[p][i].block \in Held(B)
    BY DEF Held
  <2>1. i \in 1 .. Len(B[p]) /\ B[p][i] = A[p][i]
    <3>1. CASE p = a
      BY <1>1, <3>1
    <3>2. CASE p # a
      BY <3>2
    <3>3. QED
      BY <3>1, <3>2
  <2>2. QED
    BY <2>1 DEF Held
<1>8. QED
  BY <1>4, <1>5, <1>6, <1>7

LEMMA TakeTask ==
  ASSUME NEW A \in Flights, NEW B \in Flights, NEW a \in Places,
         A[a] # <<>>,
         B[a] = Tail(A[a]),
         \A p \in Places \ {a} : B[p] = A[p],
         Distinct(A)
  PROVE  /\ Head(A[a]) \in Task
         /\ Head(A[a]).block \in Held(A)
         /\ Distinct(B)
         /\ Held(B) = Held(A) \ {Head(A[a]).block}
<1> DEFINE n == Len(A[a])
           t == Head(A[a])
\* The slot of A that a slot of B comes from.
           Old(p, i) == IF p = a THEN i + 1 ELSE i
<1>1. /\ A[a] \in Seq(Task) /\ n \in Nat \ {0}
      /\ Len(B[a]) = n - 1
      /\ \A i \in 1 .. n - 1 : B[a][i] = A[a][i + 1]
      /\ t = A[a][1]
      /\ t \in Task
  <2>1. A[a] \in Seq(Task)
    BY DEF Flights
  <2>2. QED
    BY <2>1, EmptySeq, HeadTailProperties
<1>2. ASSUME NEW p \in Places, NEW i \in 1 .. Len(B[p])
      PROVE  /\ Old(p, i) \in 1 .. Len(A[p])
             /\ B[p][i] = A[p][Old(p, i)]
             /\ ~(p = a /\ Old(p, i) = 1)
  <2>1. CASE p = a
    <3>1. i \in 1 .. n - 1
      BY <1>1, <2>1
    <3>2. i + 1 \in 1 .. n /\ i + 1 # 1
      BY <1>1, <3>1
    <3>3. QED
      BY <1>1, <2>1, <3>1, <3>2
  <2>2. CASE p # a
    BY <2>2
  <2>3. QED
    BY <2>1, <2>2
<1>3. 1 \in 1 .. Len(A[a])
  BY <1>1
<1>4. t.block \in Held(A)
  BY <1>1, <1>3, TaskType DEF Held
<1>5. Distinct(B)
  <2> SUFFICES ASSUME NEW p \in Places, NEW q \in Places,
                      NEW i \in 1 .. Len(B[p]), NEW j \in 1 .. Len(B[q]),
                      B[p][i].block = B[q][j].block
               PROVE  p = q /\ i = j
    BY DEF Distinct
  <2>1. p = q /\ Old(p, i) = Old(q, j)
    <3>1. /\ Old(p, i) \in 1 .. Len(A[p])
          /\ B[p][i] = A[p][Old(p, i)]
      BY <1>2
    <3>2. /\ Old(q, j) \in 1 .. Len(A[q])
          /\ B[q][j] = A[q][Old(q, j)]
      BY <1>2
    <3> HIDE DEF Old
    <3>3. QED
      BY <3>1, <3>2 DEF Distinct
  <2>2. QED
    BY <2>1
<1>6. ASSUME NEW p \in Places, NEW i \in 1 .. Len(B[p])
      PROVE  B[p][i].block \in Held(A) \ {t.block}
  <2>1. /\ Old(p, i) \in 1 .. Len(A[p])
        /\ B[p][i] = A[p][Old(p, i)]
        /\ ~(p = a /\ Old(p, i) = 1)
    BY <1>2
  <2> HIDE DEF Old
  <2>2. A[p][Old(p, i)].block # t.block
    BY <1>1, <1>3, <2>1 DEF Distinct
  <2>3. A[p][Old(p, i)].block \in Held(A)
    BY <2>1, FlightElement DEF Held
  <2>4. QED
    BY <2>1, <2>2, <2>3
<1>7. ASSUME NEW p \in Places, NEW i \in 1 .. Len(A[p]),
             A[p][i].block \in Blocks, A[p][i].block # t.block
      PROVE  A[p][i].block \in Held(B)
  <2>1. CASE p = a
    <3>1. i # 1 /\ i \in 1 .. n
      BY <1>1, <1>7, <2>1
    <3>2. i - 1 \in 1 .. n - 1 /\ (i - 1) + 1 = i
      <4>1. n \in Nat
        BY <1>1
      <4> HIDE DEF n
      <4>2. QED
        BY <3>1, <4>1
    <3>3. i - 1 \in 1 .. Len(B[a]) /\ B[a][i - 1] = A[a][i]
      BY <1>1, <3>2
    <3>4. QED
      BY <1>7, <2>1, <3>3 DEF Held
  <2>2. CASE p # a
    BY <1>7, <2>2 DEF Held
  <2>3. QED
    BY <2>1, <2>2
<1>8. Held(B) = Held(A) \ {t.block}
  <2>1. Held(B) \subseteq Held(A) \ {t.block}
    BY ZenonT(40), <1>6 DEF Held
  <2>2. Held(A) \ {t.block} \subseteq Held(B)
    <3> SUFFICES ASSUME NEW b \in Held(A), b # t.block
                 PROVE  b \in Held(B)
      OBVIOUS
    <3>1. PICK p \in Places : \E i \in 1 .. Len(A[p]) : A[p][i].block = b
      BY DEF Held
    <3>2. b \in Blocks
      BY DEF Held
    <3>3. QED
      BY <1>7, <3>1, <3>2
  <2>3. QED
    BY <2>1, <2>2
<1>9. QED
  BY <1>1, <1>4, <1>5, <1>8

LEMMA MoveTask ==
  ASSUME NEW A \in Flights, NEW B \in Flights,
         NEW a \in Places, NEW b \in Places, a # b,
         A[a] # <<>>,
         B[a] = Tail(A[a]),
         B[b] = Append(A[b], Head(A[a])),
         \A p \in Places \ {a, b} : B[p] = A[p],
         Distinct(A)
  PROVE  Distinct(B) /\ Held(B) = Held(A)
<1> DEFINE C == [A EXCEPT ![a] = Tail(A[a])]
<1>1. A[a] \in Seq(Task) /\ Tail(A[a]) \in Seq(Task)
  BY HeadTailProperties DEF Flights
<1>2. /\ C \in Flights
      /\ C[a] = Tail(A[a])
      /\ \A p \in Places \ {a} : C[p] = A[p]
  BY <1>1 DEF Flights
<1> HIDE DEF C
<1>3. /\ Head(A[a]) \in Task
      /\ Head(A[a]).block \in Held(A)
      /\ Distinct(C)
      /\ Held(C) = Held(A) \ {Head(A[a]).block}
  BY <1>2, TakeTask
<1>4. B[b] = Append(C[b], Head(A[a]))
  BY <1>2
<1>5. \A p \in Places \ {b} : B[p] = C[p]
  BY <1>2
<1>6. Distinct(B) /\ Held(B) = Held(C) \cup {Head(A[a]).block}
  BY <1>3, <1>4, <1>5, <1>2, AddTask
<1>7. QED
  BY <1>3, <1>6

-----------------------------------------------------------------------------
(* The places                                                              *)

LEMMA PlacesAre ==
  /\ {<<"pending", 0>>, <<"hashing", 0>>, <<"hasher_tasks", 0>>,
      <<"reporter", 0>>} \subseteq Places
  /\ \A w \in Writers :
       <<"fin_hasher_tasks", w>> \in Places /\ <<"writing", w>> \in Places
  /\ \A p \in Places :
       \/ p \in {<<"pending", 0>>, <<"hashing", 0>>, <<"hasher_tasks", 0>>,
                 <<"reporter", 0>>}
       \/ \E w \in Writers : p \in {<<"fin_hasher_tasks", w>>, <<"writing", w>>}
BY DEF Places

LEMMA FlightAt ==
  /\ Flight[<<"pending", 0>>] = pending
  /\ Flight[<<"hashing", 0>>] = hashing
  /\ Flight[<<"hasher_tasks", 0>>] = hasher_tasks
  /\ Flight[<<"reporter", 0>>] = reporter
  /\ \A w \in Writers :
       /\ Flight[<<"fin_hasher_tasks", w>>] = fin_hasher_tasks[w]
       /\ Flight[<<"writing", w>>] = writing[w]
BY PlacesAre DEF Flight, At

LEMMA FlightAtNext ==
  /\ Flight'[<<"pending", 0>>] = pending'
  /\ Flight'[<<"hashing", 0>>] = hashing'
  /\ Flight'[<<"hasher_tasks", 0>>] = hasher_tasks'
  /\ Flight'[<<"reporter", 0>>] = reporter'
  /\ \A w \in Writers :
       /\ Flight'[<<"fin_hasher_tasks", w>>] = fin_hasher_tasks'[w]
       /\ Flight'[<<"writing", w>>] = writing'[w]
BY PlacesAre DEF Flight, At

LEMMA FlightType == IInv => Flight \in Flights
<1> SUFFICES ASSUME IInv PROVE \A p \in Places : Flight[p] \in Seq(Task)
  BY DEF Flight, Flights
<1>1. /\ pending \in Seq(Task) /\ hashing \in Seq(Task)
      /\ hasher_tasks \in Seq(Task) /\ reporter \in Seq(Task)
      /\ \A w \in Writers : /\ fin_hasher_tasks[w] \in Seq(Task)
                            /\ writing[w] \in Seq(Task)
  BY DEF IInv, DispatcherInv, DispatcherTypeOK, HasherInv, HasherTypeOK,
         WriterInv, WriterTypeOK, QueueTypeOK
<1>2. QED
  BY <1>1, PlacesAre, FlightAt

LEMMA FlightTypeNext == IInv' => Flight' \in Flights
<1> SUFFICES ASSUME IInv' PROVE \A p \in Places : Flight'[p] \in Seq(Task)
  BY DEF Flight, Flights
<1>1. /\ pending' \in Seq(Task) /\ hashing' \in Seq(Task)
      /\ hasher_tasks' \in Seq(Task) /\ reporter' \in Seq(Task)
      /\ \A w \in Writers : /\ fin_hasher_tasks'[w] \in Seq(Task)
                            /\ writing'[w] \in Seq(Task)
  BY DEF IInv, DispatcherInv, DispatcherTypeOK, HasherInv, HasherTypeOK,
         WriterInv, WriterTypeOK, QueueTypeOK
<1>2. QED
  BY <1>1, PlacesAre, FlightAtNext

LEMMA FlightStays ==
  ASSUME UNCHANGED <<pending, hashing, hasher_tasks, reporter,
                     fin_hasher_tasks, writing>>
  PROVE  Flight' = Flight
BY DEF Flight, At

\* A place whose contents stay.
LEMMA StaysAt ==
  ASSUME NEW p \in Places,
         p = <<"pending", 0>> => pending' = pending,
         p = <<"hashing", 0>> => hashing' = hashing,
         p = <<"hasher_tasks", 0>> => hasher_tasks' = hasher_tasks,
         p = <<"reporter", 0>> => reporter' = reporter,
         \A w \in Writers :
           /\ p = <<"fin_hasher_tasks", w>> =>
                fin_hasher_tasks'[w] = fin_hasher_tasks[w]
           /\ p = <<"writing", w>> => writing'[w] = writing[w]
  PROVE  Flight'[p] = Flight[p]
<1>1. CASE p \in {<<"pending", 0>>, <<"hashing", 0>>, <<"hasher_tasks", 0>>,
                  <<"reporter", 0>>}
  BY <1>1, FlightAt, FlightAtNext
<1>2. ASSUME NEW w \in Writers,
             p \in {<<"fin_hasher_tasks", w>>, <<"writing", w>>}
      PROVE  Flight'[p] = Flight[p]
  BY ZenonT(40), <1>2, FlightAt, FlightAtNext
<1>3. QED
  BY <1>1, <1>2, PlacesAre

-----------------------------------------------------------------------------
(* What the steps do to the tasks in flight                                *)

LEMMA OneTask ==
  ASSUME NEW s \in Seq(Task), Len(s) = 1, NEW x \in Seq(Task)
  PROVE  /\ s # <<>> /\ Head(s) = s[1] /\ s[1] \in Task
         /\ Tail(s) = <<>>
         /\ x \o s = Append(x, Head(s))
<1>1. s[1] \in Task /\ s = <<s[1]>> /\ s # <<>>
  BY Singleton
<1>2. ASSUME NEW t \in Task
      PROVE  /\ Head(<<t>>) = t /\ Tail(<<t>>) = <<>>
             /\ x \o <<t>> = Append(x, t)
  <2>1. Head(<<t>>) = t /\ Tail(<<t>>) = <<>>
    OBVIOUS
  <2>2. x \o <<t>> = Append(x, t)
    <3>1. <<t>> \in Seq(Task) /\ Len(<<t>>) = 1 /\ <<t>>[1] = t
      BY One
    <3>2. /\ x \o <<t>> \in Seq(Task)
          /\ Len(x \o <<t>>) = Len(x) + 1
          /\ \A i \in 1 .. Len(x) + 1 :
               (x \o <<t>>)[i] = IF i <= Len(x) THEN x[i] ELSE <<t>>[i - Len(x)]
      BY <3>1, ConcatProperties
    <3>3. /\ Append(x, t) \in Seq(Task)
          /\ Len(Append(x, t)) = Len(x) + 1
          /\ \A i \in 1 .. Len(x) : Append(x, t)[i] = x[i]
          /\ Append(x, t)[Len(x) + 1] = t
      BY AppendProperties
    <3>4. \A i \in 1 .. Len(x) + 1 : (x \o <<t>>)[i] = Append(x, t)[i]
      <4> SUFFICES ASSUME NEW i \in 1 .. Len(x) + 1
                   PROVE  (x \o <<t>>)[i] = Append(x, t)[i]
        OBVIOUS
      <4>1. Len(x) \in Nat
        BY LenProperties
      <4>2. CASE i <= Len(x)
        BY <3>2, <3>3, <4>1, <4>2
      <4>3. CASE i = Len(x) + 1
        BY <3>1, <3>2, <3>3, <4>1, <4>3
      <4>4. QED
        BY <4>1, <4>2, <4>3
    <3>5. QED
      BY <3>2, <3>3, <3>4, SeqEqual
  <2>3. QED
    BY <2>1, <2>2
<1>3. QED
  BY <1>1, <1>2

LEMMA NoTask ==
  ASSUME NEW s \in Seq(Task), Len(s) = 0
  PROVE  s = <<>> /\ \A t \in Task : <<t>> = Append(s, t)
<1>1. s = <<>>
  BY EmptySeq
<1>2. \A t \in Task : <<t>> = Append(<<>>, t)
  OBVIOUS
<1>3. QED
  BY <1>1, <1>2

\* The first task of place a goes to the end of place b.
Moves(a, b) ==
  /\ a \in Places /\ b \in Places /\ a # b
  /\ Flight[a] # <<>>
  /\ Flight'[a] = Tail(Flight[a])
  /\ Flight'[b] = Append(Flight[b], Head(Flight[a]))
  /\ \A p \in Places \ {a, b} : Flight'[p] = Flight[p]

\* Task t goes to the end of place a.
Enters(a, t) ==
  /\ a \in Places
  /\ Flight'[a] = Append(Flight[a], t)
  /\ \A p \in Places \ {a} : Flight'[p] = Flight[p]

\* The first task of place a leaves the pipeline.
Leaves(a) ==
  /\ a \in Places
  /\ Flight[a] # <<>>
  /\ Flight'[a] = Tail(Flight[a])
  /\ \A p \in Places \ {a} : Flight'[p] = Flight[p]

LEMMA SubmitMoves ==
  ASSUME IInv, DispatcherSubmit
  PROVE  Moves(<<"pending", 0>>, <<"hasher_tasks", 0>>)
<1> DEFINE a == <<"pending", 0>>
           b == <<"hasher_tasks", 0>>
<1>1. /\ pending \in Seq(Task) /\ Len(pending) = 1
      /\ hasher_tasks \in Seq(Task)
  BY DEF DispatcherSubmit, IInv, DispatcherInv, DispatcherTypeOK,
         DispatcherStage, QueueTypeOK
<1>2. /\ pending # <<>> /\ pending' = Tail(pending)
      /\ hasher_tasks' = Append(hasher_tasks, Head(pending))
  BY <1>1, OneTask DEF DispatcherSubmit
<1>3. UNCHANGED <<hashing, reporter, fin_hasher_tasks, writing>>
  BY DEF DispatcherSubmit, hasherVars, writerVars
<1>4. /\ a \in Places /\ b \in Places /\ a # b
      /\ Flight[a] # <<>> /\ Flight'[a] = Tail(Flight[a])
      /\ Flight'[b] = Append(Flight[b], Head(Flight[a]))
  BY <1>2, PlacesAre, FlightAt, FlightAtNext
<1>5. \A p \in Places \ {a, b} : Flight'[p] = Flight[p]
  BY <1>3, StaysAt
<1>6. QED
  BY <1>4, <1>5 DEF Moves

LEMMA PopMoves ==
  ASSUME IInv, HasherPop
  PROVE  Moves(<<"hasher_tasks", 0>>, <<"hashing", 0>>)
<1> DEFINE a == <<"hasher_tasks", 0>>
           b == <<"hashing", 0>>
<1>1. /\ hashing \in Seq(Task) /\ Len(hashing) = 0
      /\ hasher_tasks \in Seq(Task) /\ hasher_tasks # <<>>
  BY DEF HasherPop, IInv, HasherInv, HasherTypeOK, HasherStage, QueueTypeOK
<1>2. Head(hasher_tasks) \in Task
  BY <1>1, HeadTailProperties
<1>3. /\ hasher_tasks' = Tail(hasher_tasks)
      /\ hashing' = Append(hashing, Head(hasher_tasks))
  BY <1>1, <1>2, NoTask DEF HasherPop
<1>4. UNCHANGED <<pending, reporter, fin_hasher_tasks, writing>>
  BY DEF HasherPop, dispatcherVars, writerVars
<1>5. /\ a \in Places /\ b \in Places /\ a # b
      /\ Flight[a] # <<>> /\ Flight'[a] = Tail(Flight[a])
      /\ Flight'[b] = Append(Flight[b], Head(Flight[a]))
  BY <1>1, <1>3, PlacesAre, FlightAt, FlightAtNext
<1>6. \A p \in Places \ {a, b} : Flight'[p] = Flight[p]
  BY <1>4, StaysAt
<1>7. QED
  BY <1>5, <1>6 DEF Moves

LEMMA PushMoves ==
  ASSUME IInv, HasherPush
  PROVE  /\ hashing[1].file[1] \in Writers
         /\ hashing[1] = Head(hashing)
         /\ Moves(<<"hashing", 0>>,
                  <<"fin_hasher_tasks", hashing[1].file[1]>>)
<1> DEFINE w == hashing[1].file[1]
           a == <<"hashing", 0>>
           b == <<"fin_hasher_tasks", w>>
<1>1. /\ hashing \in Seq(Task) /\ Len(hashing) = 1
      /\ fin_hasher_tasks \in [Writers -> Seq(Task)]
  BY DEF HasherPush, IInv, HasherInv, HasherTypeOK, HasherStage, QueueTypeOK
<1>2. w \in Writers
  BY <1>1, Singleton, TaskType, FilesAre
<1>3. /\ fin_hasher_tasks' = [fin_hasher_tasks EXCEPT ![w] = @ \o hashing]
      /\ hashing' = <<>>
  BY DEF HasherPush
<1>4. UNCHANGED <<pending, reporter, hasher_tasks, writing>>
  BY DEF HasherPush, dispatcherVars, writerVars
<1>5. Head(hashing) = hashing[1]
  BY <1>1, OneTask
<1> HIDE DEF w
<1>6. /\ hashing # <<>> /\ hashing' = Tail(hashing)
      /\ fin_hasher_tasks'[w] = Append(fin_hasher_tasks[w], Head(hashing))
      /\ \A v \in Writers \ {w} : fin_hasher_tasks'[v] = fin_hasher_tasks[v]
  <2>1. fin_hasher_tasks[w] \in Seq(Task)
    BY <1>1, <1>2
  <2>2. /\ fin_hasher_tasks'[w] = fin_hasher_tasks[w] \o hashing
        /\ \A v \in Writers \ {w} : fin_hasher_tasks'[v] = fin_hasher_tasks[v]
    BY <1>1, <1>2, <1>3
  <2>3. QED
    BY <1>1, <1>3, <2>1, <2>2, OneTask
<1>7. /\ a \in Places /\ b \in Places /\ a # b
      /\ Flight[a] # <<>> /\ Flight'[a] = Tail(Flight[a])
      /\ Flight'[b] = Append(Flight[b], Head(Flight[a]))
  BY <1>2, <1>6, PlacesAre, FlightAt, FlightAtNext
<1>8. \A p \in Places \ {a, b} : Flight'[p] = Flight[p]
  BY <1>4, <1>6, StaysAt
<1>9. QED
  BY <1>2, <1>5, <1>7, <1>8 DEF Moves, w

LEMMA WriterPopMoves ==
  ASSUME IInv, NEW w \in Writers, WriterPop(w)
  PROVE  Moves(<<"fin_hasher_tasks", w>>, <<"writing", w>>)
<1> DEFINE a == <<"fin_hasher_tasks", w>>
           b == <<"writing", w>>
<1>1. /\ writing \in [Writers -> Seq(Task)] /\ Len(writing[w]) = 0
      /\ fin_hasher_tasks \in [Writers -> Seq(Task)]
      /\ fin_hasher_tasks[w] # <<>>
  BY DEF WriterPop, IInv, WriterInv, WriterTypeOK, WriterStage, QueueTypeOK
<1>2. Head(fin_hasher_tasks[w]) \in Task
  BY <1>1, HeadTailProperties
<1>3. /\ writing' = [writing EXCEPT ![w] = <<Head(fin_hasher_tasks[w])>>]
      /\ fin_hasher_tasks' = [fin_hasher_tasks EXCEPT ![w] = Tail(@)]
  BY DEF WriterPop
<1>4. UNCHANGED <<pending, hashing, hasher_tasks, reporter>>
  BY DEF WriterPop, dispatcherVars, hasherVars
<1>5. /\ writing'[w] = Append(writing[w], Head(fin_hasher_tasks[w]))
      /\ fin_hasher_tasks'[w] = Tail(fin_hasher_tasks[w])
      /\ \A v \in Writers \ {w} : /\ writing'[v] = writing[v]
                                  /\ fin_hasher_tasks'[v] = fin_hasher_tasks[v]
  <2>1. writing'[w] = <<Head(fin_hasher_tasks[w])>>
    BY <1>1, <1>3
  <2>2. writing'[w] = Append(writing[w], Head(fin_hasher_tasks[w]))
    BY <1>1, <1>2, <2>1, NoTask
  <2>3. QED
    BY <1>1, <1>3, <2>2
<1>6. /\ a \in Places /\ b \in Places /\ a # b
      /\ Flight[a] # <<>> /\ Flight'[a] = Tail(Flight[a])
      /\ Flight'[b] = Append(Flight[b], Head(Flight[a]))
  BY <1>1, <1>5, PlacesAre, FlightAt, FlightAtNext
<1>7. \A p \in Places \ {a, b} : Flight'[p] = Flight[p]
  BY <1>4, <1>5, StaysAt
<1>8. QED
  BY <1>6, <1>7 DEF Moves

LEMMA ReportMoves ==
  ASSUME IInv, NEW w \in Writers, WriterReport(w)
  PROVE  Moves(<<"writing", w>>, <<"reporter", 0>>)
<1> DEFINE a == <<"writing", w>>
           b == <<"reporter", 0>>
<1>1. /\ writing \in [Writers -> Seq(Task)] /\ Len(writing[w]) = 1
      /\ reporter \in Seq(Task)
  BY DEF WriterReport, IInv, WriterInv, WriterTypeOK, WriterStage, QueueTypeOK
<1>2. /\ writing' = [writing EXCEPT ![w] = <<>>]
      /\ reporter' = reporter \o writing[w]
  BY DEF WriterReport
<1>3. UNCHANGED <<pending, hashing, hasher_tasks, fin_hasher_tasks>>
  BY DEF WriterReport, dispatcherVars, hasherVars
<1>4. /\ writing[w] # <<>> /\ writing'[w] = Tail(writing[w])
      /\ reporter' = Append(reporter, Head(writing[w]))
      /\ \A v \in Writers \ {w} : writing'[v] = writing[v]
  <2>1. writing[w] \in Seq(Task)
    BY <1>1
  <2>2. writing'[w] = <<>> /\ \A v \in Writers \ {w} : writing'[v] = writing[v]
    BY <1>1, <1>2
  <2>3. QED
    BY <1>1, <1>2, <2>1, <2>2, OneTask
<1>5. /\ a \in Places /\ b \in Places /\ a # b
      /\ Flight[a] # <<>> /\ Flight'[a] = Tail(Flight[a])
      /\ Flight'[b] = Append(Flight[b], Head(Flight[a]))
  BY <1>4, PlacesAre, FlightAt, FlightAtNext
<1>6. \A p \in Places \ {a, b} : Flight'[p] = Flight[p]
  BY <1>3, <1>4, StaysAt
<1>7. QED
  BY <1>5, <1>6 DEF Moves

\* The task that is cut is the only one at its place.
LEMMA CutAdds ==
  ASSUME IInv, IInv', DispatcherReadWriter, NEW b, NEW f, CutTask(f, b),
         dpc' = "submit"
  PROVE  /\ pending'[1] = [file |-> f, sn |-> prev[f], block |-> b,
                           nonces |-> Smaller(WorkSize, left[f])]
         /\ pending'[1] \in Task
         /\ Enters(<<"pending", 0>>, pending'[1])
<1> DEFINE t == pending'[1]
           a == <<"pending", 0>>
<1>1. dpc = "writer" /\ pending \in Seq(Task) /\ Len(pending) = 0
  BY DEF DispatcherReadWriter, IInv, DispatcherInv, DispatcherTypeOK,
         DispatcherStage
<1>2. UNCHANGED <<hashing, hasher_tasks, reporter, fin_hasher_tasks, writing>>
  BY DEF DispatcherReadWriter, hasherVars, writerVars, queueVars
<1>3. /\ pending' = <<t>>
      /\ t = [file |-> f, sn |-> prev[f], block |-> b,
              nonces |-> Smaller(WorkSize, left[f])]
  BY DEF CutTask
<1>4. t \in Task
  <2>1. pending' \in Seq(Task) /\ Len(pending') = 1
    BY DEF IInv, DispatcherInv, DispatcherTypeOK, DispatcherStage
  <2>2. QED
    BY <2>1, Singleton
<1>5. a \in Places /\ Flight'[a] = Append(Flight[a], t)
  <2>1. pending' = Append(pending, t)
    <3> HIDE DEF t
    <3>1. QED
      BY <1>1, <1>3, <1>4, NoTask
  <2>2. QED
    BY <2>1, PlacesAre, FlightAt, FlightAtNext
<1>6. \A p \in Places \ {a} : Flight'[p] = Flight[p]
  BY <1>2, StaysAt
<1>7. QED
  BY <1>3, <1>4, <1>5, <1>6 DEF Enters

LEMMA PollTakes ==
  ASSUME IInv, DispatcherPoll, reporter # <<>>
  PROVE  Leaves(<<"reporter", 0>>) /\ Flight[<<"reporter", 0>>] = reporter
<1> DEFINE a == <<"reporter", 0>>
<1>1. UNCHANGED <<pending, hashing, hasher_tasks, fin_hasher_tasks, writing>>
  BY DEF DispatcherPoll, hasherVars, writerVars
<1>2. reporter' = Tail(reporter)
  BY DEF DispatcherPoll
<1>3. a \in Places /\ Flight[a] = reporter /\ Flight'[a] = Tail(reporter)
  BY <1>2, PlacesAre, FlightAt, FlightAtNext
<1>4. \A p \in Places \ {a} : Flight'[p] = Flight[p]
  BY <1>1, StaysAt
<1>5. QED
  BY <1>3, <1>4 DEF Leaves

-----------------------------------------------------------------------------
(* The invariant                                                           *)

OwnInv ==
  /\ Distinct(Flight)
  /\ used_blocks = Held(Flight)
  /\ used_blocks \cap free_blocks = {}
  /\ on_going_task = Cardinality(used_blocks)
  /\ on_going_task <= MaxFlying
  /\ dpc \in {"hasher", "writer"} => on_going_task < MaxFlying

LEMMA InitOwn == Init => OwnInv
<1> SUFFICES ASSUME Init PROVE OwnInv
  OBVIOUS
<1>1. \A p \in Places : Len(Flight[p]) = 0
  <2>1. /\ pending = <<>> /\ hashing = <<>> /\ hasher_tasks = <<>>
        /\ reporter = <<>>
        /\ \A w \in Writers : fin_hasher_tasks[w] = <<>> /\ writing[w] = <<>>
    BY DEF Init
  <2>2. \A p \in Places : Flight[p] = <<>>
    BY <2>1, PlacesAre, FlightAt
  <2>3. QED
    BY <2>2, EmptySeq
<1>2. Distinct(Flight) /\ Held(Flight) = {}
  BY <1>1 DEF Distinct, Held
<1>3. used_blocks = {} /\ free_blocks = {} /\ on_going_task = 0 /\ dpc = "loop"
  BY DEF Init
<1>4. QED
  BY <1>2, <1>3, FS_EmptySet, MaxFlyingType DEF OwnInv

LEMMA UsedFinite ==
  ASSUME IInv
  PROVE  IsFiniteSet(used_blocks) /\ Cardinality(used_blocks) \in Nat
<1>1. used_blocks \in SUBSET Blocks
  BY DEF IInv, DispatcherInv, DispatcherTypeOK
<1>2. IsFiniteSet(used_blocks)
  BY <1>1, SizesAssumption, FS_Subset
<1>3. QED
  BY <1>2, FS_CardinalityType

\* A step that moves no task and leaves the dispatcher's accounts alone.
LEMMA OwnStays ==
  ASSUME OwnInv,
         UNCHANGED <<pending, hashing, hasher_tasks, reporter,
                     fin_hasher_tasks, writing>>,
         UNCHANGED <<used_blocks, on_going_task>>,
         used_blocks \cap free_blocks' = {},
         dpc' \in {"hasher", "writer"} =>
           dpc \in {"hasher", "writer"} \/ on_going_task < MaxFlying
  PROVE  OwnInv'
<1>1. Flight' = Flight
  BY FlightStays
<1>2. Distinct(Flight') /\ Held(Flight') = Held(Flight)
  BY <1>1 DEF OwnInv
<1>3. Distinct(Flight)' /\ Held(Flight)' = Held(Flight)
  BY <1>2 DEF Distinct, Held
<1>4. QED
  BY <1>3 DEF OwnInv

\* A step that moves a task from one place to another.
LEMMA OwnMoves ==
  ASSUME IInv, IInv', OwnInv,
         NEW a, NEW b, Moves(a, b),
         UNCHANGED <<used_blocks, free_blocks, on_going_task>>,
         dpc' \in {"hasher", "writer"} => dpc \in {"hasher", "writer"}
  PROVE  OwnInv'
<1>1. Flight \in Flights /\ Flight' \in Flights
  BY FlightType, FlightTypeNext
<1>2. Distinct(Flight') /\ Held(Flight') = Held(Flight)
  BY <1>1, MoveTask DEF OwnInv, Moves
<1>3. Distinct(Flight)' /\ Held(Flight)' = Held(Flight)
  BY <1>2 DEF Distinct, Held
<1>4. QED
  BY <1>3 DEF OwnInv

-----------------------------------------------------------------------------
(* The steps                                                               *)

\* The report: a task leaves the pipeline and its block becomes free.
LEMMA PollOwn ==
  ASSUME IInv, IInv', OwnInv, DispatcherPoll
  PROVE  OwnInv'
<1>1. dpc' \in {"hasher", "writer"} => on_going_task' < MaxFlying
  <2>1. on_going_task' \in Int /\ MaxFlying \in Int
    BY MaxFlyingType DEF IInv, DispatcherInv, DispatcherTypeOK
  <2>2. dpc' = AfterPoll(finished_nonces', on_going_task')
    BY DEF DispatcherPoll
  <2>3. QED
    BY <2>1, <2>2 DEF AfterPoll
<1>2. CASE reporter = <<>>
  <2>1. UNCHANGED <<free_blocks, used_blocks, on_going_task, pending, hashing,
                    hasher_tasks, reporter, fin_hasher_tasks, writing>>
    BY <1>2 DEF DispatcherPoll, hasherVars, writerVars
  <2>2. dpc' \in {"hasher", "writer"} => on_going_task < MaxFlying
    BY <1>1, <2>1
  <2>3. used_blocks \cap free_blocks' = {}
    BY <2>1 DEF OwnInv
  <2>4. QED
    BY <2>1, <2>2, <2>3, OwnStays
<1>3. CASE reporter # <<>>
  <2> DEFINE t == Head(reporter)
             a == <<"reporter", 0>>
  <2>1. /\ free_blocks' = free_blocks \cup {t.block}
        /\ used_blocks' = used_blocks \ {t.block}
        /\ on_going_task' = on_going_task - 1
    BY <1>3 DEF DispatcherPoll, Retain
  <2>2. Leaves(a) /\ Head(Flight[a]) = t
    BY <1>3, PollTakes
  <2>4. Flight \in Flights /\ Flight' \in Flights
    BY FlightType, FlightTypeNext
  <2>5. /\ t.block \in Held(Flight)
        /\ Distinct(Flight')
        /\ Held(Flight') = Held(Flight) \ {t.block}
    <3> HIDE DEF a, t
    <3>1. QED
      BY <2>2, <2>4, TakeTask DEF OwnInv, Leaves
  <2>6. Distinct(Flight)' /\ Held(Flight)' = Held(Flight) \ {t.block}
    BY <2>5 DEF Distinct, Held
  <2>7. /\ used_blocks' = Held(Flight)'
        /\ used_blocks' \cap free_blocks' = {}
    BY <2>1, <2>5, <2>6 DEF OwnInv
  <2>8. on_going_task' = Cardinality(used_blocks')
    <3>1. t.block \in used_blocks
      BY <2>5 DEF OwnInv
    <3>2. Cardinality(used_blocks \ {t.block}) = Cardinality(used_blocks) - 1
      BY <3>1, UsedFinite, FS_RemoveElement
    <3>3. QED
      BY <2>1, <3>2 DEF OwnInv
  <2>9. on_going_task' <= MaxFlying
    <3>1. on_going_task \in Int /\ MaxFlying \in Int
      BY MaxFlyingType DEF IInv, DispatcherInv, DispatcherTypeOK
    <3>2. QED
      BY <2>1, <3>1 DEF OwnInv
  <2>10. QED
    BY <1>1, <2>6, <2>7, <2>8, <2>9 DEF OwnInv
<1>4. QED
  BY <1>2, <1>3

\* The allocation: the block of a new task is nobody's.
LEMMA AllocatableIsFree ==
  ASSUME OwnInv, NEW b \in Allocatable
  PROVE  b \notin used_blocks
BY DEF Allocatable, OwnInv

LEMMA ReadWriterOwn ==
  ASSUME IInv, IInv', OwnInv, DispatcherReadWriter
  PROVE  OwnInv'
<1> DEFINE w == cur_worker_pos + 1
<1>1. dpc = "writer" /\ pending \in Seq(Task) /\ Len(pending) = 0
  BY DEF DispatcherReadWriter, IInv, DispatcherInv, DispatcherTypeOK,
         DispatcherStage
<1>2. UNCHANGED <<hashing, hasher_tasks, reporter, fin_hasher_tasks, writing>>
  BY DEF DispatcherReadWriter, hasherVars, writerVars, queueVars
<1>3. CASE /\ dpc' = "loop"
           /\ UNCHANGED <<pending, on_going_task, used_blocks>>
           /\ \/ UNCHANGED free_blocks
              \/ \E b \in Allocatable : free_blocks' = free_blocks \cup {b}
  <2>1. used_blocks \cap free_blocks' = {}
    BY <1>3, AllocatableIsFree DEF OwnInv
  <2>2. QED
    BY <1>2, <1>3, <2>1, OwnStays
<1>4. ASSUME NEW b \in Allocatable, NEW f \in CurrentFiles(w), CutTask(f, b),
             free_blocks' = free_blocks \ {b},
             used_blocks' = used_blocks \cup {b},
             on_going_task' = on_going_task + 1,
             dpc' = "submit"
      PROVE  OwnInv'
  <2> DEFINE t == pending'[1]
             a == <<"pending", 0>>
  <2>1. t \in Task /\ t.block = b /\ Enters(a, t)
    <3>1. /\ pending'[1] = [file |-> f, sn |-> prev[f], block |-> b,
                            nonces |-> Smaller(WorkSize, left[f])]
          /\ pending'[1] \in Task
          /\ Enters(<<"pending", 0>>, pending'[1])
      <4> HIDE DEF t, a, w
      <4>1. QED
        BY <1>4, CutAdds
    <3>2. QED
      BY <3>1
  <2>5. Flight \in Flights /\ Flight' \in Flights
    BY FlightType, FlightTypeNext
  <2>6. b \notin used_blocks /\ used_blocks = Held(Flight)
    BY AllocatableIsFree DEF OwnInv
  <2>7. Distinct(Flight') /\ Held(Flight') = Held(Flight) \cup {b}
    <3> HIDE DEF t, a
    <3>1. QED
      BY <2>1, <2>5, <2>6, AddTask DEF OwnInv, Enters
  <2>8. Distinct(Flight)' /\ Held(Flight)' = Held(Flight) \cup {b}
    BY <2>7 DEF Distinct, Held
  <2>9. /\ used_blocks' = Held(Flight)'
        /\ used_blocks' \cap free_blocks' = {}
    BY <1>4, <2>6, <2>8 DEF OwnInv
  <2>10. on_going_task' = Cardinality(used_blocks')
    <3>1. Cardinality(used_blocks \cup {b}) = Cardinality(used_blocks) + 1
      BY <2>6, UsedFinite, FS_AddElement
    <3>2. QED
      BY <1>4, <3>1 DEF OwnInv
  <2>11. on_going_task' <= MaxFlying
    <3>1. on_going_task \in Int /\ MaxFlying \in Int
      BY MaxFlyingType DEF IInv, DispatcherInv, DispatcherTypeOK
    <3>2. QED
      BY <1>1, <1>4, <3>1 DEF OwnInv
  <2>12. QED
    BY <1>4, <2>8, <2>9, <2>10, <2>11 DEF OwnInv
<1>5. QED
  BY <1>3, <1>4 DEF DispatcherReadWriter

LEMMA DispatcherOwn ==
  ASSUME IInv, IInv', OwnInv, Dispatcher
  PROVE  OwnInv'
<1>1. CASE DispatcherSubmit
  <2>1. UNCHANGED <<used_blocks, free_blocks, on_going_task>> /\ dpc' = "loop"
    BY <1>1 DEF DispatcherSubmit
  <2>2. QED
    BY <1>1, <2>1, SubmitMoves, OwnMoves
<1>2. CASE \/ DispatcherLoop \/ DispatcherSignal \/ DispatcherStopWorker
           \/ DispatcherJoin
  <2>1. /\ UNCHANGED <<pending, hashing, hasher_tasks, reporter,
                       fin_hasher_tasks, writing>>
        /\ UNCHANGED <<used_blocks, free_blocks, on_going_task>>
        /\ dpc' \notin {"hasher", "writer"}
    BY <1>2 DEF DispatcherLoop, DispatcherSignal, DispatcherStopWorker,
                DispatcherJoin, hasherVars, writerVars, queueVars
  <2>2. used_blocks \cap free_blocks' = {}
    BY <2>1 DEF OwnInv
  <2>3. QED
    BY <2>1, <2>2, OwnStays
<1>3. CASE DispatcherReadHasher
  <2>1. /\ UNCHANGED <<pending, hashing, hasher_tasks, reporter,
                       fin_hasher_tasks, writing>>
        /\ UNCHANGED <<used_blocks, free_blocks, on_going_task>>
        /\ dpc = "hasher"
    BY <1>3 DEF DispatcherReadHasher, hasherVars, writerVars, queueVars
  <2>2. used_blocks \cap free_blocks' = {}
    BY <2>1 DEF OwnInv
  <2>3. QED
    BY <2>1, <2>2, OwnStays
<1>4. QED
  BY <1>1, <1>2, <1>3, PollOwn, ReadWriterOwn DEF Dispatcher

LEMMA HasherOwn ==
  ASSUME IInv, IInv', OwnInv, HasherStep \/ HasherPopNull
  PROVE  OwnInv'
<1>1. CASE HasherPop
  <2>1. UNCHANGED <<used_blocks, free_blocks, on_going_task, dpc>>
    BY <1>1 DEF HasherPop, dispatcherVars
  <2>2. QED
    BY <1>1, <2>1, PopMoves, OwnMoves
<1>2. CASE HasherPush
  <2>1. UNCHANGED <<used_blocks, free_blocks, on_going_task, dpc>>
    BY <1>2 DEF HasherPush, dispatcherVars
  <2>2. QED
    BY <1>2, <2>1, PushMoves, OwnMoves
<1>3. CASE HasherLoop \/ HasherPlot \/ HasherCount \/ HasherPopNull
  <2>1. /\ UNCHANGED <<pending, hashing, hasher_tasks, reporter,
                       fin_hasher_tasks, writing>>
        /\ UNCHANGED <<used_blocks, free_blocks, on_going_task, dpc>>
    BY <1>3 DEF HasherLoop, HasherPlot, HasherCount, HasherPopNull,
                dispatcherVars, writerVars, queueVars
  <2>2. used_blocks \cap free_blocks' = {}
    BY <2>1 DEF OwnInv
  <2>3. QED
    BY <2>1, <2>2, OwnStays
<1>4. QED
  BY <1>1, <1>2, <1>3 DEF HasherStep

LEMMA WriterOwn ==
  ASSUME IInv, IInv', OwnInv, NEW w \in Writers, WriterStep(w) \/ WriterPopNull(w)
  PROVE  OwnInv'
<1>1. CASE WriterPop(w)
  <2>1. UNCHANGED <<used_blocks, free_blocks, on_going_task, dpc>>
    BY <1>1 DEF WriterPop, dispatcherVars
  <2>2. QED
    BY <1>1, <2>1, WriterPopMoves, OwnMoves
<1>2. CASE WriterReport(w)
  <2>1. UNCHANGED <<used_blocks, free_blocks, on_going_task, dpc>>
    BY <1>2 DEF WriterReport, dispatcherVars
  <2>2. QED
    BY <1>2, <2>1, ReportMoves, OwnMoves
<1>3. CASE \/ WriterLoop(w) \/ WriterOpen(w) \/ WriterWrite(w)
           \/ WriterRetry(w) \/ WriterSubmit(w) \/ WriterPopNull(w)
  <2>1. /\ UNCHANGED <<pending, hashing, hasher_tasks, reporter,
                       fin_hasher_tasks, writing>>
        /\ UNCHANGED <<used_blocks, free_blocks, on_going_task, dpc>>
    BY <1>3 DEF WriterLoop, WriterOpen, WriterWrite, WriterRetry,
                WriterSubmit, WriterPopNull, dispatcherVars, hasherVars,
                queueVars
  <2>2. used_blocks \cap free_blocks' = {}
    BY <2>1 DEF OwnInv
  <2>3. QED
    BY <2>1, <2>2, OwnStays
<1>4. QED
  BY <1>1, <1>2, <1>3 DEF WriterStep

LEMMA NextOwn == IInv /\ IInv' /\ OwnInv /\ [Next]_vars => OwnInv'
<1> SUFFICES ASSUME IInv, IInv', OwnInv, [Next]_vars PROVE OwnInv'
  OBVIOUS
<1>1. CASE UserSignal \/ UNCHANGED vars
  <2>1. /\ UNCHANGED <<pending, hashing, hasher_tasks, reporter,
                       fin_hasher_tasks, writing>>
        /\ UNCHANGED <<used_blocks, free_blocks, on_going_task, dpc>>
    BY <1>1 DEF UserSignal, vars, dispatcherVars, hasherVars, writerVars,
                queueVars
  <2>2. used_blocks \cap free_blocks' = {}
    BY <2>1 DEF OwnInv
  <2>3. QED
    BY <2>1, <2>2, OwnStays
<1>2. QED
  BY <1>1, DispatcherOwn, HasherOwn, WriterOwn DEF Next

LEMMA OwnInvariance == Spec => [](IInv /\ OwnInv)
BY Invariance, InitOwn, NextOwn, PTL DEF Spec

-----------------------------------------------------------------------------
(* The theorems                                                            *)

LEMMA SlotIs ==
  ASSUME NEW s \in Slots
  PROVE  /\ s[1] \in Places /\ s[2] \in 1 .. Len(Flight[s[1]])
         /\ s = <<s[1], s[2]>>
         /\ TaskIn(s) = Flight[s[1]][s[2]]
BY DEF Slots, TaskIn, Flight

LEMMA SlotOf ==
  ASSUME NEW p \in Places, NEW i \in 1 .. Len(Flight[p])
  PROVE  <<p, i>> \in Slots /\ TaskIn(<<p, i>>) = Flight[p][i]
BY DEF Slots, TaskIn, Flight

LEMMA SlotBlocks ==
  ASSUME IInv, OwnInv
  PROVE  /\ \A s, t \in Slots : TaskIn(s).block = TaskIn(t).block => s = t
         /\ used_blocks = {TaskIn(s).block : s \in Slots}
<1>1. ASSUME NEW s \in Slots, NEW t \in Slots,
             TaskIn(s).block = TaskIn(t).block
      PROVE  s = t
  <2>1. s[1] = t[1] /\ s[2] = t[2]
    BY <1>1, SlotIs DEF OwnInv, Distinct
  <2>2. QED
    BY <2>1, SlotIs
<1>2. \A s \in Slots : TaskIn(s).block \in used_blocks
  <2> SUFFICES ASSUME NEW s \in Slots PROVE TaskIn(s).block \in used_blocks
    OBVIOUS
  <2>1. TaskIn(s).block \in Blocks
    BY FlightType, SlotIs, FlightElement
  <2>2. QED
    BY <2>1, SlotIs DEF OwnInv, Held
<1>3. \A b \in used_blocks : \E s \in Slots : TaskIn(s).block = b
  <2> SUFFICES ASSUME NEW b \in used_blocks
               PROVE  \E s \in Slots : TaskIn(s).block = b
    OBVIOUS
  <2>1. PICK p \in Places : \E i \in 1 .. Len(Flight[p]) :
                              Flight[p][i].block = b
    BY DEF OwnInv, Held
  <2>2. PICK i \in 1 .. Len(Flight[p]) : Flight[p][i].block = b
    BY <2>1
  <2>3. QED
    BY <2>2, SlotOf
<1>4. QED
  BY <1>1, <1>2, <1>3

\* No two tasks in flight share a block, and the blocks counted as used are
\* theirs (plotter.cpp:225 and 266-275, paged_block.h:80-117).
THEOREM BlocksAreOwned == Spec => []BlockOwnership
<1>1. IInv /\ OwnInv => BlockOwnership
  BY SlotBlocks DEF BlockOwnership, OwnInv
<1>2. QED
  BY <1>1, OwnInvariance, PTL

\* on_going_task counts the tasks in flight and the used blocks, and never
\* passes max_flying_tasks (plotter.cpp:228, 252 and 279).
THEOREM FlightIsAccounted == Spec => []FlightAccounting
<1>1. ASSUME IInv, OwnInv PROVE Cardinality(Slots) = Cardinality(used_blocks)
  <2> DEFINE f == [s \in Slots |-> TaskIn(s).block]
  <2>1. f \in Injection(Slots, used_blocks)
    BY <1>1, SlotBlocks DEF Injection, IsInjective
  <2>2. f \in Surjection(Slots, used_blocks)
    BY <1>1, SlotBlocks DEF Surjection
  <2> HIDE DEF f
  <2>3. QED
    BY <1>1, <2>1, <2>2, UsedFinite, FS_Injection
<1>2. IInv /\ OwnInv => FlightAccounting
  BY <1>1 DEF FlightAccounting, OwnInv
<1>3. QED
  BY <1>2, OwnInvariance, PTL

-----------------------------------------------------------------------------
(* What the blocks hold                                                    *)

\* The first n nonces of task t are in its block when the blocks hold m.
Has(m, t, n) == \A k \in 0 .. n - 1 : m[t.block][k] = t.sn + k

\* All tasks at place p of A are whole in their blocks.
AllHas(m, A, p) == \A i \in 1 .. Len(A[p]) : Has(m, A[p][i], A[p][i].nonces)

HashedPlaces ==
  {<<"reporter", 0>>} \cup ({"fin_hasher_tasks", "writing"} \X Writers)

IntactInv ==
  ~HashOff =>
    /\ \A p \in HashedPlaces : AllHas(mem, Flight, p)
    /\ hpc = "plot" => Has(mem, hashing[1], hashed)
    /\ hpc = "push" => Has(mem, hashing[1], hashing[1].nonces)

LEMMA HashedPlacesAre ==
  /\ HashedPlaces \subseteq Places
  /\ <<"reporter", 0>> \in HashedPlaces
  /\ \A w \in Writers : /\ <<"fin_hasher_tasks", w>> \in HashedPlaces
                        /\ <<"writing", w>> \in HashedPlaces
  /\ \A p \in HashedPlaces :
       \/ p = <<"reporter", 0>>
       \/ \E w \in Writers : p \in {<<"fin_hasher_tasks", w>>, <<"writing", w>>}
BY DEF HashedPlaces, Places

\* The contents of a place lose their first task, or gain a last one that is
\* whole in its block.
LEMMA HasTail ==
  ASSUME NEW m, NEW A \in Flights, NEW B \in Flights, NEW p \in Places,
         AllHas(m, A, p), A[p] # <<>>, B[p] = Tail(A[p])
  PROVE  /\ AllHas(m, B, p)
         /\ Has(m, Head(A[p]), Head(A[p]).nonces)
<1>1. A[p] \in Seq(Task)
  BY DEF Flights
<1>2. /\ Len(Tail(A[p])) = Len(A[p]) - 1
      /\ \A i \in 1 .. Len(Tail(A[p])) : Tail(A[p])[i] = A[p][i + 1]
      /\ Len(A[p]) \in Nat \ {0}
      /\ Head(A[p]) = A[p][1]
  BY <1>1, HeadTailProperties, EmptySeq
<1>3. AllHas(m, B, p)
  <2> SUFFICES ASSUME NEW i \in 1 .. Len(Tail(A[p]))
               PROVE  Has(m, Tail(A[p])[i], Tail(A[p])[i].nonces)
    BY DEF AllHas
  <2>1. i + 1 \in 1 .. Len(A[p]) /\ Tail(A[p])[i] = A[p][i + 1]
    BY <1>2
  <2>2. QED
    BY <2>1 DEF AllHas
<1>4. Has(m, Head(A[p]), Head(A[p]).nonces)
  <2>1. 1 \in 1 .. Len(A[p])
    BY <1>2
  <2>2. QED
    BY <1>2, <2>1 DEF AllHas
<1>5. QED
  BY <1>3, <1>4

LEMMA HasAppend ==
  ASSUME NEW m, NEW A \in Flights, NEW B \in Flights, NEW p \in Places,
         NEW t \in Task,
         AllHas(m, A, p), Has(m, t, t.nonces), B[p] = Append(A[p], t)
  PROVE  AllHas(m, B, p)
<1> DEFINE n == Len(A[p])
<1>1. A[p] \in Seq(Task)
  BY DEF Flights
<1>2. /\ Len(B[p]) = n + 1 /\ n \in Nat
      /\ \A i \in 1 .. n : B[p][i] = A[p][i]
      /\ B[p][n + 1] = t
  BY <1>1, AppendProperties, LenProperties
<1>3. \A i \in 1 .. n + 1 : i \in 1 .. n \/ i = n + 1
  <2> HIDE DEF n
  <2>1. QED
    BY <1>2
<1>4. QED
  BY <1>2, <1>3 DEF AllHas

LEMMA InitIntact == Init => IntactInv
<1> SUFFICES ASSUME Init PROVE IntactInv
  OBVIOUS
<1>1. /\ reporter = <<>> /\ hpc = "loop"
      /\ \A w \in Writers : fin_hasher_tasks[w] = <<>> /\ writing[w] = <<>>
  BY DEF Init
<1>2. \A p \in HashedPlaces : Flight[p] = <<>>
  BY <1>1, HashedPlacesAre, FlightAt
<1>3. \A p \in HashedPlaces : AllHas(mem, Flight, p)
  BY <1>2, EmptySeq DEF AllHas
<1>4. QED
  BY <1>1, <1>3 DEF IntactInv

\* A step that leaves blocks and hasher alone, and at each place with hashed
\* tasks keeps them all or takes the first.
LEMMA IntactShrinks ==
  ASSUME IInv, IInv', IntactInv,
         UNCHANGED <<mem, hpc, hashing, hashed>>,
         \A p \in HashedPlaces :
           \/ Flight'[p] = Flight[p]
           \/ Flight[p] # <<>> /\ Flight'[p] = Tail(Flight[p])
  PROVE  IntactInv'
<1> SUFFICES ASSUME ~HashOff PROVE IntactInv'
  BY DEF IntactInv, HashOff
<1>1. Flight \in Flights /\ Flight' \in Flights
  BY FlightType, FlightTypeNext
<1>2. ASSUME NEW p \in HashedPlaces
      PROVE  AllHas(mem', Flight', p)
  <2>1. p \in Places /\ AllHas(mem, Flight, p)
    BY HashedPlacesAre DEF IntactInv
  <2>2. CASE Flight'[p] = Flight[p]
    BY <2>1, <2>2 DEF AllHas
  <2>3. CASE Flight[p] # <<>> /\ Flight'[p] = Tail(Flight[p])
    BY <1>1, <2>1, <2>3, HasTail
  <2>4. QED
    BY <2>2, <2>3
<1>3. QED
  BY <1>2 DEF IntactInv

\* A step that moves a whole task to one of these places.
LEMMA IntactMoves ==
  ASSUME IInv, IInv', IntactInv, mem' = mem, NEW b \in HashedPlaces,
         NEW t \in Task, ~HashOff => Has(mem, t, t.nonces),
         Flight'[b] = Append(Flight[b], t),
         \A p \in HashedPlaces \ {b} :
           \/ Flight'[p] = Flight[p]
           \/ Flight[p] # <<>> /\ Flight'[p] = Tail(Flight[p]),
         UNCHANGED <<hpc, hashing, hashed>> \/ hpc' = "count"
  PROVE  IntactInv'
<1> SUFFICES ASSUME ~HashOff PROVE IntactInv'
  BY DEF IntactInv, HashOff
<1>1. Flight \in Flights /\ Flight' \in Flights
  BY FlightType, FlightTypeNext
<1>2. ASSUME NEW p \in HashedPlaces
      PROVE  AllHas(mem', Flight', p)
  <2>1. p \in Places /\ AllHas(mem, Flight, p)
    BY HashedPlacesAre DEF IntactInv
  <2>2. CASE p # b /\ Flight'[p] = Flight[p]
    BY <2>1, <2>2 DEF AllHas
  <2>3. CASE Flight[p] # <<>> /\ Flight'[p] = Tail(Flight[p])
    BY <1>1, <2>1, <2>3, HasTail
  <2>4. CASE p = b
    BY <1>1, <2>1, <2>4, HasAppend
  <2>5. QED
    BY <2>2, <2>3, <2>4
<1>3. QED
  BY <1>2 DEF IntactInv

LEMMA DispatcherIntact ==
  ASSUME IInv, IInv', IntactInv, Dispatcher
  PROVE  IntactInv'
<1>1. UNCHANGED <<hasherVars, fin_hasher_tasks, writing>>
  BY DEF Dispatcher, DispatcherLoop, DispatcherPoll, DispatcherReadHasher,
         DispatcherReadWriter, DispatcherSubmit, DispatcherSignal,
         DispatcherStopWorker, DispatcherJoin, writerVars, queueVars
<1>2. reporter' = reporter \/ (reporter # <<>> /\ reporter' = Tail(reporter))
  BY DEF Dispatcher, DispatcherLoop, DispatcherPoll, DispatcherReadHasher,
         DispatcherReadWriter, DispatcherSubmit, DispatcherSignal,
         DispatcherStopWorker, DispatcherJoin, queueVars
<1>3. ASSUME NEW p \in HashedPlaces
      PROVE  \/ Flight'[p] = Flight[p]
             \/ Flight[p] # <<>> /\ Flight'[p] = Tail(Flight[p])
  <2>1. CASE p = <<"reporter", 0>>
    BY <1>2, <2>1, FlightAt, FlightAtNext
  <2>2. ASSUME NEW w \in Writers,
               p \in {<<"fin_hasher_tasks", w>>, <<"writing", w>>}
        PROVE  Flight'[p] = Flight[p]
    BY <1>1, <2>2, FlightAt, FlightAtNext
  <2>3. QED
    BY <2>1, <2>2, HashedPlacesAre
<1>4. UNCHANGED <<mem, hpc, hashing, hashed>>
  BY <1>1 DEF hasherVars
<1>5. QED
  BY <1>3, <1>4, IntactShrinks

LEMMA HashedStaysAt ==
  ASSUME NEW p \in HashedPlaces,
         p = <<"reporter", 0>> => reporter' = reporter,
         \A w \in Writers :
           /\ p = <<"fin_hasher_tasks", w>> =>
                fin_hasher_tasks'[w] = fin_hasher_tasks[w]
           /\ p = <<"writing", w>> => writing'[w] = writing[w]
  PROVE  Flight'[p] = Flight[p]
<1>1. CASE p = <<"reporter", 0>>
  BY <1>1, FlightAt, FlightAtNext
<1>2. ASSUME NEW w \in Writers,
             p \in {<<"fin_hasher_tasks", w>>, <<"writing", w>>}
      PROVE  Flight'[p] = Flight[p]
  BY ZenonT(40), <1>2, FlightAt, FlightAtNext
<1>3. QED
  BY <1>1, <1>2, HashedPlacesAre

LEMMA HashedStay ==
  ASSUME UNCHANGED <<reporter, fin_hasher_tasks, writing>>
  PROVE  \A p \in HashedPlaces : Flight'[p] = Flight[p]
BY HashedStaysAt

\* The hasher writes to the block of its task only, and what it had hashed of
\* the task stays.
LEMMA PlotIntact ==
  ASSUME IInv, OwnInv, IntactInv, HasherPlot
  PROVE  IntactInv'
<1> SUFFICES ASSUME ~HashOff PROVE IntactInv'
  BY DEF IntactInv, HashOff
<1> DEFINE t == hashing[1]
           n == Smaller(t.nonces - hashed, GlobalWorkSize)
           h == <<"hashing", 0>>
<1>1. /\ hpc = "plot"
      /\ mem' = [mem EXCEPT ![t.block] =
                   [k \in 0 .. WorkSize - 1 |->
                      IF k - hashed \in 0 .. n - 1 THEN t.sn + k
                      ELSE IF k - hashed \in n .. GlobalWorkSize - 1
                           THEN Garbage
                           ELSE @[k]]]
      /\ hashed' = hashed + n
      /\ hpc' = IF hashed + n = t.nonces THEN "push" ELSE "plot"
      /\ hashing' = hashing
  BY DEF HasherPlot
<1>2. UNCHANGED <<reporter, fin_hasher_tasks, writing>>
  BY DEF HasherPlot, writerVars, queueVars
<1>3. /\ hashing \in Seq(Task) /\ Len(hashing) = 1
      /\ hashed \in Nat /\ hashed < t.nonces
      /\ mem \in [Blocks -> [0 .. WorkSize - 1 -> Nat \cup {Garbage}]]
  BY <1>1 DEF IInv, HasherInv, HasherTypeOK, HasherStage
<1>4. t \in Task
  BY <1>3, Singleton
<1> HIDE DEF t
<1>5. /\ t.block \in Blocks /\ t.sn \in Nat
      /\ t.nonces \in Nat /\ t.nonces <= WorkSize
  BY <1>4, TaskType, WorkSizeType
<1>6. n \in Nat /\ hashed + n <= t.nonces
  <2>1. t.nonces - hashed \in Nat
    BY <1>3, <1>5
  <2>2. n \in Nat /\ n <= t.nonces - hashed
    BY <2>1, SmallerIs, SizesAssumption
  <2> HIDE DEF n
  <2>3. QED
    BY <1>3, <1>5, <2>2
<1> HIDE DEF n
\* The hasher's own task
<1>7. Has(mem, t, hashed)
  BY <1>1 DEF IntactInv, t
<1>8. Has(mem', t, hashed + n)
  <2> DEFINE m == hashed + n
  <2> SUFFICES ASSUME NEW k \in 0 .. m - 1
               PROVE  mem'[t.block][k] = t.sn + k
    BY DEF Has
  <2>1. k \in 0 .. WorkSize - 1
    BY <1>3, <1>5, <1>6, WorkSizeType
  <2>2. mem'[t.block][k] =
          IF k - hashed \in 0 .. n - 1 THEN t.sn + k
          ELSE IF k - hashed \in n .. GlobalWorkSize - 1
               THEN Garbage
               ELSE mem[t.block][k]
    BY <1>1, <1>3, <1>5, <2>1
  <2>3. CASE k - hashed \in 0 .. n - 1
    BY <2>2, <2>3
  <2>4. CASE ~(k - hashed \in 0 .. n - 1)
    <3>1. k \in 0 .. hashed - 1 /\ ~(k - hashed \in n .. GlobalWorkSize - 1)
      BY <1>3, <1>6, <2>4, SizesAssumption
    <3>2. mem[t.block][k] = t.sn + k
      BY <1>7, <3>1 DEF Has
    <3>3. QED
      BY <2>2, <2>4, <3>1, <3>2
  <2>5. QED
    BY <2>3, <2>4
<1>9. /\ hpc' = "plot" => Has(mem', hashing'[1], hashed')
      /\ hpc' = "push" => Has(mem', hashing'[1], hashing'[1].nonces)
  <2>1. hashing'[1] = t
    BY <1>1 DEF t
  <2>2. hpc' = "push" => hashed + n = t.nonces
    BY <1>1
  <2>3. hashed' = hashed + n
    BY <1>1
  <2>4. QED
    BY <1>8, <2>1, <2>2, <2>3
\* The tasks already hashed
<1>10. ASSUME NEW p \in HashedPlaces, NEW i \in 1 .. Len(Flight[p])
       PROVE  Flight[p][i].block # t.block
  <2>1. p \in Places /\ h \in Places /\ p # h
    BY HashedPlacesAre, PlacesAre
  <2>2. Flight[h] = hashing
    BY FlightAt
  <2> HIDE DEF h
  <2>3. 1 \in 1 .. Len(Flight[h]) /\ Flight[h][1] = t
    <3>1. Len(hashing) = 1 /\ 1 \in 1 .. 1
      BY <1>3
    <3>2. Len(Flight[h]) = 1
      BY <2>2, <3>1
    <3>3. Flight[h][1] = hashing[1]
      BY <2>2
    <3>4. QED
      BY <3>1, <3>2, <3>3 DEF t
  <2>4. QED
    BY <2>1, <2>3 DEF OwnInv, Distinct
<1>11. ASSUME NEW p \in HashedPlaces
       PROVE  AllHas(mem', Flight', p)
  <2>1. Flight'[p] = Flight[p] /\ p \in Places
    BY <1>2, HashedStay, HashedPlacesAre
  <2> SUFFICES ASSUME NEW i \in 1 .. Len(Flight[p])
               PROVE  Has(mem', Flight[p][i], Flight[p][i].nonces)
    BY <2>1 DEF AllHas
  <2>2. Flight[p][i].block \in Blocks
    BY <2>1, FlightType, FlightElement
  <2>3. mem'[Flight[p][i].block] = mem[Flight[p][i].block]
    BY <1>1, <1>3, <1>10, <2>2
  <2>4. Has(mem, Flight[p][i], Flight[p][i].nonces)
    BY DEF IntactInv, AllHas
  <2>5. QED
    BY <2>3, <2>4 DEF Has
<1>12. QED
  BY <1>9, <1>11 DEF IntactInv

LEMMA HasherIntact ==
  ASSUME IInv, IInv', OwnInv, IntactInv, HasherStep \/ HasherPopNull
  PROVE  IntactInv'
<1>1. CASE HasherPush
  <2> DEFINE t == hashing[1]
             w == t.file[1]
             b == <<"fin_hasher_tasks", w>>
  <2>1. /\ hpc = "push"
        /\ fin_hasher_tasks' = [fin_hasher_tasks EXCEPT ![w] = @ \o hashing]
        /\ hpc' = "count"
        /\ UNCHANGED <<mem, reporter, writing>>
    BY <1>1 DEF HasherPush, writerVars
  <2>2. /\ hashing \in Seq(Task) /\ Len(hashing) = 1
        /\ fin_hasher_tasks \in [Writers -> Seq(Task)]
    BY <2>1 DEF IInv, HasherInv, HasherTypeOK, HasherStage, QueueTypeOK
  <2>3. t \in Task /\ w \in Writers /\ hashing = <<t>>
    BY <2>2, Singleton, TaskType, FilesAre
  <2>4. ~HashOff => Has(mem, t, t.nonces)
    BY <2>1 DEF IntactInv
  <2> HIDE DEF t, w
  <2>5. /\ fin_hasher_tasks'[w] = Append(fin_hasher_tasks[w], t)
        /\ \A v \in Writers \ {w} : fin_hasher_tasks'[v] = fin_hasher_tasks[v]
    <3>1. fin_hasher_tasks[w] \in Seq(Task)
      BY <2>2, <2>3
    <3>2. /\ fin_hasher_tasks'[w] = fin_hasher_tasks[w] \o hashing
          /\ \A v \in Writers \ {w} : fin_hasher_tasks'[v] = fin_hasher_tasks[v]
      BY <2>1, <2>2, <2>3
    <3>3. hashing # <<>> /\ Head(hashing) = t
      BY <2>3
    <3>4. QED
      BY <2>2, <3>1, <3>2, <3>3, OneTask
  <2>6. b \in HashedPlaces /\ Flight'[b] = Append(Flight[b], t)
    BY <2>3, <2>5, HashedPlacesAre, FlightAt, FlightAtNext
  <2>7. \A p \in HashedPlaces \ {b} : Flight'[p] = Flight[p]
    BY <2>1, <2>5, HashedStaysAt
  <2> HIDE DEF b
  <2>8. QED
    BY <2>1, <2>3, <2>4, <2>6, <2>7, IntactMoves
<1>2. CASE HasherLoop \/ HasherPop \/ HasherCount \/ HasherPopNull
  <2>1. /\ UNCHANGED <<mem, reporter, fin_hasher_tasks, writing>>
        /\ hpc' = "plot" => hashed' = 0
        /\ hpc' = "push" => HashOff
    BY <1>2 DEF HasherLoop, HasherPop, HasherCount, HasherPopNull,
                writerVars, queueVars
  <2>2. \A p \in HashedPlaces : Flight'[p] = Flight[p]
    BY <2>1, HashedStay
  <2> SUFFICES ASSUME ~HashOff PROVE IntactInv'
    BY DEF IntactInv, HashOff
  <2>3. \A p \in HashedPlaces : AllHas(mem', Flight', p)
    BY <2>1, <2>2 DEF IntactInv, AllHas
  <2>4. hpc' = "plot" => Has(mem', hashing'[1], hashed')
    <3>1. \A k \in 0 .. 0 - 1 : FALSE
      OBVIOUS
    <3>2. QED
      BY <2>1, <3>1 DEF Has
  <2>5. hpc' # "push"
    BY <2>1
  <2>6. QED
    BY <2>3, <2>4, <2>5 DEF IntactInv
<1>3. QED
  BY <1>1, <1>2, PlotIntact DEF HasherStep

LEMMA WriterIntact ==
  ASSUME IInv, IInv', IntactInv, NEW w \in Writers,
         WriterStep(w) \/ WriterPopNull(w)
  PROVE  IntactInv'
<1>1. UNCHANGED <<mem, hpc, hashing, hashed>>
  BY DEF WriterStep, WriterLoop, WriterPop, WriterOpen, WriterWrite,
         WriterRetry, WriterSubmit, WriterReport, WriterPopNull, hasherVars
<1>2. CASE WriterPop(w)
  <2> DEFINE a == <<"fin_hasher_tasks", w>>
             b == <<"writing", w>>
             t == Head(fin_hasher_tasks[w])
  <2>1. /\ writing \in [Writers -> Seq(Task)] /\ Len(writing[w]) = 0
        /\ fin_hasher_tasks \in [Writers -> Seq(Task)]
        /\ fin_hasher_tasks[w] # <<>>
    BY <1>2 DEF WriterPop, IInv, WriterInv, WriterTypeOK, WriterStage,
                QueueTypeOK
  <2>2. /\ writing' = [writing EXCEPT ![w] = <<t>>]
        /\ fin_hasher_tasks' = [fin_hasher_tasks EXCEPT ![w] = Tail(@)]
        /\ reporter' = reporter
    BY <1>2 DEF WriterPop
  <2>3. t \in Task
    BY <2>1, HeadTailProperties
  <2>4. ~HashOff => Has(mem, t, t.nonces)
    <3> SUFFICES ASSUME ~HashOff PROVE Has(mem, t, t.nonces)
      OBVIOUS
    <3>1. a \in HashedPlaces /\ a \in Places /\ Flight[a] = fin_hasher_tasks[w]
      BY HashedPlacesAre, FlightAt
    <3>2. AllHas(mem, Flight, a)
      BY <3>1 DEF IntactInv
    <3>3. 1 \in 1 .. Len(fin_hasher_tasks[w]) /\ t = fin_hasher_tasks[w][1]
      BY <2>1, EmptySeq, HeadTailProperties
    <3> HIDE DEF a, t
    <3>4. QED
      BY <3>1, <3>2, <3>3 DEF AllHas
  <2> HIDE DEF t
  <2>5. writing'[w] = Append(writing[w], t)
    <3>1. writing'[w] = <<t>>
      BY <2>1, <2>2
    <3>2. QED
      BY <2>1, <2>3, <3>1, NoTask
  <2>6. /\ fin_hasher_tasks'[w] = Tail(fin_hasher_tasks[w])
        /\ \A v \in Writers \ {w} : /\ writing'[v] = writing[v]
                                    /\ fin_hasher_tasks'[v] = fin_hasher_tasks[v]
    BY <2>1, <2>2
  <2>7. b \in HashedPlaces /\ Flight'[b] = Append(Flight[b], t)
    BY <2>5, HashedPlacesAre, FlightAt, FlightAtNext
  <2>8. ASSUME NEW p \in HashedPlaces \ {b}
        PROVE  \/ Flight'[p] = Flight[p]
               \/ Flight[p] # <<>> /\ Flight'[p] = Tail(Flight[p])
    <3>1. CASE p = a
      BY <2>1, <2>6, <3>1, FlightAt, FlightAtNext
    <3>2. CASE p # a
      BY <2>2, <2>6, <3>2, HashedStaysAt
    <3>3. QED
      BY <3>1, <3>2
  <2> HIDE DEF a, b
  <2>9. QED
    BY <1>1, <2>3, <2>4, <2>7, <2>8, IntactMoves
<1>3. CASE WriterReport(w)
  <2> DEFINE a == <<"writing", w>>
             b == <<"reporter", 0>>
             t == writing[w][1]
  <2>1. /\ writing \in [Writers -> Seq(Task)] /\ Len(writing[w]) = 1
        /\ reporter \in Seq(Task)
    BY <1>3 DEF WriterReport, IInv, WriterInv, WriterTypeOK, WriterStage,
                QueueTypeOK
  <2>2. /\ writing' = [writing EXCEPT ![w] = <<>>]
        /\ reporter' = reporter \o writing[w]
        /\ fin_hasher_tasks' = fin_hasher_tasks
    BY <1>3 DEF WriterReport
  <2>3. t \in Task /\ writing[w] = <<t>> /\ writing[w] # <<>>
    BY <2>1, Singleton
  <2>4. ~HashOff => Has(mem, t, t.nonces)
    <3> SUFFICES ASSUME ~HashOff PROVE Has(mem, t, t.nonces)
      OBVIOUS
    <3>1. a \in HashedPlaces /\ Flight[a] = writing[w]
      BY HashedPlacesAre, FlightAt
    <3>2. AllHas(mem, Flight, a)
      BY <3>1 DEF IntactInv
    <3>3. 1 \in 1 .. Len(writing[w])
      BY <2>1
    <3> HIDE DEF a
    <3>4. QED
      BY <3>1, <3>2, <3>3 DEF AllHas
  <2> HIDE DEF t
  <2>5. /\ writing'[w] = Tail(writing[w])
        /\ reporter' = Append(reporter, t)
        /\ \A v \in Writers \ {w} : writing'[v] = writing[v]
    <3>1. writing[w] \in Seq(Task) /\ Head(writing[w]) = t
      BY <2>1, <2>3
    <3>2. writing'[w] = <<>> /\ \A v \in Writers \ {w} : writing'[v] = writing[v]
      BY <2>1, <2>2
    <3>3. QED
      BY <2>1, <2>2, <2>3, <3>1, <3>2, OneTask
  <2>6. b \in HashedPlaces /\ Flight'[b] = Append(Flight[b], t)
    BY <2>5, HashedPlacesAre, FlightAt, FlightAtNext
  <2>7. ASSUME NEW p \in HashedPlaces \ {b}
        PROVE  \/ Flight'[p] = Flight[p]
               \/ Flight[p] # <<>> /\ Flight'[p] = Tail(Flight[p])
    <3>1. CASE p = a
      BY <2>3, <2>5, <3>1, FlightAt, FlightAtNext
    <3>2. CASE p # a
      BY <2>2, <2>5, <3>2, HashedStaysAt
    <3>3. QED
      BY <3>1, <3>2
  <2> HIDE DEF a, b
  <2>8. QED
    BY <1>1, <2>3, <2>4, <2>6, <2>7, IntactMoves
<1>4. CASE \/ WriterLoop(w) \/ WriterOpen(w) \/ WriterWrite(w)
           \/ WriterRetry(w) \/ WriterSubmit(w) \/ WriterPopNull(w)
  <2>1. UNCHANGED <<reporter, fin_hasher_tasks, writing>>
    BY <1>4 DEF WriterLoop, WriterOpen, WriterWrite, WriterRetry,
                WriterSubmit, WriterPopNull, queueVars
  <2>2. QED
    BY <1>1, <2>1, HashedStay, IntactShrinks
<1>5. QED
  BY <1>2, <1>3, <1>4 DEF WriterStep

LEMMA NextIntact ==
  IInv /\ IInv' /\ OwnInv /\ IntactInv /\ [Next]_vars => IntactInv'
<1> SUFFICES ASSUME IInv, IInv', OwnInv, IntactInv, [Next]_vars
             PROVE  IntactInv'
  OBVIOUS
<1>1. CASE UserSignal \/ UNCHANGED vars
  <2>1. /\ UNCHANGED <<mem, hpc, hashing, hashed>>
        /\ UNCHANGED <<reporter, fin_hasher_tasks, writing>>
    BY <1>1 DEF UserSignal, vars, hasherVars, writerVars, queueVars
  <2>2. QED
    BY <2>1, HashedStay, IntactShrinks
<1>2. QED
  BY <1>1, DispatcherIntact, HasherIntact, WriterIntact DEF Next

\* A hashed block keeps the nonces of its task until the dispatcher takes it
\* back, though a batch is always copied whole and blocks are used again
\* (worker_hasher.cpp:32-42, gpu_plotter.h:78).
THEOREM BlocksStayIntact == Spec => []HashedBlockIntact
<1>1. IInv /\ OwnInv /\ IntactInv /\ [Next]_vars /\ IInv' => IntactInv'
  BY NextIntact
<1>2. ASSUME IntactInv PROVE HashedBlockIntact
  <2> SUFFICES ASSUME ~HashOff, NEW s \in Slots,
                      s[1][1] \in {"fin_hasher_tasks", "writing", "reporter"}
               PROVE  Has(mem, TaskIn(s), TaskIn(s).nonces)
    BY DEF HashedBlockIntact, Has
  <2>1. /\ s[1] \in Places /\ s[2] \in 1 .. Len(Flight[s[1]])
        /\ TaskIn(s) = Flight[s[1]][s[2]]
    BY SlotIs
  <2>2. s[1] \in HashedPlaces
    BY <2>1 DEF Places, HashedPlaces
  <2>3. QED
    BY <1>2, <2>1, <2>2 DEF IntactInv, AllHas
<1>3. IntactInv => HashedBlockIntact
  BY <1>2
<1>4. QED
  BY <1>1, <1>3, InitIntact, OwnInvariance, PTL DEF Spec
=============================================================================
