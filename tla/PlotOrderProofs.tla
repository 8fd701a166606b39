--------------------------- MODULE PlotOrderProofs ---------------------------
(***************************************************************************)
(* Proofs about the order of the tasks of a writer, for any plan and any   *)
(* interleaving: its files are cut front to back, the tasks pass two       *)
(* queues, the hasher and the writer in the order they were cut in, and so *)
(* a writer starts on a task when all before it of its files is submitted. *)
(*                                                                         *)
(* The invariant orders all slots of the tasks in flight by how far they   *)
(* are from the reporter; a move of a task to the next place keeps that    *)
(* order.  No two tasks in flight then share a nonce.                      *)
(***************************************************************************)
EXTENDS PlotOwnershipProofs

\* How many places a task at p has yet to pass before the reporter.
Stage(p) ==
  CASE p[1] = "reporter"         -> 0
    [] p[1] = "writing"          -> 1
    [] p[1] = "fin_hasher_tasks" -> 2
    [] p[1] = "hashing"          -> 3
    [] p[1] = "hasher_tasks"     -> 4
    [] p[1] = "pending"          -> 5

Ahead(p, i, q, j) == Stage(p) < Stage(q) \/ (p = q /\ i < j)

\* Task t is of an earlier file than u, or of an earlier part of its file.
Earlier(t, u) ==
  \/ t.file[2] < u.file[2]
  \/ t.file = u.file /\ t.sn + t.nonces <= u.sn

WriterPlaces == {"fin_hasher_tasks", "writing"} \X Writers

\* A writer has only tasks of its own files.
AtHome(A) ==
  \A p \in WriterPlaces : \A i \in 1 .. Len(A[p]) : A[p][i].file[1] = p[2]

\* Of two tasks of a writer, the one ahead is the earlier one.
Ordered(A) ==
  \A p, q \in Places : \A i \in 1 .. Len(A[p]), j \in 1 .. Len(A[q]) :
    A[p][i].file[1] = A[q][j].file[1] /\ Ahead(p, i, q, j)
      => Earlier(A[p][i], A[q][j])

-----------------------------------------------------------------------------
(* The order of the slots                                                  *)

LEMMA StageIs ==
  /\ Stage(<<"pending", 0>>) = 5
  /\ Stage(<<"hasher_tasks", 0>>) = 4
  /\ Stage(<<"hashing", 0>>) = 3
  /\ \A w \in Writers : /\ Stage(<<"fin_hasher_tasks", w>>) = 2
                        /\ Stage(<<"writing", w>>) = 1
  /\ Stage(<<"reporter", 0>>) = 0
BY DEF Stage

LEMMA WriterPlacesAre ==
  /\ WriterPlaces \subseteq Places
  /\ \A w \in Writers : /\ <<"fin_hasher_tasks", w>> \in WriterPlaces
                        /\ <<"writing", w>> \in WriterPlaces
  /\ {<<"pending", 0>>, <<"hashing", 0>>, <<"hasher_tasks", 0>>,
      <<"reporter", 0>>} \cap WriterPlaces = {}
BY DEF WriterPlaces, Places

LEMMA PlaceIs ==
  ASSUME NEW p \in Places
  PROVE  /\ p = <<p[1], p[2]>>
         /\ \/ /\ p[1] \in {"pending", "hashing", "hasher_tasks", "reporter"}
               /\ p[2] = 0
            \/ /\ p[1] \in {"fin_hasher_tasks", "writing"}
               /\ p \in WriterPlaces
BY DEF Places, WriterPlaces

LEMMA StageType == \A p \in Places : Stage(p) \in 0 .. 5
BY PlaceIs DEF Stage

\* Two places as far from the reporter are of two writers.
LEMMA SameStage ==
  ASSUME NEW p \in Places, NEW q \in Places, Stage(p) = Stage(q), p # q
  PROVE  p \in WriterPlaces /\ q \in WriterPlaces /\ p[2] # q[2]
<1>1. p[1] = q[1]
  BY PlaceIs DEF Stage
<1>2. p[2] # q[2]
  BY <1>1, PlaceIs
<1>3. QED
  BY <1>1, <1>2, PlaceIs

LEMMA Comparable ==
  ASSUME NEW A \in Flights, AtHome(A), Ordered(A),
         NEW p \in Places, NEW q \in Places,
         NEW i \in 1 .. Len(A[p]), NEW j \in 1 .. Len(A[q]),
         A[p][i].file[1] = A[q][j].file[1], ~(p = q /\ i = j)
  PROVE  Earlier(A[p][i], A[q][j]) \/ Earlier(A[q][j], A[p][i])
<1>1. Stage(p) = Stage(q) => p = q
  BY SameStage DEF AtHome
<1>2. Stage(p) \in Int /\ Stage(q) \in Int
  BY StageType
<1>3. Ahead(p, i, q, j) \/ Ahead(q, j, p, i)
  BY <1>1, <1>2 DEF Ahead
<1>4. QED
  BY <1>3 DEF Ordered

\* The slot of A that a slot of B comes from when the first task of place a
\* leaves and nothing comes.
LEMMA TakeOrder ==
  ASSUME NEW A \in Flights, NEW B \in Flights, NEW a \in Places,
         A[a] # <<>>,
         B[a] = Tail(A[a]),
         \A p \in Places \ {a} : B[p] = A[p],
         AtHome(A), Ordered(A)
  PROVE  AtHome(B) /\ Ordered(B)
<1> DEFINE n == Len(A[a])
           Old(p, i) == IF p = a THEN i + 1 ELSE i
<1>1. /\ A[a] \in Seq(Task) /\ n \in Nat \ {0}
      /\ Len(B[a]) = n - 1
      /\ \A i \in 1 .. n - 1 : B[a][i] = A[a][i + 1]
  <2>1. A[a] \in Seq(Task)
    BY DEF Flights
  <2>2. QED
    BY <2>1, EmptySeq, HeadTailProperties
<1>2. ASSUME NEW p \in Places, NEW i \in 1 .. Len(B[p])
      PROVE  Old(p, i) \in 1 .. Len(A[p]) /\ B[p][i] = A[p][Old(p, i)]
  <2>1. CASE p = a
    <3>1. i \in 1 .. n - 1
      BY <1>1, <2>1
    <3>2. i + 1 \in 1 .. n
      BY <1>1, <3>1
    <3>3. QED
      BY <1>1, <2>1, <3>1, <3>2
  <2>2. CASE p # a
    BY <2>2
  <2>3. QED
    BY <2>1, <2>2
<1>3. AtHome(B)
  <2> HIDE DEF Old
  <2>1. QED
    BY SMTT(30), <1>2, WriterPlacesAre DEF AtHome
<1>4. Ordered(B)
  <2> SUFFICES ASSUME NEW p \in Places, NEW q \in Places,
                      NEW i \in 1 .. Len(B[p]), NEW j \in 1 .. Len(B[q]),
                      B[p][i].file[1] = B[q][j].file[1], Ahead(p, i, q, j)
               PROVE  Earlier(B[p][i], B[q][j])
    BY DEF Ordered
  <2>1. Ahead(p, Old(p, i), q, Old(q, j))
    BY DEF Ahead
  <2> HIDE DEF Old
  <2>2. /\ Old(p, i) \in 1 .. Len(A[p]) /\ B[p][i] = A[p][Old(p, i)]
        /\ Old(q, j) \in 1 .. Len(A[q]) /\ B[q][j] = A[q][Old(q, j)]
    BY <1>2
  <2>3. QED
    BY ZenonT(40), <2>1, <2>2 DEF Ordered
<1>5. QED
  BY <1>3, <1>4

\* A task comes to the end of place a: the tasks of its writer that are as
\* near to the reporter or nearer are earlier, the others later.
LEMMA AddOrder ==
  ASSUME NEW A \in Flights, NEW B \in Flights, NEW a \in Places,
         NEW t \in Task,
         B[a] = Append(A[a], t),
         \A p \in Places \ {a} : B[p] = A[p],
         AtHome(A), Ordered(A),
         a \in WriterPlaces => t.file[1] = a[2],
         \A p \in Places : \A i \in 1 .. Len(A[p]) :
           A[p][i].file[1] = t.file[1] =>
             /\ Stage(p) < Stage(a) \/ p = a => Earlier(A[p][i], t)
             /\ Stage(a) < Stage(p) => Earlier(t, A[p][i])
  PROVE  AtHome(B) /\ Ordered(B)
<1> DEFINE n == Len(A[a])
<1>1. /\ A[a] \in Seq(Task) /\ n \in Nat
      /\ Len(B[a]) = n + 1
      /\ \A i \in 1 .. n : B[a][i] = A[a][i]
      /\ B[a][n + 1] = t
  <2>1. A[a] \in Seq(Task)
    BY DEF Flights
  <2>2. QED
    BY <2>1, LenProperties, AppendProperties
<1>2. ASSUME NEW p \in Places, NEW i \in 1 .. Len(B[p]),
             ~(p = a /\ i = n + 1)
      PROVE  i \in 1 .. Len(A[p]) /\ B[p][i] = A[p][i]
  <2>1. CASE p = a
    <3>1. i \in 1 .. n + 1 /\ i # n + 1
      BY <1>1, <1>2, <2>1
    <3>2. i \in 1 .. n
      <4>1. n \in Nat
        BY <1>1
      <4> HIDE DEF n
      <4>2. QED
        BY <3>1, <4>1
    <3>3. QED
      BY <1>1, <2>1, <3>2
  <2>2. CASE p # a
    BY <2>2
  <2>3. QED
    BY <2>1, <2>2
<1>3. AtHome(B)
  <2> SUFFICES ASSUME NEW p \in WriterPlaces, NEW i \in 1 .. Len(B[p])
               PROVE  B[p][i].file[1] = p[2]
    BY DEF AtHome
  <2>1. p \in Places
    BY WriterPlacesAre
  <2>2. CASE p = a /\ i = n + 1
    BY <1>1, <2>2
  <2>3. CASE ~(p = a /\ i = n + 1)
    BY <1>2, <2>1, <2>3 DEF AtHome
  <2>4. QED
    BY <2>2, <2>3
<1>4. Ordered(B)
  <2> SUFFICES ASSUME NEW p \in Places, NEW q \in Places,
                      NEW i \in 1 .. Len(B[p]), NEW j \in 1 .. Len(B[q]),
                      B[p][i].file[1] = B[q][j].file[1], Ahead(p, i, q, j)
               PROVE  Earlier(B[p][i], B[q][j])
    BY DEF Ordered
  <2>1. CASE ~(p = a /\ i = n + 1) /\ ~(q = a /\ j = n + 1)
    <3>1. /\ i \in 1 .. Len(A[p]) /\ B[p][i] = A[p][i]
          /\ j \in 1 .. Len(A[q]) /\ B[q][j] = A[q][j]
      BY <1>2, <2>1
    <3>2. QED
      BY <3>1 DEF Ordered
  <2>2. CASE p = a /\ i = n + 1
    <3>1. ~(q = a /\ j = n + 1) /\ Stage(a) < Stage(q)
      <4>1. Len(B[a]) = n + 1 /\ n \in Nat
        BY <1>1
      <4>2. q = a => ~(n + 1 < j)
        BY <4>1
      <4>3. Stage(a) < Stage(q)
        BY <2>2, <4>2 DEF Ahead
      <4>4. q # a
        BY <4>3, StageType
      <4>5. QED
        BY <4>3, <4>4
    <3>2. j \in 1 .. Len(A[q]) /\ B[q][j] = A[q][j]
      BY <1>2, <3>1
    <3>3. B[p][i] = t
      BY <1>1, <2>2
    <3>4. QED
      BY <3>1, <3>2, <3>3
  <2>3. CASE q = a /\ j = n + 1 /\ ~(p = a /\ i = n + 1)
    <3>1. i \in 1 .. Len(A[p]) /\ B[p][i] = A[p][i]
      BY <1>2, <2>3
    <3>2. B[q][j] = t
      BY <1>1, <2>3
    <3>3. Stage(p) < Stage(a) \/ p = a
      BY <2>3 DEF Ahead
    <3>4. QED
      BY <3>1, <3>2, <3>3
  <2>4. QED
    BY <2>1, <2>2, <2>3
<1>5. QED
  BY <1>3, <1>4

\* A task goes on to the next place of its way.
LEMMA MoveOrder ==
  ASSUME NEW A \in Flights, NEW B \in Flights,
         NEW a \in Places, NEW b \in Places, a # b,
         A[a] # <<>>,
         B[a] = Tail(A[a]),
         B[b] = Append(A[b], Head(A[a])),
         \A p \in Places \ {a, b} : B[p] = A[p],
         AtHome(A), Ordered(A),
         Stage(a) = Stage(b) + 1,
         b \in WriterPlaces => Head(A[a]).file[1] = b[2]
  PROVE  AtHome(B) /\ Ordered(B)
<1> DEFINE C == [A EXCEPT ![a] = Tail(A[a])]
           t == Head(A[a])
           n == Len(A[a])
<1>1. /\ A[a] \in Seq(Task) /\ Tail(A[a]) \in Seq(Task)
      /\ n \in Nat \ {0} /\ t = A[a][1] /\ t \in Task
      /\ Len(Tail(A[a])) = n - 1
      /\ \A i \in 1 .. n - 1 : Tail(A[a])[i] = A[a][i + 1]
  <2>1. A[a] \in Seq(Task)
    BY DEF Flights
  <2>2. QED
    BY <2>1, EmptySeq, HeadTailProperties
<1>2. /\ C \in Flights
      /\ C[a] = Tail(A[a])
      /\ \A p \in Places \ {a} : C[p] = A[p]
  BY <1>1 DEF Flights
<1> HIDE DEF C
<1>3. AtHome(C) /\ Ordered(C)
  BY <1>2, TakeOrder
<1>4. B[b] = Append(C[b], t) /\ \A p \in Places \ {b} : B[p] = C[p]
  BY <1>2
<1>5. 1 \in 1 .. n
  BY <1>1
<1>6. ASSUME NEW p \in Places, NEW i \in 1 .. Len(C[p]),
             C[p][i].file[1] = t.file[1]
      PROVE  /\ Stage(p) < Stage(b) \/ p = b => Earlier(C[p][i], t)
             /\ Stage(b) < Stage(p) => Earlier(t, C[p][i])
  <2>1. Stage(p) \in Int /\ Stage(a) \in Int /\ Stage(b) \in Int
    BY StageType
  <2>2. CASE p = a
    <3>1. i \in 1 .. n - 1 /\ C[a][i] = A[a][i + 1]
      BY <1>1, <1>2, <2>2
    <3>2. i + 1 \in 1 .. n /\ 1 < i + 1
      BY <1>1, <3>1
    <3>3. Earlier(t, C[p][i])
      BY <1>1, <1>5, <1>6, <2>2, <3>1, <3>2 DEF Ordered, Ahead
    <3>4. QED
      BY <2>1, <2>2, <3>3
  <2>3. CASE p # a
    <3>1. i \in 1 .. Len(A[p]) /\ C[p][i] = A[p][i]
      BY <1>2, <2>3
    <3>2. Stage(p) # Stage(a)
      <4>1. SUFFICES ASSUME Stage(p) = Stage(a) PROVE FALSE
        OBVIOUS
      <4>2. a \in WriterPlaces /\ p \in WriterPlaces /\ a[2] # p[2]
        BY <2>3, <4>1, SameStage
      <4>3. A[p][i].file[1] = p[2] /\ A[a][1].file[1] = a[2]
        BY <1>5, <3>1, <4>2 DEF AtHome
      <4>4. QED
        BY <1>1, <1>6, <3>1, <4>2, <4>3
    <3>3. CASE Stage(p) < Stage(b) \/ p = b
      <4>1. Ahead(p, i, a, 1) /\ ~(Stage(b) < Stage(p))
        BY <2>1, <3>3 DEF Ahead
      <4>2. Earlier(A[p][i], A[a][1])
        BY <1>1, <1>5, <1>6, <3>1, <4>1 DEF Ordered
      <4>3. QED
        BY <1>1, <3>1, <4>1, <4>2
    <3>4. CASE Stage(b) < Stage(p)
      <4>1. Ahead(a, 1, p, i)
        BY <2>1, <3>2, <3>4 DEF Ahead
      <4>2. Earlier(A[a][1], A[p][i])
        BY <1>1, <1>5, <1>6, <3>1, <4>1 DEF Ordered
      <4>3. ~(Stage(p) < Stage(b)) /\ p # b
        BY <2>1, <3>4
      <4>4. QED
        BY <1>1, <3>1, <4>2, <4>3
    <3>5. QED
      BY <3>3, <3>4
  <2>4. QED
    BY <2>2, <2>3
<1> HIDE DEF t, n
<1>7. t \in Task /\ (b \in WriterPlaces => t.file[1] = b[2])
  BY <1>1 DEF t
<1>8. QED
  BY <1>2, <1>3, <1>4, <1>6, <1>7, AddOrder

-----------------------------------------------------------------------------
(* The tasks at some places                                                *)

Tasks(s) == {s[i] : i \in 1 .. Len(s)}

\* The tasks of A at the places P.
TasksAt(A, P) == UNION {Tasks(A[p]) : p \in P}

LEMMA TasksAppend ==
  ASSUME NEW s \in Seq(Task), NEW t \in Task
  PROVE  Tasks(Append(s, t)) = Tasks(s) \cup {t}
<1> DEFINE n == Len(s)
<1>1. /\ n \in Nat /\ Len(Append(s, t)) = n + 1
      /\ \A i \in 1 .. n : Append(s, t)[i] = s[i]
      /\ Append(s, t)[n + 1] = t
  BY AppendProperties, LenProperties
<1>2. 1 .. n + 1 = (1 .. n) \cup {n + 1}
  <2> HIDE DEF n
  <2>1. QED
    BY <1>1
<1>3. QED
  BY <1>1, <1>2 DEF Tasks

LEMMA TasksTail ==
  ASSUME NEW s \in Seq(Task), s # <<>>
  PROVE  /\ Head(s) \in Task
         /\ Head(s) = s[1] /\ 1 \in 1 .. Len(s)
         /\ Tasks(s) = Tasks(Tail(s)) \cup {Head(s)}
<1> DEFINE n == Len(s)
<1>1. /\ n \in Nat \ {0} /\ Len(Tail(s)) = n - 1
      /\ \A i \in 1 .. n - 1 : Tail(s)[i] = s[i + 1]
      /\ Head(s) = s[1] /\ Head(s) \in Task
  BY HeadTailProperties, EmptySeq
<1>2. 1 \in 1 .. n /\ \A i \in 1 .. n : i = 1 \/ i - 1 \in 1 .. n - 1
  <2> HIDE DEF n
  <2>1. QED
    BY <1>1
<1>3. \A i \in 1 .. n - 1 : i + 1 \in 1 .. n
  <2> HIDE DEF n
  <2>1. QED
    BY <1>1
<1>4. ASSUME NEW i \in 1 .. n, i # 1
      PROVE  s[i] \in Tasks(Tail(s))
  <2>1. i - 1 \in 1 .. n - 1 /\ (i - 1) + 1 = i
    BY <1>2, <1>4
  <2>2. Tail(s)[i - 1] = s[i]
    BY <1>1, <2>1
  <2>3. QED
    BY <1>1, <2>1, <2>2 DEF Tasks
<1>5. Tasks(s) \subseteq Tasks(Tail(s)) \cup {Head(s)}
  BY <1>1, <1>4 DEF Tasks
<1>6. Tasks(Tail(s)) \subseteq Tasks(s)
  BY <1>1, <1>3 DEF Tasks
<1>7. Head(s) \in Tasks(s)
  BY <1>1, <1>2 DEF Tasks
<1>8. QED
  BY <1>1, <1>2, <1>5, <1>6, <1>7

LEMMA TasksType ==
  ASSUME NEW A \in Flights, NEW P \in SUBSET Places, NEW t \in TasksAt(A, P)
  PROVE  /\ t \in Task
         /\ \E p \in P : \E i \in 1 .. Len(A[p]) : A[p][i] = t
<1>1. PICK p \in P : \E i \in 1 .. Len(A[p]) : A[p][i] = t
  BY DEF TasksAt, Tasks
<1>2. QED
  BY <1>1, FlightElement

LEMMA TaskAt ==
  ASSUME NEW A, NEW P, NEW p \in P, NEW i \in 1 .. Len(A[p])
  PROVE  A[p][i] \in TasksAt(A, P)
BY DEF TasksAt, Tasks

\* A move within P leaves the tasks at P the same.
LEMMA TasksMove ==
  ASSUME IInv, NEW a, NEW b, Moves(a, b),
         NEW P \in SUBSET Places, a \in P, b \in P
  PROVE  TasksAt(Flight', P) = TasksAt(Flight, P)
<1> DEFINE h == Head(Flight[a])
<1>1. Flight[a] \in Seq(Task) /\ Flight[b] \in Seq(Task)
  BY FlightType DEF Flights, Moves
<1>2. /\ h \in Task
      /\ Tasks(Flight[a]) = Tasks(Flight'[a]) \cup {h}
      /\ Tasks(Flight'[b]) = Tasks(Flight[b]) \cup {h}
  <2>1. h \in Task /\ Tasks(Flight[a]) = Tasks(Flight'[a]) \cup {h}
    BY <1>1, TasksTail DEF Moves
  <2>2. QED
    BY <1>1, <2>1, TasksAppend DEF Moves
<1> HIDE DEF h
<1>3. \A p \in P \ {a, b} : Tasks(Flight'[p]) = Tasks(Flight[p])
  BY DEF Moves
<1>4. QED
  BY <1>2, <1>3 DEF TasksAt

LEMMA TasksEnter ==
  ASSUME IInv, NEW a, NEW t \in Task, Enters(a, t),
         NEW P \in SUBSET Places, a \in P
  PROVE  TasksAt(Flight', P) = TasksAt(Flight, P) \cup {t}
<1>1. Flight[a] \in Seq(Task)
  BY FlightType DEF Flights, Enters
<1>2. Tasks(Flight'[a]) = Tasks(Flight[a]) \cup {t}
  BY <1>1, TasksAppend DEF Enters
<1>3. \A p \in P \ {a} : Tasks(Flight'[p]) = Tasks(Flight[p])
  BY DEF Enters
<1>4. QED
  BY <1>2, <1>3 DEF TasksAt

LEMMA TasksLeave ==
  ASSUME IInv, NEW a, Leaves(a), NEW P \in SUBSET Places
  PROVE  /\ TasksAt(Flight', P) \subseteq TasksAt(Flight, P)
         /\ a \in P => /\ Head(Flight[a]) \in TasksAt(Flight, P)
                       /\ TasksAt(Flight, P) =
                            TasksAt(Flight', P) \cup {Head(Flight[a])}
         /\ a \notin P => TasksAt(Flight', P) = TasksAt(Flight, P)
<1>1. Flight[a] \in Seq(Task)
  BY FlightType DEF Flights, Leaves
<1>2. Tasks(Flight[a]) = Tasks(Flight'[a]) \cup {Head(Flight[a])}
  BY <1>1, TasksTail DEF Leaves
<1>3. \A p \in P \ {a} : Tasks(Flight'[p]) = Tasks(Flight[p])
  BY DEF Leaves
<1>4. QED
  BY <1>2, <1>3 DEF TasksAt

-----------------------------------------------------------------------------
(* Order and cutting                                                       *)

\* prev_ and nonces of a writer_task tell how much of its file is cut.
CutFiles ==
  \A f \in Files : /\ Plot(f).sn <= prev[f]
                   /\ prev[f] + left[f] = Plot(f).sn + Plot(f).nonces

\* A task is of the part of its file that is cut, and the files before it are
\* cut whole.
CutTasks ==
  \A t \in TasksAt(Flight, Places) :
    /\ Plot(t.file).sn <= t.sn
    /\ t.sn + t.nonces <= prev[t.file]
    /\ \A i \in 1 .. t.file[2] - 1 : left[<<t.file[1], i>>] = 0

OrderInv ==
  /\ AtHome(Flight)
  /\ Ordered(Flight)
  /\ CutFiles
  /\ CutTasks

LEMMA InitOrder == Init => OrderInv
<1> SUFFICES ASSUME Init PROVE OrderInv
  OBVIOUS
<1>1. \A p \in Places : Len(Flight[p]) = 0
  <2>1. /\ pending = <<>> /\ hashing = <<>> /\ hasher_tasks = <<>>
        /\ reporter = <<>>
        /\ \A w \in Writers : fin_hasher_tasks[w] = <<>> /\ writing[w] = <<>>
    BY DEF Init
  <2>2. \A p \in Places : Flight[p] = <<>>
    BY <2>1, PlacesAre, FlightAt
  <2>3. QED
    BY <2>2, EmptySeq
<1>2. AtHome(Flight) /\ Ordered(Flight) /\ TasksAt(Flight, Places) = {}
  BY <1>1, WriterPlacesAre DEF AtHome, Ordered, TasksAt, Tasks
<1>3. CutFiles
  <2> SUFFICES ASSUME NEW f \in Files
               PROVE  /\ Plot(f).sn <= prev[f]
                      /\ prev[f] + left[f] = Plot(f).sn + Plot(f).nonces
    BY DEF CutFiles
  <2>1. prev[f] = Plot(f).sn /\ left[f] = Plot(f).nonces
    BY DEF Init
  <2>2. Plot(f).sn \in Nat /\ Plot(f).nonces \in Nat
    BY FilesAre
  <2>3. QED
    BY <2>1, <2>2
<1>4. QED
  BY <1>2, <1>3 DEF OrderInv, CutTasks

LEMMA OrderStays ==
  ASSUME OrderInv,
         UNCHANGED <<pending, hashing, hasher_tasks, reporter,
                     fin_hasher_tasks, writing>>,
         UNCHANGED <<left, prev>>
  PROVE  OrderInv'
<1>1. Flight' = Flight
  BY FlightStays
<1>2. AtHome(Flight)' /\ Ordered(Flight)'
  BY <1>1 DEF OrderInv, AtHome, Ordered
<1>3. CutFiles' /\ CutTasks'
  BY <1>1 DEF OrderInv, CutFiles, CutTasks, TasksAt
<1>4. QED
  BY <1>2, <1>3 DEF OrderInv

LEMMA OrderMoves ==
  ASSUME IInv, IInv', OrderInv, UNCHANGED <<left, prev>>,
         NEW a, NEW b, Moves(a, b), Stage(a) = Stage(b) + 1,
         b \in WriterPlaces => Head(Flight[a]).file[1] = b[2]
  PROVE  OrderInv'
<1>1. Flight \in Flights /\ Flight' \in Flights
  BY FlightType, FlightTypeNext
<1>2. AtHome(Flight') /\ Ordered(Flight')
  BY <1>1, MoveOrder DEF OrderInv, Moves
<1>3. AtHome(Flight)' /\ Ordered(Flight)'
  BY <1>2 DEF AtHome, Ordered
<1>4. TasksAt(Flight', Places) = TasksAt(Flight, Places)
  BY TasksMove DEF Moves
<1>5. CutFiles' /\ CutTasks'
  BY <1>4 DEF OrderInv, CutFiles, CutTasks, TasksAt
<1>6. QED
  BY <1>3, <1>5 DEF OrderInv

LEMMA OrderLeaves ==
  ASSUME IInv, IInv', OrderInv, UNCHANGED <<left, prev>>, NEW a, Leaves(a)
  PROVE  OrderInv'
<1>1. Flight \in Flights /\ Flight' \in Flights
  BY FlightType, FlightTypeNext
<1>2. AtHome(Flight') /\ Ordered(Flight')
  BY <1>1, TakeOrder DEF OrderInv, Leaves
<1>3. AtHome(Flight)' /\ Ordered(Flight)'
  BY <1>2 DEF AtHome, Ordered
<1>4. TasksAt(Flight', Places) \subseteq TasksAt(Flight, Places)
  BY TasksLeave
<1>5. CutFiles' /\ CutTasks'
  BY <1>4 DEF OrderInv, CutFiles, CutTasks, TasksAt
<1>6. QED
  BY <1>3, <1>5 DEF OrderInv

\* The files before a file of a writer.
LEMMA FilesBefore ==
  ASSUME NEW f \in Files
  PROVE  /\ f[2] \in Nat \ {0}
         /\ f = <<f[1], f[2]>>
         /\ \A i \in 1 .. f[2] - 1 : <<f[1], i>> \in Files \ {f}
<1>1. f[1] \in Writers /\ f[2] \in 1 .. Len(Plots[f[1]]) /\ f = <<f[1], f[2]>>
  BY FilesAre
<1>2. Len(Plots[f[1]]) \in Nat
  <2>1. Plots[f[1]] \in Seq([sn : Nat, nonces : Nat \ {0}])
    BY <1>1, PlotsAssumption, WritersAre, ElementOfSeq
  <2>2. QED
    BY <2>1, LenProperties
<1>3. ASSUME NEW i \in 1 .. f[2] - 1
      PROVE  <<f[1], i>> \in Files /\ <<f[1], i>> # f
  <2>1. i \in 1 .. Len(Plots[f[1]]) /\ i # f[2]
    BY <1>1, <1>2
  <2>2. QED
    BY <1>1, <2>1 DEF Files
<1>4. QED
  BY <1>1, <1>2, <1>3

\* The cut of a task, in numbers.
LEMMA CutIs ==
  ASSUME IInv, OrderInv, NEW w \in Writers, NEW f \in CurrentFiles(w), NEW b,
         CutTask(f, b)
  PROVE  LET n == Smaller(WorkSize, left[f]) IN
         /\ f \in Files /\ f[1] = w
         /\ n \in 1 .. WorkSize /\ n <= left[f]
         /\ left' = [left EXCEPT ![f] = @ - n]
         /\ prev' = [prev EXCEPT ![f] = @ + n]
         /\ left \in [Files -> Nat] /\ prev \in [Files -> Nat]
         /\ left'[f] = left[f] - n /\ prev'[f] = prev[f] + n
         /\ \A g \in Files \ {f} : left'[g] = left[g] /\ prev'[g] = prev[g]
         /\ \A i \in 1 .. f[2] - 1 : left[<<w, i>>] = 0
<1>1. f \in Files /\ left[f] > 0
  BY CurrentFilesAre
<1>2. left \in [Files -> Nat] /\ prev \in [Files -> Nat]
  BY DEF IInv, DispatcherInv, DispatcherTypeOK
<1>3. /\ Smaller(WorkSize, left[f]) \in 1 .. WorkSize
      /\ Smaller(WorkSize, left[f]) <= left[f]
  BY <1>1, <1>2, WorkSizeType DEF Smaller
<1>4. f[1] = w /\ \A i \in 1 .. f[2] - 1 : left[<<w, i>>] = 0
  BY DEF CurrentFiles
<1>5. /\ left' = [left EXCEPT ![f] = @ - Smaller(WorkSize, left[f])]
      /\ prev' = [prev EXCEPT ![f] = @ + Smaller(WorkSize, left[f])]
  BY DEF CutTask
<1>6. QED
  BY <1>1, <1>2, <1>3, <1>4, <1>5

\* The cut: the file with nonces left is no earlier one than that of any task
\* in flight of the writer.
LEMMA OrderCut ==
  ASSUME IInv, IInv', OrderInv, DispatcherReadWriter, dpc' = "submit",
         NEW w \in Writers, NEW f \in CurrentFiles(w), NEW b, CutTask(f, b)
  PROVE  OrderInv'
<1> DEFINE a == <<"pending", 0>>
           n == Smaller(WorkSize, left[f])
           t == pending'[1]
<1>1. /\ t = [file |-> f, sn |-> prev[f], block |-> b, nonces |-> n]
      /\ t \in Task /\ Enters(a, t)
  <2> HIDE DEF n, a, t
  <2>1. QED
    BY CutAdds DEF n, a, t
<1>2. t.file = f /\ t.sn = prev[f] /\ t.nonces = n
  BY <1>1
<1>3. /\ f \in Files /\ f[1] = w
      /\ n \in 1 .. WorkSize /\ n <= left[f]
      /\ left' = [left EXCEPT ![f] = @ - n]
      /\ prev' = [prev EXCEPT ![f] = @ + n]
      /\ left \in [Files -> Nat] /\ prev \in [Files -> Nat]
      /\ left'[f] = left[f] - n /\ prev'[f] = prev[f] + n
      /\ \A g \in Files \ {f} : left'[g] = left[g] /\ prev'[g] = prev[g]
      /\ \A i \in 1 .. f[2] - 1 : left[<<w, i>>] = 0
  BY CutIs
<1> HIDE DEF n, t
<1>4. n \in Nat \ {0} /\ left[f] \in Nat \ {0} /\ prev[f] \in Nat
  BY <1>3, WorkSizeType
<1>5. Flight \in Flights /\ Flight' \in Flights
  BY FlightType, FlightTypeNext
\* All tasks of the writer are earlier.
<1>6. ASSUME NEW u \in TasksAt(Flight, Places), u.file[1] = w
      PROVE  Earlier(u, t) /\ u.file[2] <= f[2]
  <2>1. /\ u.sn + u.nonces <= prev[u.file]
        /\ \A i \in 1 .. u.file[2] - 1 : left[<<w, i>>] = 0
    BY <1>6 DEF OrderInv, CutTasks
  <2>2. u \in Task /\ u.file \in Files
    BY <1>5, TasksType, TaskType
  <2>3. /\ u.file = <<w, u.file[2]>> /\ f = <<w, f[2]>>
        /\ u.file[2] \in Nat \ {0} /\ f[2] \in Nat \ {0}
    BY <1>3, <1>6, <2>2, FilesBefore
  <2>4. ~(f[2] < u.file[2])
    <3>1. SUFFICES ASSUME f[2] < u.file[2] PROVE FALSE
      OBVIOUS
    <3>2. f[2] \in 1 .. u.file[2] - 1
      BY <2>3, <3>1
    <3>3. left[f] = 0
      BY <2>1, <2>3, <3>2
    <3>4. QED
      BY <1>4, <3>3
  <2>5. CASE u.file[2] = f[2]
    BY <1>2, <2>1, <2>3, <2>5 DEF Earlier
  <2>6. CASE u.file[2] < f[2]
    BY <1>2, <2>3, <2>6 DEF Earlier
  <2>7. QED
    BY <2>3, <2>4, <2>5, <2>6
<1>7. AtHome(Flight') /\ Ordered(Flight')
  <2>1. ASSUME NEW p \in Places, NEW i \in 1 .. Len(Flight[p]),
               Flight[p][i].file[1] = t.file[1]
        PROVE  Earlier(Flight[p][i], t) /\ ~(Stage(a) < Stage(p))
    <3>1. Earlier(Flight[p][i], t)
      BY <1>2, <1>3, <1>6, <2>1, TaskAt
    <3>2. QED
      BY <3>1, StageIs, StageType
  <2>2. a \notin WriterPlaces
    BY WriterPlacesAre
  <2> HIDE DEF a
  <2>3. QED
    BY <1>1, <1>5, <2>1, <2>2, AddOrder DEF OrderInv, Enters
<1>8. AtHome(Flight)' /\ Ordered(Flight)'
  BY <1>7 DEF AtHome, Ordered
<1>9. CutFiles'
  <2> SUFFICES ASSUME NEW g \in Files
               PROVE  /\ Plot(g).sn <= prev'[g]
                      /\ prev'[g] + left'[g] = Plot(g).sn + Plot(g).nonces
    BY DEF CutFiles
  <2>1. /\ Plot(g).sn <= prev[g]
        /\ prev[g] + left[g] = Plot(g).sn + Plot(g).nonces
    BY DEF OrderInv, CutFiles
  <2>2. Plot(g).sn \in Nat /\ prev[g] \in Nat /\ left[g] \in Nat
    BY <1>3, FilesAre
  <2>3. CASE g = f
    <3>1. /\ prev'[g] = prev[g] + n /\ left'[g] = left[g] - n
      BY <1>3, <2>3
    <3>2. QED
      BY <1>4, <2>1, <2>2, <3>1
  <2>4. CASE g # f
    BY <1>3, <2>1, <2>4
  <2>5. QED
    BY <2>3, <2>4
<1>10. ASSUME NEW u \in TasksAt(Flight', Places)
       PROVE  /\ Plot(u.file).sn <= u.sn
              /\ u.sn + u.nonces <= prev'[u.file]
              /\ \A i \in 1 .. u.file[2] - 1 : left'[<<u.file[1], i>>] = 0
  <2>1. u \in TasksAt(Flight, Places) \cup {t}
    BY <1>1, TasksEnter DEF Enters
  <2>2. CASE u = t
    <3>1. Plot(f).sn <= prev[f]
      BY <1>3 DEF OrderInv, CutFiles
    <3>2. \A i \in 1 .. f[2] - 1 : left'[<<w, i>>] = 0
      BY <1>3, FilesBefore
    <3>3. QED
      BY <1>2, <1>3, <2>2, <3>1, <3>2
  <2>3. CASE u \in TasksAt(Flight, Places)
    <3>1. /\ Plot(u.file).sn <= u.sn
          /\ u.sn + u.nonces <= prev[u.file]
          /\ \A i \in 1 .. u.file[2] - 1 : left[<<u.file[1], i>>] = 0
      BY <2>3 DEF OrderInv, CutTasks
    <3>2. u \in Task /\ u.file \in Files /\ u.sn \in Nat /\ u.nonces \in Nat
      BY <1>5, <2>3, TasksType, TaskType, WorkSizeType
    <3>3. prev[u.file] \in Nat /\ prev[u.file] <= prev'[u.file]
      BY <1>3, <1>4, <3>2
    <3>4. prev'[u.file] \in Nat
      BY <1>3, <1>4, <3>2
    <3>5. ASSUME NEW i \in 1 .. u.file[2] - 1
          PROVE  left'[<<u.file[1], i>>] = 0
      <4>1. <<u.file[1], i>> \in Files /\ left[<<u.file[1], i>>] = 0
        BY <3>1, <3>2, FilesBefore
      <4>2. QED
        BY <1>3, <1>4, <4>1
    <3>6. QED
      BY <3>1, <3>2, <3>3, <3>4, <3>5
  <2>4. QED
    BY <2>1, <2>2, <2>3
<1>11. CutTasks'
  BY <1>10 DEF CutTasks, TasksAt
<1>12. QED
  BY <1>8, <1>9, <1>11 DEF OrderInv

\* What the step of the dispatcher at a writer amounts to.
LEMMA ReadWriterCases ==
  ASSUME IInv, DispatcherReadWriter
  PROVE  /\ cur_worker_pos + 1 \in Writers
         /\ \/ /\ dpc' = "submit"
               /\ \E b \in Allocatable, f \in CurrentFiles(cur_worker_pos + 1) :
                    CutTask(f, b)
            \/ UNCHANGED <<pending, dispatched_nonces, left, prev>>
<1>1. cur_worker_pos + 1 \in Writers
  BY WritersAre DEF DispatcherReadWriter, IInv, DispatcherInv,
     DispatcherTypeOK, DispatcherStage
<1>2. QED
  BY <1>1 DEF DispatcherReadWriter

LEMMA DispatcherOrder ==
  ASSUME IInv, IInv', OrderInv, Dispatcher
  PROVE  OrderInv'
<1>1. CASE DispatcherSubmit
  <2>1. UNCHANGED <<left, prev>>
    BY <1>1 DEF DispatcherSubmit
  <2>2. /\ Stage(<<"pending", 0>>) = Stage(<<"hasher_tasks", 0>>) + 1
        /\ <<"hasher_tasks", 0>> \notin WriterPlaces
    BY StageIs, WriterPlacesAre
  <2>3. QED
    BY <1>1, <2>1, <2>2, SubmitMoves, OrderMoves
<1>2. CASE DispatcherPoll
  <2>1. UNCHANGED <<left, prev>>
    BY <1>2 DEF DispatcherPoll
  <2>2. CASE reporter = <<>>
    BY <1>2, <2>1, <2>2, OrderStays DEF DispatcherPoll, hasherVars, writerVars
  <2>3. CASE reporter # <<>>
    BY <1>2, <2>1, <2>3, PollTakes, OrderLeaves
  <2>4. QED
    BY <2>2, <2>3
<1>3. CASE DispatcherReadWriter
  <2>1. CASE UNCHANGED <<pending, dispatched_nonces, left, prev>>
    BY <1>3, <2>1, OrderStays
    DEF DispatcherReadWriter, hasherVars, writerVars, queueVars
  <2>2. QED
    BY <1>3, <2>1, ReadWriterCases, OrderCut
<1>4. CASE \/ DispatcherLoop \/ DispatcherReadHasher \/ DispatcherSignal
           \/ DispatcherStopWorker \/ DispatcherJoin
  BY <1>4, OrderStays
  DEF DispatcherLoop, DispatcherReadHasher, DispatcherSignal,
      DispatcherStopWorker, DispatcherJoin, hasherVars, writerVars, queueVars
<1>5. QED
  BY <1>1, <1>2, <1>3, <1>4 DEF Dispatcher

LEMMA HasherOrder ==
  ASSUME IInv, IInv', OrderInv, HasherStep \/ HasherPopNull
  PROVE  OrderInv'
<1>1. UNCHANGED <<left, prev>>
  BY DEF HasherStep, HasherLoop, HasherPop, HasherPlot, HasherPush,
         HasherCount, HasherPopNull, dispatcherVars
<1>2. CASE HasherPop
  <2>1. /\ Stage(<<"hasher_tasks", 0>>) = Stage(<<"hashing", 0>>) + 1
        /\ <<"hashing", 0>> \notin WriterPlaces
    BY StageIs, WriterPlacesAre
  <2>2. QED
    BY <1>1, <1>2, <2>1, PopMoves, OrderMoves
<1>3. CASE HasherPush
  <2> DEFINE w == hashing[1].file[1]
             b == <<"fin_hasher_tasks", w>>
  <2>1. w \in Writers /\ hashing[1] = Head(hashing) /\ Moves(<<"hashing", 0>>, b)
    BY <1>3, PushMoves
  <2>2. Flight[<<"hashing", 0>>] = hashing
    BY FlightAt
  <2>3. Head(Flight[<<"hashing", 0>>]).file[1] = b[2]
    BY <2>1, <2>2
  <2>4. Stage(<<"hashing", 0>>) = Stage(b) + 1
    BY DEF Stage
  <2> HIDE DEF b
  <2>5. QED
    BY <1>1, <2>1, <2>3, <2>4, OrderMoves
<1>4. CASE HasherLoop \/ HasherPlot \/ HasherCount \/ HasherPopNull
  BY <1>1, <1>4, OrderStays
  DEF HasherLoop, HasherPlot, HasherCount, HasherPopNull, dispatcherVars,
      writerVars, queueVars
<1>5. QED
  BY <1>2, <1>3, <1>4 DEF HasherStep

LEMMA WriterOrder ==
  ASSUME IInv, IInv', OrderInv, NEW w \in Writers,
         WriterStep(w) \/ WriterPopNull(w)
  PROVE  OrderInv'
<1>1. UNCHANGED <<left, prev>>
  BY DEF WriterStep, WriterLoop, WriterPop, WriterOpen, WriterWrite,
         WriterRetry, WriterSubmit, WriterReport, WriterPopNull,
         dispatcherVars
<1>2. CASE WriterPop(w)
  <2> DEFINE a == <<"fin_hasher_tasks", w>>
             b == <<"writing", w>>
  <2>1. Moves(a, b) /\ Stage(a) = Stage(b) + 1
    BY <1>2, WriterPopMoves, StageIs
  <2>2. Head(Flight[a]).file[1] = b[2]
    <3>1. Flight[a] \in Seq(Task) /\ a \in WriterPlaces
      BY <2>1, FlightType, WriterPlacesAre DEF Flights, Moves
    <3>2. Head(Flight[a]) = Flight[a][1] /\ 1 \in 1 .. Len(Flight[a])
      BY <2>1, <3>1, TasksTail DEF Moves
    <3>3. Head(Flight[a]).file[1] = a[2]
      BY <3>1, <3>2 DEF OrderInv, AtHome
    <3>4. QED
      BY <3>3
  <2> HIDE DEF a, b
  <2>3. QED
    BY <1>1, <2>1, <2>2, OrderMoves
<1>3. CASE WriterReport(w)
  <2>1. /\ Stage(<<"writing", w>>) = Stage(<<"reporter", 0>>) + 1
        /\ <<"reporter", 0>> \notin WriterPlaces
    BY WriterPlacesAre DEF Stage
  <2>2. QED
    BY <1>1, <1>3, <2>1, ReportMoves, OrderMoves
<1>4. CASE \/ WriterLoop(w) \/ WriterOpen(w) \/ WriterWrite(w)
           \/ WriterRetry(w) \/ WriterSubmit(w) \/ WriterPopNull(w)
  <2>1. UNCHANGED <<pending, hashing, hasher_tasks, reporter,
                    fin_hasher_tasks, writing>>
    BY <1>4 DEF WriterLoop, WriterOpen, WriterWrite, WriterRetry,
                WriterSubmit, WriterPopNull, dispatcherVars, hasherVars,
                queueVars
  <2>2. QED
    BY <1>1, <2>1, OrderStays
<1>5. QED
  BY <1>2, <1>3, <1>4 DEF WriterStep

LEMMA NextOrder == IInv /\ IInv' /\ OrderInv /\ [Next]_vars => OrderInv'
<1> SUFFICES ASSUME IInv, IInv', OrderInv, [Next]_vars PROVE OrderInv'
  OBVIOUS
<1>1. CASE UserSignal \/ UNCHANGED vars
  BY <1>1, OrderStays DEF UserSignal, vars, dispatcherVars, hasherVars,
                          writerVars, queueVars
<1>2. QED
  BY <1>1, DispatcherOrder, HasherOrder, WriterOrder DEF Next

LEMMA OrderInvariance == Spec => [](IInv /\ OwnInv /\ OrderInv)
BY OwnInvariance, InitOrder, NextOrder, PTL DEF Spec

-----------------------------------------------------------------------------
(* What the writers have submitted                                         *)

\* Where the tasks are that their writer has not given up or submitted.
WaitingPlaces ==
  {p \in Places : /\ p[1] # "reporter"
                  /\ p[1] = "writing" => wpc[p[2]] # "report"}

Waiting == TasksAt(Flight, WaitingPlaces)

\* The first nonce of file f that is not submitted.
Unsubmitted(f) == Plot(f).sn + submitted[f]

\* The writer has given up a task and will take no other.
Lost(w) == ~success[w] /\ wpc[w] \in {"report", "loop", "exited"}

WriterModes ==
  \A w \in Writers :
    /\ wpc[w] \in {"pop", "submit"} => success[w]
    /\ wpc[w] = "failed" => ~success[w]
    /\ WriteOff => wpc[w] \in {"loop", "pop", "report", "exited"}

\* The tasks that wait are not submitted, and unless the writer is lost they
\* make up all that is cut and not submitted.
Submissions ==
  /\ \A t \in Waiting : Unsubmitted(t.file) <= t.sn
  /\ \A f \in Files : Unsubmitted(f) <= prev[f]
  /\ \A f \in Files : ~Lost(f[1]) =>
       \A x \in Unsubmitted(f) .. prev[f] - 1 :
         \E t \in Waiting : t.file = f /\ t.sn <= x /\ x < t.sn + t.nonces

SubmitInv == WriterModes /\ (~WriteOff => Submissions)

LEMMA InitSubmit == Init => SubmitInv
<1> SUFFICES ASSUME Init PROVE SubmitInv
  OBVIOUS
<1>1. \A p \in Places : Len(Flight[p]) = 0
  <2>1. /\ pending = <<>> /\ hashing = <<>> /\ hasher_tasks = <<>>
        /\ reporter = <<>>
        /\ \A w \in Writers : fin_hasher_tasks[w] = <<>> /\ writing[w] = <<>>
    BY DEF Init
  <2>2. \A p \in Places : Flight[p] = <<>>
    BY <2>1, PlacesAre, FlightAt
  <2>3. QED
    BY <2>2, EmptySeq
<1>2. Waiting = {}
  BY <1>1 DEF Waiting, WaitingPlaces, TasksAt, Tasks
<1>3. \A w \in Writers : wpc[w] = "loop"
  BY DEF Init
<1>4. WriterModes
  BY <1>3 DEF WriterModes
<1>5. ASSUME NEW f \in Files
      PROVE  /\ Unsubmitted(f) <= prev[f]
             /\ \A x \in Unsubmitted(f) .. prev[f] - 1 : FALSE
  <2>1. prev[f] = Plot(f).sn /\ submitted[f] = 0 /\ Plot(f).sn \in Nat
    BY FilesAre DEF Init
  <2>2. QED
    BY <2>1 DEF Unsubmitted
<1>6. Submissions
  BY <1>2, <1>5 DEF Submissions
<1>7. QED
  BY <1>4, <1>6 DEF SubmitInv

LEMMA WaitingIs ==
  ASSUME IInv, NEW t \in Waiting
  PROVE  /\ t \in TasksAt(Flight, Places)
         /\ t \in Task /\ t.file \in Files
         /\ t.sn \in Nat /\ t.nonces \in Nat \ {0}
<1>1. t \in TasksAt(Flight, Places)
  BY DEF Waiting, WaitingPlaces, TasksAt
<1>2. t \in Task
  BY <1>1, FlightType, TasksType
<1>3. QED
  BY <1>1, <1>2, TaskType, WorkSizeType

\* The task a writer works on is the first of its writer's that wait.
LEMMA HeadIsFirst ==
  ASSUME IInv, OrderInv, NEW w \in Writers,
         wpc[w] \in {"open", "write", "failed", "submit"}
  PROVE  /\ <<"writing", w>> \in WaitingPlaces
         /\ writing[w][1] \in Task
         /\ writing[w][1].file[1] = w
         /\ Tasks(Flight[<<"writing", w>>]) = {writing[w][1]}
         /\ \A u \in TasksAt(Flight, WaitingPlaces \ {<<"writing", w>>}) :
              u.file[1] = w => Earlier(writing[w][1], u)
<1> DEFINE a == <<"writing", w>>
           t == writing[w][1]
<1>1. writing[w] \in Seq(Task) /\ Len(writing[w]) = 1
  BY DEF IInv, WriterInv, WriterTypeOK, WriterStage
<1>2. t \in Task
  BY <1>1, Singleton
<1>3. a \in WriterPlaces /\ a \in Places /\ Flight[a] = writing[w]
  BY WriterPlacesAre, FlightAt
<1>4. 1 \in 1 .. Len(Flight[a]) /\ Flight[a][1] = t
  <2>1. Len(Flight[a]) = 1 /\ Flight[a][1] = t
    BY <1>1, <1>3
  <2>2. QED
    BY <2>1
<1>5. a \in WaitingPlaces
  BY <1>3 DEF WaitingPlaces
<1>6. t.file[1] = w
  BY <1>3, <1>4 DEF OrderInv, AtHome
<1>7. Tasks(Flight[a]) = {t}
  BY <1>1, <1>3 DEF Tasks
<1>8. ASSUME NEW u \in TasksAt(Flight, WaitingPlaces \ {a}), u.file[1] = w
      PROVE  Earlier(t, u)
  <2>1. PICK q \in WaitingPlaces \ {a} :
               \E j \in 1 .. Len(Flight[q]) : Flight[q][j] = u
    BY DEF TasksAt, Tasks
  <2>2. PICK j \in 1 .. Len(Flight[q]) : Flight[q][j] = u
    BY <2>1
  <2>3. q \in Places /\ q # a /\ q[1] # "reporter"
    BY <2>1 DEF WaitingPlaces
  <2>4. Stage(a) < Stage(q)
    <3>1. Stage(a) = 1 /\ Stage(q) \in 0 .. 5
      BY <2>3, StageIs, StageType
    <3>2. Stage(q) # 0
      BY <2>3, PlaceIs DEF Stage
    <3>3. Stage(q) # 1
      <4>1. SUFFICES ASSUME Stage(q) = Stage(a) PROVE FALSE
        BY <3>1
      <4>2. q \in WriterPlaces /\ q[2] # a[2]
        BY <1>3, <2>3, <4>1, SameStage
      <4>3. u.file[1] = q[2]
        BY <2>2, <4>2 DEF OrderInv, AtHome
      <4>4. QED
        BY <1>8, <4>2, <4>3
    <3> HIDE DEF a
    <3>4. QED
      BY <3>1, <3>2, <3>3
  <2>5. Ahead(a, 1, q, j)
    BY <2>4 DEF Ahead
  <2> HIDE DEF a, t
  <2>6. Flight[a][1].file[1] = Flight[q][j].file[1]
    BY <1>4, <1>6, <1>8, <2>2
  <2>7. Earlier(Flight[a][1], Flight[q][j])
    BY <1>3, <1>4, <2>2, <2>3, <2>5, <2>6 DEF OrderInv, Ordered
  <2>8. QED
    BY <1>4, <2>2, <2>7
<1>9. QED
  BY <1>2, <1>5, <1>6, <1>7, <1>8

\* A task that waits is the one its writer works on, or a later one.
LEMMA HeadOrLater ==
  ASSUME IInv, OrderInv, NEW w \in Writers,
         wpc[w] \in {"open", "write", "failed", "submit"},
         NEW u \in Waiting, u.file[1] = w
  PROVE  u = writing[w][1] \/ Earlier(writing[w][1], u)
<1> DEFINE a == <<"writing", w>>
<1>1. u \in Tasks(Flight[a]) \cup TasksAt(Flight, WaitingPlaces \ {a})
  BY DEF Waiting, TasksAt
<1>2. QED
  BY <1>1, HeadIsFirst

\* What WritesInOrder says of one writer.
LEMMA HeadInOrder ==
  ASSUME IInv, OrderInv, SubmitInv, NEW w \in Writers,
         wpc[w] \in {"open", "write", "failed", "submit"}
  PROVE  LET t == writing[w][1] IN
         /\ t \in Waiting /\ t \in Task
         /\ t.file \in Files /\ t.file[1] = w
         /\ t.sn = Unsubmitted(t.file)
         /\ \A i \in 1 .. t.file[2] - 1 :
              submitted[<<w, i>>] = Plot(<<w, i>>).nonces
<1> DEFINE t == writing[w][1]
<1>1. t \in Task /\ t.file[1] = w /\ t \in Waiting
  <2>1. /\ <<"writing", w>> \in WaitingPlaces
        /\ t \in Task /\ t.file[1] = w
        /\ t \in Tasks(Flight[<<"writing", w>>])
    BY HeadIsFirst
  <2> HIDE DEF t
  <2>2. QED
    BY <2>1 DEF Waiting, TasksAt
<1> HIDE DEF t
<1>2. /\ t \in TasksAt(Flight, Places) /\ t.file \in Files
      /\ t.sn \in Nat /\ t.nonces \in Nat \ {0}
  BY <1>1, WaitingIs
<1>3. ~WriteOff /\ ~Lost(w) /\ Submissions
  BY DEF SubmitInv, WriterModes, Lost
<1>4. \A u \in Waiting : u.file[1] = w => u = t \/ Earlier(t, u)
  BY HeadOrLater DEF t
<1>5. /\ submitted \in [Files -> Nat] /\ prev \in [Files -> Nat]
      /\ left \in [Files -> Nat]
  BY DEF IInv, WriterInv, WriterTypeOK, DispatcherInv, DispatcherTypeOK
<1>6. \A f \in Files : /\ Plot(f).sn \in Nat /\ Plot(f).nonces \in Nat
                       /\ Unsubmitted(f) \in Nat
  BY <1>5, FilesAre DEF Unsubmitted
<1>7. t.sn = Unsubmitted(t.file)
  <2> DEFINE x == Unsubmitted(t.file)
  <2>1. SUFFICES ASSUME t.sn # x PROVE FALSE
    OBVIOUS
  <2>2. x < t.sn
    BY <1>1, <1>2, <1>3, <1>6, <2>1 DEF Submissions
  <2>3. t.sn + t.nonces <= prev[t.file]
    BY <1>2 DEF OrderInv, CutTasks
  <2>4. x \in x .. prev[t.file] - 1
    BY <1>2, <1>5, <1>6, <2>2, <2>3
  <2>5. PICK u \in Waiting : u.file = t.file /\ u.sn <= x
    BY <1>1, <1>2, <1>3, <2>4 DEF Submissions
  <2>6. u # t
    BY <1>2, <1>6, <2>2, <2>5
  <2>7. Earlier(t, u)
    BY <1>1, <1>4, <2>5, <2>6
  <2>8. u.sn \in Nat /\ t.file[2] \in Nat
    BY <1>2, WaitingIs, FilesBefore
  <2>9. t.sn + t.nonces <= u.sn
    BY <2>5, <2>7, <2>8 DEF Earlier
  <2> HIDE DEF x
  <2>10. x \in Nat
    BY <1>2, <1>6 DEF x
  <2>11. QED
    BY <1>2, <2>2, <2>5, <2>8, <2>9, <2>10
<1>8. ASSUME NEW i \in 1 .. t.file[2] - 1
      PROVE  submitted[<<w, i>>] = Plot(<<w, i>>).nonces
  <2> DEFINE g == <<w, i>>
  <2>1. g \in Files /\ i \in Nat /\ t.file[2] \in Nat /\ i < t.file[2]
    BY <1>1, <1>2, FilesBefore
  <2>2. left[g] = 0
    BY <1>1, <1>2 DEF OrderInv, CutTasks
  <2> g[1] = w /\ g[2] = i
    OBVIOUS
  <2> HIDE DEF g
  <2>3. prev[g] = Plot(g).sn + Plot(g).nonces
    BY <1>5, <1>6, <2>1, <2>2 DEF OrderInv, CutFiles
  <2>4. Unsubmitted(g) <= prev[g]
    BY <1>3, <2>1 DEF Submissions
  <2>5. ~(Unsubmitted(g) < prev[g])
    <3>1. SUFFICES ASSUME Unsubmitted(g) < prev[g] PROVE FALSE
      OBVIOUS
    <3>2. Unsubmitted(g) \in Unsubmitted(g) .. prev[g] - 1
      BY <1>5, <1>6, <2>1, <3>1
    <3>3. PICK u \in Waiting : u.file = g
      BY <1>3, <2>1, <3>2 DEF Submissions
    <3>4. u.file # t.file
      BY <2>1, <3>3
    <3>5. ~Earlier(t, u)
      BY <2>1, <3>3, <3>4 DEF Earlier
    <3>6. QED
      BY <1>4, <3>3, <3>4, <3>5
  <2>6. Plot(g).sn + submitted[g] = Plot(g).sn + Plot(g).nonces
    BY <1>5, <1>6, <2>1, <2>3, <2>4, <2>5 DEF Unsubmitted
  <2>7. submitted[g] = Plot(g).nonces
    BY <1>5, <1>6, <2>1, <2>6
  <2>8. QED
    BY <2>7 DEF g
<1>9. QED
  BY <1>1, <1>2, <1>7, <1>8 DEF t

-----------------------------------------------------------------------------
(* The steps                                                               *)

LEMMA WaitingPlacesStay ==
  ASSUME \A w \in Writers : wpc'[w] = "report" <=> wpc[w] = "report"
  PROVE  WaitingPlaces' = WaitingPlaces
<1>1. \A p \in Places : p[1] = "writing" => p[2] \in Writers
  BY DEF Places
<1>2. QED
  BY <1>1 DEF WaitingPlaces

LEMMA WaitingPlacesAre ==
  /\ WaitingPlaces \subseteq Places
  /\ {<<"pending", 0>>, <<"hasher_tasks", 0>>, <<"hashing", 0>>}
       \subseteq WaitingPlaces
  /\ \A w \in Writers :
       /\ <<"fin_hasher_tasks", w>> \in WaitingPlaces
       /\ <<"writing", w>> \in WaitingPlaces <=> wpc[w] # "report"
  /\ <<"reporter", 0>> \notin WaitingPlaces
BY DEF WaitingPlaces, Places

\* The same tasks wait after the step, and no lost writer recovers.
LEMMA SubmissionsStay ==
  ASSUME Submissions, Waiting' = Waiting, UNCHANGED <<submitted, prev>>,
         \A w \in Writers : Lost(w) => Lost(w)'
  PROVE  Submissions'
<1>1. \A f \in Files : f[1] \in Writers
  BY FilesAre
<1>2. QED
  BY <1>1 DEF Submissions, Unsubmitted

\* A step of another thread than a writer.
LEMMA SubmitStays ==
  ASSUME SubmitInv, UNCHANGED <<wpc, success, submitted, prev>>,
         TasksAt(Flight', WaitingPlaces) = TasksAt(Flight, WaitingPlaces)
  PROVE  SubmitInv'
<1>1. WaitingPlaces' = WaitingPlaces
  BY WaitingPlacesStay
<1>2. Waiting' = Waiting
  BY <1>1 DEF Waiting, TasksAt
<1>3. WriterModes'
  BY DEF SubmitInv, WriterModes, WriteOff
<1>4. \A w \in Writers : Lost(w) => Lost(w)'
  BY DEF Lost
<1>5. QED
  BY <1>2, <1>3, <1>4, SubmissionsStay DEF SubmitInv, WriteOff

LEMMA SubmitCut ==
  ASSUME IInv, IInv', OrderInv, SubmitInv, DispatcherReadWriter,
         dpc' = "submit",
         NEW w \in Writers, NEW f \in CurrentFiles(w), NEW b, CutTask(f, b)
  PROVE  SubmitInv'
<1> DEFINE a == <<"pending", 0>>
           n == Smaller(WorkSize, left[f])
           t == pending'[1]
<1>1. /\ t = [file |-> f, sn |-> prev[f], block |-> b, nonces |-> n]
      /\ t \in Task /\ Enters(a, t)
  <2> HIDE DEF n, a, t
  <2>1. QED
    BY CutAdds DEF n, a, t
<1>2. t.file = f /\ t.sn = prev[f] /\ t.nonces = n
  BY <1>1
<1>3. /\ f \in Files /\ n \in 1 .. WorkSize
      /\ prev \in [Files -> Nat]
      /\ prev'[f] = prev[f] + n
      /\ \A g \in Files \ {f} : prev'[g] = prev[g]
  BY CutIs
<1>4. UNCHANGED <<wpc, success, submitted>>
  BY DEF DispatcherReadWriter, writerVars
<1> HIDE DEF n, t
<1>5. n \in Nat \ {0}
  BY <1>3, WorkSizeType
<1>6. WaitingPlaces' = WaitingPlaces /\ WaitingPlaces \in SUBSET Places
      /\ a \in WaitingPlaces
  BY <1>4, WaitingPlacesStay, WaitingPlacesAre
<1>7. Waiting' = Waiting \cup {t}
  <2>1. TasksAt(Flight', WaitingPlaces) = Waiting \cup {t}
    BY <1>1, <1>6, TasksEnter DEF Waiting
  <2>2. QED
    BY <1>6, <2>1 DEF Waiting, TasksAt
<1>8. WriterModes'
  BY <1>4 DEF SubmitInv, WriterModes, WriteOff
<1>9. ASSUME ~WriteOff PROVE Submissions'
  <2>1. Submissions
    BY <1>9 DEF SubmitInv
  <2>2. \A g \in Files : /\ Unsubmitted(g)' = Unsubmitted(g)
                         /\ Unsubmitted(g) \in Nat
                         /\ prev[g] \in Nat
    <3>1. submitted \in [Files -> Nat]
      BY DEF IInv, WriterInv, WriterTypeOK
    <3>2. QED
      BY <1>3, <1>4, <3>1, FilesAre DEF Unsubmitted
  <2>3. \A u \in Waiting' : Unsubmitted(u.file)' <= u.sn
    <3>1. Unsubmitted(f) <= prev[f]
      BY <1>3, <2>1 DEF Submissions
    <3>2. \A u \in Waiting : u.file \in Files
      BY WaitingIs
    <3>3. ASSUME NEW u \in Waiting \cup {t}
          PROVE  Unsubmitted(u.file)' <= u.sn
      <4>1. CASE u = t
        BY <1>2, <1>3, <2>2, <3>1, <4>1
      <4>2. CASE u \in Waiting
        BY <2>1, <2>2, <3>2, <4>2 DEF Submissions
      <4>3. QED
        BY <4>1, <4>2
    <3>4. QED
      BY <1>7, <3>3
  <2>4. \A g \in Files : Unsubmitted(g)' <= prev'[g]
    <3> SUFFICES ASSUME NEW g \in Files PROVE Unsubmitted(g) <= prev'[g]
      BY <2>2
    <3>1. Unsubmitted(g) <= prev[g]
      BY <2>1 DEF Submissions
    <3>2. QED
      BY <1>3, <1>5, <2>2, <3>1
  <2>5. ASSUME NEW g \in Files, ~Lost(g[1])',
               NEW x \in Unsubmitted(g) .. prev'[g] - 1
        PROVE  \E u \in Waiting' :
                 u.file = g /\ u.sn <= x /\ x < u.sn + u.nonces
    <3>1. ~Lost(g[1])
      BY <1>4, <2>5 DEF Lost
    <3>2. x \in Int /\ Unsubmitted(g) <= x /\ x <= prev'[g] - 1
      BY <1>3, <1>5, <2>2
    <3>3. CASE x < prev[g]
      <4>1. x \in Unsubmitted(g) .. prev[g] - 1
        BY <2>2, <3>2, <3>3
      <4>2. \E u \in Waiting :
              u.file = g /\ u.sn <= x /\ x < u.sn + u.nonces
        BY <2>1, <3>1, <4>1 DEF Submissions
      <4>3. QED
        BY <1>7, <4>2
    <3>4. CASE ~(x < prev[g])
      <4>1. g = f
        BY <1>3, <2>2, <3>2, <3>4
      <4>2. t.file = g /\ t.sn <= x /\ x < t.sn + t.nonces
        BY <1>2, <1>3, <1>5, <2>2, <3>2, <3>4, <4>1
      <4>3. QED
        BY <1>7, <4>2
    <3>5. QED
      BY <3>3, <3>4
  <2>6. QED
    BY <2>2, <2>3, <2>4, <2>5 DEF Submissions
<1>10. QED
  BY <1>8, <1>9 DEF SubmitInv, WriteOff

LEMMA DispatcherSubmits ==
  ASSUME IInv, IInv', OrderInv, SubmitInv, Dispatcher
  PROVE  SubmitInv'
<1>1. UNCHANGED <<wpc, success, submitted>>
  BY DEF Dispatcher, DispatcherLoop, DispatcherPoll, DispatcherReadHasher,
         DispatcherReadWriter, DispatcherSubmit, DispatcherSignal,
         DispatcherStopWorker, DispatcherJoin, writerVars
<1>2. CASE DispatcherSubmit
  <2>1. prev' = prev
    BY <1>2 DEF DispatcherSubmit
  <2>2. TasksAt(Flight', WaitingPlaces) = TasksAt(Flight, WaitingPlaces)
    BY <1>2, SubmitMoves, TasksMove, WaitingPlacesAre
  <2>3. QED
    BY <1>1, <2>1, <2>2, SubmitStays
<1>3. CASE DispatcherPoll
  <2>1. prev' = prev
    BY <1>3 DEF DispatcherPoll
  <2>2. TasksAt(Flight', WaitingPlaces) = TasksAt(Flight, WaitingPlaces)
    <3>1. CASE reporter = <<>>
      <4>1. Flight' = Flight
        BY <1>3, <3>1, FlightStays DEF DispatcherPoll, hasherVars, writerVars
      <4>2. QED
        BY <4>1
    <3>2. CASE reporter # <<>>
      BY <1>3, <3>2, PollTakes, TasksLeave, WaitingPlacesAre
    <3>3. QED
      BY <3>1, <3>2
  <2>3. QED
    BY <1>1, <2>1, <2>2, SubmitStays
<1>4. CASE DispatcherReadWriter
  <2>1. CASE UNCHANGED <<pending, dispatched_nonces, left, prev>>
    <3>1. Flight' = Flight
      BY <1>4, <2>1, FlightStays
      DEF DispatcherReadWriter, hasherVars, writerVars, queueVars
    <3>2. TasksAt(Flight', WaitingPlaces) = TasksAt(Flight, WaitingPlaces)
      BY <3>1
    <3>3. QED
      BY <1>1, <2>1, <3>2, SubmitStays
  <2>2. QED
    BY <1>4, <2>1, ReadWriterCases, SubmitCut
<1>5. CASE \/ DispatcherLoop \/ DispatcherReadHasher \/ DispatcherSignal
           \/ DispatcherStopWorker \/ DispatcherJoin
  <2>1. /\ prev' = prev
        /\ UNCHANGED <<pending, hashing, hasher_tasks, reporter,
                       fin_hasher_tasks, writing>>
    BY <1>5 DEF DispatcherLoop, DispatcherReadHasher, DispatcherSignal,
                DispatcherStopWorker, DispatcherJoin, hasherVars,
                writerVars, queueVars
  <2>2. TasksAt(Flight', WaitingPlaces) = TasksAt(Flight, WaitingPlaces)
    BY <2>1, FlightStays
  <2>3. QED
    BY <1>1, <2>1, <2>2, SubmitStays
<1>6. QED
  BY <1>2, <1>3, <1>4, <1>5 DEF Dispatcher

LEMMA HasherSubmits ==
  ASSUME IInv, SubmitInv, HasherStep \/ HasherPopNull
  PROVE  SubmitInv'
<1>1. UNCHANGED <<wpc, success, submitted, prev>>
  BY DEF HasherStep, HasherLoop, HasherPop, HasherPlot, HasherPush,
         HasherCount, HasherPopNull, dispatcherVars, writerVars
<1>2. CASE HasherPop
  <2>1. TasksAt(Flight', WaitingPlaces) = TasksAt(Flight, WaitingPlaces)
    BY <1>2, PopMoves, TasksMove, WaitingPlacesAre
  <2>2. QED
    BY <1>1, <2>1, SubmitStays
<1>3. CASE HasherPush
  <2>1. TasksAt(Flight', WaitingPlaces) = TasksAt(Flight, WaitingPlaces)
    <3>1. PICK w \in Writers :
                 Moves(<<"hashing", 0>>, <<"fin_hasher_tasks", w>>)
      BY <1>3, PushMoves
    <3>2. /\ <<"hashing", 0>> \in WaitingPlaces
          /\ <<"fin_hasher_tasks", w>> \in WaitingPlaces
          /\ WaitingPlaces \in SUBSET Places
      BY WaitingPlacesAre
    <3>3. QED
      BY <3>1, <3>2, TasksMove
  <2>2. QED
    BY <1>1, <2>1, SubmitStays
<1>4. CASE HasherLoop \/ HasherPlot \/ HasherCount \/ HasherPopNull
  <2>1. Flight' = Flight
    BY <1>4, FlightStays
    DEF HasherLoop, HasherPlot, HasherCount, HasherPopNull, dispatcherVars,
        writerVars, queueVars
  <2>2. TasksAt(Flight', WaitingPlaces) = TasksAt(Flight, WaitingPlaces)
    BY <2>1
  <2>3. QED
    BY <1>1, <2>2, SubmitStays
<1>5. QED
  BY <1>2, <1>3, <1>4 DEF HasherStep

LEMMA WriterModesNext ==
  ASSUME IInv, WriterModes, NEW w \in Writers, WriterStep(w) \/ WriterPopNull(w)
  PROVE  WriterModes' /\ \A v \in Writers : Lost(v) => Lost(v)'
<1>1. /\ wpc \in [Writers -> {"loop", "pop", "open", "write", "failed",
                              "submit", "report", "exited"}]
      /\ success \in [Writers -> BOOLEAN]
  BY DEF IInv, WriterInv, WriterTypeOK
<1> USE <1>1 DEF WriterModes, WriteOff, Lost
<1>2. CASE WriterLoop(w)
  BY <1>2 DEF WriterLoop
<1>3. CASE WriterPop(w)
  BY <1>3 DEF WriterPop
<1>4. CASE WriterOpen(w)
  BY <1>4 DEF WriterOpen
<1>5. CASE WriterWrite(w)
  <2>1. \/ /\ wpc' = [wpc EXCEPT ![w] = "submit"]
           /\ success' = [success EXCEPT ![w] = TRUE]
        \/ /\ wpc' = [wpc EXCEPT ![w] = "failed"]
           /\ success' = [success EXCEPT ![w] = FALSE]
    BY <1>5 DEF WriterWrite
  <2>2. wpc[w] = "write"
    BY <1>5 DEF WriterWrite
  <2>3. QED
    BY <2>1, <2>2
<1>6. CASE WriterRetry(w)
  BY <1>6 DEF WriterRetry
<1>7. CASE WriterSubmit(w)
  BY <1>7 DEF WriterSubmit
<1>8. CASE WriterReport(w)
  BY <1>8 DEF WriterReport
<1>9. CASE WriterPopNull(w)
  BY <1>9 DEF WriterPopNull
<1>10. QED
  BY <1>2, <1>3, <1>4, <1>5, <1>6, <1>7, <1>8, <1>9 DEF WriterStep

\* The writer is through with its task, submitted or given up.
LEMMA ToReport ==
  ASSUME IInv, OrderInv, NEW w \in Writers, wpc[w] \in {"failed", "submit"},
         wpc' = [wpc EXCEPT ![w] = "report"],
         UNCHANGED <<pending, hashing, hasher_tasks, reporter,
                     fin_hasher_tasks, writing>>
  PROVE  /\ Waiting' \subseteq Waiting
         /\ \A u \in Waiting : u = writing[w][1] \/ u \in Waiting'
         /\ \A u \in Waiting' : u.file[1] = w => Earlier(writing[w][1], u)
<1> DEFINE a == <<"writing", w>>
<1>1. wpc'[w] = "report" /\ \A v \in Writers \ {w} : wpc'[v] = wpc[v]
  BY DEF IInv, WriterInv, WriterTypeOK
<1>2. WaitingPlaces' = WaitingPlaces \ {a}
  <2>1. \A p \in Places : p[1] = "writing" =>
          p[2] \in Writers /\ (p[2] = w <=> p = a)
    BY DEF Places
  <2>2. QED
    BY <1>1, <2>1 DEF WaitingPlaces
<1>3. Flight' = Flight
  BY FlightStays
<1>4. Waiting' = TasksAt(Flight, WaitingPlaces \ {a})
  BY <1>2, <1>3 DEF Waiting, TasksAt
<1>5. /\ Tasks(Flight[a]) = {writing[w][1]}
      /\ \A u \in TasksAt(Flight, WaitingPlaces \ {a}) :
           u.file[1] = w => Earlier(writing[w][1], u)
  BY HeadIsFirst
<1> HIDE DEF a
<1>6. Waiting \subseteq Tasks(Flight[a]) \cup Waiting'
  BY <1>4 DEF Waiting, TasksAt
<1>7. Waiting' \subseteq Waiting
  BY <1>4 DEF Waiting, TasksAt
<1>8. QED
  BY <1>4, <1>5, <1>6, <1>7

\* The writer gives up the task, and all after it.
LEMMA GivesUp ==
  ASSUME IInv, OrderInv, SubmitInv, NEW w \in Writers, WriterRetry(w),
         wpc'[w] = "report", ~WriteOff
  PROVE  Submissions'
<1> DEFINE t == writing[w][1]
<1>1. /\ wpc[w] = "failed" /\ success' = success
      /\ wpc' = [wpc EXCEPT ![w] = "report"]
      /\ UNCHANGED <<pending, hashing, hasher_tasks, reporter,
                     fin_hasher_tasks, writing>>
      /\ UNCHANGED <<submitted, prev>>
  <2>1. wpc \in [Writers -> {"loop", "pop", "open", "write", "failed",
                             "submit", "report", "exited"}]
    BY DEF IInv, WriterInv, WriterTypeOK
  <2>2. QED
    BY <2>1 DEF WriterRetry, dispatcherVars, hasherVars, queueVars
<1>2. Lost(w)' /\ \A v \in Writers : Lost(v) => Lost(v)'
  <2>1. ~success[w]
    BY <1>1 DEF SubmitInv, WriterModes
  <2>2. \A v \in Writers : Lost(v) => Lost(v)'
    BY WriterModesNext DEF SubmitInv, WriterStep
  <2>3. QED
    BY <1>1, <2>1, <2>2 DEF Lost
<1>3. /\ Waiting' \subseteq Waiting
      /\ \A u \in Waiting : u = t \/ u \in Waiting'
  BY <1>1, ToReport
<1>4. t.file[1] = w
  BY <1>1, HeadIsFirst
<1> HIDE DEF t
<1>5. Submissions
  BY DEF SubmitInv
<1>6. /\ \A u \in Waiting' : Unsubmitted(u.file)' <= u.sn
      /\ \A f \in Files : Unsubmitted(f)' <= prev'[f]
  BY <1>1, <1>3, <1>5 DEF Submissions, Unsubmitted
<1>7. ASSUME NEW f \in Files, ~Lost(f[1])',
             NEW x \in Unsubmitted(f) .. prev[f] - 1
      PROVE  \E u \in Waiting' :
               u.file = f /\ u.sn <= x /\ x < u.sn + u.nonces
  <2>1. f[1] # w /\ ~Lost(f[1])
    BY <1>2, <1>7, FilesAre
  <2>2. PICK u \in Waiting : u.file = f /\ u.sn <= x /\ x < u.sn + u.nonces
    BY <1>5, <2>1 DEF Submissions
  <2>3. u # t
    BY <1>4, <2>1, <2>2
  <2>4. QED
    BY <1>3, <2>2, <2>3
<1>8. QED
  BY <1>1, <1>6, <1>7 DEF Submissions, Unsubmitted

\* submit_nonces counts the nonces of the first task that waits.
LEMMA Submits ==
  ASSUME IInv, OrderInv, SubmitInv, NEW w \in Writers, WriterSubmit(w)
  PROVE  Submissions'
<1> SUFFICES ASSUME NEW t, t = writing[w][1], NEW f, f = t.file
             PROVE  Submissions'
  OBVIOUS
<1>1. /\ wpc[w] = "submit"
      /\ wpc' = [wpc EXCEPT ![w] = "report"]
      /\ submitted' = [submitted EXCEPT ![f] = submitted[f] + t.nonces]
      /\ UNCHANGED <<pending, hashing, hasher_tasks, reporter,
                     fin_hasher_tasks, writing>>
      /\ prev' = prev
  BY DEF WriterSubmit, dispatcherVars, hasherVars, queueVars
<1>2. \A v \in Writers : Lost(v) => Lost(v)'
  BY WriterModesNext DEF SubmitInv, WriterStep
<1>3. /\ Waiting' \subseteq Waiting
      /\ \A u \in Waiting : u = t \/ u \in Waiting'
      /\ \A u \in Waiting' : u.file[1] = w => Earlier(t, u)
  BY <1>1, ToReport
<1>4. /\ t \in Waiting /\ t \in Task
      /\ f \in Files /\ f[1] = w
      /\ t.sn = Unsubmitted(f)
  BY <1>1, HeadInOrder
<1>5. /\ t \in TasksAt(Flight, Places)
      /\ t.sn \in Nat /\ t.nonces \in Nat \ {0}
  BY <1>4, WaitingIs
<1>6. Submissions
  BY <1>1 DEF SubmitInv, WriterModes
<1>7. submitted \in [Files -> Nat] /\ prev \in [Files -> Nat]
  BY DEF IInv, WriterInv, WriterTypeOK, DispatcherInv, DispatcherTypeOK
<1>8. t.sn + t.nonces <= prev[f]
  BY <1>5 DEF OrderInv, CutTasks
<1>9. /\ Unsubmitted(f)' = t.sn + t.nonces
      /\ \A g \in Files \ {f} : Unsubmitted(g)' = Unsubmitted(g)
      /\ \A g \in Files : Unsubmitted(g) \in Nat
  <2>1. \A g \in Files : Plot(g).sn \in Nat
    BY FilesAre
  <2>2. submitted'[f] = submitted[f] + t.nonces
    BY <1>1, <1>4, <1>7
  <2>3. \A g \in Files \ {f} : submitted'[g] = submitted[g]
    BY <1>1, <1>4, <1>7
  <2>4. QED
    BY <1>4, <1>5, <1>7, <2>1, <2>2, <2>3 DEF Unsubmitted
<1>10. ASSUME NEW u \in Waiting' PROVE Unsubmitted(u.file)' <= u.sn
  <2>1. /\ u \in Waiting /\ u.file \in Files /\ u.sn \in Nat
        /\ u.file[2] \in Nat
    BY <1>3, WaitingIs, FilesBefore
  <2>2. CASE u.file = f
    <3>1. Earlier(t, u)
      BY <1>3, <1>4, <2>2
    <3>2. t.file[2] = u.file[2]
      BY <2>2
    <3>3. t.sn + t.nonces <= u.sn
      BY <2>1, <3>1, <3>2 DEF Earlier
    <3>4. QED
      BY <1>9, <2>2, <3>3
  <2>3. CASE u.file # f
    BY <1>6, <1>9, <2>1, <2>3 DEF Submissions
  <2>4. QED
    BY <2>2, <2>3
<1>11. ASSUME NEW g \in Files PROVE Unsubmitted(g)' <= prev'[g]
  <2>1. CASE g = f
    BY <1>1, <1>8, <1>9, <2>1
  <2>2. CASE g # f
    BY <1>1, <1>6, <1>9, <2>2 DEF Submissions
  <2>3. QED
    BY <2>1, <2>2
<1>12. ASSUME NEW g \in Files, ~Lost(g[1])',
              NEW x \in Unsubmitted(g)' .. prev'[g] - 1
       PROVE  \E u \in Waiting' :
                u.file = g /\ u.sn <= x /\ x < u.sn + u.nonces
  <2>1. ~Lost(g[1])
    BY <1>2, <1>12, FilesAre
  <2>2. prev[g] \in Nat /\ prev'[g] = prev[g]
    BY <1>1, <1>7
  <2>3. x \in Unsubmitted(g) .. prev[g] - 1 /\ (g = f => t.sn + t.nonces <= x)
    <3>1. CASE g = f
      BY <1>4, <1>5, <1>9, <2>2, <3>1
    <3>2. CASE g # f
      BY <1>9, <2>2, <3>2
    <3>3. QED
      BY <3>1, <3>2
  <2>4. PICK u \in Waiting : u.file = g /\ u.sn <= x /\ x < u.sn + u.nonces
    BY <1>6, <2>1, <2>3 DEF Submissions
  <2>5. u # t
    <3>1. x \in Int
      BY <1>9, <2>2, <2>3
    <3>2. QED
      BY <1>5, <2>3, <2>4, <3>1
  <2>6. QED
    BY <1>3, <2>4, <2>5
<1>13. QED
  BY <1>10, <1>11, <1>12 DEF Submissions

LEMMA WriterSubmits ==
  ASSUME IInv, IInv', OrderInv, SubmitInv, NEW w \in Writers,
         WriterStep(w) \/ WriterPopNull(w)
  PROVE  SubmitInv'
<1>1. WriterModes' /\ \A v \in Writers : Lost(v) => Lost(v)'
  BY WriterModesNext DEF SubmitInv
<1>2. wpc \in [Writers -> {"loop", "pop", "open", "write", "failed",
                           "submit", "report", "exited"}]
  BY DEF IInv, WriterInv, WriterTypeOK
<1> SUFFICES ASSUME ~WriteOff PROVE Submissions'
  BY <1>1 DEF SubmitInv, WriteOff
<1>3. Submissions
  BY DEF SubmitInv
<1>4. CASE WriterPop(w)
  <2>1. UNCHANGED <<submitted, prev>>
    BY <1>4 DEF WriterPop, dispatcherVars
  <2>2. wpc[w] = "pop" /\ wpc' = [wpc EXCEPT ![w] = "open"]
    BY <1>4 DEF WriterPop
  <2>3. WaitingPlaces' = WaitingPlaces
    BY <1>2, <2>2, WaitingPlacesStay
  <2>4. TasksAt(Flight', WaitingPlaces) = TasksAt(Flight, WaitingPlaces)
    <3>1. Moves(<<"fin_hasher_tasks", w>>, <<"writing", w>>)
      BY <1>4, WriterPopMoves
    <3>2. /\ WaitingPlaces \in SUBSET Places
          /\ <<"fin_hasher_tasks", w>> \in WaitingPlaces
          /\ <<"writing", w>> \in WaitingPlaces
      BY <2>2, WaitingPlacesAre
    <3>3. QED
      BY <3>1, <3>2, TasksMove
  <2>5. Waiting' = Waiting
    BY <2>3, <2>4 DEF Waiting, TasksAt
  <2>6. QED
    BY <1>1, <1>3, <2>1, <2>5, SubmissionsStay
<1>5. CASE WriterReport(w)
  <2> DEFINE a == <<"writing", w>>
             b == <<"reporter", 0>>
  <2>1. UNCHANGED <<submitted, prev>>
    BY <1>5 DEF WriterReport, dispatcherVars
  <2>2. /\ wpc[w] = "report" /\ wpc' = [wpc EXCEPT ![w] = "loop"]
        /\ writing' = [writing EXCEPT ![w] = <<>>]
    BY <1>5 DEF WriterReport
  <2>3. WaitingPlaces' = WaitingPlaces \cup {a}
    <3>1. \A p \in Places : p[1] = "writing" =>
            p[2] \in Writers /\ (p[2] = w <=> p = a)
      BY DEF Places
    <3>2. a \in Places /\ a[1] # "reporter"
      BY PlacesAre
    <3>3. wpc'[w] = "loop" /\ \A v \in Writers \ {w} : wpc'[v] = wpc[v]
      BY <1>2, <2>2
    <3>4. QED
      BY <2>2, <3>1, <3>2, <3>3 DEF WaitingPlaces
  <2>4. Tasks(Flight'[a]) = {}
    <3>1. Flight'[a] = <<>>
      <4>1. writing'[w] = <<>>
        BY <2>2 DEF IInv, WriterInv, WriterTypeOK
      <4>2. QED
        BY <4>1, FlightAtNext
    <3>2. QED
      BY <3>1, EmptySeq DEF Tasks
  <2>5. \A p \in WaitingPlaces : Flight'[p] = Flight[p]
    <3>1. Moves(a, b) /\ a \notin WaitingPlaces /\ b \notin WaitingPlaces
      BY <1>5, <2>2, ReportMoves, WaitingPlacesAre
    <3>2. QED
      BY <3>1, WaitingPlacesAre DEF Moves
  <2> HIDE DEF a, b
  <2>6. Waiting' = Waiting
    BY <2>3, <2>4, <2>5 DEF Waiting, TasksAt
  <2>7. QED
    BY <1>1, <1>3, <2>1, <2>6, SubmissionsStay
<1>6. CASE WriterRetry(w) /\ wpc'[w] = "report"
  BY <1>6, GivesUp
<1>7. CASE \/ WriterLoop(w) \/ WriterOpen(w) \/ WriterWrite(w)
           \/ WriterRetry(w) /\ wpc'[w] # "report"
           \/ WriterPopNull(w)
  <2>1. /\ UNCHANGED <<pending, hashing, hasher_tasks, reporter,
                       fin_hasher_tasks, writing>>
        /\ UNCHANGED <<submitted, prev>>
    BY <1>7 DEF WriterLoop, WriterOpen, WriterWrite, WriterRetry,
                WriterPopNull, dispatcherVars, hasherVars, queueVars
  <2>2. wpc[w] # "report" /\ wpc'[w] # "report"
        /\ \A v \in Writers \ {w} : wpc'[v] = wpc[v]
    BY <1>2, <1>7 DEF WriterLoop, WriterOpen, WriterWrite, WriterRetry,
                      WriterPopNull
  <2>3. WaitingPlaces' = WaitingPlaces
    BY <2>2, WaitingPlacesStay
  <2>4. Flight' = Flight
    BY <2>1, FlightStays
  <2>5. Waiting' = Waiting
    BY <2>3, <2>4 DEF Waiting, TasksAt
  <2>6. QED
    BY <1>1, <1>3, <2>1, <2>5, SubmissionsStay
<1>8. QED
  BY <1>4, <1>5, <1>6, <1>7, Submits DEF WriterStep

LEMMA NextSubmit ==
  IInv /\ IInv' /\ OrderInv /\ SubmitInv /\ [Next]_vars => SubmitInv'
<1> SUFFICES ASSUME IInv, IInv', OrderInv, SubmitInv, [Next]_vars
             PROVE  SubmitInv'
  OBVIOUS
<1>1. CASE UserSignal \/ UNCHANGED vars
  <2>1. /\ UNCHANGED <<pending, hashing, hasher_tasks, reporter,
                       fin_hasher_tasks, writing>>
        /\ UNCHANGED <<wpc, success, submitted, prev>>
    BY <1>1 DEF UserSignal, vars, dispatcherVars, hasherVars, writerVars,
                queueVars
  <2>2. TasksAt(Flight', WaitingPlaces) = TasksAt(Flight, WaitingPlaces)
    BY <2>1, FlightStays
  <2>3. QED
    BY <2>1, <2>2, SubmitStays
<1>2. QED
  BY <1>1, DispatcherSubmits, HasherSubmits, WriterSubmits DEF Next

LEMMA SubmitInvariance == Spec => [](IInv /\ OwnInv /\ OrderInv /\ SubmitInv)
BY OrderInvariance, InitSubmit, NextSubmit, PTL DEF Spec

\* A writer starts on a task when all before it of its files, and no nonce of
\* the task or after it, is submitted (worker_writer.cpp:94-97, where the
\* comment fears the opposite; writer_task::next and submit_nonces,
\* task_writer.h:21-36).
THEOREM TasksInOrder == Spec => []WritesInOrder
<1>1. IInv /\ OrderInv /\ SubmitInv => WritesInOrder
  BY HeadInOrder DEF WritesInOrder, Unsubmitted
<1>2. QED
  BY <1>1, SubmitInvariance, PTL
=============================================================================
