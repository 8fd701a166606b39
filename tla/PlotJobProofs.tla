--------------------------- MODULE PlotJobProofs ---------------------------
(***************************************************************************)
(* Proofs about the nonces of the plan and what gets to the disk, for any  *)
(* plan, any interleaving and any failures: every nonce is uncut, in one   *)
(* task in flight or finished, and the counters count them modulo the      *)
(* width of int; the pipeline implements PlotJob, through failures,        *)
(* retries and signals; and when nobody stops it, a file has its final     *)
(* name only with all of its nonces in it.                                 *)
(*                                                                         *)
(* PlotOrderProofs says that the tasks in flight are disjoint parts of     *)
(* what is cut.  A cut moves the nonces of one task from the uncut to the  *)
(* flying ones, a report moves them on, and every other step leaves the    *)
(* three sets alone.  A file is created once (HandleInv), a task is        *)
(* written from an intact block to its own place, so nothing on disk is    *)
(* lost, and what is submitted or reported is on disk (StoredInv).         *)
(***************************************************************************)
EXTENDS PlotOrderProofs

-----------------------------------------------------------------------------
(* Addition that wraps around                                              *)

LEMMA DivMod ==
  ASSUME NEW m \in Int, NEW d \in Nat \ {0}
  PROVE  /\ m \div d \in Int
         /\ m % d \in 0 .. d - 1
         /\ m = d * (m \div d) + (m % d)
OBVIOUS

LEMMA OneRest ==
  ASSUME NEW d \in Nat \ {0}, NEW q \in Int, NEW k \in Int,
         NEW r \in 0 .. d - 1, NEW s \in 0 .. d - 1,
         d * q + r = d * k + s
  PROVE  r = s
<1>1. d * (q - k) = s - r
  OBVIOUS
<1>2. CASE q - k >= 1
  <2>1. d * (q - k) >= d
    BY <1>2
  <2>2. QED
    BY <1>1, <2>1
<1>3. CASE q - k <= -1
  <2>1. d * (q - k) <= -d
    BY <1>3
  <2>2. QED
    BY <1>1, <2>1
<1>4. CASE q = k
  BY <1>4
<1>5. QED
  BY <1>2, <1>3, <1>4

LEMMA ModShift ==
  ASSUME NEW m \in Int, NEW k \in Int, NEW d \in Nat \ {0}
  PROVE  (m - d * k) % d = m % d
<1> DEFINE x == m \div d
           r == m % d
           y == (m - d * k) \div d
           s == (m - d * k) % d
<1>1. m = d * x + r /\ x \in Int /\ r \in 0 .. d - 1
  BY DivMod
<1>2. m - d * k = d * y + s /\ y \in Int /\ s \in 0 .. d - 1
  <2>1. m - d * k \in Int
    OBVIOUS
  <2>2. QED
    BY <2>1, DivMod
<1> HIDE DEF x, r, y, s
<1>3. d * x + r = d * (y + k) + s
  <2>1. d * (y + k) = d * y + d * k
    BY <1>2
  <2>2. d * x \in Int /\ d * y \in Int /\ d * k \in Int /\ r \in Int /\ s \in Int
    BY <1>1, <1>2
  <2>3. QED
    BY <1>1, <1>2, <2>1, <2>2
<1>4. y + k \in Int
  BY <1>2
<1>5. r = s
  BY <1>1, <1>2, <1>3, <1>4, OneRest
<1>6. QED
  BY <1>5 DEF r, s

LEMMA ModSmall ==
  ASSUME NEW d \in Nat \ {0}, NEW m \in 0 .. d - 1
  PROVE  m % d = m
<1>1. m = d * (m \div d) + (m % d) /\ m \div d \in Int /\ m % d \in 0 .. d - 1
  BY DivMod
<1>2. d * 0 + m = d * (m \div d) + (m % d)
  BY <1>1
<1>3. QED
  BY <1>1, <1>2, OneRest

\* A number that fits in an int is not changed.
LEMMA WrapSmall ==
  ASSUME NEW m \in Nat, m < IntRange
  PROVE  Wrap(m) = m
<1> DEFINE d == 2 * IntRange
           k == m + IntRange
<1>1. IntRange \in Nat \ {0}
  BY SizesAssumption
<1>2. d \in Nat \ {0} /\ k \in 0 .. d - 1 /\ k - IntRange = m
  BY <1>1
<1>3. k % d = k
  <2> HIDE DEF d, k
  <2>1. QED
    BY <1>2, ModSmall
<1>4. Wrap(m) = (k % d) - IntRange
  BY DEF Wrap
<1> HIDE DEF d, k
<1>5. QED
  BY <1>2, <1>3, <1>4

\* A counter that wraps around at every addition has wrapped the sum.
LEMMA WrapAdd ==
  ASSUME NEW m \in Int, NEW n \in Int
  PROVE  Wrap(Wrap(m) + n) = Wrap(m + n)
<1> DEFINE d == 2 * IntRange
           k == (m + IntRange) \div d
           r == (m + IntRange) % d
<1>1. IntRange \in Nat \ {0} /\ d \in Nat \ {0} /\ m + IntRange \in Int
  BY SizesAssumption
<1>2. m + IntRange = d * k + r /\ k \in Int /\ r \in 0 .. d - 1
  <2> HIDE DEF d
  <2>1. QED
    BY <1>1, DivMod
<1>3. Wrap(m) = r - IntRange
  BY DEF Wrap
<1> HIDE DEF d, k, r
<1> DEFINE z == (m + n) + IntRange
<1>4. (Wrap(m) + n) + IntRange = z - d * k /\ z \in Int
  <2>1. d * k \in Int /\ r \in Int
    BY <1>1, <1>2
  <2>2. QED
    BY <1>1, <1>2, <1>3, <2>1
<1>5. (z - d * k) % d = z % d
  <2> HIDE DEF z
  <2>1. QED
    BY <1>1, <1>2, <1>4, ModShift
<1>6. ((Wrap(m) + n) + IntRange) % d = z % d
  <2> HIDE DEF z
  <2>1. QED
    BY <1>4, <1>5, Zenon
<1>7. QED
  BY <1>6 DEF Wrap, d

-----------------------------------------------------------------------------
(* The nonces of the plan and of a task                                    *)

LEMMA FilesFinite == IsFiniteSet(Files)
<1> DEFINE F(w) == {w} \X (1 .. Len(Plots[w]))
           g == [w \in Writers |-> F(w)]
           S == {F(w) : w \in Writers}
<1>1. IsFiniteSet(Writers)
  BY WritersAre, FS_Interval
<1>2. g \in Surjection(Writers, S)
  BY DEF Surjection
<1>3. IsFiniteSet(S)
  <2> HIDE DEF g, S
  <2>1. QED
    BY <1>1, <1>2, FS_Surjection
<1>4. ASSUME NEW w \in Writers PROVE IsFiniteSet(F(w))
  <2>1. Len(Plots[w]) \in Nat
    <3>1. Plots[w] \in Seq([sn : Nat, nonces : Nat \ {0}])
      BY PlotsAssumption, WritersAre, ElementOfSeq
    <3>2. QED
      BY <3>1, LenProperties
  <2>2. IsFiniteSet(1 .. Len(Plots[w]))
    BY <2>1, FS_Interval
  <2>3. IsFiniteSet({w})
    BY FS_Singleton
  <2>4. QED
    BY <2>2, <2>3, FS_Product
<1>5. \A T \in S : IsFiniteSet(T)
  BY <1>4
<1>6. Files = UNION S
  BY DEF Files
<1> HIDE DEF S
<1>7. QED
  BY <1>3, <1>5, <1>6, FS_UNION

LEMMA NoncesFinite == IsFiniteSet(Nonces)
<1> DEFINE F(f) == {f} \X (0 .. Plot(f).nonces - 1)
           g == [f \in Files |-> F(f)]
           S == {F(f) : f \in Files}
<1>1. g \in Surjection(Files, S)
  BY DEF Surjection
<1>2. IsFiniteSet(S)
  <2> HIDE DEF g, S
  <2>1. QED
    BY <1>1, FilesFinite, FS_Surjection
<1>3. ASSUME NEW f \in Files PROVE IsFiniteSet(F(f))
  <2>1. Plot(f).nonces - 1 \in Int
    BY FilesAre
  <2>2. IsFiniteSet(0 .. Plot(f).nonces - 1)
    BY <2>1, FS_Interval
  <2>3. IsFiniteSet({f})
    BY FS_Singleton
  <2>4. QED
    BY <2>2, <2>3, FS_Product
<1>4. \A T \in S : IsFiniteSet(T)
  BY <1>3
<1>5. Nonces = UNION S
  BY DEF Nonces
<1> HIDE DEF S
<1>6. QED
  BY <1>2, <1>4, <1>5, FS_UNION

LEMMA NonceIs ==
  ASSUME NEW n
  PROVE  n \in Nonces <=> /\ n = <<n[1], n[2]>> /\ n[1] \in Files
                          /\ n[2] \in 0 .. Plot(n[1]).nonces - 1
BY DEF Nonces

LEMMA TaskNoncesAre ==
  ASSUME NEW t \in Task, Plot(t.file).sn <= t.sn
  PROVE  /\ \A n : n \in TaskNonces(t) <=>
                     /\ n = <<n[1], n[2]>> /\ n[1] = t.file
                     /\ n[2] \in Nat
                     /\ t.sn <= Plot(t.file).sn + n[2]
                     /\ Plot(t.file).sn + n[2] < t.sn + t.nonces
         /\ IsFiniteSet(TaskNonces(t))
         /\ Cardinality(TaskNonces(t)) = t.nonces
<1> DEFINE b == t.sn - Plot(t.file).sn
           I == b .. b + t.nonces - 1
           J == {b + k : k \in 0 .. t.nonces - 1}
<1>1. /\ t.sn \in Nat /\ t.nonces \in Nat \ {0} /\ t.file \in Files
      /\ Plot(t.file).sn \in Nat
  BY TaskType, WorkSizeType, FilesAre
<1>2. b \in Nat
  BY <1>1
<1>3. J = I
  <2> HIDE DEF b
  <2>1. \A k \in 0 .. t.nonces - 1 : b + k \in I
    BY <1>1, <1>2
  <2>2. \A j \in I : j - b \in 0 .. t.nonces - 1 /\ b + (j - b) = j
    BY <1>1, <1>2
  <2>3. QED
    BY <2>1, <2>2
<1>4. TaskNonces(t) = {t.file} \X J
  BY DEF TaskNonces
<1>5. ASSUME NEW j
      PROVE  j \in I <=> /\ j \in Nat
                         /\ t.sn <= Plot(t.file).sn + j
                         /\ Plot(t.file).sn + j < t.sn + t.nonces
  BY <1>1, <1>2
<1>6. IsFiniteSet(I) /\ Cardinality(I) = t.nonces
  <2>1. b \in Int /\ b + t.nonces - 1 \in Int
    BY <1>1, <1>2
  <2>2. ~(b > b + t.nonces - 1) /\ (b + t.nonces - 1) - b + 1 = t.nonces
    BY <1>1, <1>2
  <2> HIDE DEF b
  <2>3. QED
    BY <2>1, <2>2, FS_Interval
<1> HIDE DEF I, J
<1>7. /\ IsFiniteSet({t.file} \X I)
      /\ Cardinality({t.file} \X I) = t.nonces
  <2>1. IsFiniteSet({t.file}) /\ Cardinality({t.file}) = 1
    BY FS_Singleton
  <2>2. QED
    BY <1>1, <1>6, <2>1, FS_Product
<1>8. \A n : n \in {t.file} \X I <=>
               n = <<n[1], n[2]>> /\ n[1] = t.file /\ n[2] \in I
  OBVIOUS
<1>9. QED
  BY <1>3, <1>4, <1>5, <1>7, <1>8

\* The task nonces of an earlier task are others.
LEMMA EarlierApart ==
  ASSUME NEW t \in Task, NEW u \in Task, Earlier(t, u),
         Plot(t.file).sn <= t.sn, Plot(u.file).sn <= u.sn
  PROVE  TaskNonces(t) \cap TaskNonces(u) = {}
<1> SUFFICES ASSUME NEW n \in TaskNonces(t), n \in TaskNonces(u)
             PROVE  FALSE
  OBVIOUS
<1>1. t.file = u.file
  BY TaskNoncesAre
<1>2. /\ t.file[2] \in Nat /\ t.sn \in Nat /\ u.sn \in Nat
      /\ t.nonces \in Nat /\ Plot(t.file).sn \in Nat
  BY TaskType, WorkSizeType, FilesBefore, FilesAre
<1>3. t.sn + t.nonces <= u.sn
  BY <1>1, <1>2 DEF Earlier
<1>4. /\ n[2] \in Nat
      /\ Plot(t.file).sn + n[2] < t.sn + t.nonces
      /\ u.sn <= Plot(t.file).sn + n[2]
  BY <1>1, TaskNoncesAre
<1>5. QED
  BY <1>2, <1>3, <1>4

-----------------------------------------------------------------------------
(* The nonces in flight                                                    *)

Flying == TasksAt(Flight, Places)

LEMMA InFlightIs == InFlight = UNION {TaskNonces(t) : t \in Flying}
<1>1. \A s \in Slots : TaskIn(s) \in Flying
  BY SlotIs, TaskAt DEF Flying
<1>2. \A t \in Flying : \E s \in Slots : TaskIn(s) = t
  <2> SUFFICES ASSUME NEW t \in Flying PROVE \E s \in Slots : TaskIn(s) = t
    OBVIOUS
  <2>1. PICK p \in Places : \E i \in 1 .. Len(Flight[p]) : Flight[p][i] = t
    BY DEF Flying, TasksAt, Tasks
  <2>2. QED
    BY <2>1, SlotOf
<1>3. QED
  BY <1>1, <1>2 DEF InFlight

LEMMA UncutIs ==
  ASSUME NEW n
  PROVE  n \in Uncut <=> n \in Nonces /\ Plot(n[1]).sn + n[2] >= prev[n[1]]
BY DEF Uncut

\* The nonces of a task in flight are cut.
LEMMA FlyingIs ==
  ASSUME IInv, OrderInv, NEW t \in Flying
  PROVE  /\ t \in Task /\ Plot(t.file).sn <= t.sn
         /\ TaskNonces(t) \subseteq Nonces \ Uncut
<1>1. t \in Task
  BY FlightType, TasksType DEF Flying
<1>2. Plot(t.file).sn <= t.sn /\ t.sn + t.nonces <= prev[t.file]
  BY DEF OrderInv, CutTasks, Flying
<1>3. /\ t.file \in Files /\ t.sn \in Nat /\ t.nonces \in Nat
      /\ Plot(t.file).sn \in Nat /\ Plot(t.file).nonces \in Nat
  BY <1>1, TaskType, WorkSizeType, FilesAre
<1>4. /\ prev[t.file] \in Nat /\ left[t.file] \in Nat
      /\ prev[t.file] + left[t.file] = Plot(t.file).sn + Plot(t.file).nonces
  BY <1>3 DEF OrderInv, CutFiles, IInv, DispatcherInv, DispatcherTypeOK
<1>5. ASSUME NEW n \in TaskNonces(t)
      PROVE  n \in Nonces /\ n \notin Uncut
  <2>1. /\ n = <<n[1], n[2]>> /\ n[1] = t.file /\ n[2] \in Nat
        /\ Plot(t.file).sn + n[2] < t.sn + t.nonces
    BY <1>1, <1>2, TaskNoncesAre
  <2>2. n[2] \in 0 .. Plot(t.file).nonces - 1
    BY <1>2, <1>3, <1>4, <2>1
  <2>3. n \in Nonces
    BY <1>3, <2>1, <2>2, NonceIs
  <2>4. ~(Plot(t.file).sn + n[2] >= prev[t.file])
    BY <1>2, <1>3, <1>4, <2>1
  <2>5. QED
    BY <2>1, <2>3, <2>4, UncutIs
<1>6. QED
  BY <1>1, <1>2, <1>5

\* The tasks of two slots share no nonce.
LEMMA SlotsApart ==
  ASSUME IInv, OrderInv, NEW p \in Places, NEW q \in Places,
         NEW i \in 1 .. Len(Flight[p]), NEW j \in 1 .. Len(Flight[q]),
         ~(p = q /\ i = j)
  PROVE  TaskNonces(Flight[p][i]) \cap TaskNonces(Flight[q][j]) = {}
<1> SUFFICES ASSUME NEW t, t = Flight[p][i], NEW u, u = Flight[q][j]
             PROVE  TaskNonces(t) \cap TaskNonces(u) = {}
  OBVIOUS
<1>1. t \in Flying /\ u \in Flying
  BY TaskAt DEF Flying
<1>2. /\ t \in Task /\ Plot(t.file).sn <= t.sn
      /\ u \in Task /\ Plot(u.file).sn <= u.sn
  BY <1>1, FlyingIs
<1>3. CASE t.file[1] = u.file[1]
  <2>1. Earlier(t, u) \/ Earlier(u, t)
    BY <1>3, FlightType, Comparable DEF OrderInv
  <2>2. QED
    BY <1>2, <2>1, EarlierApart
<1>4. CASE t.file[1] # u.file[1]
  BY <1>2, <1>4, TaskNoncesAre
<1>5. QED
  BY <1>3, <1>4

LEMMA InFlightIsNext == InFlight' = UNION {TaskNonces(t) : t \in Flying'}
<1>1. (InFlight = UNION {TaskNonces(t) : t \in Flying})'
  BY InFlightIs, PTL
<1>2. QED
  BY <1>1

-----------------------------------------------------------------------------
(* What the steps do to the nonces                                         *)

\* A cut takes the nonces of one task from the uncut ones.
LEMMA CutNonces ==
  ASSUME IInv, IInv', OrderInv, DispatcherReadWriter, dpc' = "submit",
         NEW w \in Writers, NEW f \in CurrentFiles(w), NEW b, CutTask(f, b)
  PROVE  \E t \in Task :
           /\ t.nonces = Smaller(WorkSize, left[f])
           /\ Plot(t.file).sn <= t.sn
           /\ TaskNonces(t) \subseteq Uncut
           /\ Uncut' = Uncut \ TaskNonces(t)
           /\ InFlight' = InFlight \cup TaskNonces(t)
<1> DEFINE a == <<"pending", 0>>
<1>1. PICK n : n = Smaller(WorkSize, left[f])
  OBVIOUS
<1>2. PICK t \in Task :
             /\ t = [file |-> f, sn |-> prev[f], block |-> b, nonces |-> n]
             /\ Enters(a, t)
  <2> HIDE DEF a
  <2>1. QED
    BY <1>1, CutAdds DEF a
<1>3. t.file = f /\ t.sn = prev[f] /\ t.nonces = n
  BY <1>2
<1>4. /\ f \in Files /\ n \in 1 .. WorkSize /\ n <= left[f]
      /\ left \in [Files -> Nat] /\ prev \in [Files -> Nat]
      /\ prev'[f] = prev[f] + n
      /\ \A g \in Files \ {f} : prev'[g] = prev[g]
  BY <1>1, CutIs
<1>5. /\ n \in Nat \ {0} /\ left[f] \in Nat /\ prev[f] \in Nat
      /\ Plot(f).sn \in Nat /\ Plot(f).nonces \in Nat
  BY <1>4, WorkSizeType, FilesAre
<1>6. /\ Plot(f).sn <= prev[f]
      /\ prev[f] + left[f] = Plot(f).sn + Plot(f).nonces
  BY <1>4 DEF OrderInv, CutFiles
<1>7. ASSUME NEW k
      PROVE  k \in TaskNonces(t) <=>
               /\ k = <<k[1], k[2]>> /\ k[1] = f /\ k[2] \in Nat
               /\ prev[f] <= Plot(f).sn + k[2]
               /\ Plot(f).sn + k[2] < prev[f] + n
  BY <1>3, <1>6, TaskNoncesAre
<1>8. TaskNonces(t) \subseteq Uncut
  <2> SUFFICES ASSUME NEW k \in TaskNonces(t) PROVE k \in Uncut
    OBVIOUS
  <2>1. /\ k = <<k[1], k[2]>> /\ k[1] = f /\ k[2] \in Nat
        /\ prev[f] <= Plot(f).sn + k[2]
        /\ Plot(f).sn + k[2] < prev[f] + n
    BY <1>7
  <2>2. k[2] \in 0 .. Plot(f).nonces - 1
    BY <1>4, <1>5, <1>6, <2>1
  <2>3. k \in Nonces
    BY <1>4, <2>1, <2>2, NonceIs
  <2>4. Plot(f).sn + k[2] >= prev[f]
    BY <1>5, <2>1
  <2>5. QED
    BY <2>1, <2>3, <2>4, UncutIs
<1>9. Uncut' = Uncut \ TaskNonces(t)
  <2> SUFFICES ASSUME NEW k \in Nonces
               PROVE  Plot(k[1]).sn + k[2] >= prev'[k[1]]
                      <=> k \in Uncut \ TaskNonces(t)
    BY DEF Uncut
  <2>1. /\ k = <<k[1], k[2]>> /\ k[1] \in Files
        /\ k[2] \in 0 .. Plot(k[1]).nonces - 1
    BY NonceIs
  <2>2. k[2] \in Nat
    BY <2>1, FilesAre
  <2>3. k \in Uncut <=> Plot(k[1]).sn + k[2] >= prev[k[1]]
    BY UncutIs
  <2>4. CASE k[1] = f
    <3>1. k \in TaskNonces(t) <=> /\ prev[f] <= Plot(f).sn + k[2]
                                  /\ Plot(f).sn + k[2] < prev[f] + n
      BY <1>7, <2>1, <2>2, <2>4
    <3>2. prev'[k[1]] = prev[f] + n
      BY <1>4, <2>4
    <3>3. QED
      BY <1>5, <2>2, <2>3, <2>4, <3>1, <3>2
  <2>5. CASE k[1] # f
    <3>1. k \notin TaskNonces(t)
      BY <1>7, <2>5
    <3>2. prev'[k[1]] = prev[k[1]]
      BY <1>4, <2>1, <2>5
    <3>3. QED
      BY <2>3, <3>1, <3>2
  <2>6. QED
    BY <2>4, <2>5
<1>10. InFlight' = InFlight \cup TaskNonces(t)
  <2>1. TasksAt(Flight', Places) = Flying \cup {t}
    BY <1>2, TasksEnter DEF Flying, Enters
  <2>2. Flying' = Flying \cup {t}
    BY <2>1 DEF Flying, TasksAt
  <2>3. /\ InFlight = UNION {TaskNonces(u) : u \in Flying}
        /\ InFlight' = UNION {TaskNonces(u) : u \in Flying'}
    BY InFlightIs, InFlightIsNext
  <2>4. QED
    BY <2>2, <2>3
<1>11. QED
  BY <1>1, <1>3, <1>6, <1>8, <1>9, <1>10

\* A report ends the flight of the nonces of one task.
LEMMA PollNonces ==
  ASSUME IInv, IInv', OrderInv, DispatcherPoll, reporter # <<>>
  PROVE  /\ Head(reporter) \in Flying
         /\ TaskNonces(Head(reporter)) \subseteq InFlight
         /\ Uncut' = Uncut
         /\ InFlight' = InFlight \ TaskNonces(Head(reporter))
<1> DEFINE a == <<"reporter", 0>>
<1>1. PICK t : t = Head(reporter)
  OBVIOUS
<1>2. Leaves(a) /\ Flight[a] = reporter
  BY PollTakes
<1>3. Flight[a] \in Seq(Task) /\ Flight[a] # <<>>
  BY <1>2, FlightType DEF Flights, Leaves
<1>4. /\ t = Flight[a][1] /\ 1 \in 1 .. Len(Flight[a])
      /\ Len(Flight[a]) \in Nat
      /\ Len(Tail(Flight[a])) = Len(Flight[a]) - 1
      /\ \A i \in 1 .. Len(Tail(Flight[a])) : Tail(Flight[a])[i] = Flight[a][i + 1]
  <2> HIDE DEF a
  <2>1. QED
    BY <1>1, <1>2, <1>3, TasksTail, HeadTailProperties, LenProperties
<1>5. t \in Flying /\ Flying = TasksAt(Flight', Places) \cup {t}
  <2> HIDE DEF a
  <2>1. a \in Places
    BY <1>2 DEF Leaves
  <2>2. QED
    BY <1>1, <1>2, <2>1, TasksLeave DEF Flying
<1>6. Flying' = TasksAt(Flight', Places)
  BY DEF Flying, TasksAt
<1>7. /\ InFlight = UNION {TaskNonces(u) : u \in Flying}
      /\ InFlight' = UNION {TaskNonces(u) : u \in Flying'}
  BY InFlightIs, InFlightIsNext
<1>8. ASSUME NEW u \in TasksAt(Flight', Places)
      PROVE  TaskNonces(u) \cap TaskNonces(t) = {}
  <2>1. PICK p \in Places : \E i \in 1 .. Len(Flight'[p]) : Flight'[p][i] = u
    BY DEF TasksAt, Tasks
  <2>2. PICK i \in 1 .. Len(Flight'[p]) : Flight'[p][i] = u
    BY <2>1
  <2>3. \E j \in 1 .. Len(Flight[p]) : u = Flight[p][j] /\ ~(p = a /\ j = 1)
    <3> HIDE DEF a
    <3>1. CASE p = a
      <4>1. i \in 1 .. Len(Tail(Flight[a])) /\ u = Tail(Flight[a])[i]
        BY <1>2, <2>2, <3>1 DEF Leaves
      <4>2. i + 1 \in 1 .. Len(Flight[a]) /\ i + 1 # 1
        BY <1>4, <4>1
      <4>3. u = Flight[a][i + 1]
        BY <1>4, <4>1
      <4>4. QED
        BY <3>1, <4>2, <4>3
    <3>2. CASE p # a
      BY <1>2, <2>2, <3>2 DEF Leaves
    <3>3. QED
      BY <3>1, <3>2
  <2>4. PICK j \in 1 .. Len(Flight[p]) : u = Flight[p][j] /\ ~(p = a /\ j = 1)
    BY <2>3
  <2> HIDE DEF a
  <2>5. a \in Places
    BY <1>2 DEF Leaves
  <2>6. TaskNonces(Flight[p][j]) \cap TaskNonces(Flight[a][1]) = {}
    BY <1>4, <2>4, <2>5, SlotsApart
  <2>7. QED
    BY <1>4, <2>4, <2>6
<1>9. InFlight' = InFlight \ TaskNonces(t)
  BY <1>5, <1>6, <1>7, <1>8
<1>10. TaskNonces(t) \subseteq InFlight
  BY <1>5, <1>7
<1>11. Uncut' = Uncut
  BY DEF Uncut, DispatcherPoll
<1>12. QED
  BY <1>1, <1>5, <1>9, <1>10, <1>11

LEMMA NoncesStay ==
  ASSUME UNCHANGED <<Flying, prev>>
  PROVE  UNCHANGED <<Uncut, InFlight>>
<1>1. /\ InFlight = UNION {TaskNonces(u) : u \in Flying}
      /\ InFlight' = UNION {TaskNonces(u) : u \in Flying'}
  BY InFlightIs, InFlightIsNext
<1>2. QED
  BY <1>1 DEF Uncut

\* A step of the dispatcher at a writer that cuts a task.
Cuts ==
  /\ DispatcherReadWriter
  /\ dpc' = "submit"
  /\ \E w \in Writers, b \in Blocks : \E f \in CurrentFiles(w) : CutTask(f, b)

Counts == <<Flying, prev, dispatched_nonces, finished_nonces>>

\* Every other step but a report moves a task on, if that.
LEMMA MoveKeepsFlying ==
  ASSUME IInv, NEW a, NEW b, Moves(a, b)
  PROVE  Flying' = Flying
<1>1. TasksAt(Flight', Places) = TasksAt(Flight, Places)
  BY TasksMove DEF Moves
<1>2. QED
  BY <1>1 DEF Flying, TasksAt

LEMMA StayKeepsFlying ==
  ASSUME UNCHANGED <<pending, hashing, hasher_tasks, reporter,
                     fin_hasher_tasks, writing>>
  PROVE  Flying' = Flying
BY FlightStays DEF Flying, TasksAt

LEMMA DispatcherNonces ==
  ASSUME IInv, Dispatcher
  PROVE  Cuts \/ (DispatcherPoll /\ reporter # <<>>) \/ UNCHANGED Counts
<1>1. CASE DispatcherSubmit
  <2>1. UNCHANGED <<prev, dispatched_nonces, finished_nonces>>
    BY <1>1 DEF DispatcherSubmit
  <2>2. QED
    BY <1>1, <2>1, SubmitMoves, MoveKeepsFlying DEF Counts
<1>2. CASE DispatcherPoll /\ reporter = <<>>
  <2>1. UNCHANGED <<prev, dispatched_nonces, finished_nonces>>
    BY <1>2 DEF DispatcherPoll
  <2>2. Flying' = Flying
    BY <1>2, StayKeepsFlying DEF DispatcherPoll, hasherVars, writerVars
  <2>3. QED
    BY <2>1, <2>2 DEF Counts
<1>3. CASE DispatcherReadWriter
  <2>1. CASE UNCHANGED <<pending, dispatched_nonces, left, prev>>
    <3>1. UNCHANGED <<prev, dispatched_nonces, finished_nonces>>
      BY <1>3, <2>1 DEF DispatcherReadWriter
    <3>2. Flying' = Flying
      BY <1>3, <2>1, StayKeepsFlying
      DEF DispatcherReadWriter, hasherVars, writerVars, queueVars
    <3>3. QED
      BY <3>1, <3>2 DEF Counts
  <2>2. CASE /\ dpc' = "submit"
             /\ \E b \in Allocatable, f \in CurrentFiles(cur_worker_pos + 1) :
                  CutTask(f, b)
    <3>1. Allocatable \subseteq Blocks
      BY DEF Allocatable, IInv, DispatcherInv, DispatcherTypeOK
    <3>2. cur_worker_pos + 1 \in Writers
      BY <1>3, ReadWriterCases
    <3>3. QED
      BY <1>3, <2>2, <3>1, <3>2 DEF Cuts
  <2>3. QED
    BY <1>3, <2>1, <2>2, ReadWriterCases
<1>4. CASE \/ DispatcherLoop \/ DispatcherReadHasher \/ DispatcherSignal
           \/ DispatcherStopWorker \/ DispatcherJoin
  <2>1. UNCHANGED <<prev, dispatched_nonces, finished_nonces>>
    BY <1>4 DEF DispatcherLoop, DispatcherReadHasher, DispatcherSignal,
                DispatcherStopWorker, DispatcherJoin
  <2>2. Flying' = Flying
    BY <1>4, StayKeepsFlying
    DEF DispatcherLoop, DispatcherReadHasher, DispatcherSignal,
        DispatcherStopWorker, DispatcherJoin, hasherVars, writerVars, queueVars
  <2>3. QED
    BY <2>1, <2>2 DEF Counts
<1>5. QED
  BY <1>1, <1>2, <1>3, <1>4 DEF Dispatcher

LEMMA WorkerNonces ==
  ASSUME IInv,
         \/ HasherStep \/ HasherPopNull
         \/ \E w \in Writers : WriterStep(w) \/ WriterPopNull(w)
  PROVE  UNCHANGED Counts
<1>1. UNCHANGED <<prev, dispatched_nonces, finished_nonces>>
  BY DEF HasherStep, HasherLoop, HasherPop, HasherPlot, HasherPush,
         HasherCount, HasherPopNull, WriterStep, WriterLoop, WriterPop,
         WriterOpen, WriterWrite, WriterRetry, WriterSubmit, WriterReport,
         WriterPopNull, dispatcherVars
<1>2. CASE HasherPop \/ HasherPush
  <2>1. ASSUME HasherPop PROVE Flying' = Flying
    BY <2>1, PopMoves, MoveKeepsFlying
  <2>2. ASSUME HasherPush PROVE Flying' = Flying
    <3>1. PICK a, b : Moves(a, b)
      BY <2>2, PushMoves
    <3>2. QED
      BY <3>1, MoveKeepsFlying
  <2>3. QED
    BY <1>1, <1>2, <2>1, <2>2 DEF Counts
<1>3. CASE HasherLoop \/ HasherPlot \/ HasherCount \/ HasherPopNull
  <2>1. Flying' = Flying
    BY <1>3, StayKeepsFlying
    DEF HasherLoop, HasherPlot, HasherCount, HasherPopNull, dispatcherVars,
        writerVars, queueVars
  <2>2. QED
    BY <1>1, <2>1 DEF Counts
<1>4. ASSUME NEW w \in Writers, WriterPop(w) \/ WriterReport(w)
      PROVE  UNCHANGED Counts
  BY <1>1, <1>4, WriterPopMoves, ReportMoves, MoveKeepsFlying DEF Counts
<1>5. ASSUME NEW w \in Writers,
             \/ WriterLoop(w) \/ WriterOpen(w) \/ WriterWrite(w)
             \/ WriterRetry(w) \/ WriterSubmit(w) \/ WriterPopNull(w)
      PROVE  UNCHANGED Counts
  <2>1. Flying' = Flying
    BY <1>5, StayKeepsFlying
    DEF WriterLoop, WriterOpen, WriterWrite, WriterRetry, WriterSubmit,
        WriterPopNull, dispatcherVars, hasherVars, queueVars
  <2>2. QED
    BY <1>1, <2>1 DEF Counts
<1>6. QED
  BY <1>2, <1>3, <1>4, <1>5 DEF HasherStep, WriterStep

LEMMA NonceSteps ==
  ASSUME IInv, [Next]_vars
  PROVE  Cuts \/ (DispatcherPoll /\ reporter # <<>>) \/ UNCHANGED Counts
<1>1. CASE UserSignal \/ UNCHANGED vars
  <2>1. UNCHANGED <<prev, dispatched_nonces, finished_nonces>>
    BY <1>1 DEF UserSignal, vars, dispatcherVars
  <2>2. Flying' = Flying
    BY <1>1, StayKeepsFlying
    DEF UserSignal, vars, dispatcherVars, hasherVars, writerVars, queueVars
  <2>3. QED
    BY <2>1, <2>2 DEF Counts
<1>2. QED
  BY <1>1, DispatcherNonces, WorkerNonces DEF Next

-----------------------------------------------------------------------------
(* The counters                                                            *)

CountInv ==
  /\ dispatched_nonces = Wrap(Cardinality(Nonces \ Uncut))
  /\ finished_nonces = Wrap(Cardinality(Nonces \ (Uncut \cup InFlight)))

\* A counter that adds what a set gains.
LEMMA CountGrows ==
  ASSUME NEW S \in SUBSET Nonces, NEW T \in SUBSET Nonces, S \cap T = {},
         NEW n, Cardinality(T) = n
  PROVE  Wrap(Cardinality(S \cup T)) = Wrap(Wrap(Cardinality(S)) + n)
<1>1. IsFiniteSet(S)
  BY NoncesFinite, FS_Subset
<1>2. IsFiniteSet(T)
  BY NoncesFinite, FS_Subset
<1>3. Cardinality(S) \in Nat
  BY <1>1, FS_CardinalityType
<1>4. n \in Nat
  BY <1>2, FS_CardinalityType
<1>5. Cardinality(S \cap T) = 0
  BY FS_EmptySet
<1>6. Cardinality(S \cup T) = Cardinality(S) + Cardinality(T) - Cardinality(S \cap T)
  BY <1>1, <1>2, FS_Union
<1>7. Cardinality(S \cup T) = Cardinality(S) + n
  BY <1>3, <1>4, <1>5, <1>6
<1>8. Wrap(Cardinality(S) + n) = Wrap(Wrap(Cardinality(S)) + n)
  BY <1>3, <1>4, WrapAdd
<1>9. QED
  BY <1>7, <1>8

LEMMA InFlightIsCut ==
  ASSUME IInv, OrderInv
  PROVE  InFlight \subseteq Nonces \ Uncut
BY InFlightIs, FlyingIs

LEMMA UncutInNonces == Uncut \subseteq Nonces /\ Uncut' \subseteq Nonces
BY DEF Uncut

LEMMA InitCount == Init => CountInv
<1> SUFFICES ASSUME Init PROVE CountInv
  OBVIOUS
<1>1. Uncut = Nonces
  <2> SUFFICES ASSUME NEW n \in Nonces PROVE n \in Uncut
    BY UncutInNonces
  <2>1. n[1] \in Files /\ n[2] \in 0 .. Plot(n[1]).nonces - 1
    BY NonceIs
  <2>2. prev[n[1]] = Plot(n[1]).sn
    BY <2>1 DEF Init
  <2>3. Plot(n[1]).sn + n[2] >= prev[n[1]]
    BY <2>1, <2>2, FilesAre
  <2>4. QED
    BY <2>3, UncutIs
<1>2. Nonces \ Uncut = {} /\ Nonces \ (Uncut \cup InFlight) = {}
  BY <1>1
<1>3. Cardinality({}) = 0
  BY FS_EmptySet
<1>4. Wrap(0) = 0
  BY SizesAssumption, WrapSmall
<1>5. dispatched_nonces = 0 /\ finished_nonces = 0
  BY DEF Init
<1>6. QED
  BY <1>2, <1>3, <1>4, <1>5 DEF CountInv

LEMMA NextCount ==
  IInv /\ IInv' /\ OrderInv /\ CountInv /\ [Next]_vars => CountInv'
<1> SUFFICES ASSUME IInv, IInv', OrderInv, CountInv, [Next]_vars
             PROVE  CountInv'
  OBVIOUS
<1> DEFINE C == Nonces \ Uncut
           D == Nonces \ (Uncut \cup InFlight)
<1>1. CASE Cuts
  <2>1. PICK w \in Writers, b \in Blocks : \E f \in CurrentFiles(w) : CutTask(f, b)
    BY <1>1 DEF Cuts
  <2>2. PICK f \in CurrentFiles(w) : CutTask(f, b)
    BY <2>1
  <2>3. DispatcherReadWriter /\ dpc' = "submit"
    BY <1>1 DEF Cuts
  <2>4. PICK t \in Task :
               /\ t.nonces = Smaller(WorkSize, left[f])
               /\ Plot(t.file).sn <= t.sn
               /\ TaskNonces(t) \subseteq Uncut
               /\ Uncut' = Uncut \ TaskNonces(t)
               /\ InFlight' = InFlight \cup TaskNonces(t)
    BY <2>2, <2>3, CutNonces
  <2>5. Cardinality(TaskNonces(t)) = t.nonces
    BY <2>4, TaskNoncesAre
  <2>6. /\ dispatched_nonces' = Wrap(dispatched_nonces + t.nonces)
        /\ finished_nonces' = finished_nonces
    BY <2>2, <2>3, <2>4 DEF CutTask, DispatcherReadWriter
  <2>7. /\ Nonces \ Uncut' = C \cup TaskNonces(t)
        /\ C \cap TaskNonces(t) = {} /\ C \subseteq Nonces
        /\ TaskNonces(t) \subseteq Nonces
    BY <2>4, UncutInNonces
  <2>8. Nonces \ (Uncut' \cup InFlight') = D
    BY <2>4
  <2>9. Wrap(Cardinality(C \cup TaskNonces(t))) = Wrap(Wrap(Cardinality(C)) + t.nonces)
    BY <2>5, <2>7, CountGrows
  <2>10. dispatched_nonces' = Wrap(Cardinality(Nonces \ Uncut'))
    BY <2>6, <2>7, <2>9 DEF CountInv
  <2>11. finished_nonces' = Wrap(Cardinality(Nonces \ (Uncut' \cup InFlight')))
    BY <2>6, <2>8 DEF CountInv
  <2>12. QED
    BY <2>10, <2>11 DEF CountInv
<1>2. CASE DispatcherPoll /\ reporter # <<>>
  <2>1. PICK t : t = Head(reporter)
    OBVIOUS
  <2>2. /\ t \in Flying /\ TaskNonces(t) \subseteq InFlight
        /\ Uncut' = Uncut
        /\ InFlight' = InFlight \ TaskNonces(t)
    BY <1>2, <2>1, PollNonces
  <2>3. t \in Task /\ Plot(t.file).sn <= t.sn
    BY <2>2, FlyingIs
  <2>4. Cardinality(TaskNonces(t)) = t.nonces
    BY <2>3, TaskNoncesAre
  <2>5. /\ finished_nonces' = Wrap(finished_nonces + t.nonces)
        /\ dispatched_nonces' = dispatched_nonces
    BY <1>2, <2>1 DEF DispatcherPoll
  <2>6. InFlight \subseteq Nonces \ Uncut
    BY InFlightIsCut
  <2>7. /\ Nonces \ (Uncut' \cup InFlight') = D \cup TaskNonces(t)
        /\ D \cap TaskNonces(t) = {} /\ D \subseteq Nonces
        /\ TaskNonces(t) \subseteq Nonces
    BY <2>2, <2>6
  <2>8. Wrap(Cardinality(D \cup TaskNonces(t))) = Wrap(Wrap(Cardinality(D)) + t.nonces)
    BY <2>4, <2>7, CountGrows
  <2>9. finished_nonces' = Wrap(Cardinality(Nonces \ (Uncut' \cup InFlight')))
    BY <2>5, <2>7, <2>8 DEF CountInv
  <2>10. dispatched_nonces' = Wrap(Cardinality(Nonces \ Uncut'))
    BY <2>2, <2>5 DEF CountInv
  <2>11. QED
    BY <2>9, <2>10 DEF CountInv
<1>3. CASE UNCHANGED Counts
  <2>1. UNCHANGED <<Uncut, InFlight, dispatched_nonces, finished_nonces>>
    BY <1>3, NoncesStay DEF Counts
  <2>2. QED
    BY <2>1 DEF CountInv
<1>4. QED
  BY <1>1, <1>2, <1>3, NonceSteps

LEMMA CountInvariance == Spec => [](IInv /\ OwnInv /\ OrderInv /\ CountInv)
BY OrderInvariance, InitCount, NextCount, PTL DEF Spec

LEMMA Conserved ==
  ASSUME IInv, OrderInv, CountInv
  PROVE  NonceConservation
<1>1. ASSUME NEW s \in Slots, NEW t \in Slots, s # t
      PROVE  TaskNonces(TaskIn(s)) \cap TaskNonces(TaskIn(t)) = {}
  <2>1. ~(s[1] = t[1] /\ s[2] = t[2])
    BY <1>1, SlotIs
  <2>2. /\ s[1] \in Places /\ s[2] \in 1 .. Len(Flight[s[1]])
        /\ TaskIn(s) = Flight[s[1]][s[2]]
    BY SlotIs
  <2>3. /\ t[1] \in Places /\ t[2] \in 1 .. Len(Flight[t[1]])
        /\ TaskIn(t) = Flight[t[1]][t[2]]
    BY SlotIs
  <2>4. QED
    BY ZenonT(40), <2>1, <2>2, <2>3, SlotsApart
<1>2. QED
  BY <1>1, InFlightIsCut DEF NonceConservation, CountInv

\* Every nonce is uncut, in one task in flight or finished, and the counters
\* say how many are, modulo the width of int (plotter.cpp:226, 244-248, 277).
THEOREM NoncesAreConserved == Spec => []NonceConservation
BY CountInvariance, Conserved, PTL

-----------------------------------------------------------------------------
(* Handles and names                                                       *)

AtWork == {"open", "write", "failed", "submit"}

\* The task of a writer at work.
LEMMA WorkIs ==
  ASSUME IInv, OrderInv, SubmitInv, NEW w \in Writers, wpc[w] \in AtWork,
         NEW t, t = writing[w][1]
  PROVE  /\ ~WriteOff
         /\ t \in Flying /\ t \in Task
         /\ t.file \in Files /\ t.file[1] = w
         /\ t.sn \in Nat /\ t.nonces \in Nat \ {0}
         /\ submitted[t.file] \in Nat
         /\ t.sn = Plot(t.file).sn + submitted[t.file]
         /\ submitted[t.file] + t.nonces <= Plot(t.file).nonces
<1>1. wpc[w] \in {"open", "write", "failed", "submit"}
  BY DEF AtWork
<1>2. ~WriteOff
  BY <1>1 DEF SubmitInv, WriterModes
<1>3. /\ t \in Waiting /\ t \in Task /\ t.file \in Files /\ t.file[1] = w
      /\ t.sn = Plot(t.file).sn + submitted[t.file]
  BY <1>1, HeadInOrder DEF Unsubmitted
<1>4. t \in Flying
  BY <1>3, WaitingIs DEF Flying
<1>5. /\ t.sn \in Nat /\ t.nonces \in Nat \ {0}
      /\ Plot(t.file).sn \in Nat /\ Plot(t.file).nonces \in Nat
  BY <1>3, TaskType, WorkSizeType, FilesAre
<1>6. submitted[t.file] \in Nat /\ prev[t.file] \in Nat /\ left[t.file] \in Nat
  BY <1>3 DEF IInv, WriterInv, WriterTypeOK, DispatcherInv, DispatcherTypeOK
<1>7. /\ t.sn + t.nonces <= prev[t.file]
      /\ prev[t.file] + left[t.file] = Plot(t.file).sn + Plot(t.file).nonces
  BY <1>3, <1>4 DEF OrderInv, CutTasks, CutFiles, Flying
<1>8. QED
  BY <1>2, <1>3, <1>4, <1>5, <1>6, <1>7

\* What a writer has open is the file of its last task, not renamed yet.
Handles ==
  /\ \A w \in Writers : handle[w] # NoFile =>
       /\ handle[w] = last_write_task[w]
       /\ handle[w][1] = w
       /\ name[handle[w]] = "plotting"
  /\ \A w \in Writers : wpc[w] \in AtWork =>
       last_write_task[w] = writing[w][1].file

\* A file that was never created is blank, and a renamed one is submitted.
Names ==
  \A f \in Files :
    /\ name[f] = "none" => \A k \in DOMAIN disk[f] : disk[f][k] = Blank
    /\ name[f] = "final" => submitted[f] = Plot(f).nonces
    /\ WriteOff => name[f] = "none"

HandleInv == Handles /\ Names

LEMMA InitHandle == Init => HandleInv
<1> SUFFICES ASSUME Init PROVE HandleInv
  OBVIOUS
<1>1. Handles
  BY DEF Init, Handles, AtWork
<1>2. Names
  BY DEF Init, Names
<1>3. QED
  BY <1>1, <1>2 DEF HandleInv

\* The types of what a writer changes.
LEMMA WriterTypes ==
  ASSUME IInv
  PROVE  /\ wpc \in [Writers -> {"loop", "pop", "open", "write", "failed",
                                 "submit", "report", "exited"}]
         /\ writing \in [Writers -> Seq(Task)]
         /\ handle \in [Writers -> Files \cup {NoFile}]
         /\ last_write_task \in [Writers -> Files \cup {NoFile}]
         /\ submitted \in [Files -> Nat]
         /\ disk = [f \in Files |-> disk[f]]
         /\ \A f \in Files :
              disk[f] \in [0 .. Plot(f).nonces - 1 -> Nat \cup {Blank}]
         /\ name \in [Files -> {"none", "plotting", "final"}]
BY DEF IInv, WriterInv, WriterTypeOK

LEMMA FileIsNotNoFile == \A f \in Files : f # NoFile
BY FilesAre DEF NoFile

\* A file is blank when it is created.
LEMMA OpenKeepsDisk ==
  ASSUME IInv, OrderInv, SubmitInv, HandleInv, NEW w \in Writers, WriterOpen(w)
  PROVE  disk' = disk
<1> SUFFICES ASSUME NEW f, f = writing[w][1].file PROVE disk' = disk
  OBVIOUS
<1>1. /\ f \in Files /\ submitted[f] # Plot(f).nonces
  <2>1. wpc[w] \in AtWork
    BY DEF WriterOpen, AtWork
  <2>2. PICK t : t = writing[w][1]
    OBVIOUS
  <2>3. /\ t.file \in Files /\ t.nonces \in Nat \ {0}
        /\ submitted[t.file] \in Nat
        /\ submitted[t.file] + t.nonces <= Plot(t.file).nonces
    BY <2>1, <2>2, WorkIs
  <2>4. QED
    BY <2>2, <2>3, FilesAre
<1>2. CASE name[f] = "plotting" \/ disk' = disk
  BY <1>2 DEF WriterOpen
<1>3. CASE name[f] # "plotting" /\
           disk' = [disk EXCEPT ![f] = [k \in DOMAIN @ |-> Blank]]
  <2>1. name[f] = "none"
    BY <1>1, <1>3, WriterTypes DEF HandleInv, Names
  <2>2. /\ disk[f] = [k \in DOMAIN disk[f] |-> disk[f][k]]
        /\ \A k \in DOMAIN disk[f] : disk[f][k] = Blank
    BY <1>1, <2>1, WriterTypes DEF HandleInv, Names
  <2>3. [k \in DOMAIN disk[f] |-> Blank] = disk[f]
    BY <2>2
  <2>4. disk' = [disk EXCEPT ![f] = disk[f]]
    BY <1>3, <2>3
  <2>5. disk = [g \in Files |-> disk[g]]
    BY WriterTypes
  <2>6. QED
    BY <1>1, <2>4, <2>5
<1>4. QED
  BY <1>2, <1>3 DEF WriterOpen

\* A task is written to a file that exists.
LEMMA WriteIs ==
  ASSUME IInv, OrderInv, SubmitInv, HandleInv, NEW w \in Writers,
         WriterWrite(w), NEW t, t = writing[w][1]
  PROVE  \E n \in 0 .. t.nonces :
           /\ disk' = Written(t, n)
           /\ n = 0 \/ name[t.file] = "plotting"
           /\ wpc'[w] = "submit" => sig_stop \/ n = t.nonces
<1>1. /\ wpc[w] = "write" /\ wpc[w] \in AtWork
  BY DEF WriterWrite, AtWork
<1>2. /\ t \in Task /\ t.file \in Files /\ t.nonces \in Nat \ {0}
  BY <1>1, WorkIs
<1>3. handle[w] # NoFile => name[t.file] = "plotting"
  BY <1>1 DEF HandleInv, Handles
<1>4. WholeWhenCut(t) \subseteq 0 .. t.nonces /\ 0 \in 0 .. t.nonces
  BY <1>2 DEF WholeWhenCut
<1>5. disk = Written(t, 0)
  <2>1. \A i \in Int : i \notin 0 .. 0 - 1
    OBVIOUS
  <2>2. /\ disk[t.file] = [k \in DOMAIN disk[t.file] |-> disk[t.file][k]]
        /\ DOMAIN disk[t.file] \subseteq Int
        /\ disk = [f \in Files |-> disk[f]]
    <3>1. disk[t.file] \in [0 .. Plot(t.file).nonces - 1 -> Nat \cup {Blank}]
      BY <1>2, WriterTypes
    <3>2. 0 .. Plot(t.file).nonces - 1 \subseteq Int
      BY <1>2, FilesAre
    <3>3. disk = [f \in Files |-> disk[f]]
      BY WriterTypes
    <3>4. QED
      BY <3>1, <3>2, <3>3
  <2>3. t.sn - Plot(t.file).sn \in Int
    BY <1>2, TaskType, FilesAre
  <2>4. \A k \in DOMAIN disk[t.file] :
          ~((k - (t.sn - Plot(t.file).sn)) \in 0 .. 0 - 1)
    BY <2>2, <2>3
  <2>5. disk[t.file] =
          [k \in DOMAIN disk[t.file] |->
             IF k - (t.sn - Plot(t.file).sn) \in 0 .. 0 - 1
             THEN mem[t.block][k - (t.sn - Plot(t.file).sn)]
             ELSE disk[t.file][k]]
    BY <2>2, <2>4
  <2>6. [disk EXCEPT ![t.file] = disk[t.file]] = disk
    BY <2>2
  <2>7. QED
    BY <2>5, <2>6 DEF Written
<1>6. CASE handle[w] # NoFile
  BY <1>1, <1>2, <1>3, <1>4, <1>6, WriterTypes DEF WriterWrite
<1>7. CASE handle[w] = NoFile
  BY <1>1, <1>2, <1>4, <1>5, <1>7, WriterTypes DEF WriterWrite
<1>8. QED
  BY <1>6, <1>7

\* A step that opens, closes, writes and renames nothing.
LEMMA HandleStays ==
  ASSUME HandleInv, UNCHANGED <<handle, last_write_task, name, disk, submitted>>,
         \A v \in Writers : wpc'[v] \in AtWork =>
           wpc[v] \in AtWork /\ writing'[v] = writing[v]
  PROVE  HandleInv'
<1>1. Handles'
  BY DEF HandleInv, Handles
<1>2. Names'
  BY DEF HandleInv, Names, WriteOff
<1>3. QED
  BY <1>1, <1>2 DEF HandleInv

LEMMA PopHandle ==
  ASSUME IInv, HandleInv, NEW w \in Writers, WriterPop(w)
  PROVE  HandleInv'
<1>1. PICK t : t = Head(fin_hasher_tasks[w])
  OBVIOUS
<1>2. /\ writing'[w] = <<t>>
      /\ \A v \in Writers \ {w} : writing'[v] = writing[v]
      /\ \A v \in Writers \ {w} : wpc'[v] = wpc[v]
  BY <1>1, WriterTypes DEF WriterPop
<1>3. CASE WriteOff
  <2>1. UNCHANGED <<handle, last_write_task, name, disk, submitted>>
    BY <1>3 DEF WriterPop
  <2>2. wpc'[w] \notin AtWork
    BY <1>3, WriterTypes DEF WriterPop, AtWork
  <2>3. QED
    BY <1>2, <2>1, <2>2, HandleStays
<1>4. CASE ~WriteOff
  <2>1. /\ UNCHANGED <<name, disk, submitted>>
        /\ last_write_task'[w] = t.file
        /\ handle'[w] = IF last_write_task[w] = t.file THEN handle[w] ELSE NoFile
        /\ \A v \in Writers \ {w} : /\ last_write_task'[v] = last_write_task[v]
                                    /\ handle'[v] = handle[v]
    BY <1>1, <1>4, WriterTypes DEF WriterPop
  <2>2. Handles'
    <3>1. ASSUME NEW v \in Writers, handle'[v] # NoFile
          PROVE  /\ handle'[v] = last_write_task'[v]
                 /\ handle'[v][1] = v
                 /\ name'[handle'[v]] = "plotting"
      BY <2>1, <3>1 DEF HandleInv, Handles
    <3>2. ASSUME NEW v \in Writers, wpc'[v] \in AtWork
          PROVE  last_write_task'[v] = writing'[v][1].file
      BY <1>2, <2>1, <3>2 DEF HandleInv, Handles
    <3>3. QED
      BY <3>1, <3>2 DEF Handles
  <2>3. Names'
    BY <2>1 DEF HandleInv, Names, WriteOff
  <2>4. QED
    BY <2>2, <2>3 DEF HandleInv
<1>5. QED
  BY <1>3, <1>4

LEMMA OpenHandle ==
  ASSUME IInv, OrderInv, SubmitInv, HandleInv, NEW w \in Writers, WriterOpen(w)
  PROVE  HandleInv'
<1>1. disk' = disk
  BY OpenKeepsDisk
<1>2. wpc[w] \in AtWork /\ wpc'[w] \in AtWork
  BY WriterTypes DEF WriterOpen, AtWork
<1>3. PICK f : f = writing[w][1].file
  OBVIOUS
<1>4. /\ f \in Files /\ f[1] = w /\ ~WriteOff
  <2>1. PICK t : t = writing[w][1]
    OBVIOUS
  <2>2. QED
    BY <1>2, <1>3, <2>1, WorkIs
<1>5. /\ UNCHANGED <<writing, last_write_task, submitted>>
      /\ \A v \in Writers \ {w} : wpc'[v] = wpc[v]
  BY WriterTypes DEF WriterOpen
<1>6. last_write_task[w] = f
  BY <1>2, <1>3 DEF HandleInv, Handles
<1>7. CASE UNCHANGED <<handle, name>>
  BY <1>1, <1>2, <1>5, <1>7, HandleStays
<1>8. CASE handle' = [handle EXCEPT ![w] = f] /\
           \/ name[f] = "plotting" /\ name' = name
           \/ name' = [name EXCEPT ![f] = "plotting"]
  <2>1. /\ handle'[w] = f
        /\ \A v \in Writers \ {w} : handle'[v] = handle[v]
    BY <1>8, WriterTypes
  <2>2. /\ name'[f] = "plotting"
        /\ \A g \in Files \ {f} : name'[g] = name[g]
    BY <1>4, <1>8, WriterTypes
  <2>3. Handles'
    <3>1. ASSUME NEW v \in Writers, handle'[v] # NoFile
          PROVE  /\ handle'[v] = last_write_task'[v]
                 /\ handle'[v][1] = v
                 /\ name'[handle'[v]] = "plotting"
      <4>1. CASE v = w
        BY <1>4, <1>5, <1>6, <2>1, <2>2, <4>1
      <4>2. CASE v # w
        <5>1. /\ handle'[v] = handle[v] /\ handle[v] # NoFile
              /\ handle[v] \in Files
          BY <2>1, <3>1, <4>2, WriterTypes
        <5>2. QED
          BY <1>5, <2>2, <5>1 DEF HandleInv, Handles
      <4>3. QED
        BY <4>1, <4>2
    <3>2. ASSUME NEW v \in Writers, wpc'[v] \in AtWork
          PROVE  last_write_task'[v] = writing'[v][1].file
      BY <1>2, <1>5, <3>2 DEF HandleInv, Handles
    <3>3. QED
      BY <3>1, <3>2 DEF Handles
  <2>4. Names'
    BY <1>1, <1>4, <1>5, <2>2 DEF HandleInv, Names, WriteOff
  <2>5. QED
    BY <2>3, <2>4 DEF HandleInv
<1>9. QED
  BY <1>3, <1>7, <1>8 DEF WriterOpen

LEMMA WriteHandle ==
  ASSUME IInv, OrderInv, SubmitInv, HandleInv, NEW w \in Writers, WriterWrite(w)
  PROVE  HandleInv'
<1>1. wpc[w] \in AtWork
  BY DEF WriterWrite, AtWork
<1>2. PICK t : t = writing[w][1]
  OBVIOUS
<1>3. PICK n \in 0 .. t.nonces : /\ disk' = Written(t, n)
                                 /\ n = 0 \/ name[t.file] = "plotting"
  BY <1>2, WriteIs
<1>4. t \in Task /\ t.file \in Files /\ t.nonces \in Nat \ {0}
  BY <1>1, <1>2, WorkIs
<1>5. /\ UNCHANGED <<writing, last_write_task, submitted, name>>
      /\ \A v \in Writers \ {w} : wpc'[v] = wpc[v] /\ handle'[v] = handle[v]
      /\ handle'[w] \in {handle[w], NoFile}
  BY WriterTypes DEF WriterWrite
<1>6. Handles'
  BY <1>1, <1>5 DEF HandleInv, Handles
<1>7. ASSUME NEW f \in Files, name[f] = "none"
      PROVE  DOMAIN disk'[f] = DOMAIN disk[f] /\
             \A k \in DOMAIN disk[f] : disk'[f][k] = disk[f][k]
  <2>1. CASE f # t.file
    BY <1>3, <2>1, WriterTypes DEF Written
  <2>2. CASE f = t.file
    <3>1. n = 0
      BY <1>3, <1>7, <2>2
    <3>2. /\ DOMAIN disk[f] \subseteq Int
          /\ t.sn - Plot(t.file).sn \in Int
      <4>1. disk[f] \in [0 .. Plot(f).nonces - 1 -> Nat \cup {Blank}]
        BY WriterTypes
      <4>2. QED
        BY <1>4, <4>1, FilesAre, TaskType
    <3>3. \A k \in DOMAIN disk[f] :
            ~((k - (t.sn - Plot(t.file).sn)) \in 0 .. 0 - 1)
      BY <3>2
    <3>4. disk'[f] = [k \in DOMAIN disk[f] |->
             IF k - (t.sn - Plot(t.file).sn) \in 0 .. n - 1
             THEN mem[t.block][k - (t.sn - Plot(t.file).sn)] ELSE disk[f][k]]
      BY <1>3, <2>2, WriterTypes DEF Written
    <3>5. QED
      BY <3>1, <3>3, <3>4
  <2>3. QED
    BY <2>1, <2>2
<1>8. Names'
  BY <1>5, <1>7 DEF HandleInv, Names, WriteOff
<1>9. QED
  BY <1>6, <1>8 DEF HandleInv

LEMMA SubmitHandle ==
  ASSUME IInv, OrderInv, SubmitInv, HandleInv, NEW w \in Writers, WriterSubmit(w)
  PROVE  HandleInv'
<1>1. wpc[w] \in AtWork /\ wpc'[w] \notin AtWork
  BY WriterTypes DEF WriterSubmit, AtWork
<1>2. PICK t : t = writing[w][1]
  OBVIOUS
<1>3. PICK f : f = t.file
  OBVIOUS
<1>4. PICK n : n = submitted[f] + t.nonces
  OBVIOUS
<1>5. /\ f \in Files /\ f[1] = w /\ ~WriteOff
      /\ n # submitted[f] /\ submitted[f] # Plot(f).nonces
  <2>1. /\ t.file \in Files /\ t.file[1] = w /\ ~WriteOff
        /\ t.nonces \in Nat \ {0} /\ submitted[t.file] \in Nat
        /\ submitted[t.file] + t.nonces <= Plot(t.file).nonces
    BY <1>1, <1>2, WorkIs
  <2>2. Plot(t.file).nonces \in Nat
    BY <2>1, FilesAre
  <2>3. QED
    BY <1>3, <1>4, <2>1, <2>2
<1>6. /\ UNCHANGED <<writing, last_write_task, disk>>
      /\ submitted'[f] = n
      /\ \A g \in Files \ {f} : submitted'[g] = submitted[g]
      /\ \A v \in Writers \ {w} : wpc'[v] = wpc[v] /\ handle'[v] = handle[v]
  BY <1>2, <1>3, <1>4, <1>5, WriterTypes DEF WriterSubmit
<1>7. \/ n # Plot(f).nonces /\ UNCHANGED <<handle, name>>
      \/ /\ n = Plot(f).nonces /\ handle'[w] = NoFile
         /\ name' = name \/ (name[f] = "plotting" /\
                             name' = [name EXCEPT ![f] = "final"])
  BY <1>2, <1>3, <1>4, WriterTypes DEF WriterSubmit
<1>8. \A g \in Files \ {f} : name'[g] = name[g]
  BY <1>5, <1>7, WriterTypes
<1>9. /\ name'[f] = "final" => n = Plot(f).nonces
      /\ name'[f] = "none" => name[f] = "none"
  <2>1. name[f] # "final"
    BY <1>5 DEF HandleInv, Names
  <2>2. QED
    BY <1>5, <1>7, <2>1, WriterTypes
<1>10. Handles'
  <2>1. ASSUME NEW v \in Writers, handle'[v] # NoFile
        PROVE  /\ handle'[v] = last_write_task'[v]
               /\ handle'[v][1] = v
               /\ name'[handle'[v]] = "plotting"
    <3>1. CASE v = w
      BY <1>6, <1>7, <2>1, <3>1 DEF HandleInv, Handles
    <3>2. CASE v # w
      <4>1. /\ handle'[v] = handle[v] /\ handle[v] # NoFile
            /\ handle[v] \in Files
        BY <1>6, <2>1, <3>2, WriterTypes
      <4>2. handle[v] # f
        BY <1>5, <3>2, <4>1 DEF HandleInv, Handles
      <4>3. QED
        BY <1>6, <1>8, <4>1, <4>2 DEF HandleInv, Handles
    <3>3. QED
      BY <3>1, <3>2
  <2>2. ASSUME NEW v \in Writers, wpc'[v] \in AtWork
        PROVE  last_write_task'[v] = writing'[v][1].file
    BY <1>1, <1>6, <2>2 DEF HandleInv, Handles
  <2>3. QED
    BY <2>1, <2>2 DEF Handles
<1>11. Names'
  BY <1>5, <1>6, <1>8, <1>9 DEF HandleInv, Names, WriteOff
<1>12. QED
  BY <1>10, <1>11 DEF HandleInv

LEMMA WriterHandle ==
  ASSUME IInv, OrderInv, SubmitInv, HandleInv, NEW w \in Writers,
         WriterStep(w) \/ WriterPopNull(w)
  PROVE  HandleInv'
<1>1. CASE WriterLoop(w)
  <2>1. /\ UNCHANGED <<writing, last_write_task, submitted, disk, name>>
        /\ \A v \in Writers \ {w} : wpc'[v] = wpc[v] /\ handle'[v] = handle[v]
        /\ handle'[w] \in {handle[w], NoFile}
        /\ wpc'[w] \notin AtWork
    BY <1>1, WriterTypes DEF WriterLoop, AtWork
  <2>2. Handles'
    BY <2>1 DEF HandleInv, Handles
  <2>3. Names'
    BY <2>1 DEF HandleInv, Names, WriteOff
  <2>4. QED
    BY <2>2, <2>3 DEF HandleInv
<1>2. CASE WriterRetry(w) \/ WriterReport(w) \/ WriterPopNull(w)
  <2>1. UNCHANGED <<handle, last_write_task, name, disk, submitted>>
    BY <1>2 DEF WriterRetry, WriterReport, WriterPopNull
  <2>2. \A v \in Writers \ {w} : wpc'[v] = wpc[v] /\ writing'[v] = writing[v]
    BY <1>2, WriterTypes DEF WriterRetry, WriterReport, WriterPopNull
  <2>3. wpc'[w] \in AtWork => wpc[w] \in AtWork /\ writing'[w] = writing[w]
    BY <1>2, WriterTypes DEF WriterRetry, WriterReport, WriterPopNull, AtWork
  <2>4. QED
    BY <2>1, <2>2, <2>3, HandleStays
<1>3. QED
  BY <1>1, <1>2, PopHandle, OpenHandle, WriteHandle, SubmitHandle DEF WriterStep

\* The dispatcher, the hasher and the user do nothing to files.
LEMMA OthersWrite ==
  ASSUME \/ Dispatcher \/ HasherStep \/ HasherPopNull \/ UserSignal
         \/ UNCHANGED vars
  PROVE  UNCHANGED writerVars
BY DEF Dispatcher, DispatcherLoop, DispatcherPoll, DispatcherReadHasher,
       DispatcherReadWriter, DispatcherSubmit, DispatcherSignal,
       DispatcherStopWorker, DispatcherJoin, HasherStep, HasherLoop, HasherPop,
       HasherPlot, HasherPush, HasherCount, HasherPopNull, UserSignal, vars,
       writerVars

LEMMA NextHandle ==
  IInv /\ OrderInv /\ SubmitInv /\ HandleInv /\ [Next]_vars => HandleInv'
<1> SUFFICES ASSUME IInv, OrderInv, SubmitInv, HandleInv, [Next]_vars
             PROVE  HandleInv'
  OBVIOUS
<1>1. CASE UNCHANGED writerVars
  <2>1. UNCHANGED <<handle, last_write_task, name, disk, submitted, wpc, writing>>
    BY <1>1 DEF writerVars
  <2>2. QED
    BY <2>1, HandleStays
<1>2. QED
  BY <1>1, OthersWrite, WriterHandle DEF Next

-----------------------------------------------------------------------------
(* What is stored                                                          *)

\* The first n nonces of a task.
FirstNonces(t, n) ==
  {m \in TaskNonces(t) : Plot(t.file).sn + m[2] < t.sn + n}

LEMMA FirstNoncesAre ==
  ASSUME NEW t \in Task, Plot(t.file).sn <= t.sn
  PROVE  /\ FirstNonces(t, t.nonces) = TaskNonces(t)
         /\ \A n : FirstNonces(t, n) \subseteq TaskNonces(t)
BY TaskNoncesAre DEF FirstNonces

\* A nonce is whole on disk when its task is written from an intact block.
LEMMA WrittenIs ==
  ASSUME IInv, NEW t \in Task, Plot(t.file).sn <= t.sn,
         NEW n \in 0 .. t.nonces, disk' = Written(t, n),
         Has(mem, t, t.nonces), NEW m \in Nonces
  PROVE  disk'[m[1]][m[2]] = IF m \in FirstNonces(t, n)
                             THEN Plot(m[1]).sn + m[2]
                             ELSE disk[m[1]][m[2]]
<1> DEFINE base == t.sn - Plot(t.file).sn
<1>1. /\ t.file \in Files /\ t.sn \in Nat /\ t.nonces \in Nat
      /\ Plot(t.file).sn \in Nat
  BY TaskType, WorkSizeType, FilesAre
<1>2. /\ m = <<m[1], m[2]>> /\ m[1] \in Files
      /\ m[2] \in 0 .. Plot(m[1]).nonces - 1
  BY NonceIs
<1>3. /\ disk = [f \in Files |-> disk[f]]
      /\ DOMAIN disk[m[1]] = 0 .. Plot(m[1]).nonces - 1
  BY <1>2, WriterTypes
<1>4. m[2] \in Nat
  BY <1>2, FilesAre
<1>5. CASE m[1] # t.file
  <2>1. disk'[m[1]] = disk[m[1]]
    BY <1>2, <1>3, <1>5 DEF Written
  <2>2. m \notin TaskNonces(t)
    BY <1>5, TaskNoncesAre
  <2>3. QED
    BY <2>1, <2>2 DEF FirstNonces
<1>6. CASE m[1] = t.file
  <2>1. disk'[t.file] =
          [k \in DOMAIN disk[t.file] |->
             IF k - base \in 0 .. n - 1 THEN mem[t.block][k - base]
             ELSE disk[t.file][k]]
    BY <1>1, <1>3 DEF Written
  <2>2. disk'[m[1]][m[2]] = IF m[2] - base \in 0 .. n - 1
                            THEN mem[t.block][m[2] - base]
                            ELSE disk[m[1]][m[2]]
    <3> HIDE DEF base
    <3>1. QED
      BY ZenonT(40), <1>2, <1>3, <1>6, <2>1
  <2>3. m \in FirstNonces(t, n) <=> m[2] - base \in 0 .. n - 1
    <3>1. m \in TaskNonces(t) <=> /\ t.sn <= Plot(t.file).sn + m[2]
                                  /\ Plot(t.file).sn + m[2] < t.sn + t.nonces
      BY <1>2, <1>4, <1>6, TaskNoncesAre
    <3>2. m \in FirstNonces(t, n) <=> /\ t.sn <= Plot(t.file).sn + m[2]
                                      /\ Plot(t.file).sn + m[2] < t.sn + n
      <4>1. n <= t.nonces /\ n \in Nat
        BY <1>1
      <4>2. Plot(t.file).sn + m[2] < t.sn + n
              => Plot(t.file).sn + m[2] < t.sn + t.nonces
        BY <1>1, <1>4, <4>1
      <4>3. QED
        BY <3>1, <4>2 DEF FirstNonces
    <3>3. QED
      BY <1>1, <1>4, <3>2
  <2>4. CASE m[2] - base \in 0 .. n - 1
    <3>1. m[2] - base \in 0 .. t.nonces - 1
      <4>1. base \in Int /\ n <= t.nonces /\ n \in Nat
        BY <1>1
      <4> HIDE DEF base
      <4>2. QED
        BY <1>1, <1>4, <2>4, <4>1
    <3>2. mem[t.block][m[2] - base] = t.sn + (m[2] - base)
      BY <3>1 DEF Has
    <3>3. t.sn + (m[2] - base) = Plot(t.file).sn + m[2]
      BY <1>1, <1>4
    <3>4. QED
      BY <1>6, <2>2, <2>3, <2>4, <3>2, <3>3
  <2>5. QED
    BY <2>2, <2>3, <2>4
<1>7. QED
  BY <1>5, <1>6

LEMMA StoredIs ==
  ASSUME NEW m
  PROVE  m \in Stored <=> m \in Nonces /\ disk[m[1]][m[2]] = Plot(m[1]).sn + m[2]
BY DEF Stored

LEMMA WriteStores ==
  ASSUME IInv, OrderInv, SubmitInv, IntactInv, HandleInv, BenchMode = 0,
         NEW w \in Writers, WriterWrite(w), NEW t, t = writing[w][1]
  PROVE  \E n \in 0 .. t.nonces :
           /\ Stored' = Stored \cup FirstNonces(t, n)
           /\ wpc'[w] = "submit" => sig_stop \/ n = t.nonces
<1>1. wpc[w] \in AtWork
  BY DEF WriterWrite, AtWork
<1>2. t \in Flying
  BY <1>1, WorkIs
<1>3. t \in Task /\ Plot(t.file).sn <= t.sn /\ TaskNonces(t) \subseteq Nonces
  BY <1>2, FlyingIs
<1>4. PICK n \in 0 .. t.nonces :
             /\ disk' = Written(t, n)
             /\ wpc'[w] = "submit" => sig_stop \/ n = t.nonces
  BY WriteIs
<1>5. Has(mem, t, t.nonces)
  <2> DEFINE a == <<"writing", w>>
  <2>1. a \in HashedPlaces /\ a \in Places /\ Flight[a] = writing[w]
    BY HashedPlacesAre, FlightAt
  <2>2. Len(writing[w]) = 1
    BY <1>1, WritingIs DEF AtWork
  <2>3. ~HashOff
    BY DEF HashOff
  <2>4. AllHas(mem, Flight, a)
    BY <2>1, <2>3 DEF IntactInv
  <2> HIDE DEF a
  <2>5. 1 \in 1 .. Len(Flight[a]) /\ Flight[a][1] = t
    BY <2>1, <2>2
  <2>6. QED
    BY <2>4, <2>5 DEF AllHas
<1>6. ASSUME NEW m \in Nonces
      PROVE  m \in Stored' <=> m \in Stored \/ m \in FirstNonces(t, n)
  <2>1. m \in Stored' <=> disk'[m[1]][m[2]] = Plot(m[1]).sn + m[2]
    BY DEF Stored
  <2>2. m \in Stored <=> disk[m[1]][m[2]] = Plot(m[1]).sn + m[2]
    BY StoredIs
  <2>3. disk'[m[1]][m[2]] = IF m \in FirstNonces(t, n)
                            THEN Plot(m[1]).sn + m[2]
                            ELSE disk[m[1]][m[2]]
    BY <1>3, <1>4, <1>5, WrittenIs
  <2>4. QED
    BY <2>1, <2>2, <2>3
<1>7. Stored \subseteq Nonces /\ Stored' \subseteq Nonces
  BY DEF Stored
<1>8. FirstNonces(t, n) \subseteq Nonces
  BY <1>3 DEF FirstNonces
<1>9. Stored' = Stored \cup FirstNonces(t, n)
  BY <1>6, <1>7, <1>8
<1>10. QED
  BY <1>4, <1>9

Finished == Nonces \ (Uncut \cup InFlight)

\* As long as nobody stops the program, what is written, reported, finished
\* or submitted is on disk.
Reported == Tasks(reporter) \cup
            {writing[w][1] : w \in {v \in Writers : wpc[v] \in {"submit", "report"}}}

StoredInv ==
  ~sig_stop /\ BenchMode = 0 =>
    /\ \A t \in Reported : TaskNonces(t) \subseteq Stored
    /\ Finished \subseteq Stored
    /\ \A m \in Nonces : m[2] < submitted[m[1]] => m \in Stored

LEMMA InitStored == Init => StoredInv
<1> SUFFICES ASSUME Init PROVE StoredInv
  OBVIOUS
<1>1. Reported = {}
  <2>1. /\ reporter = <<>> /\ wpc = [w \in Writers |-> "loop"]
    BY DEF Init
  <2>2. Tasks(<<>>) = {}
    BY EmptySeq DEF Tasks
  <2>3. QED
    BY <2>1, <2>2 DEF Reported
<1>2. Finished = {}
  <2> SUFFICES ASSUME NEW m \in Nonces PROVE m \in Uncut
    BY DEF Finished
  <2>1. m[1] \in Files /\ m[2] \in 0 .. Plot(m[1]).nonces - 1
    BY NonceIs
  <2>2. prev[m[1]] = Plot(m[1]).sn
    BY <2>1 DEF Init
  <2>3. Plot(m[1]).sn + m[2] >= prev[m[1]]
    BY <2>1, <2>2, FilesAre
  <2>4. QED
    BY <2>3, UncutIs
<1>3. \A m \in Nonces : ~(m[2] < submitted[m[1]])
  <2> SUFFICES ASSUME NEW m \in Nonces PROVE ~(m[2] < submitted[m[1]])
    OBVIOUS
  <2>1. m[1] \in Files /\ m[2] \in 0 .. Plot(m[1]).nonces - 1
    BY NonceIs
  <2>2. submitted[m[1]] = 0 /\ m[2] \in Nat
    BY <2>1, FilesAre DEF Init
  <2>3. QED
    BY <2>2
<1>4. QED
  BY <1>1, <1>2, <1>3 DEF StoredInv

\* A step that stores, reports, finishes and submits nothing new.
LEMMA StoredStays ==
  ASSUME StoredInv, sig_stop => sig_stop', Stored \subseteq Stored',
         Finished' \subseteq Finished, Reported' \subseteq Reported,
         submitted' = submitted
  PROVE  StoredInv'
<1> SUFFICES ASSUME ~sig_stop', BenchMode = 0
             PROVE  /\ \A t \in Reported' : TaskNonces(t) \subseteq Stored'
                    /\ Finished' \subseteq Stored'
                    /\ \A m \in Nonces : m[2] < submitted'[m[1]] => m \in Stored'
  BY DEF StoredInv
<1>1. QED
  BY DEF StoredInv

LEMMA SignalStays ==
  ASSUME [Next]_vars, sig_stop
  PROVE  sig_stop'
<1>1. CASE Dispatcher
  BY <1>1 DEF Dispatcher, DispatcherLoop, DispatcherPoll, DispatcherReadHasher,
              DispatcherReadWriter, DispatcherSubmit, DispatcherSignal,
              DispatcherStopWorker, DispatcherJoin
<1>2. CASE \/ HasherStep \/ HasherPopNull
           \/ \E w \in Writers : WriterStep(w) \/ WriterPopNull(w)
  BY <1>2 DEF HasherStep, HasherLoop, HasherPop, HasherPlot, HasherPush,
              HasherCount, HasherPopNull, WriterStep, WriterLoop, WriterPop,
              WriterOpen, WriterWrite, WriterRetry, WriterSubmit, WriterReport,
              WriterPopNull
<1>3. CASE UserSignal \/ UNCHANGED vars
  BY <1>3 DEF UserSignal, vars
<1>4. QED
  BY <1>1, <1>2, <1>3 DEF Next

\* What is not cut or in flight changes with a report to the dispatcher only.
LEMMA FinishedStays ==
  ASSUME IInv, IInv', OrderInv, [Next]_vars, ~(DispatcherPoll /\ reporter # <<>>)
  PROVE  Finished' = Finished
<1>1. CASE Cuts
  <2>1. PICK w \in Writers, b \in Blocks : \E f \in CurrentFiles(w) : CutTask(f, b)
    BY <1>1 DEF Cuts
  <2>2. PICK f \in CurrentFiles(w) : CutTask(f, b)
    BY <2>1
  <2>3. DispatcherReadWriter /\ dpc' = "submit"
    BY <1>1 DEF Cuts
  <2>4. PICK t \in Task :
               /\ TaskNonces(t) \subseteq Uncut
               /\ Uncut' = Uncut \ TaskNonces(t)
               /\ InFlight' = InFlight \cup TaskNonces(t)
    BY <2>2, <2>3, CutNonces
  <2>5. QED
    BY <2>4 DEF Finished
<1>2. CASE UNCHANGED Counts
  <2>1. UNCHANGED <<Uncut, InFlight>>
    BY <1>2, NoncesStay DEF Counts
  <2>2. QED
    BY <2>1 DEF Finished
<1>3. QED
  BY <1>1, <1>2, NonceSteps

LEMMA PollFinishes ==
  ASSUME IInv, IInv', OrderInv, DispatcherPoll, reporter # <<>>
  PROVE  /\ Finished' = Finished \cup TaskNonces(Head(reporter))
         /\ Head(reporter) \in Reported
         /\ Reported' \subseteq Reported
<1>1. PICK t : t = Head(reporter)
  OBVIOUS
<1>2. /\ TaskNonces(t) \subseteq InFlight
      /\ Uncut' = Uncut
      /\ InFlight' = InFlight \ TaskNonces(t)
  BY <1>1, PollNonces
<1>3. InFlight \subseteq Nonces \ Uncut
  BY InFlightIsCut
<1>4. Finished' = Finished \cup TaskNonces(t)
  BY <1>2, <1>3 DEF Finished
<1>5. reporter \in Seq(Task)
  BY DEF IInv, QueueTypeOK
<1>6. Tasks(reporter) = Tasks(Tail(reporter)) \cup {t}
  BY <1>1, <1>5, TasksTail
<1>7. reporter' = Tail(reporter) /\ UNCHANGED <<writing, wpc>>
  BY DEF DispatcherPoll, writerVars
<1>8. QED
  BY <1>1, <1>4, <1>6, <1>7 DEF Reported

\* The reports of another writer stay.
LEMMA ReportedIs ==
  ASSUME NEW t
  PROVE  t \in Reported <=>
           \/ t \in Tasks(reporter)
           \/ \E v \in Writers : wpc[v] \in {"submit", "report"} /\ t = writing[v][1]
BY DEF Reported

LEMMA ReportedNext ==
  ASSUME NEW t
  PROVE  t \in Reported' <=>
           \/ t \in Tasks(reporter')
           \/ \E v \in Writers : wpc'[v] \in {"submit", "report"} /\ t = writing'[v][1]
BY DEF Reported, Tasks

LEMMA WriteStored ==
  ASSUME IInv, IInv', OrderInv, SubmitInv, IntactInv, HandleInv, StoredInv,
         BenchMode = 0, [Next]_vars, NEW w \in Writers, WriterWrite(w)
  PROVE  StoredInv'
<1> SUFFICES ASSUME ~sig_stop'
             PROVE  /\ \A t \in Reported' : TaskNonces(t) \subseteq Stored'
                    /\ Finished' \subseteq Stored'
                    /\ \A m \in Nonces : m[2] < submitted'[m[1]] => m \in Stored'
  BY DEF StoredInv
<1>1. ~sig_stop
  BY SignalStays
<1>2. PICK t : t = writing[w][1]
  OBVIOUS
<1>3. PICK n \in 0 .. t.nonces :
             /\ Stored' = Stored \cup FirstNonces(t, n)
             /\ wpc'[w] = "submit" => n = t.nonces
  BY <1>1, <1>2, WriteStores
<1>4. wpc[w] \in AtWork
  BY DEF WriterWrite, AtWork
<1>5. t \in Task /\ Plot(t.file).sn <= t.sn
  BY <1>2, <1>4, WorkIs, FlyingIs
<1>6. /\ UNCHANGED <<reporter, writing, submitted>>
      /\ \A v \in Writers \ {w} : wpc'[v] = wpc[v]
      /\ wpc'[w] \in {"submit", "failed"}
      /\ ~(DispatcherPoll /\ reporter # <<>>)
  <2>1. /\ UNCHANGED <<reporter, writing, submitted>>
        /\ \A v \in Writers \ {w} : wpc'[v] = wpc[v]
        /\ wpc'[w] \in {"submit", "failed"}
    BY WriterTypes DEF WriterWrite, queueVars
  <2>2. wpc' # wpc
    BY <2>1 DEF WriterWrite
  <2>3. DispatcherPoll => wpc' = wpc
    BY DEF DispatcherPoll, writerVars
  <2>4. QED
    BY <2>1, <2>2, <2>3
<1>7. ASSUME NEW u \in Reported' PROVE TaskNonces(u) \subseteq Stored'
  <2>1. CASE u \in Reported
    BY <1>1, <1>3, <2>1 DEF StoredInv
  <2>2. CASE u = t /\ wpc'[w] = "submit"
    BY <1>3, <1>5, <2>2, FirstNoncesAre
  <2>3. QED
    BY <1>2, <1>6, <2>1, <2>2, ReportedIs, ReportedNext
<1>8. Finished' \subseteq Stored'
  BY <1>1, <1>3, <1>6, FinishedStays DEF StoredInv
<1>9. QED
  BY <1>1, <1>3, <1>6, <1>7, <1>8 DEF StoredInv

LEMMA SubmitStored ==
  ASSUME IInv, IInv', OrderInv, SubmitInv, StoredInv,
         BenchMode = 0, [Next]_vars, NEW w \in Writers, WriterSubmit(w)
  PROVE  StoredInv'
<1> SUFFICES ASSUME ~sig_stop'
             PROVE  /\ \A t \in Reported' : TaskNonces(t) \subseteq Stored'
                    /\ Finished' \subseteq Stored'
                    /\ \A m \in Nonces : m[2] < submitted'[m[1]] => m \in Stored'
  BY DEF StoredInv
<1>1. ~sig_stop
  BY SignalStays
<1>2. PICK t : t = writing[w][1]
  OBVIOUS
<1>3. wpc[w] \in AtWork /\ wpc[w] = "submit" /\ wpc' = [wpc EXCEPT ![w] = "report"]
  BY DEF WriterSubmit, AtWork
<1>4. /\ t \in Flying /\ t \in Task /\ t.file \in Files
      /\ t.nonces \in Nat \ {0}
      /\ submitted[t.file] \in Nat /\ t.sn \in Nat
      /\ t.sn = Plot(t.file).sn + submitted[t.file]
  BY <1>2, <1>3, WorkIs
<1>5. /\ UNCHANGED <<reporter, writing, disk>>
      /\ submitted' = [submitted EXCEPT ![t.file] = submitted[t.file] + t.nonces]
  BY <1>2 DEF WriterSubmit, queueVars
<1>6. Stored' = Stored
  BY <1>5 DEF Stored
<1>7. Reported' \subseteq Reported
  <2> SUFFICES ASSUME NEW u \in Reported' PROVE u \in Reported
    OBVIOUS
  <2>1. \A v \in Writers : wpc'[v] \in {"submit", "report"} =>
                             wpc[v] \in {"submit", "report"}
    BY <1>3, WriterTypes
  <2>2. QED
    BY <1>5, <2>1, ReportedIs, ReportedNext
<1>8. Finished' = Finished
  <2>1. wpc' # wpc
    BY <1>3, WriterTypes
  <2>2. DispatcherPoll => wpc' = wpc
    BY DEF DispatcherPoll, writerVars
  <2>3. QED
    BY <2>1, <2>2, FinishedStays
<1>9. ASSUME NEW m \in Nonces, m[2] < submitted'[m[1]] PROVE m \in Stored'
  <2>1. CASE m[2] < submitted[m[1]]
    BY <1>1, <1>6, <2>1 DEF StoredInv
  <2>2. CASE ~(m[2] < submitted[m[1]])
    <3>1. /\ m = <<m[1], m[2]>> /\ m[1] \in Files
          /\ m[2] \in 0 .. Plot(m[1]).nonces - 1
      BY NonceIs
    <3>2. m[2] \in Nat
      BY <3>1, FilesAre
    <3>3. m[1] = t.file
      BY <1>4, <1>5, <1>9, <2>2, <3>1, WriterTypes
    <3>4. submitted'[t.file] = submitted[t.file] + t.nonces
      BY <1>4, <1>5, WriterTypes
    <3>5. Plot(t.file).sn \in Nat
      BY <1>4, FilesAre
    <3>6. /\ t.sn <= Plot(t.file).sn + m[2]
          /\ Plot(t.file).sn + m[2] < t.sn + t.nonces
      BY <1>4, <1>9, <2>2, <3>2, <3>3, <3>4, <3>5
    <3>7. m \in TaskNonces(t)
      BY <1>4, <3>1, <3>2, <3>3, <3>6, FlyingIs, TaskNoncesAre
    <3>8. t \in Reported
      BY <1>2, <1>3, ReportedIs
    <3>9. QED
      BY <1>1, <1>6, <3>7, <3>8 DEF StoredInv
  <2>3. QED
    BY <2>1, <2>2
<1>10. QED
  BY <1>1, <1>6, <1>7, <1>8, <1>9 DEF StoredInv

LEMMA ReportReported ==
  ASSUME IInv, NEW w \in Writers, WriterReport(w)
  PROVE  Reported' \subseteq Reported
<1> SUFFICES ASSUME NEW u \in Reported' PROVE u \in Reported
  OBVIOUS
<1>1. wpc[w] = "report" /\ wpc' = [wpc EXCEPT ![w] = "loop"]
  BY DEF WriterReport
<1>2. PICK t : t = writing[w][1]
  OBVIOUS
<1>3. writing[w] \in Seq(Task) /\ Len(writing[w]) = 1 /\ t \in Task
  BY <1>1, <1>2, WriterTypes, WritingIs
<1>4. reporter' = Append(reporter, t) /\ reporter \in Seq(Task)
  <2>1. reporter \in Seq(Task) /\ reporter' = reporter \o writing[w]
    BY DEF IInv, QueueTypeOK, WriterReport
  <2>2. /\ Head(writing[w]) = t
        /\ reporter \o writing[w] = Append(reporter, Head(writing[w]))
    BY <1>2, <1>3, <2>1, OneTask
  <2>3. QED
    BY <2>1, <2>2
<1>5. Tasks(reporter') = Tasks(reporter) \cup {t}
  BY <1>3, <1>4, TasksAppend
<1>6. /\ wpc'[w] = "loop"
      /\ \A v \in Writers \ {w} : wpc'[v] = wpc[v] /\ writing'[v] = writing[v]
  BY WriterTypes DEF WriterReport
<1>7. QED
  BY <1>1, <1>2, <1>5, <1>6, ReportedIs, ReportedNext

LEMMA NextStored ==
  /\ IInv /\ IInv' /\ OrderInv /\ SubmitInv /\ IntactInv /\ HandleInv
  /\ StoredInv /\ [Next]_vars
  => StoredInv'
<1> SUFFICES ASSUME IInv, IInv', OrderInv, SubmitInv, IntactInv, HandleInv,
                    StoredInv, [Next]_vars, BenchMode = 0, ~sig_stop'
             PROVE  StoredInv'
  BY DEF StoredInv
<1>1. ~sig_stop
  BY SignalStays
<1>2. CASE DispatcherPoll /\ reporter # <<>>
  <2>1. UNCHANGED <<submitted, disk>>
    BY <1>2 DEF DispatcherPoll, writerVars
  <2>2. Stored' = Stored
    BY <2>1 DEF Stored
  <2>3. /\ Finished' = Finished \cup TaskNonces(Head(reporter))
        /\ Head(reporter) \in Reported
        /\ Reported' \subseteq Reported
    BY <1>2, PollFinishes
  <2>4. Finished' \subseteq Stored'
    BY <1>1, <2>2, <2>3 DEF StoredInv
  <2>5. QED
    BY <1>1, <2>1, <2>2, <2>3, <2>4 DEF StoredInv
<1>3. ASSUME NEW w \in Writers, WriterPop(w) \/ WriterLoop(w) \/ WriterOpen(w)
                                \/ WriterRetry(w) \/ WriterPopNull(w)
      PROVE  StoredInv'
  <2>1. disk' = disk
    BY <1>3, OpenKeepsDisk
    DEF WriterPop, WriterLoop, WriterRetry, WriterPopNull
  <2>2. UNCHANGED <<submitted, reporter>>
    BY <1>3
    DEF WriterPop, WriterLoop, WriterOpen, WriterRetry, WriterPopNull, queueVars
  <2>3. \A v \in Writers \ {w} : wpc'[v] = wpc[v] /\ writing'[v] = writing[v]
    BY <1>3, WriterTypes
    DEF WriterPop, WriterLoop, WriterOpen, WriterRetry, WriterPopNull
  <2>4. wpc'[w] \notin {"submit", "report"}
    BY <1>1, <1>3, WriterTypes
    DEF WriterPop, WriterLoop, WriterOpen, WriterRetry, WriterPopNull, WriteOff
  <2>5. Reported' \subseteq Reported
    BY <2>2, <2>3, <2>4, ReportedIs, ReportedNext
  <2>6. ~(DispatcherPoll /\ reporter # <<>>)
    <3>1. wpc' # wpc
      BY <1>3, WriterTypes
      DEF WriterPop, WriterLoop, WriterOpen, WriterRetry, WriterPopNull, WriteOff
    <3>2. QED
      BY <3>1 DEF DispatcherPoll, writerVars
  <2>7. Finished' = Finished
    BY <2>6, FinishedStays
  <2>8. Stored' = Stored
    BY <2>1 DEF Stored
  <2>9. QED
    BY <1>1, <2>2, <2>5, <2>7, <2>8, StoredStays
<1>4. ASSUME NEW w \in Writers, WriterReport(w)
      PROVE  StoredInv'
  <2>1. UNCHANGED <<submitted, disk>>
    BY <1>4 DEF WriterReport
  <2>2. Reported' \subseteq Reported
    BY <1>4, ReportReported
  <2>3. ~(DispatcherPoll /\ reporter # <<>>)
    <3>1. wpc' # wpc
      BY <1>4, WriterTypes DEF WriterReport
    <3>2. QED
      BY <3>1 DEF DispatcherPoll, writerVars
  <2>4. Finished' = Finished
    BY <2>3, FinishedStays
  <2>5. Stored' = Stored
    BY <2>1 DEF Stored
  <2>6. QED
    BY <1>1, <2>1, <2>2, <2>4, <2>5, StoredStays
<1>5. CASE \/ Dispatcher /\ ~(DispatcherPoll /\ reporter # <<>>)
           \/ HasherStep \/ HasherPopNull \/ UserSignal \/ UNCHANGED vars
  <2>1. UNCHANGED <<submitted, disk, wpc, writing>>
    BY <1>5, OthersWrite DEF writerVars
  <2>2. reporter' = reporter
    BY <1>5
    DEF Dispatcher, DispatcherLoop, DispatcherPoll, DispatcherReadHasher,
        DispatcherReadWriter, DispatcherSubmit, DispatcherSignal,
        DispatcherStopWorker, DispatcherJoin, HasherStep, HasherLoop,
        HasherPop, HasherPlot, HasherPush, HasherCount, HasherPopNull,
        UserSignal, vars, queueVars
  <2>3. Reported' = Reported
    BY <2>1, <2>2 DEF Reported
  <2>4. Stored' = Stored
    BY <2>1 DEF Stored
  <2>5. CASE DispatcherPoll /\ reporter # <<>>
    BY <1>2, <2>5
  <2>6. CASE ~(DispatcherPoll /\ reporter # <<>>)
    BY <1>1, <2>1, <2>3, <2>4, <2>6, FinishedStays, StoredStays
  <2>7. QED
    BY <2>5, <2>6
<1>6. QED
  BY <1>2, <1>3, <1>4, <1>5, WriteStored, SubmitStored DEF Next, WriterStep

-----------------------------------------------------------------------------
(* The invariant                                                           *)

JobInv ==
  /\ IInv /\ OwnInv /\ OrderInv /\ SubmitInv /\ IntactInv /\ CountInv
  /\ HandleInv /\ StoredInv

LEMMA JobInvariance == Spec => []JobInv
<1>1. Init => JobInv
  BY InitIInv, InitOwn, InitOrder, InitSubmit, InitIntact, InitCount,
     InitHandle, InitStored DEF JobInv
<1>2. JobInv /\ [Next]_vars => JobInv'
  BY NextIInv, NextOwn, NextOrder, NextSubmit, NextIntact, NextCount,
     NextHandle, NextStored DEF JobInv
<1>3. QED
  BY <1>1, <1>2, PTL DEF Spec

-----------------------------------------------------------------------------
(* The refinement of PlotJob                                               *)

LEMMA InitJob == Init => Job!Init
<1> SUFFICES ASSUME Init PROVE Job!Init
  OBVIOUS
<1>1. Uncut = Nonces
  <2> SUFFICES ASSUME NEW m \in Nonces PROVE m \in Uncut
    BY UncutInNonces
  <2>1. m[1] \in Files /\ m[2] \in 0 .. Plot(m[1]).nonces - 1
    BY NonceIs
  <2>2. prev[m[1]] = Plot(m[1]).sn
    BY <2>1 DEF Init
  <2>3. Plot(m[1]).sn + m[2] >= prev[m[1]]
    BY <2>1, <2>2, FilesAre
  <2>4. QED
    BY <2>3, UncutIs
<1>2. InFlight = {}
  BY <1>1, InitIInv, InitOrder, InFlightIsCut
<1>3. Stored = {}
  <2> SUFFICES ASSUME NEW m \in Nonces PROVE m \notin Stored
    BY DEF Stored
  <2>1. m[1] \in Files /\ m[2] \in 0 .. Plot(m[1]).nonces - 1
    BY NonceIs
  <2>2. disk[m[1]][m[2]] = Blank
    BY <2>1 DEF Init
  <2>3. Plot(m[1]).sn + m[2] # Blank
    BY <2>1, FilesAre DEF Blank
  <2>4. QED
    BY <2>2, <2>3, StoredIs
<1>4. sig_stop = FALSE
  BY DEF Init
<1>5. Nonces \ (Uncut \cup InFlight) = {}
  BY <1>1
<1>6. QED
  BY <1>1, <1>2, <1>3, <1>4, <1>5 DEF Job!Init

\* PlotJob counts the nonces of a set like PlotPipeline.
LEMMA JobCardinality == \A S : Job!Cardinality(S) = Cardinality(S)
BY DEF Job!Cardinality, Cardinality

JobVars == <<Uncut, InFlight, Stored, sig_stop>>

LEMMA JobStutters ==
  ASSUME UNCHANGED JobVars
  PROVE  UNCHANGED Job!jobVars
BY DEF JobVars, Job!jobVars

\* A cut is a cut.
LEMMA CutImplements ==
  ASSUME IInv, IInv', OrderInv, Cuts
  PROVE  Job!Next
<1>1. PICK w \in Writers, b \in Blocks : \E f \in CurrentFiles(w) : CutTask(f, b)
  BY DEF Cuts
<1>2. PICK f \in CurrentFiles(w) : CutTask(f, b)
  BY <1>1
<1>3. DispatcherReadWriter /\ dpc' = "submit"
  BY DEF Cuts
<1>4. PICK t \in Task :
             /\ Plot(t.file).sn <= t.sn
             /\ TaskNonces(t) \subseteq Uncut
             /\ Uncut' = Uncut \ TaskNonces(t)
             /\ InFlight' = InFlight \cup TaskNonces(t)
  BY <1>2, <1>3, CutNonces
<1>5. /\ IsFiniteSet(TaskNonces(t))
      /\ Cardinality(TaskNonces(t)) = t.nonces
      /\ t.nonces \in 1 .. WorkSize
  BY <1>4, TaskNoncesAre, TaskType
<1>6. Cardinality(TaskNonces(t)) <= WorkSize /\ TaskNonces(t) # {}
  <2>1. Cardinality(TaskNonces(t)) # 0
    BY <1>5, WorkSizeType
  <2>2. TaskNonces(t) # {}
    BY <2>1, FS_EmptySet
  <2>3. QED
    BY <1>5, <2>2, WorkSizeType
<1>7. UNCHANGED <<sig_stop, disk>>
  BY <1>3 DEF DispatcherReadWriter, writerVars
<1>8. Stored' = Stored
  BY <1>7 DEF Stored
<1>9. Nonces \ (Uncut' \cup InFlight') = Nonces \ (Uncut \cup InFlight)
  BY <1>4
<1>10. Job!Cut(TaskNonces(t))
  BY <1>4, <1>6, <1>7, <1>8, <1>9, JobCardinality DEF Job!Cut
<1>11. QED
  BY <1>4, <1>10 DEF Job!Next

\* The dispatcher takes a report: the nonces are finished.
LEMMA PollImplements ==
  ASSUME IInv, IInv', OrderInv, StoredInv, BenchMode = 0,
         DispatcherPoll, reporter # <<>>
  PROVE  Job!Next
<1>1. PICK t : t = Head(reporter)
  OBVIOUS
<1>2. /\ TaskNonces(t) \subseteq InFlight
      /\ Uncut' = Uncut
      /\ InFlight' = InFlight \ TaskNonces(t)
  BY <1>1, PollNonces
<1>3. /\ Finished' = Finished \cup TaskNonces(t)
      /\ t \in Reported
  BY <1>1, PollFinishes
<1>4. UNCHANGED <<sig_stop, disk>>
  BY DEF DispatcherPoll, writerVars
<1>5. Stored' = Stored
  BY <1>4 DEF Stored
<1>6. TaskNonces(t) \subseteq Stored \/ sig_stop
  BY <1>3 DEF StoredInv
<1>7. Job!Finish(TaskNonces(t))
  BY <1>2, <1>3, <1>4, <1>5, <1>6 DEF Job!Finish, Finished
<1>8. QED
  BY <1>2, <1>7 DEF Job!Next

\* Only a writer at the start of its loop and one that writes touch a disk,
\* and the first of them changes nothing that is stored.
LEMMA DiskSteps ==
  ASSUME IInv, OrderInv, SubmitInv, HandleInv, [Next]_vars
  PROVE  disk' = disk \/ \E w \in Writers : WriterWrite(w)
<1>1. CASE UNCHANGED writerVars
  BY <1>1 DEF writerVars
<1>2. ASSUME NEW w \in Writers, WriterStep(w) \/ WriterPopNull(w), ~WriterWrite(w)
      PROVE  disk' = disk
  BY <1>2, OpenKeepsDisk
  DEF WriterStep, WriterLoop, WriterPop, WriterRetry, WriterSubmit,
      WriterReport, WriterPopNull
<1>3. QED
  BY <1>1, <1>2, OthersWrite DEF Next

\* A nonce that is written is stored.
LEMMA WriteImplements ==
  ASSUME IInv, OrderInv, SubmitInv, IntactInv, HandleInv, BenchMode = 0,
         NEW w \in Writers, WriterWrite(w)
  PROVE  Job!Next
<1>1. PICK t : t = writing[w][1]
  OBVIOUS
<1>2. PICK n \in 0 .. t.nonces : Stored' = Stored \cup FirstNonces(t, n)
  BY <1>1, WriteStores
<1>3. wpc[w] \in AtWork
  BY DEF WriterWrite, AtWork
<1>4. t \in Flying
  BY <1>1, <1>3, WorkIs
<1>5. FirstNonces(t, n) \subseteq InFlight
  <2>1. TaskNonces(t) \subseteq InFlight
    BY <1>4, InFlightIs
  <2>2. QED
    BY <2>1 DEF FirstNonces
<1>6. UNCHANGED Counts
  BY WorkerNonces DEF WriterStep
<1>7. UNCHANGED <<Uncut, InFlight>>
  BY <1>6, NoncesStay DEF Counts
<1>8. sig_stop' = sig_stop
  BY DEF WriterWrite
<1>9. Job!Store(FirstNonces(t, n))
  BY <1>2, <1>7, <1>8 DEF Job!Store
<1>10. QED
  BY <1>5, <1>9 DEF Job!Next

LEMMA SignalSteps ==
  ASSUME IInv, [Next]_vars
  PROVE  sig_stop' = sig_stop \/ sig_stop'
<1>1. sig_stop \in BOOLEAN /\ (sig_stop => sig_stop')
  BY SignalStays DEF IInv, WorldTypeOK
<1>2. CASE Dispatcher
  BY <1>2 DEF Dispatcher, DispatcherLoop, DispatcherPoll, DispatcherReadHasher,
              DispatcherReadWriter, DispatcherSubmit, DispatcherSignal,
              DispatcherStopWorker, DispatcherJoin
<1>3. CASE \/ HasherStep \/ HasherPopNull
           \/ \E w \in Writers : WriterStep(w) \/ WriterPopNull(w)
  BY <1>3 DEF HasherStep, HasherLoop, HasherPop, HasherPlot, HasherPush,
              HasherCount, HasherPopNull, WriterStep, WriterLoop, WriterPop,
              WriterOpen, WriterWrite, WriterRetry, WriterSubmit, WriterReport,
              WriterPopNull
<1>4. CASE UserSignal \/ UNCHANGED vars
  BY <1>4 DEF UserSignal, vars
<1>5. QED
  BY <1>2, <1>3, <1>4 DEF Next

LEMMA StepImplements ==
  ASSUME JobInv, JobInv', [Next]_vars, BenchMode = 0
  PROVE  [Job!Next]_(Job!jobVars)
<1> USE DEF JobInv
<1>1. CASE Cuts
  BY <1>1, CutImplements
<1>2. CASE DispatcherPoll /\ reporter # <<>>
  BY <1>2, PollImplements
<1>3. CASE \E w \in Writers : WriterWrite(w)
  BY <1>3, WriteImplements
<1>4. CASE UNCHANGED Counts /\ disk' = disk
  <2>1. UNCHANGED <<Uncut, InFlight>>
    BY <1>4, NoncesStay DEF Counts
  <2>2. Stored' = Stored
    BY <1>4 DEF Stored
  <2>3. CASE sig_stop' = sig_stop
    BY <2>1, <2>2, <2>3, JobStutters DEF JobVars
  <2>4. CASE sig_stop'
    <3>1. sig_stop' = TRUE
      BY <2>4 DEF IInv, WorldTypeOK
    <3>2. Job!Stop
      BY <2>1, <2>2, <3>1 DEF Job!Stop
    <3>3. QED
      BY <3>2 DEF Job!Next
  <2>5. QED
    BY <2>3, <2>4, SignalSteps
<1>5. QED
  BY <1>1, <1>2, <1>3, <1>4, NonceSteps, DiskSteps

\* The pipeline does what PlotJob promises, whatever fails and is tried again
\* and whoever interrupts it (plotter.cpp:222-291, worker_hasher.cpp:14-58,
\* worker_writer.cpp:52-139).  The bench modes promise nothing of the kind.
THEOREM PipelineIsJob ==
  ASSUME BenchMode = 0
  PROVE  Spec => JobSpec
<1>1. JobInv /\ JobInv' /\ [Next]_vars => [Job!Next]_(Job!jobVars)
  BY StepImplements
<1>2. QED
  BY <1>1, InitJob, JobInvariance, PTL DEF Spec, JobSpec, Job!Spec

-----------------------------------------------------------------------------
(* Final files                                                             *)

\* The dispatcher has left its loop or is about to.
Over == sig_stop \/ dpc \in {"stop", "stopping", "join", "done"}

\* If nobody interrupts the program, it stops when all is on disk.
FinalInv ==
  ~Signals /\ BenchMode = 0 /\ Over => Finished = Nonces /\ Nonces \subseteq Stored

LEMMA InitFinal == Init => FinalInv
BY DEF Init, FinalInv, Over

\* The counter of finished nonces equals that of all only if they are all
\* finished, though it may wrap around.
LEMMA AllFinished ==
  ASSUME CountInv, finished_nonces = TotalNonces
  PROVE  Finished = Nonces
<1>1. Finished \in SUBSET Nonces
  BY DEF Finished
<1>2. IsFiniteSet(Finished)
  BY <1>1, NoncesFinite, FS_Subset
<1>3. Cardinality(Finished) \in Nat
  BY <1>2, FS_CardinalityType
<1>4. Cardinality(Nonces) \in Nat
  BY NoncesFinite, FS_CardinalityType
<1>5. Cardinality(Finished) <= Cardinality(Nonces)
  BY <1>1, NoncesFinite, FS_Subset
<1>6. Wrap(Cardinality(Finished)) = Cardinality(Nonces)
  BY DEF CountInv, TotalNonces, Finished
<1>7. Cardinality(Nonces) < IntRange
  <2>1. Wrap(Cardinality(Finished)) \in -IntRange .. IntRange - 1
    BY <1>3, WrapType
  <2>2. QED
    BY <1>4, <1>6, <2>1, SizesAssumption
<1>8. Wrap(Cardinality(Finished)) = Cardinality(Finished)
  <2>1. Cardinality(Finished) < IntRange
    BY <1>3, <1>4, <1>5, <1>7, SizesAssumption
  <2>2. QED
    BY <1>3, <2>1, WrapSmall
<1>9. Cardinality(Nonces) = Cardinality(Finished)
  BY <1>6, <1>8
<1>10. QED
  BY <1>1, <1>9, NoncesFinite, FS_Subset

LEMMA AllFinishedNext ==
  ASSUME CountInv', finished_nonces' = TotalNonces
  PROVE  Finished' = Nonces
<1>1. CountInv' /\ (finished_nonces = TotalNonces)' => (Finished = Nonces)'
  BY AllFinished, PTL
<1>2. QED
  BY <1>1

\* Nothing that is finished or stored is lost.
LEMMA NothingLost ==
  ASSUME JobInv, JobInv', [Next]_vars, BenchMode = 0
  PROVE  Finished \subseteq Finished' /\ Stored \subseteq Stored'
<1> USE DEF JobInv
<1>1. Finished \subseteq Finished'
  BY FinishedStays, PollFinishes
<1>2. CASE disk' = disk
  BY <1>1, <1>2 DEF Stored
<1>3. ASSUME NEW w \in Writers, WriterWrite(w)
      PROVE  Stored \subseteq Stored'
  <2>1. PICK t : t = writing[w][1]
    OBVIOUS
  <2>2. \E n \in 0 .. t.nonces : Stored' = Stored \cup FirstNonces(t, n)
    BY <1>3, <2>1, WriteStores
  <2>3. QED
    BY <2>2
<1>4. QED
  BY <1>1, <1>2, <1>3, DiskSteps

\* The step that ends the loop.
LEMMA LastPoll ==
  ASSUME IInv, [Next]_vars, ~Signals, ~Over, Over'
  PROVE  ~sig_stop' /\ finished_nonces' = TotalNonces
<1>1. ~sig_stop /\ dpc \notin {"stop", "stopping", "join", "done"}
  BY DEF Over
<1>2. CASE Dispatcher
  <2>1. sig_stop' = sig_stop /\ dpc' \in {"stop", "stopping", "join", "done"}
    BY <1>1, <1>2
    DEF Dispatcher, DispatcherLoop, DispatcherPoll, DispatcherReadHasher,
        DispatcherReadWriter, DispatcherSubmit, DispatcherSignal,
        DispatcherStopWorker, DispatcherJoin, Over
  <2>2. CASE DispatcherPoll
    BY <1>1, <2>1, <2>2 DEF DispatcherPoll, AfterPoll
  <2>3. CASE ~DispatcherPoll
    BY <1>1, <1>2, <2>1, <2>3
    DEF Dispatcher, DispatcherLoop, DispatcherReadHasher,
        DispatcherReadWriter, DispatcherSubmit, DispatcherSignal,
        DispatcherStopWorker, DispatcherJoin
  <2>4. QED
    BY <1>1, <2>1, <2>2, <2>3
<1>3. CASE \/ HasherStep \/ HasherPopNull
           \/ \E w \in Writers : WriterStep(w) \/ WriterPopNull(w)
  <2>1. UNCHANGED <<sig_stop, dpc>>
    BY <1>3
    DEF HasherStep, HasherLoop, HasherPop, HasherPlot, HasherPush,
        HasherCount, HasherPopNull, WriterStep, WriterLoop, WriterPop,
        WriterOpen, WriterWrite, WriterRetry, WriterSubmit, WriterReport,
        WriterPopNull, dispatcherVars
  <2>2. QED
    BY <1>1, <2>1 DEF Over
<1>4. CASE UserSignal \/ UNCHANGED vars
  BY <1>1, <1>4 DEF UserSignal, vars, dispatcherVars, Over
<1>5. QED
  BY <1>2, <1>3, <1>4 DEF Next

LEMMA NextFinal == JobInv /\ JobInv' /\ FinalInv /\ [Next]_vars => FinalInv'
<1> SUFFICES ASSUME JobInv, JobInv', FinalInv, [Next]_vars,
                    ~Signals, BenchMode = 0, Over'
             PROVE  Finished' = Nonces /\ Nonces \subseteq Stored'
  BY DEF FinalInv
<1>1. CASE Over
  <2>1. Finished = Nonces /\ Nonces \subseteq Stored
    BY <1>1 DEF FinalInv
  <2>2. Finished' \subseteq Nonces
    BY DEF Finished
  <2>3. QED
    BY <2>1, <2>2, NothingLost
<1>2. CASE ~Over
  <2>1. ~sig_stop' /\ finished_nonces' = TotalNonces
    BY <1>2, LastPoll DEF JobInv
  <2>2. Finished' = Nonces
    BY <2>1, AllFinishedNext DEF JobInv
  <2>3. Finished' \subseteq Stored'
    BY <2>1 DEF JobInv, StoredInv
  <2>4. QED
    BY <2>2, <2>3
<1>3. QED
  BY <1>1, <1>2

LEMMA StoredIsIntact ==
  ASSUME NEW f \in Files, IInv,
         \A m \in Nonces : m[1] = f => m \in Stored
  PROVE  Intact(f)
<1> SUFFICES ASSUME NEW k \in DOMAIN disk[f]
             PROVE  disk[f][k] = Plot(f).sn + k
  BY DEF Intact
<1>1. k \in 0 .. Plot(f).nonces - 1
  BY WriterTypes
<1>2. PICK m : m = <<f, k>>
  OBVIOUS
<1>3. m \in Nonces /\ m[1] = f /\ m[2] = k
  BY <1>1, <1>2, NonceIs
<1>4. QED
  BY <1>3, StoredIs

LEMMA FinalFiles ==
  ASSUME JobInv, FinalInv, ~Signals, BenchMode # 2
  PROVE  FinalIsIntact
<1> SUFFICES ASSUME NEW f \in Files, name[f] = "final" PROVE Intact(f)
  BY DEF FinalIsIntact
<1>1. ~WriteOff /\ submitted[f] = Plot(f).nonces
  BY DEF JobInv, HandleInv, Names
<1>2. BenchMode = 0
  BY <1>1, SizesAssumption DEF WriteOff
<1>3. CASE sig_stop
  BY <1>2, <1>3, StoredIsIntact DEF FinalInv, Over, JobInv
<1>4. CASE ~sig_stop
  <2>1. ASSUME NEW m \in Nonces, m[1] = f PROVE m \in Stored
    <3>1. m[2] \in 0 .. Plot(f).nonces - 1
      BY <2>1, NonceIs
    <3>2. m[2] < submitted[f]
      BY <1>1, <3>1, FilesAre
    <3>3. QED
      BY <1>2, <1>4, <2>1, <3>2 DEF JobInv, StoredInv
  <2>2. QED
    BY <2>1, StoredIsIntact DEF JobInv
<1>5. QED
  BY <1>3, <1>4

\* When nobody interrupts the program, a file that has lost its .plotting
\* extension holds all of its nonces, each in its place, though disks and
\* memory fail (worker_writer.cpp:77-131, task_writer.h:32-36).  In bench mode
\* 2 the file is full and holds nothing, and an interrupt breaks it
\* (pipeline_signal).
THEOREM FinalFilesAreIntact ==
  ASSUME ~Signals, BenchMode # 2
  PROVE  Spec => []FinalIsIntact
<1>1. JobInv /\ FinalInv => FinalIsIntact
  BY FinalFiles
<1>2. QED
  BY <1>1, JobInvariance, InitFinal, NextFinal, PTL DEF Spec
=============================================================================
