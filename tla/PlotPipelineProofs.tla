------------------------- MODULE PlotPipelineProofs -------------------------
(***************************************************************************)
(* Types and stages of the pipeline for any plan, any number of drives and *)
(* blocks and any number of failures: every variable keeps its type, and a *)
(* thread has a task in hand exactly at the places of its loop where the   *)
(* code uses one.  PlotOwnershipProofs builds on this invariant.           *)
(***************************************************************************)
EXTENDS PlotPipeline, FiniteSetTheorems, SequenceTheorems, TLAPS

(***************************************************************************)
(* Which tasks a thread has at each place of its loop, and what the        *)
(* dispatcher has tested at each place of its own.                         *)
(***************************************************************************)
DispatcherStage ==
  /\ Len(pending) = IF dpc = "submit" THEN 1 ELSE 0
  /\ dpc = "writer" => cur_worker_pos < Len(Plots)
  /\ dpc \notin {"stopping", "join", "done"} => stops = 0
  /\ dpc = "stopping" => stops <= Len(Plots)

HasherStage ==
  /\ Len(hashing) = IF hpc \in {"plot", "push"} THEN 1 ELSE 0
  /\ hpc = "plot" => hashed < hashing[1].nonces

WriterStage ==
  \A w \in Writers :
    Len(writing[w]) =
      IF wpc[w] \in {"open", "write", "failed", "submit", "report"}
      THEN 1 ELSE 0

DispatcherInv == DispatcherTypeOK /\ DispatcherStage
HasherInv == HasherTypeOK /\ HasherStage
WriterInv == WriterTypeOK /\ WriterStage

WorldTypeOK == sig_stop \in BOOLEAN /\ faults \in 0 .. MaxFaults

IInv == WorldTypeOK /\ DispatcherInv /\ HasherInv /\ WriterInv /\ QueueTypeOK

-----------------------------------------------------------------------------
(* The constants                                                           *)

LEMMA WritersAre == /\ Len(Plots) \in Nat \ {0}
                    /\ Writers = 1 .. Len(Plots)
BY PlotsAssumption, EmptySeq, LenProperties DEF Writers

LEMMA FilesAre ==
  ASSUME NEW f \in Files
  PROVE  /\ f[1] \in Writers
         /\ f[2] \in 1 .. Len(Plots[f[1]])
         /\ f = <<f[1], f[2]>>
         /\ Plot(f) \in [sn : Nat, nonces : Nat \ {0}]
<1>1. PICK w \in Writers : f \in {w} \X (1 .. Len(Plots[w]))
  BY DEF Files
<1>2. Plots[w] \in Seq([sn : Nat, nonces : Nat \ {0}])
  BY PlotsAssumption, WritersAre, ElementOfSeq
<1>3. f[1] = w /\ f[2] \in 1 .. Len(Plots[w]) /\ f = <<f[1], f[2]>>
  BY <1>1
<1>4. Plots[w][f[2]] \in [sn : Nat, nonces : Nat \ {0}]
  BY ZenonT(40), <1>2, <1>3, ElementOfSeq
<1>5. QED
  BY <1>3, <1>4 DEF Plot

LEMMA WorkSizeType == WorkSize \in Nat \ {0}
BY SizesAssumption DEF WorkSize

LEMMA SmallerIs ==
  ASSUME NEW m \in Nat, NEW n \in Nat
  PROVE  /\ Smaller(m, n) \in Nat
         /\ Smaller(m, n) <= m
         /\ Smaller(m, n) <= n
         /\ Smaller(m, n) \in {m, n}
BY DEF Smaller

LEMMA MaxFlyingType == MaxFlying \in Nat
<1>1. Cardinality(Blocks) \in Nat
  BY SizesAssumption, FS_CardinalityType
<1>2. 2 * (Len(Plots) + 1) \in Nat
  BY WritersAre
<1>3. QED
  BY <1>1, <1>2, SmallerIs DEF MaxFlying

LEMMA WrapType ==
  ASSUME NEW n \in Int
  PROVE  Wrap(n) \in -IntRange .. IntRange - 1
<1>1. IntRange \in Nat \ {0}
  BY SizesAssumption
<1>2. ASSUME NEW m \in Int, NEW d \in Nat \ {0}
      PROVE  m % d \in 0 .. d - 1
  OBVIOUS
<1>3. n + IntRange \in Int /\ 2 * IntRange \in Nat \ {0}
  BY <1>1
<1>4. (n + IntRange) % (2 * IntRange) \in 0 .. 2 * IntRange - 1
  BY <1>2, <1>3
<1>5. QED
  BY <1>1, <1>4 DEF Wrap

LEMMA CurrentFilesAre ==
  ASSUME NEW w \in Writers, NEW f \in CurrentFiles(w)
  PROVE  f \in Files /\ left[f] > 0
BY DEF CurrentFiles, Files

LEMMA TaskType ==
  ASSUME NEW t \in Task
  PROVE  /\ t.file \in Files
         /\ t.sn \in Nat
         /\ t.nonces \in 1 .. WorkSize
         /\ t.block \in Blocks
BY DEF Task

LEMMA Singleton ==
  ASSUME NEW s \in Seq(Task), Len(s) = 1
  PROVE  s[1] \in Task /\ s = <<s[1]>> /\ s # <<>>
<1>1. s[1] \in Task
  BY ElementOfSeq
<1>2. s = <<s[1]>>
  BY SeqEqual, <1>1
<1>3. QED
  BY <1>1, <1>2

LEMMA One ==
  ASSUME NEW t \in Task
  PROVE  <<t>> \in Seq(Task) /\ Len(<<t>>) = 1
OBVIOUS

-----------------------------------------------------------------------------
(* Types and stages                                                        *)

LEMMA InitIInv == Init => IInv
<1> SUFFICES ASSUME Init PROVE IInv
  OBVIOUS
<1>1. <<>> \in Seq(Task) /\ Len(<<>>) = 0
  BY EmptySeq
<1>2. /\ pending = <<>> /\ hasher_tasks = <<>> /\ hashing = <<>>
      /\ reporter = <<>>
      /\ fin_hasher_tasks = [w \in Writers |-> <<>>]
      /\ writing = [w \in Writers |-> <<>>]
  BY DEF Init
<1>3. /\ left \in [Files -> Nat]
      /\ prev \in [Files -> Nat]
      /\ submitted \in [Files -> Nat]
      /\ name \in [Files -> {"none", "plotting", "final"}]
  BY FilesAre DEF Init
<1>4. /\ disk = [f \in Files |-> disk[f]]
      /\ \A f \in Files :
           disk[f] \in [0 .. Plot(f).nonces - 1 -> Nat \cup {Blank}]
  BY DEF Init
<1>5. mem \in [Blocks -> [0 .. WorkSize - 1 -> Nat \cup {Garbage}]]
  BY DEF Init
<1>6. /\ wpc \in [Writers -> {"loop", "pop", "open", "write", "failed",
                              "submit", "report", "exited"}]
      /\ \A w \in Writers : wpc[w] = "loop"
      /\ queue_size \in [Writers -> Int]
      /\ handle \in [Writers -> Files \cup {NoFile}]
      /\ last_write_task \in [Writers -> Files \cup {NoFile}]
  BY DEF Init
<1>7. success \in [Writers -> BOOLEAN] /\ sig_stop \in BOOLEAN
  BY DEF Init
<1>8. /\ dispatched_nonces \in -IntRange .. IntRange - 1
      /\ finished_nonces \in -IntRange .. IntRange - 1
      /\ cur_worker_pos \in 0 .. Len(Plots)
      /\ stops \in 0 .. Len(Plots) + 1
      /\ stops = 0
      /\ counting \in Writers
      /\ hashed \in 0 .. WorkSize
      /\ faults \in 0 .. MaxFaults
      /\ on_going_task \in Int
  BY WritersAre, WorkSizeType, SizesAssumption, BoundsAssumption DEF Init
<1>9. /\ dpc = "loop" /\ hpc = "loop"
      /\ free_blocks = {} /\ used_blocks = {}
  BY DEF Init
<1>10. WorldTypeOK
  BY <1>7, <1>8 DEF WorldTypeOK
<1>11. DispatcherInv
  BY <1>1, <1>2, <1>3, <1>8, <1>9
  DEF DispatcherInv, DispatcherTypeOK, DispatcherStage
<1>12. HasherInv
  BY <1>1, <1>2, <1>5, <1>8, <1>9 DEF HasherInv, HasherTypeOK, HasherStage
<1>13. WriterInv
  BY <1>1, <1>2, <1>3, <1>4, <1>6, <1>7
  DEF WriterInv, WriterTypeOK, WriterStage
<1>14. QueueTypeOK
  BY <1>1, <1>2, <1>6 DEF QueueTypeOK
<1>15. QED
  BY <1>10, <1>11, <1>12, <1>13, <1>14 DEF IInv

\* What a step leaves alone keeps its invariant.
LEMMA Unchanged ==
  /\ UNCHANGED <<sig_stop, faults>> /\ WorldTypeOK => WorldTypeOK'
  /\ UNCHANGED dispatcherVars /\ DispatcherInv => DispatcherInv'
  /\ UNCHANGED hasherVars /\ HasherInv => HasherInv'
  /\ UNCHANGED writerVars /\ WriterInv => WriterInv'
  /\ UNCHANGED queueVars /\ QueueTypeOK => QueueTypeOK'
<1>1. UNCHANGED <<sig_stop, faults>> /\ WorldTypeOK => WorldTypeOK'
  BY DEF WorldTypeOK
<1>2. UNCHANGED dispatcherVars /\ DispatcherInv => DispatcherInv'
  BY DEF dispatcherVars, DispatcherInv, DispatcherTypeOK, DispatcherStage
<1>3. UNCHANGED hasherVars /\ HasherInv => HasherInv'
  BY DEF hasherVars, HasherInv, HasherTypeOK, HasherStage
<1>4. UNCHANGED writerVars /\ WriterInv => WriterInv'
  BY DEF writerVars, WriterInv, WriterTypeOK, WriterStage
<1>5. UNCHANGED queueVars /\ QueueTypeOK => QueueTypeOK'
  BY DEF queueVars, QueueTypeOK
<1>6. QED
  BY <1>1, <1>2, <1>3, <1>4, <1>5

LEMMA FaultType ==
  ASSUME WorldTypeOK, Fault \/ UNCHANGED faults, sig_stop' = sig_stop
  PROVE  WorldTypeOK'
BY BoundsAssumption DEF WorldTypeOK, Fault

\* A step of the dispatcher that keeps its own invariant keeps them all, if it
\* touches no variable of another thread but the ends of its two queues.
LEMMA DispatcherIInv ==
  ASSUME IInv, Dispatcher
  PROVE  IInv'
<1> USE DEF IInv, DispatcherInv, DispatcherTypeOK, DispatcherStage
<1>1. CASE DispatcherLoop
  <2>1. DispatcherInv'
    BY <1>1 DEF DispatcherLoop
  <2>2. QED
    BY <1>1, <2>1, Unchanged DEF DispatcherLoop
<1>2. CASE DispatcherPoll
  <2>1. /\ free_blocks' \in SUBSET Blocks
        /\ used_blocks' \in SUBSET Blocks
        /\ finished_nonces' \in -IntRange .. IntRange - 1
        /\ on_going_task' \in Int
        /\ reporter' \in Seq(Task)
    <3>1. CASE reporter # <<>>
      <4>1. Head(reporter) \in Task /\ Tail(reporter) \in Seq(Task)
        BY <3>1, HeadTailProperties DEF QueueTypeOK
      <4>2. Head(reporter).block \in Blocks /\ Head(reporter).nonces \in Int
        BY <4>1, TaskType, WorkSizeType
      <4>3. Wrap(finished_nonces + Head(reporter).nonces)
              \in -IntRange .. IntRange - 1
        <5>1. finished_nonces + Head(reporter).nonces \in Int
          BY <4>2
        <5>2. QED
          BY <5>1, WrapType
      <4>4. QED
        <5> DEFINE b == Head(reporter).block
                   m == Wrap(finished_nonces + Head(reporter).nonces)
        <5>1. /\ free_blocks' = free_blocks \cup {b}
              /\ used_blocks' = used_blocks \ {b}
              /\ finished_nonces' = m
              /\ on_going_task' = on_going_task - 1
              /\ reporter' = Tail(reporter)
          BY <1>2, <3>1 DEF DispatcherPoll, Retain
        <5>2. /\ free_blocks \cup {b} \in SUBSET Blocks
              /\ used_blocks \ {b} \in SUBSET Blocks
              /\ m \in -IntRange .. IntRange - 1
              /\ on_going_task - 1 \in Int
          BY <4>2, <4>3
        <5> HIDE DEF b, m
        <5>3. QED
          BY <4>1, <5>1, <5>2
    <3>2. CASE reporter = <<>>
      <4>1. UNCHANGED <<free_blocks, used_blocks, finished_nonces,
                        on_going_task, reporter>>
        BY <1>2, <3>2 DEF DispatcherPoll
      <4>2. reporter \in Seq(Task)
        BY DEF QueueTypeOK
      <4>3. QED
        BY <4>1, <4>2
    <3>3. QED
      BY <3>1, <3>2
  <2>2. dpc' \in {"stop", "loop", "hasher"}
    BY <1>2 DEF DispatcherPoll, AfterPoll
  <2>3. DispatcherInv'
    BY <1>2, <2>1, <2>2 DEF DispatcherPoll
  <2>4. QueueTypeOK'
    BY <1>2, <2>1 DEF DispatcherPoll, QueueTypeOK
  <2>5. QED
    BY <1>2, <2>3, <2>4, Unchanged DEF DispatcherPoll
<1>3. CASE DispatcherReadHasher
  <2>1. DispatcherInv'
    BY <1>3, WritersAre DEF DispatcherReadHasher
  <2>2. QED
    BY <1>3, <2>1, Unchanged DEF DispatcherReadHasher
<1>4. CASE DispatcherReadWriter
  <2> DEFINE w == cur_worker_pos + 1
  <2>1. w \in Writers /\ dpc = "writer" /\ stops = 0 /\ stops' = stops
    BY <1>4, WritersAre DEF DispatcherReadWriter
  <2>2. Allocatable \subseteq Blocks
    BY DEF Allocatable
  <2>3. DispatcherInv'
    <3>1. ASSUME dpc' = "loop", pending' = pending,
                 dispatched_nonces' = dispatched_nonces,
                 cur_worker_pos' \in {cur_worker_pos, cur_worker_pos + 1},
                 on_going_task' = on_going_task, used_blocks' = used_blocks,
                 free_blocks' \subseteq Blocks, left' = left, prev' = prev
          PROVE  DispatcherInv'
      BY <1>4, <2>1, <3>1, WritersAre DEF DispatcherReadWriter
    <3>2. ASSUME NEW b \in Allocatable, NEW f \in CurrentFiles(w),
                 CutTask(f, b),
                 free_blocks' = free_blocks \ {b},
                 used_blocks' = used_blocks \cup {b},
                 on_going_task' = on_going_task + 1,
                 cur_worker_pos' = cur_worker_pos + 1,
                 dpc' = "submit"
          PROVE  DispatcherInv'
      <4> DEFINE n == Smaller(WorkSize, left[f])
                 t == [file |-> f, sn |-> prev[f], nonces |-> n, block |-> b]
      <4>1. f \in Files /\ left[f] \in Nat \ {0} /\ prev[f] \in Nat
        BY <2>1, <3>2, CurrentFilesAre
      <4>2. n \in 1 .. WorkSize /\ n <= left[f]
        BY <4>1, WorkSizeType DEF Smaller
      <4>3. t \in Task
        <5>1. b \in Blocks
          BY <2>2
        <5> HIDE DEF n
        <5>2. QED
          BY <4>1, <4>2, <5>1 DEF Task
      <4>4. pending' \in Seq(Task) /\ Len(pending') = 1
        BY <3>2, <4>3, One DEF CutTask
      <4>5. left' \in [Files -> Nat] /\ prev' \in [Files -> Nat]
        BY SMTT(30), <3>2, <4>1, <4>2 DEF CutTask
      <4>6. dispatched_nonces' \in -IntRange .. IntRange - 1
        BY SMTT(30), <3>2, <4>2, WrapType DEF CutTask
      <4>7. QED
        BY <1>4, <2>1, <2>2, <3>2, <4>4, <4>5, <4>6, WritersAre
        DEF DispatcherReadWriter
    <3>3. QED
      BY <1>4, <2>1, <2>2, <3>1, <3>2 DEF DispatcherReadWriter
  <2>4. WorldTypeOK'
    BY <1>4, FaultType DEF DispatcherReadWriter
  <2>5. QED
    BY <1>4, <2>3, <2>4, Unchanged DEF DispatcherReadWriter
<1>5. CASE DispatcherSubmit
  <2>1. <<>> \in Seq(Task) /\ Len(<<>>) = 0
    BY EmptySeq
  <2>2. DispatcherInv'
    BY <1>5, <2>1 DEF DispatcherSubmit
  <2>3. hasher_tasks' \in Seq(Task)
    BY <1>5, ConcatProperties DEF DispatcherSubmit, QueueTypeOK
  <2>4. QueueTypeOK'
    BY <1>5, <2>3 DEF DispatcherSubmit, QueueTypeOK
  <2>5. QED
    BY <1>5, <2>2, <2>4, Unchanged DEF DispatcherSubmit
<1>6. CASE DispatcherSignal
  <2>1. DispatcherInv'
    BY <1>6, WritersAre DEF DispatcherSignal
  <2>2. WorldTypeOK'
    BY <1>6 DEF DispatcherSignal, WorldTypeOK
  <2>3. QED
    BY <1>6, <2>1, <2>2, Unchanged DEF DispatcherSignal
<1>7. CASE DispatcherStopWorker
  <2>1. DispatcherInv'
    BY <1>7, WritersAre DEF DispatcherStopWorker
  <2>2. QED
    BY <1>7, <2>1, Unchanged DEF DispatcherStopWorker
<1>8. CASE DispatcherJoin
  <2>1. DispatcherInv'
    BY <1>8 DEF DispatcherJoin
  <2>2. QED
    BY <1>8, <2>1, Unchanged DEF DispatcherJoin
<1>9. QED
  BY <1>1, <1>2, <1>3, <1>4, <1>5, <1>6, <1>7, <1>8 DEF Dispatcher

LEMMA HasherIInv ==
  ASSUME IInv, HasherStep \/ HasherPopNull
  PROVE  IInv'
<1> USE DEF IInv, HasherInv, HasherTypeOK, HasherStage
<1>1. CASE HasherLoop
  <2>1. HasherInv'
    BY <1>1 DEF HasherLoop
  <2>2. QED
    BY <1>1, <2>1, Unchanged DEF HasherLoop
<1>2. CASE HasherPop
  <2>1. Head(hasher_tasks) \in Task /\ Tail(hasher_tasks) \in Seq(Task)
    BY <1>2, HeadTailProperties DEF HasherPop, QueueTypeOK
  <2>2. /\ hashing' \in Seq(Task) /\ Len(hashing') = 1
        /\ hashing'[1] \in Task
    BY <1>2, <2>1, One DEF HasherPop
  <2>3. hashing'[1].nonces > 0 /\ 0 \in 0 .. WorkSize
    BY <2>2, TaskType, WorkSizeType
  <2>4. HasherInv'
    BY <1>2, <2>2, <2>3 DEF HasherPop
  <2>5. QueueTypeOK'
    BY <1>2, <2>1 DEF HasherPop, QueueTypeOK
  <2>6. QED
    BY <1>2, <2>4, <2>5, Unchanged DEF HasherPop
<1>3. CASE HasherPlot
  <2> DEFINE t == hashing[1]
             n == Smaller(t.nonces - hashed, GlobalWorkSize)
             data == [k \in 0 .. WorkSize - 1 |->
                        IF k - hashed \in 0 .. n - 1 THEN t.sn + k
                        ELSE IF k - hashed \in n .. GlobalWorkSize - 1
                             THEN Garbage
                             ELSE mem[t.block][k]]
  <2>1. t \in Task /\ hashed < t.nonces
    BY <1>3, Singleton DEF HasherPlot
  <2>2. /\ t.block \in Blocks
        /\ t.sn \in Nat
        /\ t.nonces \in 1 .. WorkSize
    BY <2>1, TaskType
  <2>3. n \in Nat /\ n <= t.nonces - hashed
    <3> HIDE DEF t
    <3>1. t.nonces - hashed \in Nat
      BY <2>1, <2>2, WorkSizeType
    <3>2. GlobalWorkSize \in Nat
      BY SizesAssumption
    <3>3. QED
      BY <3>1, <3>2 DEF Smaller
  <2>4. /\ mem' = [mem EXCEPT ![t.block] = data]
        /\ hashed' = hashed + n
        /\ hpc' = IF hashed + n = t.nonces THEN "push" ELSE "plot"
        /\ hashing' = hashing
        /\ counting' = counting
    BY <1>3 DEF HasherPlot
  <2>5. data \in [0 .. WorkSize - 1 -> Nat \cup {Garbage}]
    <3> HIDE DEF n, t
    <3>1. QED
      BY SMTT(30), <2>2, <2>3, WorkSizeType
  <2>6. mem' \in [Blocks -> [0 .. WorkSize - 1 -> Nat \cup {Garbage}]]
    <3> HIDE DEF data, t
    <3>1. QED
      BY <2>2, <2>4, <2>5
  <2>7. /\ hashed' \in 0 .. WorkSize
        /\ hpc' \in {"push", "plot"}
        /\ hpc' = "plot" => hashed' < t.nonces
    <3> HIDE DEF n, t
    <3>1. QED
      BY <2>1, <2>2, <2>3, <2>4, WorkSizeType
  <2>8. Len(hashing) = 1
    BY <1>3 DEF HasherPlot
  <2>9. HasherInv'
    BY <2>4, <2>6, <2>7, <2>8
  <2>10. QED
    BY <1>3, <2>9, Unchanged DEF HasherPlot
<1>4. CASE HasherPush
  <2>1. hashing[1] \in Task
    BY <1>4, Singleton DEF HasherPush
  <2>2. hashing[1].file[1] \in Writers
    BY <2>1, TaskType, FilesAre
  <2>3. <<>> \in Seq(Task) /\ Len(<<>>) = 0
    BY EmptySeq
  <2>4. HasherInv'
    BY <1>4, <2>2, <2>3 DEF HasherPush
  <2>5. fin_hasher_tasks[hashing[1].file[1]] \o hashing \in Seq(Task)
    BY <2>2, ConcatProperties DEF QueueTypeOK
  <2>6. QueueTypeOK'
    BY <1>4, <2>2, <2>5 DEF HasherPush, QueueTypeOK
  <2>7. QED
    BY <1>4, <2>4, <2>6, Unchanged DEF HasherPush
<1>5. CASE HasherCount
  <2>1. HasherInv'
    BY <1>5 DEF HasherCount
  <2>2. QueueTypeOK'
    BY <1>5 DEF HasherCount, QueueTypeOK
  <2>3. QED
    BY <1>5, <2>1, <2>2, Unchanged DEF HasherCount
<1>6. CASE HasherPopNull
  <2>1. HasherInv'
    BY <1>6 DEF HasherPopNull
  <2>2. QED
    BY <1>6, <2>1, Unchanged DEF HasherPopNull
<1>7. QED
  BY <1>1, <1>2, <1>3, <1>4, <1>5, <1>6 DEF HasherStep

\* The disk keeps its type whatever prefix of a task is written.
LEMMA WrittenType ==
  ASSUME IInv, NEW t \in Task, NEW n \in 0 .. t.nonces,
         disk' = Written(t, n)
  PROVE  /\ disk' = [f \in Files |-> disk'[f]]
         /\ \A f \in Files :
              disk'[f] \in [0 .. Plot(f).nonces - 1 -> Nat \cup {Blank}]
<1> DEFINE base == t.sn - Plot(t.file).sn
           new == [k \in DOMAIN disk[t.file] |->
                     IF k - base \in 0 .. n - 1 THEN mem[t.block][k - base]
                     ELSE disk[t.file][k]]
<1>1. /\ disk = [f \in Files |-> disk[f]]
      /\ \A f \in Files :
           disk[f] \in [0 .. Plot(f).nonces - 1 -> Nat \cup {Blank}]
  BY DEF IInv, WriterInv, WriterTypeOK
<1>2. disk' = [disk EXCEPT ![t.file] = new]
  BY DEF Written
<1>3. t.file \in Files /\ t.block \in Blocks /\ t.nonces \in 1 .. WorkSize
  BY TaskType
<1>4. base \in Int
  BY <1>3, TaskType, FilesAre
<1>5. mem[t.block] \in [0 .. WorkSize - 1 -> Nat \cup {Blank}]
  BY <1>3 DEF IInv, HasherInv, HasherTypeOK, Garbage, Blank
<1>6. new \in [0 .. Plot(t.file).nonces - 1 -> Nat \cup {Blank}]
  <2>1. disk[t.file] \in [0 .. Plot(t.file).nonces - 1 -> Nat \cup {Blank}]
    BY <1>1, <1>3
  <2>2. ASSUME NEW k \in 0 .. Plot(t.file).nonces - 1, k - base \in 0 .. n - 1
        PROVE  mem[t.block][k - base] \in Nat \cup {Blank}
    <3>1. k - base \in 0 .. WorkSize - 1
      <4> HIDE DEF base
      <4>1. QED
        BY <1>3, <1>4, <2>2, WorkSizeType
    <3>2. QED
      BY <1>5, <3>1
  <2> HIDE DEF base
  <2>3. QED
    BY <2>1, <2>2
<1> HIDE DEF new
<1>7. QED
  BY <1>1, <1>2, <1>3, <1>6

\* The stages that hold a task, and the others.
LEMMA WritingIs ==
  ASSUME IInv, NEW w \in Writers,
         wpc[w] \in {"open", "write", "failed", "submit", "report"}
  PROVE  /\ writing[w][1] \in Task
         /\ writing[w][1].file \in Files
         /\ Len(writing[w]) = 1
<1>1. writing[w] \in Seq(Task) /\ Len(writing[w]) = 1
  BY DEF IInv, WriterInv, WriterTypeOK, WriterStage
<1>2. QED
  BY <1>1, Singleton, TaskType

LEMMA WriterIInv ==
  ASSUME IInv, NEW w \in Writers, WriterStep(w) \/ WriterPopNull(w)
  PROVE  IInv'
<1> USE DEF IInv, WriterInv, WriterTypeOK, WriterStage
<1>1. CASE WriterLoop(w)
  <2>1. WriterInv'
    BY <1>1 DEF WriterLoop
  <2>2. QED
    BY <1>1, <2>1, Unchanged DEF WriterLoop
<1>2. CASE WriterPop(w)
  <2> DEFINE t == Head(fin_hasher_tasks[w])
  <2>1. /\ fin_hasher_tasks[w] \in Seq(Task)
        /\ fin_hasher_tasks[w] # <<>>
    BY <1>2 DEF WriterPop, QueueTypeOK
  <2>2. t \in Task /\ Tail(fin_hasher_tasks[w]) \in Seq(Task)
    BY <2>1, HeadTailProperties
  <2>3. <<t>> \in Seq(Task) /\ Len(<<t>>) = 1 /\ t.file \in Files
    BY <2>2, One, TaskType
  <2>4. /\ writing' = [writing EXCEPT ![w] = <<t>>]
        /\ fin_hasher_tasks' =
             [fin_hasher_tasks EXCEPT ![w] = Tail(fin_hasher_tasks[w])]
        /\ queue_size' = [queue_size EXCEPT ![w] = @ - 1]
        /\ UNCHANGED <<success, submitted, disk, name, hasher_tasks, reporter>>
    BY <1>2 DEF WriterPop
  <2>5. \E s \in {"report", "open"} : wpc' = [wpc EXCEPT ![w] = s]
    BY <1>2 DEF WriterPop
  <2>6. /\ last_write_task' \in [Writers -> Files \cup {NoFile}]
        /\ handle' \in [Writers -> Files \cup {NoFile}]
    <3>1. \/ UNCHANGED last_write_task
          \/ last_write_task' = [last_write_task EXCEPT ![w] = t.file]
      BY <1>2 DEF WriterPop
    <3>2. \/ UNCHANGED handle
          \/ \E h \in {handle[w], NoFile} : handle' = [handle EXCEPT ![w] = h]
      BY <1>2 DEF WriterPop
    <3> HIDE DEF t
    <3>3. last_write_task' \in [Writers -> Files \cup {NoFile}]
      BY <2>3, <3>1
    <3>4. handle' \in [Writers -> Files \cup {NoFile}]
      <4>1. handle \in [Writers -> Files \cup {NoFile}]
        OBVIOUS
      <4>2. ASSUME NEW h \in {handle[w], NoFile},
                   handle' = [handle EXCEPT ![w] = h]
            PROVE  handle' \in [Writers -> Files \cup {NoFile}]
        BY <4>1, <4>2
      <4>3. QED
        BY <3>2, <4>1, <4>2
    <3>5. QED
      BY <3>3, <3>4
  <2> HIDE DEF t
  <2>7. WriterInv'
    <3>1. /\ writing' \in [Writers -> Seq(Task)]
          /\ \A v \in Writers :
               Len(writing'[v]) = IF v = w THEN 1 ELSE Len(writing[v])
      BY <2>3, <2>4
    <3>2. PICK s \in {"report", "open"} : wpc' = [wpc EXCEPT ![w] = s]
      BY <2>5
    <3>3. WriterStage'
      BY <3>1, <3>2
    <3>4. WriterTypeOK'
      BY <2>4, <2>6, <3>1, <3>2
    <3>5. QED
      BY <3>3, <3>4
  <2>8. QueueTypeOK'
    BY <2>2, <2>4 DEF QueueTypeOK
  <2>9. QED
    BY <1>2, <2>7, <2>8, Unchanged DEF WriterPop
<1>3. CASE WriterOpen(w)
  <2> DEFINE f == writing[w][1].file
  <2>1. f \in Files /\ wpc[w] = "open"
    BY <1>3, WritingIs DEF WriterOpen
  <2>2. /\ handle' \in [Writers -> Files \cup {NoFile}]
        /\ name' \in [Files -> {"none", "plotting", "final"}]
    BY <1>3, <2>1 DEF WriterOpen
  <2>3. /\ disk' = [g \in Files |-> disk'[g]]
        /\ \A g \in Files :
             disk'[g] \in [0 .. Plot(g).nonces - 1 -> Nat \cup {Blank}]
    <3>1. CASE disk' = [disk EXCEPT ![f] = [k \in DOMAIN disk[f] |-> Blank]]
      <4> HIDE DEF f
      <4>1. QED
        BY <2>1, <3>1
    <3>2. CASE disk' = disk
      BY <3>2
    <3>3. QED
      BY <1>3, <3>1, <3>2 DEF WriterOpen
  <2>4. WriterInv'
    BY <1>3, <2>1, <2>2, <2>3 DEF WriterOpen
  <2>5. WorldTypeOK'
    BY <1>3, FaultType DEF WriterOpen
  <2>6. QED
    BY <1>3, <2>4, <2>5, Unchanged DEF WriterOpen
<1>4. CASE WriterWrite(w)
  <2> DEFINE t == writing[w][1]
  <2>1. t \in Task /\ wpc[w] = "write" /\ t.nonces \in 1 .. WorkSize
    BY <1>4, WritingIs, TaskType DEF WriterWrite
  <2>2. \/ disk' = disk
        \/ \E n \in 0 .. t.nonces : disk' = Written(t, n)
    <3>1. t.nonces \in 0 .. t.nonces /\ WholeWhenCut(t) \subseteq 0 .. t.nonces
      BY <2>1, WorkSizeType DEF WholeWhenCut
    <3> HIDE DEF t
    <3>2. QED
      BY <1>4, <3>1 DEF WriterWrite, t
  <2>3. /\ disk' = [g \in Files |-> disk'[g]]
        /\ \A g \in Files :
             disk'[g] \in [0 .. Plot(g).nonces - 1 -> Nat \cup {Blank}]
    <3>1. CASE disk' = disk
      BY <3>1
    <3>2. CASE \E n \in 0 .. t.nonces : disk' = Written(t, n)
      BY <2>1, <3>2, WrittenType
    <3>3. QED
      BY <2>2, <3>1, <3>2
  <2>4. /\ \E s \in {"submit", "failed"} : wpc' = [wpc EXCEPT ![w] = s]
        /\ \E s \in BOOLEAN : success' = [success EXCEPT ![w] = s]
        /\ handle' \in [Writers -> Files \cup {NoFile}]
    BY <1>4 DEF WriterWrite
  <2>5. UNCHANGED <<writing, last_write_task, submitted, name>>
    BY <1>4 DEF WriterWrite
  <2>6. WriterInv'
    <3>1. WriterStage'
      BY <1>4, <2>4, <2>5 DEF WriterWrite
    <3>2. WriterTypeOK'
      BY <2>3, <2>4, <2>5
    <3>3. QED
      BY <3>1, <3>2
  <2>7. WorldTypeOK'
    BY <1>4, FaultType DEF WriterWrite
  <2>8. QED
    BY <1>4, <2>6, <2>7, Unchanged DEF WriterWrite
<1>5. CASE WriterRetry(w)
  <2>1. WriterInv'
    BY <1>5 DEF WriterRetry
  <2>2. QED
    BY <1>5, <2>1, Unchanged DEF WriterRetry
<1>6. CASE WriterSubmit(w)
  <2> DEFINE f == writing[w][1].file
             n == submitted[f] + writing[w][1].nonces
  <2>1. f \in Files /\ wpc[w] = "submit" /\ n \in Nat
    BY <1>6, WritingIs, TaskType, WorkSizeType DEF WriterSubmit
  <2>2. submitted' = [submitted EXCEPT ![f] = n]
    BY <1>6 DEF WriterSubmit
  <2>3. submitted' \in [Files -> Nat]
    <3> HIDE DEF f, n
    <3>1. QED
      BY <2>1, <2>2
  <2>4. /\ handle' \in [Writers -> Files \cup {NoFile}]
        /\ name' \in [Files -> {"none", "plotting", "final"}]
    BY <1>6, <2>1 DEF WriterSubmit
  <2>5. WriterInv'
    <3>1. /\ wpc' = [wpc EXCEPT ![w] = "report"]
          /\ UNCHANGED <<writing, success, last_write_task, disk>>
      BY <1>6 DEF WriterSubmit
    <3>2. WriterStage'
      BY <2>1, <3>1
    <3>3. WriterTypeOK'
      BY <2>3, <2>4, <3>1
    <3>4. QED
      BY <3>2, <3>3
  <2>6. WorldTypeOK'
    BY <1>6, FaultType DEF WriterSubmit
  <2>7. QED
    BY <1>6, <2>5, <2>6, Unchanged DEF WriterSubmit
<1>7. CASE WriterReport(w)
  <2>1. <<>> \in Seq(Task) /\ Len(<<>>) = 0
    BY EmptySeq
  <2>2. WriterInv'
    <3>1. /\ writing' = [writing EXCEPT ![w] = <<>>]
          /\ wpc' = [wpc EXCEPT ![w] = "loop"]
          /\ UNCHANGED <<success, handle, last_write_task, submitted, disk,
                         name>>
      BY <1>7 DEF WriterReport
    <3>2. /\ writing' \in [Writers -> Seq(Task)]
          /\ \A v \in Writers :
               Len(writing'[v]) = IF v = w THEN 0 ELSE Len(writing[v])
      <4> DEFINE e == <<>>
      <4>1. e \in Seq(Task) /\ Len(e) = 0 /\ writing' = [writing EXCEPT ![w] = e]
        BY <2>1, <3>1
      <4> HIDE DEF e
      <4>2. QED
        BY <4>1
    <3>3. WriterStage'
      BY <3>1, <3>2
    <3>4. WriterTypeOK'
      BY <3>1, <3>2
    <3>5. QED
      BY <3>3, <3>4
  <2>3. reporter' \in Seq(Task)
    BY <1>7, ConcatProperties DEF WriterReport, QueueTypeOK
  <2>4. QueueTypeOK'
    BY <1>7, <2>3 DEF WriterReport, QueueTypeOK
  <2>5. QED
    BY <1>7, <2>2, <2>4, Unchanged DEF WriterReport
<1>8. CASE WriterPopNull(w)
  <2>1. WriterInv'
    BY <1>8 DEF WriterPopNull
  <2>2. QED
    BY <1>8, <2>1, Unchanged DEF WriterPopNull
<1>9. QED
  BY <1>1, <1>2, <1>3, <1>4, <1>5, <1>6, <1>7, <1>8 DEF WriterStep

LEMMA NextIInv == IInv /\ [Next]_vars => IInv'
<1> SUFFICES ASSUME IInv, [Next]_vars PROVE IInv'
  OBVIOUS
<1>1. CASE UserSignal
  <2>1. WorldTypeOK'
    BY <1>1 DEF UserSignal, IInv, WorldTypeOK
  <2>2. QED
    BY <1>1, <2>1, Unchanged DEF UserSignal, IInv
<1>2. CASE UNCHANGED vars
  BY <1>2, Unchanged DEF IInv, vars
<1>3. QED
  BY <1>1, <1>2, DispatcherIInv, HasherIInv, WriterIInv DEF Next

LEMMA Invariance == Spec => []IInv
BY InitIInv, NextIInv, PTL DEF Spec

\* Every variable of the pipeline keeps its type, for any plan and any number
\* of drives, blocks and failures (plotter.cpp:207-303 and the workers' run).
THEOREM TypeCorrect == Spec => []TypeOK
<1>1. IInv => TypeOK
  BY DEF IInv, WorldTypeOK, DispatcherInv, HasherInv, WriterInv, TypeOK
<1>2. QED
  BY <1>1, Invariance, PTL
=============================================================================
