---------------------------- MODULE PlotPipeline ----------------------------
(***************************************************************************)
(* plotter::run_plotter from the start of the threads on (src/src/         *)
(* plotter.cpp:207-303): the dispatcher cuts the planned plot files into   *)
(* hasher tasks and gives each a memory block, the hasher fills the block, *)
(* the writer of the file's drive puts it on disk and reports it back, and *)
(* the dispatcher takes the block back and counts the nonces.              *)
(*                                                                         *)
(*   dispatcher --hasher_tasks--> hasher --fin_hasher_tasks[w]--> writer w *)
(*       ^                                                           |     *)
(*       +---------------------------reporter------------------------+     *)
(*                                                                         *)
(* One action per stretch of code between two accesses to what threads     *)
(* share.  The queues are channels here; WorkQueue shows that util::queue  *)
(* is one, and which readings of size() are exact.  A null pop of a        *)
(* stopped queue is possible and never promised (WorkQueue,                *)
(* StopReleasesConsumers).  A block holds, and a file stores, one value    *)
(* per nonce: the number of the nonce, once all of it is there.            *)
(*                                                                         *)
(* A definition marked "Bug" is a plausible mistake in the code modelled   *)
(* by the definition after it.  No behaviour of the module uses it; put in *)
(* the place of that definition it must break the property PROJECT.json    *)
(* names with it.                                                          *)
(***************************************************************************)
EXTENDS Integers, Sequences, FiniteSets

CONSTANTS
  Plots,            \* Plots[w][i]: sn and nonces of the i-th file of writer w
  GlobalWorkSize,   \* nonces the device computes at a time
  Buffers,          \* batches of GlobalWorkSize in a task (--buffers)
  Blocks,           \* the blocks that fit in max_mem_to_use
  BenchMode,        \* --bench: bit 0 skips the writing, bit 1 the hashing
  NoncesPerWrite,   \* SCOOPS_PER_WRITE
  IntRange,         \* 2^(w-1) for the width w of int
  MaxFaults,        \* bound: failures of the file system and of the memory
  Signals           \* may the user interrupt the program

Writers == DOMAIN Plots

ASSUME PlotsAssumption ==
  /\ Plots \in Seq(Seq([sn : Nat, nonces : Nat \ {0}]))
  /\ Plots # <<>>

ASSUME SizesAssumption ==
  /\ {GlobalWorkSize, Buffers, NoncesPerWrite, IntRange} \subseteq Nat \ {0}
  /\ IsFiniteSet(Blocks)
  /\ Blocks # {}
  /\ BenchMode \in 0 .. 3

ASSUME BoundsAssumption ==
  /\ MaxFaults \in Nat
  /\ Signals \in BOOLEAN

\* A file is named by its writer and its place in writer_tasks_.
Files == UNION {{w} \X (1 .. Len(Plots[w])) : w \in Writers}

Plot(f) == Plots[f[1]][f[2]]

\* A nonce of the plan is named by its file and its place in the file.
Nonces == UNION {{f} \X (0 .. Plot(f).nonces - 1) : f \in Files}

TotalNonces == Cardinality(Nonces)

WorkSize == GlobalWorkSize * Buffers

Smaller(m, n) == IF m < n THEN m ELSE n

\* Two tasks for each worker, the hasher among them, if memory allows.
MaxFlying == Smaller(Cardinality(Blocks), 2 * (Len(Plots) + 1))

HashOff == BenchMode \in {2, 3}
WriteOff == BenchMode \in {1, 3}

\* The value of an int after the addition that makes it n.
Wrap(n) == ((n + IntRange) % (2 * IntRange)) - IntRange

Garbage == -1       \* in a block: no nonce that was asked for
Blank == -1         \* on disk: not all scoops of the nonce are written
NoFile == <<>>

\* hasher_task
Task == [file : Files, sn : Nat, nonces : 1 .. WorkSize, block : Blocks]

VARIABLES
  sig_stop,         \* signal::sig_stop_
  \* the dispatcher
  dpc,              \* where it is
  cur_worker_pos,   \* the worker to serve next, counted from 0
  pending,          \* the task it is about to submit
  dispatched_nonces, finished_nonces, on_going_task,
  stops,            \* on how many workers, writers first, it has called stop()
  free_blocks, used_blocks,
  left, prev,       \* writer_task: nonces and prev_ of each file
  \* the hasher
  hasher_tasks, hpc,
  hashing,          \* the task it works on
  hashed,           \* how many nonces of it have been computed
  counting,         \* the writer whose queue's size lacks its last push
  mem,              \* what each block holds
  \* the writers
  fin_hasher_tasks, queue_size, wpc,
  writing,          \* the task each one works on
  success,
  handle,           \* the file each osfile_ has open
  last_write_task,
  submitted,        \* writer_task: submitted_nonces_ of each file
  reporter,
  \* the world
  disk,             \* what each file stores
  name,             \* the name each file has on disk
  faults            \* failures so far

dispatcherVars == <<dpc, cur_worker_pos, pending, dispatched_nonces,
                    finished_nonces, on_going_task, stops, free_blocks,
                    used_blocks, left, prev>>
hasherVars == <<hpc, hashing, hashed, counting, mem>>
writerVars == <<wpc, writing, success, handle, last_write_task, submitted,
                disk, name>>
queueVars == <<hasher_tasks, fin_hasher_tasks, queue_size, reporter>>

vars == <<sig_stop, dispatcherVars, hasherVars, writerVars, queueVars, faults>>

Init ==
  /\ sig_stop = FALSE
  /\ dpc = "loop"
  /\ cur_worker_pos = 0
  /\ pending = <<>>
  /\ dispatched_nonces = 0
  /\ finished_nonces = 0
  /\ on_going_task = 0
  /\ stops = 0
  /\ free_blocks = {}
  /\ used_blocks = {}
  /\ left = [f \in Files |-> Plot(f).nonces]
  /\ prev = [f \in Files |-> Plot(f).sn]
  /\ hasher_tasks = <<>>
  /\ hpc = "loop"
  /\ hashing = <<>>
  /\ hashed = 0
  /\ counting = 1
  /\ mem = [b \in Blocks |-> [k \in 0 .. WorkSize - 1 |-> Garbage]]
  /\ fin_hasher_tasks = [w \in Writers |-> <<>>]
  /\ queue_size = [w \in Writers |-> 0]
  /\ wpc = [w \in Writers |-> "loop"]
  /\ writing = [w \in Writers |-> <<>>]
  /\ success = [w \in Writers |-> TRUE]
  /\ handle = [w \in Writers |-> NoFile]
  /\ last_write_task = [w \in Writers |-> NoFile]
  /\ submitted = [f \in Files |-> 0]
  /\ reporter = <<>>
  /\ disk = [f \in Files |-> [k \in 0 .. Plot(f).nonces - 1 |-> Blank]]
  /\ name = [f \in Files |-> "none"]
  /\ faults = 0

\* Something outside the program fails.
Fault ==
  /\ faults < MaxFaults
  /\ faults' = faults + 1

-----------------------------------------------------------------------------
(* The dispatcher: the main thread                                         *)

\* Bug: sig_stop_ is not tested.
DispatcherLoopDeaf ==
  /\ dpc = "loop"
  /\ dpc' = "poll"
  /\ UNCHANGED <<sig_stop, cur_worker_pos, pending, dispatched_nonces,
                 finished_nonces, on_going_task, stops, free_blocks,
                 used_blocks, left, prev, hasherVars, writerVars, queueVars,
                 faults>>

\* while (! signal::get().stopped())
DispatcherLoop ==
  /\ dpc = "loop"
  /\ dpc' = IF sig_stop THEN "stop" ELSE "poll"
  /\ UNCHANGED <<sig_stop, cur_worker_pos, pending, dispatched_nonces,
                 finished_nonces, on_going_task, stops, free_blocks,
                 used_blocks, left, prev, hasherVars, writerVars, queueVars,
                 faults>>

\* Where the tests between the report and the first look at a queue lead.
AfterPoll(finished, ongoing) ==
  IF finished = TotalNonces THEN "stop"
  ELSE IF dispatched_nonces = TotalNonces \/ ongoing >= MaxFlying THEN "loop"
  ELSE "hasher"

\* Bugs: the block is not given back; it is free and used at once.
RetainNothing(b) == UNCHANGED <<free_blocks, used_blocks>>

RetainTwice(b) ==
  /\ free_blocks' = free_blocks \cup {b}
  /\ UNCHANGED used_blocks

\* block_allocator::retain
Retain(b) ==
  /\ free_blocks' = free_blocks \cup {b}
  /\ used_blocks' = used_blocks \ {b}

\* reporter_.pop_for returns a report, or nothing after 200 ms.
DispatcherPoll ==
  /\ dpc = "poll"
  /\ \/ /\ reporter # <<>>
        /\ LET t == Head(reporter) IN
           /\ Retain(t.block)
           /\ finished_nonces' = Wrap(finished_nonces + t.nonces)
        /\ on_going_task' = on_going_task - 1
        /\ reporter' = Tail(reporter)
     \/ /\ reporter = <<>>
        /\ UNCHANGED <<free_blocks, used_blocks, finished_nonces,
                       on_going_task, reporter>>
  /\ dpc' = AfterPoll(finished_nonces', on_going_task')
  /\ UNCHANGED <<sig_stop, cur_worker_pos, pending, dispatched_nonces, stops,
                 left, prev, hasherVars, writerVars, hasher_tasks,
                 fin_hasher_tasks, queue_size, faults>>

\* hashing->task_queue_size() > 1: only the dispatcher pushes to this queue,
\* so the size it reads is the length.
DispatcherReadHasher ==
  /\ dpc = "hasher"
  /\ IF Len(hasher_tasks) > 1
     THEN dpc' = "loop" /\ UNCHANGED cur_worker_pos
     ELSE /\ dpc' = "writer"
          /\ cur_worker_pos' =
               IF cur_worker_pos >= Len(Plots) THEN 0 ELSE cur_worker_pos
  /\ UNCHANGED <<sig_stop, pending, dispatched_nonces, finished_nonces,
                 on_going_task, stops, free_blocks, used_blocks, left, prev,
                 hasherVars, writerVars, queueVars, faults>>

\* The blocks block_allocator::allocate may return: a free one if there is
\* one, else a new one if that stays within max_mem_.
Allocatable ==
  IF free_blocks # {} THEN free_blocks ELSE Blocks \ used_blocks

\* Bug: any file with nonces left will do.
CurrentFilesAny(w) == {f \in {w} \X (1 .. Len(Plots[w])) : left[f] > 0}

\* The writer's file that next_hasher_task cuts from: nonces are left in it
\* and in none before it.
CurrentFiles(w) ==
  {f \in {w} \X (1 .. Len(Plots[w])) :
     /\ left[f] > 0
     /\ \A i \in 1 .. f[2] - 1 : left[<<w, i>>] = 0}

\* Bugs: the last task of a file is as large as the others; the nonces of
\* such a task are counted.
CutTaskWhole(f, b) ==
  /\ left' = [left EXCEPT ![f] = @ - WorkSize]
  /\ prev' = [prev EXCEPT ![f] = @ + WorkSize]
  /\ pending' = <<[file |-> f, sn |-> prev[f], nonces |-> WorkSize,
                   block |-> b]>>
  /\ dispatched_nonces' = Wrap(dispatched_nonces + WorkSize)

CutTaskMiscounted(f, b) ==
  LET n == Smaller(WorkSize, left[f]) IN
  /\ left' = [left EXCEPT ![f] = @ - n]
  /\ prev' = [prev EXCEPT ![f] = @ + n]
  /\ pending' = <<[file |-> f, sn |-> prev[f], nonces |-> n, block |-> b]>>
  /\ dispatched_nonces' = Wrap(dispatched_nonces + WorkSize)

\* next_hasher_task and writer_task::next
CutTask(f, b) ==
  LET n == Smaller(WorkSize, left[f]) IN
  /\ left' = [left EXCEPT ![f] = @ - n]
  /\ prev' = [prev EXCEPT ![f] = @ + n]
  /\ pending' = <<[file |-> f, sn |-> prev[f], nonces |-> n, block |-> b]>>
  /\ dispatched_nonces' = Wrap(dispatched_nonces + n)

\* wr_worker->task_queue_size() > 0 and what follows up to push_task.  The
\* size of a writer's queue lags behind the hasher's push, and a size_t that
\* would be negative is a large one.
DispatcherReadWriter ==
  /\ dpc = "writer"
  /\ LET w == cur_worker_pos + 1 IN
     \/ \* the writer has work
        /\ queue_size[w] # 0
        /\ cur_worker_pos' = cur_worker_pos + 1
        /\ dpc' = "loop"
        /\ UNCHANGED <<pending, dispatched_nonces, on_going_task, free_blocks,
                       used_blocks, left, prev, faults>>
     \/ \* no block: not within max_mem_, or the system is short of memory
        /\ queue_size[w] = 0
        /\ free_blocks = {}
        /\ (Allocatable = {} /\ UNCHANGED faults) \/ Fault
        /\ dpc' = "loop"
        /\ UNCHANGED <<cur_worker_pos, pending, dispatched_nonces,
                       on_going_task, free_blocks, used_blocks, left, prev>>
     \/ \* all of the writer's files are cut up
        /\ queue_size[w] = 0
        /\ CurrentFiles(w) = {}
        /\ \E b \in Allocatable : free_blocks' = free_blocks \cup {b}
        /\ cur_worker_pos' = cur_worker_pos + 1
        /\ dpc' = "loop"
        /\ UNCHANGED <<pending, dispatched_nonces, on_going_task, used_blocks,
                       left, prev, faults>>
     \/ \* a task for the writer
        /\ queue_size[w] = 0
        /\ \E b \in Allocatable, f \in CurrentFiles(w) :
             /\ CutTask(f, b)
             /\ free_blocks' = free_blocks \ {b}
             /\ used_blocks' = used_blocks \cup {b}
        /\ on_going_task' = on_going_task + 1
        /\ cur_worker_pos' = cur_worker_pos + 1
        /\ dpc' = "submit"
        /\ UNCHANGED faults
  /\ UNCHANGED <<sig_stop, finished_nonces, stops, hasherVars, writerVars,
                 queueVars>>

\* hashing->push_task
DispatcherSubmit ==
  /\ dpc = "submit"
  /\ hasher_tasks' = hasher_tasks \o pending
  /\ pending' = <<>>
  /\ dpc' = "loop"
  /\ UNCHANGED <<sig_stop, cur_worker_pos, dispatched_nonces, finished_nonces,
                 on_going_task, stops, free_blocks, used_blocks, left, prev,
                 hasherVars, writerVars, fin_hasher_tasks, queue_size,
                 reporter, faults>>

\* signal_stop(), after the loop
DispatcherSignal ==
  /\ dpc = "stop"
  /\ sig_stop' = TRUE
  /\ dpc' = "stopping"
  /\ UNCHANGED <<cur_worker_pos, pending, dispatched_nonces, finished_nonces,
                 on_going_task, stops, free_blocks, used_blocks, left, prev,
                 hasherVars, writerVars, queueVars, faults>>

\* w->stop() for the next worker: the writers first, the hasher last
DispatcherStopWorker ==
  /\ dpc = "stopping"
  /\ stops' = stops + 1
  /\ dpc' = IF stops = Len(Plots) THEN "join" ELSE "stopping"
  /\ UNCHANGED <<sig_stop, cur_worker_pos, pending, dispatched_nonces,
                 finished_nonces, on_going_task, free_blocks, used_blocks,
                 left, prev, hasherVars, writerVars, queueVars, faults>>

\* t.join() for every thread
DispatcherJoin ==
  /\ dpc = "join"
  /\ hpc = "exited"
  /\ \A w \in Writers : wpc[w] = "exited"
  /\ dpc' = "done"
  /\ UNCHANGED <<sig_stop, cur_worker_pos, pending, dispatched_nonces,
                 finished_nonces, on_going_task, stops, free_blocks,
                 used_blocks, left, prev, hasherVars, writerVars, queueVars,
                 faults>>

Dispatcher ==
  \/ DispatcherLoop
  \/ DispatcherPoll
  \/ DispatcherReadHasher
  \/ DispatcherReadWriter
  \/ DispatcherSubmit
  \/ DispatcherSignal
  \/ DispatcherStopWorker
  \/ DispatcherJoin

-----------------------------------------------------------------------------
(* The hasher's thread: hasher_worker::run                                 *)

HasherLoop ==
  /\ hpc = "loop"
  /\ hpc' = IF sig_stop THEN "exited" ELSE "pop"
  /\ UNCHANGED <<sig_stop, dispatcherVars, hashing, hashed, counting, mem,
                 writerVars, queueVars, faults>>

HasherPop ==
  /\ hpc = "pop"
  /\ hasher_tasks # <<>>
  /\ hashing' = <<Head(hasher_tasks)>>
  /\ hasher_tasks' = Tail(hasher_tasks)
  /\ hashed' = 0
  /\ hpc' = IF HashOff THEN "push" ELSE "plot"
  /\ UNCHANGED <<sig_stop, dispatcherVars, counting, mem, writerVars,
                 fin_hasher_tasks, queue_size, reporter, faults>>

\* The queue is stopped and pop returns a null task.
HasherPopNull ==
  /\ hpc = "pop"
  /\ stops > Len(Plots)
  /\ hpc' = "loop"
  /\ UNCHANGED <<sig_stop, dispatcherVars, hashing, hashed, counting, mem,
                 writerVars, queueVars, faults>>

\* Bug: host_buff is not advanced.
HasherPlotInPlace ==
  /\ hpc = "plot"
  /\ LET t == hashing[1]
         n == Smaller(t.nonces - hashed, GlobalWorkSize)
     IN /\ mem' = [mem EXCEPT ![t.block] =
                     [k \in 0 .. WorkSize - 1 |->
                        IF k \in 0 .. n - 1 THEN t.sn + hashed + k ELSE @[k]]]
        /\ hashed' = hashed + n
        /\ hpc' = IF hashed + n = t.nonces THEN "push" ELSE "plot"
  /\ UNCHANGED <<sig_stop, dispatcherVars, hashing, counting, writerVars,
                 queueVars, faults>>

\* gpu_plotter::plot for the next batch.  The device computes as many nonces
\* as the batch has, but it is always GlobalWorkSize of them that are copied
\* to the block.
HasherPlot ==
  /\ hpc = "plot"
  /\ LET t == hashing[1]
         n == Smaller(t.nonces - hashed, GlobalWorkSize)
     IN /\ mem' = [mem EXCEPT ![t.block] =
                     [k \in 0 .. WorkSize - 1 |->
                        IF k - hashed \in 0 .. n - 1 THEN t.sn + k
                        ELSE IF k - hashed \in n .. GlobalWorkSize - 1
                             THEN Garbage
                             ELSE @[k]]]
        /\ hashed' = hashed + n
        /\ hpc' = IF hashed + n = t.nonces THEN "push" ELSE "plot"
  /\ UNCHANGED <<sig_stop, dispatcherVars, hashing, counting, writerVars,
                 queueVars, faults>>

\* report: the task is in the writer's queue before it is in its size.
HasherPush ==
  /\ hpc = "push"
  /\ LET w == hashing[1].file[1] IN
     /\ fin_hasher_tasks' = [fin_hasher_tasks EXCEPT ![w] = @ \o hashing]
     /\ counting' = w
  /\ hashing' = <<>>
  /\ hpc' = "count"
  /\ UNCHANGED <<sig_stop, dispatcherVars, hashed, mem, writerVars,
                 hasher_tasks, queue_size, reporter, faults>>

HasherCount ==
  /\ hpc = "count"
  /\ queue_size' = [queue_size EXCEPT ![counting] = @ + 1]
  /\ hpc' = "loop"
  /\ UNCHANGED <<sig_stop, dispatcherVars, hashing, hashed, counting, mem,
                 writerVars, hasher_tasks, fin_hasher_tasks, reporter, faults>>

HasherStep ==
  \/ HasherLoop
  \/ HasherPop
  \/ HasherPlot
  \/ HasherPush
  \/ HasherCount

-----------------------------------------------------------------------------
(* A writer's thread: writer_worker::run                                   *)

\* while (success && ! signal::get().stopped()); the file is closed at the end
WriterLoop(w) ==
  /\ wpc[w] = "loop"
  /\ IF success[w] /\ ~sig_stop
     THEN /\ wpc' = [wpc EXCEPT ![w] = "pop"]
          /\ UNCHANGED handle
     ELSE /\ wpc' = [wpc EXCEPT ![w] = "exited"]
          /\ handle' = [handle EXCEPT ![w] = NoFile]
  /\ UNCHANGED <<sig_stop, dispatcherVars, hasherVars, writing, success,
                 last_write_task, submitted, disk, name, queueVars, faults>>

\* fin_hasher_tasks_.pop().  A task of another file than the last one closes
\* that file.
WriterPop(w) ==
  /\ wpc[w] = "pop"
  /\ fin_hasher_tasks[w] # <<>>
  /\ LET t == Head(fin_hasher_tasks[w]) IN
     /\ writing' = [writing EXCEPT ![w] = <<t>>]
     /\ fin_hasher_tasks' = [fin_hasher_tasks EXCEPT ![w] = Tail(@)]
     /\ queue_size' = [queue_size EXCEPT ![w] = @ - 1]
     /\ IF WriteOff
        THEN /\ wpc' = [wpc EXCEPT ![w] = "report"]
             /\ UNCHANGED <<last_write_task, handle>>
        ELSE /\ wpc' = [wpc EXCEPT ![w] = "open"]
             /\ last_write_task' = [last_write_task EXCEPT ![w] = t.file]
             /\ handle' = [handle EXCEPT ![w] =
                             IF last_write_task[w] = t.file THEN @ ELSE NoFile]
  /\ UNCHANGED <<sig_stop, dispatcherVars, hasherVars, success, submitted,
                 disk, name, hasher_tasks, reporter, faults>>

WriterPopNull(w) ==
  /\ wpc[w] = "pop"
  /\ stops >= w
  /\ wpc' = [wpc EXCEPT ![w] = "loop"]
  /\ UNCHANGED <<sig_stop, dispatcherVars, hasherVars, writing, success,
                 handle, last_write_task, submitted, disk, name, queueVars,
                 faults>>

\* Bug: a file is created again whenever it is opened.
WriterOpenAnew(w) ==
  /\ wpc[w] = "open"
  /\ wpc' = [wpc EXCEPT ![w] = "write"]
  /\ LET f == writing[w][1].file IN
     \/ /\ handle[w] # NoFile
        /\ UNCHANGED <<handle, disk, name, faults>>
     \/ /\ handle[w] = NoFile
        /\ handle' = [handle EXCEPT ![w] = f]
        /\ name' = [name EXCEPT ![f] = "plotting"]
        /\ disk' = [disk EXCEPT ![f] = [k \in DOMAIN @ |-> Blank]]
        /\ UNCHANGED faults
  /\ UNCHANGED <<sig_stop, dispatcherVars, hasherVars, writing, success,
                 last_write_task, submitted, queueVars>>

\* The start of the retry loop: an open file is used as it is, a file that
\* exists is opened with what it holds, and else one is created.
WriterOpen(w) ==
  /\ wpc[w] = "open"
  /\ wpc' = [wpc EXCEPT ![w] = "write"]
  /\ LET f == writing[w][1].file IN
     \/ /\ handle[w] # NoFile
        /\ UNCHANGED <<handle, disk, name, faults>>
     \/ /\ handle[w] = NoFile
        /\ handle' = [handle EXCEPT ![w] = f]
        /\ IF name[f] = "plotting"
           THEN UNCHANGED <<disk, name>>
           ELSE /\ name' = [name EXCEPT ![f] = "plotting"]
                /\ disk' = [disk EXCEPT ![f] = [k \in DOMAIN @ |-> Blank]]
        /\ UNCHANGED faults
     \/ /\ handle[w] = NoFile
        /\ Fault
        /\ UNCHANGED <<handle, disk, name>>
  /\ UNCHANGED <<sig_stop, dispatcherVars, hasherVars, writing, success,
                 last_write_task, submitted, queueVars>>

\* Bug: the offset is counted from the start of the task.
WrittenAtStart(t, n) ==
  [disk EXCEPT ![t.file] =
     [k \in DOMAIN @ |-> IF k \in 0 .. n - 1 THEN mem[t.block][k] ELSE @[k]]]

\* The disk once the first n nonces of task t are in its file whole.  The
\* offset of a nonce is counted from init_sn.
Written(t, n) ==
  LET base == t.sn - Plot(t.file).sn IN
  [disk EXCEPT ![t.file] =
     [k \in DOMAIN @ |->
        IF k - base \in 0 .. n - 1 THEN mem[t.block][k - base] ELSE @[k]]]

\* Scoop by scoop, NoncesPerWrite nonces at a time: a nonce is whole only
\* when the last scoop is written, so what is whole when perform_write_plot
\* ends early is a number of full writes of that scoop.
WholeWhenCut(t) == {n \in 0 .. t.nonces - 1 : n % NoncesPerWrite = 0}

\* perform_write_plot
WriterWrite(w) ==
  /\ wpc[w] = "write"
  /\ LET t == writing[w][1] IN
     \/ \* everything is written
        /\ handle[w] # NoFile
        /\ disk' = Written(t, t.nonces)
        /\ success' = [success EXCEPT ![w] = TRUE]
        /\ wpc' = [wpc EXCEPT ![w] = "submit"]
        /\ UNCHANGED <<handle, faults>>
     \/ \* the loops end because the program is stopped: this is a success
        /\ sig_stop
        /\ \E n \in WholeWhenCut(t) :
             /\ n = 0 \/ handle[w] # NoFile
             /\ disk' = Written(t, n)
        /\ success' = [success EXCEPT ![w] = TRUE]
        /\ wpc' = [wpc EXCEPT ![w] = "submit"]
        /\ UNCHANGED <<handle, faults>>
     \/ \* seek or write fails
        /\ \/ handle[w] = NoFile /\ UNCHANGED <<disk, faults>>
           \/ /\ handle[w] # NoFile
              /\ Fault
              /\ \E n \in WholeWhenCut(t) : disk' = Written(t, n)
        /\ success' = [success EXCEPT ![w] = FALSE]
        /\ handle' = [handle EXCEPT ![w] = NoFile]
        /\ wpc' = [wpc EXCEPT ![w] = "failed"]
  /\ UNCHANGED <<sig_stop, dispatcherVars, hasherVars, writing,
                 last_write_task, submitted, name, queueVars>>

\* Five seconds later: try again unless the program is stopped.
WriterRetry(w) ==
  /\ wpc[w] = "failed"
  /\ wpc' = [wpc EXCEPT ![w] = IF sig_stop THEN "report" ELSE "open"]
  /\ UNCHANGED <<sig_stop, dispatcherVars, hasherVars, writing, success,
                 handle, last_write_task, submitted, disk, name, queueVars,
                 faults>>

\* submit_nonces; the last nonces of a file close it and rename it.  Nothing
\* looks at what the rename returns.
WriterSubmit(w) ==
  /\ wpc[w] = "submit"
  /\ LET t == writing[w][1]
         n == submitted[t.file] + t.nonces
     IN /\ submitted' = [submitted EXCEPT ![t.file] = n]
        /\ \/ /\ n # Plot(t.file).nonces
              /\ UNCHANGED <<handle, name, faults>>
           \/ /\ n = Plot(t.file).nonces
              /\ handle' = [handle EXCEPT ![w] = NoFile]
              /\ name[t.file] = "plotting"
              /\ name' = [name EXCEPT ![t.file] = "final"]
              /\ UNCHANGED faults
           \/ /\ n = Plot(t.file).nonces
              /\ handle' = [handle EXCEPT ![w] = NoFile]
              /\ (name[t.file] # "plotting" /\ UNCHANGED faults) \/ Fault
              /\ UNCHANGED name
  /\ wpc' = [wpc EXCEPT ![w] = "report"]
  /\ UNCHANGED <<sig_stop, dispatcherVars, hasherVars, writing, success,
                 last_write_task, disk, queueVars>>

\* Bug: the task is reported after the failure and after the success.
WriterReportTwice(w) ==
  /\ wpc[w] = "report"
  /\ reporter' = reporter \o writing[w] \o writing[w]
  /\ writing' = [writing EXCEPT ![w] = <<>>]
  /\ wpc' = [wpc EXCEPT ![w] = "loop"]
  /\ UNCHANGED <<sig_stop, dispatcherVars, hasherVars, success, handle,
                 last_write_task, submitted, disk, name, hasher_tasks,
                 fin_hasher_tasks, queue_size, faults>>

\* ctx_.report
WriterReport(w) ==
  /\ wpc[w] = "report"
  /\ reporter' = reporter \o writing[w]
  /\ writing' = [writing EXCEPT ![w] = <<>>]
  /\ wpc' = [wpc EXCEPT ![w] = "loop"]
  /\ UNCHANGED <<sig_stop, dispatcherVars, hasherVars, success, handle,
                 last_write_task, submitted, disk, name, hasher_tasks,
                 fin_hasher_tasks, queue_size, faults>>

WriterStep(w) ==
  \/ WriterLoop(w)
  \/ WriterPop(w)
  \/ WriterOpen(w)
  \/ WriterWrite(w)
  \/ WriterRetry(w)
  \/ WriterSubmit(w)
  \/ WriterReport(w)

-----------------------------------------------------------------------------
\* signal_handle: SIGINT or SIGTERM at any time
UserSignal ==
  /\ Signals
  /\ ~sig_stop
  /\ sig_stop' = TRUE
  /\ UNCHANGED <<dispatcherVars, hasherVars, writerVars, queueVars, faults>>

Next ==
  \/ Dispatcher
  \/ HasherStep \/ HasherPopNull
  \/ \E w \in Writers : WriterStep(w) \/ WriterPopNull(w)
  \/ UserSignal

Spec == Init /\ [][Next]_vars

(***************************************************************************)
(* Every thread goes on running.  A queue that holds a task hands it out   *)
(* (WorkQueue, Delivery) and pop_for returns in the end; a null pop of a   *)
(* stopped queue is not promised, nor is a signal.                         *)
(***************************************************************************)
Fairness ==
  /\ WF_vars(Dispatcher)
  /\ WF_vars(HasherStep)
  /\ \A w \in Writers : WF_vars(WriterStep(w))

FairSpec == Spec /\ Fairness

-----------------------------------------------------------------------------
DispatcherTypeOK ==
  /\ dpc \in {"loop", "poll", "hasher", "writer", "submit", "stop",
              "stopping", "join", "done"}
  /\ cur_worker_pos \in 0 .. Len(Plots)
  /\ pending \in Seq(Task) /\ Len(pending) <= 1
  /\ dispatched_nonces \in -IntRange .. IntRange - 1
  /\ finished_nonces \in -IntRange .. IntRange - 1
  /\ on_going_task \in Int
  /\ stops \in 0 .. Len(Plots) + 1
  /\ free_blocks \subseteq Blocks
  /\ used_blocks \subseteq Blocks
  /\ left \in [Files -> Nat]
  /\ prev \in [Files -> Nat]

HasherTypeOK ==
  /\ hpc \in {"loop", "pop", "plot", "push", "count", "exited"}
  /\ hashing \in Seq(Task) /\ Len(hashing) <= 1
  /\ hashed \in 0 .. WorkSize
  /\ counting \in Writers
  /\ mem \in [Blocks -> [0 .. WorkSize - 1 -> Nat \cup {Garbage}]]

WriterTypeOK ==
  /\ wpc \in [Writers -> {"loop", "pop", "open", "write", "failed", "submit",
                          "report", "exited"}]
  /\ writing \in [Writers -> Seq(Task)]
  /\ \A w \in Writers : Len(writing[w]) <= 1
  /\ success \in [Writers -> BOOLEAN]
  /\ handle \in [Writers -> Files \cup {NoFile}]
  /\ last_write_task \in [Writers -> Files \cup {NoFile}]
  /\ submitted \in [Files -> Nat]
  /\ disk = [f \in Files |-> disk[f]]
  /\ \A f \in Files :
       disk[f] \in [0 .. Plot(f).nonces - 1 -> Nat \cup {Blank}]
  /\ name \in [Files -> {"none", "plotting", "final"}]

QueueTypeOK ==
  /\ hasher_tasks \in Seq(Task)
  /\ fin_hasher_tasks \in [Writers -> Seq(Task)]
  /\ queue_size \in [Writers -> Int]
  /\ reporter \in Seq(Task)

TypeOK ==
  /\ sig_stop \in BOOLEAN
  /\ faults \in 0 .. MaxFaults
  /\ DispatcherTypeOK
  /\ HasherTypeOK
  /\ WriterTypeOK
  /\ QueueTypeOK

-----------------------------------------------------------------------------
(* Where the tasks in flight are                                           *)

Places == ({"pending", "hashing", "hasher_tasks", "reporter"} \X {0})
          \cup ({"fin_hasher_tasks", "writing"} \X Writers)

At(p) ==
  CASE p[1] = "pending"          -> pending
    [] p[1] = "hasher_tasks"     -> hasher_tasks
    [] p[1] = "hashing"          -> hashing
    [] p[1] = "fin_hasher_tasks" -> fin_hasher_tasks[p[2]]
    [] p[1] = "writing"          -> writing[p[2]]
    [] p[1] = "reporter"         -> reporter

\* A slot is a position at a place: two slots may hold equal tasks.
Slots == UNION {{p} \X (1 .. Len(At(p))) : p \in Places}

TaskIn(s) == At(s[1])[s[2]]

TaskNonces(t) ==
  {t.file} \X {t.sn - Plot(t.file).sn + k : k \in 0 .. t.nonces - 1}

Uncut == {n \in Nonces : Plot(n[1]).sn + n[2] >= prev[n[1]]}

InFlight == UNION {TaskNonces(TaskIn(s)) : s \in Slots}

(***************************************************************************)
(* BlockOwnership: no two tasks in flight share a block, and the blocks    *)
(* the allocator counts as used are theirs, so that it never hands out the *)
(* memory of a task a thread still works on (plotter.cpp:225 and 266-275). *)
(***************************************************************************)
BlockOwnership ==
  /\ \A s, t \in Slots : TaskIn(s).block = TaskIn(t).block => s = t
  /\ used_blocks = {TaskIn(s).block : s \in Slots}
  /\ used_blocks \cap free_blocks = {}

(***************************************************************************)
(* FlightAccounting: on_going_task is the number of tasks in flight, at    *)
(* most max_flying_tasks, wherever the threads are (plotter.cpp:228, 252   *)
(* and 279); the comparison of an int with a size_t depends on it.         *)
(***************************************************************************)
FlightAccounting ==
  /\ on_going_task = Cardinality(Slots)
  /\ on_going_task = Cardinality(used_blocks)
  /\ on_going_task <= MaxFlying

(***************************************************************************)
(* NonceConservation: every nonce is uncut, in one task in flight or       *)
(* finished, and the counters say how many are, so the loop ends when and  *)
(* only when all of them came back (plotter.cpp:226, 244-248 and 277).     *)
(***************************************************************************)
NonceConservation ==
  /\ \A s, t \in Slots :
       TaskNonces(TaskIn(s)) \cap TaskNonces(TaskIn(t)) # {} => s = t
  /\ InFlight \subseteq Nonces \ Uncut
  /\ dispatched_nonces = Wrap(Cardinality(Nonces \ Uncut))
  /\ finished_nonces = Wrap(Cardinality(Nonces \ (Uncut \cup InFlight)))

(***************************************************************************)
(* WritesInOrder: a writer gets the tasks of its files in the order of the *)
(* nonces, file after file, though they pass two queues and the hasher:    *)
(* when it starts on one, all before it is written.  The close of a file   *)
(* at the first task of another one relies on it: "FIXME: out of order     *)
(* task" (worker_writer.cpp:94-97).                                        *)
(***************************************************************************)
WritesInOrder ==
  \A w \in Writers : wpc[w] \in {"open", "write", "failed", "submit"} =>
    LET t == writing[w][1] IN
    /\ t.file[1] = w
    /\ t.sn = Plot(t.file).sn + submitted[t.file]
    /\ \A i \in 1 .. t.file[2] - 1 :
         submitted[<<w, i>>] = Plot(<<w, i>>).nonces

(***************************************************************************)
(* HashedBlockIntact: from the push to the writer until the dispatcher     *)
(* takes the block back, it holds the nonces of its task: neither the rest *)
(* of a batch nor the hashing of another task touches them                 *)
(* (worker_hasher.cpp:32-42, gpu_plotter.h:78).                            *)
(***************************************************************************)
HashedBlockIntact ==
  ~HashOff =>
    \A s \in Slots :
      s[1][1] \in {"fin_hasher_tasks", "writing", "reporter"} =>
        \A k \in 0 .. TaskIn(s).nonces - 1 :
          mem[TaskIn(s).block][k] = TaskIn(s).sn + k

\* All nonces of the file are on disk, each in its place.
Intact(f) == \A k \in DOMAIN disk[f] : disk[f][k] = Plot(f).sn + k

(***************************************************************************)
(* FinalIsIntact: a file that has lost its .plotting extension holds all   *)
(* of its nonces.  "check plotting status" (script/runplotter.bat:21-28)   *)
(* takes a run for finished when no .plotting file is left.                *)
(***************************************************************************)
FinalIsIntact == \A f \in Files : name[f] = "final" => Intact(f)

Stored == {n \in Nonces : disk[n[1]][n[2]] = Plot(n[1]).sn + n[2]}

Job == INSTANCE PlotJob
         WITH BatchSize <- WorkSize,
              todo <- Uncut,
              flying <- InFlight,
              done <- Nonces \ (Uncut \cup InFlight),
              stored <- Stored,
              stopped <- sig_stop

(***************************************************************************)
(* JobSpec: the pipeline does what PlotJob promises: every nonce is cut    *)
(* into a task once, finished once, and finished only when it is on disk,  *)
(* whatever fails and is tried again, as long as nobody stops the program; *)
(* nothing written is overwritten or truncated away (plotter.cpp:222-291,  *)
(* worker_hasher.cpp:14-58, worker_writer.cpp:52-139).                     *)
(***************************************************************************)
JobSpec == Job!Spec

(***************************************************************************)
(* Finishes: left alone, the program plots everything it planned and gets  *)
(* to "Plotting finished!!!" (plotter.cpp:244-247): no writer starves, no  *)
(* block leaks and nobody waits for ever, though disks fail and memory is  *)
(* short for a while.  By then no more files have kept the extension       *)
(* .plotting than there were failures: nobody tries a rename again         *)
(* (worker_writer.cpp:114-116).                                            *)
(***************************************************************************)
Finishes ==
  <>(/\ finished_nonces = TotalNonces
     /\ dpc \in {"stop", "stopping", "join"}
     /\ Cardinality({f \in Files : name[f] = "plotting"}) <= faults)

(***************************************************************************)
(* StopReachesJoin: after a signal the dispatcher leaves its loop and has  *)
(* told every worker to stop (plotter.cpp:222 and 293-295).                *)
(***************************************************************************)
StopReachesJoin == sig_stop ~> (dpc \in {"join", "done"})
=============================================================================
