# hyper-plotter: specifications and proofs

hyper-plotter fills disks with *plots*: for every nonce of a plan it computes
256 KiB of hashes on a GPU and stores them in plot files, scoop by scoop.  This
directory holds TLA+ modules translated from its source, the TLC runs that
check them on small plans, and theorems about them proved with TLAPS.  Paths
below are relative to the repository.

## The system and its parts

| Part | Source | State it keeps | Operations | Modelled by |
|------|--------|----------------|------------|-------------|
| work queue | `src/common/queue.h` | `q_` under `mux_`, the atomics `size_` and `exit_`, the waiters of `cond_` | `push`, `pop`, `pop_for`, `size`, `stop` | `WorkQueue` |
| dispatcher | `src/plotter.cpp:207-304` | counters, round-robin position, `reporter_` | the loop of `run_plotter`, the stop and the join | `PlotPipeline` |
| block allocator | `src/common/paged_block.h` | `free_blocks_`, `used_blocks_` | `allocate`, `retain` | `PlotPipeline` |
| hasher | `src/worker_hasher.*`, `src/task_hasher.h` | its queue, the task in hand, the block's memory | `run`, `report` | `PlotPipeline`; the bytes: `PlotWriter` |
| writers, one per drive | `src/worker_writer.*`, `src/task_writer.h` | files of the plan, the open file, its queue | `run`, `perform_write_plot`, `next_hasher_task` | `PlotPipeline`; scoop by scoop: `PlotWriter` |
| signal | `src/common/signal.h` | `sig_stop_` | the handler, `signal_stop`, `stopped` | `PlotPipeline`, `PlotWriter` |
| planning | `src/plotter.cpp:107-170` | free space per drive, next nonce, the files of earlier runs | `fn_task_allocator` | `FilePlan` |
| plot layout | `src/worker_writer.cpp:13-57`, `kernel/kernel.h:313-332` | - | `Address`, `transposition`, the offsets | `PlotLayout` |
| OS file | `src/common/file.h` | the handle, its pointer, the file | `open`, `seek`, `read`, `write`, `allocate`, `close` | `OsFile` |
| verification | `src/plotter.cpp:387-469` | the batch and scoop it is at | `run_plot_verify` | `PlotVerify` |
| GPU plotter | `src/poc/gpu_plotter.h`, `kernel/kernel.h` | device buffer, command queue | `plot`, the kernel | `HashSchedule` |
| CPU plotter | `src/poc/cpu_plotter.h` | `data_` | `plot` | `CpuPlotter` |
| Shabal | `contrib/shabal` | a context: the waiting bytes, the registers, the counter | init, update, close, for five sizes | `ShabalRounds`, `ShabalTables`, `Shabal` |
| plot test | `src/plotter.cpp:21-62` | - | `run_test` | `PlotTest` |
| disk benchmark, options, logging, timers | `src/plotter.cpp:306-385`, `src/main.cpp`, `src/common/{utils,timer}.h` | - | I/O | not modelled |

The parts interact through queues and two shared things, the memory of the
blocks and the stop flag:

    dispatcher --hasher_tasks_--> hasher --fin_hasher_tasks_ of w--> writer w
        ^                                                               |
        +---------------------------- reporter_ ------------------------+

The dispatcher polls `reporter_` for 200 ms at a time, takes back the block of
a reported task, and at most once per round cuts a new task for the next idle
writer and gives it a block.  The hasher fills the block, the writer of the
file's drive writes it and reports.  Any thread may see the stop flag, which a
signal or the end of the dispatcher's loop sets.

What makes this hard to test: `size_` and the notifications are outside the
mutex of the queue; the dispatcher decides on sizes that are stale when it uses
them; a file is closed because the next task is of another one, which is right
only if nothing overtakes anything in two queues; writes fail halfway and are
tried again; the end of the run is an equality of two counters; a signal may
arrive at any step.  Below the threads there is arithmetic of `int` on bytes of
gigabytes, a hash chain that two programs compute in different ways, and a
layout in which the two halves of a scoop lie at opposite ends.  `PROJECT.json`
lists these hazards line by line, with the
properties that would catch each of them going wrong.

## The modules

* **`TaskChannel`** - the abstract queue: a log of what was sent, how much of
  it was delivered, and whether the channel is closed.
* **`WorkQueue`** - `util::queue`.  A step is what happens between two accesses
  to shared state: taking the mutex, `push_back` with the release, the atomic
  addition, the notification, each test of `exit_`, each evaluation of the wait
  predicate, the atomic release-and-block of the condition variable, waking
  (also spuriously), the time-out of `pop_for`, and the two halves of `stop()`.
  `size` is the mathematical sum of the additions; `SizeRead` is the `size_t`
  that `size()` returns.
* **`PlotJob`** - the abstract job: every nonce is to do, in flight or done,
  and is done only after it is stored unless somebody stopped the program.
* **`PlotPipeline`** - dispatcher, hasher, writers and the files.  The queues
  are channels here, as `WorkQueue` proves they may be, except that the size of
  a writer's queue lags behind the hasher's push, as `push` makes it.  A
  dispatcher's round is cut where it looks at something shared
  (`DispatcherLoop`, `Poll`, `ReadHasher`, `ReadWriter`, `Submit`); the hasher's
  batches are `HasherPlot`; a writer's round is `WriterPop`, `Open`, `Write`,
  `Retry`, `Submit`, `Report`.
* **`FilePlan`** - several runs of the program, one after the other.  `Scan`
  looks at a drive, `PlanFile` cuts a file, `NextDrive` and `NextPass` are the
  loops; then each writer creates, allocates and finishes its files.  `Restart`
  ends a run anywhere and starts the next.  `Counted` are the finished files that
  `Scan` takes into account: those with the high 32 bits of `--sn` (`InRange`,
  plotter.cpp:141).  The pipeline is one action per file
  here: in a run without a signal it does just that (`JobSpec`, `FinalIsIntact`).
* **`PlotLayout`** - where each word of a nonce is: in the memory of the device
  (`Address`, whose products are `int`), in what `transposition` takes out of
  it, and in the plot of the CPU, which is the reference (`RightScoop`).
  `Plotted` is the memory after a plot of some nonces: the work items behind
  them return at once, so what was in their places stays.
* **`OsFile`** - `util::file` as operators for its users: a call succeeds or,
  a bounded number of times, fails; `WriteFile` takes any part of the buffer,
  whole sectors with direct I/O.  The unit is a scoop of a nonce, 64 bytes.
* **`NonceStore`** - what `PlotPipeline` takes the write of a task for: the
  nonces of the task in hand get stored from the first on, none is lost, and
  the task is put away when all are stored or somebody stopped the program.
* **`PlotWriter`** - one file of the plan: `Cut`, `PlotBatch` (the plot of a
  batch into `dev_buff`, which is never cleared, and the copy of all of it to
  `host_buff`), `Open`, `Allocate`, then `perform_write_plot` as
  `Perform`, `ScoopLoop`, `GroupLoop` and `Write`, and `Retry` or `Submit`.
  `Stop` is a signal; `Restart` ends the program anywhere and starts it over the
  file it left, with another work size.  It implements `NonceStore` (`StoreSpec`).
* **`PlotVerify`** - `run_plot_verify` over the file that `PlotWriter` left and
  the disk may have damaged.
* **`ShabalRounds`**, **`ShabalTables`**, **`Shabal`** - the hash library at the
  width of the code: words of 32 bits, as pairs of halves because TLC's integers
  are narrower.  The macros are one operator each; the kernel has the same
  macros and tables in its own copy (`kernel/kernel.h:18-311`), and so does the
  model share them.
* **`CpuPlotter`** - `cpu_plotter::plot` on bytes: the seed, the chain, the last
  hash, the exchange of hashes.
* **`HashSchedule`** - the device: the host enqueues slices (`Enqueue`), the
  kernel computes them (`ComputeHash`, `EndKernel`) while the host goes on, and
  the buffer is read back.  The kernel works on words and whole blocks and has
  its own three ends of a message (`LastBlock`).  A read in front of the buffer
  yields words of no hash.  A call of OpenCL may throw, which nothing but the
  end of the program follows.
* **`PlotTest`** - `--test`, which plots on the CPU and then on the device, and
  any caller of the hash library with messages cut in any way.  It also holds
  the definition of Shabal that the library is compared with: a message in
  blocks behind two blocks of prefix.
* **`MCPlotPipeline`**, **`MCFilePlan`**, **`MCPlotVerify`**, **`MCPlotTest`** -
  the plans, drives, files and messages of the runs.
* The theorems: **`WorkQueueProofs`** about the queue; about the pipeline, each
  upon the one before it, **`PlotPipelineProofs`** (types and stages),
  **`PlotOwnershipProofs`** (the blocks and the tasks in flight),
  **`PlotOrderProofs`** (the order of the tasks) and **`PlotJobProofs`** (the
  counters of nonces, the refinement of `PlotJob`, the finished files);
  **`FilePlanProofs`** about the plan; **`PlotFileProofs`** about one file: the
  layout, the writer, its refinement of `NonceStore`, and the verification; and
  **`PlotTestProofs`** about the slices of the device.

How the state corresponds to the code: a task carries the file (writer and
index, `writer` and `current_write_task`), `sn`, `nonces` and its block.
`left` and `prev` are `writer_task::nonces` and `prev_`; `submitted` is
`submitted_nonces_`; `handle` is the file `osfile_` has open; `disk` and `name`
are what the file system has.  `cur_writer_task_index_` is not a variable: it is
always the first file with nonces left, or past the last one.  `mem` holds, per
block and nonce, the number of the nonce once all of it is computed.  `disk`
holds the same per file: a nonce counts as stored only when its last scoop is
written, since the scoops of a nonce are spread over the file.  The counters
of nonces are `int` and wrap at `2 * IntRange`.

Abstractions of the pipeline: the scoops of a nonce are one value, which
`StoreSpec` of `PlotWriter` justifies; blocks have one size, which is all the
dispatcher asks for; an allocation of space and the rename either work or fail and
leave the old state; an OpenCL exception, which ends the whole program, is not
modelled in the pipeline; `pop` may return a null task of a stopped queue, which
the queue does not promise.

A definition marked "Bug" is a plausible mistake in the definition after it.
No behaviour uses it: it shows that the property named with it in
`PROJECT.json` would notice.

## The runs

Run `tlc -config <run>.cfg <module>`; `PROJECT.json` names module and
properties of each.  All runs switch the deadlock check off, because a run of
the program ends: the threads exit, and a stopped queue stays as it is.

| Run | Shows |
|-----|-------|
| `queue` | two producers, a consumer in `pop` and one in `pop_for`, `stop` at any time: no sleep over a task that nobody is about to announce; `size()` is as exact as its two readers need; order per producer; the queue implements `TaskChannel`; a pushed task is taken; a consumer that is not just falling asleep hears `stop` |
| `queue_stop` | **violation**: `stop` does not take the mutex, so a consumer that has tested the predicate and is about to sleep never hears it; the join then waits for ever |
| `pipeline_disk` | two drives, three files, two blocks, two failures anywhere: no two tasks share a block, `on_going_task` is the number of tasks in flight and within `max_flying_tasks`, the two counters say exactly how many nonces are cut and back, a writer starts a task only when all before it is written, a block holds its task's nonces until it is given back, also when a whole batch is copied for a short one, a renamed file is whole, and without a signal the plan is finished, with no more files still named `.plotting` than there were failures (nobody tries a rename again) |
| `pipeline_job` | the pipeline implements `PlotJob` under a failure and a signal anywhere; after a signal the dispatcher stops all workers and waits for them (that blocks and counters are right with signals too is proved) |
| `pipeline_signal` | **violation**: a signal during the last write of a file makes `perform_write_plot` return success, and the unfinished file gets its final name |
| `pipeline_overflow` | **violation**: with more nonces than an `int` counts, `finished_nonces == total_nonces` never holds (in bench mode 3, with a drive that got no file) |
| `plan` | up to three runs that end anywhere, with one drive, with one and a limit `--num`, or with a limit and a second drive from the second run on: no nonce gets into two files that are planned, or finished and counted; and while all finished files count (`AllCounted`): with one drive and no limit every run takes up the unfinished file under its name, its plan fits, and the last run gets done; when all is plotted, no drive given has room for another file or the limit is reached |
| `plan_orphan` | **violation**: with two drives a file left unfinished may never be taken up again, but its space is planned as if it were free |
| `plan_repeats` | **violation**: with three drives given twice in the same order, nonces that the third drive has finished are planned again for the second: its large file was never finished, and the third drive's files are looked at only after it is planned |
| `plot_test` | messages of up to 130 bytes and some bits, cut in any way, for every size of the output, one after the other in one context: the digests are those of Shabal, and a context that was closed is as good as new.  Then two plots on the CPU and in the same buffer of the device with every kind of step: each hash of the kernel is the CPU's wherever those above it are; what is computed is what the CPU computes, however it is cut; what is read back is that chain, combined with the last hash if the last slice ends at -1; and the result is the CPU's plot if and only if the last slice ends at -1, that is if the step divides the plot or leaves one hash less than a slice; any other `--step` silently gives a wrong plot |
| `plot_file` | five files, with partial and failing writes, a signal and a restart anywhere: a finished task is in the file as the CPU plots it if and only if no product of `int`s overflowed; with direct I/O every write is of whole sectors; the writer implements `NonceStore`.  Then the file, finished or not, damaged or not, is verified: the verdict is right about the nonces compared, and no whole file is refused |
| `verify_gaps` | **violation**: between two batches `run_plot_verify` skips `--step` nonces, and calls a file damaged there 100% good |

### Bounds, and why they are enough

* `MaxPush = 2` tasks in all, of two producers: two tasks of one of them can be
  overtaken, and with one of each both producers can be between `push_back` and
  the count at once.  `SizeMod = 8` is more than the two tasks, and a premature
  subtraction still wraps to 7.  The theorems hold for any number of tasks.
* The plans have a file that is no multiple of a task and one smaller than a
  task (short last batches), a drive with two files (the close on another
  file), and two drives (round robin).  In `pipeline_disk` a task has two batches
  of two nonces (`Buffers = 2`, `GlobalWorkSize = 2`), so the last task of the file
  of 7 nonces is a whole batch and one of a single nonce: the copy of a whole
  batch happens for a short one, behind nonces of the same task, and what an
  earlier task left in the rest of the block is overwritten.  The file of one
  nonce is shorter than a batch.  The other runs of the pipeline have batches of
  one nonce.
* Two blocks for up to six flying tasks make memory the limit; with two
  drives `2 * workers` is never reached before, and the minimum of both is one
  operator.
* `MaxFaults` bounds failures of files and memory: two, where the question is
  what one failure does to the recovery from another.
* `IntRange = 128` is out of reach of the plans; `pipeline_overflow` has 2 for a
  plan of 3 nonces.
* `NoncesPerWrite = 1` (16384 in the code) makes every nonce a place where the
  writing can be cut short.
* `FilePlan` has alignments 4 and 2 for 64 and 8, files of at most 8 nonces and
  drives of every size from none to a drive of three files that is used up to
  the last nonce, so every remainder of both alignments occurs; three runs let
  what the second one leaves behind meet the third.  `--num` is out of the
  drive's reach, or ends within it, or (with two drives) within the second.
  `INT32_MAX` is 15, one less than a multiple of the alignments and more than a
  file has.  `plan_repeats` has drives with room for a file of each pass.
  `NonceRange` is 32 for 2^32 and `StartNonce` 104 in `plan`, so 24 nonces lie
  before the next multiple.  The files of drives of up to 24 nonces, which
  already have every remainder, stay before it; those of 26, 30, 35 and 40, and
  the limited plans over two drives, pass it, and there a finished file that does
  not count is planned again.  Of those drives the properties about all finished
  files claim nothing from then on, and without that condition TLC finds each
  of them violated in this run.  `plan_orphan` and `plan_repeats` stay in one
  range, so that their findings do not depend on it.
* `plot_test` has 8 hashes for 8192 and messages of 4 for 128: the chain
  passes all three endings of a message, and the last hash is longer than the
  limit.  The steps divide 8, leave one less, leave something else, and exceed
  the plot; 0 stands for the default.  The chunks of the callers leave the
  buffer of 64 bytes empty, partly filled, exactly full and overfull, also twice
  in one call.
* `plot_file` has vectors of 4 nonces, 4 hashes of 2 words and `int`s up to 255:
  of its files two have several tasks or batches, one makes the offset of the
  second batch negative, one makes it 0, and one makes `Address` overflow.  A
  write takes 4 nonces, a sector is 2, so tasks have whole writes and a last
  part.  One failure, one damaged place: one of each is what the retry, the
  verdict and the restart have to cope with.

### Fairness

`WorkQueue`: weak fairness of a thread's next step, and strong fairness for
taking the mutex: no holder blocks with it, and the mutexes of the platform do
not starve one thread for ever.  Neither `stop`, nor a time-out, nor a spurious
wake-up is promised.  `PlotPipeline`: weak fairness of the dispatcher, the
hasher and each writer: operating-system threads that go on running.  A poll
returns after 200 ms at the latest; a null pop and a signal are not promised,
so `Finishes` owes nothing to them and the join is not claimed
(`queue_stop` shows why it cannot be).

`FilePlan`: weak fairness of the planning and of each writer.  `Restart` is not
promised, so `GetsDone` speaks of the last run.

`PlotTest`: weak fairness of the host thread and of the device, whose driver
runs what is queued; without it `cqueue_.finish()` would not return.  Nobody has
to call the library.

## What is proved

`tlapm <module>` checks the proofs.  The assumptions are those the modules name,
and all runs evaluate them: `ThreadsAssumption` and `BoundsAssumption` of the
queue (finitely many threads, producers do not consume, `None` is no thread);
`PlotsAssumption`, `SizesAssumption` and `BoundsAssumption` of the pipeline (a
non-empty list of lists of files with at least one nonce, positive sizes, a
finite non-empty set of blocks); `UsesAssumption`, `SizesAssumption`,
`AlignsAssumption` and `IntAssumption` of `FilePlan` (every run is given a drive,
alignments above 1, each pass's divides that of the one before, as 8 divides 64,
and all divide `INT32_MAX + 1`, as 64 and 8 divide 2^31).  For a file:
`LayoutAssumption` (a plot has a multiple of 4 hashes, and 2^31 is a multiple of
the words of a vector of nonces: 16, 8 and 8192 are powers of two),
`UsesAssumption` (a work size is a multiple of 16, which the constructor of
`gpu_plotter` asserts), `SectorAssumption` (a sector of 512 bytes is 8 scoops; it
divides 16 and 16384), `FileAssumption`, `WriteAssumption` and
`BlankAssumption` (space that nobody wrote holds no scoop of a plot), and
`VerificationsAssumption` (the work size and step of a verification).  For the
device `HashesAssumption`, `StepsAssumption` (a `--step` is no negative number)
and `PlotsAssumption`.  A few theorems assume more, for reasons given with them.

**The queue**, for any threads, pushes and width of `size_t`: type correctness,
`NoLostPush`, `SizeAccounting`, `OwnSizeExact`, `ZeroHidesOnlyUncounted`,
`PerProducerOrder`, and that the queue implements `TaskChannel`.  The inductive
invariant is `TypeOK /\ MutexInv`.  `NoLostPush` is not inductive: that a consumer
cannot fall asleep over a task follows from who holds the mutex where, which
`MutexInv` adds (the holder is the thread between the lock and the release; a
consumer about to sleep holds it and `q` is empty; and no producer has pushed more
tasks than there are).  `SizeAccounting` is a second invariant on top of it, from
which the two readings of `size()` follow; the refinement maps `push_back` to
`Send`, `PopFront` to `Deliver`, `StopStore` to `Close` and everything else to a
stutter.

**The pipeline**, for any plan, sizes, blocks, failures and signals: type
correctness, `BlockOwnership`, `FlightAccounting`, `HashedBlockIntact`,
`WritesInOrder`, `NonceConservation`, that the pipeline implements `PlotJob`,
and `FinalIsIntact`.  All safety properties that its runs check are proved.  The
inductive invariant has these layers, each proved with the help of those above.

* `IInv` adds to the types which tasks a thread has in hand at each place of
  its loop (a writer past `WriterPop` has exactly one) and what the dispatcher
  has tested.
* `OwnInv` says that the tasks at all places have different blocks (`Distinct`)
  and that the used blocks are theirs (`Held`).  A function from the places to
  sequences of tasks stands for where the tasks are; that adding a task with a
  fresh block, taking the first of a place, or moving it to the end of another
  keeps `Distinct` and changes `Held` as it should is proved once for any such
  function (`AddTask`, `TakeTask`, `MoveTask`), and every action is one of the
  three or leaves the tasks alone.  `on_going_task <= MaxFlying` is not
  inductive: what makes it so is that past the test of plotter.cpp:252 (`dpc` at
  `"hasher"` or `"writer"`) it is smaller, since only the dispatcher adds to it.
* `IntactInv` adds that a task in a writer's queue, in its hands or on its way
  back is whole in its block, and of the task being hashed the first `hashed`
  nonces are.  The step that writes to a block, `HasherPlot`, disturbs no other
  task because of `Distinct`, and not its own earlier batches because the
  garbage of a short batch comes after it.
* `OrderInv` orders the tasks in flight by how many places each has yet to
  pass before the reporter (`Stage`), and within a place by position.  Of two
  tasks of one writer the one ahead is `Earlier`: of an earlier file or an
  earlier part of the same file (`Ordered`); all are behind what is cut
  (`CutTasks`), and files are cut one after the other (`CutFiles`).  Again it is
  proved for any function from places to tasks that a cut at the back, a removal
  in front and a move to the next place keep the order.
* `SubmitInv` adds where the writer stands: what is submitted of a file lies
  below every task of it that still waits for the writer, and the task in hand
  starts just there.  `WritesInOrder` follows, and that no two tasks in flight
  share a nonce.
* `CountInv` says that `dispatched_nonces` is what has been cut and
  `finished_nonces` that less what is flying, both modulo the width of an `int`.
  A cut moves the nonces of one task from `Uncut` to `InFlight`, a report moves
  them on, every other step leaves the three sets alone; that the sets are
  disjoint is `OrderInv`.
* `HandleInv` says which file a writer has open and which name each file has
  (none before the first task, the final one only when all is submitted), so
  that `Open` never truncates a file with nonces in it.
* `StoredInv` says that what is submitted or reported is on the disk, in its
  place, unless somebody stopped the program.

`PipelineIsJob` follows: a cut is `PlotJob`'s `Cut`, every write, also one that
fails halfway, `Store`, the report that the dispatcher takes `Finish`, a signal
`Stop`, and every other step a stutter. It assumes `BenchMode = 0`, since the
bench modes leave out the work that `PlotJob` promises. `FinalFilesAreIntact`
needs one more invariant, `FinalInv`: the end of the dispatcher's loop sets the
stop flag too, but by then all nonces are stored, since the two counters agree,
although they wrap, only when all are finished. It assumes `~Signals`, because
a signal breaks it (`pipeline_signal`), and `BenchMode # 2`, the mode that
writes files of nothing; in mode 3 there are no files.

**The plan**, for any drives, spaces, sizes of files, alignments and uses, and
for runs that end anywhere.

* `TypeCorrect`: no count goes below 0 and no writer past its plan.  `IInv` adds
  that the finished files of a drive that count have a last end (`HasLast`): `FilePlan`
  takes the maximum of a set, and that a finite set has one would be an
  induction, so it is carried along instead: every new file ends after those
  before it or leaves the maximum where it was.
* What finished files there are to count.  A finished file whose high 32 bits are
  not those of `--sn` is not found again.  For example `--sn 4294967232` (2^32 - 64)
  with files of 64 nonces: the first run finishes [2^32 - 64, 2^32) and
  [2^32, 2^32 + 64), the next one counts only the former, plans [2^32, 2^32 + 64)
  again, replaces the file, and counts the space of an unfinished file behind it
  for this one.  So the theorems either speak of the files that count
  (`EachDriveOnce`, `NoNonceTwice`) or of a program that has not finished a file
  behind such a multiple (`AllCounted`).  `StaysInRange` says when that is so for
  good: on a lone drive without a limit whose nonces, from `--sn` on, have the
  same high bits (`RoomInRange`), no file ever gets behind them, since its
  nonces never pass `Top`, which is `--sn` plus the drive's first space.
* `EachDriveOnce`: no nonce is twice on one drive, still to be plotted or finished
  and counted, whatever drives the runs are given and in whatever order.  `OnceInv`
  adds that a plan is in a row below `sn_to_gen` (`InRow`), that the finished
  files that count lie below what is still to be plotted (`Behind`) and apart from
  each other (`Apart`).  `LoneDriveOnce` is `NoNonceTwice` for a program that is
  always given the same drive, and, while `AllCounted`, the same of all its finished
  files.  For several it is false in general, for three even if
  their order never changes (`plan_repeats`); for two, or for drives added
  behind, the run checks it.
* `PlansAreApart` and `FirstRunOnce` say how much is true of any drives: within a
  run no nonce is planned twice, on one drive or on two, since all files are cut
  from one row (`AcrossInv`, which adds to `OnceInv` that the plans of two drives
  are aside each other), and in the first run, where every finished file is one of
  its own plan behind the writer (`OwnFiles`) and no name is there twice
  (`NamesOnce`), none is plotted twice, wherever the multiples of 2^32 are.  So
  only what an *earlier* run finished on a drive that comes later can be plotted
  again.
* `LoneDriveResumes` and `LoneDriveHasRoom`: with one drive and no limit, while
  all finished files count, the file a run left unfinished is the next to be
  plotted, under the same name, and the writer finds the room for every file it
  comes to.  The argument is `LoneInv`. The space left plus the end of the
  finished files, `Top`, never changes: a file takes from the one what it adds to
  the other, and the space of the unfinished file counts as free.  Each planned
  file is the first that a plan made afresh at its first nonce would cut
  (`ChainInv`); so the next run, which starts at the unfinished file, cuts the
  same file.  This is where the divisibility of the alignments matters: when the
  coarse pass finds no file any more, cutting finer ones does not bring one back
  (`StillNothing`).  With a limit the claim is false: `--num 6` on a drive of 8
  with the small alignments plans 4 nonces and then 2, and when the program ends
  in the second file, the next run plans 4 nonces there again and never takes up
  the 2.  The properties therefore speak of drives without a limit.
* `LoneDriveFills`: when all that was planned for a lone drive without a limit is
  plotted and all finished files count, the drive has no room for another file of
  the smallest alignment. `ChainInv` says of the last file of the plan that it was
  the first cut of the space then left, and `CutInv` that the last pass found
  nothing in what it left (`NothingLeft`).  Nothing found need not mean no room: a
  cut of `INT32_MAX` nonces or more is refused too.  But a cut was found in more
  space than is left now, and `INT32_MAX + 1` is a multiple of the alignments, so
  rounding less space down cannot give `INT32_MAX` or more.

**A file**, for any nonces, work sizes, numbers of buffers, vectors, sectors and
groups of scoops, for any number of failed and partial writes, a signal and runs
that end anywhere: type correctness with that of the verification, `AlignedIO`,
`WrittenRight`, `StoreSpec`, `VerdictIsRight` and `AcceptsPlots`, that is all
safety properties that `plot_file` checks.  The layers are these.

* `Base` adds to the types where the loops are.  While a buffer is written, what is
  left of it is the end of a scoop's group, and the file pointer stands where the
  part written ends (`Loop`); only the last task of a file is no multiple of a
  sector (`Aligned`).  `AlignedIO` follows, for tasks and groups are multiples.
* The layout: `Place` is injective (`PlaceUnique`, from the uniqueness of quotient
  and rest) and stays within the memory (`PlaceBounds`).  While `Address` is in the
  range of an `int` it is `Place` (`AddressIs`), and `Plotted` puts every word where
  `Scoop` takes it from (`PlottedRight`).  A vector of nonces is either all in that
  range or all beyond it (`LayoutAssumption`), and the first one beyond has
  addresses below 0, so it is not in the memory at all (`FirstFar`).
* `Memories` says what `dev_buff` and the block hold after each batch.  For the
  "if" of `WrittenRight` it is `Hashed`: all nonces plotted so far are in their
  places.  For the "only if" it is `Past` and `Stray`: no memory holds a nonce
  before it is plotted, and when `nonces * PLOT_SIZE` overflows, the first word of
  the second batch does not get to its place.  This is needed because words of
  earlier tasks and runs stay in the device's buffer and in the block.
* `Wrote`: up to the scoop and the nonce that the loops are at, the file holds
  what the block has.  A retry starts over with the first scoop and leaves what
  is there as it was or writes the same again.  `WritesAreRight` follows with the
  layout: exchanging the hashes on the CPU and mirroring the scoop in the writer
  come to the same.
* `LastMeansWhole`: while no `int` overflows and until the file has its final name,
  a nonce whose last scoop is right is right as a whole, since the scoops are
  written in order, and a later run with other sizes writes right scoops over right
  ones.  It gives `WriterStores`: a write that ends a nonce is `NonceStore`'s store,
  every other write a stutter.
* `Verified` is the invariant of the verification's loop: all batches before the
  one in hand are whole.  `VerdictsAreRight` assumes `VerificationsInRange`: the
  batches that the verification itself plots are in the range of `int`s, for else
  the reference it compares with is wrong too, and a whole file is called bad.
  With the constants of the code this is a work size of at most 32768, and
  `MCPlotVerify` assumes the same of its instances.

**The device**, for any number of hashes, any step, any number of queued kernels:

* `LastSliceRight`: the slice with which a plot ends has the end -1, the mark for
  the combination, exactly if the step divides the plot or leaves one hash less
  than a slice.  `SliceInv` says that the queued slices follow each other down to
  the host's loop variable, that the running one ends where the first of them
  starts, and that the variable is down by whole steps.
* `SlicesKeepChain` and `PlotsAreCombined`: if each hash of the kernel is right
  wherever the buffer above it is (`KernelHashIsRight`), then the slices compute the
  chain of the CPU, whatever the nonce before left in the buffer, and what is read
  back is this chain, combined with the last hash exactly for the steps named.
  `ChainInv` speaks of the hash that the running kernel is at or the next slice
  starts with (`Front`).  The hypothesis is about the hash function, a recursion on
  data, which the prover cannot evaluate; the run checks it for each hash.

## What is only model-checked

Liveness (`Delivery`, `StopHeard`, `Finishes`, `StopReachesJoin`, `GetsDone`,
`PlotReturns`) is beyond the prover.  `LoneDriveFits` sums over the files of a
plan, and a sum over a set is a recursion whose value for every set would need
an induction the provers cannot do; `LoneDriveHasRoom` is what it comes to when a
writer looks for the room.  `NoNonceTwice` for two drives, or for drives added
behind, is checked only, as is `FillsDrives` with a limit or several drives.

What `PlotTest` says of the hash functions is about recursive functions on data
as well: `TestTypeOK` (the type of each round's result), `DigestOfMessage`,
`FreshIsPrefixed`, `KernelHashIsRight` and, since the CPU exchanges its hashes in a
loop and its last hash is one of these functions, `PlotIsRight`;
`PlotsAreCombined` is as far as it can be followed without computing a hash.

The digests of `Shabal` and the plots of `CpuPlotter` do not depend on the
bounds; for twelve hashes they were compared once, byte for byte, with those of
the compiled `contrib/shabal` and `cpu_plotter`.

## Not modelled

* The disk benchmark: it writes one scratch file from a constant buffer and
  prints a speed.
* The options, logging, timers and queries to the system; dumps after a crash.
* The work size that `gpu_plotter` computes from the device and the arguments
  (`src/poc/gpu_plotter.h:29-42`); the models take it as given and assume that it
  is a multiple of 16, which the constructor only asserts.
* The part of `sph_types.h` that fits the library to compilers and processors,
  and its functions that the program does not call.
* In `FilePlan`, drives that are put in front of those of an earlier run: that
  nonces are planned again then is clear from `plan_repeats`, where the order of
  the drives does not even change.  A `--sn` that changes from run to run, and
  nonces near the last of the 2^64.

## Plan

1. *Done*: the queue with its abstract channel, the pipeline with its abstract
   job, `FilePlan`, the layout, the writer with its abstract store, the
   verification, the hash library, both plotters, their runs, and the proofs
   listed above.
2. `NoNonceTwice` for two drives in a fixed order, as a theorem: it needs that a
   drive never gets more files than the run before gave it.
3. `FilePlan` with other files on a drive; the work size of `gpu_plotter`.
