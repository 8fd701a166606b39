----------------------------- MODULE PlotWriter -----------------------------
(***************************************************************************)
(* One file of the plan, down to the scoops: the hasher fills a block      *)
(* batch by batch (src/src/worker_hasher.cpp:29-42), the writer of the     *)
(* drive takes the scoops out of it and writes them to their places in the *)
(* file (src/src/worker_writer.cpp:52-72 and 88-119).  Writes fail halfway *)
(* and are tried again, a signal ends the loops, the program may end       *)
(* anywhere and is started again over the file it left, possibly with      *)
(* another work size.                                                      *)
(*                                                                         *)
(* The threads and their queues are those of PlotPipeline, which shows     *)
(* that a block is left alone until its task is reported; so one block and *)
(* one step at a time are enough here.                                     *)
(*                                                                         *)
(* A definition marked "Bug" is a plausible mistake in the code modelled   *)
(* by the definition after it.  No behaviour uses it.                      *)
(***************************************************************************)
EXTENDS PlotLayout, OsFile

CONSTANTS
  Uses,             \* bound: the files, and the sizes of the runs that plot
                    \* them; "nonces" is init_nonces, "runs" a sequence of
                    \* records of "gws" and "buffers"
  StartNonce,       \* init_sn
  ScoopsPerWrite    \* SCOOPS_PER_WRITE, 16384

ASSUME UsesAssumption ==
  \A u \in Uses :
    /\ u.nonces \in Nat \ {0}
    /\ u.runs # <<>>
    /\ u.runs \in Seq([gws : Nat \ {0}, buffers : Nat \ {0}])
    /\ \A r \in 1 .. Len(u.runs) : u.runs[r].gws % NoncesVector = 0

ASSUME WriteAssumption == StartNonce \in Nat /\ ScoopsPerWrite \in Nat \ {0}

\* A sector is 8 units, a vector 16 nonces, a group 16384.
ASSUME SectorAssumption ==
  /\ Sector % 2 = 0
  /\ NoncesVector % Sector = 0
  /\ ScoopsPerWrite % Sector = 0

ASSUME BlankAssumption == Blank \notin Units

VARIABLES
  use,              \* which of Uses it is
  run,              \* how often the program was started
  stopped,          \* signal::stopped()
  pc,               \* where the task in hand is
  prev,             \* nonces cut so far
  task,             \* its first nonce, from init_sn on, and its nonces
  dev_buff,         \* dev_buff_[0]
  block,            \* block->data()
  host_buff,        \* in bytes from there
  total_nonces,     \* of the task, still to plot
  scoop, nstart, nonces,
  write_buffer,     \* what is left of it to be written
  submitted,
  renamed           \* the file has its final name

taskVars   == <<prev, task, submitted>>
hasherVars == <<dev_buff, block, host_buff, total_nonces>>
loopVars   == <<scoop, nstart, nonces, write_buffer>>
constVars  == <<use, run>>
writerVars == <<constVars, stopped, pc, taskVars, hasherVars, loopVars, renamed>>
vars == <<writerVars, fileVars>>

init_nonces == use.nonces
gws == use.runs[run].gws

\* WorkSize of the dispatcher: the nonces of a block.
WorkSize == gws * use.runs[run].buffers

EmptyBlock(n) == [place \in 0 .. n * NonceWords - 1 |-> Garbage]

Init ==
  /\ use \in Uses
  /\ run = 1
  /\ stopped = FALSE
  /\ pc = "cut"
  /\ prev = 0
  /\ task = [sn |-> 0, nonces |-> 0]
  /\ dev_buff = EmptyBlock(gws)
  /\ block = EmptyBlock(WorkSize)
  /\ host_buff = 0
  /\ total_nonces = 0
  /\ scoop = 0 /\ nstart = 0 /\ nonces = 0
  /\ write_buffer = <<>>
  /\ submitted = 0
  /\ renamed = FALSE
  /\ FileInit

Smaller(m, n) == IF m < n THEN m ELSE n

-----------------------------------------------------------------------------
(* The task and its block                                                  *)

\* Bug: what is left is cut in halves.
NextNonces_Halves(left) == Smaller(WorkSize, (left + 1) \div 2)

NextNonces(left) == Smaller(WorkSize, left)

\* writer_task::next
Cut ==
  /\ pc = "cut"
  /\ prev < init_nonces
  /\ LET n == NextNonces(init_nonces - prev) IN
     /\ task' = [sn |-> prev, nonces |-> n]
     /\ prev' = prev + n
     /\ total_nonces' = n
  /\ host_buff' = 0
  /\ pc' = "hash"
  /\ UNCHANGED <<constVars, stopped, submitted, dev_buff, block, loopVars,
                 renamed, fileVars>>

\* The copy of a whole work size to host_buff; what is not in the block is lost.
Copied(buffer) ==
  [place \in DOMAIN block |->
     LET from == place - host_buff \div WordBytes
     IN IF from \in DOMAIN buffer THEN buffer[from] ELSE block[place]]

\* host_buff += nonces * PLOT_SIZE, a product of ints.
NextPlace(n) == host_buff + Wrap(n * PlotSize)

PlotBatch ==
  /\ pc = "hash"
  /\ LET n == Smaller(total_nonces, gws)
         sn == StartNonce + task.sn + (task.nonces - total_nonces)
     IN /\ dev_buff' = Plotted(dev_buff, sn, n)
        /\ block' = Copied(dev_buff')
        /\ total_nonces' = total_nonces - n
        /\ host_buff' = NextPlace(n)
        /\ pc' = IF total_nonces = n THEN "open" ELSE "hash"
  /\ UNCHANGED <<constVars, stopped, taskVars, loopVars, renamed, fileVars>>

-----------------------------------------------------------------------------
(* The file                                                                *)

\* dio: init_nonces is a multiple of a sector.
Dio == init_nonces % Sector = 0

\* Bug: a file that is there is emptied.
DoCreate_Always == TRUE

DoCreate == ~exists

\* Whether it opens or not, the writer goes on.
Open ==
  /\ pc = "open"
  /\ IF is_open THEN UNCHANGED fileVars ELSE open(DoCreate, Dio)
  /\ pc' = IF is_open THEN "perform" ELSE "allocate"
  /\ UNCHANGED <<constVars, stopped, taskVars, hasherVars, loopVars, renamed>>

Allocate ==
  /\ pc = "allocate"
  /\ allocate(init_nonces * Scoops) \/ fails
  /\ pc' = "perform"
  /\ UNCHANGED <<constVars, stopped, taskVars, hasherVars, loopVars, renamed>>

-----------------------------------------------------------------------------
(* perform_write_plot                                                      *)

Perform ==
  /\ pc = "perform"
  /\ scoop' = 0
  /\ pc' = "scoop"
  /\ UNCHANGED <<constVars, stopped, taskVars, hasherVars, nstart, nonces,
                 write_buffer, renamed, fileVars>>

\* In units of 64 bytes; all its operands but the scoop have 64 bits.
Offset == task.sn + scoop * init_nonces

\* The test of the loop over the scoops, and the seek.
ScoopLoop ==
  /\ pc = "scoop"
  /\ \/ /\ stopped \/ scoop = Scoops
        /\ pc' = "submit"
        /\ UNCHANGED <<nonces, nstart, fileVars>>
     \/ /\ ~stopped /\ scoop < Scoops
        /\ seek(Offset)
        /\ nonces' = task.nonces
        /\ nstart' = 0
        /\ pc' = "group"
     \/ /\ ~stopped /\ scoop < Scoops
        /\ fails
        /\ pc' = "failed"
        /\ UNCHANGED <<nonces, nstart>>
  /\ UNCHANGED <<constVars, stopped, taskVars, hasherVars, scoop, write_buffer,
                 renamed>>

\* The test of the loop over the groups of nonces, and the transposition.
GroupLoop ==
  /\ pc = "group"
  /\ IF stopped \/ nonces <= 0
     THEN /\ scoop' = scoop + 1
          /\ pc' = "scoop"
          /\ UNCHANGED write_buffer
     ELSE /\ write_buffer' = transposition(block, scoop, nstart,
                                           Smaller(nonces, ScoopsPerWrite))
          /\ pc' = "write"
          /\ UNCHANGED scoop
  /\ UNCHANGED <<constVars, stopped, taskVars, hasherVars, nstart, nonces, renamed,
                 fileVars>>

\* Bug: after a part of the buffer the write starts over.
Remaining_All(k) ==
  IF k = Len(write_buffer) THEN <<>> ELSE write_buffer

\* data += wr_bytes
Remaining(k) == SubSeq(write_buffer, k + 1, Len(write_buffer))

\* util::file::write: one WriteFile after the other while they succeed.
Write ==
  /\ pc = "write"
  /\ \/ /\ \E k \in Portions(write_buffer) :
             /\ WriteFile(write_buffer, k)
             /\ write_buffer' = Remaining(k)
        /\ UNCHANGED faults
        /\ IF write_buffer' = <<>>
           THEN /\ nonces' = nonces - ScoopsPerWrite
                /\ nstart' = nstart + ScoopsPerWrite
                /\ pc' = "group"
           ELSE UNCHANGED <<nonces, nstart, pc>>
     \/ /\ fails
        /\ pc' = "failed"
        /\ UNCHANGED <<nonces, nstart, write_buffer>>
  /\ UNCHANGED <<constVars, stopped, taskVars, hasherVars, scoop, renamed>>

-----------------------------------------------------------------------------
(* After it                                                                *)

\* Close; five seconds later the whole task again, unless stopped.
Retry ==
  /\ pc = "failed"
  /\ close
  /\ pc' = IF stopped THEN "ended" ELSE "open"
  /\ UNCHANGED <<constVars, stopped, taskVars, hasherVars, loopVars, renamed>>

\* submit_nonces and the rename; then the next task, or the end of run.
Submit ==
  /\ pc = "submit"
  /\ submitted' = submitted + task.nonces
  /\ IF stopped \/ submitted' = init_nonces THEN close ELSE UNCHANGED fileVars
  /\ renamed' = (submitted' = init_nonces)
  /\ pc' = IF stopped \/ submitted' = init_nonces THEN "ended" ELSE "cut"
  /\ UNCHANGED <<constVars, stopped, prev, task, hasherVars, loopVars>>

WriterStep ==
  \/ Cut \/ PlotBatch
  \/ Open \/ Allocate
  \/ Perform \/ ScoopLoop \/ GroupLoop \/ Write
  \/ Retry \/ Submit

\* A signal.
Stop ==
  /\ pc # "ended"
  /\ stopped' = TRUE
  /\ UNCHANGED <<constVars, pc, taskVars, hasherVars, loopVars, renamed, fileVars>>

\* The program ends, in the middle of anything, and the next run finds the
\* unfinished file under the same name.
Restart ==
  /\ ~renamed
  /\ run < Len(use.runs)
  /\ run' = run + 1
  /\ stopped' = FALSE
  /\ pc' = "cut"
  /\ prev' = 0
  /\ task' = [sn |-> 0, nonces |-> 0]
  /\ dev_buff' = EmptyBlock(use.runs[run'].gws)
  /\ block' = EmptyBlock(use.runs[run'].gws * use.runs[run'].buffers)
  /\ host_buff' = 0
  /\ total_nonces' = 0
  /\ scoop' = 0 /\ nstart' = 0 /\ nonces' = 0
  /\ write_buffer' = <<>>
  /\ submitted' = 0
  /\ close
  /\ UNCHANGED <<use, renamed>>

WriterNext == WriterStep \/ Stop \/ Restart

-----------------------------------------------------------------------------
TypeOK ==
  /\ use \in Uses
  /\ run \in 1 .. Len(use.runs)
  /\ stopped \in BOOLEAN
  /\ pc \in {"cut", "hash", "open", "allocate", "perform", "scoop", "group",
             "write", "failed", "submit", "ended"}
  /\ prev \in 0 .. init_nonces
  /\ task \in [sn : Nat, nonces : 0 .. WorkSize]
  /\ task.sn + task.nonces = prev
  /\ dev_buff \in Memory(gws)
  /\ block \in Memory(WorkSize)
  /\ host_buff \in Int
  /\ total_nonces \in 0 .. task.nonces
  /\ scoop \in 0 .. Scoops
  /\ nstart \in Nat /\ nonces \in Int
  /\ write_buffer \in Seq(Units)
  /\ Len(write_buffer) <= ScoopsPerWrite
  /\ submitted \in 0 .. prev
  /\ renamed \in BOOLEAN
  /\ handle \in {"closed", "buffered", "direct"}
  /\ pos \in 0 .. init_nonces * Scoops
  /\ exists \in BOOLEAN
  /\ data \in Seq(Units \cup {Blank})
  /\ size <= init_nonces * Scoops
  /\ faults \in 0 .. MaxFaults

\* The nonces of the file all of whose scoops are in their places.
Whole ==
  {k \in 0 .. init_nonces - 1 :
     \A s \in 0 .. Scoops - 1 :
       /\ k + s * init_nonces < size
       /\ data[k + s * init_nonces + 1] = RightScoop(StartNonce + k, s)}

TaskNonces == task.sn .. task.sn + task.nonces - 1

\* No product of ints leaves their range for a task of n nonces: neither the
\* one that moves host_buff to a second batch, nor those of Address.
InRange(args, n) ==
  /\ n > args.gws => args.gws * PlotSize < IntRange
  /\ \A k \in 0 .. n - 1 : AlignDown(k) * NonceWords < IntRange

(***************************************************************************)
(* WrittenRight: when the writer is done with a task that was not stopped, *)
(* all its nonces are in the file as the CPU would plot them if, and only  *)
(* if, no int product of the batches and addresses overflowed, however     *)
(* often writes failed and wherever earlier runs ended                     *)
(* (worker_hasher.cpp:41, worker_writer.cpp:20-24 and 56-70).              *)
(***************************************************************************)
WrittenRight ==
  pc = "submit" /\ ~stopped =>
    (TaskNonces \subseteq Whole <=> InRange(use.runs[run], task.nonces))

(***************************************************************************)
(* AlignedIO: with direct I/O every write starts at a sector and is some   *)
(* sectors long, which FILE_FLAG_NO_BUFFERING demands (worker_writer.cpp:  *)
(* 57, 65 and 91, plotter.cpp:151).                                        *)
(***************************************************************************)
AlignedIO ==
  pc = "write" /\ handle = "direct" =>
    pos % Sector = 0 /\ Len(write_buffer) % Sector = 0

\* All runs stay in the range of int.
AllInRange ==
  \A r \in 1 .. Len(use.runs) :
    InRange(use.runs[r],
            Smaller(init_nonces, use.runs[r].gws * use.runs[r].buffers))

Store == INSTANCE NonceStore WITH
  nonces <- init_nonces,
  next <- prev,
  task <- IF pc \in {"cut", "ended"} THEN {} ELSE TaskNonces,
  stored <- Whole,
  stopped <- stopped

(***************************************************************************)
(* StoreSpec: while no int overflows, and until the file has its final     *)
(* name, the write of a task stores its                                    *)
(* nonces from the first on, loses none that is stored, and is done only   *)
(* with all of them stored or the program stopped: what PlotPipeline takes *)
(* for one step (worker_writer.cpp:52-72).                                 *)
(***************************************************************************)
StoreSpec ==
  Store!Init /\ [][AllInRange /\ ~renamed => Store!Next]_(Store!vars)
=============================================================================
