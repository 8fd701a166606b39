------------------------------ MODULE FilePlan ------------------------------
(***************************************************************************)
(* The plan of a run, and what becomes of it over several runs.            *)
(* plotter::run_plotter looks for the finished files and the free space on *)
(* every drive and cuts what is left to plot into files, in two passes     *)
(* (src/src/plotter.cpp:107-170).  Then the writer of each drive plots its *)
(* files one after the other under the extension .plotting and renames     *)
(* them (worker_writer.cpp:92-118).  The program may end anywhere; the     *)
(* next run plans anew from what it finds.                                 *)
(*                                                                         *)
(* Space is counted in nonces (PLOT_SIZE bytes): the plan divides by it    *)
(* and rounds down.  Files of another id are skipped by the plan and are   *)
(* no more than space in use.  So are finished files whose nonces have     *)
(* other high bits than --sn, and those may be the plan's own: once it has *)
(* passed a multiple of 2^32 a later run does not count what was finished  *)
(* behind it, and plans it again (AllCounted says that this is not so).    *)
(* No plan comes near the last of the 2^64 nonces.                         *)
(*                                                                         *)
(* A definition marked "Bug" is a plausible mistake in the code modelled   *)
(* by the definition after it.  No behaviour of the module uses it.        *)
(***************************************************************************)
EXTENDS Integers, Sequences, SequencesExt, FiniteSets, FiniteSetsExt

CONSTANTS
  Drives,
  Uses,             \* bound: how the program is used, one of them for good:
                    \* "arguments" are the drives given to each run, in their
                    \* order; "num" is --num, more than all drives hold if it
                    \* is "auto"; "spaces" is what a drive may have at first
  StartNonce,       \* --sn
  NonceRange,       \* 2^32: the nonces that have the same high bits
  MaxNoncesPerFile, \* --weight
  Aligns,           \* the alignment of each pass: ~63ull and ~7ull in the code
  IntMax            \* INT32_MAX

ASSUME UsesAssumption ==
  \A u \in Uses :
    /\ u.arguments \in Seq(Seq(Drives) \ {<<>>})
    /\ u.arguments # <<>>
    /\ u.num \in Nat
    /\ u.spaces \subseteq Nat

ASSUME SizesAssumption ==
  /\ {StartNonce, MaxNoncesPerFile} \subseteq Nat
  /\ {IntMax, NonceRange} \subseteq Nat \ {0}
  /\ Aligns \in Seq(Nat \ {0})
  /\ Aligns # <<>>

\* ~63ull and ~7ull: whatever is a multiple of the one is one of the other.
ASSUME AlignsAssumption ==
  \A p, q \in 1 .. Len(Aligns) : p < q => Aligns[p] % Aligns[q] = 0

\* 64 and 8 divide 2^31.
ASSUME IntAssumption ==
  \A p \in 1 .. Len(Aligns) : Aligns[p] > 1 /\ (IntMax + 1) % Aligns[p] = 0

VARIABLES
  use,              \* which of Uses it is
  \* the drives
  room,             \* what sys_free_disk_bytes reports
  files,            \* the plot files on each drive
  \* the planning
  pc,
  pass, pos,        \* the pass, and the place in Drivers
  scanned,          \* the drives that have a writer
  free_spaces, sn_to_gen, nonces_to_gen,
  plan,             \* writer_tasks_ of each drive
  \* the writers
  cur,              \* which file of its plan each drive is at
  runs              \* how often the program was started

planVars == <<pc, pass, pos, scanned, free_spaces, sn_to_gen, nonces_to_gen,
              plan>>
vars == <<use, room, files, planVars, cur, runs>>

NumNonces == use.num

\* Bound: how often the program is started.
MaxRuns == Len(use.arguments)

Drivers == use.arguments[runs]

Given(u) == UNION {ToSet(u.arguments[r]) : r \in 1 .. Len(u.arguments)}

Smaller(m, n) == IF m < n THEN m ELSE n
Larger(m, n) == IF m > n THEN m ELSE n

\* The name of a file says which nonces it is for.
SameName(f, g) == f.sn = g.sn /\ f.nonces = g.nonces

EndOf(f) == f.sn + f.nonces

RoundDown(n, align) == n - (n % align)

\* sn & 0xffffffff00000000ull
HighBits(sn) == RoundDown(sn, NonceRange)

InRange(f) == HighBits(f.sn) = HighBits(StartNonce)

Init ==
  /\ use \in Uses
  /\ \E space \in [Given(use) -> use.spaces] :
       room = [d \in Drives |-> IF d \in Given(use) THEN space[d] ELSE 0]
  /\ files = [d \in Drives |-> {}]
  /\ runs = 1
  /\ pc = "plan"
  /\ pass = 1
  /\ pos = 1
  /\ scanned = {}
  /\ free_spaces = [d \in Drives |-> 0]
  /\ sn_to_gen = StartNonce
  /\ nonces_to_gen = NumNonces
  /\ plan = [d \in Drives |-> <<>>]
  /\ cur = [d \in Drives |-> 1]

-----------------------------------------------------------------------------
(* fn_task_allocator                                                       *)

Planning == pc = "plan" /\ pos <= Len(Drivers)

Unfinished(d) == {f \in files[d] : ~f.done}
Finished(d) == {f \in files[d] : f.done}

\* The finished files that the plan takes into account.
Counted(d) == {f \in Finished(d) : InRange(f)}

\* Bug: the file being plotted is not space.
ReclaimableNot(d) == {0}

\* The space of the first file with an extension that the directory walk
\* meets counts as free: it is taken for the one to be plotted again.
Reclaimable(d) ==
  IF Unfinished(d) = {} THEN {0} ELSE {f.size : f \in Unfinished(d)}

\* Bug: the nonces go on where the last finished file starts.
LastNonceStart(d) == Max({0} \cup {f.sn : f \in Counted(d)})

\* The end of the last finished file that counts.
LastNonce(d) == Max({0} \cup {EndOf(f) : f \in Counted(d)})

\* Bug: the nonces of the drives before are forgotten.
ScanForgetful ==
  /\ Planning
  /\ LET d == Drivers[pos] IN
     /\ d \notin scanned
     /\ scanned' = scanned \cup {d}
     /\ \E s \in Reclaimable(d) :
          free_spaces' = [free_spaces EXCEPT ![d] = room[d] + s]
     /\ sn_to_gen' = Larger(StartNonce, LastNonce(d))
  /\ UNCHANGED <<use, room, files, pc, pass, pos, nonces_to_gen, plan, cur, runs>>

\* if (! writers[driver])
Scan ==
  /\ Planning
  /\ LET d == Drivers[pos] IN
     /\ d \notin scanned
     /\ scanned' = scanned \cup {d}
     /\ \E s \in Reclaimable(d) :
          free_spaces' = [free_spaces EXCEPT ![d] = room[d] + s]
     /\ sn_to_gen' = Larger(sn_to_gen, LastNonce(d))
  /\ UNCHANGED <<use, room, files, pc, pass, pos, nonces_to_gen, plan, cur, runs>>

\* Bug: the space of the drive is not looked at.
NextNoncesBlind(d) ==
  LET n == RoundDown(Smaller(nonces_to_gen, MaxNoncesPerFile), Aligns[pass])
  IN IF n < IntMax THEN n ELSE 0

\* The nonces of the next file for drive d; none if they round to 0 or do not
\* fit an int.
NextNonces(d) ==
  LET n == RoundDown(Smaller(nonces_to_gen,
                             Smaller(MaxNoncesPerFile,
                                     Larger(0, free_spaces[d]))),
                     Aligns[pass])
  IN IF n < IntMax THEN n ELSE 0

\* Bug: the space of the file is not taken from the drive.
PlanFileForFree ==
  /\ Planning
  /\ LET d == Drivers[pos]
         n == NextNonces(d)
     IN /\ d \in scanned
        /\ n > 0
        /\ plan' = [plan EXCEPT ![d] = Append(@, [sn |-> sn_to_gen,
                                                  nonces |-> n])]
        /\ sn_to_gen' = sn_to_gen + n
        /\ nonces_to_gen' = nonces_to_gen - n
  /\ UNCHANGED <<use, room, files, pc, pass, pos, scanned, free_spaces, cur, runs>>

\* The body of while (nonces_to_gen > 0).
PlanFile ==
  /\ Planning
  /\ LET d == Drivers[pos]
         n == NextNonces(d)
     IN /\ d \in scanned
        /\ n > 0
        /\ plan' = [plan EXCEPT ![d] = Append(@, [sn |-> sn_to_gen,
                                                  nonces |-> n])]
        /\ sn_to_gen' = sn_to_gen + n
        /\ nonces_to_gen' = nonces_to_gen - n
        /\ free_spaces' = [free_spaces EXCEPT ![d] = @ - n]
  /\ UNCHANGED <<use, room, files, pc, pass, pos, scanned, cur, runs>>

NextDrive ==
  /\ Planning
  /\ Drivers[pos] \in scanned
  /\ NextNonces(Drivers[pos]) = 0
  /\ pos' = pos + 1
  /\ UNCHANGED <<use, room, files, pc, pass, scanned, free_spaces, sn_to_gen,
                 nonces_to_gen, plan, cur, runs>>

\* Bug: the second pass is missing.
NextPassNever ==
  /\ pc = "plan"
  /\ pos > Len(Drivers)
  /\ pc' = "plot"
  /\ UNCHANGED <<use, room, files, pass, pos, scanned, free_spaces, sn_to_gen,
                 nonces_to_gen, plan, cur, runs>>

\* The second call of fn_task_allocator; after the last one the workers start,
\* or there is nothing to do.
NextPass ==
  /\ pc = "plan"
  /\ pos > Len(Drivers)
  /\ IF pass < Len(Aligns)
     THEN /\ pass' = pass + 1
          /\ pos' = 1
          /\ UNCHANGED pc
     ELSE /\ pc' = IF nonces_to_gen = NumNonces THEN "exited" ELSE "plot"
          /\ UNCHANGED <<pass, pos>>
  /\ UNCHANGED <<use, room, files, scanned, free_spaces, sn_to_gen, nonces_to_gen,
                 plan, cur, runs>>

Plan == Scan \/ PlanFile \/ NextDrive \/ NextPass

-----------------------------------------------------------------------------
(* The writers                                                             *)

\* The .plotting files that have the name of the current file of drive d.
Opened(d) == {f \in Unfinished(d) : SameName(f, plan[d][cur[d]])}

\* osfile_.open: a file with the name is used as it is.
CreateFile(d) ==
  /\ pc = "plot"
  /\ cur[d] <= Len(plan[d])
  /\ Opened(d) = {}
  /\ LET f == plan[d][cur[d]] IN
     files' = [files EXCEPT ![d] =
                 @ \cup {[sn |-> f.sn, nonces |-> f.nonces, size |-> 0,
                          done |-> FALSE]}]
  /\ UNCHANGED <<use, room, planVars, cur, runs>>

\* osfile_.allocate.  If the drive is too small the writes fail, now and
\* every five seconds.
AllocateFile(d) ==
  /\ pc = "plot"
  /\ cur[d] <= Len(plan[d])
  /\ \E f \in Opened(d) :
       /\ f.size < f.nonces
       /\ room[d] >= f.nonces - f.size
       /\ room' = [room EXCEPT ![d] = @ - (f.nonces - f.size)]
       /\ files' = [files EXCEPT ![d] =
                      (@ \ {f}) \cup {[f EXCEPT !.size = f.nonces]}]
  /\ UNCHANGED <<use, planVars, cur, runs>>

\* All nonces are written; rename replaces a file with the final name, which
\* was of the same size.
FinishFile(d) ==
  /\ pc = "plot"
  /\ cur[d] <= Len(plan[d])
  /\ \E f \in Opened(d) :
       LET old == {g \in Finished(d) : SameName(f, g)} IN
       /\ f.size = f.nonces
       /\ files' = [files EXCEPT ![d] =
                      (@ \ ({f} \cup old)) \cup {[f EXCEPT !.done = TRUE]}]
       /\ room' = [room EXCEPT ![d] = IF old = {} THEN @ ELSE @ + f.size]
  /\ cur' = [cur EXCEPT ![d] = @ + 1]
  /\ UNCHANGED <<use, planVars, runs>>

WriterStep(d) == CreateFile(d) \/ AllocateFile(d) \/ FinishFile(d)

AllPlotted == pc = "plot" /\ \A d \in Drives : cur[d] > Len(plan[d])

\* The program ends, because it is done or in the middle of anything, and is
\* started again.
Restart ==
  /\ runs < MaxRuns
  /\ runs' = runs + 1
  /\ pc' = "plan"
  /\ pass' = 1
  /\ pos' = 1
  /\ scanned' = {}
  /\ free_spaces' = [d \in Drives |-> 0]
  /\ sn_to_gen' = StartNonce
  /\ nonces_to_gen' = NumNonces
  /\ plan' = [d \in Drives |-> <<>>]
  /\ cur' = [d \in Drives |-> 1]
  /\ UNCHANGED <<use, room, files>>

Next == Plan \/ (\E d \in Drives : WriterStep(d)) \/ Restart

Spec == Init /\ [][Next]_vars

\* The main thread plans and each writer goes on; nobody has to start the
\* program again.
FairSpec ==
  /\ Spec
  /\ WF_vars(Plan)
  /\ \A d \in Drives : WF_vars(WriterStep(d))

-----------------------------------------------------------------------------
PlanFiles == [sn : Nat, nonces : Nat \ {0}]
PlotFiles == [sn : Nat, nonces : Nat \ {0}, size : Nat, done : BOOLEAN]

TypeOK ==
  /\ use \in Uses
  /\ room \in [Drives -> Nat]
  /\ files \in [Drives -> SUBSET PlotFiles]
  /\ pc \in {"plan", "plot", "exited"}
  /\ pass \in 1 .. Len(Aligns)
  /\ pos \in 1 .. Len(Drivers) + 1
  /\ scanned \subseteq Drives
  /\ free_spaces \in [Drives -> Nat]
  /\ sn_to_gen \in Nat
  /\ nonces_to_gen \in 0 .. NumNonces
  /\ plan \in [Drives -> Seq(PlanFiles)]
  /\ cur \in [Drives -> Nat \ {0}]
  /\ \A d \in Drives : cur[d] <= Len(plan[d]) + 1
  /\ runs \in 1 .. MaxRuns

\* The files still to be plotted on drive d.
Ahead(d) == {plan[d][i] : i \in cur[d] .. Len(plan[d])}

NoncesOf(f) == f.sn .. EndOf(f) - 1

\* No nonce is in two of these files, each of them given with its drive.
Once(S) ==
  \A f, g \in S : NoncesOf(f[2]) \cap NoncesOf(g[2]) # {} => f = g

\* Every file that is finished or still to be plotted.
AllFiles == UNION {{d} \X (Finished(d) \cup Ahead(d)) : d \in Drives}

\* Every finished file has the high bits of --sn: no run has finished one
\* that starts behind the next multiple of 2^32.
AllCounted == \A d \in Drives : Counted(d) = Finished(d)

(***************************************************************************)
(* NoNonceTwice: a nonce is in one of the finished files that count or in  *)
(* one file that is still to be plotted, on whichever drive, also after    *)
(* runs that ended in the middle (plotter.cpp:137-146 and 154-156).  A     *)
(* file that was finished with other high bits than --sn does not count,   *)
(* and its nonces are planned once more.                                   *)
(***************************************************************************)
NoNonceTwice ==
  Once(UNION {{d} \X (Counted(d) \cup Ahead(d)) : d \in Drives})

(***************************************************************************)
(* PlanFits: the files still to be plotted fit their drive, with the space *)
(* of the unfinished ones among them that are there already, so that no    *)
(* writer is left retrying on a full drive (plotter.cpp:120, 131-135 and   *)
(* 149-157).                                                               *)
(***************************************************************************)
PlanFits ==
  pc = "plot" =>
    \A d \in Drives :
      LET mine == {f \in Unfinished(d) : \E g \in Ahead(d) : SameName(f, g)}
      IN MapThenSumSet(LAMBDA f : f.nonces, Ahead(d))
           <= room[d] + MapThenSumSet(LAMBDA f : f.size, mine)

\* Every run is given drive d alone.
Lone(d) == \A r \in 1 .. MaxRuns : use.arguments[r] = <<d>>

LoneDrive == \E d \in Drives : Lone(d)

\* --num does not end a plan before the drive is full; it is never less than
\* the drive if it is "auto".
Unlimited == \A space \in use.spaces : space <= NumNonces

(***************************************************************************)
(* LoneDriveFits: the plan fits the drive when the program is always       *)
(* started with this one drive and without a limit, however its runs end,  *)
(* while all that it finished counts.  With a limit a run may leave a file *)
(* that a later one plans otherwise; and where a finished file does not    *)
(* count, its nonces are planned in place of those of the unfinished one.  *)
(***************************************************************************)
LoneDriveFits == LoneDrive /\ Unlimited /\ AllCounted => PlanFits

(***************************************************************************)
(* ResumesUnfinished: with one drive and no limit, while all finished      *)
(* files count, the file that a run leaves unfinished is the one plotted   *)
(* next, with the same name, so it is used again and none is left behind   *)
(* (plotter.cpp:131-146, worker_writer.cpp:93 and 100).                    *)
(***************************************************************************)
ResumesUnfinished ==
  LoneDrive /\ Unlimited /\ AllCounted /\ pc = "plot" =>
    \A d \in Drives : \A f \in Unfinished(d) :
      cur[d] <= Len(plan[d]) /\ SameName(f, plan[d][cur[d]])

(***************************************************************************)
(* FillsDrives: when all is plotted no drive has room for another file of  *)
(* the smallest alignment, or all nonces asked for are planned             *)
(* (plotter.cpp:162-163).  A file that did not count and is plotted again  *)
(* would leave the room that was planned for it.                           *)
(***************************************************************************)
FillsDrives ==
  AllCounted /\ AllPlotted =>
    \/ nonces_to_gen < Aligns[Len(Aligns)]
    \/ \A i \in 1 .. Len(Drivers) : room[Drivers[i]] < Aligns[Len(Aligns)]

(***************************************************************************)
(* GetsDone: with one drive and no limit the last run plots all it         *)
(* planned, or finds nothing to plan, whatever the runs before it left     *)
(* behind, as long as it all counts (worker_writer.cpp:98-119).            *)
(***************************************************************************)
GetsDone ==
  LoneDrive /\ Unlimited /\ []AllCounted => <>(AllPlotted \/ pc = "exited")
=============================================================================
