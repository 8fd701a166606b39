--------------------------- MODULE FilePlanProofs ---------------------------
(***************************************************************************)
(* Proofs about the plan of a run and its files, for any drives, sizes and *)
(* uses of the program, and for runs that end anywhere.                    *)
(***************************************************************************)
EXTENDS FilePlan, SequenceTheorems, TLAPS

-----------------------------------------------------------------------------
(* Sizes and places                                                        *)

\* No number is rounded below 0.
LEMMA RoundDownIs ==
  ASSUME NEW n \in Nat, NEW a \in Nat \ {0}
  PROVE  /\ RoundDown(n, a) \in 0 .. n
         /\ n - RoundDown(n, a) < a
<1>1. n % a \in 0 .. a - 1 /\ n % a <= n
  BY SMT
<1>2. QED
  BY <1>1 DEF RoundDown

\* The drives given to a run.
LEMMA DriversAre ==
  ASSUME TypeOK
  PROVE  /\ Drivers \in Seq(Drives)
         /\ Len(Drivers) \in Nat \ {0}
         /\ \A i \in 1 .. Len(Drivers) : Drivers[i] \in Drives \cap Given(use)
<1>1. use.arguments \in Seq(Seq(Drives) \ {<<>>})
  BY UsesAssumption DEF TypeOK
<1>2. runs \in 1 .. Len(use.arguments)
  BY DEF TypeOK, MaxRuns
<1>3. Drivers \in Seq(Drives) \ {<<>>}
  BY <1>1, <1>2, ElementOfSeq DEF Drivers
<1>4. Len(Drivers) \in Nat \ {0}
  BY <1>3, EmptySeq, LenProperties
<1>5. ASSUME NEW i \in 1 .. Len(Drivers)
      PROVE  Drivers[i] \in Drives \cap Given(use)
  <2>1. Drivers[i] \in Drives
    BY <1>3, <1>5, ElementOfSeq
  <2>2. i \in DOMAIN Drivers
    BY <1>3, <1>5, LenProperties
  <2>3. Drivers[i] \in ToSet(use.arguments[runs])
    BY <2>2 DEF ToSet, Drivers
  <2>4. QED
    BY <1>2, <2>1, <2>3 DEF Given
<1>6. QED
  BY <1>3, <1>4, <1>5

\* The drive that the plan is at.
LEMMA PlanningDrive ==
  ASSUME TypeOK, Planning
  PROVE  Drivers[pos] \in Drives /\ Drivers[pos] \in Given(use)
<1>1. pos \in 1 .. Len(Drivers)
  BY DriversAre DEF TypeOK, Planning
<1>2. QED
  BY <1>1, DriversAre

\* The first run is given drives.
LEMMA FirstDriversAre ==
  ASSUME NEW u \in Uses
  PROVE  /\ Len(u.arguments) \in Nat \ {0}
         /\ Len(u.arguments[1]) \in Nat
         /\ u.num \in Nat
<1>1. u.arguments \in Seq(Seq(Drives) \ {<<>>}) /\ u.arguments # <<>> /\ u.num \in Nat
  BY UsesAssumption
<1>2. Len(u.arguments) \in Nat \ {0}
  BY <1>1, EmptySeq, LenProperties
<1>3. u.arguments[1] \in Seq(Drives)
  BY <1>1, <1>2, ElementOfSeq
<1>4. QED
  BY <1>1, <1>2, <1>3, LenProperties

LEMMA AlignsAre == /\ Len(Aligns) \in Nat \ {0}
                   /\ \A p \in 1 .. Len(Aligns) : Aligns[p] \in Nat \ {0}
<1>1. Aligns \in Seq(Nat \ {0}) /\ Aligns # <<>>
  BY SizesAssumption
<1>2. Len(Aligns) \in Nat \ {0}
  BY <1>1, EmptySeq, LenProperties
<1>3. QED
  BY <1>1, <1>2, ElementOfSeq

LEMMA NumNoncesType ==
  ASSUME TypeOK
  PROVE  NumNonces \in Nat
BY UsesAssumption DEF TypeOK, NumNonces

\* A file is planned within the nonces left and the space left.
LEMMA NextNoncesAre ==
  ASSUME TypeOK, NEW d \in Drives
  PROVE  /\ NextNonces(d) \in Nat
         /\ NextNonces(d) <= nonces_to_gen
         /\ NextNonces(d) <= free_spaces[d]
<1> DEFINE least == Smaller(nonces_to_gen,
                            Smaller(MaxNoncesPerFile, Larger(0, free_spaces[d])))
           a == Aligns[pass]
<1>1. /\ nonces_to_gen \in Nat
      /\ free_spaces[d] \in Nat
      /\ MaxNoncesPerFile \in Nat
      /\ IntMax \in Nat
  BY NumNoncesType, SizesAssumption DEF TypeOK
<1>2. least \in Nat /\ least <= nonces_to_gen /\ least <= free_spaces[d]
  BY <1>1 DEF Smaller, Larger
<1>3. a \in Nat \ {0}
  BY AlignsAre DEF TypeOK
<1>4. NextNonces(d) = IF RoundDown(least, a) < IntMax THEN RoundDown(least, a) ELSE 0
  BY DEF NextNonces
<1> HIDE DEF least, a
<1>5. RoundDown(least, a) \in 0 .. least
  BY <1>2, <1>3, RoundDownIs
<1>6. QED
  BY <1>1, <1>2, <1>4, <1>5

-----------------------------------------------------------------------------
(* The last nonce of a drive                                               *)

Ends(d) == {0} \cup {EndOf(f) : f \in Counted(d)}

\* There is a last one: a drive has finitely many files.
HasLast(d) == \E m \in Ends(d) : \A e \in Ends(d) : m >= e

LEMMA FinishedAre ==
  ASSUME TypeOK, NEW d \in Drives, NEW f \in Finished(d)
  PROVE  /\ f \in PlotFiles /\ f.done /\ f \in files[d]
         /\ f.sn \in Nat /\ f.nonces \in Nat \ {0}
         /\ EndOf(f) \in Nat /\ EndOf(f) > f.sn
<1>1. f \in files[d] /\ files[d] \subseteq PlotFiles /\ f.done
  BY DEF TypeOK, Finished
<1>2. f \in [sn : Nat, nonces : Nat \ {0}, size : Nat, done : BOOLEAN]
  BY <1>1 DEF PlotFiles
<1>3. QED
  BY <1>1, <1>2 DEF EndOf

LEMMA CountedAre ==
  ASSUME TypeOK, NEW d \in Drives, NEW f \in Counted(d)
  PROVE  /\ f \in Finished(d) /\ InRange(f)
         /\ f.sn \in Nat /\ f.nonces \in Nat \ {0}
         /\ EndOf(f) \in Nat /\ EndOf(f) > f.sn
BY FinishedAre DEF Counted

\* Whether a file is in range does not depend on the state, only on its name.
LEMMA RangeStays == /\ \A f : InRange(f)' <=> InRange(f)
                    /\ \A f, g : SameName(f, g) => (InRange(f) <=> InRange(g))
<1>1. \A f : InRange(f)' <=> InRange(f)
  BY DEF InRange, HighBits, RoundDown
<1>2. QED
  BY <1>1 DEF InRange, SameName

\* What counts depends only on what is finished.
LEMMA CountedStays ==
  ASSUME NEW d, Finished(d)' = Finished(d)
  PROVE  Counted(d)' = Counted(d)
BY RangeStays DEF Counted

LEMMA LastNonceIs ==
  ASSUME TypeOK, NEW d \in Drives, HasLast(d)
  PROVE  /\ LastNonce(d) \in Nat
         /\ \A f \in Counted(d) : EndOf(f) <= LastNonce(d)
<1>1. Ends(d) \subseteq Nat
  BY CountedAre DEF Ends
<1>2. LastNonce(d) \in Ends(d) /\ \A e \in Ends(d) : LastNonce(d) >= e
  BY DEF HasLast, LastNonce, Ends, Max
<1>3. \A f \in Counted(d) : EndOf(f) \in Ends(d)
  BY DEF Ends
<1>4. QED
  BY <1>1, <1>2, <1>3

\* A finished file more, or none.
LEMMA LastStays ==
  ASSUME TypeOK, NEW d \in Drives, HasLast(d), NEW e \in Nat,
         Ends(d)' = Ends(d) \/ Ends(d)' = Ends(d) \cup {e}
  PROVE  HasLast(d)'
<1>1. Ends(d) \subseteq Nat
  BY CountedAre DEF Ends
<1>2. PICK m \in Ends(d) : \A x \in Ends(d) : m >= x
  BY DEF HasLast
<1>3. PICK k \in Ends(d)' : k >= m /\ k \in Nat /\ (e \in Ends(d)' => k >= e)
  BY <1>1, <1>2
<1>4. \A x \in Ends(d)' : k >= x
  BY <1>1, <1>2, <1>3
<1>5. QED
  BY <1>3, <1>4 DEF HasLast

-----------------------------------------------------------------------------
(* Types                                                                   *)

IInv == TypeOK /\ \A d \in Drives : HasLast(d)

\* What a step that only plans leaves alone.
Kept == UNCHANGED <<use, room, files, runs>>

\* A run that has just started.
Started ==
  /\ pc = "plan" /\ pass = 1 /\ pos = 1 /\ scanned = {}
  /\ free_spaces = [d \in Drives |-> 0]
  /\ sn_to_gen = StartNonce
  /\ nonces_to_gen = NumNonces
  /\ plan = [d \in Drives |-> <<>>]
  /\ cur = [d \in Drives |-> 1]

LEMMA StartedType ==
  ASSUME use \in Uses, runs \in 1 .. MaxRuns, Started,
         room \in [Drives -> Nat], files \in [Drives -> SUBSET PlotFiles]
  PROVE  TypeOK
<1>1. Len(Drivers) \in Nat
  <2>1. use.arguments \in Seq(Seq(Drives) \ {<<>>})
    BY UsesAssumption
  <2>2. use.arguments[runs] \in Seq(Drives)
    BY <2>1, ElementOfSeq DEF MaxRuns
  <2>3. QED
    BY <2>2, LenProperties DEF Drivers
<1>2. NumNonces \in Nat
  BY UsesAssumption DEF NumNonces
<1>3. <<>> \in Seq(PlanFiles) /\ Len(<<>>) = 0
  BY EmptySeq
<1>4. plan \in [Drives -> Seq(PlanFiles)]
  BY <1>3 DEF Started
<1>5. \A d \in Drives : cur[d] <= Len(plan[d]) + 1
  BY <1>3 DEF Started
<1>6. QED
  BY <1>1, <1>2, <1>4, <1>5, AlignsAre, SizesAssumption DEF TypeOK, Started

LEMMA InitIInv == Init => IInv
<1> SUFFICES ASSUME Init
             PROVE  IInv
  OBVIOUS
<1>1. use \in Uses /\ runs \in 1 .. MaxRuns
  BY FirstDriversAre DEF Init, MaxRuns
<1>2. room \in [Drives -> Nat]
  <2>1. use.spaces \subseteq Nat
    BY <1>1, UsesAssumption
  <2>2. PICK space \in [Given(use) -> use.spaces] :
          room = [d \in Drives |-> IF d \in Given(use) THEN space[d] ELSE 0]
    BY DEF Init
  <2>3. QED
    BY <2>1, <2>2
<1>3. files \in [Drives -> SUBSET PlotFiles]
  BY DEF Init
<1>4. TypeOK
  BY <1>1, <1>2, <1>3, StartedType DEF Init, Started
<1>5. ASSUME NEW d \in Drives
      PROVE  HasLast(d)
  <2>1. Ends(d) = {0}
    BY DEF Init, Ends, Counted, Finished
  <2>2. QED
    BY <2>1 DEF HasLast
<1>6. QED
  BY <1>4, <1>5 DEF IInv

LEMMA KeptLasts ==
  ASSUME IInv, files' = files
  PROVE  \A d \in Drives : HasLast(d)'
<1>1. \A d \in Drives : Counted(d)' = Counted(d)
  BY CountedStays DEF Finished
<1>2. \A d \in Drives : Ends(d)' = Ends(d)
  BY <1>1 DEF Ends
<1>3. QED
  BY <1>2 DEF IInv, HasLast

LEMMA PlanIInv ==
  ASSUME IInv, Plan
  PROVE  IInv'
<1> USE DEF IInv
<1>1. files' = files
  BY DEF Plan, Scan, PlanFile, NextDrive, NextPass
<1>2. /\ Drivers' = Drivers /\ NumNonces' = NumNonces /\ MaxRuns' = MaxRuns
      /\ UNCHANGED <<use, room, cur, runs>>
  BY DEF Plan, Scan, PlanFile, NextDrive, NextPass, Drivers, NumNonces, MaxRuns
<1>3. /\ Len(Drivers) \in Nat
      /\ Planning => Drivers[pos] \in Drives
  BY DriversAre, PlanningDrive
<1>4. NumNonces \in Nat
  BY NumNoncesType
<1>5. TypeOK'
  <2>1. CASE Scan
    <3> DEFINE d == Drivers[pos]
    <3>1. PICK s \in Reclaimable(d) :
            free_spaces' = [free_spaces EXCEPT ![d] = room[d] + s]
      BY <2>1 DEF Scan
    <3>2. d \in Drives
      BY <1>3, <2>1 DEF Scan
    <3>3. s \in Nat
      <4>1. \A f \in Unfinished(d) : f.size \in Nat
        BY <3>2 DEF TypeOK, Unfinished, PlotFiles
      <4>2. QED
        BY <3>1, <4>1 DEF Reclaimable
    <3>4. LastNonce(d) \in Nat
      BY <3>2, LastNonceIs
    <3>5. /\ scanned' = scanned \cup {d}
          /\ sn_to_gen' = Larger(sn_to_gen, LastNonce(d))
          /\ UNCHANGED <<pc, pass, pos, nonces_to_gen, plan>>
      BY <2>1 DEF Scan
    <3> HIDE DEF d
    <3>6. sn_to_gen' \in Nat
      BY <3>4, <3>5 DEF TypeOK, Larger
    <3>7. free_spaces' \in [Drives -> Nat]
      BY <3>1, <3>2, <3>3 DEF TypeOK
    <3>8. QED
      BY <1>1, <1>2, <3>2, <3>5, <3>6, <3>7 DEF TypeOK
  <2>2. CASE PlanFile
    <3> DEFINE d == Drivers[pos]
               n == NextNonces(d)
               f == [sn |-> sn_to_gen, nonces |-> n]
    <3>1. d \in Drives
      BY <1>3, <2>2 DEF PlanFile
    <3>2. /\ plan' = [plan EXCEPT ![d] = Append(plan[d], f)]
          /\ sn_to_gen' = sn_to_gen + n
          /\ nonces_to_gen' = nonces_to_gen - n
          /\ free_spaces' = [free_spaces EXCEPT ![d] = free_spaces[d] - n]
          /\ n > 0
          /\ UNCHANGED <<pc, pass, pos, scanned>>
      BY <2>2 DEF PlanFile
    <3>3. n \in Nat /\ n <= nonces_to_gen /\ n <= free_spaces[d]
      BY <3>1, NextNoncesAre
    <3>4. f \in PlanFiles
      <4> HIDE DEF n
      <4>1. QED
        BY <3>2, <3>3 DEF TypeOK, PlanFiles
    <3> HIDE DEF d, n, f
    <3>5. /\ plan[d] \in Seq(PlanFiles)
          /\ Append(plan[d], f) \in Seq(PlanFiles)
          /\ Len(Append(plan[d], f)) = Len(plan[d]) + 1
          /\ Len(plan[d]) \in Nat
      BY <3>1, <3>4, AppendProperties, LenProperties DEF TypeOK
    <3>6. plan' \in [Drives -> Seq(PlanFiles)]
      BY <3>1, <3>2, <3>5 DEF TypeOK
    <3>7. ASSUME NEW e \in Drives
          PROVE  cur'[e] <= Len(plan'[e]) + 1
      <4>1. Len(plan'[e]) \in {Len(plan[e]), Len(plan[e]) + 1} /\ Len(plan[e]) \in Nat
        BY <3>1, <3>2, <3>5, LenProperties DEF TypeOK
      <4>2. QED
        BY <1>2, <4>1 DEF TypeOK
    <3>8. free_spaces' \in [Drives -> Nat]
      BY <3>1, <3>2, <3>3 DEF TypeOK
    <3>9. sn_to_gen' \in Nat /\ nonces_to_gen' \in 0 .. NumNonces
      BY <1>4, <3>2, <3>3 DEF TypeOK
    <3>10. QED
      BY <1>1, <1>2, <3>2, <3>6, <3>7, <3>8, <3>9 DEF TypeOK
  <2>3. CASE NextDrive
    <3>1. pos' = pos + 1 /\ pos <= Len(Drivers)
          /\ UNCHANGED <<pc, pass, scanned, free_spaces, sn_to_gen,
                         nonces_to_gen, plan>>
      BY <2>3 DEF NextDrive, Planning
    <3>2. pos' \in 1 .. Len(Drivers) + 1
      BY <1>3, <3>1 DEF TypeOK
    <3>3. QED
      BY <1>1, <1>2, <3>1, <3>2 DEF TypeOK
  <2>4. CASE NextPass
    <3>1. pass' \in 1 .. Len(Aligns)
      BY <2>4, AlignsAre DEF NextPass, TypeOK
    <3>2. pos' \in 1 .. Len(Drivers) + 1
      BY <1>3, <2>4 DEF NextPass, TypeOK
    <3>3. pc' \in {"plan", "plot", "exited"}
      BY <2>4 DEF NextPass, TypeOK
    <3>4. UNCHANGED <<scanned, free_spaces, sn_to_gen, nonces_to_gen, plan>>
      BY <2>4 DEF NextPass
    <3>5. QED
      BY <1>1, <1>2, <3>1, <3>2, <3>3, <3>4 DEF TypeOK
  <2>5. QED
    BY <2>1, <2>2, <2>3, <2>4 DEF Plan
<1>6. QED
  BY <1>1, <1>5, KeptLasts

\* A writer leaves the plan alone.
LEMMA WriterKeeps ==
  ASSUME NEW d \in Drives, WriterStep(d)
  PROVE  /\ UNCHANGED <<use, pc, pass, pos, scanned, free_spaces, sn_to_gen,
                        nonces_to_gen, plan, runs>>
         /\ Drivers' = Drivers /\ NumNonces' = NumNonces /\ MaxRuns' = MaxRuns
<1>1. UNCHANGED <<use, pc, pass, pos, scanned, free_spaces, sn_to_gen,
                  nonces_to_gen, plan, runs>>
  BY DEF WriterStep, CreateFile, AllocateFile, FinishFile, planVars
<1>2. QED
  BY <1>1 DEF Drivers, NumNonces, MaxRuns

\* The file that a writer is at.
LEMMA CurrentIs ==
  ASSUME TypeOK, NEW d \in Drives, cur[d] <= Len(plan[d])
  PROVE  /\ cur[d] \in 1 .. Len(plan[d]) /\ Len(plan[d]) \in Nat
         /\ plan[d][cur[d]] \in PlanFiles
<1>1. plan[d] \in Seq(PlanFiles) /\ cur[d] \in Nat \ {0}
  BY DEF TypeOK
<1>2. cur[d] \in 1 .. Len(plan[d]) /\ Len(plan[d]) \in Nat
  BY <1>1, LenProperties
<1>3. QED
  BY <1>1, <1>2, ElementOfSeq

LEMMA OpenedAre ==
  ASSUME TypeOK, NEW d \in Drives, NEW f \in Opened(d)
  PROVE  /\ f \in files[d] /\ f \in PlotFiles /\ ~f.done
         /\ f.sn \in Nat /\ f.nonces \in Nat \ {0} /\ f.size \in Nat
         /\ SameName(f, plan[d][cur[d]])
<1>1. f \in files[d] /\ files[d] \subseteq PlotFiles /\ ~f.done
  BY DEF TypeOK, Opened, Unfinished
<1>2. QED
  BY <1>1 DEF PlotFiles, Opened

\* What a writer does to the files of its drive.
LEMMA WriterFiles ==
  ASSUME TypeOK, NEW d \in Drives, WriterStep(d)
  PROVE  /\ files' \in [Drives -> SUBSET PlotFiles]
         /\ \A e \in Drives \ {d} : files'[e] = files[e]
         /\ room' \in [Drives -> Nat]
<1>1. CASE CreateFile(d)
  <2> DEFINE f == plan[d][cur[d]]
             new == [sn |-> f.sn, nonces |-> f.nonces, size |-> 0, done |-> FALSE]
  <2>1. /\ files' = [files EXCEPT ![d] = files[d] \cup {new}]
        /\ room' = room
    BY <1>1 DEF CreateFile
  <2>2. f \in PlanFiles
    BY <1>1, CurrentIs DEF CreateFile
  <2>3. new \in PlotFiles
    BY <2>2 DEF PlanFiles, PlotFiles
  <2> HIDE DEF f, new
  <2>4. QED
    BY <2>1, <2>3 DEF TypeOK
<1>2. CASE AllocateFile(d)
  <2>1. PICK f \in Opened(d) :
          /\ f.size < f.nonces
          /\ room[d] >= f.nonces - f.size
          /\ room' = [room EXCEPT ![d] = room[d] - (f.nonces - f.size)]
          /\ files' = [files EXCEPT ![d] =
                         (files[d] \ {f}) \cup {[f EXCEPT !.size = f.nonces]}]
    BY <1>2 DEF AllocateFile
  <2>2. [f EXCEPT !.size = f.nonces] \in PlotFiles
    BY OpenedAre DEF PlotFiles
  <2>3. room[d] - (f.nonces - f.size) \in Nat
    <3>1. room[d] \in Nat /\ f.nonces \in Nat /\ f.size \in Nat
      BY OpenedAre DEF TypeOK
    <3>2. QED
      BY <2>1, <3>1
  <2>4. QED
    BY <2>1, <2>2, <2>3 DEF TypeOK
<1>3. CASE FinishFile(d)
  <2>1. PICK f \in Opened(d) :
          LET old == {g \in Finished(d) : SameName(f, g)} IN
          /\ files' = [files EXCEPT ![d] =
                         (files[d] \ ({f} \cup old)) \cup {[f EXCEPT !.done = TRUE]}]
          /\ room' = [room EXCEPT ![d] = IF old = {} THEN room[d] ELSE room[d] + f.size]
    BY <1>3 DEF FinishFile
  <2> DEFINE old == {g \in Finished(d) : SameName(f, g)}
  <2>2. [f EXCEPT !.done = TRUE] \in PlotFiles /\ f.size \in Nat
    BY OpenedAre DEF PlotFiles
  <2>3. /\ files' = [files EXCEPT ![d] =
                       (files[d] \ ({f} \cup old)) \cup {[f EXCEPT !.done = TRUE]}]
        /\ room' = [room EXCEPT ![d] = IF old = {} THEN room[d] ELSE room[d] + f.size]
    BY <2>1
  <2>4. (files[d] \ ({f} \cup old)) \cup {[f EXCEPT !.done = TRUE]} \subseteq PlotFiles
    BY <2>2 DEF TypeOK
  <2>5. (IF old = {} THEN room[d] ELSE room[d] + f.size) \in Nat
    BY SMTT(30), <2>2 DEF TypeOK
  <2> HIDE DEF old
  <2>6. files' \in [Drives -> SUBSET PlotFiles]
        /\ \A e \in Drives \ {d} : files'[e] = files[e]
    <3>1. PICK new : new = (files[d] \ ({f} \cup old)) \cup {[f EXCEPT !.done = TRUE]}
      OBVIOUS
    <3>2. QED
      BY <2>3, <2>4, <3>1 DEF TypeOK
  <2>7. room' \in [Drives -> Nat]
    BY <2>3, <2>5 DEF TypeOK
  <2>8. QED
    BY <2>6, <2>7
<1>4. QED
  BY <1>1, <1>2, <1>3 DEF WriterStep

\* The finished files of a drive after a step of its writer: those before it,
\* and the one it was at, which replaces one of its name.
LEMMA WriterFinished ==
  ASSUME TypeOK, NEW d \in Drives, WriterStep(d)
  PROVE  \/ /\ Finished(d)' = Finished(d)
            /\ cur' = cur
         \/ /\ cur[d] <= Len(plan[d])
            /\ cur' = [cur EXCEPT ![d] = cur[d] + 1]
            /\ \E h : /\ SameName(h, plan[d][cur[d]])
                      /\ Finished(d)' =
                           {g \in Finished(d) : ~SameName(h, g)} \cup {h}
<1>1. CASE CreateFile(d)
  <2> DEFINE f == plan[d][cur[d]]
             new == [sn |-> f.sn, nonces |-> f.nonces, size |-> 0, done |-> FALSE]
  <2>1. files'[d] = files[d] \cup {new} /\ cur' = cur
    BY <1>1 DEF CreateFile, TypeOK
  <2>2. ~new.done
    OBVIOUS
  <2> HIDE DEF f, new
  <2>3. QED
    BY <2>1, <2>2 DEF Finished
<1>2. CASE AllocateFile(d)
  <2>1. PICK f \in Opened(d) :
          files' = [files EXCEPT ![d] =
                      (files[d] \ {f}) \cup {[f EXCEPT !.size = f.nonces]}]
    BY <1>2 DEF AllocateFile
  <2>2. ~f.done /\ f \in PlotFiles
    BY OpenedAre
  <2>3. ~[f EXCEPT !.size = f.nonces].done
    BY <2>2 DEF PlotFiles
  <2>4. files'[d] = (files[d] \ {f}) \cup {[f EXCEPT !.size = f.nonces]}
    BY <2>1 DEF TypeOK
  <2>5. cur' = cur
    BY <1>2 DEF AllocateFile
  <2>6. QED
    BY <2>2, <2>3, <2>4, <2>5 DEF Finished
<1>3. CASE FinishFile(d)
  <2>1. PICK f \in Opened(d) :
          files' = [files EXCEPT ![d] =
                      (files[d] \ ({f} \cup {g \in Finished(d) : SameName(f, g)}))
                        \cup {[f EXCEPT !.done = TRUE]}]
    BY <1>3 DEF FinishFile
  <2>2. ~f.done /\ f \in PlotFiles /\ SameName(f, plan[d][cur[d]])
    BY OpenedAre
  <2>3. PICK h : h = [f EXCEPT !.done = TRUE]
    OBVIOUS
  <2>4. h.done /\ h.sn = f.sn /\ h.nonces = f.nonces
    BY <2>2, <2>3 DEF PlotFiles
  <2>5. /\ SameName(h, plan[d][cur[d]])
        /\ \A g : SameName(h, g) <=> SameName(f, g)
    BY <2>2, <2>4 DEF SameName
  <2>6. files'[d] = (files[d] \ ({f} \cup {g \in Finished(d) : SameName(f, g)}))
                      \cup {h}
    BY <2>1, <2>3 DEF TypeOK
  <2>7. Finished(d)' = {g \in Finished(d) : ~SameName(h, g)} \cup {h}
    BY <2>2, <2>4, <2>5, <2>6 DEF Finished
  <2>8. QED
    BY <1>3, <2>5, <2>7 DEF FinishFile
<1>4. QED
  BY <1>1, <1>2, <1>3 DEF WriterStep

\* What becomes of the files that count.
LEMMA WriterCounted ==
  ASSUME TypeOK, NEW d \in Drives, WriterStep(d)
  PROVE  \/ /\ Counted(d)' = Counted(d)
            /\ cur' = cur
         \/ /\ cur[d] <= Len(plan[d])
            /\ cur' = [cur EXCEPT ![d] = cur[d] + 1]
            /\ \E h : /\ SameName(h, plan[d][cur[d]])
                      /\ \/ Counted(d)' = Counted(d)
                         \/ Counted(d)' =
                              {g \in Counted(d) : ~SameName(h, g)} \cup {h}
<1>1. CASE Finished(d)' = Finished(d) /\ cur' = cur
  BY <1>1, CountedStays
<1>2. CASE /\ cur[d] <= Len(plan[d])
           /\ cur' = [cur EXCEPT ![d] = cur[d] + 1]
           /\ \E h : /\ SameName(h, plan[d][cur[d]])
                     /\ Finished(d)' =
                          {g \in Finished(d) : ~SameName(h, g)} \cup {h}
  <2>1. PICK h : /\ SameName(h, plan[d][cur[d]])
                 /\ Finished(d)' =
                      {g \in Finished(d) : ~SameName(h, g)} \cup {h}
    BY <1>2
  <2>2. \A g : g \in Counted(d)' <=> g \in Finished(d)' /\ InRange(g)
    BY RangeStays DEF Counted
  <2>3. CASE InRange(h)
    <3>1. Counted(d)' = {g \in Counted(d) : ~SameName(h, g)} \cup {h}
      BY <2>1, <2>2, <2>3 DEF Counted
    <3>2. QED
      BY <1>2, <2>1, <3>1
  <2>4. CASE ~InRange(h)
    <3>1. Counted(d)' = Counted(d)
      BY <2>1, <2>2, <2>4, RangeStays DEF Counted
    <3>2. QED
      BY <1>2, <2>1, <3>1
  <2>5. QED
    BY <2>3, <2>4
<1>3. QED
  BY <1>1, <1>2, WriterFinished

LEMMA WriterIInv ==
  ASSUME IInv, NEW d \in Drives, WriterStep(d)
  PROVE  IInv'
<1> USE DEF IInv
<1>1. /\ cur' \in [Drives -> Nat \ {0}]
      /\ \A e \in Drives : cur'[e] <= Len(plan[e]) + 1
  <2>1. \/ cur' = cur
        \/ /\ cur[d] <= Len(plan[d])
           /\ cur' = [cur EXCEPT ![d] = cur[d] + 1]
    BY WriterFinished
  <2>2. \A e \in Drives : Len(plan[e]) \in Nat
    BY LenProperties DEF TypeOK
  <2>3. cur \in [Drives -> Nat \ {0}] /\ \A e \in Drives : cur[e] <= Len(plan[e]) + 1
    BY DEF TypeOK
  <2> HIDE DEF IInv
  <2>4. CASE cur' = cur
    BY <2>3, <2>4
  <2>5. CASE cur[d] <= Len(plan[d]) /\ cur' = [cur EXCEPT ![d] = cur[d] + 1]
    <3>1. cur[d] + 1 \in Nat \ {0} /\ cur[d] + 1 <= Len(plan[d]) + 1
      BY <2>2, <2>3, <2>5
    <3>2. cur' \in [Drives -> Nat \ {0}]
      BY <2>3, <2>5, <3>1
    <3>3. cur'[d] = cur[d] + 1 /\ \A e \in Drives \ {d} : cur'[e] = cur[e]
      BY <2>3, <2>5
    <3>4. QED
      BY <2>3, <3>1, <3>2, <3>3
  <2>6. QED
    BY <2>1, <2>4, <2>5
<1>2. TypeOK'
  BY <1>1, WriterKeeps, WriterFiles DEF TypeOK
<1>3. ASSUME NEW e \in Drives \ {d}
      PROVE  HasLast(e)'
  <2>1. Finished(e)' = Finished(e)
    BY <1>3, WriterFiles DEF Finished
  <2>2. Ends(e)' = Ends(e)
    BY <2>1, CountedStays DEF Ends
  <2>3. QED
    BY <1>3, <2>2 DEF HasLast
<1>4. HasLast(d)'
  <2>1. CASE Counted(d)' = Counted(d)
    <3>1. Ends(d)' = Ends(d)
      BY <2>1 DEF Ends
    <3>2. QED
      BY <3>1 DEF HasLast
  <2>2. CASE cur[d] <= Len(plan[d]) /\ Counted(d)' # Counted(d)
    <3>1. PICK h : /\ SameName(h, plan[d][cur[d]])
                   /\ Counted(d)' =
                        {g \in Counted(d) : ~SameName(h, g)} \cup {h}
      BY <2>2, WriterCounted
    <3>2. EndOf(h) \in Nat
      BY <2>2, <3>1, CurrentIs DEF SameName, PlanFiles, EndOf
    <3>3. \A g : SameName(h, g) => EndOf(g) = EndOf(h)
      BY DEF SameName, EndOf
    <3>4. Ends(d)' = Ends(d) \cup {EndOf(h)}
      BY <3>1, <3>3 DEF Ends
    <3>5. QED
      BY <3>2, <3>4, LastStays
  <2>3. QED
    BY <2>1, <2>2, WriterCounted
<1>5. QED
  BY <1>2, <1>3, <1>4

LEMMA RestartIInv ==
  ASSUME IInv, Restart
  PROVE  IInv'
<1> USE DEF IInv
<1>1. NumNonces' = NumNonces /\ UNCHANGED <<use, room, files>>
  BY DEF Restart, NumNonces
<1>2. Started'
  BY <1>1 DEF Restart, Started
<1>3. runs' \in 1 .. MaxRuns'
  <2>1. MaxRuns \in Nat /\ MaxRuns' = MaxRuns
    BY <1>1, FirstDriversAre DEF MaxRuns, TypeOK
  <2>2. QED
    BY <2>1 DEF Restart, TypeOK
<1>4. use' \in Uses /\ room' \in [Drives -> Nat] /\ files' \in [Drives -> SUBSET PlotFiles]
  BY <1>1 DEF TypeOK
<1>5. (use \in Uses /\ runs \in 1 .. MaxRuns /\ Started
         /\ room \in [Drives -> Nat] /\ files \in [Drives -> SUBSET PlotFiles]
       => TypeOK)'
  BY StartedType, PTL
<1>6. QED
  BY <1>1, <1>2, <1>3, <1>4, <1>5, KeptLasts

LEMMA NextIInv == IInv /\ [Next]_vars => IInv'
<1> SUFFICES ASSUME IInv, [Next]_vars
             PROVE  IInv'
  OBVIOUS
<1>1. CASE UNCHANGED vars
  <2>1. TypeOK'
    BY <1>1 DEF vars, planVars, IInv, TypeOK, Drivers, NumNonces, MaxRuns
  <2>2. files' = files
    BY <1>1 DEF vars
  <2>3. QED
    BY <2>1, <2>2, KeptLasts DEF IInv
<1>2. CASE Next
  BY <1>2, PlanIInv, WriterIInv, RestartIInv DEF Next
<1>3. QED
  BY <1>1, <1>2

LEMMA Invariance == Spec => []IInv
<1>1. QED
  BY InitIInv, NextIInv, PTL DEF Spec

(***************************************************************************)
(* TypeCorrect: whatever the drives hold and however the runs end, the     *)
(* plan never takes more nonces than are left nor more space than a drive  *)
(* has (src/src/plotter.cpp:149-157), so neither count goes below 0; and   *)
(* the writers stay within their plans.                                    *)
(***************************************************************************)
THEOREM TypeCorrect == Spec => []TypeOK
<1>1. IInv => TypeOK
  BY DEF IInv
<1>2. QED
  BY <1>1, Invariance, PTL

-----------------------------------------------------------------------------
(* Each nonce once on a drive                                              *)

\* The files planned for a drive lie one after the other, below the nonce
\* that the next file gets.
InRow(d) ==
  /\ d \notin scanned => plan[d] = <<>>
  /\ \A i \in 1 .. Len(plan[d]) : EndOf(plan[d][i]) <= sn_to_gen
  /\ \A i, j \in 1 .. Len(plan[d]) : i < j => EndOf(plan[d][i]) <= plan[d][j].sn

\* The finished files of a drive that count lie below those that are still to
\* be plotted.
Behind(d) ==
  /\ d \in scanned => \A f \in Counted(d) : EndOf(f) <= sn_to_gen
  /\ \A f \in Counted(d) : \A j \in cur[d] .. Len(plan[d]) :
       EndOf(f) <= plan[d][j].sn

Apart(d) ==
  \A f, g \in Counted(d) : f = g \/ EndOf(f) <= g.sn \/ EndOf(g) <= f.sn

OnlyGiven == \A d \in Drives \ Given(use) : files[d] = {} /\ plan[d] = <<>>

OnceInv ==
  /\ IInv
  /\ OnlyGiven
  /\ \A d \in Drives : InRow(d) /\ Behind(d) /\ Apart(d)

LEMMA PlannedAre ==
  ASSUME TypeOK, NEW d \in Drives
  PROVE  /\ plan[d] \in Seq(PlanFiles) /\ Len(plan[d]) \in Nat
         /\ \A i \in 1 .. Len(plan[d]) :
              /\ plan[d][i] \in PlanFiles
              /\ plan[d][i].sn \in Nat /\ plan[d][i].nonces \in Nat \ {0}
              /\ EndOf(plan[d][i]) \in Nat
<1>1. plan[d] \in Seq(PlanFiles)
  BY DEF TypeOK
<1>2. \A i \in 1 .. Len(plan[d]) : plan[d][i] \in PlanFiles
  BY <1>1, ElementOfSeq
<1>3. Len(plan[d]) \in Nat
  BY <1>1, LenProperties
<1>4. QED
  BY <1>1, <1>2, <1>3 DEF PlanFiles, EndOf

\* Nothing is planned on a drive whose plan is empty.
LEMMA EmptyPlan ==
  ASSUME NEW d \in Drives, plan[d] = <<>>
  PROVE  /\ 1 .. Len(plan[d]) = {}
         /\ InRow(d)
<1>1. Len(plan[d]) = 0
  BY EmptySeq
<1>2. 1 .. Len(plan[d]) = {}
  BY <1>1
<1>3. QED
  BY <1>2 DEF InRow

LEMMA InitOnce == Init => OnceInv
<1> SUFFICES ASSUME Init
             PROVE  OnceInv
  OBVIOUS
<1>1. IInv
  BY InitIInv
<1>2. OnlyGiven
  BY DEF Init, OnlyGiven
<1>3. ASSUME NEW d \in Drives
      PROVE  InRow(d) /\ Behind(d) /\ Apart(d)
  <2>1. InRow(d)
    BY EmptyPlan DEF Init
  <2>2. Counted(d) = {}
    BY DEF Init, Counted, Finished
  <2>3. QED
    BY <2>1, <2>2 DEF Behind, Apart
<1>4. QED
  BY <1>1, <1>2, <1>3 DEF OnceInv

LEMMA PlanOnce ==
  ASSUME OnceInv, Plan
  PROVE  OnceInv'
<1> USE DEF OnceInv
<1>1. IInv' /\ TypeOK
  BY PlanIInv DEF IInv
<1>2. /\ files' = files /\ use' = use /\ cur' = cur
      /\ \A d \in Drives : Counted(d)' = Counted(d)
      /\ \A d \in Drives : Apart(d)'
  <2>1. files' = files /\ use' = use /\ cur' = cur
    BY DEF Plan, Scan, PlanFile, NextDrive, NextPass
  <2>2. \A d \in Drives : Counted(d)' = Counted(d)
    BY <2>1, CountedStays DEF Finished
  <2>3. QED
    BY <2>1, <2>2 DEF Apart
<1>3. CASE Scan
  <2>1. PICK d \in Drives :
          /\ d \notin scanned
          /\ scanned' = scanned \cup {d}
          /\ sn_to_gen' = Larger(sn_to_gen, LastNonce(d))
          /\ plan' = plan
    <3>1. Drivers[pos] \in Drives
      BY <1>1, <1>3, PlanningDrive DEF Scan
    <3>2. QED
      BY <1>3, <3>1 DEF Scan
  <2>2. OnlyGiven'
    BY <1>2, <2>1 DEF OnlyGiven, Given
  <2>3. LastNonce(d) \in Nat /\ sn_to_gen \in Nat
    BY <1>1, LastNonceIs DEF IInv, TypeOK
  <2>4. sn_to_gen' \in Nat /\ sn_to_gen' >= sn_to_gen /\ sn_to_gen' >= LastNonce(d)
    BY <2>1, <2>3 DEF Larger
  <2>5. ASSUME NEW e \in Drives
        PROVE  InRow(e)'
    <3>1. \A i \in 1 .. Len(plan[e]) : EndOf(plan[e][i]) <= sn_to_gen'
      BY <1>1, <2>3, <2>4, PlannedAre DEF InRow
    <3>2. QED
      BY <2>1, <3>1 DEF InRow
  <2>6. ASSUME NEW e \in Drives
        PROVE  Behind(e)'
    <3>1. e \in scanned' => \A f \in Counted(e) : EndOf(f) <= sn_to_gen'
      <4>1. CASE e = d
        BY <1>1, <2>3, <2>4, <4>1, CountedAre, LastNonceIs DEF IInv
      <4>2. CASE e # d
        BY <1>1, <2>1, <2>3, <2>4, <4>2, CountedAre DEF Behind
      <4>3. QED
        BY <4>1, <4>2
    <3>2. QED
      BY <1>2, <2>1, <3>1 DEF Behind
  <2>7. QED
    BY <1>1, <1>2, <2>2, <2>5, <2>6
<1>4. CASE PlanFile
  <2>1. PICK d \in Drives, f \in PlanFiles :
          /\ d \in scanned /\ d \in Given(use)
          /\ f.sn = sn_to_gen
          /\ plan' = [plan EXCEPT ![d] = Append(plan[d], f)]
          /\ sn_to_gen' = sn_to_gen + f.nonces
          /\ scanned' = scanned
    <3> DEFINE d == Drivers[pos]
               n == NextNonces(d)
               f == [sn |-> sn_to_gen, nonces |-> n]
    <3>1. d \in Drives /\ d \in Given(use)
      BY <1>1, <1>4, PlanningDrive DEF PlanFile
    <3>2. n \in Nat
      BY <1>1, <3>1, NextNoncesAre
    <3>3. /\ n > 0 /\ d \in scanned /\ scanned' = scanned
          /\ plan' = [plan EXCEPT ![d] = Append(plan[d], f)]
          /\ sn_to_gen' = sn_to_gen + n
      BY <1>4 DEF PlanFile
    <3> HIDE DEF d, n
    <3>4. f \in PlanFiles /\ f.sn = sn_to_gen /\ f.nonces = n
      BY <1>1, <3>2, <3>3 DEF TypeOK, PlanFiles
    <3> HIDE DEF f
    <3>5. QED
      BY <3>1, <3>3, <3>4
  <2>2. f.sn \in Nat /\ f.nonces \in Nat \ {0} /\ EndOf(f) = sn_to_gen'
        /\ sn_to_gen \in Nat /\ sn_to_gen' \in Nat /\ sn_to_gen' >= sn_to_gen
    BY SMTT(30), <1>1, <2>1 DEF TypeOK, PlanFiles, EndOf
  <2>3. \A e \in Drives \ {d} : plan'[e] = plan[e]
    BY <1>1, <2>1 DEF TypeOK
  <2>4. /\ Len(plan'[d]) = Len(plan[d]) + 1
        /\ \A i \in 1 .. Len(plan[d]) : plan'[d][i] = plan[d][i]
        /\ plan'[d][Len(plan[d]) + 1] = f
        /\ Len(plan[d]) \in Nat
    <3>1. plan'[d] = Append(plan[d], f) /\ plan[d] \in Seq(PlanFiles)
      BY <1>1, <2>1 DEF TypeOK
    <3>2. QED
      BY <3>1, AppendProperties, LenProperties
  <2>5. OnlyGiven'
    BY <1>2, <2>1, <2>3 DEF OnlyGiven, Given
  <2>6. ASSUME NEW e \in Drives \ {d}
        PROVE  InRow(e)' /\ Behind(e)'
    <3>1. \A i \in 1 .. Len(plan[e]) : EndOf(plan[e][i]) <= sn_to_gen'
      BY <1>1, <2>2, PlannedAre DEF InRow
    <3>2. \A g \in Counted(e) : e \in scanned => EndOf(g) <= sn_to_gen'
      BY <1>1, <2>2, CountedAre DEF Behind
    <3>3. InRow(e)'
      BY <2>1, <2>3, <3>1 DEF InRow
    <3>4. Behind(e)'
      BY <1>2, <2>1, <2>3, <3>2 DEF Behind
    <3>5. QED
      BY <3>3, <3>4
  <2>7. InRow(d)'
    <3>1. \A i \in 1 .. Len(plan'[d]) :
            i \in 1 .. Len(plan[d]) \/ (i = Len(plan[d]) + 1 /\ plan'[d][i] = f)
      BY <2>4
    <3>2. ASSUME NEW i \in 1 .. Len(plan'[d])
          PROVE  EndOf(plan'[d][i]) <= sn_to_gen'
      <4>1. CASE i \in 1 .. Len(plan[d])
        BY <1>1, <2>2, <2>4, <4>1, PlannedAre DEF InRow
      <4>2. CASE plan'[d][i] = f
        BY <2>2, <4>2
      <4>3. QED
        BY <3>1, <4>1, <4>2
    <3>3. ASSUME NEW i \in 1 .. Len(plan'[d]), NEW j \in 1 .. Len(plan'[d]), i < j
          PROVE  EndOf(plan'[d][i]) <= plan'[d][j].sn
      <4>1. i \in 1 .. Len(plan[d]) /\ plan'[d][i] = plan[d][i]
        BY <2>4, <3>3
      <4>2. CASE j \in 1 .. Len(plan[d])
        BY <2>4, <3>3, <4>1, <4>2 DEF InRow
      <4>3. CASE plan'[d][j] = f
        BY <2>1, <4>1, <4>3 DEF InRow
      <4>4. QED
        BY <3>1, <4>2, <4>3
    <3>4. d \in scanned'
      BY <2>1
    <3>5. QED
      BY <3>2, <3>3, <3>4 DEF InRow
  <2>8. Behind(d)'
    <3>1. ASSUME NEW g \in Counted(d)
          PROVE  EndOf(g) <= sn_to_gen /\ EndOf(g) <= sn_to_gen'
      BY <1>1, <2>1, <2>2, CountedAre DEF Behind
    <3>2. ASSUME NEW g \in Counted(d), NEW j \in cur[d] .. Len(plan'[d])
          PROVE  EndOf(g) <= plan'[d][j].sn
      <4>1. j \in 1 .. Len(plan'[d]) /\ cur[d] \in Nat \ {0}
        BY <1>1, <2>4 DEF TypeOK
      <4>2. CASE j \in 1 .. Len(plan[d])
        BY <1>1, <2>4, <4>1, <4>2 DEF Behind
      <4>3. CASE j = Len(plan[d]) + 1
        BY <2>1, <2>4, <3>1, <4>3
      <4>4. QED
        BY <2>4, <4>1, <4>2, <4>3
    <3>3. QED
      BY <1>2, <3>1, <3>2 DEF Behind
  <2>9. QED
    BY <1>1, <1>2, <2>5, <2>6, <2>7, <2>8
<1>5. CASE NextDrive \/ NextPass
  <2>1. UNCHANGED <<plan, scanned, sn_to_gen>>
    BY <1>5 DEF NextDrive, NextPass
  <2>2. QED
    BY <1>1, <1>2, <2>1 DEF OnlyGiven, InRow, Behind, Given
<1>6. QED
  BY <1>3, <1>4, <1>5 DEF Plan

LEMMA WriterOnce ==
  ASSUME OnceInv, NEW d \in Drives, WriterStep(d)
  PROVE  OnceInv'
<1>1. IInv' /\ TypeOK
  BY WriterIInv DEF OnceInv, IInv
<1>2. UNCHANGED <<use, plan, scanned, sn_to_gen>>
  BY WriterKeeps
<1>3. /\ \A e \in Drives \ {d} : files'[e] = files[e] /\ Counted(e)' = Counted(e)
      /\ \A e \in Drives \ {d} : cur'[e] = cur[e]
  <2>1. \A e \in Drives \ {d} : files'[e] = files[e]
    BY <1>1, WriterFiles
  <2>2. \A e \in Drives \ {d} : cur'[e] = cur[e]
    BY <1>1, WriterFinished DEF TypeOK
  <2>3. QED
    BY <2>1, <2>2, CountedStays DEF Finished
<1>4. \A e \in Drives : InRow(e)'
  BY <1>2 DEF OnceInv, InRow
<1>5. \A e \in Drives \ {d} : Behind(e)' /\ Apart(e)'
  BY <1>2, <1>3 DEF OnceInv, Behind, Apart
<1>6. OnlyGiven'
  <2>1. d \in Given(use)
    <3>1. cur[d] <= Len(plan[d]) /\ cur[d] \in Nat \ {0}
      BY <1>1 DEF WriterStep, CreateFile, AllocateFile, FinishFile, TypeOK
    <3>2. plan[d] # <<>>
      BY <3>1, EmptySeq
    <3>3. QED
      BY <3>2 DEF OnceInv, OnlyGiven
  <2>2. QED
    BY <1>2, <1>3, <2>1 DEF OnceInv, OnlyGiven, Given
<1>7. InRow(d) /\ Behind(d) /\ Apart(d)
  BY DEF OnceInv
<1>8. Behind(d)' /\ Apart(d)'
  <2>1. CASE Counted(d)' = Counted(d) /\ cur' = cur
    BY <1>2, <1>7, <2>1 DEF Behind, Apart
  <2>2. CASE /\ cur[d] <= Len(plan[d])
             /\ cur' = [cur EXCEPT ![d] = cur[d] + 1]
             /\ \E h : /\ SameName(h, plan[d][cur[d]])
                       /\ \/ Counted(d)' = Counted(d)
                          \/ Counted(d)' =
                               {g \in Counted(d) : ~SameName(h, g)} \cup {h}
    <3>1. PICK h : /\ SameName(h, plan[d][cur[d]])
                   /\ \/ Counted(d)' = Counted(d)
                      \/ Counted(d)' =
                           {g \in Counted(d) : ~SameName(h, g)} \cup {h}
      BY <2>2
    <3>2. PICK k \in 1 .. Len(plan[d]) : k = cur[d]
      BY <1>1, <2>2, CurrentIs
    <3>3. cur'[d] = k + 1 /\ Len(plan[d]) \in Nat
      BY <1>1, <2>2, <3>2, PlannedAre DEF TypeOK
    <3>4. /\ h.sn = plan[d][k].sn /\ EndOf(h) = EndOf(plan[d][k])
          /\ EndOf(h) <= sn_to_gen
      BY <1>7, <3>1, <3>2 DEF SameName, EndOf, InRow
    \* Whatever was finished before and counts lies below the file.
    <3>5. \A g \in Counted(d) : EndOf(g) <= h.sn
      BY <1>7, <3>2, <3>3, <3>4 DEF Behind
    <3>6. Apart(d)'
      <4>1. \A g \in Counted(d)' : g = h \/ g \in Counted(d)
        BY <3>1
      <4>2. ASSUME NEW f \in Counted(d)', NEW g \in Counted(d)'
            PROVE  f = g \/ EndOf(f) <= g.sn \/ EndOf(g) <= f.sn
        <5>1. CASE f = h \/ g = h
          BY <3>5, <4>1, <5>1
        <5>2. CASE f \in Counted(d) /\ g \in Counted(d)
          BY <1>7, <5>2 DEF Apart
        <5>3. QED
          BY <4>1, <5>1, <5>2
      <4>3. QED
        BY <4>2 DEF Apart
    <3>7. d \in scanned => \A g \in Counted(d)' : EndOf(g) <= sn_to_gen
      BY <1>7, <3>1, <3>4 DEF Behind
    <3>8. ASSUME NEW g \in Counted(d)', NEW j \in k + 1 .. Len(plan[d])
          PROVE  EndOf(g) <= plan[d][j].sn
      <4>1. j \in k .. Len(plan[d]) /\ j \in 1 .. Len(plan[d]) /\ k < j
        BY <3>3
      <4>2. CASE g = h
        BY <1>7, <3>4, <4>1, <4>2 DEF InRow
      <4>3. CASE g \in Counted(d)
        BY <1>7, <3>2, <4>1, <4>3 DEF Behind
      <4>4. QED
        BY <3>1, <4>2, <4>3
    <3>9. Behind(d)'
      BY <1>2, <3>3, <3>7, <3>8 DEF Behind
    <3>10. QED
      BY <3>6, <3>9
  <2>3. QED
    BY <1>1, <2>1, <2>2, WriterCounted
<1>9. QED
  BY <1>1, <1>4, <1>5, <1>6, <1>8 DEF OnceInv

LEMMA RestartOnce ==
  ASSUME OnceInv, Restart
  PROVE  OnceInv'
<1>1. IInv'
  BY RestartIInv DEF OnceInv
<1>2. /\ files' = files /\ use' = use /\ scanned' = {}
      /\ plan' = [d \in Drives |-> <<>>]
  BY DEF Restart
<1>3. OnlyGiven'
  BY <1>2 DEF OnceInv, OnlyGiven, Given
<1>4. ASSUME NEW d \in Drives
      PROVE  InRow(d)' /\ Behind(d)' /\ Apart(d)'
  <2>1. plan'[d] = <<>> /\ Len(plan'[d]) = 0 /\ cur'[d] = 1
    BY <1>2, EmptySeq DEF Restart
  <2>2. 1 .. Len(plan'[d]) = {} /\ cur'[d] .. Len(plan'[d]) = {}
    BY <2>1
  <2>3. InRow(d)'
    BY <2>1, <2>2 DEF InRow
  <2>4. Behind(d)'
    BY <1>2, <2>2 DEF Behind
  <2>5. Apart(d)'
    BY <1>2, CountedStays DEF OnceInv, Apart, Finished
  <2>6. QED
    BY <2>3, <2>4, <2>5
<1>5. QED
  BY <1>1, <1>3, <1>4 DEF OnceInv

LEMMA NextOnce == OnceInv /\ [Next]_vars => OnceInv'
<1> SUFFICES ASSUME OnceInv, [Next]_vars
             PROVE  OnceInv'
  OBVIOUS
<1>1. CASE UNCHANGED vars
  <2>1. IInv'
    BY NextIInv DEF OnceInv
  <2>2. UNCHANGED <<use, files, plan, scanned, sn_to_gen, cur>>
    BY <1>1 DEF vars, planVars
  <2>3. \A d \in Drives : Counted(d)' = Counted(d)
    BY <2>2, CountedStays DEF Finished
  <2>4. QED
    BY <2>1, <2>2, <2>3 DEF OnceInv, OnlyGiven, InRow, Behind, Apart, Given
<1>2. CASE Next
  BY <1>2, PlanOnce, WriterOnce, RestartOnce DEF Next
<1>3. QED
  BY <1>1, <1>2

LEMMA OnceInvariance == Spec => []OnceInv
<1>1. QED
  BY InitOnce, NextOnce, PTL DEF Spec

\* A lone drive is the only one with files or a plan.
LEMMA LoneOnly ==
  ASSUME OnceInv, NEW d \in Drives, Lone(d)
  PROVE  \A e \in Drives \ {d} : files[e] = {} /\ plan[e] = <<>>
<1>1. Given(use) \subseteq {d}
  <2>1. \A i \in DOMAIN <<d>> : <<d>>[i] = d
    OBVIOUS
  <2>2. QED
    BY <2>1 DEF Lone, Given, ToSet, MaxRuns
<1>2. QED
  BY <1>1 DEF OnceInv, OnlyGiven

\* A nonce is in one finished file of drive d that counts or in one that is
\* still to be plotted on it.
OnceOn(d) ==
  \A f, g \in Counted(d) \cup Ahead(d) :
    NoncesOf(f) \cap NoncesOf(g) # {} => f = g

LEMMA OnceFollows ==
  ASSUME OnceInv, NEW d \in Drives
  PROVE  OnceOn(d)
<1>1. TypeOK /\ InRow(d) /\ Behind(d) /\ Apart(d) /\ cur[d] \in Nat \ {0}
  BY DEF OnceInv, IInv, TypeOK
<1>2. \A f : NoncesOf(f) = f.sn .. EndOf(f) - 1
  BY DEF NoncesOf
<1>3. ASSUME NEW f \in Counted(d) \cup Ahead(d)
      PROVE  f.sn \in Nat /\ EndOf(f) \in Nat
  BY <1>1, CountedAre, PlannedAre DEF Ahead
<1>4. ASSUME NEW f \in Counted(d) \cup Ahead(d), NEW g \in Counted(d) \cup Ahead(d),
             f # g
      PROVE  EndOf(f) <= g.sn \/ EndOf(g) <= f.sn
  <2>1. CASE f \in Counted(d) /\ g \in Counted(d)
    BY <1>1, <1>4, <2>1 DEF Apart
  <2>2. CASE f \in Counted(d) /\ g \in Ahead(d)
    BY <1>1, <2>2 DEF Ahead, Behind
  <2>3. CASE f \in Ahead(d) /\ g \in Counted(d)
    BY <1>1, <2>3 DEF Ahead, Behind
  <2>4. CASE f \in Ahead(d) /\ g \in Ahead(d)
    <3>1. PICK i, j \in cur[d] .. Len(plan[d]) : f = plan[d][i] /\ g = plan[d][j]
      BY <2>4 DEF Ahead
    <3>2. i \in 1 .. Len(plan[d]) /\ j \in 1 .. Len(plan[d]) /\ (i < j \/ j < i)
      BY <1>1, <1>4, <3>1, PlannedAre
    <3>3. QED
      BY <1>1, <3>1, <3>2 DEF InRow
  <2>5. QED
    BY <2>1, <2>2, <2>3, <2>4
<1>5. QED
  BY <1>2, <1>3, <1>4 DEF OnceOn

(***************************************************************************)
(* EachDriveOnce: whatever drives the runs are given, in whatever order,   *)
(* and however the runs end, no nonce is twice in the files of one drive   *)
(* that are still to be plotted, or finished with the high bits of --sn: a *)
(* run plans on after the last such file it finds there                    *)
(* (src/src/plotter.cpp:137-146 and 154-156).  What was finished with      *)
(* other high bits is not found, and is planned again.                     *)
(***************************************************************************)
THEOREM EachDriveOnce == Spec => [](\A d \in Drives : OnceOn(d))
<1>1. OnceInv => \A d \in Drives : OnceOn(d)
  BY OnceFollows
<1>2. QED
  BY <1>1, OnceInvariance, PTL

(***************************************************************************)
(* LoneDriveOnce: a program that is always started with the same drive     *)
(* plots no nonce twice before it has finished a file that starts behind   *)
(* the next multiple of 2^32 (StaysInRange: on a drive with less room it   *)
(* never does), and afterwards none of the files that count (src/src/      *)
(* plotter.cpp:137-146 and 154-156).  With several drives one that is      *)
(* planned before another is looked at may be given the nonces of a file   *)
(* that an earlier run finished there, with three of them even if their    *)
(* order never changes (run plan_repeats).                                 *)
(***************************************************************************)
THEOREM LoneDriveOnce ==
  Spec => [](LoneDrive => NoNonceTwice /\ (AllCounted => Once(AllFiles)))
<1>1. ASSUME OnceInv, LoneDrive
      PROVE  NoNonceTwice
  <2>1. PICK d \in Drives : Lone(d)
    BY <1>1 DEF LoneDrive
  <2>2. ASSUME NEW e \in Drives \ {d}
        PROVE  Counted(e) = {} /\ Ahead(e) = {}
    <3>1. files[e] = {} /\ plan[e] = <<>> /\ cur[e] \in Nat \ {0}
      BY <1>1, <2>1, LoneOnly DEF OnceInv, IInv, TypeOK
    <3>2. cur[e] .. Len(plan[e]) = {}
      BY <3>1, EmptySeq
    <3>3. QED
      BY <3>1, <3>2 DEF Counted, Finished, Ahead
  <2>3. OnceOn(d)
    BY <1>1, OnceFollows
  <2> DEFINE all == UNION {{e} \X (Counted(e) \cup Ahead(e)) : e \in Drives}
  <2>4. \A f \in all :
          /\ f[1] = d /\ f[2] \in Counted(d) \cup Ahead(d)
          /\ f = <<f[1], f[2]>>
    BY <2>2
  <2>5. Once(all)
    <3> HIDE DEF all
    <3>1. QED
      BY <2>3, <2>4 DEF OnceOn, Once
  <2>6. QED
    BY <2>5 DEF NoNonceTwice
<1>2. AllCounted /\ NoNonceTwice => Once(AllFiles)
  BY DEF AllCounted, NoNonceTwice, AllFiles
<1>3. OnceInv => (LoneDrive => NoNonceTwice /\ (AllCounted => Once(AllFiles)))
  BY <1>1, <1>2
<1>4. QED
  BY <1>3, OnceInvariance, PTL

-----------------------------------------------------------------------------
(* Each nonce once in a run, whatever the drives                           *)

\* One file ends before the other starts.
Aside(f, g) == EndOf(f) <= g.sn \/ EndOf(g) <= f.sn

\* The plans of all drives are cut from one row of nonces.
Separate(d, e) ==
  \A i \in 1 .. Len(plan[d]) : \A j \in 1 .. Len(plan[e]) :
    Aside(plan[d][i], plan[e][j])

\* A drive has one finished file of a name.
NamesOnce(d) == \A f, g \in Finished(d) : SameName(f, g) => f = g

\* In the first run there are no finished files but those of its plan that the
\* writer is done with.
OwnFiles(d) ==
  \A f \in Finished(d) : \E i \in 1 .. cur[d] - 1 : SameName(f, plan[d][i])

AcrossInv ==
  /\ OnceInv
  /\ \A d \in Drives : NamesOnce(d)
  /\ \A d, e \in Drives : d # e => Separate(d, e)
  /\ runs = 1 => \A d \in Drives : OwnFiles(d)

LEMMA EmptySeparate ==
  ASSUME NEW d \in Drives, NEW e \in Drives, plan[d] = <<>>
  PROVE  Separate(d, e)
BY EmptyPlan DEF Separate

LEMMA InitAcross == Init => AcrossInv
<1> SUFFICES ASSUME Init
             PROVE  AcrossInv
  OBVIOUS
<1>1. \A d \in Drives : plan[d] = <<>> /\ Finished(d) = {}
  BY DEF Init, Finished
<1>2. QED
  BY <1>1, InitOnce, EmptySeparate DEF AcrossInv, NamesOnce, OwnFiles

LEMMA PlanAcross ==
  ASSUME AcrossInv, Plan
  PROVE  AcrossInv'
<1>1. OnceInv /\ OnceInv' /\ TypeOK
  BY PlanOnce DEF AcrossInv, OnceInv, IInv
<1>2. /\ runs' = runs /\ cur' = cur
      /\ \A d \in Drives : Finished(d)' = Finished(d)
      /\ \A d \in Drives : NamesOnce(d)'
  <2>1. /\ runs' = runs /\ cur' = cur
        /\ \A d \in Drives : Finished(d)' = Finished(d)
    BY DEF Plan, Scan, PlanFile, NextDrive, NextPass, Finished
  <2>2. QED
    BY <2>1 DEF AcrossInv, NamesOnce, SameName
<1>3. CASE PlanFile
  <2>1. PICK d \in Drives, n \in Nat \ {0} :
          plan' = [plan EXCEPT ![d] =
                     Append(plan[d], [sn |-> sn_to_gen, nonces |-> n])]
    <3>1. Drivers[pos] \in Drives
      BY <1>1, <1>3, PlanningDrive DEF PlanFile
    <3>2. NextNonces(Drivers[pos]) \in Nat \ {0}
      BY <1>1, <1>3, <3>1, NextNoncesAre DEF PlanFile
    <3>3. QED
      BY <1>3, <3>1, <3>2 DEF PlanFile
  <2>2. PICK f : f = [sn |-> sn_to_gen, nonces |-> n]
    OBVIOUS
  <2>3. /\ f \in PlanFiles /\ f.sn = sn_to_gen /\ sn_to_gen \in Nat
        /\ plan'[d] = Append(plan[d], f)
        /\ \A e \in Drives \ {d} : plan'[e] = plan[e]
    BY <1>1, <2>1, <2>2 DEF TypeOK, PlanFiles
  <2>4. /\ Len(plan[d]) \in Nat
        /\ Len(plan'[d]) = Len(plan[d]) + 1
        /\ \A i \in 1 .. Len(plan[d]) : plan'[d][i] = plan[d][i]
        /\ plan'[d][Len(plan[d]) + 1] = f
    BY <1>1, <2>3, PlannedAre, AppendProperties
  <2>5. \A i \in 1 .. Len(plan'[d]) : plan'[d][i] = f \/ i \in 1 .. Len(plan[d])
    BY <2>4
  <2>6. ASSUME NEW e \in Drives \ {d}
        PROVE  Separate(d, e)' /\ Separate(e, d)'
    <3>1. \A j \in 1 .. Len(plan[e]) : EndOf(plan[e][j]) <= f.sn
      BY <1>1, <2>3 DEF OnceInv, InRow
    <3>2. \A j \in 1 .. Len(plan[e]) : Aside(f, plan[e][j]) /\ Aside(plan[e][j], f)
      BY <3>1 DEF Aside
    <3>3. Separate(d, e) /\ Separate(e, d)
      BY DEF AcrossInv
    <3>4. plan'[e] = plan[e]
      BY <2>3
    <3>5. \A i \in 1 .. Len(plan'[d]) : \A j \in 1 .. Len(plan[e]) :
            Aside(plan'[d][i], plan[e][j]) /\ Aside(plan[e][j], plan'[d][i])
      BY <2>4, <2>5, <3>2, <3>3 DEF Separate
    <3>6. QED
      BY <3>4, <3>5 DEF Separate, Aside, EndOf
  <2>7. ASSUME NEW e \in Drives, NEW g \in Drives, e # g
        PROVE  Separate(e, g)'
    <3>1. CASE e = d \/ g = d
      BY <2>6, <2>7, <3>1
    <3>2. CASE e # d /\ g # d
      <4>1. plan'[e] = plan[e] /\ plan'[g] = plan[g] /\ Separate(e, g)
        BY <2>3, <2>7, <3>2 DEF AcrossInv
      <4>2. QED
        BY <4>1 DEF Separate, Aside, EndOf
    <3>3. QED
      BY <3>1, <3>2
  <2>8. ASSUME runs = 1, NEW e \in Drives
        PROVE  OwnFiles(e)'
    <3>1. \A i \in 1 .. cur[e] - 1 : plan'[e][i] = plan[e][i]
      <4>1. \A i \in 1 .. Len(plan[e]) : plan'[e][i] = plan[e][i]
        BY <2>3, <2>4
      <4>2. \A i \in 1 .. cur[e] - 1 : i \in 1 .. Len(plan[e])
        <5>1. /\ cur[e] \in Nat /\ cur[e] <= Len(plan[e]) + 1
              /\ Len(plan[e]) \in Nat
          BY <1>1, PlannedAre DEF TypeOK
        <5>2. QED
          BY <5>1
      <4>3. QED
        BY <4>1, <4>2
    <3>2. OwnFiles(e)
      BY <2>8 DEF AcrossInv
    <3>3. \A k \in Finished(e) :
            \E i \in 1 .. cur[e] - 1 : SameName(k, plan'[e][i])
      <4>1. TAKE k \in Finished(e)
      <4>2. PICK i \in 1 .. cur[e] - 1 : SameName(k, plan[e][i])
        BY <3>2 DEF OwnFiles
      <4>3. SameName(k, plan'[e][i])
        BY <3>1, <4>2 DEF SameName
      <4>4. QED
        BY <4>3
    <3>4. QED
      BY <1>2, <3>3 DEF OwnFiles, SameName
  <2>9. QED
    BY <1>1, <1>2, <2>7, <2>8 DEF AcrossInv
<1>4. CASE Scan \/ NextDrive \/ NextPass
  <2>1. plan' = plan
    BY <1>4 DEF Scan, NextDrive, NextPass
  <2>2. \A d, e \in Drives : Separate(d, e) => Separate(d, e)'
    BY <2>1 DEF Separate, Aside, EndOf
  <2>3. \A d \in Drives : OwnFiles(d) => OwnFiles(d)'
    BY <1>2, <2>1 DEF OwnFiles, SameName
  <2>4. QED
    BY <1>1, <1>2, <2>2, <2>3 DEF AcrossInv
<1>5. QED
  BY <1>3, <1>4 DEF Plan

LEMMA WriterAcross ==
  ASSUME AcrossInv, NEW d \in Drives, WriterStep(d)
  PROVE  AcrossInv'
<1>1. OnceInv /\ OnceInv' /\ TypeOK
  BY WriterOnce DEF AcrossInv, OnceInv, IInv
<1>2. plan' = plan /\ runs' = runs
  BY WriterKeeps
<1>3. \A e, g \in Drives : Separate(e, g) => Separate(e, g)'
  BY <1>2 DEF Separate, Aside, EndOf
<1>4. \A e \in Drives \ {d} : Finished(e)' = Finished(e) /\ cur'[e] = cur[e]
  <2>1. \A e \in Drives \ {d} : files'[e] = files[e]
    BY <1>1, WriterFiles
  <2>2. \A e \in Drives \ {d} : cur'[e] = cur[e]
    BY <1>1, WriterFinished DEF TypeOK
  <2>3. QED
    BY <2>1, <2>2 DEF Finished
<1>5. \A e \in Drives : NamesOnce(e)'
  <2>1. \A e \in Drives \ {d} : NamesOnce(e)'
    BY <1>4 DEF AcrossInv, NamesOnce, SameName
  <2>2. NamesOnce(d)'
    <3>1. CASE Finished(d)' = Finished(d)
      BY <3>1 DEF AcrossInv, NamesOnce, SameName
    <3>2. CASE \E h : Finished(d)' = {g \in Finished(d) : ~SameName(h, g)} \cup {h}
      BY <3>2 DEF AcrossInv, NamesOnce, SameName
    <3>3. QED
      BY <1>1, <3>1, <3>2, WriterFinished
  <2>3. QED
    BY <2>1, <2>2
<1>6. ASSUME runs = 1, NEW e \in Drives
      PROVE  OwnFiles(e)'
  <2>1. OwnFiles(e) /\ OwnFiles(d)
    BY <1>6 DEF AcrossInv
  <2>2. CASE Finished(e)' = Finished(e) /\ cur'[e] = cur[e]
    BY <1>2, <2>1, <2>2 DEF OwnFiles, SameName
  <2>3. CASE /\ e = d
             /\ cur[d] <= Len(plan[d])
             /\ cur' = [cur EXCEPT ![d] = cur[d] + 1]
             /\ \E h : /\ SameName(h, plan[d][cur[d]])
                       /\ Finished(d)' =
                            {g \in Finished(d) : ~SameName(h, g)} \cup {h}
    <3>1. PICK h : /\ SameName(h, plan[d][cur[d]])
                   /\ Finished(d)' =
                        {g \in Finished(d) : ~SameName(h, g)} \cup {h}
      BY <2>3
    <3>2. PICK k \in Nat \ {0} : k = cur[d] /\ cur'[d] - 1 = k
      BY <1>1, <2>3 DEF TypeOK
    <3>3. \A f \in Finished(d) : \E i \in 1 .. k : SameName(f, plan[d][i])
      <4>1. \A i \in 1 .. k - 1 : i \in 1 .. k
        OBVIOUS
      <4>2. QED
        BY <2>1, <3>2, <4>1 DEF OwnFiles
    <3>4. k \in 1 .. k /\ SameName(h, plan[d][k])
      BY <3>1, <3>2
    <3>5. \A f \in Finished(d)' : \E i \in 1 .. k : SameName(f, plan[d][i])
      BY <3>1, <3>3, <3>4
    <3>6. QED
      BY <1>2, <2>3, <3>2, <3>5 DEF OwnFiles, SameName
  <2>4. QED
    BY <1>1, <1>4, <2>2, <2>3, WriterFinished
<1>7. QED
  BY <1>1, <1>2, <1>3, <1>5, <1>6 DEF AcrossInv

LEMMA NextAcross == AcrossInv /\ [Next]_vars => AcrossInv'
<1> SUFFICES ASSUME AcrossInv, [Next]_vars
             PROVE  AcrossInv'
  OBVIOUS
<1>1. OnceInv /\ OnceInv' /\ TypeOK
  BY NextOnce DEF AcrossInv, OnceInv, IInv
<1>2. CASE UNCHANGED vars
  <2>1. /\ plan' = plan /\ runs' = runs /\ cur' = cur
        /\ \A d \in Drives : Finished(d)' = Finished(d)
    BY <1>2 DEF vars, planVars, Finished
  <2>2. \A d, e \in Drives : Separate(d, e) => Separate(d, e)'
    BY <2>1 DEF Separate, Aside, EndOf
  <2>3. \A d \in Drives : /\ OwnFiles(d) => OwnFiles(d)'
                          /\ NamesOnce(d) => NamesOnce(d)'
    BY <2>1 DEF OwnFiles, NamesOnce, SameName
  <2>4. QED
    BY <1>1, <2>1, <2>2, <2>3 DEF AcrossInv
<1>3. CASE Restart
  <2>1. runs' = runs + 1 /\ runs \in Nat \ {0} /\ \A d \in Drives : plan'[d] = <<>>
    BY <1>1, <1>3 DEF Restart, TypeOK
  <2>2. ASSUME NEW d \in Drives, NEW e \in Drives
        PROVE  Separate(d, e)'
    <3>1. (plan[d] = <<>> => Separate(d, e))'
      BY EmptySeparate, PTL
    <3>2. QED
      BY <2>1, <3>1
  <2>3. \A d \in Drives : NamesOnce(d)'
    <3>1. \A d \in Drives : Finished(d)' = Finished(d)
      BY <1>3 DEF Restart, Finished
    <3>2. QED
      BY <3>1 DEF AcrossInv, NamesOnce, SameName
  <2>4. QED
    BY <1>1, <2>1, <2>2, <2>3 DEF AcrossInv
<1>4. QED
  BY <1>2, <1>3, PlanAcross, WriterAcross DEF Next

LEMMA AcrossInvariance == Spec => []AcrossInv
<1>1. QED
  BY InitAcross, NextAcross, PTL DEF Spec

\* Files aside share no nonce.
LEMMA AsideIs ==
  ASSUME NEW f, NEW g, f.sn \in Nat, g.sn \in Nat, EndOf(f) \in Nat, EndOf(g) \in Nat,
         Aside(f, g)
  PROVE  NoncesOf(f) \cap NoncesOf(g) = {}
BY DEF Aside, NoncesOf

(***************************************************************************)
(* PlansAreApart: in every run, whatever drives it is given and whatever   *)
(* earlier runs left on them, no nonce is planned twice, on one drive or   *)
(* on two: all files are cut from one row (src/src/plotter.cpp:154-156).   *)
(***************************************************************************)
THEOREM PlansAreApart ==
  Spec => [](\A d, e \in Drives :
               \A i \in 1 .. Len(plan[d]), j \in 1 .. Len(plan[e]) :
                 NoncesOf(plan[d][i]) \cap NoncesOf(plan[e][j]) # {}
                   => d = e /\ i = j)
<1>1. ASSUME AcrossInv, NEW d \in Drives, NEW e \in Drives,
             NEW i \in 1 .. Len(plan[d]), NEW j \in 1 .. Len(plan[e]),
             ~(d = e /\ i = j)
      PROVE  NoncesOf(plan[d][i]) \cap NoncesOf(plan[e][j]) = {}
  <2>1. OnceInv /\ TypeOK
    BY <1>1 DEF AcrossInv, OnceInv, IInv
  <2>2. Aside(plan[d][i], plan[e][j])
    <3>1. CASE d = e
      <4>1. i < j \/ j < i
        BY <1>1, <3>1
      <4>2. QED
        BY <2>1, <3>1, <4>1 DEF OnceInv, InRow, Aside
    <3>2. CASE d # e
      BY <1>1, <3>2 DEF AcrossInv, Separate
    <3>3. QED
      BY <3>1, <3>2
  <2>3. /\ plan[d][i].sn \in Nat /\ EndOf(plan[d][i]) \in Nat
        /\ plan[e][j].sn \in Nat /\ EndOf(plan[e][j]) \in Nat
    BY <2>1, PlannedAre
  <2>4. QED
    BY <2>2, <2>3, AsideIs
<1>2. AcrossInv =>
        (\A d, e \in Drives :
           \A i \in 1 .. Len(plan[d]), j \in 1 .. Len(plan[e]) :
             NoncesOf(plan[d][i]) \cap NoncesOf(plan[e][j]) # {}
               => d = e /\ i = j)
  BY <1>1
<1>3. QED
  BY <1>2, AcrossInvariance, PTL

(***************************************************************************)
(* FirstRunOnce: on new drives, however many, the first run plots no nonce *)
(* twice, in whatever range its files lie; it takes what an earlier run    *)
(* finished for a nonce to be planned again (src/src/plotter.cpp:137-146   *)
(* and 154-156).                                                           *)
(***************************************************************************)
THEOREM FirstRunOnce == Spec => [](runs = 1 => Once(AllFiles))
<1>1. ASSUME AcrossInv, runs = 1, NEW d \in Drives, NEW e \in Drives,
             NEW f \in Finished(d) \cup Ahead(d), NEW g \in Finished(e) \cup Ahead(e),
             NoncesOf(f) \cap NoncesOf(g) # {}
      PROVE  d = e /\ f = g
  <2>1. OnceInv /\ TypeOK
    BY <1>1 DEF AcrossInv, OnceInv, IInv
  \* Each file has its place in the plan, a finished one behind the writer.
  <2>2. ASSUME NEW x \in Drives, NEW h \in Finished(x) \cup Ahead(x)
        PROVE  \E i \in 1 .. Len(plan[x]) :
                 /\ SameName(h, plan[x][i])
                 /\ \/ i < cur[x] /\ h \in Finished(x)
                    \/ i >= cur[x] /\ h = plan[x][i]
    <3>1. /\ cur[x] \in Nat \ {0} /\ Len(plan[x]) \in Nat
          /\ cur[x] <= Len(plan[x]) + 1
      BY <2>1, PlannedAre DEF TypeOK
    <3>2. CASE h \in Finished(x)
      <4>1. PICK i \in 1 .. cur[x] - 1 : SameName(h, plan[x][i])
        BY <1>1, <3>2 DEF AcrossInv, OwnFiles
      <4>2. i \in 1 .. Len(plan[x]) /\ i < cur[x]
        BY <3>1
      <4>3. QED
        BY <3>2, <4>1, <4>2
    <3>3. CASE h \in Ahead(x)
      <4>1. PICK i \in cur[x] .. Len(plan[x]) : h = plan[x][i]
        BY <3>3 DEF Ahead
      <4>2. i \in 1 .. Len(plan[x]) /\ i >= cur[x]
        BY <3>1
      <4>3. QED
        BY <4>1, <4>2 DEF SameName
    <3>4. QED
      BY <2>2, <3>2, <3>3
  <2>3. PICK i \in 1 .. Len(plan[d]) :
          /\ SameName(f, plan[d][i])
          /\ \/ i < cur[d] /\ f \in Finished(d)
             \/ i >= cur[d] /\ f = plan[d][i]
    BY <2>2
  <2>4. PICK j \in 1 .. Len(plan[e]) :
          /\ SameName(g, plan[e][j])
          /\ \/ j < cur[e] /\ g \in Finished(e)
             \/ j >= cur[e] /\ g = plan[e][j]
    BY <2>2
  <2>5. NoncesOf(f) = NoncesOf(plan[d][i]) /\ NoncesOf(g) = NoncesOf(plan[e][j])
    BY <2>3, <2>4 DEF SameName, NoncesOf, EndOf
  <2>6. d = e /\ i = j
    <3>1. SUFFICES ASSUME ~(d = e /\ i = j)
                   PROVE  FALSE
      OBVIOUS
    <3>2. Aside(plan[d][i], plan[e][j])
      <4>1. CASE d = e
        <5>1. i < j \/ j < i
          BY <3>1, <4>1
        <5>2. QED
          BY <2>1, <4>1, <5>1 DEF OnceInv, InRow, Aside
      <4>2. CASE d # e
        BY <1>1, <4>2 DEF AcrossInv, Separate
      <4>3. QED
        BY <4>1, <4>2
    <3>3. /\ plan[d][i].sn \in Nat /\ EndOf(plan[d][i]) \in Nat
          /\ plan[e][j].sn \in Nat /\ EndOf(plan[e][j]) \in Nat
      BY <2>1, PlannedAre
    <3>4. NoncesOf(plan[d][i]) \cap NoncesOf(plan[e][j]) = {}
      BY <3>2, <3>3, AsideIs
    <3>5. QED
      BY <1>1, <2>5, <3>4
  <2>7. f = g
    <3>1. CASE i < cur[d]
      <4>1. f \in Finished(d) /\ g \in Finished(d) /\ SameName(f, g)
        <5>1. cur[d] \in Nat
          BY <2>1 DEF TypeOK
        <5>2. QED
          BY <2>3, <2>4, <2>6, <3>1, <5>1 DEF SameName
      <4>2. QED
        BY <1>1, <4>1 DEF AcrossInv, NamesOnce
    <3>2. CASE ~(i < cur[d])
      BY <2>3, <2>4, <2>6, <3>2
    <3>3. QED
      BY <3>1, <3>2
  <2>8. QED
    BY <2>6, <2>7
<1>2. ASSUME AcrossInv, runs = 1
      PROVE  Once(AllFiles)
  <2>1. \A f \in AllFiles :
          /\ f[1] \in Drives /\ f[2] \in Finished(f[1]) \cup Ahead(f[1])
          /\ f = <<f[1], f[2]>>
    BY DEF AllFiles
  <2>2. QED
    BY <1>1, <1>2, <2>1 DEF Once
<1>3. AcrossInv => (runs = 1 => Once(AllFiles))
  BY <1>2
<1>4. QED
  BY <1>3, AcrossInvariance, PTL

-----------------------------------------------------------------------------
(* The first file of a plan                                                *)

\* What pass p would plan for a drive with so much space, without a limit on
\* the nonces.
CutAt(free, p) ==
  LET n == RoundDown(Smaller(MaxNoncesPerFile, free), Aligns[p])
  IN IF n < IntMax THEN n ELSE 0

\* A plan for the space starts with a file of n nonces.
IsFirstCut(n, free) ==
  \E p \in 1 .. Len(Aligns) :
    /\ n = CutAt(free, p)
    /\ n > 0
    /\ \A q \in 1 .. p - 1 : CutAt(free, q) = 0

LEMMA RoundDownSmall ==
  ASSUME NEW a \in Nat \ {0}, NEW n \in 0 .. a - 1
  PROVE  RoundDown(n, a) = 0
<1>1. n % a = n
  BY SMT
<1>2. QED
  BY <1>1 DEF RoundDown

\* The finer pass leaves no more of a number than the coarser one.
LEMMA RoundDownFiner ==
  ASSUME NEW a \in Nat \ {0}, NEW b \in Nat \ {0}, a % b = 0, NEW n \in Nat
  PROVE  RoundDown(n, a) <= RoundDown(n, b)
<1>1. PICK k \in Nat : a = b * k
  <2>1. a = b * (a \div b) + (a % b) /\ a \div b \in Nat
    BY SMT
  <2>2. QED
    BY <2>1
<1>2. PICK x \in Nat : RoundDown(n, a) = a * x /\ a * x <= n
  <2>1. n = a * (n \div a) + (n % a) /\ n \div a \in Nat
    BY SMT
  <2>2. a * (n \div a) \in Nat /\ n % a \in Nat
    BY SMT
  <2>3. QED
    BY <2>1, <2>2 DEF RoundDown
<1>3. PICK y \in Nat : RoundDown(n, b) = b * y /\ n < b * y + b
  <2>1. n = b * (n \div b) + (n % b) /\ n \div b \in Nat
    BY SMT
  <2>2. b * (n \div b) \in Nat /\ n % b \in 0 .. b - 1
    BY SMT
  <2>3. PICK y \in Nat : y = n \div b
    BY <2>1
  <2>4. RoundDown(n, b) = b * y
    BY <2>1, <2>2, <2>3 DEF RoundDown
  <2>5. n < b * y + b
    BY <2>1, <2>2, <2>3
  <2>6. QED
    BY <2>4, <2>5
<1>4. PICK z \in Nat : z = k * x /\ a * x = b * z
  BY <1>1, SMT
<1>5. z <= y
  <2>1. CASE z >= y + 1
    <3>1. b * z >= b * (y + 1)
      BY <2>1, SMT
    <3>2. b * (y + 1) = b * y + b
      BY SMT
    <3>3. b * y \in Nat /\ b * z \in Nat
      BY SMT
    <3>4. QED
      BY <1>2, <1>3, <1>4, <3>1, <3>2, <3>3
  <2>2. QED
    BY <2>1
<1>6. b * z <= b * y
  BY <1>5, SMT
<1>7. QED
  BY <1>2, <1>3, <1>4, <1>6

LEMMA LeastIs ==
  ASSUME NEW free \in Nat
  PROVE  /\ Smaller(MaxNoncesPerFile, free) \in 0 .. free
         /\ \A less \in 0 .. free :
              Smaller(MaxNoncesPerFile, less) <= Smaller(MaxNoncesPerFile, free)
<1>1. MaxNoncesPerFile \in Nat
  BY SizesAssumption
<1>2. QED
  BY <1>1 DEF Smaller

LEMMA CutIs ==
  ASSUME NEW free \in Nat, NEW p \in 1 .. Len(Aligns)
  PROVE  CutAt(free, p) \in 0 .. free
<1>1. PICK m \in 0 .. free : m = Smaller(MaxNoncesPerFile, free)
  BY LeastIs
<1>2. RoundDown(m, Aligns[p]) \in 0 .. m
  <2>1. m \in Nat /\ Aligns[p] \in Nat \ {0}
    BY AlignsAre
  <2>2. QED
    BY <2>1, RoundDownIs
<1>3. QED
  BY <1>1, <1>2 DEF CutAt

LEMMA FirstCutIs ==
  ASSUME NEW free \in Nat, NEW n, IsFirstCut(n, free)
  PROVE  n \in 1 .. free
BY CutIs DEF IsFirstCut

LEMMA FirstCutIsOne ==
  ASSUME NEW free \in Nat, NEW m, NEW n, IsFirstCut(m, free), IsFirstCut(n, free)
  PROVE  m = n
<1>1. PICK p \in 1 .. Len(Aligns) :
        m = CutAt(free, p) /\ m > 0 /\ \A r \in 1 .. p - 1 : CutAt(free, r) = 0
  BY DEF IsFirstCut
<1>2. PICK q \in 1 .. Len(Aligns) :
        n = CutAt(free, q) /\ n > 0 /\ \A r \in 1 .. q - 1 : CutAt(free, r) = 0
  BY DEF IsFirstCut
<1>3. Len(Aligns) \in Nat
  BY AlignsAre
<1>4. p = q
  <2>1. CASE p < q
    <3>1. p \in 1 .. q - 1
      BY <1>3, <2>1
    <3>2. QED
      BY <1>1, <1>2, <3>1
  <2>2. CASE q < p
    <3>1. q \in 1 .. p - 1
      BY <1>3, <2>2
    <3>2. QED
      BY <1>1, <1>2, <3>1
  <2>3. QED
    BY <1>3, <2>1, <2>2
<1>5. QED
  BY <1>1, <1>2, <1>4

\* A pass that found no file finds none in less space, once a finer pass finds
\* one: it was not that the file did not fit an int.
LEMMA StillNothing ==
  ASSUME NEW free \in Nat, NEW less \in 0 .. free,
         NEW p \in 1 .. Len(Aligns), NEW q \in 1 .. p - 1,
         CutAt(free, p) > 0, CutAt(free, q) = 0
  PROVE  CutAt(less, q) = 0
<1>1. /\ q \in 1 .. Len(Aligns) /\ q < p
      /\ Aligns[p] \in Nat \ {0} /\ Aligns[q] \in Nat \ {0}
      /\ Aligns[q] % Aligns[p] = 0
      /\ IntMax \in Nat \ {0}
  <2>1. q \in 1 .. Len(Aligns) /\ q < p
    BY AlignsAre
  <2>2. QED
    BY <2>1, AlignsAre, AlignsAssumption, SizesAssumption
<1>2. PICK m \in 0 .. free : m = Smaller(MaxNoncesPerFile, free)
  BY LeastIs
<1>3. PICK k \in 0 .. less : k = Smaller(MaxNoncesPerFile, less) /\ k <= m
  BY <1>2, LeastIs
<1>4. /\ RoundDown(m, Aligns[q]) \in 0 .. m
      /\ m - RoundDown(m, Aligns[q]) < Aligns[q]
      /\ RoundDown(m, Aligns[p]) \in 0 .. m
      /\ RoundDown(m, Aligns[q]) <= RoundDown(m, Aligns[p])
  <2>1. m \in Nat
    OBVIOUS
  <2>2. QED
    BY <1>1, <2>1, RoundDownIs, RoundDownFiner
<1>5. RoundDown(m, Aligns[p]) < IntMax
  BY <1>2, <1>4 DEF CutAt
<1>6. RoundDown(m, Aligns[q]) = 0
  BY <1>1, <1>2, <1>4, <1>5 DEF CutAt
<1>7. k \in 0 .. Aligns[q] - 1
  BY <1>1, <1>2, <1>3, <1>4, <1>6
<1>8. RoundDown(k, Aligns[q]) = 0
  BY <1>1, <1>7, RoundDownSmall
<1>9. QED
  BY <1>1, <1>3, <1>8 DEF CutAt

LEMMA CutIsNext ==
  ASSUME TypeOK, NEW d \in Drives, free_spaces[d] <= nonces_to_gen
  PROVE  NextNonces(d) = CutAt(free_spaces[d], pass)
<1>1. /\ free_spaces[d] \in Nat /\ nonces_to_gen \in Nat
      /\ MaxNoncesPerFile \in Nat
  BY NumNoncesType, SizesAssumption DEF TypeOK
<1>2. Smaller(nonces_to_gen, Smaller(MaxNoncesPerFile, Larger(0, free_spaces[d])))
        = Smaller(MaxNoncesPerFile, free_spaces[d])
  BY <1>1 DEF Smaller, Larger
<1>3. QED
  BY <1>2 DEF NextNonces, CutAt

-----------------------------------------------------------------------------
(* A lone drive: what a run leaves is what the next one plans first, while *)
(* all that it finished counts                                             *)

SizeOfOne(S) == (CHOOSE f \in S : TRUE).size

\* The space that a plan has, with the file that it reclaims.
Avail(d) ==
  IF Unfinished(d) = {} THEN room[d] ELSE room[d] + SizeOfOne(Unfinished(d))

\* The nonce that a plan starts with.
Low(d) == Larger(StartNonce, LastNonce(d))

\* Where the nonces of the drive end.  No step of a lone drive changes it.
Top(d) == Low(d) + Avail(d)

\* The one unfinished file is the one that a plan would start with.
LeftInv(d) ==
  /\ \A f, g \in Unfinished(d) : f = g
  /\ \A f \in Unfinished(d) : f.sn = Low(d) /\ IsFirstCut(f.nonces, Avail(d))
  /\ Avail(d) <= NumNonces
  /\ Top(d) - StartNonce \in use.spaces

\* What is known of the space: the nonces it is for follow those planned, and
\* the passes that are over would plan no more.
CutInv(d) ==
  /\ d \notin scanned =>
       /\ pc = "plan" /\ pass = 1 /\ pos = 1
       /\ sn_to_gen = StartNonce /\ nonces_to_gen = NumNonces
  /\ pc = "plan" => cur[d] = 1
  /\ d \in scanned =>
       /\ free_spaces[d] + sn_to_gen = Top(d)
       /\ plan[d] # <<>> => sn_to_gen = EndOf(plan[d][Len(plan[d])])
  /\ d \in scanned /\ pc = "plan" =>
       /\ free_spaces[d] <= nonces_to_gen
       /\ \A q \in 1 .. pass - 1 : CutAt(free_spaces[d], q) = 0
       /\ pos > 1 => CutAt(free_spaces[d], pass) = 0
       /\ plan[d] = <<>> => sn_to_gen = Low(d) /\ nonces_to_gen = NumNonces
  /\ pc = "plot" =>
       d \in scanned /\ plan[d] # <<>> /\ CutAt(free_spaces[d], Len(Aligns)) = 0

\* Each planned file is the one that a plan for the space from it on would
\* start with, and they follow one another from the end of what is finished.
ChainInv(d) ==
  /\ \A k \in 1 .. Len(plan[d]) :
       IsFirstCut(plan[d][k].nonces, Top(d) - plan[d][k].sn)
  /\ \A k \in 1 .. Len(plan[d]) - 1 : plan[d][k + 1].sn = EndOf(plan[d][k])
  /\ cur[d] <= Len(plan[d]) => plan[d][cur[d]].sn = Low(d)
  /\ pc = "plot" /\ cur[d] > Len(plan[d]) =>
       Unfinished(d) = {} /\ Low(d) = EndOf(plan[d][Len(plan[d])])

ResumeInv(d) == LeftInv(d) /\ CutInv(d) /\ ChainInv(d)

LoneInv ==
  /\ OnceInv
  /\ \A d \in Drives : Lone(d) /\ Unlimited /\ AllCounted => ResumeInv(d)

LEMMA AvailIs ==
  ASSUME TypeOK, NEW d \in Drives, \A f, g \in Unfinished(d) : f = g
  PROVE  /\ \A f \in Unfinished(d) : f.size \in Nat /\ Avail(d) = room[d] + f.size
         /\ Unfinished(d) = {} => Avail(d) = room[d]
         /\ Avail(d) \in Nat
<1>1. \A f \in Unfinished(d) : f.size \in Nat
  BY DEF TypeOK, Unfinished, PlotFiles
<1>2. room[d] \in Nat
  BY DEF TypeOK
<1>3. ASSUME NEW f \in Unfinished(d)
      PROVE  Avail(d) = room[d] + f.size
  <2>1. (CHOOSE g \in Unfinished(d) : TRUE) = f
    BY <1>3
  <2>2. QED
    BY <1>3, <2>1 DEF Avail, SizeOfOne
<1>4. Unfinished(d) = {} => Avail(d) = room[d]
  BY DEF Avail
<1>5. QED
  BY <1>1, <1>2, <1>3, <1>4

LEMMA LowIs ==
  ASSUME IInv, NEW d \in Drives
  PROVE  /\ Low(d) \in Nat /\ Low(d) >= StartNonce
         /\ \A f \in Counted(d) : EndOf(f) <= Low(d)
<1>1. /\ LastNonce(d) \in Nat /\ \A f \in Counted(d) : EndOf(f) <= LastNonce(d)
      /\ StartNonce \in Nat
  BY LastNonceIs, SizesAssumption DEF IInv
<1>2. Low(d) \in Nat /\ Low(d) >= StartNonce /\ Low(d) >= LastNonce(d)
  BY <1>1 DEF Low, Larger
<1>3. QED
  BY <1>1, <1>2, CountedAre DEF IInv

LEMMA LoneDriver ==
  ASSUME TypeOK, NEW d \in Drives, Lone(d)
  PROVE  Len(Drivers) = 1 /\ Drivers[1] = d
<1>1. Drivers = <<d>>
  BY DEF Lone, Drivers, TypeOK
<1>2. QED
  BY <1>1

\* What depends only on the files and the room.
LEMMA SameFiles ==
  ASSUME UNCHANGED <<use, room, files>>
  PROVE  /\ \A d : /\ Unfinished(d)' = Unfinished(d) /\ Finished(d)' = Finished(d)
                   /\ Counted(d)' = Counted(d)
                   /\ Avail(d)' = Avail(d) /\ Low(d)' = Low(d)
                   /\ Top(d)' = Top(d) /\ LeftInv(d)' = LeftInv(d)
                   /\ Lone(d)' = Lone(d)
         /\ Unlimited' = Unlimited /\ AllCounted' = AllCounted
         /\ NumNonces' = NumNonces
<1>1. NumNonces' = NumNonces /\ MaxRuns' = MaxRuns
  BY DEF NumNonces, MaxRuns
<1>2. \A d : /\ Unfinished(d)' = Unfinished(d) /\ Finished(d)' = Finished(d)
            /\ Counted(d)' = Counted(d)
  <2>1. \A d : Unfinished(d)' = Unfinished(d) /\ Finished(d)' = Finished(d)
    BY DEF Unfinished, Finished
  <2>2. QED
    BY <2>1, CountedStays
<1>3. \A d : Avail(d)' = Avail(d) /\ LastNonce(d)' = LastNonce(d)
  <2>1. \A d : Avail(d)' = Avail(d)
    BY <1>2 DEF Avail
  <2>2. \A d : LastNonce(d)' = LastNonce(d)
    BY <1>2 DEF LastNonce
  <2>3. QED
    BY <2>1, <2>2
<1>4. \A d : Low(d)' = Low(d)
  BY <1>3 DEF Low
<1>5. \A d : Top(d)' = Top(d)
  BY <1>3, <1>4 DEF Top
<1>6. \A d : LeftInv(d)' = LeftInv(d)
  BY <1>1, <1>2, <1>3, <1>4, <1>5 DEF LeftInv
<1>7. \A d : Lone(d)' = Lone(d)
  BY <1>1 DEF Lone
<1>8. Unlimited' = Unlimited
  BY <1>1 DEF Unlimited
<1>9. AllCounted' = AllCounted
  BY <1>2 DEF AllCounted
<1>10. QED
  BY <1>1, <1>2, <1>3, <1>4, <1>5, <1>6, <1>7, <1>8, <1>9

\* A finished file that does not count stays: another of its name that takes
\* its place does not count either.
LEMMA CountedBefore ==
  ASSUME TypeOK, [Next]_vars, AllCounted'
  PROVE  AllCounted
<1>1. CASE files' = files
  <2>1. \A d \in Drives : Finished(d)' = Finished(d)
    BY <1>1 DEF Finished
  <2>2. QED
    BY <2>1, CountedStays DEF AllCounted
<1>2. ASSUME NEW d \in Drives, WriterStep(d), NEW e \in Drives, NEW f \in Finished(e)
      PROVE  InRange(f)
  <2>1. \A g \in Finished(e)' : InRange(g)
    BY RangeStays DEF AllCounted, Counted
  <2>2. CASE e # d
    BY <1>2, <2>1, <2>2, WriterFiles DEF Finished
  <2>3. CASE e = d
    BY <1>2, <2>1, <2>3, WriterFinished, RangeStays
  <2>4. QED
    BY <2>2, <2>3
<1>3. ASSUME NEW d \in Drives, WriterStep(d)
      PROVE  AllCounted
  BY <1>2, <1>3 DEF AllCounted, Counted
<1>4. CASE Plan \/ Restart \/ UNCHANGED vars
  <2>1. files' = files
    BY <1>4 DEF Plan, Scan, PlanFile, NextDrive, NextPass, Restart, vars
  <2>2. QED
    BY <1>1, <2>1
<1>5. QED
  BY <1>3, <1>4 DEF Next

\* A plan that is still empty.
LEMMA EmptyChain ==
  ASSUME NEW d \in Drives, plan[d] = <<>>, cur[d] = 1, pc # "plot"
  PROVE  ChainInv(d)
<1>1. Len(plan[d]) = 0
  BY EmptySeq
<1>2. 1 .. Len(plan[d]) = {} /\ 1 .. Len(plan[d]) - 1 = {} /\ ~(cur[d] <= Len(plan[d]))
  BY <1>1
<1>3. QED
  BY <1>2 DEF ChainInv

LEMMA InitLone == Init => LoneInv
<1> SUFFICES ASSUME Init
             PROVE  LoneInv
  OBVIOUS
<1>1. OnceInv /\ TypeOK
  BY InitOnce DEF OnceInv, IInv
<1>2. ASSUME NEW d \in Drives, Lone(d), Unlimited
      PROVE  ResumeInv(d)
  <2>1. Unfinished(d) = {}
    BY DEF Init, Unfinished
  <2>2. Avail(d) = room[d]
    BY <2>1 DEF Avail
  <2>3. room[d] \in use.spaces
    <3>1. PICK space \in [Given(use) -> use.spaces] :
            room = [e \in Drives |-> IF e \in Given(use) THEN space[e] ELSE 0]
      BY DEF Init
    <3>2. d \in Given(use)
      <4>1. 1 \in 1 .. Len(Drivers)
        BY <1>1, <1>2, LoneDriver
      <4>2. QED
        BY <1>1, <1>2, <4>1, DriversAre, LoneDriver
    <3>3. QED
      BY <3>1, <3>2
  <2>4. LeftInv(d)
    <3>1. Ends(d) = {0} /\ LastNonce(d) = Max(Ends(d))
      BY DEF Init, Ends, LastNonce, Counted, Finished
    <3>2. LastNonce(d) = 0
      BY <3>1 DEF Max
    <3>3. Top(d) = StartNonce + room[d] /\ room[d] \in Nat /\ StartNonce \in Nat
      BY <1>1, <2>2, <3>2, SizesAssumption DEF Top, Low, Larger, TypeOK
    <3>4. Top(d) - StartNonce \in use.spaces
      BY <2>3, <3>3
    <3>5. QED
      BY <1>2, <2>1, <2>2, <2>3, <3>4 DEF LeftInv, Unlimited
  <2>5. CutInv(d)
    BY DEF Init, CutInv
  <2>6. ChainInv(d)
    BY EmptyChain DEF Init
  <2>7. QED
    BY <2>4, <2>5, <2>6 DEF ResumeInv
<1>3. QED
  BY <1>1, <1>2 DEF LoneInv

LEMMA PlanResume ==
  ASSUME LoneInv, Plan, NEW d \in Drives, Lone(d), ResumeInv(d)
  PROVE  ResumeInv(d)'
<1>1. TypeOK /\ IInv /\ OnceInv /\ InRow(d)
  BY DEF LoneInv, OnceInv, IInv
<1>2. UNCHANGED <<use, room, files>> /\ cur' = cur
  BY DEF Plan, Scan, PlanFile, NextDrive, NextPass
<1>3. /\ LeftInv(d)' /\ Top(d)' = Top(d) /\ Low(d)' = Low(d)
      /\ Unfinished(d)' = Unfinished(d) /\ NumNonces' = NumNonces
      /\ Top(d) = Low(d) + Avail(d)
      /\ LeftInv(d) /\ CutInv(d) /\ ChainInv(d)
  BY <1>2, SameFiles DEF ResumeInv, Top
<1>4. pc = "plan" /\ cur[d] = 1 /\ pos \in 1 .. 2 /\ pass \in 1 .. Len(Aligns)
  <2>1. pc = "plan"
    BY DEF Plan, Scan, PlanFile, NextDrive, NextPass, Planning
  <2>2. pos \in 1 .. 2
    <3>1. Len(Drivers) = 1
      BY <1>1, LoneDriver
    <3>2. QED
      BY <1>1, <3>1 DEF TypeOK
  <2>3. QED
    BY <1>1, <1>3, <2>1, <2>2 DEF CutInv, TypeOK
<1>5. /\ Planning => pos = 1 /\ Drivers[pos] = d
      /\ Len(Drivers) = 1
  <2>1. Len(Drivers) = 1 /\ Drivers[1] = d
    BY <1>1, LoneDriver
  <2>2. Planning => pos = 1
    BY <1>4, <2>1 DEF Planning
  <2>3. QED
    BY <2>1, <2>2
<1>6. /\ Avail(d) \in Nat /\ Low(d) \in Nat /\ sn_to_gen \in Nat
      /\ free_spaces[d] \in Nat /\ nonces_to_gen \in Nat /\ NumNonces \in Nat
      /\ room[d] \in Nat
  <2>1. Avail(d) \in Nat
    BY <1>1, <1>3, AvailIs DEF LeftInv
  <2>2. Low(d) \in Nat /\ NumNonces \in Nat
    BY <1>1, LowIs, NumNoncesType
  <2>3. /\ sn_to_gen \in Nat /\ free_spaces[d] \in Nat /\ room[d] \in Nat
        /\ nonces_to_gen \in Nat
    BY <1>1, <2>2 DEF TypeOK
  <2>4. QED
    BY <2>1, <2>2, <2>3
<1>7. CASE Scan
  <2>1. /\ pos = 1 /\ d \notin scanned
        /\ scanned' = scanned \cup {d}
        /\ sn_to_gen' = Larger(sn_to_gen, LastNonce(d))
        /\ UNCHANGED <<pc, pass, pos, nonces_to_gen, plan>>
    BY <1>5, <1>7 DEF Scan
  <2>2. PICK s \in Reclaimable(d) :
          free_spaces' = [free_spaces EXCEPT ![d] = room[d] + s]
    BY <1>5, <1>7 DEF Scan
  <2>3. room[d] + s = Avail(d)
    <3>1. CASE Unfinished(d) = {}
      BY <1>1, <1>3, <1>6, <2>2, <3>1, AvailIs DEF Reclaimable, LeftInv
    <3>2. CASE Unfinished(d) # {}
      BY <1>1, <1>3, <2>2, <3>2, AvailIs DEF Reclaimable, LeftInv
    <3>3. QED
      BY <3>1, <3>2
  <2>4. free_spaces'[d] = Avail(d)
    BY <1>1, <2>2, <2>3 DEF TypeOK
  <2>5. /\ pass = 1 /\ plan[d] = <<>>
        /\ sn_to_gen = StartNonce /\ nonces_to_gen = NumNonces
    BY <1>1, <1>3, <2>1 DEF CutInv, InRow
  <2>6. sn_to_gen' = Low(d)
    BY <2>1, <2>5 DEF Low
  <2>7. CutInv(d)'
    <3>1. d \in scanned' /\ pass' = 1 /\ pos' = 1 /\ plan'[d] = <<>>
      BY <2>1, <2>5
    <3>2. 1 .. pass' - 1 = {}
      BY <3>1
    <3>3. free_spaces'[d] + sn_to_gen' = Top(d)'
      BY <1>3, <1>6, <2>4, <2>6
    <3>4. free_spaces'[d] <= nonces_to_gen'
      BY <1>3, <2>1, <2>4, <2>5 DEF LeftInv
    <3>5. QED
      BY <1>2, <1>3, <1>4, <2>1, <2>5, <2>6, <3>1, <3>2, <3>3, <3>4 DEF CutInv
  <2>8. ChainInv(d)'
    <3>1. (plan[d] = <<>> /\ cur[d] = 1 /\ pc # "plot" => ChainInv(d))'
      BY EmptyChain, PTL
    <3>2. QED
      BY <1>2, <1>4, <2>1, <2>5, <3>1
  <2>9. QED
    BY <1>3, <2>7, <2>8 DEF ResumeInv
<1>8. CASE PlanFile
  <2>1. PICK n : n = NextNonces(d)
    OBVIOUS
  <2>2. PICK f : f = [sn |-> sn_to_gen, nonces |-> n]
    OBVIOUS
  <2>3. /\ pos = 1 /\ d \in scanned /\ n > 0
        /\ plan' = [plan EXCEPT ![d] = Append(plan[d], f)]
        /\ sn_to_gen' = sn_to_gen + n
        /\ nonces_to_gen' = nonces_to_gen - n
        /\ free_spaces' = [free_spaces EXCEPT ![d] = free_spaces[d] - n]
        /\ UNCHANGED <<pc, pass, pos, scanned>>
    BY <1>5, <1>8, <2>1, <2>2 DEF PlanFile
  <2>4. /\ free_spaces[d] + sn_to_gen = Top(d)
        /\ free_spaces[d] <= nonces_to_gen
        /\ \A q \in 1 .. pass - 1 : CutAt(free_spaces[d], q) = 0
        /\ plan[d] = <<>> => sn_to_gen = Low(d)
        /\ plan[d] # <<>> => sn_to_gen = EndOf(plan[d][Len(plan[d])])
    BY <1>3, <1>4, <2>3 DEF CutInv
  <2>5. n = CutAt(free_spaces[d], pass) /\ n \in 1 .. free_spaces[d]
    <3>1. n = CutAt(free_spaces[d], pass)
      BY <1>1, <2>1, <2>4, CutIsNext
    <3>2. n \in 0 .. free_spaces[d]
      BY <1>4, <1>6, <3>1, CutIs
    <3>3. QED
      BY <2>3, <3>1, <3>2
  <2>6. IsFirstCut(n, free_spaces[d])
    BY <1>4, <2>3, <2>4, <2>5 DEF IsFirstCut
  <2>7. f.sn = sn_to_gen /\ f.nonces = n /\ EndOf(f) = sn_to_gen'
    BY <2>2, <2>3 DEF EndOf
  <2>8. /\ Len(plan[d]) \in Nat
        /\ Len(plan'[d]) = Len(plan[d]) + 1
        /\ \A i \in 1 .. Len(plan[d]) : plan'[d][i] = plan[d][i]
        /\ plan'[d][Len(plan[d]) + 1] = f
        /\ plan[d] = <<>> <=> Len(plan[d]) = 0
        /\ plan'[d] # <<>>
    <3>1. f \in PlanFiles
      BY <1>6, <2>2, <2>5 DEF PlanFiles
    <3>2. plan'[d] = Append(plan[d], f) /\ plan[d] \in Seq(PlanFiles)
      BY <1>1, <2>3 DEF TypeOK
    <3>3. /\ Len(plan[d]) \in Nat
          /\ Len(plan'[d]) = Len(plan[d]) + 1
          /\ \A i \in 1 .. Len(plan[d]) : plan'[d][i] = plan[d][i]
          /\ plan'[d][Len(plan[d]) + 1] = f
      BY <3>1, <3>2, AppendProperties, LenProperties
    <3>4. plan[d] = <<>> <=> Len(plan[d]) = 0
      BY <3>2, EmptySeq
    <3>5. plan'[d] # <<>>
      BY <3>3, EmptySeq
    <3>6. QED
      BY <3>3, <3>4, <3>5
  <2>9. free_spaces'[d] = free_spaces[d] - n
    BY <1>1, <2>3 DEF TypeOK
  <2>10. CutInv(d)'
    <3>1. free_spaces'[d] + sn_to_gen' = Top(d)'
      BY SMTT(30), <1>3, <1>6, <2>3, <2>4, <2>5, <2>9
    <3>2. free_spaces'[d] <= nonces_to_gen'
      BY <1>6, <2>3, <2>4, <2>5, <2>9
    <3>3. \A q \in 1 .. pass' - 1 : CutAt(free_spaces'[d], q) = 0
      <4>1. free_spaces'[d] \in 0 .. free_spaces[d]
        BY <1>6, <2>5, <2>9
      <4>2. CutAt(free_spaces[d], pass) > 0
        BY <2>3, <2>5
      <4>3. QED
        BY <1>4, <1>6, <2>3, <2>4, <4>1, <4>2, StillNothing
    <3>4. sn_to_gen' = EndOf(plan'[d][Len(plan'[d])])
      BY <2>7, <2>8
    <3>5. QED
      BY <1>2, <1>4, <2>3, <2>8, <3>1, <3>2, <3>3, <3>4 DEF CutInv
  <2>11. ChainInv(d)'
    <3>1. \A k \in 1 .. Len(plan'[d]) :
            k \in 1 .. Len(plan[d]) \/ k = Len(plan[d]) + 1
      BY <2>8
    <3>2. ASSUME NEW k \in 1 .. Len(plan'[d])
          PROVE  IsFirstCut(plan'[d][k].nonces, Top(d) - plan'[d][k].sn)
      <4>1. CASE k \in 1 .. Len(plan[d])
        BY <1>3, <2>8, <4>1 DEF ChainInv
      <4>2. CASE k = Len(plan[d]) + 1
        <5>1. Top(d) - f.sn = free_spaces[d]
          BY <1>6, <2>4, <2>7
        <5>2. QED
          BY <2>6, <2>7, <2>8, <4>2, <5>1
      <4>3. QED
        BY <3>1, <4>1, <4>2
    <3>3. ASSUME NEW k \in 1 .. Len(plan'[d]) - 1
          PROVE  plan'[d][k + 1].sn = EndOf(plan'[d][k])
      <4>1. k \in 1 .. Len(plan[d]) /\ plan'[d][k] = plan[d][k]
        BY <2>8
      <4>2. CASE k = Len(plan[d])
        BY <2>4, <2>7, <2>8, <4>1, <4>2
      <4>3. CASE k \in 1 .. Len(plan[d]) - 1
        <5>1. k + 1 \in 1 .. Len(plan[d])
          BY <2>8, <4>3
        <5>2. QED
          BY <1>3, <2>8, <4>1, <4>3, <5>1 DEF ChainInv
      <4>4. QED
        BY <2>8, <4>1, <4>2, <4>3
    <3>4. plan'[d][1].sn = Low(d)
      <4>1. CASE plan[d] = <<>>
        BY <2>4, <2>7, <2>8, <4>1
      <4>2. CASE plan[d] # <<>>
        <5>1. cur[d] = 1 /\ 1 <= Len(plan[d])
          BY <1>4, <2>3, <2>8, <4>2
        <5>2. plan[d][1].sn = Low(d)
          BY <1>3, <5>1 DEF ChainInv
        <5>3. plan'[d][1] = plan[d][1]
          BY <2>8, <5>1
        <5>4. QED
          BY <5>2, <5>3
      <4>3. QED
        BY <4>1, <4>2
    <3>5. pc' = "plan" /\ cur'[d] = 1
      BY <1>2, <1>4, <2>3
    <3>6. QED
      BY <1>3, <3>2, <3>3, <3>4, <3>5 DEF ChainInv
  <2>12. QED
    BY <1>3, <2>10, <2>11 DEF ResumeInv
<1>9. CASE NextDrive
  <2>1. /\ pos = 1 /\ pos' = pos + 1 /\ d \in scanned /\ NextNonces(d) = 0
        /\ UNCHANGED <<pc, pass, scanned, free_spaces, sn_to_gen,
                       nonces_to_gen, plan>>
    BY <1>5, <1>9 DEF NextDrive
  <2>2. CutAt(free_spaces[d], pass) = 0
    BY <1>1, <1>3, <1>4, <2>1, CutIsNext DEF CutInv
  <2>3. CutInv(d)'
    BY <1>2, <1>3, <1>4, <2>1, <2>2 DEF CutInv
  <2>4. ChainInv(d)'
    BY <1>2, <1>3, <2>1 DEF ChainInv
  <2>5. QED
    BY <1>3, <2>3, <2>4 DEF ResumeInv
<1>10. CASE NextPass
  <2>1. /\ pos > 1 /\ d \in scanned
        /\ UNCHANGED <<scanned, free_spaces, sn_to_gen, nonces_to_gen, plan>>
    BY <1>3, <1>5, <1>10 DEF NextPass, CutInv
  <2>2. CASE pass < Len(Aligns)
    <3>1. pass' = pass + 1 /\ pos' = 1 /\ pc' = pc
      BY <1>10, <2>2 DEF NextPass
    <3>2. \A q \in 1 .. pass' - 1 : q \in 1 .. pass - 1 \/ q = pass
      BY <1>4, <3>1, AlignsAre
    <3>3. \A q \in 1 .. pass' - 1 : CutAt(free_spaces[d], q) = 0
      BY <1>3, <1>4, <2>1, <3>2 DEF CutInv
    <3>4. CutInv(d)'
      BY <1>2, <1>3, <1>4, <2>1, <3>1, <3>3 DEF CutInv
    <3>5. ChainInv(d)'
      BY <1>2, <1>3, <2>1, <3>1 DEF ChainInv
    <3>6. QED
      BY <1>3, <3>4, <3>5 DEF ResumeInv
  <2>3. CASE ~(pass < Len(Aligns))
    <3>1. pc' = IF nonces_to_gen = NumNonces THEN "exited" ELSE "plot"
      BY <1>10, <2>3 DEF NextPass
    <3>2. pass = Len(Aligns)
      BY <1>4, <2>3, AlignsAre
    <3>3. plan[d] = <<>> => nonces_to_gen = NumNonces
      BY <1>3, <1>4, <2>1 DEF CutInv
    <3>4. CutInv(d)'
      <4>1. /\ free_spaces[d] + sn_to_gen = Top(d)'
            /\ plan[d] # <<>> => sn_to_gen = EndOf(plan[d][Len(plan[d])])
            /\ CutAt(free_spaces[d], Len(Aligns)) = 0
        BY <1>3, <1>4, <2>1, <3>2 DEF CutInv
      <4>2. QED
        BY <2>1, <3>1, <3>3, <4>1 DEF CutInv
    <3>5. pc' = "plot" => ~(cur[d] > Len(plan[d]))
      <4>1. plan[d] # <<>> => Len(plan[d]) >= 1
        BY <1>1, PlannedAre, EmptySeq
      <4>2. QED
        BY <1>4, <3>1, <3>3, <4>1
    <3>6. ChainInv(d)'
      BY <1>2, <1>3, <2>1, <3>5 DEF ChainInv
    <3>7. QED
      BY <1>3, <3>4, <3>6 DEF ResumeInv
  <2>4. QED
    BY <2>2, <2>3
<1>11. QED
  BY <1>7, <1>8, <1>9, <1>10 DEF Plan

\* What a lone drive's writer finds: the file it is at is the one that was
\* left, if there is one.
LEMMA CurrentIsNext ==
  ASSUME LoneInv, NEW d \in Drives, ResumeInv(d), cur[d] <= Len(plan[d])
  PROVE  /\ plan[d][cur[d]].sn = Low(d)
         /\ IsFirstCut(plan[d][cur[d]].nonces, Avail(d))
         /\ Avail(d) \in Nat /\ Low(d) \in Nat
         /\ \A f \in Unfinished(d) : SameName(f, plan[d][cur[d]])
         /\ Opened(d) = Unfinished(d)
<1>1. TypeOK /\ IInv /\ LeftInv(d) /\ ChainInv(d)
  BY DEF LoneInv, OnceInv, IInv, ResumeInv
<1>2. Avail(d) \in Nat /\ Low(d) \in Nat
  BY <1>1, AvailIs, LowIs DEF LeftInv
<1>3. cur[d] \in 1 .. Len(plan[d])
  BY <1>1, CurrentIs
<1>4. plan[d][cur[d]].sn = Low(d)
  BY <1>1 DEF ChainInv
<1>5. Top(d) - plan[d][cur[d]].sn = Avail(d)
  BY <1>2, <1>4 DEF Top
<1>6. IsFirstCut(plan[d][cur[d]].nonces, Avail(d))
  BY <1>1, <1>3, <1>5 DEF ChainInv
<1>7. \A f \in Unfinished(d) : SameName(f, plan[d][cur[d]])
  BY <1>1, <1>2, <1>4, <1>6, FirstCutIsOne DEF LeftInv, SameName
<1>8. QED
  BY <1>2, <1>4, <1>6, <1>7 DEF Opened

\* A step that leaves one unfinished file, of the same name, and the space.
LEMMA OneLeft ==
  ASSUME LoneInv, NEW d \in Drives, ResumeInv(d), WriterStep(d),
         cur' = cur, Finished(d)' = Finished(d),
         NEW f, Unfinished(d)' = {f},
         f.sn = Low(d), IsFirstCut(f.nonces, Avail(d)),
         room'[d] + f.size = Avail(d)
  PROVE  ResumeInv(d)'
<1>1. LeftInv(d) /\ CutInv(d) /\ ChainInv(d)
  BY DEF ResumeInv
<1>2. /\ UNCHANGED <<use, pc, pass, pos, scanned, plan, free_spaces>>
      /\ sn_to_gen' = sn_to_gen /\ nonces_to_gen' = nonces_to_gen
      /\ NumNonces' = NumNonces
  BY WriterKeeps
<1>3. pc = "plot" /\ cur[d] <= Len(plan[d])
  BY DEF WriterStep, CreateFile, AllocateFile, FinishFile
<1>4. Low(d)' = Low(d)
  <2>1. LastNonce(d)' = LastNonce(d)
    BY CountedStays DEF LastNonce
  <2>2. QED
    BY <2>1 DEF Low
<1>5. Avail(d)' = Avail(d)
  <2>1. SizeOfOne({f}) = f.size
    BY DEF SizeOfOne
  <2>2. QED
    BY <2>1 DEF Avail
<1>6. Top(d)' = Top(d)
  BY <1>4, <1>5 DEF Top
<1>7. LeftInv(d)'
  BY <1>1, <1>2, <1>4, <1>5, <1>6 DEF LeftInv
<1>8. CutInv(d)'
  BY <1>1, <1>2, <1>3, <1>6 DEF CutInv
<1>9. ChainInv(d)'
  <2>1. ~(cur[d] > Len(plan[d]))
    BY <1>3, CurrentIs DEF LoneInv, OnceInv, IInv
  <2>2. QED
    BY <1>1, <1>2, <1>3, <1>4, <1>6, <2>1 DEF ChainInv
<1>10. QED
  BY <1>7, <1>8, <1>9 DEF ResumeInv

LEMMA CreateResume ==
  ASSUME LoneInv, NEW d \in Drives, ResumeInv(d), CreateFile(d)
  PROVE  ResumeInv(d)'
<1>1. TypeOK /\ LeftInv(d)
  BY DEF LoneInv, OnceInv, IInv, ResumeInv
<1>2. WriterStep(d) /\ cur[d] <= Len(plan[d]) /\ Opened(d) = {}
  BY DEF WriterStep, CreateFile
<1>3. Unfinished(d) = {} /\ Avail(d) = room[d] /\ room[d] \in Nat
  BY <1>1, <1>2, CurrentIsNext, AvailIs DEF LeftInv
<1>4. PICK f : f = [sn |-> plan[d][cur[d]].sn, nonces |-> plan[d][cur[d]].nonces,
                    size |-> 0, done |-> FALSE]
  OBVIOUS
<1>5. files'[d] = files[d] \cup {f} /\ room' = room /\ cur' = cur
  BY <1>1, <1>4 DEF CreateFile, TypeOK
<1>6. ~f.done /\ f.size = 0 /\ f.sn = plan[d][cur[d]].sn
      /\ f.nonces = plan[d][cur[d]].nonces
  BY <1>4
<1>7. Unfinished(d)' = {f} /\ Finished(d)' = Finished(d)
  BY <1>3, <1>5, <1>6 DEF Unfinished, Finished
<1>8. f.sn = Low(d) /\ IsFirstCut(f.nonces, Avail(d)) /\ room'[d] + f.size = Avail(d)
  BY <1>2, <1>3, <1>5, <1>6, CurrentIsNext
<1>9. QED
  BY <1>2, <1>5, <1>7, <1>8, OneLeft

LEMMA AllocateResume ==
  ASSUME LoneInv, NEW d \in Drives, ResumeInv(d), AllocateFile(d)
  PROVE  ResumeInv(d)'
<1>1. TypeOK /\ LeftInv(d)
  BY DEF LoneInv, OnceInv, IInv, ResumeInv
<1>2. WriterStep(d) /\ cur[d] <= Len(plan[d]) /\ cur' = cur
  BY DEF WriterStep, AllocateFile
<1>3. PICK f \in Opened(d) :
        /\ room' = [room EXCEPT ![d] = room[d] - (f.nonces - f.size)]
        /\ files' = [files EXCEPT ![d] =
                       (files[d] \ {f}) \cup {[f EXCEPT !.size = f.nonces]}]
  BY DEF AllocateFile
<1>4. PICK h : h = [f EXCEPT !.size = f.nonces]
  OBVIOUS
<1>5. /\ f \in files[d] /\ ~f.done
      /\ f.nonces \in Nat /\ f.size \in Nat /\ room[d] \in Nat
      /\ h.size = f.nonces /\ h.sn = f.sn /\ h.nonces = f.nonces /\ ~h.done
  <2>1. f \in PlotFiles /\ f \in files[d] /\ ~f.done
    BY <1>1, OpenedAre
  <2>2. QED
    BY <1>1, <1>4, <2>1 DEF PlotFiles, TypeOK
<1>6. f \in Unfinished(d) /\ Unfinished(d) = {f}
  BY <1>1 DEF Opened, LeftInv
<1>7. files'[d] = (files[d] \ {f}) \cup {h}
  BY <1>1, <1>3, <1>4 DEF TypeOK
<1>8. Unfinished(d)' = {h} /\ Finished(d)' = Finished(d)
  BY <1>5, <1>6, <1>7 DEF Unfinished, Finished
<1>9. room'[d] + h.size = Avail(d)
  <2>1. Avail(d) = room[d] + f.size
    BY <1>1, <1>6, AvailIs DEF LeftInv
  <2>2. room'[d] = room[d] - (f.nonces - f.size)
    BY <1>1, <1>3 DEF TypeOK
  <2>3. QED
    BY <1>5, <2>1, <2>2
<1>10. h.sn = Low(d) /\ IsFirstCut(h.nonces, Avail(d))
  BY <1>1, <1>5, <1>6 DEF LeftInv
<1>11. QED
  BY <1>2, <1>8, <1>9, <1>10, OneLeft

LEMMA FinishResume ==
  ASSUME LoneInv, NEW d \in Drives, ResumeInv(d), FinishFile(d),
         AllCounted, AllCounted'
  PROVE  ResumeInv(d)'
<1>1. /\ TypeOK /\ IInv /\ OnceInv /\ InRow(d) /\ Behind(d)
      /\ LeftInv(d) /\ CutInv(d) /\ ChainInv(d)
  BY DEF LoneInv, OnceInv, IInv, ResumeInv
<1>2. /\ WriterStep(d) /\ cur[d] <= Len(plan[d]) /\ pc = "plot"
      /\ cur' = [cur EXCEPT ![d] = cur[d] + 1]
  BY DEF WriterStep, FinishFile
<1>3. /\ UNCHANGED <<use, pc, pass, pos, scanned, plan, free_spaces>>
      /\ sn_to_gen' = sn_to_gen /\ nonces_to_gen' = nonces_to_gen
      /\ NumNonces' = NumNonces
  BY <1>2, WriterKeeps
<1>4. PICK f \in Opened(d) :
        /\ f.size = f.nonces
        /\ files' = [files EXCEPT ![d] =
             (files[d] \ ({f} \cup {g \in Finished(d) : SameName(f, g)}))
               \cup {[f EXCEPT !.done = TRUE]}]
        /\ room' = [room EXCEPT ![d] =
             IF {g \in Finished(d) : SameName(f, g)} = {} THEN room[d]
             ELSE room[d] + f.size]
  BY DEF FinishFile
<1>5. PICK h : h = [f EXCEPT !.done = TRUE]
  OBVIOUS
<1>6. /\ f \in files[d] /\ ~f.done
      /\ f.nonces \in Nat \ {0} /\ f.sn \in Nat
      /\ h.size = f.size /\ h.sn = f.sn /\ h.nonces = f.nonces /\ h.done
  <2>1. f \in PlotFiles /\ f \in files[d] /\ ~f.done
    BY <1>1, OpenedAre
  <2>2. QED
    BY <1>5, <2>1 DEF PlotFiles
<1>7. /\ f \in Unfinished(d) /\ Unfinished(d) = {f}
      /\ f.sn = Low(d) /\ SameName(f, plan[d][cur[d]])
  BY <1>1, <1>2, CurrentIsNext DEF Opened, LeftInv
\* No finished file has the name: they lie below it.
<1>8. \A g \in Finished(d) : EndOf(g) <= f.sn /\ ~SameName(f, g)
  <2>1. \A g \in Finished(d) : EndOf(g) <= f.sn /\ EndOf(g) > g.sn
                               /\ EndOf(g) \in Nat /\ g.sn \in Nat
    BY <1>1, <1>7, LowIs, FinishedAre DEF AllCounted
  <2>2. QED
    BY <1>6, <2>1 DEF SameName
<1>9. /\ {g \in Finished(d) : SameName(f, g)} = {}
      /\ room'[d] = room[d]
      /\ files'[d] = (files[d] \ {f}) \cup {h}
  <2>1. {g \in Finished(d) : SameName(f, g)} = {}
    BY <1>8
  <2>2. QED
    BY <1>1, <1>4, <1>5, <2>1 DEF TypeOK
<1>10. /\ Unfinished(d)' = {} /\ Finished(d)' = Finished(d) \cup {h}
       /\ Counted(d) = Finished(d) /\ Counted(d)' = Finished(d)'
  <2>1. Unfinished(d)' = {}
    BY <1>6, <1>7, <1>9 DEF Unfinished
  <2>2. Finished(d)' = Finished(d) \cup {h}
    BY <1>6, <1>9 DEF Finished
  <2>3. Counted(d) = Finished(d) /\ Counted(d)' = Finished(d)'
    BY DEF AllCounted
  <2>4. QED
    BY <2>1, <2>2, <2>3
<1>11. /\ Avail(d)' = Avail(d) - f.nonces
       /\ Avail(d) \in Nat /\ room[d] \in Nat
  <2>1. Avail(d) = room[d] + f.size /\ Avail(d) \in Nat
    BY <1>1, <1>7, AvailIs DEF LeftInv
  <2>2. Avail(d)' = room[d]
    BY <1>9, <1>10 DEF Avail
  <2>3. room[d] \in Nat
    BY <1>1 DEF TypeOK
  <2>4. QED
    BY <1>4, <1>6, <2>1, <2>2, <2>3
<1>12. Low(d) \in Nat /\ Low(d) >= StartNonce /\ StartNonce \in Nat
  BY <1>1, LowIs, SizesAssumption
<1>13. EndOf(h) = Low(d) + f.nonces
  BY <1>6, <1>7 DEF EndOf
<1>14. Low(d)' = Low(d) + f.nonces
  <2>1. /\ Ends(d)' = Ends(d) \cup {EndOf(h)}
        /\ \A e \in Ends(d) : e \in Nat /\ e <= EndOf(h)
    <3>1. Ends(d)' = Ends(d) \cup {EndOf(h)}
      BY <1>10 DEF Ends
    <3>2. \A g \in Finished(d) : EndOf(g) \in Nat /\ EndOf(g) <= EndOf(h)
      BY <1>1, <1>6, <1>7, <1>8, <1>13, FinishedAre
    <3>3. QED
      BY <1>6, <1>10, <1>12, <1>13, <3>1, <3>2 DEF Ends
  <2>2. \A m \in Ends(d)' : (\A e \in Ends(d)' : m >= e) => m = EndOf(h)
    BY <1>6, <1>12, <1>13, <2>1
  <2>3. /\ EndOf(h) \in Ends(d)'
        /\ \A e \in Ends(d)' : EndOf(h) >= e
    BY <1>6, <1>12, <1>13, <2>1
  <2>4. Max(Ends(d)') = EndOf(h)
    BY <2>2, <2>3 DEF Max
  <2>5. LastNonce(d)' = Max(Ends(d)')
    BY DEF LastNonce, Ends
  <2>6. QED
    BY <1>6, <1>12, <1>13, <2>4, <2>5 DEF Low, Larger
<1>15. Top(d)' = Top(d)
  BY <1>6, <1>11, <1>12, <1>14 DEF Top
<1>16. LeftInv(d)'
  <2>1. Avail(d)' <= NumNonces
    <3>1. Avail(d) <= NumNonces /\ NumNonces \in Nat
      BY <1>1, NumNoncesType DEF LeftInv
    <3>2. QED
      BY <1>6, <1>11, <3>1
  <2>2. Top(d)' - StartNonce \in use'.spaces
    BY <1>1, <1>3, <1>15 DEF LeftInv
  <2>3. QED
    BY <1>3, <1>10, <2>1, <2>2 DEF LeftInv
<1>17. CutInv(d)'
  BY <1>1, <1>2, <1>3, <1>15 DEF CutInv
<1>18. ChainInv(d)'
  <2>1. PICK k \in 1 .. Len(plan[d]) : k = cur[d] /\ cur'[d] = k + 1
    BY <1>1, <1>2, CurrentIs DEF TypeOK
  <2>2. Len(plan[d]) \in Nat
    BY <1>1, PlannedAre
  <2>3. EndOf(plan[d][k]) = Low(d)'
    BY <1>6, <1>7, <1>13, <1>14, <2>1 DEF SameName, EndOf
  <2>4. k + 1 > Len(plan[d]) => k = Len(plan[d])
    BY <2>2
  <2>5. k + 1 <= Len(plan[d]) => plan[d][k + 1].sn = Low(d)'
    <3>1. SUFFICES ASSUME k + 1 <= Len(plan[d])
                   PROVE  plan[d][k + 1].sn = Low(d)'
      OBVIOUS
    <3>2. k \in 1 .. Len(plan[d]) - 1
      BY <2>2, <3>1
    <3>3. plan[d][k + 1].sn = EndOf(plan[d][k])
      BY <1>1, <3>2 DEF ChainInv
    <3>4. QED
      BY <2>3, <3>3
  <2>6. QED
    BY <1>1, <1>3, <1>10, <1>15, <2>1, <2>3, <2>4, <2>5 DEF ChainInv
<1>19. QED
  BY <1>16, <1>17, <1>18 DEF ResumeInv

LEMMA RestartResume ==
  ASSUME LoneInv, NEW d \in Drives, ResumeInv(d), Restart
  PROVE  ResumeInv(d)'
<1>1. UNCHANGED <<use, room, files>>
  BY DEF Restart
<1>2. LeftInv(d)' /\ NumNonces' = NumNonces
  BY <1>1, SameFiles DEF ResumeInv
<1>3. /\ scanned' = {} /\ pc' = "plan" /\ pass' = 1 /\ pos' = 1
      /\ sn_to_gen' = StartNonce /\ nonces_to_gen' = NumNonces
      /\ plan'[d] = <<>> /\ cur'[d] = 1
  BY DEF Restart
<1>4. CutInv(d)'
  BY <1>2, <1>3 DEF CutInv
<1>5. ChainInv(d)'
  <2>1. (plan[d] = <<>> /\ cur[d] = 1 /\ pc # "plot" => ChainInv(d))'
    BY EmptyChain, PTL
  <2>2. QED
    BY <1>3, <2>1
<1>6. QED
  BY <1>2, <1>4, <1>5 DEF ResumeInv

LEMMA NextLone == LoneInv /\ [Next]_vars => LoneInv'
<1> SUFFICES ASSUME LoneInv, [Next]_vars
             PROVE  LoneInv'
  OBVIOUS
<1>1. OnceInv'
  BY NextOnce DEF LoneInv
<1>2. use' = use /\ MaxRuns' = MaxRuns /\ NumNonces' = NumNonces
  <2>1. use' = use
    BY DEF Next, Plan, Scan, PlanFile, NextDrive, NextPass, WriterStep, CreateFile,
           AllocateFile, FinishFile, Restart, vars
  <2>2. QED
    BY <2>1 DEF MaxRuns, NumNonces
<1>3. ASSUME NEW d \in Drives, (Lone(d) /\ Unlimited /\ AllCounted)'
      PROVE  ResumeInv(d)'
  <2>1. Lone(d) /\ Unlimited /\ AllCounted
    <3>1. Lone(d) /\ Unlimited
      BY <1>2, <1>3 DEF Lone, Unlimited
    <3>2. AllCounted
      BY <1>3, CountedBefore DEF LoneInv, OnceInv, IInv
    <3>3. QED
      BY <3>1, <3>2
  <2>2. ResumeInv(d)
    BY <2>1 DEF LoneInv
  <2>3. CASE UNCHANGED vars
    <3>1. /\ UNCHANGED <<use, room, files>>
          /\ UNCHANGED <<pc, pass, pos, scanned, free_spaces, sn_to_gen,
                         nonces_to_gen, plan, cur>>
      BY <2>3 DEF vars, planVars
    <3>2. CutInv(d)' /\ ChainInv(d)' /\ LeftInv(d)'
      BY <2>2, <3>1, SameFiles DEF ResumeInv, CutInv, ChainInv
    <3>3. QED
      BY <3>2 DEF ResumeInv
  <2>4. CASE Plan
    BY <2>1, <2>2, <2>4, PlanResume
  <2>5. ASSUME NEW e \in Drives, WriterStep(e)
        PROVE  ResumeInv(d)'
    <3>1. e = d
      <4>1. cur[e] <= Len(plan[e]) /\ cur[e] \in Nat \ {0}
        BY <2>5 DEF LoneInv, OnceInv, IInv, TypeOK, WriterStep, CreateFile,
                    AllocateFile, FinishFile
      <4>2. plan[e] # <<>>
        BY <4>1, EmptySeq
      <4>3. QED
        BY <2>1, <4>2, LoneOnly DEF LoneInv
    <3>2. QED
      BY <1>3, <2>1, <2>2, <2>5, <3>1, CreateResume, AllocateResume, FinishResume
         DEF WriterStep
  <2>6. CASE Restart
    BY <2>2, <2>6, RestartResume
  <2>7. QED
    BY <2>3, <2>4, <2>5, <2>6 DEF Next
<1>4. QED
  BY <1>1, <1>3 DEF LoneInv

LEMMA LoneInvariance == Spec => []LoneInv
<1>1. QED
  BY InitLone, NextLone, PTL DEF Spec

(***************************************************************************)
(* LoneDriveResumes: however large the drive, the files and the alignments *)
(* are, a program that is always started with one drive, without a limit,  *)
(* plots the file that a run left unfinished before any other, under the   *)
(* same name, while all that it finished counts (src/src/plotter.cpp:      *)
(* 131-146 and 149-157).  StaysInRange says when that is so.               *)
(***************************************************************************)
THEOREM LoneDriveResumes == Spec => []ResumesUnfinished
<1>1. ASSUME LoneInv, LoneDrive, Unlimited, AllCounted, pc = "plot",
             NEW e \in Drives, NEW f \in Unfinished(e)
      PROVE  cur[e] <= Len(plan[e]) /\ SameName(f, plan[e][cur[e]])
  <2>1. PICK d \in Drives : Lone(d)
    BY <1>1 DEF LoneDrive
  <2>2. e = d
    <3>1. files[e] # {}
      BY <1>1 DEF Unfinished
    <3>2. QED
      BY <1>1, <2>1, <3>1, LoneOnly DEF LoneInv
  <2>3. ResumeInv(d) /\ ChainInv(d) /\ TypeOK
    BY <1>1, <2>1 DEF LoneInv, ResumeInv, OnceInv, IInv
  <2>4. cur[d] <= Len(plan[d])
    <3>1. ~(cur[d] > Len(plan[d]))
      BY <1>1, <2>2, <2>3 DEF ChainInv
    <3>2. cur[d] \in Nat /\ Len(plan[d]) \in Nat
      BY <2>3, PlannedAre DEF TypeOK
    <3>3. QED
      BY <3>1, <3>2
  <2>5. QED
    BY <1>1, <2>2, <2>3, <2>4, CurrentIsNext
<1>2. LoneInv => ResumesUnfinished
  BY <1>1 DEF ResumesUnfinished
<1>3. QED
  BY <1>2, LoneInvariance, PTL

(***************************************************************************)
(* LoneDriveHasRoom: then the writer of the drive also finds the room for  *)
(* the file it is at, so allocate never fails for want of space and        *)
(* nothing is retried (src/src/plotter.cpp:131-146 and 149-157).           *)
(***************************************************************************)
THEOREM LoneDriveHasRoom ==
  Spec => [](LoneDrive /\ Unlimited /\ AllCounted =>
               \A d \in Drives :
                 cur[d] <= Len(plan[d]) =>
                   /\ Opened(d) = {} => room[d] >= plan[d][cur[d]].nonces
                   /\ \A f \in Opened(d) : room[d] >= f.nonces - f.size)
<1>1. ASSUME LoneInv, LoneDrive, Unlimited, AllCounted,
             NEW e \in Drives, cur[e] <= Len(plan[e])
      PROVE  /\ Opened(e) = {} => room[e] >= plan[e][cur[e]].nonces
             /\ \A f \in Opened(e) : room[e] >= f.nonces - f.size
  <2>1. PICK d \in Drives : Lone(d)
    BY <1>1 DEF LoneDrive
  <2>2. TypeOK
    BY <1>1 DEF LoneInv, OnceInv, IInv
  <2>3. e = d
    <3>1. plan[e] # <<>>
      BY <1>1, <2>2, CurrentIs, EmptySeq
    <3>2. QED
      BY <1>1, <2>1, <3>1, LoneOnly DEF LoneInv
  <2>4. ResumeInv(d) /\ LeftInv(d)
    BY <1>1, <2>1 DEF LoneInv, ResumeInv
  <2>5. /\ IsFirstCut(plan[d][cur[d]].nonces, Avail(d))
        /\ Avail(d) \in Nat
        /\ Opened(d) = Unfinished(d)
    BY <1>1, <2>3, <2>4, CurrentIsNext
  <2>6. plan[d][cur[d]].nonces \in 1 .. Avail(d)
    BY <2>5, FirstCutIs
  <2>7. Opened(d) = {} => Avail(d) = room[d]
    BY <2>2, <2>4, <2>5, AvailIs DEF LeftInv
  <2>8. ASSUME NEW f \in Opened(d)
        PROVE  room[d] >= f.nonces - f.size
    <3>1. f.size \in Nat /\ Avail(d) = room[d] + f.size /\ room[d] \in Nat
      BY <2>2, <2>4, <2>5, AvailIs DEF LeftInv, TypeOK
    <3>2. f.nonces = plan[d][cur[d]].nonces
      BY <2>8 DEF Opened, SameName
    <3>3. QED
      BY <2>6, <3>1, <3>2
  <2>9. QED
    BY <2>3, <2>6, <2>7, <2>8
<1>2. LoneInv =>
        (LoneDrive /\ Unlimited /\ AllCounted =>
           \A d \in Drives :
             cur[d] <= Len(plan[d]) =>
               /\ Opened(d) = {} => room[d] >= plan[d][cur[d]].nonces
               /\ \A f \in Opened(d) : room[d] >= f.nonces - f.size)
  BY <1>1
<1>3. QED
  BY <1>2, LoneInvariance, PTL

-----------------------------------------------------------------------------
(* A lone drive on which all files count                                   *)

\* No drive of any use has room for a nonce with other high bits than --sn.
RoomInRange ==
  \A space \in use.spaces : \A n \in StartNonce .. StartNonce + space - 1 :
    HighBits(n) = HighBits(StartNonce)

InRangeInv ==
  /\ LoneInv
  /\ LoneDrive /\ Unlimited /\ RoomInRange => AllCounted

LEMMA InitInRange == Init => InRangeInv
<1> SUFFICES ASSUME Init
             PROVE  InRangeInv
  OBVIOUS
<1>1. \A d \in Drives : Finished(d) = {}
  BY DEF Init, Finished
<1>2. AllCounted
  BY <1>1 DEF AllCounted, Counted
<1>3. QED
  BY <1>2, InitLone DEF InRangeInv

\* The file that is finished next lies within the drive's nonces.
LEMMA FinishInRange ==
  ASSUME InRangeInv, NEW d \in Drives, WriterStep(d),
         LoneDrive, Unlimited, RoomInRange, AllCounted
  PROVE  AllCounted'
<1>1. LoneInv /\ TypeOK
  BY DEF InRangeInv, LoneInv, OnceInv, IInv
<1>2. cur[d] <= Len(plan[d])
  BY DEF WriterStep, CreateFile, AllocateFile, FinishFile
<1>3. Lone(d)
  <2>1. PICK e \in Drives : Lone(e)
    BY DEF LoneDrive
  <2>2. plan[d] # <<>>
    BY <1>1, <1>2, CurrentIs, EmptySeq
  <2>3. QED
    BY <1>1, <2>1, <2>2, LoneOnly DEF LoneInv
<1>4. ResumeInv(d) /\ LeftInv(d)
  BY <1>1, <1>3 DEF LoneInv, ResumeInv
<1>5. InRange(plan[d][cur[d]])
  <2>1. /\ plan[d][cur[d]].sn = Low(d)
        /\ IsFirstCut(plan[d][cur[d]].nonces, Avail(d))
        /\ Avail(d) \in Nat /\ Low(d) \in Nat
    BY <1>1, <1>2, <1>4, CurrentIsNext
  <2>2. Avail(d) > 0
    BY <2>1, FirstCutIs
  <2>3. PICK space \in use.spaces : space = Top(d) - StartNonce
    BY <1>4 DEF LeftInv
  <2>4. Low(d) \in StartNonce .. StartNonce + space - 1
    <3>1. Low(d) >= StartNonce /\ StartNonce \in Nat
      BY <1>1, LowIs, SizesAssumption DEF LoneInv, OnceInv
    <3>2. QED
      BY <2>1, <2>2, <2>3, <3>1 DEF Top
  <2>5. QED
    BY <2>1, <2>4 DEF RoomInRange, InRange
<1>6. ASSUME NEW e \in Drives, NEW f \in Finished(e)'
      PROVE  InRange(f)
  <2>1. \A g \in Finished(e) : InRange(g)
    BY DEF AllCounted, Counted
  <2>2. CASE e # d
    BY <1>1, <1>6, <2>1, <2>2, WriterFiles DEF Finished
  <2>3. CASE e = d
    BY <1>1, <1>5, <1>6, <2>1, <2>3, WriterFinished, RangeStays
  <2>4. QED
    BY <2>2, <2>3
<1>7. QED
  BY <1>6, RangeStays DEF AllCounted, Counted

LEMMA NextInRange == InRangeInv /\ [Next]_vars => InRangeInv'
<1> SUFFICES ASSUME InRangeInv, [Next]_vars
             PROVE  InRangeInv'
  OBVIOUS
<1>1. LoneInv'
  BY NextLone DEF InRangeInv
<1>2. ASSUME (LoneDrive /\ Unlimited /\ RoomInRange)'
      PROVE  AllCounted'
  <2>1. use' = use
    BY DEF Next, Plan, Scan, PlanFile, NextDrive, NextPass, WriterStep, CreateFile,
           AllocateFile, FinishFile, Restart, vars
  <2>2. LoneDrive /\ Unlimited /\ RoomInRange
    <3>1. LoneDrive /\ Unlimited
      BY <1>2, <2>1 DEF LoneDrive, Lone, MaxRuns, Unlimited, NumNonces
    <3>2. RoomInRange
      BY <1>2, <2>1 DEF RoomInRange, HighBits, RoundDown
    <3>3. QED
      BY <3>1, <3>2
  <2>3. AllCounted
    BY <2>2 DEF InRangeInv
  <2>4. CASE Plan \/ Restart \/ UNCHANGED vars
    <3>1. UNCHANGED <<use, room, files>>
      BY <2>4 DEF Plan, Scan, PlanFile, NextDrive, NextPass, Restart, vars
    <3>2. QED
      BY <2>3, <3>1, SameFiles
  <2>5. ASSUME NEW d \in Drives, WriterStep(d)
        PROVE  AllCounted'
    BY <2>2, <2>3, <2>5, FinishInRange
  <2>6. QED
    BY <2>4, <2>5 DEF Next
<1>3. QED
  BY <1>1, <1>2 DEF InRangeInv

(***************************************************************************)
(* StaysInRange: if the drive has no room for a nonce behind the next      *)
(* multiple of 2^32, then a program that is always started with it alone   *)
(* and without a limit finishes no file that later runs do not count       *)
(* (src/src/plotter.cpp:137-146): the theorems on lone drives hold at all  *)
(* times then, the four that ask for AllCounted included.                  *)
(***************************************************************************)
THEOREM StaysInRange ==
  Spec => [](LoneDrive /\ Unlimited /\ RoomInRange => AllCounted)
<1>1. InRangeInv => (LoneDrive /\ Unlimited /\ RoomInRange => AllCounted)
  BY DEF InRangeInv
<1>2. QED
  BY <1>1, InitInRange, NextInRange, PTL DEF Spec

-----------------------------------------------------------------------------
(* A lone drive gets filled                                                *)

\* Multiples of a number are that far apart.
LEMMA MultiplesApart ==
  ASSUME NEW a \in Nat \ {0}, NEW m \in Nat, NEW n \in Nat,
         m % a = 0, n % a = 0, m < n
  PROVE  m + a <= n
<1>1. PICK x \in Nat : m = a * x
  <2>1. m = a * (m \div a) + (m % a) /\ m \div a \in Nat
    BY SMT
  <2>2. QED
    BY <2>1
<1>2. PICK y \in Nat : n = a * y
  <2>1. n = a * (n \div a) + (n % a) /\ n \div a \in Nat
    BY SMT
  <2>2. QED
    BY <2>1
<1>3. x < y
  <2>1. CASE x >= y
    <3>1. a * x >= a * y
      BY <2>1, SMT
    <3>2. QED
      BY <1>1, <1>2, <3>1
  <2>2. QED
    BY <2>1
<1>4. a * (x + 1) <= a * y
  BY <1>3, SMT
<1>5. a * (x + 1) = a * x + a
  BY SMT
<1>6. QED
  BY <1>1, <1>2, <1>4, <1>5

LEMMA RoundDownDivides ==
  ASSUME NEW a \in Nat \ {0}, NEW n \in Nat
  PROVE  RoundDown(n, a) % a = 0
<1>1. PICK x \in Nat : n = a * x + (n % a)
  <2>1. n = a * (n \div a) + (n % a) /\ n \div a \in Nat
    BY SMT
  <2>2. QED
    BY <2>1
<1>2. n % a \in Nat /\ a * x \in Nat
  BY SMT
<1>3. RoundDown(n, a) = a * x
  BY <1>1, <1>2 DEF RoundDown
<1>4. (a * x) % a = 0
  BY SMT
<1>5. QED
  BY <1>3, <1>4

\* Where the last pass finds no file after one was found in more space, there
\* is no space for one: it is not that it would not fit an int.
LEMMA NothingLeft ==
  ASSUME NEW free \in Nat, NEW less \in 0 .. free, NEW p \in 1 .. Len(Aligns),
         CutAt(free, p) > 0, CutAt(less, Len(Aligns)) = 0
  PROVE  less < Aligns[Len(Aligns)]
<1>1. PICK a, b : a = Aligns[p] /\ b = Aligns[Len(Aligns)]
  OBVIOUS
<1>2. /\ a \in Nat \ {0} /\ b \in Nat \ {0} /\ b > 1 /\ b <= a
      /\ (IntMax + 1) % a = 0 /\ (IntMax + 1) % b = 0
      /\ IntMax \in Nat /\ MaxNoncesPerFile \in Nat
  <2>1. /\ a \in Nat \ {0} /\ b \in Nat \ {0} /\ b > 1
        /\ (IntMax + 1) % a = 0 /\ (IntMax + 1) % b = 0
        /\ IntMax \in Nat /\ MaxNoncesPerFile \in Nat
    BY <1>1, AlignsAre, IntAssumption, SizesAssumption
  <2>2. CASE p = Len(Aligns)
    BY <1>1, <2>1, <2>2
  <2>3. CASE p < Len(Aligns)
    <3>1. a % b = 0
      BY <1>1, <2>3, AlignsAre, AlignsAssumption
    <3>2. a < b => a % b = a
      BY <2>1, SMT
    <3>3. QED
      BY <2>1, <3>1, <3>2
  <2>4. QED
    BY <2>1, <2>2, <2>3, AlignsAre
<1>3. PICK m \in 0 .. free : m = Smaller(MaxNoncesPerFile, free)
  BY LeastIs
<1>4. PICK k \in 0 .. less : k = Smaller(MaxNoncesPerFile, less) /\ k <= m
  BY <1>3, LeastIs
<1>5. RoundDown(m, a) > 0 /\ RoundDown(m, a) < IntMax
  BY <1>1, <1>3 DEF CutAt
<1>6. /\ RoundDown(m, a) \in 0 .. m /\ m - RoundDown(m, a) < a /\ RoundDown(m, a) % a = 0
      /\ RoundDown(k, b) \in 0 .. k /\ k - RoundDown(k, b) < b /\ RoundDown(k, b) % b = 0
  <2>1. m \in Nat /\ k \in Nat
    BY <1>3, <1>4
  <2>2. QED
    BY <1>2, <2>1, RoundDownIs, RoundDownDivides
<1>7. a <= m /\ m <= IntMax
  <2>1. /\ RoundDown(m, a) \in Nat /\ IntMax + 1 \in Nat /\ 0 \in Nat /\ 0 % a = 0
        /\ RoundDown(m, a) < IntMax + 1
    <3>1. 0 % a = 0
      BY <1>2, SMT
    <3>2. RoundDown(m, a) \in Nat
      BY <1>6
    <3>3. IntMax + 1 \in Nat /\ RoundDown(m, a) < IntMax + 1
      BY <1>2, <1>5, <3>2
    <3>4. QED
      BY <3>1, <3>2, <3>3
  <2>2. RoundDown(m, a) + a <= IntMax + 1
    BY <1>2, <1>6, <2>1, MultiplesApart
  <2>3. 0 + a <= RoundDown(m, a)
    BY <1>2, <1>5, <1>6, <2>1, MultiplesApart
  <2>4. RoundDown(m, a) <= m /\ m - RoundDown(m, a) < a /\ RoundDown(m, a) \in Nat
    BY <1>6
  <2>5. m \in Nat /\ a \in Nat /\ IntMax \in Nat
    BY <1>2, <1>3
  <2>6. QED
    BY <2>2, <2>3, <2>4, <2>5
<1>8. RoundDown(k, b) < IntMax
  <2>1. RoundDown(k, b) \in Nat /\ IntMax + 1 \in Nat /\ RoundDown(k, b) < IntMax + 1
    <3>1. m \in Nat /\ k \in Nat /\ k <= IntMax
      BY <1>2, <1>3, <1>4, <1>7
    <3>2. RoundDown(k, b) \in Nat /\ RoundDown(k, b) <= k
      BY <1>6, <3>1
    <3>3. QED
      BY <1>2, <3>1, <3>2
  <2>2. RoundDown(k, b) + b <= IntMax + 1
    BY <1>2, <1>6, <2>1, MultiplesApart
  <2>3. QED
    BY <1>2, <2>1, <2>2
<1>9. RoundDown(k, b) = 0
  BY <1>1, <1>4, <1>8 DEF CutAt
<1>10. k < b
  BY <1>2, <1>6, <1>9
<1>11. b <= MaxNoncesPerFile
  BY <1>2, <1>3, <1>7 DEF Smaller
<1>12. QED
  BY <1>1, <1>2, <1>4, <1>10, <1>11 DEF Smaller

(***************************************************************************)
(* LoneDriveFills: however large the drive and the files are, when all     *)
(* that was planned for a lone drive without a limit is plotted, the drive *)
(* has no room for another file of the smallest alignment, whatever runs   *)
(* ended before, while all that they finished counts (src/src/plotter.cpp: *)
(* 131-146 and 149-163).                                                   *)
(***************************************************************************)
THEOREM LoneDriveFills == Spec => [](LoneDrive /\ Unlimited => FillsDrives)
<1>1. ASSUME LoneInv, LoneDrive, Unlimited, AllCounted, AllPlotted
      PROVE  \A i \in 1 .. Len(Drivers) : room[Drivers[i]] < Aligns[Len(Aligns)]
  <2>1. PICK d \in Drives : Lone(d)
    BY <1>1 DEF LoneDrive
  <2>2. TypeOK /\ IInv /\ LeftInv(d) /\ CutInv(d) /\ ChainInv(d)
    BY <1>1, <2>1 DEF LoneInv, OnceInv, IInv, ResumeInv
  <2>3. pc = "plot" /\ cur[d] > Len(plan[d])
    BY <1>1 DEF AllPlotted
  <2>4. Len(plan[d]) \in Nat \ {0}
    <3>1. plan[d] \in Seq(PlanFiles) /\ plan[d] # <<>>
      BY <2>2, <2>3 DEF CutInv, TypeOK
    <3>2. QED
      BY <3>1, EmptySeq, LenProperties
  <2>5. PICK f : f = plan[d][Len(plan[d])]
    OBVIOUS
  <2>6. /\ free_spaces[d] + sn_to_gen = Top(d) /\ sn_to_gen = EndOf(f)
        /\ CutAt(free_spaces[d], Len(Aligns)) = 0
        /\ Unfinished(d) = {} /\ Low(d) = EndOf(f)
    BY <2>2, <2>3, <2>4, <2>5 DEF CutInv, ChainInv
  <2>7. /\ Avail(d) = room[d] /\ room[d] \in Nat /\ Low(d) \in Nat
        /\ free_spaces[d] \in Nat /\ Top(d) = Low(d) + room[d]
    <3>1. Avail(d) = room[d] /\ room[d] \in Nat /\ free_spaces[d] \in Nat
      BY <2>2, <2>6 DEF Avail, TypeOK
    <3>2. QED
      BY <2>2, <3>1, LowIs DEF Top
  <2>8. free_spaces[d] = room[d]
    BY <2>6, <2>7
  \* The last file of the plan was found in the space it starts at.
  <2>9. IsFirstCut(f.nonces, Top(d) - f.sn) /\ f \in PlanFiles
    <3>1. Len(plan[d]) \in 1 .. Len(plan[d])
      BY <2>4
    <3>2. plan[d] \in Seq(PlanFiles)
      BY <2>2 DEF TypeOK
    <3>3. QED
      BY <2>2, <2>5, <3>1, <3>2, ElementOfSeq DEF ChainInv
  <2>10. Top(d) - f.sn \in Nat /\ room[d] \in 0 .. Top(d) - f.sn
    <3>1. f.sn \in Nat /\ f.nonces \in Nat /\ Low(d) = f.sn + f.nonces
      BY <2>6, <2>9 DEF EndOf, PlanFiles
    <3>2. Top(d) = Low(d) + room[d]
      BY <2>7
    <3>3. Top(d) - f.sn = f.nonces + room[d]
      BY <2>7, <3>1, <3>2
    <3>4. QED
      BY <2>7, <3>1, <3>3
  <2>11. PICK p \in 1 .. Len(Aligns) : CutAt(Top(d) - f.sn, p) > 0
    BY <2>9 DEF IsFirstCut
  <2>12. room[d] < Aligns[Len(Aligns)]
    BY <2>6, <2>8, <2>10, <2>11, NothingLeft
  <2>13. QED
    BY <2>1, <2>2, <2>12, LoneDriver
<1>2. LoneInv => (LoneDrive /\ Unlimited => FillsDrives)
  BY <1>1 DEF FillsDrives
<1>3. QED
  BY <1>2, LoneInvariance, PTL
=============================================================================
