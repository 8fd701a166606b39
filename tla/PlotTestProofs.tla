--------------------------- MODULE PlotTestProofs ---------------------------
(***************************************************************************)
(* Theorems about PlotTest: the slices of the device put the chain of a    *)
(* nonce together as the CPU has it, for every number of hashes, every     *)
(* step, and any number of kernels in the command queue.  That a single    *)
(* hash of the kernel is right, KernelHashIsRight, is a hypothesis: it is  *)
(* about recursive functions on data, and what the run checks.             *)
(***************************************************************************)
EXTENDS PlotTest, TLAPS

-----------------------------------------------------------------------------
(* The slices                                                              *)

\* Where the host or the next slice goes on behind the first p slices queued.
After(p) == IF p < Len(slices) THEN slices[p + 1].start ELSE i

\* The end of a slice behind which the plot goes on at j.
EndAt(j) == IF j = 0 THEN -1 ELSE j

LEMMA SliceEndIs ==
  ASSUME NEW j \in Int, step \in Nat
  PROVE  SliceEnd(j) = EndAt(j - step)
BY DEF SliceEnd, EndAt

\* The types that the proofs need, and what has not begun or is over.
Shape ==
  /\ step \in Nat /\ i \in Int /\ hash \in Int /\ end \in Int /\ call \in Nat
  /\ i <= NumHashes
  /\ slices \in Seq([start : 1 .. NumHashes, end : Int])
  /\ kernel \in {"idle", "running"}
  /\ buffer = [k \in Cells |-> buffer[k]]
  /\ hostPc # "unbuilt" => step > 0
  /\ hostPc \in {"unbuilt", "idle"} => slices = <<>> /\ kernel = "idle" /\ i <= 0
  /\ hostPc = "unbuilt" => call = 0
  /\ phase = "library" => hostPc = "unbuilt"

\* The slices queued follow each other, and the last one the host's variable.
InARow ==
  \A p \in 1 .. Len(slices) :
    /\ slices[p].start = After(p) + step
    /\ slices[p].end = EndAt(After(p))

\* The slice that is computed, or the last one if none is queued, ends where
\* the next one starts.
AtEnd ==
  /\ kernel = "running" => end = EndAt(After(0)) /\ end <= hash /\ hash <= NumHashes
  /\ call > 0 /\ slices = <<>> /\ i # NumHashes => end = EndAt(i)

\* The host's variable is down from the number of hashes by whole steps.
ByStep ==
  call > 0 => -step < i /\ (NumHashes - i) % step = 0

SliceInv == Shape /\ InARow /\ AtEnd /\ ByStep

LEMMA Numbers == NumHashes \in Nat \ {0}
BY HashesAssumption

\* One step less, and the number of steps is still whole.
LEMMA StepLess ==
  ASSUME NEW n \in Nat, NEW d \in Nat \ {0}, n % d = 0
  PROVE  (n + d) % d = 0
<1>1. PICK x \in Nat : n = d * x
  <2>1. n = d * (n \div d) + (n % d) /\ n \div d \in Nat
    BY SMT
  <2>2. QED
    BY <2>1
<1>2. n + d = d * (x + 1)
  BY <1>1, SMT
<1>3. (d * (x + 1)) % d = 0
  BY SMT
<1>4. QED
  BY <1>2, <1>3

LEMMA InitSlices == TestInit => SliceInv
<1> SUFFICES ASSUME TestInit PROVE SliceInv
  OBVIOUS
<1> USE DEF TestInit, Init
<1>1. Len(slices) = 0
  OBVIOUS
<1>2. Shape
  BY Numbers DEF Shape
<1>3. InARow /\ AtEnd /\ ByStep
  BY <1>1 DEF InARow, AtEnd, ByStep
<1>4. QED
  BY <1>2, <1>3 DEF SliceInv

LEMMA BuildSlices ==
  ASSUME SliceInv, NEW arg \in StepArgs, Build(arg), UNCHANGED testVars, phase = "device"
  PROVE  SliceInv'
<1> USE DEF SliceInv, Build, testVars, deviceVars
<1>1. StepOf(arg) \in Nat /\ StepOf(arg) > 0
  BY StepsAssumption DEF StepOf
<1>2. Shape'
  BY <1>1 DEF Shape, callerVars
<1>3. slices = <<>> /\ slices' = <<>> /\ call = 0 /\ call' = 0 /\ kernel' = "idle"
  BY DEF Shape
<1>4. InARow' /\ AtEnd' /\ ByStep'
  BY <1>3 DEF InARow, AtEnd, ByStep
<1>5. QED
  BY <1>2, <1>4

LEMMA PlotSlices ==
  ASSUME SliceInv, Plot, UNCHANGED testVars, phase = "device"
  PROVE  SliceInv'
<1> USE DEF SliceInv, Plot, testVars, deviceVars
<1>1. Shape'
  BY Numbers DEF Shape, callerVars
<1>2. slices = <<>> /\ slices' = <<>> /\ kernel' = "idle" /\ step' = step /\ step > 0
  BY DEF Shape
<1>3. InARow' /\ AtEnd'
  BY <1>2 DEF InARow, AtEnd
<1>4. ByStep'
  <2>1. i' = NumHashes /\ step \in Nat
    BY DEF Shape
  <2>2. (NumHashes - NumHashes) % step = 0
    BY <1>2, <2>1, Numbers, SMT
  <2>3. QED
    BY <1>2, <2>1, <2>2, Numbers DEF ByStep
<1>5. QED
  BY <1>1, <1>3, <1>4

LEMMA EnqueueSlices ==
  ASSUME SliceInv, Enqueue, UNCHANGED testVars, phase = "device"
  PROVE  SliceInv'
<1> USE DEF SliceInv
<1> DEFINE slice == [start |-> i, end |-> SliceEnd(i)]
<1>1. /\ i > 0 /\ i \in Int /\ step \in Nat /\ step > 0
      /\ slices' = Append(slices, slice)
      /\ i' = i - step
      /\ hostPc = "launch"
      /\ UNCHANGED <<step, hostPc, call, deviceVars, testVars>>
  BY DEF Enqueue, MoreSlices, Shape
<1>2. SliceEnd(i) = EndAt(i') /\ SliceEnd(i) \in Int
  BY <1>1, SliceEndIs DEF EndAt
<1>3. slice \in [start : 1 .. NumHashes, end : Int]
  BY <1>1, <1>2, Numbers DEF Shape
<1>4. /\ slices \in Seq([start : 1 .. NumHashes, end : Int])
      /\ slices' \in Seq([start : 1 .. NumHashes, end : Int])
      /\ Len(slices') = Len(slices) + 1
      /\ \A p \in 1 .. Len(slices) : slices'[p] = slices[p]
      /\ slices'[Len(slices) + 1] = slice
  BY <1>1, <1>3 DEF Shape
<1>5. Shape'
  <2>1. UNCHANGED <<step, hostPc, call, phase, kernel, hash, end, buffer>>
    BY <1>1 DEF deviceVars, testVars
  <2>2. buffer' = [k \in Cells |-> buffer'[k]]
    BY <2>1 DEF Shape, Cells
  <2>3. hostPc' \notin {"unbuilt", "idle"} /\ phase' # "library"
    BY <1>1, <2>1 DEF Shape
  <2>4. i' \in Int /\ i' <= NumHashes
    BY <1>1, Numbers DEF Shape
  <2>5. QED
    BY <1>1, <1>4, <2>1, <2>2, <2>3, <2>4 DEF Shape
<1>6. \A p \in 0 .. Len(slices) : After(p)' = After(p)
  BY <1>1, <1>4 DEF After
<1>7. \A p \in Nat : p = Len(slices) + 1 => After(p)' = i'
  BY <1>4 DEF After
<1>8. InARow'
  <2> SUFFICES ASSUME NEW p \in 1 .. Len(slices')
               PROVE  /\ slices'[p].start = After(p)' + step'
                      /\ slices'[p].end = EndAt(After(p)')
    BY DEF InARow, EndAt
  <2>1. CASE p \in 1 .. Len(slices)
    BY <1>1, <1>4, <1>6, <2>1 DEF InARow, deviceVars
  <2>2. CASE p = Len(slices')
    <3>1. p \in Nat /\ p = Len(slices) + 1 /\ slices'[p] = slice
      BY <1>4, <2>2
    <3>2. After(p)' = i'
      BY <1>7, <3>1
    <3>3. step' = step
      BY <1>1
    <3>4. QED
      BY <1>1, <1>2, <3>1, <3>2, <3>3
  <2>3. QED
    BY <1>4, <2>1, <2>2
<1>9. AtEnd'
  <2>1. slices' # <<>> /\ After(0)' = After(0)
    BY <1>4, <1>6
  <2>2. QED
    BY <1>1, <2>1 DEF AtEnd, EndAt, deviceVars
<1>10. ByStep'
  <2> SUFFICES ASSUME call > 0 PROVE -step < i' /\ (NumHashes - i') % step = 0
    BY <1>1 DEF ByStep
  <2>1. NumHashes - i \in Nat /\ (NumHashes - i) % step = 0
    BY <1>1, Numbers DEF ByStep, Shape
  <2>2. (NumHashes - i + step) % step = 0
    BY <1>1, <2>1, StepLess
  <2>3. NumHashes - i' = NumHashes - i + step
    BY <1>1, Numbers
  <2>4. QED
    BY <1>1, <2>2, <2>3
<1>11. QED
  BY <1>5, <1>8, <1>9, <1>10

LEMMA ReadBackSlices ==
  ASSUME SliceInv, ReadBack, UNCHANGED testVars, phase = "device"
  PROVE  SliceInv'
<1> USE DEF SliceInv, ReadBack, MoreSlices, testVars, deviceVars
<1>1. Shape'
  BY DEF Shape, callerVars
<1>2. slices' = <<>> /\ kernel' = "idle"
  OBVIOUS
<1>3. InARow' /\ AtEnd' /\ ByStep'
  BY <1>2 DEF InARow, AtEnd, ByStep, EndAt
<1>4. QED
  BY <1>1, <1>3

LEMMA ThrowSlices ==
  ASSUME SliceInv, Throw, UNCHANGED testVars, phase = "device"
  PROVE  SliceInv'
<1> USE DEF SliceInv, Throw, testVars, deviceVars
<1>1. Shape'
  BY DEF Shape, callerVars
<1>2. InARow' /\ AtEnd' /\ ByStep'
  BY DEF InARow, AtEnd, ByStep, EndAt, After
<1>3. QED
  BY <1>1, <1>2

LEMMA StartSlices ==
  ASSUME SliceInv, StartKernel, UNCHANGED testVars, phase = "device"
  PROVE  SliceInv'
<1> USE DEF SliceInv
<1>1. /\ slices # <<>> /\ slices' = Tail(slices)
      /\ kernel' = "running"
      /\ hash' = slices[1].start /\ end' = slices[1].end
      /\ UNCHANGED <<hostVars, digested, buffer, testVars>>
  BY DEF StartKernel
<1>2. /\ slices \in Seq([start : 1 .. NumHashes, end : Int])
      /\ Len(slices) \in Nat /\ Len(slices) > 0
      /\ slices' \in Seq([start : 1 .. NumHashes, end : Int])
      /\ Len(slices') = Len(slices) - 1
      /\ \A p \in 1 .. Len(slices') : slices'[p] = slices[p + 1]
      /\ slices[1] \in [start : 1 .. NumHashes, end : Int]
  <2> DEFINE S == [start : 1 .. NumHashes, end : Int]
  <2>1. slices \in Seq(S) /\ slices # <<>> /\ slices' = Tail(slices)
    BY <1>1 DEF Shape
  <2> HIDE DEF S
  <2>2. Len(slices) \in Nat /\ Len(slices) > 0
    BY <2>1
  <2>3. slices' \in Seq(S) /\ Len(slices') = Len(slices) - 1
    BY <2>1, <2>2
  <2>4. \A p \in 1 .. Len(slices') : slices'[p] = slices[p + 1]
    BY <2>1, <2>2, <2>3
  <2>5. slices[1] \in S
    BY <2>1, <2>2
  <2>6. QED
    BY <2>1, <2>2, <2>3, <2>4, <2>5 DEF S
<1>3. hostPc = hostPc' /\ hostPc \notin {"unbuilt", "idle"}
  BY <1>1 DEF Shape, hostVars
<1>4. Shape'
  <2>1. UNCHANGED <<step, i, hostPc, call, phase, buffer>>
    BY <1>1 DEF hostVars, testVars
  <2>2. buffer' = [k \in Cells |-> buffer'[k]]
    BY <2>1 DEF Shape, Cells
  <2>3. phase' # "library" /\ hostPc' \notin {"unbuilt", "idle"}
    BY <1>3, <2>1 DEF Shape
  <2>4. hash' \in Int /\ end' \in Int
    BY <1>1, <1>2, Numbers
  <2>5. QED
    BY <1>1, <1>2, <2>1, <2>2, <2>3, <2>4 DEF Shape
<1>5. \A p \in 0 .. Len(slices') : After(p)' = After(p + 1)
  BY <1>1, <1>2 DEF After, hostVars
<1>6. InARow'
  <2> SUFFICES ASSUME NEW p \in 1 .. Len(slices')
               PROVE  /\ slices'[p].start = After(p)' + step'
                      /\ slices'[p].end = EndAt(After(p)')
    BY DEF InARow, EndAt
  <2>1. p + 1 \in 1 .. Len(slices) /\ p \in 0 .. Len(slices')
    BY <1>2
  <2>2. slices[p + 1].start = After(p + 1) + step /\ slices[p + 1].end = EndAt(After(p + 1))
    BY <2>1 DEF InARow
  <2>3. QED
    BY <1>1, <1>2, <1>5, <2>1, <2>2 DEF hostVars
<1>7. AtEnd'
  <2>1. slices[1].start = After(1) + step /\ slices[1].end = EndAt(After(1))
    BY <1>2 DEF InARow
  <2>2. After(0)' = After(1) /\ After(1) \in Int /\ step \in Nat /\ step > 0
    <3>1. After(0)' = After(1)
      BY <1>2, <1>5
    <3>2. step \in Nat /\ step > 0 /\ i \in Int
      BY <1>3 DEF Shape
    <3>3. After(1) \in Int
      <4>1. CASE 1 < Len(slices)
        <5>1. slices[2] \in [start : 1 .. NumHashes, end : Int]
          <6> DEFINE S == [start : 1 .. NumHashes, end : Int]
          <6>1. slices \in Seq(S)
            BY <1>2
          <6> HIDE DEF S
          <6>2. slices[2] \in S
            BY <1>2, <4>1, <6>1
          <6>3. QED
            BY <6>2 DEF S
        <5>2. After(1) = slices[2].start
          BY <4>1 DEF After
        <5>3. QED
          BY <5>1, <5>2, Numbers
      <4>2. CASE ~(1 < Len(slices))
        BY <3>2, <4>2 DEF After
      <4>3. QED
        BY <4>1, <4>2
    <3>4. QED
      BY <3>1, <3>2, <3>3
  <2>3. After(1) + step \in 1 .. NumHashes
    BY <1>2, <2>1
  <2>4. EndAt(After(1)) < After(1) + step
    BY <2>2, <2>3 DEF EndAt
  <2>5. end' = EndAt(After(0)') /\ end' <= hash' /\ hash' <= NumHashes
    BY <1>1, <1>2, <2>1, <2>2, <2>3, <2>4, Numbers DEF EndAt
  <2>6. slices' = <<>> => After(0)' = i'
    BY DEF After
  <2>7. QED
    BY <2>5, <2>6 DEF AtEnd, EndAt
<1>8. ByStep'
  BY <1>1 DEF ByStep, hostVars
<1>9. QED
  BY <1>4, <1>6, <1>7, <1>8

LEMMA ComputeSlices ==
  ASSUME SliceInv, ComputeHash, UNCHANGED testVars, phase = "device"
  PROVE  SliceInv'
<1> USE DEF SliceInv
<1>1. /\ kernel = "running" /\ hash > end /\ hash' = hash - 1
      /\ UNCHANGED <<hostVars, slices, kernel, end, testVars>>
      /\ \/ buffer' = buffer
         \/ buffer' = [buffer EXCEPT ![hash - 1] = digested']
  BY DEF ComputeHash
<1>2. buffer' = [k \in Cells |-> buffer'[k]]
  BY <1>1 DEF Shape, Cells
<1>3. Shape'
  BY <1>1, <1>2 DEF Shape, hostVars, testVars, Cells
<1>4. AtEnd'
  <2>1. EndAt(After(0))' = EndAt(After(0)) /\ EndAt(i)' = EndAt(i)
    BY <1>1 DEF EndAt, After, hostVars
  <2>2. /\ hash \in Int /\ end \in Int /\ NumHashes \in Nat
        /\ end = EndAt(After(0)) /\ hash <= NumHashes
    BY <1>1, Numbers DEF AtEnd, Shape
  <2>3. end' <= hash' /\ hash' <= NumHashes
    BY <1>1, <2>2
  <2>4. call' = call /\ slices' = slices /\ i' = i /\ end' = end
    BY <1>1 DEF hostVars
  <2>5. call > 0 /\ slices = <<>> /\ i # NumHashes => end = EndAt(i)
    BY DEF AtEnd
  <2>6. QED
    BY <2>1, <2>2, <2>3, <2>4, <2>5 DEF AtEnd
<1>5. InARow' /\ ByStep'
  BY <1>1 DEF InARow, ByStep, EndAt, After, hostVars
<1>6. QED
  BY <1>3, <1>4, <1>5

LEMMA EndSlices ==
  ASSUME SliceInv, EndKernel, UNCHANGED testVars, phase = "device"
  PROVE  SliceInv'
<1> USE DEF SliceInv
<1>1. /\ kernel' = "idle"
      /\ UNCHANGED <<hostVars, slices, hash, end, testVars>>
  BY DEF EndKernel
<1>2. buffer' = [k \in Cells |-> buffer'[k]]
  BY <1>1 DEF Shape, EndKernel, Cells
<1>3. Shape'
  BY <1>1, <1>2 DEF Shape, hostVars, testVars, Cells
<1>4. InARow' /\ AtEnd' /\ ByStep'
  BY <1>1 DEF InARow, AtEnd, ByStep, EndAt, After, hostVars
<1>5. QED
  BY <1>3, <1>4

LEMMA SameSlices ==
  ASSUME SliceInv, UNCHANGED vars, phase' = "library" => phase = "library"
  PROVE  SliceInv'
<1> USE DEF SliceInv, vars, hostVars, deviceVars
<1>1. Shape'
  BY DEF Shape
<1>2. InARow' /\ AtEnd' /\ ByStep'
  BY DEF InARow, AtEnd, ByStep, EndAt, After
<1>3. QED
  BY <1>1, <1>2

LEMMA NextSlices == SliceInv /\ [TestNext]_allVars => SliceInv'
<1> SUFFICES ASSUME SliceInv, [TestNext]_allVars PROVE SliceInv'
  OBVIOUS
<1>1. CASE Call
  BY <1>1, SameSlices DEF Call
<1>2. CASE CpuPlot
  BY <1>2, SameSlices DEF CpuPlot
<1>3. CASE GpuPlot
  <2>1. phase = "device" /\ Next /\ UNCHANGED testVars
    BY <1>3 DEF GpuPlot
  <2>2. QED
    BY <2>1, BuildSlices, PlotSlices, EnqueueSlices, ReadBackSlices, ThrowSlices,
       StartSlices, ComputeSlices, EndSlices
       DEF Next, Host, Device
<1>4. CASE UNCHANGED allVars
  BY <1>4, SameSlices DEF allVars, testVars
<1>5. QED
  BY <1>1, <1>2, <1>3, <1>4 DEF TestNext

LEMMA SlicesInvariance == TestSpec => []SliceInv
<1>1. QED
  BY InitSlices, NextSlices, PTL DEF TestSpec

-----------------------------------------------------------------------------
(* The last slice                                                          *)

LEMMA CoveringIs ==
  ASSUME NEW n \in Nat, NEW d \in Nat \ {0}, NEW j \in Int,
         -d < j, j <= 0, (n - j) % d = 0
  PROVE  n % d \in {0, d - 1} <=> j \in {0, -1}
<1>1. PICK x \in Nat : n - j = d * x
  <2>1. n - j \in Nat
    OBVIOUS
  <2>2. n - j = d * ((n - j) \div d) + ((n - j) % d) /\ (n - j) \div d \in Nat
    BY <2>1, SMT
  <2>3. QED
    BY <2>2
<1>2. n = d * (n \div d) + (n % d) /\ n \div d \in Nat /\ n % d \in 0 .. d - 1
  BY SMT
<1> DEFINE q == n \div d
           r == n % d
<1>3. n = d * q + r /\ q \in Nat /\ r \in 0 .. d - 1
  BY <1>2
<1> HIDE DEF q, r
<1>4. d * x = d * q + (r - j) /\ 0 <= r - j /\ r - j < 2 * d
  BY <1>1, <1>3
<1>5. x = q \/ x = q + 1
  <2>1. CASE x < q
    <3>1. d * x <= d * (q - 1)
      BY <1>1, <1>3, <2>1, SMT
    <3>2. d * (q - 1) = d * q - d
      BY <1>3, SMT
    <3>3. QED
      BY <1>4, <3>1, <3>2, <1>1, <1>3, SMT
  <2>2. CASE x > q + 1
    <3>1. d * (q + 2) <= d * x
      BY <1>1, <1>3, <2>2, SMT
    <3>2. d * (q + 2) = d * q + 2 * d
      BY <1>3, SMT
    <3>3. QED
      BY <1>4, <3>1, <3>2, <1>1, <1>3, SMT
  <2>3. QED
    BY <1>1, <1>3, <2>1, <2>2
<1>6. d * (q + 1) = d * q + d /\ d * q \in Int
  BY <1>3, SMT
<1>7. r - j = 0 \/ r - j = d
  BY <1>3, <1>4, <1>5, <1>6
<1>8. r \in {0, d - 1} <=> j \in {0, -1}
  BY <1>3, <1>7
<1>9. QED
  BY <1>8 DEF r

LEMMA LastSliceOf == SliceInv => LastSliceEnds
<1> SUFFICES ASSUME SliceInv, hostPc = "idle", call > 0
             PROVE  end = -1 <=> step \in CoveringSteps
  BY DEF LastSliceEnds
<1>1. /\ step \in Nat \ {0} /\ i \in Int /\ i <= 0 /\ slices = <<>>
      /\ -step < i /\ (NumHashes - i) % step = 0
  BY DEF SliceInv, Shape, ByStep
<1>2. end = EndAt(i)
  BY <1>1, Numbers DEF SliceInv, AtEnd
<1>3. step \in CoveringSteps <=> i \in {0, -1}
  BY <1>1, CoveringIs, Numbers DEF CoveringSteps
<1>4. QED
  BY <1>1, <1>2, <1>3 DEF EndAt

\* The last slice of a plot is one that ends at -1, in which the kernel combines
\* the plot with its last hash, exactly if the step divides the plot or leaves
\* one hash less than a slice (gpu_plotter.h:70-74).
THEOREM LastSliceRight == TestSpec => []LastSliceEnds
<1>1. QED
  BY LastSliceOf, SlicesInvariance, PTL

-----------------------------------------------------------------------------
(* The chain                                                               *)

\* The first hash that nobody has begun to compute below.
Foremost == IF kernel = "running" THEN hash ELSE After(0)

Idle == kernel = "idle" /\ After(0) <= 0

\* The hash of the CPU in a cell.
OfCpu(c) == HashAt(cpu[call].chain, HashSize * c)

\* A hash that was combined with the last one computed.
WithLast(h) == [k \in 0 .. 7 |-> Xor[h[k], digested[k]]]

Whole ==
  \A c \in Cells : buffer[c] = IF end = -1 THEN WithLast(OfCpu(c)) ELSE OfCpu(c)

\* From the front on the buffer is right; when all slices are done, all of it
\* is, and what was read back is the same.
ChainInv ==
  /\ ~Idle => ChainFrom(Foremost)
  /\ Idle /\ call > 0 => Whole
  /\ hostPc = "idle" /\ call > 0 => hostBuff = buffer

RightInv == SliceInv /\ ChainInv

LEMMA InitChain == TestInit => ChainInv
BY DEF TestInit, Init, ChainInv, Idle, After

\* A step that leaves alone what the chain consists of.
LEMMA SameChain ==
  ASSUME ChainInv,
         UNCHANGED <<call, cpu, end, digested, buffer, hostBuff, hostPc>>,
         Idle' <=> Idle, ~Idle => Foremost' = Foremost
  PROVE  ChainInv'
<1>1. \A p \in Int : ChainFrom(p)' <=> ChainFrom(p)
  BY DEF ChainFrom
<1>2. Whole' <=> Whole
  BY DEF Whole, WithLast, OfCpu
<1>3. ~Idle' => ChainFrom(Foremost)'
  BY DEF ChainInv, ChainFrom
<1>4. QED
  BY <1>2, <1>3 DEF ChainInv

LEMMA BuildChain ==
  ASSUME RightInv, NEW arg \in StepArgs, Build(arg), UNCHANGED testVars
  PROVE  ChainInv'
<1>1. /\ call' = 0 /\ kernel' = "idle" /\ slices' = <<>> /\ i' = i /\ i <= 0
  BY DEF RightInv, SliceInv, Shape, Build, deviceVars
<1>2. Idle'
  BY <1>1 DEF Idle, After
<1>3. QED
  BY <1>1, <1>2 DEF ChainInv

LEMMA PlotChain ==
  ASSUME RightInv, Plot, UNCHANGED testVars
  PROVE  ChainInv'
<1>1. /\ hostPc' = "launch" /\ kernel' = "idle" /\ slices' = <<>> /\ i' = NumHashes
  BY DEF RightInv, SliceInv, Shape, Plot, deviceVars
<1>2. ~Idle' /\ Foremost' = NumHashes
  BY <1>1, Numbers DEF Idle, After, Foremost
<1>3. ChainFrom(Foremost)'
  BY <1>2, Numbers DEF ChainFrom, Cells
<1>4. QED
  BY <1>1, <1>2, <1>3 DEF ChainInv

LEMMA EnqueueChain ==
  ASSUME RightInv, Enqueue, UNCHANGED testVars
  PROVE  ChainInv'
<1>1. /\ i > 0 /\ slices' = Append(slices, [start |-> i, end |-> SliceEnd(i)])
      /\ UNCHANGED <<call, cpu, deviceVars, hostBuff, hostPc>>
  BY DEF Enqueue, MoreSlices, testVars
<1>2. After(0)' = After(0)
  <2> DEFINE S == [start : 1 .. NumHashes, end : Int]
             slice == [start |-> i, end |-> SliceEnd(i)]
  <2>1. slices \in Seq(S) /\ slice \in S
    <3>1. slices \in Seq(S) /\ i \in Int /\ i <= NumHashes /\ step \in Nat
      BY DEF RightInv, SliceInv, Shape
    <3>2. SliceEnd(i) \in Int
      BY <3>1, SliceEndIs DEF EndAt
    <3>3. QED
      BY <1>1, <3>1, <3>2, Numbers
  <2> HIDE DEF S
  <2>2. Len(slices') = Len(slices) + 1 /\ Len(slices) \in Nat
    BY <1>1, <2>1
  <2>3. slices'[1] = IF Len(slices) = 0 THEN slice ELSE slices[1]
    BY <1>1, <2>1
  <2>4. QED
    BY <2>2, <2>3 DEF After
<1>3. Idle' <=> Idle
  BY <1>1, <1>2 DEF Idle, deviceVars
<1>4. Foremost' = Foremost
  BY <1>1, <1>2 DEF Foremost, deviceVars
<1>5. QED
  BY <1>1, <1>3, <1>4, SameChain DEF RightInv, deviceVars

LEMMA ReadBackChain ==
  ASSUME RightInv, ReadBack, UNCHANGED testVars
  PROVE  ChainInv'
<1>1. /\ ~(i > 0) /\ i \in Int /\ slices = <<>> /\ kernel = "idle" /\ hostBuff' = buffer
      /\ UNCHANGED <<i, call, cpu, slices, deviceVars>>
  BY DEF ReadBack, MoreSlices, testVars, RightInv, SliceInv, Shape
<1>2. Idle /\ Idle'
  BY <1>1 DEF Idle, After, deviceVars
<1>3. Whole' <=> Whole
  BY <1>1 DEF Whole, WithLast, OfCpu, deviceVars
<1>4. QED
  BY <1>1, <1>2, <1>3 DEF ChainInv, RightInv, deviceVars

LEMMA ThrowChain ==
  ASSUME RightInv, Throw, UNCHANGED testVars
  PROVE  ChainInv'
<1>1. /\ hostPc' = "failed"
      /\ UNCHANGED <<step, i, call, cpu, hostBuff, slices, deviceVars>>
  BY DEF Throw, testVars
<1>2. (Idle' <=> Idle) /\ Foremost' = Foremost
  BY <1>1 DEF Idle, Foremost, After, deviceVars
<1>3. Whole' <=> Whole
  BY <1>1 DEF Whole, WithLast, OfCpu, deviceVars
<1>4. ChainFrom(Foremost)' <=> ChainFrom(Foremost)
  BY <1>1, <1>2 DEF ChainFrom, deviceVars
<1>5. QED
  BY <1>1, <1>2, <1>3, <1>4 DEF ChainInv, RightInv

LEMMA StartChain ==
  ASSUME RightInv, StartKernel, UNCHANGED testVars
  PROVE  ChainInv'
<1>1. /\ slices # <<>> /\ kernel = "idle" /\ kernel' = "running"
      /\ hash' = slices[1].start
      /\ UNCHANGED <<call, cpu, hostBuff, hostPc, digested, buffer>>
  BY DEF StartKernel, testVars, hostVars
<1>2. slices[1].start \in 1 .. NumHashes /\ Len(slices) > 0
  <2> DEFINE S == [start : 1 .. NumHashes, end : Int]
  <2>1. slices \in Seq(S)
    BY DEF RightInv, SliceInv, Shape
  <2> HIDE DEF S
  <2>2. slices[1] \in S /\ Len(slices) > 0
    BY <1>1, <2>1
  <2>3. QED
    BY <2>2 DEF S
<1>3. ~Idle /\ ~Idle' /\ Foremost = slices[1].start /\ Foremost' = slices[1].start
  BY <1>1, <1>2, Numbers DEF Idle, Foremost, After
<1>4. ChainFrom(Foremost)' <=> ChainFrom(Foremost)
  BY <1>1, <1>3 DEF ChainFrom
<1>5. hostPc \notin {"idle"}
  BY <1>1 DEF RightInv, SliceInv, Shape
<1>6. QED
  BY <1>1, <1>3, <1>4, <1>5 DEF ChainInv, RightInv

\* Where a hash is right, the one below becomes right.
LEMMA ComputeChain ==
  ASSUME RightInv, KernelHashIsRight, ComputeHash, UNCHANGED testVars
  PROVE  ChainInv'
<1>1. /\ kernel = "running" /\ kernel' = "running" /\ hash > end /\ hash' = hash - 1
      /\ digested' = KernelHash(Nonces[call], hash)
      /\ buffer' = IF hash > 0 THEN [buffer EXCEPT ![hash - 1] = digested'] ELSE buffer
      /\ UNCHANGED <<hostVars, cpu>>
  BY DEF ComputeHash, testVars
<1>2. /\ hash \in Int /\ hash <= NumHashes /\ buffer = [k \in Cells |-> buffer[k]]
      /\ hostPc # "idle"
  BY <1>1 DEF RightInv, SliceInv, Shape, AtEnd
<1>3. ~Idle /\ ~Idle' /\ Foremost = hash /\ Foremost' = hash - 1
  BY <1>1 DEF Idle, Foremost
<1>4. \A k \in Cells : k >= hash => buffer[k] = OfCpu(k)
  BY <1>3 DEF RightInv, ChainInv, ChainFrom, OfCpu
<1>5. \A k \in Cells : k >= hash - 1 => buffer'[k] = OfCpu(k)
  <2>1. CASE hash > 0
    <3>1. digested' = OfCpu(hash - 1)
      BY <1>1, <1>4, <2>1 DEF KernelHashIsRight, ChainFrom, OfCpu
    <3>2. hash - 1 \in Cells /\ Cells \subseteq Int
      BY <1>2, <2>1, Numbers DEF Cells
    <3>3. \A k \in Cells : buffer'[k] = IF k = hash - 1 THEN digested' ELSE buffer[k]
      BY <1>1, <1>2, <2>1, <3>2
    <3>4. QED
      BY <1>2, <1>4, <3>1, <3>2, <3>3
  <2>2. CASE ~(hash > 0)
    BY <1>1, <1>2, <1>4, <2>2 DEF Cells
  <2>3. QED
    BY <2>1, <2>2
<1>6. \A k \in Cells : OfCpu(k)' = OfCpu(k)
  BY <1>1 DEF OfCpu, hostVars
<1>7. ChainFrom(Foremost)'
  BY <1>3, <1>5, <1>6 DEF ChainFrom, OfCpu
<1>8. QED
  BY <1>1, <1>2, <1>3, <1>7 DEF ChainInv, hostVars

\* A slice ends where the next one starts; the last one has all of the chain.
LEMMA EndChain ==
  ASSUME RightInv, EndKernel, UNCHANGED testVars
  PROVE  ChainInv'
<1>1. /\ kernel = "running" /\ hash <= end /\ kernel' = "idle"
      /\ buffer' = IF end = -1 THEN [c \in Cells |-> WithLast(buffer[c])] ELSE buffer
      /\ UNCHANGED <<hostVars, slices, hash, end, digested, cpu>>
  BY DEF EndKernel, Combines, testVars, WithLast
<1>2. /\ hash \in Int /\ end \in Int /\ hash = end /\ end = EndAt(After(0))
      /\ hostPc # "idle"
  BY <1>1 DEF RightInv, SliceInv, Shape, AtEnd
<1>3. After(0) \in Int
  <2>1. CASE slices = <<>>
    BY <2>1 DEF After, RightInv, SliceInv, Shape
  <2>2. CASE slices # <<>>
    <3> DEFINE S == [start : 1 .. NumHashes, end : Int]
    <3>1. slices \in Seq(S)
      BY DEF RightInv, SliceInv, Shape
    <3> HIDE DEF S
    <3>2. slices[1] \in S /\ Len(slices) > 0
      BY <2>2, <3>1
    <3>3. slices[1].start \in 1 .. NumHashes
      BY <3>2 DEF S
    <3>4. QED
      BY <3>2, <3>3, Numbers DEF After
  <2>3. QED
    BY <2>1, <2>2
<1>4. \A k \in Cells : k >= end => buffer[k] = OfCpu(k)
  <2>1. ~Idle /\ Foremost = end
    BY <1>1, <1>2 DEF Idle, Foremost
  <2>2. QED
    BY <2>1 DEF RightInv, ChainInv, ChainFrom, OfCpu
<1>5. After(0)' = After(0)
  BY <1>1 DEF After, hostVars
<1>6. \A k \in Cells : OfCpu(k)' = OfCpu(k)
  BY <1>1 DEF OfCpu, hostVars
<1>7. ~Idle' => ChainFrom(Foremost)'
  <2> SUFFICES ASSUME ~Idle' PROVE ChainFrom(Foremost)'
    OBVIOUS
  <2>1. After(0) > 0 /\ Foremost' = After(0)
    BY <1>1, <1>3, <1>5 DEF Idle, Foremost
  <2>2. end = After(0) /\ end # -1
    BY <1>2, <1>3, <2>1 DEF EndAt
  <2>3. QED
    BY <1>1, <1>4, <1>6, <2>1, <2>2 DEF ChainFrom, OfCpu
<1>8. Idle' => Whole'
  <2> SUFFICES ASSUME Idle', NEW c \in Cells
               PROVE  buffer'[c] = IF end' = -1 THEN WithLast(OfCpu(c))' ELSE OfCpu(c)'
    BY DEF Whole
  <2>1. end < 0
    BY <1>2, <1>3, <1>5 DEF Idle, EndAt
  <2>2. buffer[c] = OfCpu(c)
    BY <1>2, <1>4, <2>1 DEF Cells
  <2>3. WithLast(OfCpu(c))' = WithLast(OfCpu(c)) /\ OfCpu(c)' = OfCpu(c)
    BY <1>1, <1>6 DEF WithLast
  <2>4. end' = end
    BY <1>1
  <2>5. QED
    BY <1>1, <2>2, <2>3, <2>4
<1>9. QED
  BY <1>1, <1>2, <1>7, <1>8 DEF ChainInv, hostVars

LEMMA CpuPlotChain ==
  ASSUME RightInv, CpuPlot
  PROVE  ChainInv'
<1>1. /\ hostPc = "unbuilt" /\ call = 0 /\ slices = <<>> /\ kernel = "idle" /\ i <= 0
  BY DEF CpuPlot, RightInv, SliceInv, Shape
<1>2. /\ call' = 0 /\ Idle'
  BY <1>1 DEF CpuPlot, Idle, After, vars, hostVars, deviceVars
<1>3. QED
  BY <1>2 DEF ChainInv

LEMMA UnchangedChain ==
  ASSUME RightInv, UNCHANGED <<vars, cpu>>
  PROVE  ChainInv'
<1>1. (Idle' <=> Idle) /\ Foremost' = Foremost
  BY DEF Idle, Foremost, After, vars, hostVars, deviceVars
<1>2. QED
  BY <1>1, SameChain DEF RightInv, vars, hostVars, deviceVars

LEMMA NextChain ==
  RightInv /\ KernelHashIsRight /\ [TestNext]_allVars => ChainInv'
<1> SUFFICES ASSUME RightInv, KernelHashIsRight, [TestNext]_allVars PROVE ChainInv'
  OBVIOUS
<1>1. CASE Call
  BY <1>1, UnchangedChain DEF Call
<1>2. CASE CpuPlot
  BY <1>2, CpuPlotChain
<1>3. CASE GpuPlot
  <2>1. Next /\ UNCHANGED testVars
    BY <1>3 DEF GpuPlot
  <2>2. QED
    BY <2>1, BuildChain, PlotChain, EnqueueChain, ReadBackChain, ThrowChain,
       StartChain, ComputeChain, EndChain
       DEF Next, Host, Device
<1>4. CASE UNCHANGED allVars
  BY <1>4, UnchangedChain DEF allVars, testVars
<1>5. QED
  BY <1>1, <1>2, <1>3, <1>4 DEF TestNext

LEMMA ChainInvariance == TestSpec /\ []KernelHashIsRight => []RightInv
<1>1. TestInit => RightInv
  BY InitSlices, InitChain DEF RightInv
<1>2. RightInv /\ KernelHashIsRight /\ [TestNext]_allVars => RightInv'
  BY NextSlices, NextChain DEF RightInv
<1>3. QED
  BY <1>1, <1>2, PTL DEF TestSpec

\* If the kernel computes each hash right on a right buffer, then with any step
\* and any number of hashes, and whatever the nonce before left, all hashes
\* above the one it is at are those of the CPU (kernel.h:340-435).
THEOREM SlicesKeepChain == TestSpec /\ []KernelHashIsRight => []ChainAbove
<1>1. RightInv => ChainAbove
  BY DEF RightInv, ChainInv, ChainAbove, Idle, Foremost
<1>2. QED
  BY <1>1, ChainInvariance, PTL

\* Under the same condition what plot reads back is the whole chain of the CPU,
\* combined with the last hash computed exactly for the covering steps
\* (gpu_plotter.h:70-78, kernel.h:436-448).
THEOREM PlotsAreCombined == TestSpec /\ []KernelHashIsRight => []PlotIsCombined
<1>1. SliceInv => LastSliceEnds
  BY LastSliceOf
<1>2. RightInv => PlotIsCombined
  <2> SUFFICES ASSUME RightInv, hostPc = "idle", call > 0
               PROVE  hostBuff = [c \in Cells |->
                                    IF step \in CoveringSteps THEN WithLast(OfCpu(c))
                                    ELSE OfCpu(c)]
    BY DEF PlotIsCombined, WithLast, OfCpu
  <2>1. Idle
    BY DEF Idle, After, RightInv, SliceInv, Shape
  <2>2. Whole /\ hostBuff = buffer
    BY <2>1 DEF RightInv, ChainInv
  <2>3. end = -1 <=> step \in CoveringSteps
    BY <1>1 DEF RightInv, LastSliceEnds
  <2>4. buffer = [k \in Cells |-> buffer[k]]
    BY DEF RightInv, SliceInv, Shape
  <2>5. \A c \in Cells : buffer[c] = IF step \in CoveringSteps THEN WithLast(OfCpu(c))
                                     ELSE OfCpu(c)
    BY <2>2, <2>3 DEF Whole
  <2>6. QED
    BY <2>2, <2>4, <2>5
<1>3. QED
  BY <1>2, ChainInvariance, PTL
=============================================================================
