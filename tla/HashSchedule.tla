---------------------------- MODULE HashSchedule ----------------------------
(***************************************************************************)
(* The hash chain of a nonce on the device.  gpu_plotter::plot             *)
(* (src/src/poc/gpu_plotter.h:61-84) enqueues the kernel in slices of step *)
(* hashes, from the last hash of the plot down; the kernel                 *)
(* (src/kernel/kernel.h:334-448) computes the hashes of a slice and, in    *)
(* the slice whose end is -1, combines the whole plot with the last one.   *)
(* CpuPlotter is the reference: it computes the chain in one loop.         *)
(*                                                                         *)
(* The kernel works on words and on whole blocks, without the library.     *)
(* One work item stands for all, since each touches its own nonce only.  A *)
(* negative step is left out.                                              *)
(*                                                                         *)
(* A definition marked "Bug" is a plausible mistake in the code modelled   *)
(* by the definition after it.  No behaviour of the module uses it.        *)
(***************************************************************************)
EXTENDS CpuPlotter

CONSTANTS
  PlotId,       \* the id of the account, 8 bytes
  Nonces,       \* the nonces to plot, 8 bytes each, the lowest first
  DefaultStep,  \* the step that gpu_plotter takes for 0, 32
  StepArgs,     \* the values of --step
  QueueLimit    \* bound: kernels the driver queues before it blocks

ASSUME PlotsAssumption ==
  /\ PlotId \in [1 .. 8 -> Byte]
  /\ Nonces \in Seq([1 .. 8 -> Byte]) /\ Nonces # <<>>

ASSUME StepsAssumption ==
  /\ DefaultStep \in Nat \ {0}
  /\ StepArgs \subseteq Nat

ASSUME BoundsAssumption == QueueLimit \in Nat \ {0}

VARIABLES
  step,         \* step_
  hostPc,       \* where the host is in plot
  i,            \* its loop variable
  call,         \* how many plots were begun: the nonce is Nonces[call]
  slices,       \* the kernels in the command queue
  kernel,       \* whether a kernel runs
  hash, end,    \* its loop variable and its argument
  digested,     \* B8 to BF, the last hash computed
  buffer,       \* dev_buff_[0], the part of the work item
  hostBuff      \* host_buff, read back from it

hostVars   == <<step, hostPc, i, call, hostBuff>>
deviceVars == <<kernel, hash, end, digested, buffer>>
vars       == <<hostVars, slices, deviceVars>>

Cells == 0 .. NumHashes - 1

\* A hash is an array of words on the device.
Hashes == [0 .. 7 -> WordSet]

\* What memory holds that nobody wrote.
Unset == [k \in 0 .. 7 |-> Zero]

---------------------------------------------------------------------------
(* The kernel's numbers and messages.                                      *)

\* rotate(n, 8 * k)
rotate8(n, k) == [j \in 1 .. 8 |-> n[((j - 1 - k) % 8) + 1]]

\* b where the mask has ones, a elsewhere; the mask is named by its bytes.
bitselect(a, b, mask) == [j \in 1 .. 8 |-> IF j \in mask THEN b[j] ELSE a[j]]

EndianSwap64_Not(n) == n                           \* Bug: the nonce as it is

EndianSwap64(n) ==
  bitselect(bitselect(rotate8(n, 3), rotate8(n, 1), {1, 5}),
            bitselect(rotate8(n, 7), rotate8(n, 5), {3, 7}),
            {3, 4, 7, 8})

\* numeric_id_be, which the host swapped, and nonce_be, as words.
SeedWords(nonce) ==
  LET bytes == hton_ull(PlotId) \o EndianSwap64(nonce)
  IN  [k \in 0 .. 3 |-> sph_dec32le_aligned(SubSeq(bytes, 4 * k + 1, 4 * k + 4))]

\* A read outside of the buffer yields words of no hash.
Cell(k) == IF k \in Cells THEN buffer[k] ELSE Unset

Pairs_Uncapped(h) == (NumHashes - h) \div 2        \* Bug: no limit

\* How many pairs of hashes the kernel reads for hash h.
Pairs(h) ==
  LET num == (NumHashes - h) \div 2
  IN  IF h # 0 /\ num > MessageCap THEN MessageCap ELSE num

\* M0 to MF in turn j of the loop over the pairs.
PairBlock(h, j) == [k \in 0 .. 15 |-> Cell(h + 2 * (j - 1) + k \div 8)[k % 8]]

\* words, then the byte 0x80 behind the message, then zeros.
Ended(words, len) ==
  [k \in 0 .. 15 |-> IF k < len THEN words[k]
                     ELSE IF k = len THEN <<0, 128>> ELSE Zero]

\* M0 to MF at the end: the message may be cut off, end with the seed, or
\* with a hash that has no pair and the seed.
LastBlock(nonce, h) ==
  IF Pairs(h) = MessageCap THEN Ended(<<>>, 0)
  ELSE IF h % 2 = 0 THEN Ended(SeedWords(nonce), 4)
  ELSE Ended([k \in 0 .. 11 |-> IF k < 8 THEN Cell(NumHashes - 1)[k]
                                ELSE SeedWords(nonce)[k - 8]], 12)

---------------------------------------------------------------------------
(* The kernel's hash function.                                             *)

\* The registers before the first block.
Registers ==
  [A |-> A_init_256, B |-> B_init_256, C |-> C_init_256,
   M |-> [k \in 0 .. 15 |-> Zero], Wlow |-> <<0, 1>>, Whigh |-> Zero]

\* The registers after turn j of the loop over the pairs and all that follow.
PairsFrom[r \in Locals, h \in Int, j \in Nat] ==
  IF j > Pairs(h) THEN r
  ELSE PairsFrom[Leave[Enter[[r EXCEPT !.M = PairBlock(h, j)]]], h, j + 1]

\* B8 to BF.
LastWords[r \in Locals] == [k \in 0 .. 7 |-> r.B[k + 8]]

\* The last block and the three rounds without input.
KernelHash(nonce, h) ==
  LET r == [PairsFrom[Registers, h, 1] EXCEPT !.M = LastBlock(nonce, h)]
  IN  LastWords[FinalRounds(Enter[r])]

---------------------------------------------------------------------------
(* The host.                                                               *)

StepOf_Arg(arg) == arg                             \* Bug: 0 is not replaced

StepOf(arg) == IF arg = 0 THEN DefaultStep ELSE arg

Init ==
  /\ step = 0
  /\ hostPc = "unbuilt" /\ i = 0 /\ call = 0
  /\ slices = <<>>
  /\ kernel = "idle" /\ hash = 0 /\ end = 0
  /\ digested = Unset
  /\ buffer = [k \in Cells |-> Unset]
  /\ hostBuff = [k \in Cells |-> Unset]

\* The constructor.
Build(arg) ==
  /\ hostPc = "unbuilt"
  /\ hostPc' = "idle"
  /\ step' = StepOf(arg)
  /\ UNCHANGED <<i, call, hostBuff, slices, deviceVars>>

\* The hasher asks for the next nonce.
Plot ==
  /\ hostPc = "idle"
  /\ call < Len(Nonces)
  /\ hostPc' = "launch"
  /\ i' = NumHashes
  /\ call' = call + 1
  /\ UNCHANGED <<step, hostBuff, slices, deviceVars>>

SliceEnd_NoLast(j) == j - step                     \* Bug: hash 0 is left out

\* The last hash of the slice that starts at j is the one above it.
SliceEnd(j) == j - step - (IF j = step THEN 1 ELSE 0)

MoreSlices_Zero(j) == j >= 0                       \* Bug: one slice too many

MoreSlices(j) == j > 0

Enqueue ==
  /\ hostPc = "launch"
  /\ MoreSlices(i)
  /\ Len(slices) < QueueLimit
  /\ slices' = Append(slices, [start |-> i, end |-> SliceEnd(i)])
  /\ i' = i - step
  /\ UNCHANGED <<step, hostPc, call, hostBuff, deviceVars>>

\* cqueue_.finish(), then the copy to the host.
ReadBack ==
  /\ hostPc = "launch"
  /\ ~MoreSlices(i)
  /\ slices = <<>>
  /\ kernel = "idle"
  /\ hostPc' = "idle"
  /\ hostBuff' = buffer
  /\ UNCHANGED <<step, i, call, slices, deviceVars>>

\* A call of OpenCL throws; nobody catches it and the program ends.
Throw ==
  /\ hostPc = "launch"
  /\ hostPc' = "failed"
  /\ UNCHANGED <<step, i, call, hostBuff, slices, deviceVars>>

---------------------------------------------------------------------------
(* The device.  The command queue keeps its order.                         *)

StartKernel ==
  /\ hostPc # "failed"
  /\ kernel = "idle"
  /\ slices # <<>>
  /\ kernel' = "running"
  /\ hash' = Head(slices).start
  /\ end' = Head(slices).end
  /\ slices' = Tail(slices)
  /\ UNCHANGED <<hostVars, digested, buffer>>

ComputeHash ==
  /\ hostPc # "failed"
  /\ kernel = "running"
  /\ hash > end
  /\ hash' = hash - 1
  /\ UNCHANGED <<hostVars, slices, kernel, end>>
  /\ digested' = KernelHash(Nonces[call], hash)
  /\ buffer' = IF hash > 0 THEN [buffer EXCEPT ![hash - 1] = digested'] ELSE buffer

Combines_Negative == end < 0                       \* Bug: any last slice

\* Only the last slice combines the plot with its last hash.
Combines == end = -1

EndKernel ==
  /\ hostPc # "failed"
  /\ kernel = "running"
  /\ hash <= end
  /\ kernel' = "idle"
  /\ buffer' = IF Combines
               THEN [c \in Cells |-> [k \in 0 .. 7 |-> Xor[buffer[c][k], digested[k]]]]
               ELSE buffer
  /\ UNCHANGED <<hostVars, slices, hash, end, digested>>

---------------------------------------------------------------------------
Host   == Plot \/ Enqueue \/ ReadBack
Device == StartKernel \/ ComputeHash \/ EndKernel

Next ==
  \/ \E arg \in StepArgs : Build(arg)
  \/ Host
  \/ Throw
  \/ Device

---------------------------------------------------------------------------
(* Properties.                                                             *)

\* A slice starts inside of the plot, and every variable has its type.
TypeOK ==
  /\ step \in Nat
  /\ hostPc \in {"unbuilt", "idle", "launch", "failed"}
  /\ i \in Int
  /\ call \in 0 .. Len(Nonces)
  /\ \A s \in ToSet(slices) : s.start \in 1 .. NumHashes /\ s.end < s.start
  /\ Len(slices) <= QueueLimit
  /\ kernel \in {"idle", "running"}
  /\ hash \in Int /\ end \in Int
  /\ digested \in Hashes
  /\ buffer \in [Cells -> Hashes]
  /\ hostBuff \in [Cells -> Hashes]

\* plot returns or throws, with any step, 0 included (gpu_plotter.h:28).
PlotReturns == hostPc = "launch" ~> hostPc # "launch"
=============================================================================
