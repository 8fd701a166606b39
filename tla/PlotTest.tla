------------------------------ MODULE PlotTest ------------------------------
(***************************************************************************)
(* --test (src/src/plotter.cpp:21-62): the plot of the CPU, then that of   *)
(* the device, which somebody compares.  The chain of HashSchedule is held *)
(* against that of CpuPlotter here, for every nonce and not only for the   *)
(* first one, and all of the plot and not only its first scoop.            *)
(*                                                                         *)
(* Any other program may call the hash library in every way that           *)
(* src/contrib/shabal/sph_shabal.h allows; the calls that cpu_plotter      *)
(* makes are in one step, CpuPlot.                                         *)
(***************************************************************************)
EXTENDS HashSchedule

CONSTANTS
  Chunks,       \* bound: how many bytes a caller passes at a time
  MaxFed,       \* bound: how many bytes make a message
  Tails         \* bound: the bits <<ub, n>> that a caller adds at the end

ASSUME CallerAssumption ==
  /\ Chunks \subseteq Nat /\ MaxFed \in Nat
  /\ Tails \subseteq Byte \X (0 .. 7)

VARIABLES
  phase,        \* which part of the program runs
  cpu,          \* what the CPU computed, for each nonce
  context,      \* the context of a caller
  size,         \* the bits of output it was initialized for
  fed,          \* how many bytes it was given since
  written       \* the digest that the last call wrote, and of what

callerVars == <<context, size, fed, written>>
testVars   == <<phase, cpu, callerVars>>
allVars    == <<vars, testVars>>

None == [none |-> TRUE]

---------------------------------------------------------------------------
(* The callers of the library.                                             *)

\* A message that goes on: no two of its bytes nearby are the same.
Data(from, len) == [k \in 1 .. len |-> (37 * (from + k)) % 256]

CallerInit ==
  /\ context = None /\ size = 0 /\ fed = 0 /\ written = None

CallInit(bits) ==
  /\ context' = shabal_init(bits)
  /\ size' = bits
  /\ fed' = 0
  /\ written' = None

CallUpdate(len) ==
  /\ context # None
  /\ fed + len <= MaxFed
  /\ context' = shabal_core(context, Data(fed, len))
  /\ fed' = fed + len
  /\ written' = None
  /\ UNCHANGED size

CallClose(ub, n) ==
  /\ context # None
  /\ \E closed \in {shabal_close(context, ub, n, size \div 32)} :
       /\ context' = closed.sc
       /\ written' = [dst |-> closed.dst, len |-> fed, ub |-> ub, n |-> n]
  /\ fed' = 0
  /\ UNCHANGED size

Call ==
  /\ phase = "library"
  /\ \/ \E bits \in Sizes : CallInit(bits)
     \/ \E len \in Chunks : CallUpdate(len)
     \/ \E tail \in Tails : CallClose(tail[1], tail[2])
  /\ UNCHANGED <<vars, phase, cpu>>

---------------------------------------------------------------------------
(* The test.                                                               *)

TestInit == Init /\ CallerInit /\ phase = "library" /\ cpu = <<>>

\* cplot.plot, in a program that no other caller of the library is in.
CpuPlot ==
  /\ phase = "library"
  /\ context = None
  /\ phase' = "device"
  /\ cpu' = [n \in DOMAIN Nonces |-> plot(PlotId, Nonces[n])]
  /\ UNCHANGED <<vars, callerVars>>

GpuPlot ==
  /\ phase = "device"
  /\ Next
  /\ UNCHANGED testVars

TestNext == Call \/ CpuPlot \/ GpuPlot

\* Nobody has to call the library or to start the test.
TestSpec ==
  /\ TestInit /\ [][TestNext]_allVars
  /\ WF_allVars(phase = "device" /\ Host /\ UNCHANGED testVars)
  /\ WF_allVars(phase = "device" /\ Device /\ UNCHANGED testVars)

---------------------------------------------------------------------------
(* What Shabal is: every block is a round of its own with the next value   *)
(* of the counter, and the last one is taken four times.                   *)

Round(s, block) ==
  SWAP_BC(INPUT_BLOCK_SUB(Enter[[s EXCEPT !.M = DECODE_BLOCK(block)]]))

\* The rounds of all blocks but the last advance the counter.
RoundsOf[s \in Locals, blocks \in Seq(Seq(Byte))] ==
  IF blocks = <<>> THEN s
  ELSE RoundsOf[INCR_W(Round(s, Head(blocks))), Tail(blocks)]

Again[s \in Locals, block \in Seq(Byte), times \in 0 .. 4] ==
  IF times = 0 THEN s ELSE Again[Round(s, block), block, times - 1]

\* A message in blocks.
InBlocks(bytes) ==
  [k \in 1 .. Len(bytes) \div BlockSize |->
     SubSeq(bytes, BlockSize * (k - 1) + 1, BlockSize * k)]

\* Before the message come 32 words that count up from the size of the
\* output, with the counter at -1 and 0.
Prefix(bits) ==
  FlattenSeq([k \in 1 .. 32 |-> sph_enc32le_aligned(<<0, bits + k - 1>>)])

Blank ==
  [A |-> [k \in 0 .. 11 |-> Zero], B |-> [k \in 0 .. 15 |-> Zero],
   C |-> [k \in 0 .. 15 |-> Zero], M |-> [k \in 0 .. 15 |-> Zero],
   Wlow |-> Not[Zero], Whigh |-> Not[Zero]]

Prefixed(bits) == RoundsOf[Blank, InBlocks(Prefix(bits))]

\* The message, the n bits, a one, and zeros up to the end of a block.
Message(len, ub, n) ==
  LET bytes == Append(Data(0, len), (ub \div 2 ^ (8 - n)) * 2 ^ (8 - n) + 2 ^ (7 - n))
  IN  bytes \o [k \in 1 .. (-Len(bytes)) % BlockSize |-> 0]

\* The last words of C: the code has not swapped B and C when it is done.
Digest(bits, len, ub, n) ==
  LET blocks == InBlocks(Message(len, ub, n))
      s == RoundsOf[Prefixed(bits), Front(blocks)]
  IN  Output[SWAP_BC(Again[s, Last(blocks), 4]), bits \div 32]

---------------------------------------------------------------------------
(* Properties.                                                             *)

TestTypeOK ==
  /\ TypeOK
  /\ phase \in {"library", "device"}
  /\ context \in Context \cup {None}
  /\ size \in Sizes \cup {0}
  /\ fed \in 0 .. MaxFed

\* However a message is cut into calls, and whatever the context was used for
\* before, the digest is that of the message (sph_shabal.cpp:536-657).
DigestOfMessage ==
  written # None =>
    written.dst = Digest(size, written.len, written.ub, written.n)

\* A context that nobody fed, be it new or just closed, is as if two blocks
\* of prefix had gone through the rounds: "We have precomputed initial states
\* for all the supported output bit lengths" (sph_shabal.cpp:491-494).
FreshIsPrefixed ==
  context # None /\ fed = 0 =>
    LET r == Prefixed(size)
    IN  /\ context.buf = <<>>
        /\ <<context.A, context.B, context.C>> = <<r.A, r.B, r.C>>
        /\ <<context.Wlow, context.Whigh>> = <<r.Wlow, r.Whigh>>

\* The hash that starts at a byte of the CPU's memory, as words.
HashAt(data, at) ==
  [k \in 0 .. 7 |->
     sph_dec32le_aligned(SubSeq(data, at + 4 * k + 1, at + 4 * k + 4))]

\* From a place on the buffer has the hashes that the CPU has there, word for
\* word.
ChainFrom(place) ==
  \A k \in Cells :
    k >= place => buffer[k] = HashAt(cpu[call].chain, HashSize * k)

\* Where all hashes above are right the kernel computes the next one as the
\* CPU does, though on words instead of bytes, on blocks that it puts together
\* itself, and with an ending of its own for each kind of message (kernel.h:
\* 342-423).
KernelHashIsRight ==
  kernel = "running" /\ hash > 0 /\ hash > end /\ ChainFrom(hash) =>
    KernelHash(Nonces[call], hash) = HashAt(cpu[call].chain, HashSize * (hash - 1))

\* With any step: whatever slices the chain is cut into, and whatever the
\* nonce before left in the buffer, above the hash that the kernel is at are
\* the hashes the CPU has there (kernel.h:340-435).
ChainAbove == kernel = "running" => ChainFrom(hash)

\* The steps whose last slice ends at -1: those that divide the plot, and
\* those that leave one hash less than a slice.
CoveringSteps == {s \in Nat \ {0} : NumHashes % s \in {0, s - 1}}

\* After a plot the last slice was one that ends at -1, in which the kernel
\* combines the plot with its last hash, exactly for these steps
\* (gpu_plotter.h:70-74).
LastSliceEnds ==
  hostPc = "idle" /\ call > 0 => (end = -1 <=> step \in CoveringSteps)

\* What is read back is the chain of the CPU, combined with the last hash that
\* was computed exactly for these steps (gpu_plotter.h:70-78, kernel.h:436-448).
PlotIsCombined ==
  hostPc = "idle" /\ call > 0 =>
    hostBuff =
      [c \in Cells |->
         LET h == HashAt(cpu[call].chain, HashSize * c)
         IN  IF step \in CoveringSteps THEN [k \in 0 .. 7 |-> Xor[h[k], digested[k]]]
             ELSE h]

\* The writer takes a scoop from two places of the buffer (worker_writer.cpp:
\* 28-50); the CPU has exchanged its hashes.
ScoopsMatch(memory, data) ==
  \A scoop \in 0 .. NumHashes \div 2 - 1 :
    LET at == 2 * HashSize * scoop
    IN  /\ memory[2 * scoop] = HashAt(data, at)
        /\ memory[NumHashes - (2 * scoop + 1)] = HashAt(data, at + HashSize)

\* What plot returns is the plot of the CPU if, and only if, the slices end
\* at -1: with any other --step the kernel reads in front of the buffer and
\* never combines the plot with its last hash (gpu_plotter.h:70-74).
PlotIsRight ==
  hostPc = "idle" /\ call > 0 =>
    (step \in CoveringSteps <=> ScoopsMatch(hostBuff, cpu[call].plot))
=============================================================================
