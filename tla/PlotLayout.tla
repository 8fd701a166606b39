----------------------------- MODULE PlotLayout -----------------------------
(***************************************************************************)
(* Where the words of a nonce are: in the memory that the device fills     *)
(* (Address of src/src/worker_writer.cpp:13-24 and src/kernel/kernel.h:    *)
(* 313-332), in what the writer takes out of it (transposition,            *)
(* worker_writer.cpp:28-50), and in the plot of the CPU                    *)
(* (src/src/poc/cpu_plotter.h:41-46), which is the reference.              *)
(*                                                                         *)
(* A word is a symbol: the nonce, hash and word of the hash that it is.    *)
(*                                                                         *)
(* A definition marked "Bug" is a plausible mistake in the code modelled   *)
(* by the definition after it.  No behaviour uses it.                      *)
(***************************************************************************)
EXTENDS Integers, Sequences

CONSTANTS
  NoncesVector,     \* NONCES_VECTOR: nonces side by side in memory, 16
  NumHashes,        \* NUM_HASHES: hashes of a nonce, 8192
  HashWords,        \* HASH_SIZE_WORDS: words of a hash, 8
  IntRange          \* 2^31: an int is in -IntRange .. IntRange - 1

ASSUME LayoutAssumption ==
  /\ {NoncesVector, HashWords, IntRange} \subseteq Nat \ {0}
  /\ NumHashes \in Nat \ {0}
  /\ NumHashes % 4 = 0
  /\ IntRange % (NoncesVector * (HashWords * NumHashes)) = 0

\* sizeof(uint32_t)
WordBytes == 4

NonceWords == HashWords * NumHashes

\* PLOT_SIZE
PlotSize == NonceWords * WordBytes

\* SCOOPS_PER_PLOT
Scoops == NumHashes \div 2

\* What the target makes of the result of an int operation.
Wrap(n) == ((n + IntRange) % (2 * IntRange)) - IntRange

AlignDown(n) == n - (n % NoncesVector)

Place(nonce, hash, word) ==
  AlignDown(nonce) * NonceWords + hash * NoncesVector * HashWords
    + word * NoncesVector + (nonce % NoncesVector)

\* All its operands are int.
Address(nonce, hash, word) == Wrap(Place(nonce, hash, word))

-----------------------------------------------------------------------------
(* Words, and memories: functions from places to words.                    *)

Word(n, hash, word) == <<n, hash, word>>

\* Anything but a word of a plot.
Garbage == <<-1, 0, 0>>

\* A read outside of a memory yields no word of a plot that belongs there.
At(memory, place) ==
  IF place \in DOMAIN memory THEN memory[place] ELSE Garbage

\* The words of the first nonces.
WordsOf(nonces) ==
  (0 .. nonces - 1) \X (0 .. NumHashes - 1) \X (0 .. HashWords - 1)

\* dev_buff_[0] after the plot of some nonces from sn on: the work items behind
\* them return at once, and what was there stays.
Plotted(memory, sn, nonces) ==
  [place \in DOMAIN memory |->
     LET here == {at \in WordsOf(nonces) : Address(at[1], at[2], at[3]) = place}
     IN IF here = {} THEN memory[place]
        ELSE LET at == CHOOSE at \in here : TRUE
             IN Word(sn + at[1], at[2], at[3])]

Mirror_Neighbour(scoop) == scoop * 2 + 1           \* Bug: PoC1

\* The second hash of a scoop is counted from the end (PoC2).
Mirror(scoop) == NumHashes - (scoop * 2 + 1)

\* One nonce of a scoop: 16 words.
Scoop(memory, scoop, nonce) ==
  [j \in 1 .. 2 * HashWords |->
     IF j <= HashWords
     THEN At(memory, Address(nonce, scoop * 2, j - 1))
     ELSE At(memory, Address(nonce, Mirror(scoop), j - 1 - HashWords))]

transposition(memory, scoop, nstart, nsize) ==
  [k \in 1 .. nsize |-> Scoop(memory, scoop, nstart + k - 1)]

\* What a memory for n nonces may hold, and what may be a scoop of it.
Contents == Int \X Nat \X Nat
Memory(n) == [0 .. n * NonceWords - 1 -> Contents]
Units == [1 .. 2 * HashWords -> Contents]

-----------------------------------------------------------------------------
(* The plot of the CPU.                                                    *)

\* Which hash of the chain is at place p once the hashes are exchanged.
Exchanged(p) ==
  LET swapped == {i \in 1 .. NumHashes \div 2 - 1 : i % 2 = 1}
  IN IF p \in swapped \/ NumHashes - p \in swapped THEN NumHashes - p ELSE p

\* Scoop scoop of nonce n, 64 bytes of data_.
RightScoop(n, scoop) ==
  [j \in 1 .. 2 * HashWords |->
     LET at == scoop * 2 * HashWords + j - 1
     IN Word(n, Exchanged(at \div HashWords), at % HashWords)]
=============================================================================
