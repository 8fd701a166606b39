----------------------------- MODULE CpuPlotter -----------------------------
(***************************************************************************)
(* cpu_plotter::plot (src/src/poc/cpu_plotter.h:18-47): the plot of one    *)
(* nonce, on the bytes of data_ and with the hash library.  It is what     *)
(* --test compares the device with.                                        *)
(*                                                                         *)
(* A number of 64 bits is the sequence of its bytes in memory, the lowest  *)
(* first.  The number of hashes and HASH_CAP are parameters; a hash has    *)
(* its 32 bytes.                                                           *)
(***************************************************************************)
EXTENDS Shabal

CONSTANTS
  NumHashes,    \* hashes in a plot, 8192
  MessageCap    \* MESSAGE_CAP of the kernel: pairs of hashes in HASH_CAP, 64

ASSUME HashesAssumption ==
  /\ {NumHashes, MessageCap} \subseteq Nat \ {0}
  /\ NumHashes % 4 = 0
  /\ 2 * MessageCap < NumHashes

HashSize == 32

\* PLOT_SIZE
PlotBytes == NumHashes * HashSize

\* PLOT_TOTAL_SIZE: the plot and its seed, SEED_LENGTH bytes.
TotalBytes == PlotBytes + 16

\* HASH_CAP
HashCap == 2 * MessageCap * HashSize

hton_ull(n) == [k \in 1 .. 8 |-> n[9 - k]]

\* data[offset], data[offset + 1], ... become bytes.
Put(data, offset, bytes) ==
  [k \in DOMAIN data |->
     IF k - offset \in DOMAIN bytes THEN bytes[k - offset] ELSE data[k]]

\* data_ with the seed behind the plot; nobody set the rest of it.
Seeded(plot_id, nonce) ==
  Put([k \in 1 .. TotalBytes |-> 0], PlotBytes, hton_ull(plot_id) \o hton_ull(nonce))

\* How many bytes from i on are hashed.
MessageLen(i) == Min({TotalBytes - i, HashCap})

\* The object and data_ when the loop is at i and when it ends: what is at i
\* and above is hashed to the place below i.
Loop[shabal256 \in Context, data \in Seq(Byte), i \in 0 .. PlotBytes] ==
  IF i = 0 THEN [shabal256 |-> shabal256, data |-> data]
  ELSE LET message == SubSeq(data, i + 1, i + MessageLen(i))
           hashed == digest(update(shabal256, message))
       IN  Loop[hashed.sc, Put(data, i - HashSize, hashed.dst), i - HashSize]

Hashed(plot_id, nonce) == Loop[Shabal256, Seeded(plot_id, nonce), PlotBytes]

\* hfinal
FinalHash(s) == close(update(s.shabal256, s.data)).dst

\* Every byte of the plot ^= hfinal[i & 0x1f].
Combined[data \in Seq(Byte), hfinal \in Seq(Byte)] ==
  [k \in 1 .. PlotBytes |-> XorByte[data[k]][hfinal[((k - 1) % HashSize) + 1]]]

\* The hash that changes places with its counterpart: every second one of the
\* first half.
Exchanging == {h \in 0 .. NumHashes \div 2 - 1 : h % 2 = 1}

\* Where the bytes of hash h come from.
Source(h) ==
  IF h \in Exchanging \/ NumHashes - h \in Exchanging THEN NumHashes - h ELSE h

Exchange[data \in Seq(Byte)] ==
  [k \in DOMAIN data |->
     data[Source((k - 1) \div HashSize) * HashSize + ((k - 1) % HashSize) + 1]]

\* The object and data_ together.
Chained == [shabal256 : Context, data : Seq(Byte)]

\* What plot computes: the chain of hashes before it is combined with the last
\* one, and the bytes of the plot when it returns.
Result[s \in Chained] ==
  [chain |-> SubSeq(s.data, 1, PlotBytes),
   plot  |-> Exchange[Combined[s.data, FinalHash(s)]]]

plot(plot_id, nonce) == Result[Hashed(plot_id, nonce)]
=============================================================================
