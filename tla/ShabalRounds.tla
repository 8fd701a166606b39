---------------------------- MODULE ShabalRounds ----------------------------
(***************************************************************************)
(* The rounds of Shabal, as the macros of                                  *)
(* src/contrib/shabal/sph_shabal.cpp:172-385 compute them, at the width of *)
(* the code.  The kernel has the same macros (src/kernel/kernel.h:18-211;  *)
(* spaces aside they are the same text), so HashSchedule shares them.      *)
(*                                                                         *)
(* The local variables A00 to MF, Wlow and Whigh are a record of four      *)
(* arrays and two words, and the unrolled steps of a macro are an index.   *)
(* TLC's integers are narrower than sph_u32: a word is the pair of its     *)
(* high and its low half.                                                  *)
(***************************************************************************)
EXTENDS Integers, Sequences

Byte == 0 .. 255

\* The exclusive or of two bytes.
XorByte[x \in Byte] ==
  [y \in Byte |->
     IF x = 0 THEN y ELSE ((x + y) % 2) + 2 * XorByte[x \div 2][y \div 2]]

Half == 0 .. 65535

WordSet == Half \X Half

Zero == <<0, 0>>

One == <<0, 1>>

XorHalf[x \in Half, y \in Half] ==
  256 * XorByte[x \div 256][y \div 256] + XorByte[x % 256][y % 256]

Xor[a \in WordSet, b \in WordSet] == <<XorHalf[a[1], b[1]], XorHalf[a[2], b[2]]>>

Not[a \in WordSet] == <<65535 - a[1], 65535 - a[2]>>

\* a & b: the bits of the sum that are not those of the exclusive or, halved.
And[a \in WordSet, b \in WordSet] ==
  << (a[1] + b[1] - XorHalf[a[1], b[1]]) \div 2,
     (a[2] + b[2] - XorHalf[a[2], b[2]]) \div 2 >>

\* The word of two halves that may be too large.
T32(high, low) == << (high + low \div 65536) % 65536, low % 65536 >>

Add[a \in WordSet, b \in WordSet] == T32(a[1] + b[1], a[2] + b[2])

Sub[a \in WordSet, b \in WordSet] == Add[a, Add[Not[b], One]]

\* a * k, for a small k
Mul[a \in WordSet, k \in 0 .. 5] == T32(a[1] * k, a[2] * k)

\* (a << n) | (a >> (32 - n))
Rotl[a \in WordSet, n \in 0 .. 31] ==
  IF n >= 16 THEN Rotl[<<a[2], a[1]>>, n - 16]
  ELSE << ((a[1] * 2 ^ n) % 65536) + a[2] \div 2 ^ (16 - n),
          ((a[2] * 2 ^ n) % 65536) + a[1] \div 2 ^ (16 - n) >>

-----------------------------------------------------------------------------
(* Bytes and words, with the lowest byte first.                            *)

\* A byte of an array: the arrays of C start at 0, a sequence at 1.
sph_dec32le_aligned(src) ==
  <<256 * src[4] + src[3], 256 * src[2] + src[1]>>

sph_enc32le_aligned(val) ==
  <<val[2] % 256, val[2] \div 256, val[1] % 256, val[1] \div 256>>

DECODE_BLOCK(buf) ==
  [k \in 0 .. 15 |-> sph_dec32le_aligned(SubSeq(buf, 4 * k + 1, 4 * k + 4))]

-----------------------------------------------------------------------------
(* The rounds.                                                             *)

\* The local variables.
Locals == [A : [0 .. 11 -> WordSet], B : [0 .. 15 -> WordSet],
           C : [0 .. 15 -> WordSet], M : [0 .. 15 -> WordSet],
           Wlow : WordSet, Whigh : WordSet]

INPUT_BLOCK_ADD(r) == [r EXCEPT !.B = [k \in 0 .. 15 |-> Add[r.B[k], r.M[k]]]]

INPUT_BLOCK_SUB(r) == [r EXCEPT !.C = [k \in 0 .. 15 |-> Sub[r.C[k], r.M[k]]]]

XOR_W(r) == [r EXCEPT !.A[0] = Xor[@, r.Wlow], !.A[1] = Xor[@, r.Whigh]]

SWAP_BC(r) == [r EXCEPT !.B = r.C, !.C = r.B]

\* The new word of A in step j.
NewA(r, j) ==
  LET xa == Mul[Rotl[r.A[(j + 11) % 12], 15], 5]
      mixed == Mul[Xor[Xor[r.A[j % 12], xa], r.C[(8 - j) % 16]], 3]
      masked == And[r.B[(j + 9) % 16], Not[r.B[(j + 6) % 16]]]
  IN  Xor[Xor[Xor[mixed, r.B[(j + 13) % 16]], masked], r.M[j % 16]]

\* What step j makes of A[j % 12] and B[j % 16].
PERM_ELT(r, j) ==
  LET xa0 == NewA(r, j)
  IN  [r EXCEPT !.A[j % 12] = xa0, !.B[j % 16] = Not[Xor[Rotl[@, 1], xa0]]]

\* The rest of PERM_STEP_0, PERM_STEP_1 and PERM_STEP_2, sixteen steps each.
PERM_STEPS[r \in Locals, j \in 0 .. 48] ==
  IF j = 48 THEN r ELSE PERM_STEPS[PERM_ELT(r, j), j + 1]

\* Each word of A is increased by three words of C.
ADD_C[r \in Locals] ==
  [r EXCEPT !.A = [k \in 0 .. 11 |->
     Add[Add[Add[r.A[k], r.C[(k + 11) % 16]], r.C[(k + 15) % 16]],
         r.C[(k + 3) % 16]]]]

APPLY_P[r \in Locals] ==
  ADD_C[PERM_STEPS[[r EXCEPT !.B = [k \in 0 .. 15 |-> Rotl[@[k], 17]]], 0]]

INCR_W(r) ==
  LET low == Add[r.Wlow, One]
  IN  [r EXCEPT !.Wlow = low,
                !.Whigh = IF low = Zero THEN Add[@, One] ELSE @]

\* What the code does with a full block: what comes before the permutation,
\* and what comes behind it.
Enter[r \in Locals] == APPLY_P[XOR_W(INPUT_BLOCK_ADD(r))]
Leave[r \in Locals] == INCR_W(SWAP_BC(INPUT_BLOCK_SUB(r)))

\* A round without input; the counter stays where it is.
FinalRound[r \in Locals] == APPLY_P[XOR_W(SWAP_BC(r))]

FinalRounds(r) == FinalRound[FinalRound[FinalRound[r]]]
=============================================================================
