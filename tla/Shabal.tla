------------------------------- MODULE Shabal -------------------------------
(***************************************************************************)
(* The hash library: the context of src/contrib/shabal/sph_shabal.h:77-84, *)
(* its three operations (src/contrib/shabal/sph_shabal.cpp:489-657) and    *)
(* the object Shabal256 of src/contrib/shabal/shabal.h on top of them.     *)
(*                                                                         *)
(* The functions that sph_shabal.cpp:659-797 exports for each size of the  *)
(* output call the three with that size and no extra bits.  An operation   *)
(* returns the context that it leaves, close also what it writes to dst.   *)
(*                                                                         *)
(* A definition marked "Bug" is a plausible mistake in the code modelled   *)
(* by the definition after it.  No behaviour uses it.                      *)
(***************************************************************************)
EXTENDS ShabalRounds, ShabalTables, SequencesExt

\* sizeof sc->buf
BlockSize == 64

\* The sizes of the output, in bits.
Sizes == {192, 224, 256, 384, 512}

Precomputed(size) ==
  CASE size = 192 -> [A |-> A_init_192, B |-> B_init_192, C |-> C_init_192]
    [] size = 224 -> [A |-> A_init_224, B |-> B_init_224, C |-> C_init_224]
    [] size = 256 -> [A |-> A_init_256, B |-> B_init_256, C |-> C_init_256]
    [] size = 384 -> [A |-> A_init_384, B |-> B_init_384, C |-> C_init_384]
    [] size = 512 -> [A |-> A_init_512, B |-> B_init_512, C |-> C_init_512]

\* A context: the bytes that wait in buf, and the state of the rounds.  The
\* bytes of buf from ptr on are never read, so buf is as long as ptr.
Context == [buf : Seq(Byte), A : [0 .. 11 -> WordSet], B : [0 .. 15 -> WordSet],
            C : [0 .. 15 -> WordSet], Wlow : WordSet, Whigh : WordSet]

shabal_init(size) ==
  [buf |-> <<>>, A |-> Precomputed(size).A, B |-> Precomputed(size).B,
   C |-> Precomputed(size).C, Wlow |-> <<0, 1>>, Whigh |-> Zero]

\* The local variables of an operation when buf is full.
READ_STATE(sc) ==
  [A |-> sc.A, B |-> sc.B, C |-> sc.C, M |-> DECODE_BLOCK(sc.buf),
   Wlow |-> sc.Wlow, Whigh |-> sc.Whigh]

WRITE_STATE[sc \in Context, r \in Locals] ==
  [sc EXCEPT !.A = r.A, !.B = r.B, !.C = r.C,
             !.Wlow = r.Wlow, !.Whigh = r.Whigh]

\* buf goes through the rounds and is empty again.
Consume(sc) ==
  [WRITE_STATE[sc, Leave[Enter[READ_STATE(sc)]]] EXCEPT !.buf = <<>>]

Room_Block(sc) == BlockSize                        \* Bug: buf may hold bytes

\* How many bytes buf still takes.
Room(sc) == BlockSize - Len(sc.buf)

\* One turn of the loop after another, until all of data is taken.
TakeAll[sc \in Context, data \in Seq(Byte)] ==
  IF data = <<>> THEN sc
  ELSE LET clen == Min({Room(sc), Len(data)})
           taken == [sc EXCEPT !.buf = @ \o SubSeq(data, 1, clen)]
       IN  TakeAll[IF Len(taken.buf) = BlockSize THEN Consume(taken) ELSE taken,
                   SubSeq(data, clen + 1, Len(data))]

\* Less than a block is only put aside.
shabal_core(sc, data) ==
  IF Len(data) < Room(sc) THEN [sc EXCEPT !.buf = @ \o data]
  ELSE TakeAll[sc, data]

\* ((ub & -z) | z) & 0xFF: the n highest bits of ub, then a one.
LastByte(ub, n) ==
  LET z == 2 ^ (7 - n)
      kept == ub - (ub % z)
  IN  IF (kept \div z) % 2 = 1 THEN kept ELSE kept + z

\* The last block: what waits in buf, then the last byte, then zeros.
Padded(sc, ub, n) ==
  [sc EXCEPT !.buf = @ \o <<LastByte(ub, n)>> \o [k \in 1 .. Room(sc) - 1 |-> 0]]

\* The last words of B, as the bytes that are copied to dst.
Output[r \in Locals, size_words \in 1 .. 16] ==
  FlattenSeq([k \in 1 .. size_words |->
    sph_enc32le_aligned(r.B[16 - size_words + k - 1])])

\* What the context is left as.
Reinitialized_Not(sc, size) == sc                  \* Bug: it keeps its state

Reinitialized(sc, size) == shabal_init(size)

shabal_close(sc, ub, n, size_words) ==
  [dst |-> Output[FinalRounds(Enter[READ_STATE(Padded(sc, ub, n))]), size_words],
   sc  |-> Reinitialized(sc, 32 * size_words)]

-----------------------------------------------------------------------------
(* Shabal256.                                                              *)

Shabal256 == shabal_init(256)

update(context, data) == shabal_core(context, data)

close(context) == shabal_close(context, 0, 0, 8)

digest(context) == [dst |-> close(context).dst, sc |-> shabal_init(256)]
=============================================================================
