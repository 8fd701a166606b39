---------------------------- MODULE MCPlotVerify ----------------------------
(***************************************************************************)
(* Small files for PlotWriter and PlotVerify.                              *)
(***************************************************************************)
EXTENDS PlotVerify

Args(work, count) == [gws |-> work, buffers |-> count]

Plot(length, runs) == [nonces |-> length, runs |-> runs]

SmallUses == {
  \* Two tasks, the second one short; the second run has larger blocks.
  Plot(6, <<Args(4, 1), Args(8, 1)>>),
  \* Two batches in a block, one in the next.
  Plot(10, <<Args(4, 2), Args(4, 1)>>),
  \* nonces * PLOT_SIZE is 2^31: the second batch gets lost.
  Plot(12, <<Args(8, 2)>>),
  \* It is 2^32: the second batch gets over the first.
  Plot(18, <<Args(16, 2)>>),
  \* Address is 2^31 for the last nonces.
  Plot(34, <<Args(36, 1)>>)}

\* A file of three batches.
OneUse == {Plot(6, <<Args(4, 2)>>)}

\* Every nonce, some, and the first batch only.
SmallVerifications ==
  {[gws |-> 4, step |-> 0], [gws |-> 4, step |-> 1], [gws |-> 8, step |-> 100]}

\* All places of the smallest file, the first ones of the others.
SomePlaces == 1 .. 12

OneVerification == {[gws |-> 4, step |-> 1]}

\* The hypothesis of the theorem about VerdictIsRight.
ASSUME VerificationsAreInRange == VerificationsInRange
=============================================================================
