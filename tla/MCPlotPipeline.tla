--------------------------- MODULE MCPlotPipeline ---------------------------
(***************************************************************************)
(* Small plans for PlotPipeline.                                           *)
(***************************************************************************)
EXTENDS PlotPipeline, TLC

\* Two files on the first drive and one on the second.  With tasks of two
\* batches of two nonces the first file has two tasks, the last one with a
\* short batch behind a whole one; the second file is less than a batch.
TwoDrives == << << [sn |-> 10, nonces |-> 7], [sn |-> 17, nonces |-> 1] >>,
                << [sn |-> 18, nonces |-> 4] >> >>

\* One drive with two files.
OneDrive == << << [sn |-> 10, nonces |-> 5], [sn |-> 15, nonces |-> 3] >> >>

\* The second drive had no room for a file.
FullDrive == << << [sn |-> 10, nonces |-> 3] >>, << >> >>

\* No block is special.
BlockSymmetry == Permutations(Blocks)
=============================================================================
