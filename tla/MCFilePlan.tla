----------------------------- MODULE MCFilePlan -----------------------------
(***************************************************************************)
(* Small drives for FilePlan.                                              *)
(***************************************************************************)
EXTENDS FilePlan

\* The same drive again and again, filled to the end.  With NonceRange = 32 and
\* StartNonce = 104 the files of the larger drives reach behind 128.
OneDrive ==
  [arguments |-> << <<"D">>, <<"D">>, <<"D">> >>,
   num |-> 1000,
   spaces |-> {0, 1, 2, 3, 4, 5, 6, 7, 8, 9, 11, 14, 15, 17, 23, 24, 26, 30, 35, 40}]

\* The same drive, and fewer nonces to plot in a run than it holds.
LimitedDrive ==
  [arguments |-> << <<"D">>, <<"D">> >>,
   num |-> 6,
   spaces |-> {8, 10, 17}]

\* A second drive is added; a limit on the nonces that the larger drives reach.
GrowingDrives ==
  [arguments |-> << <<"D">>, <<"D", "E">>, <<"D", "E">> >>,
   num |-> 18,
   spaces |-> {0, 3, 7, 10, 14, 17, 22}]

\* Two drives, from the first run on.
TwoDrives ==
  [arguments |-> << <<"D", "E">>, <<"D", "E">>, <<"D", "E">> >>,
   num |-> 1000,
   spaces |-> {3, 10}]

\* Three drives with room for a large file and a small one each.
ThreeDrives ==
  [arguments |-> << <<"D", "E", "F">>, <<"D", "E", "F">> >>,
   num |-> 1000,
   spaces |-> {6}]

LastingUses == {OneDrive, LimitedDrive, GrowingDrives}
TwoDriveUses == {TwoDrives}
ThreeDriveUses == {ThreeDrives}

\* 64 and 8 in the code: the second divides the first.
SmallAligns == <<4, 2>>
=============================================================================
