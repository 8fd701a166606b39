----------------------------- MODULE MCPlotTest -----------------------------
(* An account, two nonces and the bits at the end of a message for TLC.    *)
EXTENDS PlotTest

SomeId == <<239, 205, 171, 137, 103, 69, 35, 1>>

SomeNonces == << <<255, 255, 255, 255, 0, 16, 32, 48>>,
                 <<0, 0, 0, 0, 1, 16, 32, 48>> >>

SomeTails == {<<0, 0>>, <<183, 3>>}
=============================================================================
