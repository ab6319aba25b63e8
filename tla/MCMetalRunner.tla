---------------------------- MODULE MCMetalRunner ----------------------------
(* Which calls run at the same time.                                       *)
EXTENDS MetalRunner

\* Predictions may come from any thread and clear while they run.
PredictAndClear == {{"predict"}, {"predict", "clear"}, {"clear"}}

\* load says of itself that it is safe to call from any thread.
LoadAndLoad == {{"load"}}
=============================================================================
