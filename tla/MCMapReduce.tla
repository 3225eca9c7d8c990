---------------------------- MODULE MCMapReduce ----------------------------
(* Workers for TLC: one that never quits and one that soon does.           *)
EXTENDS MapReduce, TLC

CONSTANTS w1, w2

TwoWorkers == {w1, w2}
OneQuits == (w1 :> -1) @@ (w2 :> 2)
=============================================================================
