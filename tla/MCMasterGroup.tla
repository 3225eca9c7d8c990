--------------------------- MODULE MCMasterGroup ---------------------------
(* Three masters and one caller for TLC.                                  *)
EXTENDS MasterGroup

CONSTANTS c1, f1

OneCaller == {c1}
OneFile == {f1}
============================================================================
