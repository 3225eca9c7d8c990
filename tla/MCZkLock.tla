------------------------------ MODULE MCZkLock ------------------------------
(* The lock as TLC checks it; the callers are model values of the cfg.      *)
EXTENDS ZkLock
=============================================================================
