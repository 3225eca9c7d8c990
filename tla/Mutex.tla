------------------------------- MODULE Mutex -------------------------------
(***************************************************************************)
(* What the distributed lock of lock.go promises its callers: one process  *)
(* inside at a time, and who comes in finds nobody there.  The promise is  *)
(* made of ZooKeeper sessions and is void once one of them has expired.    *)
(***************************************************************************)

CONSTANT Procs     \* the goroutines that use the lock

VARIABLES inside,  \* the processes that may use the protected chunk or cell
          promise  \* "kept" until a session expires, then "void"

Init == inside = {} /\ promise = "kept"

Acquire(p) == inside = {} /\ inside' = {p}

Release(p) == inside = {p} /\ inside' = {}

Next == \/ /\ promise = "kept" /\ promise' = "kept"
           /\ \E p \in Procs : Acquire(p) \/ Release(p)
        \/ promise' = "void"

Spec == Init /\ [][Next]_<<inside, promise>>
=============================================================================
