------------------------------- MODULE ZkLock -------------------------------
(***************************************************************************)
(* The distributed lock of gdocs (lock.go, three identical copies in       *)
(* client, master and chunkserver): one ZooKeeper path, taken by creating  *)
(* an ephemeral znode and given back by deleting it.  Every ZooKeeper      *)
(* request is one atomic step of the server; the code between two requests *)
(* is local to the caller.  A caller that finds the znode waits for the    *)
(* one-shot watch that ExistsW registered together with its answer.        *)
(***************************************************************************)
EXTENDS Naturals

CONSTANTS Procs,      \* goroutines, each with its own ZooKeeper session
          NoProc,     \* owner of a znode that does not exist
          MaxExpiry,  \* bound on session expirations
          MaxFault    \* bound on requests answered with a connection error

ASSUME NoProcAssumption == NoProc \notin Procs
ASSUME BoundAssumption == MaxExpiry \in Nat /\ MaxFault \in Nat

VARIABLES owner,     \* session that created the znode, NoProc if it is absent
          watches,   \* callers whose watch channel has not fired yet
          pc,        \* where each caller is in lock / locknotblock / unlock
          expiries,  \* session expirations so far
          faults     \* failed requests so far

vars == <<owner, watches, pc, expiries, faults>>

\* A caller that believes it has the lock: lock returned, unlock has not.
Critical == {"held", "unlock", "delete"}

\* A caller inside the blocking lock().
Trying == {"exists", "create", "existsw", "wait"}

States == {"idle", "tryexists", "trycreate"} \cup Trying \cup Critical

Goto(p, s) == pc' = [pc EXCEPT ![p] = s]

Init == /\ owner = NoProc
        /\ watches = {}
        /\ pc = [p \in Procs |-> "idle"]
        /\ expiries = 0
        /\ faults = 0

-----------------------------------------------------------------------------
(* lock() and locknotblock()                                               *)

CallLock(p) == /\ pc[p] = "idle"
               /\ Goto(p, "exists")
               /\ UNCHANGED <<owner, watches, expiries, faults>>

CallTryLock(p) == /\ pc[p] = "idle"
                  /\ Goto(p, "tryexists")
                  /\ UNCHANGED <<owner, watches, expiries, faults>>

\* exists(): a failed request is repeated in place and changes nothing.
Exists(p) == /\ pc[p] = "exists"
             /\ Goto(p, IF owner = NoProc THEN "create" ELSE "existsw")
             /\ UNCHANGED <<owner, watches, expiries, faults>>

\* locknotblock() gives up as soon as it sees the znode.
TryExists(p) == /\ pc[p] = "tryexists"
                /\ Goto(p, IF owner = NoProc THEN "trycreate" ELSE "idle")
                /\ UNCHANGED <<owner, watches, expiries, faults>>

\* Where add() sends its caller back to when it fails: label retrylock.
Retry(p) == IF pc[p] = "create" THEN "exists" ELSE "tryexists"

\* Mutant: the znode is set, not created, so a second creator succeeds.
CreateBySet(p) ==
  /\ pc[p] \in {"create", "trycreate"}
  /\ owner' = p /\ watches' = {} /\ Goto(p, "held")
  /\ UNCHANGED <<expiries, faults>>

\* add(): of the callers that saw no znode, ZooKeeper lets one create it.
Create(p) ==
  /\ pc[p] \in {"create", "trycreate"}
  /\ IF owner = NoProc
     THEN owner' = p /\ watches' = {} /\ Goto(p, "held")
     ELSE UNCHANGED <<owner, watches>> /\ Goto(p, Retry(p))
  /\ UNCHANGED <<expiries, faults>>

\* add() returns false after a connection error, whether or not ZooKeeper
\* applied the request before the connection broke.
CreateError(p) ==
  /\ pc[p] \in {"create", "trycreate"}
  /\ faults < MaxFault
  /\ faults' = faults + 1
  /\ Goto(p, Retry(p))
  /\ \/ UNCHANGED <<owner, watches>>
     \/ owner = NoProc /\ owner' = p /\ watches' = {}
  /\ UNCHANGED expiries

\* Mutant: the caller waits without looking at ExistsW's answer.
ExistsWBlind(p) ==
  /\ pc[p] = "existsw"
  /\ Goto(p, "wait") /\ watches' = watches \cup {p}
  /\ UNCHANGED <<owner, expiries, faults>>

\* existw(): the answer and the watch come from one request.
ExistsW(p) ==
  /\ pc[p] = "existsw"
  /\ IF owner = NoProc
     THEN Goto(p, "exists") /\ UNCHANGED watches
     ELSE Goto(p, "wait") /\ watches' = watches \cup {p}
  /\ UNCHANGED <<owner, expiries, faults>>

\* watchCreataNode(): the event arrives and the caller starts again.
Wake(p) == /\ pc[p] = "wait"
           /\ p \notin watches
           /\ Goto(p, "exists")
           /\ UNCHANGED <<owner, watches, expiries, faults>>

-----------------------------------------------------------------------------
(* unlock(), and closing the session                                       *)

CallUnlock(p) == /\ pc[p] = "held"
                 /\ Goto(p, "unlock")
                 /\ UNCHANGED <<owner, watches, expiries, faults>>

\* Mutant: unlock() removes the znode only if it is not there.
UnlockInverted(p) ==
  /\ pc[p] = "unlock"
  /\ Goto(p, IF owner = NoProc THEN "delete" ELSE "idle")
  /\ UNCHANGED <<owner, watches, expiries, faults>>

UnlockExists(p) ==
  /\ pc[p] = "unlock"
  /\ Goto(p, IF owner = NoProc THEN "idle" ELSE "delete")
  /\ UNCHANGED <<owner, watches, expiries, faults>>

\* remove(): Delete(path, 0) takes away whatever znode is there.
Delete(p) == /\ pc[p] = "delete"
             /\ owner' = NoProc
             /\ watches' = {}
             /\ Goto(p, "idle")
             /\ UNCHANGED <<expiries, faults>>

\* unlock() ignores the error of remove(): the request may be lost.
DeleteError(p) == /\ pc[p] = "delete"
                  /\ faults < MaxFault
                  /\ faults' = faults + 1
                  /\ Goto(p, "idle")
                  /\ UNCHANGED <<owner, watches, expiries>>

\* What ZooKeeper does with the znodes and watches of a session that ends.
EndSession(p) == /\ owner' = IF owner = p THEN NoProc ELSE owner
                 /\ watches' = IF owner = p THEN {} ELSE watches \ {p}

\* Mutant: the caller goes on with the connection it has closed.
CloseOnly(p) == /\ pc[p] \in {"idle", "held"}
                /\ EndSession(p)
                /\ Goto(p, "closed")
                /\ UNCHANGED <<expiries, faults>>

\* close(): gfs_api closes after unlock, removeConn also with locks held.
Close(p) == /\ pc[p] \in {"idle", "held"}
            /\ EndSession(p)
            /\ Goto(p, "idle")
            /\ UNCHANGED <<expiries, faults>>

\* The 60 s session of connect() times out (a pause, a partition); the
\* library opens a new session and the caller is not told.
Expire(p) == /\ expiries < MaxExpiry
             /\ expiries' = expiries + 1
             /\ EndSession(p)
             /\ UNCHANGED <<pc, faults>>

-----------------------------------------------------------------------------
\* The steps a caller takes once it has called lock, locknotblock or unlock.
Step(p) == \/ Exists(p) \/ TryExists(p) \/ Create(p) \/ ExistsW(p) \/ Wake(p)
           \/ CallUnlock(p) \/ UnlockExists(p) \/ Delete(p)

Next == \E p \in Procs : \/ CallLock(p) \/ CallTryLock(p) \/ Step(p)
                         \/ CreateError(p) \/ DeleteError(p)
                         \/ Close(p) \/ Expire(p)

Spec == Init /\ [][Next]_vars

\* A caller inside lock or unlock keeps running; whoever holds a lock gives
\* it back (every lock() in gfs_api.go and master.go is followed by unlock).
FairSpec == Spec /\ \A p \in Procs : WF_vars(Step(p))

-----------------------------------------------------------------------------
(* Properties                                                              *)

TypeOK == /\ owner \in Procs \cup {NoProc}
          /\ watches \subseteq Procs
          /\ pc \in [Procs -> States]
          /\ expiries \in 0..MaxExpiry
          /\ faults \in 0..MaxFault

\* As long as no session has expired, lock() and locknotblock() let at most
\* one caller in, whatever requests fail: Exists-then-Create is a race that
\* ZooKeeper settles, never a double grant.
MutualExclusion ==
  expiries = 0 =>
    \A p, q \in Procs : pc[p] \in Critical /\ pc[q] \in Critical => p = q

\* A caller sleeping on its watch sleeps on a znode that exists, so the
\* event that ends the sleep is still to come: no wake-up is ever lost
\* between exists() and existw().
NoLostWakeup ==
  \A p \in Procs : pc[p] = "wait" /\ p \in watches => owner # NoProc

\* The znode belongs to somebody who will delete it, unless a request was
\* lost: without faults no path through lock, locknotblock, unlock and close
\* leaves a znode behind that nobody is going to remove.
NoOrphanedLock ==
  faults = 0 /\ owner # NoProc => pc[owner] \in Critical

\* When somebody is trying to lock, somebody gets the lock, unless a request
\* was lost: no state is reached in which all sleep and nobody holds.
LockProgress ==
  (faults = 0 /\ \E p \in Procs : pc[p] \in Trying)
    ~> (faults > 0 \/ \E p \in Procs : pc[p] \in Critical)

\* What the abstract lock is made of.
Inside == {p \in Procs : pc[p] \in Critical}
Promise == IF expiries = 0 THEN "kept" ELSE "void"

M == INSTANCE Mutex WITH inside <- Inside, promise <- Promise

\* lock.go implements the abstract lock: until a session expires, whoever
\* comes in finds nobody inside and leaves nobody inside.
MutexSpec == M!Spec
=============================================================================
