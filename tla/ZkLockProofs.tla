---------------------------- MODULE ZkLockProofs ----------------------------
(***************************************************************************)
(* Proofs about the distributed lock for any set of callers and any number *)
(* of expirations and faults.                                              *)
(***************************************************************************)
EXTENDS ZkLock, TLAPS

\* Abbreviations of the actions that every proof below sees through.
USE DEF Goto, Retry, EndSession, Critical, Trying, States

\* The variables keep their types through every step of lock.go.
THEOREM TypeCorrect == Spec => []TypeOK
<1>1. Init => TypeOK
  BY BoundAssumption DEF Init, TypeOK
<1>2. TypeOK /\ [Next]_vars => TypeOK'
  <2> SUFFICES ASSUME TypeOK, [Next]_vars PROVE TypeOK'
    OBVIOUS
  <2> USE BoundAssumption DEF TypeOK
  <2>1. CASE UNCHANGED vars
    BY <2>1 DEF vars
  <2>2. ASSUME NEW p \in Procs, Step(p) PROVE TypeOK'
    BY <2>2 DEF Step, Exists, TryExists, Create, ExistsW, Wake, CallUnlock,
                UnlockExists, Delete
  <2>3. ASSUME NEW p \in Procs, CallLock(p) \/ CallTryLock(p) PROVE TypeOK'
    BY <2>3 DEF CallLock, CallTryLock
  <2>4. ASSUME NEW p \in Procs, CreateError(p) \/ DeleteError(p) PROVE TypeOK'
    BY <2>4 DEF CreateError, DeleteError
  <2>5. ASSUME NEW p \in Procs, Close(p) \/ Expire(p) PROVE TypeOK'
    BY <2>5 DEF Close, Expire
  <2>6. QED
    BY <2>1, <2>2, <2>3, <2>4, <2>5 DEF Next
<1>3. QED
  BY <1>1, <1>2, PTL DEF Spec

\* What makes the lock exclusive: whoever is between lock and the end of
\* unlock owns the one znode.  Session expiry is what breaks it.
HolderOwnsNode ==
  expiries = 0 => \A p \in Procs : pc[p] \in Critical => owner = p

LEMMA HolderInvariant == Spec => []HolderOwnsNode
<1>1. Init => HolderOwnsNode
  BY DEF Init, HolderOwnsNode
<1>2. TypeOK /\ HolderOwnsNode /\ [Next]_vars => HolderOwnsNode'
  <2> SUFFICES ASSUME TypeOK, HolderOwnsNode, [Next]_vars PROVE HolderOwnsNode'
    OBVIOUS
  <2> USE NoProcAssumption, BoundAssumption DEF TypeOK, HolderOwnsNode
  <2>1. CASE UNCHANGED vars
    BY <2>1 DEF vars
  <2>2. ASSUME NEW p \in Procs, Create(p) \/ CreateError(p)
        PROVE HolderOwnsNode'
    BY <2>2 DEF Create, CreateError
  <2>3. ASSUME NEW p \in Procs, Delete(p) \/ DeleteError(p)
        PROVE HolderOwnsNode'
    BY <2>3 DEF Delete, DeleteError
  <2>4. ASSUME NEW p \in Procs, CallUnlock(p) \/ UnlockExists(p)
        PROVE HolderOwnsNode'
    BY <2>4 DEF CallUnlock, UnlockExists
  <2>5. ASSUME NEW p \in Procs,
               \/ CallLock(p) \/ CallTryLock(p) \/ Exists(p)
               \/ TryExists(p) \/ ExistsW(p) \/ Wake(p)
        PROVE HolderOwnsNode'
    BY <2>5 DEF CallLock, CallTryLock, Exists, TryExists, ExistsW, Wake
  <2>6. ASSUME NEW p \in Procs, Close(p) PROVE HolderOwnsNode'
    BY <2>6 DEF Close
  <2>7. ASSUME NEW p \in Procs, Expire(p) PROVE HolderOwnsNode'
    BY <2>7 DEF Expire
  <2>8. QED
    BY <2>1, <2>2, <2>3, <2>4, <2>5, <2>6, <2>7 DEF Next, Step
<1>3. QED
  BY <1>1, <1>2, TypeCorrect, PTL DEF Spec

\* Until a session expires, lock.go grants the lock to one caller at a time,
\* for any number of callers and whatever requests fail.
THEOREM MutualExclusionHolds == Spec => []MutualExclusion
<1>1. HolderOwnsNode => MutualExclusion
  BY DEF HolderOwnsNode, MutualExclusion
<1>2. QED
  BY <1>1, HolderInvariant, PTL

\* The one-shot watches are registered on an existing znode and all fire
\* when it goes away: strengthening of NoLostWakeup.
WatchesHaveNode == watches # {} => owner # NoProc

\* No caller of lock() sleeps on a watch whose event has already passed.
THEOREM NoLostWakeupHolds == Spec => []NoLostWakeup
<1>1. Init => WatchesHaveNode
  BY DEF Init, WatchesHaveNode
<1>2. TypeOK /\ WatchesHaveNode /\ [Next]_vars => WatchesHaveNode'
  BY NoProcAssumption
     DEF TypeOK, WatchesHaveNode, vars, Next, Step, Exists, TryExists, Create,
         ExistsW, Wake, CallUnlock, UnlockExists, Delete, CallLock, CallTryLock,
         CreateError, DeleteError, Close, Expire
<1>3. WatchesHaveNode => NoLostWakeup
  BY DEF WatchesHaveNode, NoLostWakeup
<1>4. QED
  BY <1>1, <1>2, <1>3, TypeCorrect, PTL DEF Spec

\* A znode that nobody will delete is always the trace of a lost request.
THEOREM NoOrphanedLockHolds == Spec => []NoOrphanedLock
<1>1. Init => NoOrphanedLock
  BY DEF Init, NoOrphanedLock
<1>2. TypeOK /\ NoOrphanedLock /\ [Next]_vars => NoOrphanedLock'
  <2> SUFFICES ASSUME TypeOK, NoOrphanedLock, [Next]_vars PROVE NoOrphanedLock'
    OBVIOUS
  <2> USE NoProcAssumption, BoundAssumption DEF TypeOK, NoOrphanedLock
  <2>1. CASE UNCHANGED vars
    BY <2>1 DEF vars
  <2>2. ASSUME NEW p \in Procs, Create(p) \/ Delete(p) PROVE NoOrphanedLock'
    BY <2>2 DEF Create, Delete
  <2>3. ASSUME NEW p \in Procs, CreateError(p) \/ DeleteError(p)
        PROVE NoOrphanedLock'
    BY <2>3 DEF CreateError, DeleteError
  <2>4. ASSUME NEW p \in Procs, CallUnlock(p) \/ UnlockExists(p)
        PROVE NoOrphanedLock'
    BY <2>4 DEF CallUnlock, UnlockExists
  <2>5. ASSUME NEW p \in Procs,
               \/ CallLock(p) \/ CallTryLock(p) \/ Exists(p)
               \/ TryExists(p) \/ ExistsW(p) \/ Wake(p)
        PROVE NoOrphanedLock'
    BY <2>5 DEF CallLock, CallTryLock, Exists, TryExists, ExistsW, Wake
  <2>6. ASSUME NEW p \in Procs, Close(p) \/ Expire(p) PROVE NoOrphanedLock'
    BY <2>6 DEF Close, Expire
  <2>7. QED
    BY <2>1, <2>2, <2>3, <2>4, <2>5, <2>6 DEF Next, Step
<1>3. QED
  BY <1>1, <1>2, TypeCorrect, PTL DEF Spec

\* lock.go implements the abstract lock, for any callers and any failures:
\* until a session expires every step lets a caller into an empty critical
\* section, is the only one's leaving, or does not show.
THEOREM ImplementsMutex == Spec => MutexSpec
<1>1. Init => M!Init
  BY DEF Init, M!Init, Inside, Promise, Critical
<1>2. TypeOK /\ HolderOwnsNode /\ [Next]_vars => [M!Next]_<<Inside, Promise>>
  <2> SUFFICES ASSUME TypeOK, HolderOwnsNode, [Next]_vars
               PROVE  [M!Next]_<<Inside, Promise>>
    OBVIOUS
  <2>0. CASE expiries' # 0
    BY <2>0 DEF M!Next, Promise
  <2>1. CASE UNCHANGED vars
    BY <2>1 DEF vars, Inside, Promise
  <2>2. CASE expiries' = 0
    <3>1. ASSUME NEW p \in Procs, Expire(p) PROVE FALSE
      BY <2>2, <3>1, BoundAssumption DEF Expire, TypeOK
    <3>2. CASE expiries # 0
      BY <2>1, <2>2, <3>1, <3>2
         DEF Next, Step, Exists, TryExists, Create, ExistsW, Wake, CallUnlock,
             UnlockExists, Delete, CallLock, CallTryLock, CreateError,
             DeleteError, Close
    <3>3. CASE expiries = 0
      <4>1. Promise = "kept" /\ Promise' = "kept"
        BY <2>2, <3>3 DEF Promise
      <4>2. \A p \in Procs : pc[p] \in Critical => owner = p
        BY <3>3 DEF HolderOwnsNode
      <4>3. ASSUME NEW p \in Procs, pc[p] \notin Critical, owner = NoProc,
                   Goto(p, "held")
            PROVE  Inside = {} /\ Inside' = {p}
        BY <4>2, <4>3, NoProcAssumption DEF TypeOK, Goto, Inside, Critical
      <4>4. ASSUME NEW p \in Procs, pc[p] \in Critical, Goto(p, "idle")
            PROVE  Inside = {p} /\ Inside' = {}
        BY <4>2, <4>4 DEF TypeOK, Goto, Inside, Critical
      <4>5. ASSUME NEW p \in Procs, NEW s \in States, Goto(p, s),
                   pc[p] \in Critical <=> s \in Critical
            PROVE  UNCHANGED Inside
        BY <4>5 DEF TypeOK, Goto, Inside
      <4>6. ASSUME NEW p \in Procs, Create(p) PROVE [M!Next]_<<Inside, Promise>>
        BY <4>1, <4>3, <4>5, <4>6
           DEF Create, Retry, M!Next, M!Acquire, States, Trying, Critical
      <4>7. ASSUME NEW p \in Procs, Delete(p) \/ DeleteError(p)
            PROVE  [M!Next]_<<Inside, Promise>>
        BY <4>1, <4>4, <4>7 DEF Delete, DeleteError, M!Next, M!Release, Critical
      <4>8. ASSUME NEW p \in Procs, Close(p) PROVE [M!Next]_<<Inside, Promise>>
        BY <4>1, <4>4, <4>5, <4>8
           DEF Close, M!Next, M!Release, States, Critical
      <4>9. ASSUME NEW p \in Procs, UnlockExists(p)
            PROVE  [M!Next]_<<Inside, Promise>>
        BY <4>1, <4>4, <4>5, <4>9
           DEF UnlockExists, M!Next, M!Release, States, Critical
      <4>10. ASSUME NEW p \in Procs,
                    \/ CallLock(p) \/ CallTryLock(p) \/ Exists(p) \/ ExistsW(p)
                    \/ TryExists(p) \/ Wake(p) \/ CallUnlock(p) \/ CreateError(p)
             PROVE  UNCHANGED <<Inside, Promise>>
        BY <4>1, <4>5, <4>10
           DEF CallLock, CallTryLock, Exists, TryExists, ExistsW, Wake,
               CallUnlock, CreateError, Retry, States, Trying, Critical
      <4>11. QED
        BY <2>1, <3>1, <4>6, <4>7, <4>8, <4>9, <4>10 DEF Next, Step
    <3>4. QED
      BY <3>2, <3>3
  <2>3. QED
    BY <2>0, <2>2
<1>3. QED
  BY <1>1, <1>2, TypeCorrect, HolderInvariant, PTL DEF Spec, MutexSpec, M!Spec
=============================================================================
