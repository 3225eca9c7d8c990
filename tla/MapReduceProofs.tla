-------------------------- MODULE MapReduceProofs --------------------------
(***************************************************************************)
(* Proofs about the MapReduce master and its workers for any workers, any  *)
(* numbers of tasks, any connection limits and any crashes.                *)
(***************************************************************************)
EXTENDS MapReduce, TLAPS

-----------------------------------------------------------------------------
(* One task per worker, and types                                          *)

\* Where the workers of a phase are: one that was forwarded waits in the
\* channel, or one task is calling it.  TypeOK alone is not inductive: that
\* only workers are put back into the channel is part of this.
HandedOut ==
  /\ chan \subseteq told
  /\ \A t \in Index : task[t] \in Calling => on[t] \in told /\ on[t] \notin chan
  /\ OneTaskPerWorker

\* What a worker's end does to the master's variables keeps their types.
LEMMA LoseTypes ==
  ASSUME TypeOK, NEW w \in Workers, NEW S, Lose(w, S)
  PROVE  /\ wpc' \in [Workers -> {"off", "check", "accept", "gone"}]
         /\ task' \in [Index -> {"none", "wait", "done"} \cup Calling]
         /\ on' \in [Index -> Workers \cup {NoWorker}]
         /\ chan' \subseteq Workers /\ left' \subseteq Workers
         /\ bye' \in [worker: Workers \cup {NoWorker},
                      at: {"none", "queued", "serving"}]
  BY DEF TypeOK, Lose, CallsOn, NoBye

\* Appending to the shared files keeps them counts.
LEMMA FileTypes ==
  ASSUME TypeOK, NEW X, NEW B, NEW R, WriteFiles(X, B, R)
  PROVE  inter' \in Copies /\ res' \in Answers /\ out' \in Answers
<1>1. inter' \in Copies
  BY DEF TypeOK, WriteFiles, Copies
<1>2. res' \in Answers
  BY DEF TypeOK, WriteFiles, Collect, Copies, Answers
<1>3. QED
  BY <1>1, <1>2 DEF TypeOK, WriteFiles

LEMMA KilledTypes ==
  ASSUME TypeOK, NEW w \in Workers, Killed(w),
         UNCHANGED <<phase, spawned, told, workers, nrpc>>, crashes' \in 0..MaxCrash
  PROVE  TypeOK'
<1>1. inter' \in Copies /\ res' \in Answers /\ out' \in Answers
  BY FileTypes DEF Killed
<1>2. QED
  BY <1>1, LoseTypes DEF TypeOK, Killed

\* A worker whose calls are lost goes back to the channel, and nobody calls it.
LEMMA LoseKeeps ==
  ASSUME TypeOK, HandedOut, NEW w \in Workers, NEW S \in SUBSET Calling,
         Lose(w, S), UNCHANGED told
  PROVE  HandedOut'
<1> DEFINE lost == CallsOn(w, S)
<1>1. \A t \in Index : t \in lost <=> task[t] \in S /\ on[t] = w
  BY DEF CallsOn
<1>2. \A t \in Index : task'[t] \in Calling
                        => t \notin lost /\ task[t] \in Calling /\ on'[t] = on[t]
  BY <1>1 DEF Lose, TypeOK, Calling
<1>3. lost # {} => w \in told /\ \A t \in Index \ lost :
                       task[t] \in Calling => on[t] # w
  BY <1>1 DEF HandedOut, OneTaskPerWorker, CallsOn
<1>4. chan' = IF lost = {} THEN chan ELSE chan \cup {w}
  BY DEF Lose
<1> HIDE DEF lost
<1>5. OneTaskPerWorker'
  BY <1>2 DEF HandedOut, OneTaskPerWorker
<1>6. QED
  BY <1>2, <1>3, <1>4, <1>5 DEF HandedOut

LEMMA KilledKeeps ==
  ASSUME TypeOK, HandedOut, NEW w \in Workers, Killed(w), UNCHANGED told
  PROVE  HandedOut'
<1>1. {"queued", "running", "ran"} \in SUBSET Calling
  BY DEF Calling
<1>2. QED
  BY <1>1, LoseKeeps DEF Killed

\* The part of TypeOK that HandedOut is not about, and HandedOut, hold
\* initially and are kept by every step of the master and the workers.
LEMMA HandedOutInvariant == Spec => [](TypeOK /\ HandedOut)
<1>1. Init => TypeOK /\ HandedOut
  <2>1. Init => TypeOK
    BY SizeAssumption, LimitAssumption, CrashAssumption
       DEF Init, TypeOK, Copies, Answers, NoBye, Calling
  <2>2. Init => HandedOut
    BY DEF Init, HandedOut, OneTaskPerWorker, Calling
  <2>3. QED
    BY <2>1, <2>2
<1>2. TypeOK /\ HandedOut /\ [Next]_vars => TypeOK' /\ HandedOut'
  <2> SUFFICES ASSUME TypeOK, HandedOut, [Next]_vars PROVE TypeOK' /\ HandedOut'
    OBVIOUS
  <2> USE SizeAssumption, CrashAssumption, WorkerAssumption
      DEF sched, ending, servers, files
  <2>1. CASE UNCHANGED vars
    BY <2>1 DEF vars, TypeOK, HandedOut, OneTaskPerWorker
  <2>2. CASE StartMaster
    <3>1. TypeOK'
      BY <2>2 DEF StartMaster, Begin, TypeOK
    <3>2. HandedOut'
      BY <2>2 DEF StartMaster, Begin, HandedOut, OneTaskPerWorker, Calling
    <3>3. QED
      BY <3>1, <3>2
  <2>3. CASE Spawn
    <3>1. TypeOK'
      BY <2>3 DEF Spawn, TypeOK, Tasks, Maps, Bins, Index, Calling
    <3>2. HandedOut'
      BY <2>3 DEF Spawn, TypeOK, HandedOut, OneTaskPerWorker, Calling
    <3>3. QED
      BY <3>1, <3>2
  <2>4. CASE EndPhase
    <3>1. TypeOK'
      BY <2>4 DEF EndPhase, Begin, TypeOK
    <3>2. HandedOut'
      BY <2>4 DEF EndPhase, Begin, HandedOut, OneTaskPerWorker, Calling
    <3>3. QED
      BY <3>1, <3>2
  <2>5. CASE StopMaster \/ Merge
    BY <2>5 DEF StopMaster, Merge, TypeOK, HandedOut, OneTaskPerWorker
  <2>6. ASSUME NEW w \in Workers, \/ StartWorker(w) \/ Check(w) \/ KillDial(w)
                                  \/ Shutdown(w)
        PROVE  TypeOK' /\ HandedOut'
    BY <2>6 DEF StartWorker, Check, KillDial, Shutdown, NoBye, TypeOK, HandedOut,
                OneTaskPerWorker
  <2>7. ASSUME NEW w \in Workers, Forward(w) PROVE TypeOK' /\ HandedOut'
    BY <2>7 DEF Forward, TypeOK, HandedOut, OneTaskPerWorker
  <2>8. ASSUME NEW w \in Workers, Accept(w) PROVE TypeOK' /\ HandedOut'
    BY <2>8 DEF Accept, Spend, TypeOK, HandedOut, OneTaskPerWorker, Calling
  <2>9. ASSUME NEW w \in Workers, Quit(w) PROVE TypeOK' /\ HandedOut'
    <3>0. crashes' \in 0..MaxCrash
      BY <2>9 DEF Quit, TypeOK
    <3>1. CASE Process
      <4>1. Killed(w) /\ UNCHANGED <<phase, spawned, told, workers, nrpc>>
        BY <2>9, <3>1 DEF Quit
      <4>2. QED
        BY <3>0, <4>1, KilledTypes, KilledKeeps
    <3>2. CASE ~Process /\ bye = [worker |-> w, at |-> "serving"]
      BY <2>9, <3>2 DEF Quit, TypeOK, HandedOut, OneTaskPerWorker
    <3>3. CASE ~Process /\ bye # [worker |-> w, at |-> "serving"]
      <4>1. Lose(w, {"queued"}) /\ UNCHANGED <<phase, spawned, told, workers, nrpc,
                                              files, crashes>>
        BY <2>9, <3>3 DEF Quit
      <4>2. {"queued"} \in SUBSET Calling
        BY DEF Calling
      <4>3. HandedOut'
        BY <4>1, <4>2, LoseKeeps
      <4>4. TypeOK'
        BY <4>1, LoseTypes DEF TypeOK
      <4>5. QED
        BY <4>3, <4>4
    <3>4. QED
      BY <3>1, <3>2, <3>3
  <2>10. ASSUME NEW w \in Workers, Crash(w) PROVE TypeOK' /\ HandedOut'
    <3>1. crashes' \in 0..MaxCrash
      BY <2>10 DEF Crash, TypeOK
    <3>2. Killed(w) /\ UNCHANGED <<phase, spawned, told, workers, nrpc>>
      BY <2>10 DEF Crash
    <3>3. QED
      BY <3>1, <3>2, KilledTypes, KilledKeeps
  <2>11. ASSUME NEW t \in Index, NEW w \in Workers, Receive(t, w)
         PROVE  TypeOK' /\ HandedOut'
    BY <2>11 DEF Receive, TypeOK, HandedOut, OneTaskPerWorker, Calling
  <2>12. ASSUME NEW t \in Index, Dial(t) PROVE TypeOK' /\ HandedOut'
    BY <2>12 DEF Dial, TypeOK, HandedOut, OneTaskPerWorker, Calling
  <2>13. ASSUME NEW t \in Index, DoTask(t) PROVE TypeOK' /\ HandedOut'
    <3>1. inter' \in Copies /\ res' \in Answers /\ out' \in Answers
      BY <2>13, FileTypes DEF DoTask
    <3>2. QED
      BY <2>13, <3>1 DEF DoTask, TypeOK, HandedOut, OneTaskPerWorker, Calling
  <2>14. ASSUME NEW t \in Index, Reply(t) PROVE TypeOK' /\ HandedOut'
    BY <2>14 DEF Reply, TypeOK, HandedOut, OneTaskPerWorker, Calling
  <2>15. QED
    BY <2>1, <2>2, <2>3, <2>4, <2>5, <2>6, <2>7, <2>8, <2>9, <2>10, <2>11,
       <2>12, <2>13, <2>14 DEF Next, Master
<1>3. QED
  BY <1>1, <1>2, PTL DEF Spec

\* Every state of the MapReduce master, its workers and the shared files is
\* well typed, whatever workers quit or are killed.
THEOREM TypeCorrect == Spec => []TypeOK
  BY HandedOutInvariant, PTL

\* schedule() never has two calls on one worker, so that DoTask's own check
\* never ends a worker, for any number of tasks and workers.
THEOREM OneTaskPerWorkerHolds == Spec => []OneTaskPerWorker
<1>1. HandedOut => OneTaskPerWorker
  BY DEF HandedOut
<1>2. QED
  BY <1>1, HandedOutInvariant, PTL

-----------------------------------------------------------------------------
(* No record is lost                                                       *)

\* What is in the files, by phase: the bins of an ended map task have its
\* record, after the map phase all bins have all records, and so have the
\* answers of ended reduce tasks.
MapsWritten(M) == \A x \in M : \A r \in Bins : inter[x][r] >= 1
AnswersComplete(B) == \A r \in B : \A x \in Maps : res[r][x] >= 1
Ended(I) == {t \in I : task[t] \in {"ran", "done"}}

RecordsKept ==
  /\ phase = "map" => MapsWritten(Ended(Maps))
  /\ phase \in {"reduce", "kill", "merge", "done"} => MapsWritten(Maps)
  /\ phase = "reduce" => AnswersComplete(Ended(Bins))
  /\ phase \in {"kill", "merge", "done"} => AnswersComplete(Bins)
  /\ NoLostRecord

\* Appending takes nothing away, and a reduce task that runs when all records
\* are there answers all of them.
LEMMA FilesGrow ==
  ASSUME TypeOK, NEW X, NEW B, NEW R, WriteFiles(X, B, R)
  PROVE  /\ \A x \in Maps, r \in Bins : inter'[x][r] >= inter[x][r]
         /\ \A x \in Maps, r \in Bins : x \in X /\ r \in B => inter'[x][r] >= 1
         /\ \A x \in Maps, r \in Bins :
               res'[r][x] = IF r \in R THEN inter[x][r] ELSE res[r][x]
         /\ out' = out
<1>1. \A x \in Maps, r \in Bins :
        /\ inter[x][r] \in Nat
        /\ inter'[x][r] = IF x \in X /\ r \in B THEN inter[x][r] + 1 ELSE inter[x][r]
  BY DEF TypeOK, WriteFiles, Copies
<1>2. \A x \in Maps, r \in Bins :
        res'[r][x] = IF r \in R THEN inter[x][r] ELSE res[r][x]
  BY DEF TypeOK, WriteFiles, Collect, Answers
<1>3. QED
  BY <1>1, <1>2 DEF WriteFiles

\* A step that appends and ends at most the tasks it has written for.
LEMMA WritesKeep ==
  ASSUME TypeOK, RecordsKept, UNCHANGED phase,
         NEW X, NEW B, NEW R, WriteFiles(X, B, R),
         \A t \in Index : /\ task'[t] \in {"ran", "done"}
                          /\ task[t] \notin {"ran", "done"}
                          => IF phase = "map" THEN t \in X /\ B = Bins ELSE t \in R
  PROVE  RecordsKept'
<1> USE FilesGrow
<1>0. Maps \subseteq Index /\ Bins \subseteq Index
  BY DEF Index
<1>1. \A x \in Maps, r \in Bins : inter[x][r] \in Nat /\ inter'[x][r] >= inter[x][r]
                                 /\ inter'[x][r] \in Nat
  BY FileTypes DEF TypeOK, Copies
<1>2. ASSUME phase = "map" PROVE MapsWritten(Ended(Maps))'
  <2> SUFFICES ASSUME NEW x \in Maps, task'[x] \in {"ran", "done"}, NEW r \in Bins
               PROVE  inter'[x][r] >= 1
    BY DEF MapsWritten, Ended
  <2>1. CASE task[x] \in {"ran", "done"}
    BY <1>1, <1>2, <2>1 DEF RecordsKept, MapsWritten, Ended
  <2>2. CASE task[x] \notin {"ran", "done"}
    BY <1>0, <1>2, <2>2
  <2>3. QED
    BY <2>1, <2>2
<1>3. ASSUME MapsWritten(Maps) PROVE MapsWritten(Maps)'
  BY <1>1, <1>3 DEF MapsWritten
<1>4. ASSUME phase = "reduce" PROVE AnswersComplete(Ended(Bins))'
  <2> SUFFICES ASSUME NEW r \in Bins, task'[r] \in {"ran", "done"}, NEW x \in Maps
               PROVE  res'[r][x] >= 1
    BY DEF AnswersComplete, Ended
  <2>1. inter[x][r] >= 1
    BY <1>4 DEF RecordsKept, MapsWritten
  <2>2. CASE r \in R
    BY <2>1, <2>2
  <2>3. CASE r \notin R
    BY <1>0, <1>4, <2>3 DEF RecordsKept, AnswersComplete, Ended
  <2>4. QED
    BY <2>2, <2>3
<1>5. ASSUME MapsWritten(Maps), AnswersComplete(Bins) PROVE AnswersComplete(Bins)'
  BY <1>5 DEF MapsWritten, AnswersComplete
<1>6. NoLostRecord'
  BY DEF RecordsKept, NoLostRecord
<1>7. QED
  BY <1>2, <1>3, <1>4, <1>5, <1>6 DEF RecordsKept

\* A step that leaves the files alone and ends no task.
LEMMA RestKeeps ==
  ASSUME TypeOK, RecordsKept, UNCHANGED <<phase, files>>,
         \A t \in Index : task'[t] \in {"ran", "done"} => task[t] \in {"ran", "done"}
  PROVE  RecordsKept'
<1>0. Maps \subseteq Index /\ Bins \subseteq Index
  BY DEF Index
<1>1. QED
  BY <1>0 DEF files, RecordsKept, MapsWritten, AnswersComplete, Ended, NoLostRecord

\* A lost call ends no task.
LEMMA LoseEndsNone ==
  ASSUME TypeOK, NEW w \in Workers, NEW S, Lose(w, S)
  PROVE  \A t \in Index : task'[t] \in {"ran", "done"} => task[t] \in {"ran", "done"}
  BY DEF Lose, TypeOK

LEMMA KilledKeepsRecords ==
  ASSUME TypeOK, RecordsKept, NEW w \in Workers, Killed(w), UNCHANGED phase
  PROVE  RecordsKept'
<1>1. \A t \in Index : task'[t] \in {"ran", "done"} => task[t] \in {"ran", "done"}
  BY LoseEndsNone DEF Killed
<1>2. PICK X, B, R : WriteFiles(X, B, R)
  BY DEF Killed
<1>3. QED
  BY <1>1, <1>2, WritesKeep

\* The finished output of a job has every record of every map task: no crash
\* at any point, no worker that quits and no retry loses one, for any numbers
\* of tasks and workers.
THEOREM NoLostRecordHolds == Spec => []NoLostRecord
<1>1. Init => RecordsKept
  BY DEF Init, RecordsKept, NoLostRecord
<1>2. TypeOK /\ RecordsKept /\ [Next]_vars => RecordsKept'
  <2> SUFFICES ASSUME TypeOK, RecordsKept, [Next]_vars PROVE RecordsKept'
    OBVIOUS
  <2> USE DEF sched, ending, servers, files
  <2>1. CASE UNCHANGED vars
    BY <2>1, RestKeeps DEF vars
  <2>2. CASE StartMaster
    BY <2>2 DEF StartMaster, Begin, RecordsKept, MapsWritten, Ended, NoLostRecord,
                Index
  <2>3. CASE Spawn
    <3>1. CASE spawned \in Maps
      BY <2>3, <3>1, RestKeeps DEF Spawn, TypeOK
    <3>2. CASE spawned \notin Maps
      BY <2>3, <3>2 DEF Spawn, RecordsKept, NoLostRecord
    <3>3. QED
      BY <3>1, <3>2
  <2>4. CASE EndPhase
    <3>1. CASE phase = "map"
      <4>1. Ended(Maps) = Maps
        BY <2>4, <3>1 DEF EndPhase, Tasks, Ended
      <4>2. MapsWritten(Maps)'
        BY <2>4, <3>1, <4>1 DEF EndPhase, RecordsKept, MapsWritten
      <4>3. Ended(Bins)' = {} /\ phase' = "reduce"
        BY <2>4, <3>1 DEF EndPhase, Begin, Ended, Index
      <4>4. QED
        BY <4>2, <4>3 DEF RecordsKept, AnswersComplete, NoLostRecord
    <3>2. CASE phase = "reduce"
      <4>1. Ended(Bins) = Bins
        BY <2>4, <3>2 DEF EndPhase, Tasks, Ended
      <4>2. phase' = "kill" /\ UNCHANGED files
        BY <2>4, <3>2 DEF EndPhase
      <4>3. QED
        BY <3>2, <4>1, <4>2
           DEF RecordsKept, AnswersComplete, MapsWritten, NoLostRecord
    <3>3. QED
      BY <2>4, <3>1, <3>2 DEF EndPhase
  <2>5. CASE StopMaster
    BY <2>5 DEF StopMaster, RecordsKept, MapsWritten, AnswersComplete, NoLostRecord
  <2>6. CASE Merge
    BY <2>6 DEF Merge, RecordsKept, MapsWritten, AnswersComplete, NoLostRecord
  <2>7. ASSUME NEW w \in Workers,
               \/ StartWorker(w) \/ Forward(w) \/ Check(w) \/ KillDial(w)
               \/ Shutdown(w)
        PROVE  RecordsKept'
    BY <2>7, RestKeeps DEF StartWorker, Forward, Check, KillDial, Shutdown
  <2>8. ASSUME NEW w \in Workers, Accept(w) PROVE RecordsKept'
    BY <2>8, RestKeeps DEF Accept, TypeOK
  <2>9. ASSUME NEW w \in Workers, Quit(w) PROVE RecordsKept'
    <3>1. CASE Process
      BY <2>9, <3>1, KilledKeepsRecords DEF Quit
    <3>2. CASE ~Process
      BY <2>9, <3>2, LoseEndsNone, RestKeeps DEF Quit
    <3>3. QED
      BY <3>1, <3>2
  <2>10. ASSUME NEW w \in Workers, Crash(w) PROVE RecordsKept'
    BY <2>10, KilledKeepsRecords DEF Crash
  <2>11. ASSUME NEW t \in Index, NEW w \in Workers, Receive(t, w)
         PROVE  RecordsKept'
    BY <2>11, RestKeeps DEF Receive, TypeOK
  <2>12. ASSUME NEW t \in Index, Dial(t) PROVE RecordsKept'
    BY <2>12, RestKeeps DEF Dial, TypeOK
  <2>13. ASSUME NEW t \in Index, DoTask(t) PROVE RecordsKept'
    <3>1. \A u \in Index : u # t => task'[u] = task[u]
      BY <2>13 DEF DoTask, TypeOK
    <3>2. CASE phase = "map"
      BY <2>13, <3>1, <3>2, WritesKeep DEF DoTask
    <3>3. CASE phase # "map"
      BY <2>13, <3>1, <3>3, WritesKeep DEF DoTask
    <3>4. QED
      BY <3>2, <3>3
  <2>14. ASSUME NEW t \in Index, Reply(t) PROVE RecordsKept'
    BY <2>14, RestKeeps DEF Reply, TypeOK
  <2>15. QED
    BY <2>1, <2>2, <2>3, <2>4, <2>5, <2>6, <2>7, <2>8, <2>9, <2>10, <2>11,
       <2>12, <2>13, <2>14 DEF Next, Master
<1>3. RecordsKept => NoLostRecord
  BY DEF RecordsKept
<1>4. QED
  BY <1>1, <1>2, <1>3, TypeCorrect, PTL DEF Spec

-----------------------------------------------------------------------------
(* Every record exactly once                                               *)

\* What is in the files as long as no worker was killed: the record of a map
\* task from the moment it has run, once, and in the answers of the reduce
\* tasks that have run, once.  A task whose goroutine has not started has not
\* run, so that no task runs twice.
NotStarted == \A i \in Maps : i >= spawned => task[i] = "none"
WrittenOnce == \A x \in Maps, r \in Bins :
  inter[x][r] = IF task[x] \in {"ran", "done"} THEN 1 ELSE 0
Copied(n) == \A x \in Maps, r \in Bins : inter[x][r] = n
AnsweredOnce(B) == \A r \in B, x \in Maps : res[r][x] = 1

RecordsOnce ==
  /\ phase = "init" => Copied(0)
  /\ phase = "map" => NotStarted /\ WrittenOnce
  /\ phase \in {"reduce", "kill", "merge", "done"} => Copied(1)
  /\ phase = "reduce" => AnsweredOnce(Ended(Bins))
  /\ phase \in {"kill", "merge", "done"} => AnsweredOnce(Bins)
  /\ phase = "done" => \A r \in Bins, x \in Maps : out[r][x] = 1

OnceInv == crashes = 0 => RecordsOnce

\* A step that leaves the files alone, ends no task and starts none over.
LEMMA RestKeepsOnce ==
  ASSUME TypeOK, RecordsOnce, UNCHANGED <<phase, files>>, spawned' = spawned,
         \A t \in Index :
           /\ task'[t] \in {"ran", "done"} <=> task[t] \in {"ran", "done"}
           /\ task[t] = "none" => task'[t] = "none"
  PROVE  RecordsOnce'
<1>0. Maps \subseteq Index /\ Bins \subseteq Index
  BY DEF Index
<1>1. UNCHANGED <<inter, res, out>>
  BY DEF files
<1>2. (phase = "init" => Copied(0)')
      /\ (phase \in {"reduce", "kill", "merge", "done"} => Copied(1)')
  BY <1>1 DEF RecordsOnce, Copied
<1>3. phase = "map" => NotStarted' /\ WrittenOnce'
  BY <1>0, <1>1 DEF RecordsOnce, NotStarted, WrittenOnce
<1>4. (phase = "reduce" => AnsweredOnce(Ended(Bins))')
      /\ (phase \in {"kill", "merge", "done"} => AnsweredOnce(Bins)')
  BY <1>0, <1>1 DEF RecordsOnce, AnsweredOnce, Ended
<1>5. QED
  BY <1>1, <1>2, <1>3, <1>4 DEF RecordsOnce

\* A worker whose goroutine ends loses only calls it has not accepted.
LEMMA LoseQueuedOnce ==
  ASSUME TypeOK, RecordsOnce, NEW w \in Workers, Lose(w, {"queued"}),
         UNCHANGED <<phase, files>>, spawned' = spawned
  PROVE  RecordsOnce'
<1>1. \A t \in Index :
        /\ task'[t] \in {"ran", "done"} <=> task[t] \in {"ran", "done"}
        /\ task[t] = "none" => task'[t] = "none"
  BY DEF Lose, CallsOn, TypeOK
<1>2. QED
  BY <1>1, RestKeepsOnce

LEMMA DoTaskOnce ==
  ASSUME TypeOK, RecordsOnce, NEW t \in Index, DoTask(t)
  PROVE  RecordsOnce'
<1>0. /\ task[t] = "running" /\ task'[t] = "ran" /\ UNCHANGED <<phase, spawned>>
      /\ \A u \in Index : u # t => task'[u] = task[u]
  BY DEF DoTask, TypeOK
<1>1. Maps \subseteq Index /\ Bins \subseteq Index
  BY DEF Index
<1>2. CASE phase = "map"
  <2>1. \A x \in Maps, r \in Bins :
          inter'[x][r] = IF x = t THEN inter[x][r] + 1 ELSE inter[x][r]
    BY <1>2 DEF DoTask, WriteFiles, TypeOK, Copies
  <2>2. WrittenOnce /\ NotStarted
    BY <1>2 DEF RecordsOnce
  <2>3. WrittenOnce'
    BY <1>0, <1>1, <2>1, <2>2 DEF WrittenOnce
  <2>4. NotStarted'
    BY <1>0, <1>1, <2>2 DEF NotStarted
  <2>5. QED
    BY <1>0, <1>2, <2>3, <2>4 DEF RecordsOnce
<1>3. CASE phase # "map"
  <2>1. /\ \A x \in Maps, r \in Bins : inter'[x][r] = inter[x][r]
        /\ \A x \in Maps, r \in Bins :
             res'[r][x] = IF r = t THEN inter[x][r] ELSE res[r][x]
        /\ out' = out
    <3>1. WriteFiles({}, {}, {t})
      BY <1>3 DEF DoTask
    <3>2. \A x \in Maps, r \in Bins : inter'[x][r] = inter[x][r]
      BY <3>1 DEF WriteFiles
    <3>3. QED
      BY <3>1, <3>2, FilesGrow
  <2>2. (phase = "init" => Copied(0)')
        /\ (phase \in {"reduce", "kill", "merge", "done"} => Copied(1)')
    BY <2>1 DEF RecordsOnce, Copied
  <2>3. ASSUME phase = "reduce" PROVE AnsweredOnce(Ended(Bins))'
    <3> SUFFICES ASSUME NEW r \in Bins, task'[r] \in {"ran", "done"}, NEW x \in Maps
                 PROVE  res'[r][x] = 1
      BY DEF AnsweredOnce, Ended
    <3>1. CASE r = t
      BY <2>1, <2>3, <3>1 DEF RecordsOnce, Copied
    <3>2. CASE r # t
      BY <1>0, <1>1, <2>1, <2>3, <3>2 DEF RecordsOnce, AnsweredOnce, Ended
    <3>3. QED
      BY <3>1, <3>2
  <2>4. ASSUME phase \in {"kill", "merge", "done"} PROVE AnsweredOnce(Bins)'
    BY <2>1, <2>4 DEF RecordsOnce, AnsweredOnce, Copied
  <2>5. QED
    BY <1>0, <1>3, <2>1, <2>2, <2>3, <2>4 DEF RecordsOnce
<1>4. QED
  BY <1>2, <1>3

LEMMA EndPhaseOnce ==
  ASSUME TypeOK, RecordsOnce, EndPhase
  PROVE  RecordsOnce'
<1>1. UNCHANGED <<inter, res, out>>
  BY DEF EndPhase, files
<1>2. CASE phase = "map"
  <2>1. phase' = "reduce" /\ \A t \in Index : task'[t] = "none"
    BY <1>2 DEF EndPhase, Begin
  <2>2. \A x \in Maps : task[x] = "done"
    BY <1>2 DEF EndPhase, Tasks
  <2>3. Copied(1)'
    BY <1>1, <1>2, <2>2 DEF RecordsOnce, WrittenOnce, Copied
  <2>4. AnsweredOnce(Ended(Bins))'
    BY <2>1 DEF AnsweredOnce, Ended, Index
  <2>5. QED
    BY <2>1, <2>3, <2>4 DEF RecordsOnce
<1>3. CASE phase = "reduce"
  <2>1. phase' = "kill"
    BY <1>3 DEF EndPhase
  <2>2. Ended(Bins) = Bins
    BY <1>3 DEF EndPhase, Tasks, Ended
  <2>3. Copied(1)' /\ AnsweredOnce(Bins)'
    BY <1>1, <1>3, <2>2 DEF RecordsOnce, Copied, AnsweredOnce
  <2>4. QED
    BY <2>1, <2>3 DEF RecordsOnce
<1>4. QED
  BY <1>2, <1>3 DEF EndPhase

LEMMA SpawnOnce ==
  ASSUME TypeOK, RecordsOnce, Spawn
  PROVE  RecordsOnce'
<1>0. Maps \subseteq Index /\ Bins \subseteq Index
  BY DEF Index
<1>1. CASE spawned \notin Maps
  BY <1>1 DEF Spawn, RecordsOnce
<1>2. CASE spawned \in Maps
  <2>1. /\ task' = [task EXCEPT ![spawned] = "wait"] /\ spawned' = spawned + 1
        /\ UNCHANGED <<phase, inter, res, out>> /\ spawned \in Int
        /\ phase \in {"map", "reduce"}
    BY <1>2 DEF Spawn, files, TypeOK, Maps
  <2>2. \A t \in Index : t # spawned => task'[t] = task[t]
    BY <2>1 DEF TypeOK
  <2>3. CASE phase = "map"
    <3>1. NotStarted /\ WrittenOnce
      BY <2>3 DEF RecordsOnce
    <3>2. task[spawned] = "none" /\ task'[spawned] = "wait"
      BY <1>0, <1>2, <2>1, <3>1 DEF NotStarted, TypeOK
    <3>3. WrittenOnce'
      BY <1>0, <2>1, <2>2, <3>1, <3>2 DEF WrittenOnce
    <3>4. NotStarted'
      BY <1>0, <2>1, <2>2, <3>1 DEF NotStarted, Maps
    <3>5. QED
      BY <2>1, <2>3, <3>3, <3>4 DEF RecordsOnce
  <2>4. CASE phase = "reduce"
    <3>1. Copied(1)' /\ AnsweredOnce(Ended(Bins))
      BY <2>1, <2>4 DEF RecordsOnce, Copied
    <3>2. \A r \in Bins : task'[r] \in {"ran", "done"} => task[r] \in {"ran", "done"}
      BY <1>0, <1>2, <2>1 DEF TypeOK
    <3>3. AnsweredOnce(Ended(Bins))'
      BY <2>1, <3>1, <3>2 DEF AnsweredOnce, Ended
    <3>4. QED
      BY <2>1, <2>4, <3>1, <3>3 DEF RecordsOnce
  <2>5. QED
    BY <2>1, <2>3, <2>4
<1>3. QED
  BY <1>1, <1>2

\* The finished output of a job has every record exactly once if no worker was
\* killed, for any numbers of tasks and workers and any limits on connections,
\* where RunWorker is a goroutine (as in the tests): a worker that stops
\* finishes what it accepted, so schedule() never gives out a task again that
\* has written.  Where RunWorker is the whole process, a limit ends a task in
\* the middle, as a kill does.
THEOREM ExactOutputHolds ==
  ASSUME ~Process
  PROVE  Spec => []ExactOutput
<1>1. Init => OnceInv
  BY DEF Init, OnceInv, RecordsOnce, Copied
<1>2. TypeOK /\ OnceInv /\ [Next]_vars => OnceInv'
  <2> SUFFICES ASSUME TypeOK, OnceInv, [Next]_vars, crashes' = 0 PROVE RecordsOnce'
    BY DEF OnceInv
  <2>1. crashes = 0 /\ \A w \in Workers : ~Crash(w)
    <3>1. ASSUME NEW w \in Workers, Crash(w) PROVE FALSE
      BY <3>1, CrashAssumption DEF Crash, TypeOK
    <3>2. crashes' = crashes \/ \E w \in Workers : Crash(w)
      BY DEF Next, Master, StartMaster, Spawn, EndPhase, StopMaster, Merge, StartWorker,
             Forward, Check, Accept, Quit, KillDial, Shutdown, Dial, DoTask, Reply,
             Receive, vars
    <3>3. QED
      BY <3>1, <3>2
  <2>2. RecordsOnce
    BY <2>1 DEF OnceInv
  <2>3. CASE UNCHANGED vars
    BY <2>2, <2>3, RestKeepsOnce DEF vars, sched
  <2>4. CASE StartMaster
    <3>1. /\ phase = "init" /\ phase' = "map" /\ UNCHANGED inter
          /\ \A t \in Index : task'[t] = "none"
      BY <2>4 DEF StartMaster, Begin, files
    <3>2. WrittenOnce'
      BY <2>2, <3>1 DEF RecordsOnce, Copied, WrittenOnce, Index
    <3>3. QED
      BY <3>1, <3>2 DEF RecordsOnce, NotStarted, Index
  <2>5. CASE StopMaster
    BY <2>2, <2>5
       DEF StopMaster, files, RecordsOnce, Copied, AnsweredOnce
  <2>6. CASE Merge
    BY <2>2, <2>6 DEF Merge, RecordsOnce, Copied, AnsweredOnce
  <2>7. ASSUME NEW w \in Workers,
               \/ StartWorker(w) \/ Forward(w) \/ Check(w) \/ KillDial(w)
               \/ Shutdown(w)
        PROVE  RecordsOnce'
    BY <2>2, <2>7, RestKeepsOnce DEF StartWorker, Forward, Check, KillDial, Shutdown,
                                     sched
  <2>8. ASSUME NEW w \in Workers, Accept(w) PROVE RecordsOnce'
    BY <2>2, <2>8, RestKeepsOnce DEF Accept, TypeOK
  <2>9. ASSUME NEW w \in Workers, Quit(w) PROVE RecordsOnce'
    <3>1. CASE Lose(w, {"queued"}) /\ UNCHANGED files
      BY <2>2, <2>9, <3>1, LoseQueuedOnce DEF Quit
    <3>2. CASE UNCHANGED <<task, files>>
      BY <2>2, <2>9, <3>2, RestKeepsOnce DEF Quit
    <3>3. QED
      BY <2>9, <3>1, <3>2 DEF Quit
  <2>10. ASSUME NEW t \in Index, NEW w \in Workers, Receive(t, w) PROVE RecordsOnce'
    BY <2>2, <2>10, RestKeepsOnce DEF Receive, TypeOK
  <2>11. ASSUME NEW t \in Index, Dial(t) PROVE RecordsOnce'
    BY <2>2, <2>11, RestKeepsOnce DEF Dial, TypeOK
  <2>12. ASSUME NEW t \in Index, Reply(t) PROVE RecordsOnce'
    BY <2>2, <2>12, RestKeepsOnce DEF Reply, TypeOK
  <2>13. QED
    BY <2>1, <2>2, <2>3, <2>4, <2>5, <2>6, <2>7, <2>8, <2>9, <2>10, <2>11, <2>12,
       SpawnOnce, EndPhaseOnce, DoTaskOnce DEF Next, Master
<1>3. OnceInv => ExactOutput
  BY DEF OnceInv, RecordsOnce, ExactOutput
<1>4. QED
  BY <1>1, <1>2, <1>3, TypeCorrect, PTL DEF Spec
============================================================================
