----------------------------- MODULE MapReduce -----------------------------
(***************************************************************************)
(* The distributed MapReduce of lab4: the master (master.go, schedule.go)  *)
(* hands map and then reduce tasks to registered workers (worker.go) over  *)
(* one connection per call; the tasks (doMap, doReduce) append to files of *)
(* a shared directory, which merge() collects.                             *)
(*                                                                         *)
(* A map task writes one record into each of its NReduce bins, and a file  *)
(* is the number of copies of that record.  A worker accepts a limited     *)
(* number of connections and then stops.                                   *)
(***************************************************************************)
EXTENDS Integers, FiniteSets

CONSTANTS Workers, NoWorker,
          NMap,      \* input files
          NReduce,   \* reduce tasks
          Limit,     \* nRPC given to RunWorker; negative: never quits
          Process,   \* TRUE: RunWorker is the whole process, as in wc.go
          MaxCrash   \* bound on worker processes killed from outside

Maps == 0..(NMap - 1)
Bins == 0..(NReduce - 1)
Index == Maps \cup Bins

ASSUME SizeAssumption == NMap \in Nat \ {0} /\ NReduce \in Nat \ {0}
ASSUME LimitAssumption == Limit \in [Workers -> Int \ {0}]
ASSUME WorkerAssumption == NoWorker \notin Workers
ASSUME CrashAssumption == MaxCrash \in Nat /\ Process \in BOOLEAN

VARIABLES
  \* the master
  phase,    \* run(): init, map, reduce, kill, merge, done; or panic
  spawned,  \* schedule(): tasks whose goroutine has been started
  task,     \* where the goroutine of each task is
  on,       \* the worker each task is being called on
  workers,  \* mr.workers
  told,     \* workers forwardRegistrations has sent in this phase
  chan,     \* workers whose send on registerChan is waiting
  left,     \* killWorkers(): workers still to be shut down
  bye,      \* the Shutdown call under way
  \* the workers
  wpc,      \* the accept loop of RunWorker
  nrpc,     \* connections it will still accept
  \* the shared directory
  inter,    \* copies of map m's record in its file for reduce r
  res,      \* the last answer of reduce r: copies seen, per map task
  out,      \* the merged output
  crashes

sched   == <<spawned, task, on, told, chan>>
ending  == <<left, bye>>
servers == <<wpc, nrpc>>
files   == <<inter, res, out>>
vars    == <<phase, sched, workers, ending, servers, files, crashes>>

\* The tasks of the running phase.
Tasks == IF phase = "map" THEN Maps ELSE Bins

\* A task that schedule() has given to a worker.
Calling == {"dial", "queued", "running", "ran"}

NoBye == [worker |-> NoWorker, at |-> "none"]

Init ==
  /\ phase = "init"
  /\ spawned = 0
  /\ task = [i \in Index |-> "none"]
  /\ on = [i \in Index |-> NoWorker]
  /\ workers = {} /\ told = {} /\ chan = {} /\ left = {}
  /\ bye = NoBye
  /\ wpc = [w \in Workers |-> "off"]
  /\ nrpc = Limit
  /\ inter = [m \in Maps |-> [r \in Bins |-> 0]]
  /\ res = [r \in Bins |-> [m \in Maps |-> 0]]
  /\ out = [r \in Bins |-> [m \in Maps |-> 0]]
  /\ crashes = 0

-----------------------------------------------------------------------------
(* The master: run, forwardRegistrations, schedule                         *)

\* schedule() starts with a new channel and new goroutines; whatever still
\* waits on the old channel waits for ever.
Begin(p) == /\ phase' = p
            /\ spawned' = 0
            /\ task' = [i \in Index |-> "none"]
            /\ on' = [i \in Index |-> NoWorker]
            /\ told' = {} /\ chan' = {}

StartMaster == /\ phase = "init"
               /\ Begin("map")
               /\ UNCHANGED <<workers, ending, servers, files, crashes>>

\* RunWorker listens and calls Register, once: nobody answers before the
\* master runs or after it stopped, and killWorkers holds the master's mutex.
StartWorker(w) ==
  /\ wpc[w] = "off"
  /\ phase # "kill"
  /\ wpc' = [wpc EXCEPT ![w] = "check"]
  /\ workers' = IF phase \in {"map", "reduce"} THEN workers \cup {w} ELSE workers
  /\ UNCHANGED <<phase, sched, ending, nrpc, files, crashes>>

Forward(w) ==
  /\ phase \in {"map", "reduce"}
  /\ w \in workers \ told
  /\ told' = told \cup {w}
  /\ chan' = chan \cup {w}
  /\ UNCHANGED <<phase, spawned, task, on, workers, ending, servers, files,
                 crashes>>

\* The loop of schedule() names mapFiles[i] in both phases: an index beyond
\* the input files is a panic of the master.
Spawn ==
  /\ phase \in {"map", "reduce"}
  /\ spawned \in Tasks
  /\ IF spawned \in Maps
     THEN /\ task' = [task EXCEPT ![spawned] = "wait"]
          /\ spawned' = spawned + 1
          /\ UNCHANGED phase
     ELSE phase' = "panic" /\ UNCHANGED <<task, spawned>>
  /\ UNCHANGED <<on, told, chan, workers, ending, servers, files, crashes>>

\* Mutant: the worker stays in the channel while it has a task.
ReceiveKept(t, w) ==
  /\ phase \in {"map", "reduce"}
  /\ task[t] = "wait"
  /\ w \in chan
  /\ on' = [on EXCEPT ![t] = w]
  /\ task' = [task EXCEPT ![t] = "dial"]
  /\ UNCHANGED <<phase, spawned, told, chan, workers, ending, servers, files,
                 crashes>>

Receive(t, w) ==
  /\ phase \in {"map", "reduce"}
  /\ task[t] = "wait"
  /\ w \in chan
  /\ chan' = chan \ {w}
  /\ on' = [on EXCEPT ![t] = w]
  /\ task' = [task EXCEPT ![t] = "dial"]
  /\ UNCHANGED <<phase, spawned, told, workers, ending, servers, files, crashes>>

\* call(): a worker that does not listen is put back like any other.
Dial(t) ==
  /\ phase \in {"map", "reduce"}
  /\ task[t] = "dial"
  /\ IF wpc[on[t]] \in {"check", "accept"}
     THEN task' = [task EXCEPT ![t] = "queued"] /\ UNCHANGED <<on, chan>>
     ELSE /\ task' = [task EXCEPT ![t] = "wait"]
          /\ chan' = chan \cup {on[t]}
          /\ on' = [on EXCEPT ![t] = NoWorker]
  /\ UNCHANGED <<phase, spawned, told, workers, ending, servers, files, crashes>>

-----------------------------------------------------------------------------
(* A worker: RunWorker, DoTask, Shutdown                                   *)

Spend(w) == nrpc' = [nrpc EXCEPT ![w] = IF @ > 0 THEN @ - 1 ELSE @]

Check(w) ==
  /\ wpc[w] = "check"
  /\ nrpc[w] # 0
  /\ wpc' = [wpc EXCEPT ![w] = "accept"]
  /\ UNCHANGED <<phase, sched, workers, ending, nrpc, files, crashes>>

\* The loop takes a connection and leaves it to a goroutine.
Accept(w) ==
  /\ wpc[w] = "accept"
  /\ wpc' = [wpc EXCEPT ![w] = "check"]
  /\ Spend(w)
  /\ \/ \E t \in Index :
          /\ task[t] = "queued" /\ on[t] = w
          /\ task' = [task EXCEPT ![t] = "running"]
          /\ UNCHANGED bye
     \/ /\ bye = [worker |-> w, at |-> "queued"]
        /\ bye' = [bye EXCEPT !.at = "serving"]
        /\ UNCHANGED task
  /\ UNCHANGED <<phase, spawned, on, told, chan, workers, left, files, crashes>>

\* doReduce reads one file per map task.
Collect(r) == [m \in Maps |-> inter[m][r]]

\* doMap appends to every bin of the map tasks M that B names; doReduce of the
\* reduce tasks in R appends its answers, which merge() reads last.
WriteFiles(M, B, R) ==
  /\ inter' = [m \in Maps |-> [r \in Bins |->
                 IF m \in M /\ r \in B THEN inter[m][r] + 1 ELSE inter[m][r]]]
  /\ res' = [r \in Bins |-> IF r \in R THEN Collect(r) ELSE res[r]]
  /\ UNCHANGED out

\* The body of DoTask.
DoTask(t) ==
  /\ task[t] = "running"
  /\ task' = [task EXCEPT ![t] = "ran"]
  /\ IF phase = "map" THEN WriteFiles({t}, Bins, {}) ELSE WriteFiles({}, {}, {t})
  /\ UNCHANGED <<phase, spawned, on, told, chan, workers, ending, servers,
                 crashes>>

\* Mutant: the worker is not put back after its task.
ReplyKept(t) ==
  /\ task[t] = "ran"
  /\ task' = [task EXCEPT ![t] = "done"]
  /\ on' = [on EXCEPT ![t] = NoWorker]
  /\ UNCHANGED <<phase, spawned, told, chan, workers, ending, servers, files,
                 crashes>>

\* Mutant: the worker is forgotten before it is put back.
ReplyCleared(t) ==
  /\ task[t] = "ran"
  /\ task' = [task EXCEPT ![t] = "done"]
  /\ on' = [on EXCEPT ![t] = NoWorker]
  /\ chan' = chan \cup {on'[t]}
  /\ UNCHANGED <<phase, spawned, told, workers, ending, servers, files, crashes>>

\* The answer arrives: the worker goes back to the channel, wg.Done().
Reply(t) ==
  /\ task[t] = "ran"
  /\ task' = [task EXCEPT ![t] = "done"]
  /\ chan' = chan \cup {on[t]}
  /\ on' = [on EXCEPT ![t] = NoWorker]
  /\ UNCHANGED <<phase, spawned, told, workers, ending, servers, files, crashes>>

\* Calls on w that are in one of the states S.
CallsOn(w, S) == {t \in Index : task[t] \in S /\ on[t] = w}

\* Mutant: a failed call counts as the end of its task.
LoseDone(w, S) ==
  LET lost == CallsOn(w, S) IN
  /\ wpc' = [wpc EXCEPT ![w] = "gone"]
  /\ task' = [t \in Index |-> IF t \in lost THEN "done" ELSE task[t]]
  /\ on' = [t \in Index |-> IF t \in lost THEN NoWorker ELSE on[t]]
  /\ chan' = IF lost = {} THEN chan ELSE chan \cup {w}
  /\ IF bye.worker = w
     THEN bye' = NoBye /\ left' = left \ {w}
     ELSE UNCHANGED <<bye, left>>

\* The worker is gone, and with it the calls in the states S: schedule() puts
\* the worker back and gives the task to the next one in the channel.
Lose(w, S) ==
  LET lost == CallsOn(w, S) IN
  /\ wpc' = [wpc EXCEPT ![w] = "gone"]
  /\ task' = [t \in Index |-> IF t \in lost THEN "wait" ELSE task[t]]
  /\ on' = [t \in Index |-> IF t \in lost THEN NoWorker ELSE on[t]]
  /\ chan' = IF lost = {} THEN chan ELSE chan \cup {w}
  /\ IF bye.worker = w
     THEN bye' = NoBye /\ left' = left \ {w}
     ELSE UNCHANGED <<bye, left>>

\* A process that ends in the middle of a task has written any part of it.
Killed(w) ==
  /\ Lose(w, {"queued", "running", "ran"})
  /\ LET cut == CallsOn(w, {"running"}) IN
     IF phase = "map" THEN \E B \in SUBSET Bins : WriteFiles(cut, B, {})
                      ELSE \E R \in SUBSET cut : WriteFiles({}, {}, R)

\* The accept loop ends: RunWorker closes the listener and returns.  Where it
\* is called from main, the process ends with the task it just accepted.
Quit(w) ==
  /\ wpc[w] = "check"
  /\ nrpc[w] = 0
  /\ IF Process
     THEN Killed(w)
     ELSE IF bye = [worker |-> w, at |-> "serving"]
          THEN /\ wpc' = [wpc EXCEPT ![w] = "gone"]
               /\ UNCHANGED <<task, on, chan, ending, files>>
          ELSE Lose(w, {"queued"}) /\ UNCHANGED files
  /\ UNCHANGED <<phase, spawned, told, workers, nrpc, crashes>>

Crash(w) ==
  /\ wpc[w] \in {"check", "accept"}
  /\ crashes < MaxCrash
  /\ crashes' = crashes + 1
  /\ Killed(w)
  /\ UNCHANGED <<phase, spawned, told, workers, nrpc>>

-----------------------------------------------------------------------------
(* The end of a phase and of the job                                       *)

\* Mutant: wg.Add(1) comes too late, so that wg.Wait() can miss a task.
EndPhaseEarly ==
  /\ phase \in {"map", "reduce"}
  /\ spawned \notin Tasks
  /\ \A t \in Tasks : task[t] # "wait"
  /\ IF phase = "map"
     THEN Begin("reduce") /\ UNCHANGED left
     ELSE phase' = "kill" /\ left' = workers /\ UNCHANGED sched
  /\ UNCHANGED <<workers, bye, servers, files, crashes>>

EndPhase ==
  /\ phase \in {"map", "reduce"}
  /\ \A t \in Tasks : task[t] = "done"
  /\ IF phase = "map"
     THEN Begin("reduce") /\ UNCHANGED left
     ELSE phase' = "kill" /\ left' = workers /\ UNCHANGED sched
  /\ UNCHANGED <<workers, bye, servers, files, crashes>>

\* killWorkers: a worker that does not listen is skipped.
KillDial(w) ==
  /\ phase = "kill"
  /\ bye = NoBye
  /\ w \in left
  /\ IF wpc[w] \in {"check", "accept"}
     THEN bye' = [worker |-> w, at |-> "queued"] /\ UNCHANGED left
     ELSE left' = left \ {w} /\ UNCHANGED bye
  /\ UNCHANGED <<phase, sched, workers, servers, files, crashes>>

\* Shutdown: one more connection, and the worker stops.
Shutdown(w) ==
  /\ bye = [worker |-> w, at |-> "serving"]
  /\ nrpc' = [nrpc EXCEPT ![w] = 1]
  /\ bye' = NoBye
  /\ left' = left \ {w}
  /\ UNCHANGED <<phase, sched, workers, wpc, files, crashes>>

StopMaster ==
  /\ phase = "kill"
  /\ left = {}
  /\ phase' = "merge"
  /\ UNCHANGED <<sched, workers, ending, servers, files, crashes>>

Merge ==
  /\ phase = "merge"
  /\ phase' = "done"
  /\ out' = res
  /\ UNCHANGED <<sched, workers, ending, servers, inter, res, crashes>>

-----------------------------------------------------------------------------
Master == StartMaster \/ Spawn \/ EndPhase \/ StopMaster \/ Merge

Next ==
  \/ Master
  \/ \E w \in Workers : \/ StartWorker(w) \/ Forward(w) \/ Check(w) \/ Accept(w)
                        \/ Quit(w) \/ Crash(w) \/ KillDial(w) \/ Shutdown(w)
  \/ \E t \in Index : \/ Dial(t) \/ DoTask(t) \/ Reply(t)
                      \/ \E w \in Workers : Receive(t, w)

Spec == Init /\ [][Next]_vars

\* Goroutines run.  A channel serves its blocked senders in order, so a worker
\* that waits to be handed out is handed out as long as tasks keep asking.
FairSpec ==
  /\ Spec
  /\ WF_vars(Master)
  /\ \A w \in Workers :
       /\ WF_vars(Forward(w)) /\ WF_vars(Check(w)) /\ WF_vars(Accept(w))
       /\ WF_vars(Quit(w)) /\ WF_vars(KillDial(w)) /\ WF_vars(Shutdown(w))
       /\ SF_vars(\E t \in Index : Receive(t, w))
  /\ \A t \in Index : WF_vars(Dial(t) \/ DoTask(t) \/ Reply(t))

-----------------------------------------------------------------------------
(* Properties                                                              *)

Copies == [Maps -> [Bins -> Nat]]
Answers == [Bins -> [Maps -> Nat]]

TypeOK ==
  /\ phase \in {"init", "map", "reduce", "kill", "merge", "done", "panic"}
  /\ spawned \in 0..(NMap + NReduce)
  /\ task \in [Index -> {"none", "wait", "done"} \cup Calling]
  /\ on \in [Index -> Workers \cup {NoWorker}]
  /\ workers \subseteq Workers /\ told \subseteq Workers
  /\ chan \subseteq Workers /\ left \subseteq Workers
  /\ bye \in [worker: Workers \cup {NoWorker}, at: {"none", "queued", "serving"}]
  /\ wpc \in [Workers -> {"off", "check", "accept", "gone"}]
  /\ nrpc \in [Workers -> Int]
  /\ inter \in Copies /\ res \in Answers /\ out \in Answers
  /\ crashes \in 0..MaxCrash

\* DoTask's own check: schedule() never has two calls on one worker, not even
\* after a failed call put the worker back or across the two phases.
OneTaskPerWorker ==
  \A t, u \in Index :
    task[t] \in Calling /\ task[u] \in Calling /\ on[t] = on[u] => t = u

\* The finished output has every record of every map task, whatever workers
\* stop or are killed: no reduce starts before all maps have ended.
NoLostRecord == phase = "done" => \A r \in Bins, m \in Maps : out[r][m] >= 1

\* And it has every record exactly once, unless a worker was killed.
ExactOutput ==
  phase = "done" /\ crashes = 0 => \A r \in Bins, m \in Maps : out[r][m] = 1

\* The job ends if one registered worker never stops: tasks whose calls fail
\* are given out again, and workers that are gone do not hold them for ever.
JobCompletes ==
  \A w \in Workers :
    (w \in workers /\ Limit[w] < 0) ~> (phase = "done" \/ wpc[w] = "gone")
=============================================================================
