---------------------------- MODULE MasterGroup ----------------------------
(***************************************************************************)
(* The group of masters: the election of a leader through the znode        *)
(* "/master" (lockmaster, main), the calls that change the file table on   *)
(* the leader and are passed on to the other masters one after the other   *)
(* (master.go, rpcToReplica.go, rpcToChunkServer.go), and the replay of    *)
(* the log of a restarted master (recover).                                *)
(*                                                                         *)
(* Handlers run concurrently and hold no mutex: they are split at their    *)
(* remote calls.  Placements are named by the call that chose them.        *)
(***************************************************************************)
EXTENDS Integers, FiniteSets

CONSTANTS NumMasters,  \* masters, numbered in the order of their ports
          Callers,     \* goroutines of clients and chunkservers
          Files,
          Ops,         \* the calls made: "create", "add", "update", "delete"
          MaxCalls,    \* bound on calls
          MaxFaults,   \* bound on masters killed from outside and on session
                       \* expiries of running masters, together
          MaxLost,     \* bound on elections' requests that fail
          MaxRestart   \* bound on restarts

Masters == 1..NumMasters
Nobody == 0

ASSUME MasterAssumption == NumMasters \in Nat \ {0}
ASSUME OpsAssumption == Ops \subseteq {"create", "add", "update", "delete"}
ASSUME BoundAssumption ==
  /\ MaxCalls \in Nat /\ MaxFaults \in Nat
  /\ MaxLost \in Nat /\ MaxRestart \in Nat

VARIABLES
  \* ZooKeeper
  znode,      \* the master that made "/master"
  left,       \* {znode} if the process whose session owns it has ended
  \* the masters
  elect,      \* where the election goroutine of main is
  open,       \* masters that listen for calls
  isLeader,   \* masters whose isLeader is true
  table,      \* fileToChunkMap
  disk,       \* what recover() makes of the log
  \* the calls
  pc, op, name, id,
  at,         \* the master that serves the call
  to,         \* the next master to pass it on to
  cache,      \* masterLocation of a chunkserver
  \* bookkeeping
  answered,   \* the entry of a file after the last call that was answered
  fuzzy,      \* files with calls that overlapped or broke off
  restarted,  \* masters that have been restarted
  calls, kills, expiries, losses

zk      == <<znode, left, elect>>
masters == <<open, isLeader, table, disk>>
locals  == <<op, name, id, at, to, cache>>
ghosts  == <<answered, fuzzy, restarted, calls, kills, expiries, losses>>
vars    == <<zk, masters, pc, locals, ghosts>>

\* Entries: place is the call that chose the servers of chunk 0 and extra that
\* of chunk 1 (0: no such chunk), ver the last version reported.
NoFile == [place |-> -1, extra |-> 0, ver |-> 0]
Empty  == [place |-> 0, extra |-> 0, ver |-> 0]
Garbled == -1

\* An entry whose log recover() cannot replay: it adds a chunk to no file.
Broken == [place |-> -2, extra |-> 0, ver |-> 0]

\* What a call does to an entry: NewFileChunkFunc, AddChunkFunc,
\* UpdateChunkVersionFunc and DeleteFileAndChunksFunc.
Apply(o, e, n) ==
  CASE o = "create" -> [Empty EXCEPT !.place = n]
    [] o = "add"    -> [e EXCEPT !.extra = n]
    [] o = "update" -> [(IF e = NoFile THEN Empty ELSE e) EXCEPT !.ver = n]
    [] o = "delete" -> NoFile

\* The same, as recover() reads it back from the log: of an added chunk it
\* takes the file's name for the location.
Replay(o, e, n) ==
  IF e = Broken \/ (o = "add" /\ e = NoFile) THEN Broken
  ELSE Apply(o, e, IF o = "add" THEN Garbled ELSE n)

\* The masters have started and one of them leads.
Init ==
  /\ znode \in Masters /\ left = {}
  /\ elect = [m \in Masters |-> IF m = znode THEN "lead" ELSE "watch"]
  /\ open = Masters /\ isLeader = {znode}
  /\ table = [m \in Masters |-> [f \in Files |-> NoFile]]
  /\ disk = [m \in Masters |-> [f \in Files |-> NoFile]]
  /\ pc = [c \in Callers |-> "idle"]
  /\ op = [c \in Callers |-> "none"]
  /\ name \in [Callers -> Files]
  /\ id = [c \in Callers |-> 0]
  /\ at = [c \in Callers |-> Nobody] /\ to = [c \in Callers |-> 0]
  /\ cache = [c \in Callers |-> Nobody]
  /\ answered = [f \in Files |-> NoFile]
  /\ fuzzy = {} /\ restarted = {}
  /\ calls = 0 /\ kills = 0 /\ expiries = 0 /\ losses = 0

Up == {m \in Masters : elect[m] # "down"}

-----------------------------------------------------------------------------
(* The election                                                            *)

\* lockmaster: exists("/master").
ElectExists(m) ==
  /\ elect[m] = "exists"
  /\ elect' = [elect EXCEPT ![m] = IF znode = Nobody THEN "add" ELSE "existw"]
  /\ UNCHANGED <<znode, left, masters, pc, locals, ghosts>>

\* Mutant: whether add() succeeded is not looked at.
ElectAddAny(m) ==
  /\ elect[m] = "add"
  /\ znode' = IF znode = Nobody THEN m ELSE znode
  /\ elect' = [elect EXCEPT ![m] = "won"]
  /\ UNCHANGED <<left, masters, pc, locals, ghosts>>

\* add("/master", port): one session can create the znode.
ElectAdd(m) ==
  /\ elect[m] = "add"
  /\ IF znode = Nobody
     THEN znode' = m /\ elect' = [elect EXCEPT ![m] = "won"]
     ELSE elect' = [elect EXCEPT ![m] = "exists"] /\ UNCHANGED znode
  /\ UNCHANGED <<left, masters, pc, locals, ghosts>>

\* The call of add() fails: the request is lost, or the answer after the znode
\* was made.  lockmaster tries again, and may come to wait for its own znode.
ElectAddError(m) ==
  /\ elect[m] = "add"
  /\ losses < MaxLost
  /\ znode' = znode \/ (znode = Nobody /\ znode' = m)
  /\ elect' = [elect EXCEPT ![m] = "exists"]
  /\ losses' = losses + 1
  /\ UNCHANGED <<left, masters, pc, locals, answered, fuzzy, restarted, calls,
                 kills, expiries>>

\* Mutant: a master waits for a znode that is gone already.
ElectWatchBlind(m) ==
  /\ elect[m] = "existw"
  /\ elect' = [elect EXCEPT ![m] = "watch"]
  /\ open' = open \cup {m}
  /\ UNCHANGED <<znode, left, isLeader, table, disk, pc, locals, ghosts>>

\* existw("/master"): wait for the end of the leader, as a replica that
\* listens for calls; or try again if the znode is gone already.
ElectWatch(m) ==
  /\ elect[m] = "existw"
  /\ IF znode = Nobody
     THEN elect' = [elect EXCEPT ![m] = "exists"] /\ UNCHANGED open
     ELSE elect' = [elect EXCEPT ![m] = "watch"] /\ open' = open \cup {m}
  /\ UNCHANGED <<znode, left, isLeader, table, disk, pc, locals, ghosts>>

\* Mutant: a master that wins its first round does not listen.
LeadDeaf(m) ==
  /\ elect[m] = "won"
  /\ elect' = [elect EXCEPT ![m] = "lead"]
  /\ isLeader' = isLeader \cup {m}
  /\ UNCHANGED <<znode, left, open, table, disk, pc, locals, ghosts>>

\* main sets isLeader, and listens if this is the first round.
Lead(m) ==
  /\ elect[m] = "won"
  /\ elect' = [elect EXCEPT ![m] = "lead"]
  /\ isLeader' = isLeader \cup {m} /\ open' = open \cup {m}
  /\ UNCHANGED <<znode, left, table, disk, pc, locals, ghosts>>

\* The znode goes with its session; watchers start again.
Unwatched(e) == [m \in Masters |-> IF e[m] = "watch" THEN "exists" ELSE e[m]]

\* ZooKeeper ends the session of a process that is gone, although its master
\* may have been restarted.
SessionEnd ==
  /\ left # {}
  /\ znode' = Nobody /\ left' = {}
  /\ elect' = Unwatched(elect)
  /\ UNCHANGED <<masters, pc, locals, ghosts>>

\* The znode is that of m's own session.
Owns(m) == znode = m /\ m \notin left

\* A running master loses its session: nobody tells a leader, and a replica's
\* watch fires.
Expire(m) ==
  /\ kills + expiries < MaxFaults
  /\ m \in Up
  /\ Owns(m) \/ elect[m] = "watch"
  /\ IF Owns(m)
     THEN znode' = Nobody /\ elect' = Unwatched(elect)
     ELSE elect' = [elect EXCEPT ![m] = "exists"] /\ UNCHANGED znode
  /\ expiries' = expiries + 1
  /\ UNCHANGED <<left, masters, pc, locals, answered, fuzzy, restarted, calls,
                 kills, losses>>

\* States of a call while a master serves it.
Served == {"check", "apply", "bcast", "pass"}

\* The process of master m ends, and with it the calls it was serving.
Die(m) ==
  LET cut == {c \in Callers : at[c] = m /\ pc[c] \in Served}
  IN /\ elect' = [elect EXCEPT ![m] = "down"]
     /\ left' = IF Owns(m) THEN {m} ELSE left
     /\ open' = open \ {m} /\ isLeader' = isLeader \ {m}
     /\ pc' = [c \in Callers |-> IF c \in cut THEN "broken" ELSE pc[c]]
     /\ fuzzy' = fuzzy \cup {name[c] : c \in cut}

Kill(m) ==
  /\ kills + expiries < MaxFaults
  /\ m \in Up
  /\ Die(m)
  /\ kills' = kills + 1
  /\ UNCHANGED <<znode, table, disk, locals, answered, restarted, calls, expiries,
                 losses>>

\* main after an end: recover() replays the master's own log.
Restart(m) ==
  /\ Cardinality(restarted) < MaxRestart
  /\ elect[m] = "down"
  /\ \A f \in Files : disk[m][f] # Broken
  /\ table' = [table EXCEPT ![m] = disk[m]]
  /\ elect' = [elect EXCEPT ![m] = "exists"]
  /\ restarted' = restarted \cup {m}
  /\ UNCHANGED <<znode, left, open, isLeader, disk, pc, locals, answered, fuzzy,
                 calls, kills, expiries, losses>>

-----------------------------------------------------------------------------
(* The calls                                                               *)

Goto(c, s) == pc' = [pc EXCEPT ![c] = s]

Busy(f) == \E c \in Callers : pc[c] # "idle" /\ name[c] = f

Call(c, o, f) ==
  /\ pc[c] = "idle"
  /\ calls < MaxCalls
  /\ op' = [op EXCEPT ![c] = o] /\ name' = [name EXCEPT ![c] = f]
  /\ id' = [id EXCEPT ![c] = calls + 1]
  /\ Goto(c, "dial")
  /\ fuzzy' = IF Busy(f) THEN fuzzy \cup {f} ELSE fuzzy
  /\ calls' = calls + 1
  /\ UNCHANGED <<zk, masters, at, to, cache, answered, restarted, kills, expiries,
                 losses>>

\* The master a caller dials: clients ask ZooKeeper every time, chunkservers
\* keep the answer until nobody listens there.
Target(c) == IF op[c] = "update" /\ cache[c] \in open THEN cache[c] ELSE znode

\* goto dialLeader until somebody listens.
Dial(c) ==
  /\ pc[c] = "dial"
  /\ Target(c) \in open
  /\ at' = [at EXCEPT ![c] = Target(c)]
  /\ cache' = IF op[c] = "update" THEN [cache EXCEPT ![c] = Target(c)] ELSE cache
  /\ Goto(c, "check")
  /\ UNCHANGED <<zk, masters, op, name, id, to, ghosts>>

\* The call returns to the caller.
Return(c) ==
  /\ Goto(c, "idle")
  /\ op' = [op EXCEPT ![c] = "none"] /\ id' = [id EXCEPT ![c] = 0]
  /\ at' = [at EXCEPT ![c] = Nobody] /\ to' = [to EXCEPT ![c] = 0]
  /\ UNCHANGED <<name, cache>>

\* A handler says -4 if it is not the leader's, -1 to a create of a file that
\* exists and -2 to an added chunk of one that does not.
Refused(c) ==
  LET m == at[c]
  IN \/ m \notin isLeader
     \/ op[c] = "create" /\ table[m][name[c]] # NoFile
     \/ op[c] = "add" /\ table[m][name[c]] = NoFile

Set(tab, c, e) == [tab EXCEPT ![at[c]][name[c]] = e]

Logged(c) == Set(disk, c, Replay(op[c], disk[at[c]][name[c]], id[c]))
Changed(c) == Set(table, c, Apply(op[c], table[at[c]][name[c]], id[c]))

\* The handlers up to their first remote call: an update is logged and done, a
\* delete is logged.
Check(c) ==
  /\ pc[c] = "check"
  /\ IF Refused(c)
     THEN Return(c) /\ UNCHANGED <<table, disk>>
     ELSE /\ Goto(c, IF op[c] = "update" THEN "bcast" ELSE "apply")
          /\ disk' = IF op[c] \in {"update", "delete"} THEN Logged(c) ELSE disk
          /\ table' = IF op[c] = "update" THEN Changed(c) ELSE table
          /\ to' = [to EXCEPT ![c] = 1]
          /\ UNCHANGED <<op, name, id, at, cache>>
  /\ UNCHANGED <<zk, open, isLeader, ghosts>>

\* After the chunkservers have answered: a create and an added chunk are done
\* and logged, a delete is done.  A chunk cannot be added to a file that was
\* deleted meanwhile: the entry is a nil map, and the master panics.
ApplyCall(c) ==
  /\ pc[c] = "apply"
  /\ IF op[c] = "add" /\ table[at[c]][name[c]] = NoFile
     THEN Die(at[c]) /\ UNCHANGED <<table, disk>>
     ELSE /\ table' = Changed(c)
          /\ disk' = IF op[c] = "delete" THEN disk ELSE Logged(c)
          /\ Goto(c, "bcast")
          /\ UNCHANGED <<left, elect, open, isLeader, fuzzy>>
  /\ UNCHANGED <<znode, locals, answered, restarted, calls, kills, expiries,
                 losses>>

\* On to the next master.
Onward(c) == /\ to' = [to EXCEPT ![c] = to[c] + 1]
             /\ Goto(c, "bcast")

\* The loop over the other masters dials the next one.  If it does not listen
\* an added chunk skips it; every other call uses the nil connection, and the
\* leader panics.
Broadcast(c) ==
  /\ pc[c] = "bcast"
  /\ to[c] \in Masters
  /\ IF to[c] # at[c] /\ to[c] \notin open /\ op[c] # "add"
     THEN Die(at[c]) /\ UNCHANGED to
     ELSE /\ IF to[c] = at[c] \/ to[c] \notin open THEN Onward(c)
             ELSE Goto(c, "pass") /\ UNCHANGED to
          /\ UNCHANGED <<left, elect, open, isLeader, fuzzy>>
  /\ UNCHANGED <<znode, table, disk, op, name, id, at, cache, answered, restarted,
                 calls, kills, expiries, losses>>

\* Mutant: a replica takes an update only if it has no such file.
AcceptsNew(r, c) ==
  /\ r \notin isLeader
  /\ op[c] \in {"create", "update"} => table[r][name[c]] = NoFile
  /\ op[c] = "add" => table[r][name[c]] # NoFile

\* The guards of the replicas' handlers: a leader refuses, a file is created
\* once, and a chunk is added to a file that exists.
Accepts(r, c) ==
  /\ r \notin isLeader
  /\ op[c] = "create" => table[r][name[c]] = NoFile
  /\ op[c] = "add" => table[r][name[c]] # NoFile

\* The replica's handler logs the call and does it; a replica that ended after
\* it was dialled is passed over.
Pass(c) ==
  /\ pc[c] = "pass"
  /\ LET r == to[c]
         f == name[c]
     IN IF r \in open /\ Accepts(r, c)
        THEN /\ table' = [table EXCEPT ![r][f] = Apply(op[c], table[r][f], id[c])]
             /\ disk' = [disk EXCEPT ![r][f] = Replay(op[c], disk[r][f], id[c])]
             /\ UNCHANGED fuzzy
        ELSE /\ fuzzy' = IF r \in open THEN fuzzy ELSE fuzzy \cup {f}
             /\ UNCHANGED <<table, disk>>
  /\ Onward(c)
  /\ UNCHANGED <<zk, open, isLeader, op, name, id, at, cache, answered, restarted,
                 calls, kills, expiries, losses>>

\* All masters have been told: the leader answers.
Answer(c) ==
  /\ pc[c] = "bcast"
  /\ to[c] \notin Masters
  /\ Return(c)
  /\ answered' = [answered EXCEPT ![name[c]] =
                    Apply(op[c], answered[name[c]], id[c])]
  /\ UNCHANGED <<zk, masters, fuzzy, restarted, calls, kills, expiries, losses>>

\* The caller of a master that is gone gets an error, which it ignores.
BrokenOff(c) ==
  /\ pc[c] = "broken"
  /\ Return(c)
  /\ UNCHANGED <<zk, masters, ghosts>>

-----------------------------------------------------------------------------
Elect(m) == ElectExists(m) \/ ElectAdd(m) \/ ElectWatch(m) \/ Lead(m)

Serve(c) == \/ Dial(c) \/ Check(c) \/ ApplyCall(c) \/ Broadcast(c) \/ Pass(c)
            \/ Answer(c) \/ BrokenOff(c)

Next ==
  \/ \E m \in Masters : \/ Elect(m) \/ ElectAddError(m)
                        \/ Expire(m) \/ Kill(m) \/ Restart(m)
  \/ SessionEnd
  \/ \E c \in Callers : \/ Serve(c)
                        \/ \E o \in Ops, f \in Files : Call(c, o, f)

Spec == Init /\ [][Next]_vars

\* Goroutines run, remote calls return, and ZooKeeper times sessions out.
FairSpec ==
  /\ Spec
  /\ WF_vars(SessionEnd)
  /\ \A m \in Masters : WF_vars(Elect(m))
  /\ \A c \in Callers : WF_vars(Serve(c))

-----------------------------------------------------------------------------
(* Properties                                                              *)

Entries == [place: {-2, -1} \cup 0..MaxCalls, extra: {Garbled} \cup 0..MaxCalls,
            ver: 0..MaxCalls]

TypeOK ==
  /\ znode \in Masters \cup {Nobody} /\ left \subseteq Masters \cap {znode}
  /\ elect \in [Masters -> {"exists", "add", "existw", "watch", "won", "lead",
                             "down"}]
  /\ open \subseteq Up /\ isLeader \subseteq open
  /\ table \in [Masters -> [Files -> Entries \ {Broken}]]
  /\ disk \in [Masters -> [Files -> Entries]]
  /\ pc \in [Callers -> {"idle", "dial", "broken"} \cup Served]
  /\ op \in [Callers -> Ops \cup {"none"}] /\ name \in [Callers -> Files]
  /\ id \in [Callers -> 0..MaxCalls]
  /\ at \in [Callers -> Masters \cup {Nobody}]
  /\ to \in [Callers -> 0..(NumMasters + 1)]
  /\ cache \in [Callers -> Masters \cup {Nobody}]
  /\ answered \in [Files -> Entries]
  /\ fuzzy \subseteq Files /\ restarted \subseteq Masters
  /\ calls \in 0..MaxCalls /\ kills \in 0..MaxFaults
  /\ expiries \in 0..MaxFaults /\ losses \in 0..MaxLost

\* Until a session expires at most one master takes itself for the leader,
\* through all ends, restarts and elections.
OneLeader == expiries = 0 => Cardinality(isLeader) <= 1

\* What the leader has answered outlives it.  If the calls on a file did not
\* overlap and none broke off, every master that runs has the file as the last
\* answered call left it; one that was restarted may lack an added chunk, but
\* its log has brought back everything else.
AnsweredEverywhere ==
  expiries = 0 =>
    \A f \in Files \ fuzzy : ~Busy(f) =>
      \A m \in Up :
        IF m \in restarted
        THEN /\ table[m][f].place = answered[f].place
             /\ table[m][f].ver = answered[f].ver
        ELSE table[m][f] = answered[f]

\* The owner of the znode waits for the znode to go: an answer of add() was lost.
WaitsForItself == \E m \in Masters : Owns(m) /\ elect[m] = "watch"

\* While a master runs, one of them comes to lead, unless lockmaster missed that
\* it had made the znode: then the group waits for that master to end or to lose
\* its session, after which one comes to lead again.
LeaderElected == (Up # {}) ~> (isLeader # {} \/ Up = {} \/ WaitsForItself)

\* The group serves on as long as one of its masters is not killed.
OneKillSurvived == kills <= 1 => Up # {}
============================================================================
