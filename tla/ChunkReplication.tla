-------------------------- MODULE ChunkReplication --------------------------
(***************************************************************************)
(* One chunk of one file of the gdocs file system, from the client library *)
(* (gfs_api.go) through the leader master (master.go) to the chunkservers  *)
(* that store its two replicas (chunkserver.go, rpcToOtherChunk.go).       *)
(*                                                                         *)
(* Remote calls run concurrently and none of the servers holds a mutex, so *)
(* a handler is split at its own remote calls.  The chunk's distributed    *)
(* lock is the abstract lock that ZkLock implements.  The leader is one    *)
(* process that never fails over here.  The contents of the chunk are one  *)
(* stamp per cell: the number of the write that last reached it.           *)
(***************************************************************************)
EXTENDS Integers, FiniteSets

CONSTANTS Clients,     \* goroutines that call the client library
          NoClient,    \* holder of a free chunk lock
          Cells,       \* disjoint byte ranges of the chunk
          NumServers,  \* chunkservers, numbered in scheduleList's order
          Ops,         \* the library calls made: "write", "read", "delete"
          Added,       \* FALSE: chunk 0, made by create; TRUE: a later chunk
          MaxCalls,    \* bound on library calls
          MaxCrash,    \* bound on injected chunkserver crashes
          MaxRestart,  \* bound on chunkserver restarts
          MaxSlow,     \* bound on time-outs of a chunkserver that runs
          Word         \* ChunkNum is an unsigned word: 2^64 in the code

Servers == 1..NumServers
Nowhere == 0

ASSUME ClientAssumption == NoClient \notin Clients
ASSUME CellAssumption == Cells # {}
ASSUME ServerAssumption == NumServers \in Nat /\ NumServers >= 2
ASSUME OpsAssumption == Ops \subseteq {"write", "read", "delete"}
ASSUME FlagAssumption == Added \in BOOLEAN
ASSUME WordAssumption == Word \in Nat /\ Word > 1
ASSUME BoundAssumption ==
  MaxCalls \in Nat /\ MaxCrash \in Nat /\ MaxRestart \in Nat /\ MaxSlow \in Nat

VARIABLES
  \* the leader master
  leader,    \* "up", or "down" after a panic or log.Fatalln
  fmap,      \* fileToChunkMap: has no such file, the file, also the chunk
  locs,      \* Chunklocation of Chunk_1 and Chunk_2
  mver,      \* Version of the replica at a server, as the master knows it
  alive,     \* scheduleList: Alive
  chunkNum,  \* scheduleList: ChunkNum
  \* the chunkservers
  up,        \* servers whose process runs
  has,       \* servers that have the chunk's file and map entry
  data,      \* contents of the chunk file
  ver,       \* nameToChunkMetadataMap: Version
  logged,    \* Version in the last "Version" record of the log
  doomed,    \* servers whose log recover() cannot replay
  late,      \* calls and handlers of a chunkserver that died meanwhile
  \* the clients
  holder,    \* holder of the lock "/Chunkid"
  pc,        \* where each call is
  \* the local variables of each call
  op, at,    \* what is called, on which cell
  loc, rep,  \* location and location_replica
  all,       \* AllServerLocation: the servers still to broadcast to
  val,       \* the stamp written or read
  wver,      \* chunkmetadata.Version in the Write handler
  \* bookkeeping
  issued,    \* library calls so far
  writes,    \* writes that reached a chunkserver: source of the stamps
  last,      \* stamp of the last write whose Write call returned normally
  crashes, restarts,
  slow,      \* time-outs of a chunkserver that runs
  astray     \* what versions cannot mend: "skipped", a write left out a running
             \* replica that was marked dead; "overtaken", a write was served
             \* while a call of a dead chunkserver was still under way

master == <<leader, fmap, locs, mver, alive, chunkNum>>
disks  == <<up, has, data, ver, logged, doomed, late>>
count  == <<issued, writes, last, crashes, restarts, slow, astray>>
locals == <<op, at, loc, rep, all, val, wver>>
vars   == <<master, disks, holder, pc, locals, count>>

Blank == [c \in Cells |-> 0]

AnyCell == CHOOSE c \in Cells : TRUE

\* Calls being served by the chunkserver at loc.
AtPrimary == {"report", "bcast", "breport"}

\* Calls that own the chunk lock; "panic" is a call that died owning it.
Locked == AtPrimary \cup {"write", "read", "unlock", "del1", "del2", "dunlock",
                          "panic"}

States == Locked \cup {"idle", "locate", "addcall", "add1", "add2", "addrec",
                       "lock", "delete", "dlock", "forget"}

Goto(c, s) == pc' = [pc EXCEPT ![c] = s]

\* The library call ends and its local variables are gone.
Return(c) ==
  /\ Goto(c, "idle")
  /\ op' = [op EXCEPT ![c] = "none"] /\ at' = [at EXCEPT ![c] = AnyCell]
  /\ loc' = [loc EXCEPT ![c] = Nowhere] /\ rep' = [rep EXCEPT ![c] = Nowhere]
  /\ all' = [all EXCEPT ![c] = {}] /\ val' = [val EXCEPT ![c] = 0]
  /\ wver' = [wver EXCEPT ![c] = 0]

\* scheduleList after create() has put chunk 0 on the first two servers.
FirstTwo == [s \in Servers |-> IF s <= 2 THEN 1 ELSE 0]

Init ==
  /\ leader = "up"
  /\ fmap = IF Added THEN "file" ELSE "chunk"
  /\ locs = IF Added THEN <<Nowhere, Nowhere>> ELSE <<1, 2>>
  /\ mver = [s \in Servers |-> 0]
  /\ alive = Servers
  /\ chunkNum = FirstTwo
  /\ up = Servers
  /\ has = IF Added THEN {} ELSE {1, 2}
  /\ data = [s \in Servers |-> Blank]
  /\ ver = [s \in Servers |-> 0]
  /\ logged = [s \in Servers |-> 0]
  /\ doomed = {}
  /\ late = {}
  /\ holder = NoClient
  /\ pc = [c \in Clients |-> "idle"]
  /\ op = [c \in Clients |-> "none"] /\ at = [c \in Clients |-> AnyCell]
  /\ loc = [c \in Clients |-> Nowhere] /\ rep = [c \in Clients |-> Nowhere]
  /\ all = [c \in Clients |-> {}] /\ val = [c \in Clients |-> 0]
  /\ wver = [c \in Clients |-> 0]
  /\ issued = 0 /\ writes = 0 /\ last = Blank /\ crashes = 0 /\ restarts = 0
  /\ slow = 0 /\ astray = {}

-----------------------------------------------------------------------------
(* Calls of the client library, up to the chunk lock                       *)

Call(c, o, cell) ==
  /\ pc[c] = "idle"
  /\ issued < MaxCalls
  /\ issued' = issued + 1
  /\ op' = [op EXCEPT ![c] = o] /\ at' = [at EXCEPT ![c] = cell]
  /\ Goto(c, IF o = "delete" THEN "delete" ELSE "locate")
  /\ UNCHANGED <<master, disks, holder, loc, rep, all, val, wver,
                 writes, last, crashes, restarts, slow, astray>>

\* The replica GetChunkLocation names: the higher version, the first replica
\* on a tie, the other one if that server is marked dead.
Located == LET best == IF mver[locs[1]] >= mver[locs[2]] THEN 1 ELSE 2
           IN IF locs[best] \in alive THEN locs[best] ELSE locs[3 - best]

\* GetChunkLocation: no file, no chunk, no live replica, or an answer.
Locate(c) ==
  /\ pc[c] = "locate"
  /\ leader = "up"
  /\ \/ /\ fmap = "chunk"
        /\ {locs[1], locs[2]} \cap alive # {}
        /\ loc' = [loc EXCEPT ![c] = Located] /\ all' = [all EXCEPT ![c] = alive]
        /\ Goto(c, "lock")
        /\ UNCHANGED <<leader, op, at, rep, val, wver>>
     \/ /\ fmap = "chunk"
        /\ {locs[1], locs[2]} \cap alive = {}
        /\ leader' = "down"                        \* log.Fatalln
        /\ UNCHANGED <<pc, locals>>
     \/ /\ fmap # "chunk"
        /\ IF fmap = "file" /\ op[c] = "write"
           THEN Goto(c, "addcall") /\ UNCHANGED locals
           ELSE Return(c)
        /\ UNCHANGED leader
  /\ UNCHANGED <<fmap, locs, mver, alive, chunkNum, disks, holder, count>>

-----------------------------------------------------------------------------
(* AddChunk: the write found no chunk at its index                         *)

\* AddChunk looks for the file once, before AddChunkFunc's first remote call.
AddCall(c) ==
  /\ pc[c] = "addcall"
  /\ leader = "up"
  /\ IF fmap = "nofile" THEN Return(c) ELSE Goto(c, "add1") /\ UNCHANGED locals
  /\ UNCHANGED <<master, disks, holder, count>>

\* metas[0] and metas[1] of the live servers sorted by ChunkNum.
Lighter(s, t) == \/ chunkNum[s] < chunkNum[t]
                 \/ chunkNum[s] = chunkNum[t] /\ s < t
Lightest(S) == CHOOSE s \in S : \A t \in S \ {s} : Lighter(s, t)

\* Mutant: ChunkNum is signed and is not wrapped.
ShiftSigned(s, t, d) == [x \in Servers |-> IF x \in {s, t} THEN chunkNum[x] + d
                                                        ELSE chunkNum[x]]

\* ChunkNum++ or ChunkNum-- for the two servers of a chunk.
Shift(s, t, d) == [x \in Servers |-> IF x \in {s, t} THEN (chunkNum[x] + d) % Word
                                                  ELSE chunkNum[x]]

\* AddChunk and CreateChunk of the chunkserver, also for a chunk it already
\* has: os.Create truncates.  The Version record of Add has no final "/".
Install(s) == /\ has' = has \cup {s}
              /\ data' = [data EXCEPT ![s] = Blank]
              /\ ver' = [ver EXCEPT ![s] = 0]
              /\ logged' = [logged EXCEPT ![s] = 0]
              /\ doomed' = doomed \cup {s}

\* AddChunkFunc picks the servers and calls the first; a server it cannot
\* dial sends it back to funcBegin; the second of fewer than two live servers
\* is a panic, after the call of the first.
Add1(c) ==
  /\ pc[c] = "add1"
  /\ leader = "up"
  /\ \/ \E s \in alive, t \in alive :
          /\ s = Lightest(alive)
          /\ t # s /\ t = Lightest(alive \ {s})
          /\ s \in up
          /\ Install(s)
          /\ loc' = [loc EXCEPT ![c] = s] /\ rep' = [rep EXCEPT ![c] = t]
          /\ Goto(c, "add2")
          /\ UNCHANGED leader
     \/ /\ \A s, t \in alive : s = t
        /\ \/ alive = {} /\ UNCHANGED <<has, data, ver, logged, doomed>>
           \/ \E s \in alive \cap up : Install(s)
        /\ leader' = "down"
        /\ UNCHANGED <<pc, loc, rep>>
  /\ UNCHANGED <<fmap, locs, mver, alive, chunkNum, up, late, holder,
                 op, at, all, val, wver, count>>

\* Mutant: only the first replica is created.
Add2Skipped(c) ==
  /\ pc[c] = "add2"
  /\ leader = "up"
  /\ Goto(c, "addrec")
  /\ UNCHANGED <<master, disks, holder, locals, count>>

\* The same for the replica; its failure creates the first replica again.
Add2(c) ==
  /\ pc[c] = "add2"
  /\ leader = "up"
  /\ IF rep[c] \in up
     THEN Install(rep[c]) /\ Goto(c, "addrec")
     ELSE Goto(c, "add1") /\ UNCHANGED <<has, data, ver, logged, doomed>>
  /\ UNCHANGED <<master, up, late, holder, locals, count>>

\* The entry is written after both calls; a map deleted meanwhile is nil and
\* writing to it is a panic.  The reply carries no AllServerLocation.
AddRecord(c) ==
  /\ pc[c] = "addrec"
  /\ leader = "up"
  /\ LET s == loc[c]  t == rep[c] IN
     /\ chunkNum' = Shift(s, t, 1)
     /\ IF fmap # "nofile"
        THEN /\ fmap' = "chunk"
             /\ locs' = <<s, t>>
             /\ mver' = [mver EXCEPT ![s] = 0, ![t] = 0]
             /\ Goto(c, "lock")
             /\ UNCHANGED leader
        ELSE leader' = "down" /\ UNCHANGED <<fmap, locs, mver, pc>>
  /\ UNCHANGED <<alive, disks, holder, locals, count>>

-----------------------------------------------------------------------------
(* Under the chunk lock: the Write and Read handlers of a chunkserver      *)

\* Mutant: the lock is taken without waiting for its holder.
LockUnchecked(c) ==
  /\ pc[c] = "lock"
  /\ holder' = c
  /\ Goto(c, IF op[c] = "read" THEN "read" ELSE "write")
  /\ UNCHANGED <<master, disks, locals, count>>

Lock(c) ==
  /\ pc[c] = "lock"
  /\ holder = NoClient
  /\ holder' = c
  /\ Goto(c, IF op[c] = "read" THEN "read" ELSE "write")
  /\ UNCHANGED <<master, disks, locals, count>>

\* rpcToNode*Chunk uses the connection it could not open: a nil dereference.
\* The goroutine dies, its ZooKeeper session and so the lock stay.
DialPanic(c) ==
  /\ pc[c] \in {"write", "read"}
  /\ loc[c] \notin up
  /\ Goto(c, "panic")
  /\ UNCHANGED <<master, disks, holder, locals, count>>

\* Running replicas that the list of servers c was given leaves out.  The list
\* of a write that added the chunk is empty.
LeftOut(c) == IF all[c] = {} THEN {} ELSE (up \cap has) \ (all[c] \cup {loc[c]})

\* WriteChunk and the version bump.  The record is logged first, so a missing
\* file is a log.Fatalln that every later recover() meets again.
WriteChunk(c) ==
  LET s == loc[c] IN
  /\ pc[c] = "write"
  /\ s \in up
  /\ writes' = writes + 1
  /\ astray' = astray \cup (IF LeftOut(c) # {} THEN {"skipped"} ELSE {})
                     \cup (IF late # {} THEN {"overtaken"} ELSE {})
  /\ IF s \in has
     THEN /\ data' = [data EXCEPT ![s][at[c]] = writes + 1]
          /\ ver' = [ver EXCEPT ![s] = @ + 1]
          /\ val' = [val EXCEPT ![c] = writes + 1]
          /\ wver' = [wver EXCEPT ![c] = ver[s] + 1]
          /\ all' = [all EXCEPT ![c] = @ \ {s}]
          /\ Goto(c, "report")
          /\ UNCHANGED <<up, doomed>>
     ELSE /\ up' = up \ {s}
          /\ doomed' = doomed \cup {s}
          /\ Goto(c, "unlock")
          /\ UNCHANGED <<data, ver, val, wver, all>>
  /\ UNCHANGED <<master, has, logged, late, holder, op, at, loc, rep,
                 issued, last, crashes, restarts, slow>>

\* UpdateChunkVersionFunc, for a server that is one of the two locations.  For
\* a file deleted meanwhile the code makes an entry without locations, which
\* is left out.
SetVersion(s, v) ==
  mver' = IF fmap = "chunk" /\ s \in {locs[1], locs[2]} THEN [mver EXCEPT ![s] = v] ELSE mver

\* updateMasterVersion of the server that took the write.
Report(c) ==
  /\ pc[c] = "report"
  /\ leader = "up"
  /\ SetVersion(loc[c], wver[c])
  /\ Goto(c, "bcast")
  /\ UNCHANGED <<leader, fmap, locs, alive, chunkNum, disks, holder,
                 locals, count>>

\* The next server updateReplicaVersion calls.
NextReplica(c, s) == s \in all[c] /\ \A t \in all[c] : s <= t

\* Mutant: a replica adopts the version and not the data.
BroadcastVersion(c) ==
  /\ pc[c] = "bcast"
  /\ \E s \in Servers :
       /\ NextReplica(c, s)
       /\ IF s \in up /\ s \in has
          THEN /\ ver' = [ver EXCEPT ![s] = wver[c]]
               /\ Goto(c, "breport")
               /\ UNCHANGED all
          ELSE /\ all' = [all EXCEPT ![c] = @ \ {s}]
               /\ UNCHANGED <<ver, pc>>
  /\ UNCHANGED <<master, up, has, data, logged, doomed, late, holder,
                 op, at, loc, rep, val, wver, count>>

\* UpdateOwnChunkVersion: a dead server is skipped, one without the chunk
\* answers false, one with it writes and adopts the caller's version.
Broadcast(c) ==
  /\ pc[c] = "bcast"
  /\ \E s \in Servers :
       /\ NextReplica(c, s)
       /\ IF s \in up /\ s \in has
          THEN /\ data' = [data EXCEPT ![s][at[c]] = val[c]]
               /\ ver' = [ver EXCEPT ![s] = wver[c]]
               /\ Goto(c, "breport")
               /\ UNCHANGED all
          ELSE /\ all' = [all EXCEPT ![c] = @ \ {s}]
               /\ UNCHANGED <<data, ver, pc>>
  /\ UNCHANGED <<master, up, has, logged, doomed, late, holder,
                 op, at, loc, rep, val, wver, count>>

\* Mutant: the replica does not tell the master its new version.
ReplicaSilent(c) ==
  /\ pc[c] = "breport"
  /\ \E s \in Servers :
       /\ NextReplica(c, s)
       /\ logged' = [logged EXCEPT ![s] = wver[c]]
       /\ all' = [all EXCEPT ![c] = @ \ {s}]
  /\ Goto(c, "bcast")
  /\ UNCHANGED <<master, up, has, data, ver, doomed, late, holder,
                 op, at, loc, rep, val, wver, count>>

\* The replica's own updateMasterVersion and Version record.
ReplicaReport(c) ==
  /\ pc[c] = "breport"
  /\ leader = "up"
  /\ \E s \in Servers :
       /\ NextReplica(c, s)
       /\ SetVersion(s, wver[c])
       /\ logged' = [logged EXCEPT ![s] = wver[c]]
       /\ all' = [all EXCEPT ![c] = @ \ {s}]
  /\ Goto(c, "bcast")
  /\ UNCHANGED <<leader, fmap, locs, alive, chunkNum,
                 up, has, data, ver, doomed, late, holder,
                 op, at, loc, rep, val, wver, count>>

\* The last line of Write: the Version record; the call returns.
LogVersion(c) ==
  /\ pc[c] = "bcast"
  /\ all[c] = {}
  /\ logged' = [logged EXCEPT ![loc[c]] = wver[c]]
  /\ last' = [last EXCEPT ![at[c]] = val[c]]
  /\ Goto(c, "unlock")
  /\ UNCHANGED <<master, up, has, data, ver, doomed, late, holder, locals,
                 issued, writes, crashes, restarts, slow, astray>>

\* Read; a missing file is a log.Fatalln.
ReadChunk(c) ==
  LET s == loc[c] IN
  /\ pc[c] = "read"
  /\ s \in up
  /\ IF s \in has
     THEN val' = [val EXCEPT ![c] = data[s][at[c]]] /\ UNCHANGED up
     ELSE up' = up \ {s} /\ UNCHANGED val
  /\ Goto(c, "unlock")
  /\ UNCHANGED <<master, has, data, ver, logged, doomed, late, holder,
                 op, at, loc, rep, all, wver, count>>

\* Mutant: the call returns without unlock.
UnlockMissing(c) ==
  /\ pc[c] = "unlock"
  /\ Return(c)
  /\ UNCHANGED <<master, disks, holder, count>>

\* unlock; write returns true whatever the call answered.
Unlock(c) ==
  /\ pc[c] = "unlock"
  /\ holder' = NoClient
  /\ Return(c)
  /\ UNCHANGED <<master, disks, count>>

-----------------------------------------------------------------------------
(* DeleteFileAndChunks, which takes the chunk lock in the master           *)

\* The entry is read and ChunkNum lowered before the lock is asked for.
DeleteBegin(c) ==
  /\ pc[c] = "delete"
  /\ leader = "up"
  /\ IF fmap = "chunk"
     THEN /\ loc' = [loc EXCEPT ![c] = locs[1]] /\ rep' = [rep EXCEPT ![c] = locs[2]]
          /\ chunkNum' = Shift(locs[1], locs[2], -1)
          /\ Goto(c, "dlock")
     ELSE Goto(c, "forget") /\ UNCHANGED <<loc, rep, chunkNum>>
  /\ UNCHANGED <<leader, fmap, locs, mver, alive, disks, holder,
                 op, at, all, val, wver, count>>

DeleteLock(c) ==
  /\ pc[c] = "dlock"
  /\ leader = "up"
  /\ holder = NoClient
  /\ holder' = c
  /\ Goto(c, "del1")
  /\ UNCHANGED <<master, disks, locals, count>>

\* Mutant: only the first replica is deleted.
DeleteFirst(c) ==
  /\ pc[c] = "del1"
  /\ leader = "up"
  /\ has' = IF loc[c] \in up THEN has \ {loc[c]} ELSE has
  /\ up' = IF loc[c] \in has THEN up ELSE up \ {loc[c]}
  /\ Goto(c, "dunlock")
  /\ UNCHANGED <<master, data, ver, logged, doomed, late, holder, locals, count>>

\* Delete at one replica: an unreachable server is skipped, a missing file
\* is a log.Fatalln.
DeleteChunk(c) ==
  /\ pc[c] \in {"del1", "del2"}
  /\ leader = "up"
  /\ LET s == IF pc[c] = "del1" THEN loc[c] ELSE rep[c] IN
     /\ has' = IF s \in up THEN has \ {s} ELSE has
     /\ up' = IF s \in has THEN up ELSE up \ {s}
  /\ Goto(c, IF pc[c] = "del1" THEN "del2" ELSE "dunlock")
  /\ UNCHANGED <<master, data, ver, logged, doomed, late, holder, locals, count>>

DeleteUnlock(c) ==
  /\ pc[c] = "dunlock"
  /\ leader = "up"
  /\ holder' = NoClient
  /\ Goto(c, "forget")
  /\ UNCHANGED <<master, disks, locals, count>>

\* delete(fileToChunkMap, Filename) comes last, after the lock is free.
Forget(c) ==
  /\ pc[c] = "forget"
  /\ leader = "up"
  /\ fmap' = "nofile"
  /\ Return(c)
  /\ UNCHANGED <<leader, locs, mver, alive, chunkNum, disks, holder, count>>

-----------------------------------------------------------------------------
(* Chunkserver failures and the master's view of them                      *)

\* What outlives a chunkserver: a replica's handler its dead caller no longer
\* waits for ("report"), and calls that were sent but not yet served.
Task(c, kind, s) == [kind |-> kind, srv |-> s, cell |-> at[c],
                     val |-> val[c], ver |-> wver[c]]
Tasks == [kind: {"write", "report", "sent"}, srv: Servers, cell: Cells,
          val: Nat, ver: Nat]

Serving(state, s) ==       \* calls at primary s, with the replica called next
  {p \in Clients \X Servers : /\ pc[p[1]] = state
                              /\ loc[p[1]] = s
                              /\ NextReplica(p[1], p[2])}

Orphans(s) == {Task(p[1], "report", p[2]) : p \in Serving("breport", s)}

Sent(s) == {Task(p[1], "write", p[2]) : p \in Serving("bcast", s)}
           \cup {Task(c, "sent", s) : c \in
                   {d \in Clients : \/ pc[d] = "report" /\ loc[d] = s
                                    \/ pc[d] = "breport" /\ NextReplica(d, s)}}

\* A crash ends the calls the server is serving: the client's Write call
\* fails, a primary's broadcast call fails and it goes on to the next server.
Crash(s) ==
  /\ crashes < MaxCrash
  /\ crashes' = crashes + 1
  /\ s \in up
  /\ up' = up \ {s}
  /\ pc' = [c \in Clients |->
              IF pc[c] \in AtPrimary /\ loc[c] = s THEN "unlock"
              ELSE IF pc[c] = "breport" /\ NextReplica(c, s) THEN "bcast"
              ELSE pc[c]]
  /\ \E S \in SUBSET Sent(s) :
       late' = {t \in late : t.srv # s \/ t.kind = "sent"} \cup Orphans(s) \cup S
  /\ UNCHANGED <<master, has, data, ver, logged, doomed, holder, locals,
                 issued, writes, last, restarts, slow, astray>>

\* UpdateOwnChunkVersion served after its caller died: no lock protects it.
LateWrite(t) ==
  /\ t \in late /\ t.kind = "write"
  /\ IF t.srv \in up \cap has
     THEN /\ data' = [data EXCEPT ![t.srv][t.cell] = t.val]
          /\ ver' = [ver EXCEPT ![t.srv] = t.ver]
          /\ late' = (late \ {t}) \cup {[t EXCEPT !.kind = "report"]}
     ELSE late' = late \ {t} /\ UNCHANGED <<data, ver>>
  /\ UNCHANGED <<master, up, has, logged, doomed, holder, pc, locals, count>>

\* updateMasterVersion and the Version record of such a handler.
LateReport(t) ==
  /\ t \in late /\ t.kind \in {"report", "sent"}
  /\ leader = "up"
  /\ late' = late \ {t}
  /\ SetVersion(t.srv, t.ver)
  /\ logged' = IF t.kind = "report" THEN [logged EXCEPT ![t.srv] = t.ver] ELSE logged
  /\ UNCHANGED <<leader, fmap, locs, alive, chunkNum, up, has, data, ver,
                 doomed, holder, pc, locals, count>>

\* main: recover() replays the log, so the version is the last one logged.
Restart(s) ==
  /\ restarts < MaxRestart
  /\ restarts' = restarts + 1
  /\ s \in Servers \ (up \cup doomed)
  /\ up' = up \cup {s}
  /\ ver' = [ver EXCEPT ![s] = logged[s]]
  /\ UNCHANGED <<master, has, data, logged, doomed, late, holder, pc, locals,
                 issued, writes, last, crashes, slow, astray>>

\* timeup: no heartbeat for three seconds, because the server is down or
\* because it or the network is slow.
Timeup(s) ==
  /\ leader = "up"
  /\ s \in alive
  /\ s \in up => slow < MaxSlow
  /\ alive' = alive \ {s}
  /\ slow' = IF s \in up THEN slow + 1 ELSE slow
  /\ UNCHANGED <<leader, fmap, locs, mver, chunkNum, disks, holder, pc,
                 locals, issued, writes, last, crashes, restarts, astray>>

AcceptHeartbeat(s) ==
  /\ leader = "up"
  /\ s \in up \ alive
  /\ alive' = alive \cup {s}
  /\ UNCHANGED <<leader, fmap, locs, mver, chunkNum, disks, holder, pc,
                 locals, count>>

-----------------------------------------------------------------------------
Step(c) ==
  \/ Locate(c) \/ AddCall(c) \/ Add1(c) \/ Add2(c) \/ AddRecord(c)
  \/ Lock(c) \/ DialPanic(c) \/ WriteChunk(c) \/ Report(c) \/ Broadcast(c)
  \/ ReplicaReport(c) \/ LogVersion(c) \/ ReadChunk(c) \/ Unlock(c)
  \/ DeleteBegin(c) \/ DeleteLock(c) \/ DeleteChunk(c) \/ DeleteUnlock(c)
  \/ Forget(c)

Next == \/ \E c \in Clients :
             Step(c) \/ \E o \in Ops, cell \in Cells : Call(c, o, cell)
        \/ \E s \in Servers :
             Crash(s) \/ Restart(s) \/ Timeup(s) \/ AcceptHeartbeat(s)
        \/ \E t \in late : LateWrite(t) \/ LateReport(t)

Spec == Init /\ [][Next]_vars

\* Goroutines run, calls return, heartbeats arrive and the timer of a server
\* that is down fires; nobody is obliged to call the library, to crash, to be
\* restarted or to be slow.
FairSpec == /\ Spec
            /\ \A c \in Clients : WF_vars(Step(c))
            /\ \A s \in Servers : /\ WF_vars(s \notin up /\ Timeup(s))
                                  /\ WF_vars(AcceptHeartbeat(s))
            /\ WF_vars(\E t \in late : LateWrite(t) \/ LateReport(t))

-----------------------------------------------------------------------------
(* Properties                                                              *)

MasterOK ==
  /\ leader \in {"up", "down"} /\ fmap \in {"nofile", "file", "chunk"}
  /\ locs \in (Servers \cup {Nowhere}) \X (Servers \cup {Nowhere})
  /\ mver \in [Servers -> Nat] /\ alive \subseteq Servers
  /\ chunkNum \in [Servers -> 0..(Word - 1)]

DisksOK ==
  /\ up \subseteq Servers /\ has \subseteq Servers /\ doomed \subseteq Servers
  /\ data \in [Servers -> [Cells -> Nat]]
  /\ ver \in [Servers -> Nat] /\ logged \in [Servers -> Nat]
  /\ late \subseteq Tasks

CallsOK ==
  /\ holder \in Clients \cup {NoClient}
  /\ pc \in [Clients -> States]
  /\ op \in [Clients -> Ops \cup {"none"}] /\ at \in [Clients -> Cells]
  /\ loc \in [Clients -> Servers \cup {Nowhere}]
  /\ rep \in [Clients -> Servers \cup {Nowhere}]
  /\ all \in [Clients -> SUBSET Servers]
  /\ val \in [Clients -> Nat] /\ wver \in [Clients -> Nat]

CountOK ==
  /\ issued \in 0..MaxCalls /\ writes \in Nat /\ last \in [Cells -> Nat]
  /\ crashes \in 0..MaxCrash /\ restarts \in 0..MaxRestart
  /\ slow \in 0..MaxSlow /\ astray \subseteq {"skipped", "overtaken"}

TypeOK == MasterOK /\ DisksOK /\ CallsOK /\ CountOK

\* Nobody is in the middle of a write, a read or a delete.
Quiet == holder = NoClient /\ late = {}

\* Two running replicas of the same version have the same contents whenever
\* no call holds the chunk lock: what the version number is for.  It is not
\* enough once a write has left out a running replica that timeup() had marked
\* dead, or has overtaken a call of a dead chunkserver.
ReplicasAgree ==
  Quiet /\ fmap = "chunk" /\ astray = {} =>
    LET s == locs[1]  t == locs[2] IN
    {s, t} \subseteq up /\ ver[s] = ver[t] => data[s] = data[t]

\* Whenever the lock is free the master knows the version of every running
\* replica, so GetChunkLocation chooses by the truth, until a write leaves out
\* a running replica or overtakes a call of a dead chunkserver.
VersionsTracked ==
  Quiet /\ fmap = "chunk" /\ astray = {} =>
    \A s \in {locs[1], locs[2]} : s \in up => mver[s] = ver[s]

\* The replica the next caller will be sent to holds every write whose Write
\* call returned normally (or a later write to the same cell).  Crashes in the
\* middle of a write do not lose one, and neither does timing out a running
\* server, until a write leaves that server out (then it does: the server
\* comes back by heartbeat, adopts the version of the next write to another
\* cell and is preferred again).
NoLostWrite ==
  Quiet /\ fmap = "chunk" /\ Located \in up /\ astray = {} =>
    \A cell \in Cells : data[Located][cell] >= last[cell]

\* No chunkserver ends in log.Fatalln because it is asked for a chunk it does
\* not have: a process ends only in a step that is a crash from outside.
NoServerFatal == [][up \subseteq up' \/ crashes' = crashes + 1]_vars

\* Once a file is deleted none of its chunk files is left on a disk.
DeletedChunksGone == fmap = "nofile" /\ crashes = 0 /\ ~Added => has = {}

\* Every call of the library returns.
CallsReturn == \A c \in Clients : pc[c] # "idle" ~> pc[c] = "idle"

\* What a reader of the chunk would be given now.
Contents == data[Located]
Answer == [c \in Clients |->
            IF op[c] = "read" /\ pc[c] = "unlock" THEN val[c] ELSE 0]

R == INSTANCE AtomicChunk WITH val <- Contents, answer <- Answer

\* Without failures the file system behaves as one chunk on one disk: writes
\* and reads of the chunk are atomic.
AtomicSpec == R!Spec
=============================================================================
