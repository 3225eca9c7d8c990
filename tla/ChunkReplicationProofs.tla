----------------------- MODULE ChunkReplicationProofs -----------------------
(***************************************************************************)
(* Proofs about chunk replication for any clients, cells, servers and      *)
(* number of calls.                                                        *)
(***************************************************************************)
EXTENDS ChunkReplication, TLAPS

LEMMA AnyCellType == AnyCell \in Cells
BY CellAssumption DEF AnyCell

LEMMA BlankType == Blank \in [Cells -> Nat]
BY DEF Blank

LEMMA PutType ==
  ASSUME NEW d \in [Servers -> [Cells -> Nat]], NEW s, NEW x \in Cells,
         NEW v \in Nat
  PROVE  [d EXCEPT ![s][x] = v] \in [Servers -> [Cells -> Nat]]
OBVIOUS

LEMMA TaskType ==
  ASSUME TypeOK, NEW c \in Clients, NEW s \in Servers,
         NEW k \in {"write", "report", "sent"}
  PROVE  Task(c, k, s) \in Tasks
BY DEF TypeOK, CallsOK, Task, Tasks

LEMMA ShiftType ==
  ASSUME TypeOK, NEW s, NEW t, NEW d \in Int
  PROVE  Shift(s, t, d) \in [Servers -> 0..(Word - 1)]
<1>1. \A n \in Int : n % Word \in 0..(Word - 1)
  BY WordAssumption
<1>2. \A x \in Servers : chunkNum[x] \in Int /\ chunkNum[x] \in 0..(Word - 1)
  BY WordAssumption DEF TypeOK, MasterOK
<1>3. QED
  BY <1>1, <1>2 DEF Shift

\* The variables keep their types through every step, failures included.
THEOREM TypeCorrect == Spec => []TypeOK
<1> USE DEF Goto, States, Locked, AtPrimary
<1>1. Init => TypeOK
  <2> SUFFICES ASSUME Init PROVE TypeOK
    OBVIOUS
  <2>1. 1 \in Servers /\ 2 \in Servers
    BY ServerAssumption DEF Servers
  <2>2. Blank \in [Cells -> Nat]
    BY BlankType
  <2>3. FirstTwo \in [Servers -> 0..(Word - 1)]
    BY WordAssumption DEF FirstTwo
  <2>4. QED
    BY <2>1, <2>2, <2>3, AnyCellType, BoundAssumption, FlagAssumption
       DEF Init, TypeOK, MasterOK, DisksOK, CallsOK, CountOK, Nowhere
<1>2. TypeOK /\ [Next]_vars => TypeOK'
  <2> SUFFICES ASSUME TypeOK, [Next]_vars PROVE TypeOK'
    OBVIOUS
  <2> USE BoundAssumption DEF TypeOK
  <2>0. /\ UNCHANGED master => MasterOK'
        /\ UNCHANGED disks => DisksOK'
        /\ UNCHANGED <<holder, pc, locals>> => CallsOK'
        /\ UNCHANGED count => CountOK'
    BY DEF MasterOK, DisksOK, CallsOK, CountOK, master, disks, locals, count
  <2>1. CASE UNCHANGED vars
    BY <2>0, <2>1 DEF vars
  <2>2. ASSUME NEW c \in Clients, NEW o \in Ops, NEW cell \in Cells,
               Call(c, o, cell)
        PROVE TypeOK'
    <3>1. CallsOK'
      BY <2>2 DEF Call, CallsOK
    <3>2. CountOK'
      BY <2>2 DEF Call, CountOK
    <3>3. QED
      BY <2>0, <2>2, <3>1, <3>2 DEF Call
  <2>3. ASSUME NEW c \in Clients, Locate(c) PROVE TypeOK'
    <3>1. fmap = "chunk" /\ {locs[1], locs[2]} \cap alive # {} => Located \in Servers
      BY DEF Located, MasterOK
    <3>2. MasterOK'
      BY <2>3 DEF Locate, MasterOK
    <3>3. CallsOK'
      BY <2>3, <3>1, AnyCellType DEF Locate, Return, CallsOK, MasterOK, locals
    <3>4. QED
      BY <2>0, <2>3, <3>2, <3>3 DEF Locate
  <2>4. ASSUME NEW c \in Clients, Add1(c) PROVE TypeOK'
    <3>1. MasterOK'
      BY <2>4 DEF Add1, MasterOK
    <3>2. CallsOK'
      <4>1. CASE UNCHANGED <<pc, loc, rep>>
        BY <2>4, <4>1 DEF Add1, CallsOK
      <4>2. ASSUME NEW s \in alive, NEW t \in alive, Goto(c, "add2"),
                   loc' = [loc EXCEPT ![c] = s], rep' = [rep EXCEPT ![c] = t]
            PROVE  CallsOK'
        <5>1. s \in Servers /\ t \in Servers
          BY DEF MasterOK
        <5>2. QED
          BY <2>4, <4>2, <5>1 DEF Add1, CallsOK
      <4>3. QED
        BY <2>4, <4>1, <4>2 DEF Add1
    <3>3. DisksOK'
      <4>1. CASE UNCHANGED <<has, data, ver, logged, doomed>>
        BY <2>4, <4>1 DEF Add1, DisksOK
      <4>2. ASSUME NEW s \in alive, Install(s) PROVE DisksOK'
        BY <2>4, <4>2, BlankType DEF Add1, Install, DisksOK, MasterOK
      <4>3. QED
        BY <2>4, <4>1, <4>2 DEF Add1
    <3>4. QED
      BY <2>0, <2>4, <3>1, <3>2, <3>3 DEF Add1
  <2>5. ASSUME NEW c \in Clients, Add2(c) PROVE TypeOK'
    <3>1. CallsOK'
      BY <2>5 DEF Add2, CallsOK, locals
    <3>2. DisksOK'
      <4>1. CASE rep[c] \in up
        <5>1. rep[c] \in Servers /\ Install(rep[c])
          BY <2>5, <4>1 DEF Add2, DisksOK
        <5>2. QED
          BY <2>5, <5>1, BlankType DEF Add2, Install, DisksOK
      <4>2. CASE rep[c] \notin up
        BY <2>5, <4>2 DEF Add2, DisksOK
      <4>3. QED
        BY <4>1, <4>2
    <3>3. QED
      BY <2>0, <2>5, <3>1, <3>2 DEF Add2
  <2>6. ASSUME NEW c \in Clients, AddRecord(c) PROVE TypeOK'
    <3>1. chunkNum' \in [Servers -> 0..(Word - 1)]
      BY <2>6, ShiftType DEF AddRecord
    <3>2. MasterOK'
      BY <2>6, <3>1 DEF AddRecord, MasterOK, CallsOK
    <3>3. CallsOK'
      BY <2>6 DEF AddRecord, CallsOK, locals
    <3>4. QED
      BY <2>0, <2>6, <3>2, <3>3 DEF AddRecord
  <2>7. ASSUME NEW c \in Clients, Lock(c) PROVE TypeOK'
    <3>1. CallsOK'
      BY <2>7 DEF Lock, CallsOK, locals
    <3>2. QED
      BY <2>0, <2>7, <3>1 DEF Lock
  <2>8. ASSUME NEW c \in Clients, AddCall(c) \/ DialPanic(c) \/ Unlock(c)
        PROVE TypeOK'
    <3>1. CallsOK'
      BY <2>8, AnyCellType DEF AddCall, DialPanic, Unlock, Return, CallsOK, locals
    <3>2. QED
      BY <2>0, <2>8, <3>1 DEF AddCall, DialPanic, Unlock
  <2>9. ASSUME NEW c \in Clients, WriteChunk(c) PROVE TypeOK'
    <3>1. loc[c] \in Servers /\ at[c] \in Cells
      BY <2>9 DEF WriteChunk, CallsOK, DisksOK
    <3>2. data' \in [Servers -> [Cells -> Nat]]
      <4>1. data \in [Servers -> [Cells -> Nat]] /\ writes + 1 \in Nat
        BY DEF DisksOK, CountOK
      <4>2. \/ data' = data
            \/ data' = [data EXCEPT ![loc[c]][at[c]] = writes + 1]
        BY <2>9 DEF WriteChunk
      <4>3. QED
        BY <3>1, <4>1, <4>2, PutType, SMTT(30)
    <3>3. ver' \in [Servers -> Nat]
      BY <2>9, <3>1 DEF WriteChunk, DisksOK
    <3>4. DisksOK'
      BY <2>9, <3>1, <3>2, <3>3 DEF WriteChunk, DisksOK
    <3>5. ver[loc[c]] + 1 \in Nat /\ writes + 1 \in Nat
      BY <3>1 DEF DisksOK, CountOK
    <3>6. CallsOK'
      BY <2>9, <3>1, <3>5 DEF WriteChunk, CallsOK
    <3>7. CountOK'
      BY <2>9 DEF WriteChunk, CountOK
    <3>8. QED
      BY <2>0, <2>9, <3>4, <3>6, <3>7 DEF WriteChunk
  <2>10. ASSUME NEW c \in Clients, Report(c) PROVE TypeOK'
    <3>1. MasterOK' /\ CallsOK'
      BY <2>10 DEF Report, SetVersion, MasterOK, CallsOK, locals
    <3>2. QED
      BY <2>0, <2>10, <3>1 DEF Report
  <2>11. ASSUME NEW c \in Clients, Broadcast(c) PROVE TypeOK'
    <3>0. data' \in [Servers -> [Cells -> Nat]]
      <4>1. data \in [Servers -> [Cells -> Nat]] /\ at[c] \in Cells /\ val[c] \in Nat
        BY DEF DisksOK, CallsOK
      <4>2. \/ data' = data
            \/ \E s \in Servers : data' = [data EXCEPT ![s][at[c]] = val[c]]
        BY <2>11 DEF Broadcast
      <4>3. \A s : [data EXCEPT ![s][at[c]] = val[c]] \in [Servers -> [Cells -> Nat]]
        BY <4>1, PutType
      <4>4. QED
        BY <4>1, <4>2, <4>3, ZenonT(60)
    <3>1. DisksOK'
      BY <2>11, <3>0 DEF Broadcast, DisksOK, CallsOK
    <3>2. CallsOK'
      BY <2>11 DEF Broadcast, CallsOK
    <3>3. QED
      BY <2>0, <2>11, <3>1, <3>2 DEF Broadcast
  <2>12. ASSUME NEW c \in Clients, ReplicaReport(c) PROVE TypeOK'
    <3>1. MasterOK' /\ DisksOK'
      BY <2>12 DEF ReplicaReport, SetVersion, MasterOK, DisksOK, CallsOK
    <3>2. CallsOK'
      BY <2>12 DEF ReplicaReport, CallsOK
    <3>3. QED
      BY <2>0, <2>12, <3>1, <3>2 DEF ReplicaReport
  <2>13. ASSUME NEW c \in Clients, LogVersion(c) PROVE TypeOK'
    <3>1. DisksOK' /\ CountOK'
      BY <2>13 DEF LogVersion, DisksOK, CallsOK, CountOK
    <3>2. CallsOK'
      BY <2>13 DEF LogVersion, CallsOK, locals
    <3>3. QED
      BY <2>0, <2>13, <3>1, <3>2 DEF LogVersion
  <2>14. ASSUME NEW c \in Clients, ReadChunk(c) PROVE TypeOK'
    <3>1. DisksOK'
      BY <2>14 DEF ReadChunk, DisksOK
    <3>2. loc[c] \in Servers /\ data[loc[c]][at[c]] \in Nat
      BY <2>14 DEF ReadChunk, DisksOK, CallsOK
    <3>3. CallsOK'
      BY <2>14, <3>2 DEF ReadChunk, CallsOK
    <3>4. QED
      BY <2>0, <2>14, <3>1, <3>3 DEF ReadChunk
  <2>15. ASSUME NEW c \in Clients, DeleteBegin(c) PROVE TypeOK'
    <3>1. chunkNum' \in [Servers -> 0..(Word - 1)]
      BY <2>15, ShiftType DEF DeleteBegin, MasterOK
    <3>2. MasterOK' /\ CallsOK'
      BY <2>15, <3>1 DEF DeleteBegin, MasterOK, CallsOK
    <3>3. QED
      BY <2>0, <2>15, <3>2 DEF DeleteBegin
  <2>16. ASSUME NEW c \in Clients, DeleteLock(c) \/ DeleteUnlock(c) \/ Forget(c)
         PROVE TypeOK'
    <3>1. MasterOK' /\ CallsOK'
      BY <2>0, <2>16, AnyCellType, SMTT(30)
         DEF DeleteLock, DeleteUnlock, Forget, Return, MasterOK, CallsOK, locals
    <3>2. QED
      BY <2>0, <2>16, <3>1 DEF DeleteLock, DeleteUnlock, Forget
  <2>17. ASSUME NEW c \in Clients, DeleteChunk(c) PROVE TypeOK'
    <3>1. DisksOK' /\ CallsOK'
      BY <2>17 DEF DeleteChunk, DisksOK, CallsOK, locals
    <3>2. QED
      BY <2>0, <2>17, <3>1 DEF DeleteChunk
  <2>18. ASSUME NEW s \in Servers, Crash(s) PROVE TypeOK'
    <3>1. Orphans(s) \subseteq Tasks /\ Sent(s) \subseteq Tasks
      BY TaskType DEF Orphans, Sent, Serving
    <3>2. DisksOK'
      BY <2>18, <3>1 DEF Crash, DisksOK
    <3>3. CallsOK' /\ CountOK'
      BY <2>18 DEF Crash, CallsOK, CountOK, locals
    <3>4. QED
      BY <2>0, <2>18, <3>2, <3>3 DEF Crash
  <2>19. ASSUME NEW s \in Servers, Restart(s) PROVE TypeOK'
    <3>1. DisksOK' /\ CountOK'
      BY <2>19 DEF Restart, DisksOK, CountOK
    <3>2. QED
      BY <2>0, <2>19, <3>1 DEF Restart
  <2>20. ASSUME NEW s \in Servers, Timeup(s) \/ AcceptHeartbeat(s) PROVE TypeOK'
    <3>1. MasterOK'
      BY <2>20 DEF Timeup, AcceptHeartbeat, MasterOK
    <3>2. CountOK'
      <4>1. CASE Timeup(s)
        BY <4>1 DEF Timeup, CountOK
      <4>2. CASE AcceptHeartbeat(s)
        BY <2>0, <4>2 DEF AcceptHeartbeat
      <4>3. QED
        BY <2>20, <4>1, <4>2
    <3>3. QED
      BY <2>0, <2>20, <3>1, <3>2 DEF Timeup, AcceptHeartbeat
  <2>21. ASSUME NEW t \in late, LateWrite(t) PROVE TypeOK'
    <3>1. t \in Tasks /\ [t EXCEPT !.kind = "report"] \in Tasks
      BY DEF Tasks, DisksOK
    <3>2. t.srv \in Servers /\ t.cell \in Cells /\ t.val \in Nat /\ t.ver \in Nat
      BY <3>1 DEF Tasks
    <3>3. data' \in [Servers -> [Cells -> Nat]]
      <4>1. data \in [Servers -> [Cells -> Nat]]
        BY DEF DisksOK
      <4>2. data' = data \/ data' = [data EXCEPT ![t.srv][t.cell] = t.val]
        BY <2>21 DEF LateWrite
      <4>3. [data EXCEPT ![t.srv][t.cell] = t.val] \in [Servers -> [Cells -> Nat]]
        BY <3>2, <4>1, PutType
      <4>4. QED
        BY <4>1, <4>2, <4>3
    <3>4. DisksOK'
      BY <2>21, <3>1, <3>2, <3>3 DEF LateWrite, DisksOK
    <3>5. QED
      BY <2>0, <2>21, <3>4 DEF LateWrite
  <2>22. ASSUME NEW t \in late, LateReport(t) PROVE TypeOK'
    <3>1. t.ver \in Nat
      BY DEF Tasks, DisksOK
    <3>2. MasterOK' /\ DisksOK'
      BY <2>22, <3>1 DEF LateReport, SetVersion, MasterOK, DisksOK
    <3>3. QED
      BY <2>0, <2>22, <3>2 DEF LateReport
  <2>23. QED
    BY <2>1, <2>2, <2>3, <2>4, <2>5, <2>6, <2>7, <2>8, <2>9, <2>10, <2>11, <2>12,
       <2>13, <2>14, <2>15, <2>16, <2>17, <2>18, <2>19, <2>20, <2>21, <2>22
       DEF Next, Step
<1>3. QED
  BY <1>1, <1>2, PTL DEF Spec

-----------------------------------------------------------------------------
(* No chunkserver is asked for a chunk it does not have                    *)

Deletions == {"delete", "dlock", "del1", "del2", "dunlock", "forget"}

\* While nothing is deleted, every replica the master names or a call is about
\* to ask for is on the disk of its server.
Homed ==
  /\ fmap = "chunk" => locs[1] \in has /\ locs[2] \in has
  /\ \A c \in Clients :
       /\ pc[c] \notin Deletions
       /\ pc[c] \in {"add2", "addrec", "lock", "write", "read"} => loc[c] \in has
       /\ pc[c] = "addrec" => rep[c] \in has

\* Where nothing is deleted no chunkserver ends in log.Fatalln, whatever servers
\* crash and come back and however chunks are added: nobody is asked for a chunk
\* it does not have.
THEOREM NoServerFatalHolds ==
  ASSUME "delete" \notin Ops
  PROVE  Spec => NoServerFatal
<1> USE DEF Goto
<1> DEFINE Safe == up \subseteq up' \/ crashes' = crashes + 1
<1>1. Init => Homed
  BY FlagAssumption DEF Init, Homed, Deletions
<1>2. TypeOK /\ Homed /\ [Next]_vars => Homed' /\ [Safe]_vars
  <2> SUFFICES ASSUME TypeOK, Homed, [Next]_vars PROVE Homed' /\ Safe
    OBVIOUS
  <2> USE DEF Deletions
  <2>0. /\ UNCHANGED up => Safe
        /\ UNCHANGED <<fmap, locs, has, pc, loc, rep>> => Homed'
    BY DEF Homed
  <2>1. CASE UNCHANGED vars
    BY <2>0, <2>1 DEF vars, master, disks, locals, count
  <2>2. ASSUME NEW c \in Clients, NEW o \in Ops, NEW cell \in Cells,
               Call(c, o, cell)
        PROVE Homed' /\ Safe
    <3>1. Homed'
      BY <2>2 DEF Call, Homed, master, disks, TypeOK, CallsOK
    <3>2. QED
      BY <2>0, <2>2, <3>1 DEF Call, disks
  <2>3. ASSUME NEW c \in Clients, Locate(c) PROVE Homed' /\ Safe
    <3>1. fmap = "chunk" => Located \in has
      BY DEF Located, Homed
    <3>2. Homed'
      BY <2>3, <3>1 DEF Locate, Homed, Return, disks, locals, TypeOK, CallsOK
    <3>3. QED
      BY <2>0, <2>3, <3>2 DEF Locate, disks
  <2>4. ASSUME NEW c \in Clients, Add1(c) PROVE Homed' /\ Safe
    <3>1. has \subseteq has' /\ UNCHANGED <<fmap, locs, up>>
      BY <2>4 DEF Add1, Install
    <3>2. \/ UNCHANGED <<pc, loc, rep>>
          \/ /\ pc' = [pc EXCEPT ![c] = "add2"]
             /\ \E s \in has' : loc' = [loc EXCEPT ![c] = s]
             /\ \E t : rep' = [rep EXCEPT ![c] = t]
      BY <2>4 DEF Add1, Install
    <3>3. Homed'
      BY <3>1, <3>2 DEF Homed, TypeOK, CallsOK
    <3>4. QED
      BY <2>0, <3>1, <3>3
  <2>5. ASSUME NEW c \in Clients, Add2(c) PROVE Homed' /\ Safe
    <3>1. Homed'
      BY <2>5 DEF Add2, Install, Homed, TypeOK, CallsOK, master, locals
    <3>2. QED
      BY <2>0, <2>5, <3>1 DEF Add2
  <2>6. ASSUME NEW c \in Clients, AddRecord(c) PROVE Homed' /\ Safe
    <3>1. Homed'
      BY <2>6 DEF AddRecord, Homed, TypeOK, CallsOK, disks, locals
    <3>2. QED
      BY <2>0, <2>6, <3>1 DEF AddRecord, disks
  <2>7. ASSUME NEW c \in Clients,
               AddCall(c) \/ Lock(c) \/ DialPanic(c) \/ Report(c) \/ Unlock(c)
        PROVE Homed' /\ Safe
    <3>1. Homed'
      BY <2>7 DEF AddCall, Lock, DialPanic, Report, Unlock, Return, Homed, TypeOK,
                  CallsOK, master, disks, locals
    <3>2. QED
      BY <2>0, <2>7, <3>1 DEF AddCall, Lock, DialPanic, Report, Unlock, disks
  <2>8. ASSUME NEW c \in Clients, WriteChunk(c) \/ ReadChunk(c) PROVE Homed' /\ Safe
    <3>1. loc[c] \in has
      BY <2>8 DEF WriteChunk, ReadChunk, Homed
    <3>2. Homed' /\ UNCHANGED up
      BY <2>8, <3>1 DEF WriteChunk, ReadChunk, Homed, TypeOK, CallsOK, master
    <3>3. QED
      BY <2>0, <3>2
  <2>9. ASSUME NEW c \in Clients,
               Broadcast(c) \/ ReplicaReport(c) \/ LogVersion(c)
        PROVE Homed' /\ Safe
    <3>1. Homed'
      BY <2>9 DEF Broadcast, ReplicaReport, LogVersion, Homed, TypeOK, CallsOK,
                  master, locals
    <3>2. QED
      BY <2>0, <2>9, <3>1 DEF Broadcast, ReplicaReport, LogVersion
  <2>10. ASSUME NEW c \in Clients,
                DeleteBegin(c) \/ DeleteLock(c) \/ DeleteChunk(c)
                  \/ DeleteUnlock(c) \/ Forget(c)
         PROVE FALSE
    BY <2>10 DEF DeleteBegin, DeleteLock, DeleteChunk, DeleteUnlock, Forget, Homed
  <2>11. ASSUME NEW s \in Servers, Crash(s) PROVE Homed' /\ Safe
    <3>1. Homed'
      BY <2>11 DEF Crash, AtPrimary, Homed, TypeOK, CallsOK, master, locals
    <3>2. Safe
      BY <2>11 DEF Crash
    <3>3. QED
      BY <3>1, <3>2
  <2>12. ASSUME NEW s \in Servers, Restart(s) PROVE Homed' /\ Safe
    <3>1. Homed'
      BY <2>12 DEF Restart, Homed, master, locals
    <3>2. Safe
      BY <2>12 DEF Restart
    <3>3. QED
      BY <3>1, <3>2
  <2>13. ASSUME NEW s \in Servers, Timeup(s) \/ AcceptHeartbeat(s) PROVE Homed' /\ Safe
    BY <2>0, <2>13 DEF Timeup, AcceptHeartbeat, disks, locals
  <2>14. ASSUME NEW t \in late, LateWrite(t) \/ LateReport(t) PROVE Homed' /\ Safe
    BY <2>0, <2>14 DEF LateWrite, LateReport, master, locals
  <2>15. QED
    BY <2>1, <2>2, <2>3, <2>4, <2>5, <2>6, <2>7, <2>8, <2>9, <2>10, <2>11, <2>12,
       <2>13, <2>14 DEF Next, Step
<1>3. QED
  BY <1>1, <1>2, TypeCorrect, PTL DEF Spec, NoServerFatal

-----------------------------------------------------------------------------
(* Deletion                                                                *)

Adding == {"addcall", "add1", "add2", "addrec"}

\* How far the deletions of a chunk made by create have come while no server
\* has crashed: files only disappear, the first replica's before the second's,
\* and both before the entry of the file.
Shrinking ==
  /\ fmap # "file" /\ locs = <<1, 2>>
  /\ has \subseteq {1, 2} /\ has \subseteq up
  /\ fmap = "nofile" => has = {}
  /\ \A c \in Clients :
       /\ pc[c] \notin Adding
       /\ pc[c] \in {"dlock", "del1", "del2"} => loc[c] = 1 /\ rep[c] = 2
       /\ pc[c] = "del2" => 1 \notin has
       /\ pc[c] \in {"dunlock", "forget"} => has = {}

\* Crashes are only counted up.
LEMMA NoCrashBefore ==
  ASSUME TypeOK, Next, crashes' = 0
  PROVE  crashes = 0
<1>1. ASSUME NEW s \in Servers, Crash(s) PROVE FALSE
  BY <1>1, BoundAssumption DEF Crash, TypeOK, CountOK
<1>2. ASSUME NEW c \in Clients, Step(c) PROVE UNCHANGED crashes
  <2>1. CASE Locate(c) \/ AddCall(c) \/ Add1(c) \/ Add2(c) \/ AddRecord(c)
    BY <2>1 DEF Locate, AddCall, Add1, Add2, AddRecord, count
  <2>2. CASE Lock(c) \/ DialPanic(c) \/ WriteChunk(c) \/ Report(c) \/ Broadcast(c)
    BY <2>2 DEF Lock, DialPanic, WriteChunk, Report, Broadcast, count
  <2>3. CASE ReplicaReport(c) \/ LogVersion(c) \/ ReadChunk(c) \/ Unlock(c)
    BY <2>3 DEF ReplicaReport, LogVersion, ReadChunk, Unlock, count
  <2>4. CASE DeleteBegin(c) \/ DeleteLock(c) \/ DeleteChunk(c) \/ DeleteUnlock(c)
               \/ Forget(c)
    BY <2>4 DEF DeleteBegin, DeleteLock, DeleteChunk, DeleteUnlock, Forget, count
  <2>5. QED
    BY <1>2, <2>1, <2>2, <2>3, <2>4 DEF Step
<1>3. ASSUME NEW s \in Servers, Restart(s) \/ Timeup(s) \/ AcceptHeartbeat(s)
      PROVE UNCHANGED crashes
  BY <1>3 DEF Restart, Timeup, AcceptHeartbeat, count
<1>4. ASSUME NEW t \in late, LateWrite(t) \/ LateReport(t)
      PROVE UNCHANGED crashes
  BY <1>4 DEF LateWrite, LateReport, count
<1>5. ASSUME NEW c \in Clients, NEW o \in Ops, NEW cell \in Cells, Call(c, o, cell)
      PROVE UNCHANGED crashes
  BY <1>5 DEF Call
<1>6. QED
  BY <1>1, <1>2, <1>3, <1>4, <1>5 DEF Next

\* DeleteFileAndChunks leaves no chunk file behind, however many deletes of the
\* file, reads and writes overlap.
THEOREM DeletedChunksGoneHolds == Spec => []DeletedChunksGone
<1> USE DEF Goto
<1> DEFINE Inv == crashes = 0 /\ ~Added => Shrinking
<1>1. Init => Inv
  <2> SUFFICES ASSUME Init, ~Added PROVE Shrinking
    OBVIOUS
  <2>1. 1 \in Servers /\ 2 \in Servers
    BY ServerAssumption DEF Servers
  <2>2. QED
    BY <2>1 DEF Init, Shrinking, Adding
<1>2. TypeOK /\ Inv /\ [Next]_vars => Inv'
  <2> SUFFICES ASSUME TypeOK, Inv, [Next]_vars, crashes' = 0, ~Added
               PROVE  Shrinking'
    OBVIOUS
  <2> USE DEF Adding
  <2>0. CASE UNCHANGED vars
    BY <2>0 DEF vars, master, disks, locals, count, Shrinking
  <2>1. ASSUME NEW s \in Servers, Crash(s) PROVE FALSE
    BY <2>1, BoundAssumption DEF Crash, TypeOK, CountOK
  <2>2. CASE /\ crashes = 0
             /\ Next
    <3>0. Shrinking
      BY <2>2
    <3> HIDE DEF Inv
    <3> USE <3>0
    <3>1. ASSUME NEW c \in Clients, NEW o \in Ops, NEW cell \in Cells,
                 Call(c, o, cell)
          PROVE  Shrinking'
      BY <3>1 DEF Call, Shrinking, master, disks, TypeOK, CallsOK
    <3>2. ASSUME NEW c \in Clients, Locate(c) PROVE Shrinking'
      BY <3>2 DEF Locate, Return, Shrinking, disks, locals, TypeOK, CallsOK
    <3>3. ASSUME NEW c \in Clients, AddCall(c) \/ Add1(c) \/ Add2(c) \/ AddRecord(c)
          PROVE  FALSE
      BY <3>3 DEF AddCall, Add1, Add2, AddRecord, Shrinking
    <3>4. ASSUME NEW c \in Clients,
                 Lock(c) \/ DialPanic(c) \/ Report(c) \/ Unlock(c)
          PROVE  Shrinking'
      <4>1. UNCHANGED <<fmap, locs, has, up>>
        BY <3>4 DEF Lock, DialPanic, Report, Unlock, master, disks
      <4>2. \A d \in Clients :
              \/ pc'[d] = pc[d] /\ UNCHANGED <<loc[d], rep[d]>>
              \/ pc'[d] \in {"idle", "read", "write", "panic", "bcast"}
        BY <3>4 DEF Lock, DialPanic, Report, Unlock, Return, locals, TypeOK, CallsOK
      <4>3. QED
        BY <4>1, <4>2 DEF Shrinking
    <3>5. ASSUME NEW c \in Clients, WriteChunk(c) \/ ReadChunk(c)
          PROVE  Shrinking'
      BY <3>5 DEF WriteChunk, ReadChunk, Shrinking, master, TypeOK, CallsOK
    <3>6. ASSUME NEW c \in Clients,
                 Broadcast(c) \/ ReplicaReport(c) \/ LogVersion(c)
          PROVE  Shrinking'
      BY <3>6 DEF Broadcast, ReplicaReport, LogVersion, Shrinking, master,
                  locals, TypeOK, CallsOK
    <3>7. ASSUME NEW c \in Clients, DeleteBegin(c) PROVE Shrinking'
      BY <3>7 DEF DeleteBegin, Shrinking, disks, TypeOK, MasterOK, CallsOK
    <3>8. ASSUME NEW c \in Clients, DeleteChunk(c) PROVE Shrinking'
      BY <3>8, ZenonT(60) DEF DeleteChunk, Shrinking, master, locals, TypeOK, CallsOK
    <3>9. ASSUME NEW c \in Clients,
                 DeleteLock(c) \/ DeleteUnlock(c) \/ Forget(c)
          PROVE  Shrinking'
      <4>1. /\ UNCHANGED <<locs, has, up>> /\ fmap' \in {fmap, "nofile"}
            /\ fmap' # fmap => pc[c] = "forget"
        BY <3>9 DEF DeleteLock, DeleteUnlock, Forget, master, disks
      <4>2. \A d \in Clients :
              \/ pc'[d] = pc[d] /\ UNCHANGED <<loc[d], rep[d]>>
              \/ pc[d] = "dlock" /\ pc'[d] = "del1" /\ UNCHANGED <<loc[d], rep[d]>>
              \/ pc[d] = "dunlock" /\ pc'[d] = "forget"
              \/ pc'[d] = "idle"
        BY <3>9 DEF DeleteLock, DeleteUnlock, Forget, Return, locals, TypeOK, CallsOK
      <4>3. QED
        BY <4>1, <4>2 DEF Shrinking
    <3>10. ASSUME NEW s \in Servers,
                  Restart(s) \/ Timeup(s) \/ AcceptHeartbeat(s)
           PROVE  Shrinking'
      BY <3>10 DEF Restart, Timeup, AcceptHeartbeat, Shrinking, master, disks,
                   locals
    <3>11. ASSUME NEW t \in late, LateWrite(t) \/ LateReport(t)
           PROVE  Shrinking'
      BY <3>11 DEF LateWrite, LateReport, Shrinking, master, locals
    <3>12. QED
      BY <2>1, <2>2, <3>1, <3>2, <3>3, <3>4, <3>5, <3>6, <3>7, <3>8, <3>9, <3>10,
         <3>11 DEF Next, Step
  <2>3. QED
    BY <2>0, <2>2, NoCrashBefore
<1>3. Inv => DeletedChunksGone
  BY DEF Shrinking, DeletedChunksGone
<1>4. QED
  BY <1>1, <1>2, <1>3, TypeCorrect, PTL DEF Spec

-----------------------------------------------------------------------------
(* Replication under crashes                                               *)

\* A chunk made by create whose servers, once down, stay down.
ForGood == ~Added /\ MaxRestart = 0

\* Only the holder of the chunk lock is past lock.
Exclusive == \A c \in Clients : pc[c] \in Locked => holder = c

\* The chunk stays where create has put it.  A call is sent to the second
\* replica only when the first is down or marked dead, and then its list leaves
\* the first out if it runs: such a write would be recorded, so a write in
\* progress there means that the first is down.  A deletion removes the first
\* replica before the second.
Placed ==
  /\ fmap # "file" /\ locs = <<1, 2>> /\ has \subseteq {1, 2}
  /\ 1 \in has \cap up => 2 \in has
  /\ 1 \in up /\ 1 \notin has /\ 2 \in has \cap up => \E c \in Clients : pc[c] = "del2"
  /\ \A c \in Clients :
       /\ pc[c] \notin Adding
       /\ pc[c] \in {"dlock", "del1", "del2"} => loc[c] = 1 /\ rep[c] = 2
       /\ pc[c] = "del2" => 1 \notin has \cap up
       /\ pc[c] \in {"lock", "write", "read"} \cup AtPrimary => loc[c] \in {1, 2}
       /\ pc[c] \in {"lock", "write"} => all[c] # {} /\ (loc[c] = 2 /\ 1 \in up => 1 \notin all[c])
       /\ pc[c] \in AtPrimary => loc[c] \in has \cap up /\ loc[c] \notin all[c]
       /\ pc[c] \in AtPrimary /\ loc[c] = 2 => 1 \notin up
       /\ pc[c] = "breport" => loc[c] = 1 /\ NextReplica(c, 2) /\ 2 \in up

\* The write of c is on the first replica and not yet on the second.
Behind(c) == /\ pc[c] \in {"report", "bcast"} /\ loc[c] = 1 /\ 2 \in all[c]

\* Stamps grow along a write: no replica that runs, no call and no stray call
\* carries an older stamp than the last write that returned.
Stamped ==
  /\ \A x \in Cells : last[x] <= writes
  /\ \A c \in Clients : pc[c] \in AtPrimary =>
       /\ val[c] >= last[at[c]] /\ val[c] <= writes
       /\ data[loc[c]][at[c]] = val[c] /\ ver[loc[c]] = wver[c]
  /\ \A t \in late : t.srv = 2 /\ 2 \in up =>
       t.val >= last[t.cell]
  /\ \A s \in {1, 2} \cap up, x \in Cells : data[s][x] >= last[x]

\* Two running replicas differ at most in the cell being written.
Mirrored ==
  1 \in up /\ 2 \in up =>
    /\ \A c \in Clients, x \in Cells :
         Behind(c) /\ x # at[c] => data[1][x] = data[2][x]
    /\ (\A c \in Clients : ~Behind(c)) =>
         ver[1] = ver[2] /\ \A x \in Cells : data[1][x] = data[2][x]

\* What the master still has to be told about a running replica is carried by
\* a call or a stray call; the first replica's version is never behind.
Tracked ==
  fmap = "chunk" =>
    /\ 1 \in up => mver[1] >= mver[2]
    /\ \A c \in Clients :
         /\ pc[c] \in {"bcast", "breport"} => mver[loc[c]] = wver[c]
         /\ pc[c] = "report" => wver[c] >= mver[loc[c]]
    /\ 1 \in up => \/ mver[1] = ver[1]
                   \/ \E c \in Clients : pc[c] = "report" /\ loc[c] = 1
    /\ 2 \in up => \/ mver[2] = ver[2]
                   \/ \E c \in Clients : pc[c] = "report" /\ loc[c] = 2
                   \/ \E c \in Clients : pc[c] = "breport"
                   \/ \E t \in late : t.srv = 2 /\ t.kind = "report"

\* Stray calls of the two replicas: none of one that runs while a write is in
\* progress, none of the first while it runs, at most one of the second and
\* that only when the first is down.
Landing ==
  /\ \A c \in Clients : pc[c] \in AtPrimary =>
       \A t \in late : t.srv \in {1, 2} => t.srv \notin up
  /\ \A t \in late :
       /\ t.srv = 1 => 1 \notin up
       /\ t.srv = 2 /\ 2 \in up => 1 \notin up /\ t.kind # "sent"
       /\ t.srv = 2 /\ 2 \in up /\ t.kind = "report" => t.ver = ver[2]
       /\ t.srv = 2 /\ fmap = "chunk" /\ 1 \in up => t.ver <= mver[1]
  /\ 2 \in up => \A t, u \in late : t.srv = 2 /\ u.srv = 2 => t = u

ForGoodInv == Exclusive /\ Placed /\ Stamped /\ Mirrored /\ Tracked /\ Landing

\* The chunk lock protects what it should: no step lets two calls past it.
LEMMA ExclusiveStep ==
  ASSUME TypeOK, Exclusive, Next
  PROVE  Exclusive'
<1> USE ClientAssumption DEF Goto, TypeOK, CallsOK, Exclusive, Locked, AtPrimary
<1>1. ASSUME NEW c \in Clients, UNCHANGED holder, pc[c] \in Locked \/ pc'[c] \notin Locked,
             \A d \in Clients : d # c => pc'[d] = pc[d]
      PROVE  Exclusive'
  BY <1>1
<1>2. ASSUME NEW c \in Clients, NEW o \in Ops, NEW cell \in Cells, Call(c, o, cell)
      PROVE  Exclusive'
  BY <1>2 DEF Call
<1>3. ASSUME NEW c \in Clients,
             Locate(c) \/ AddCall(c) \/ Add1(c) \/ Add2(c) \/ AddRecord(c)
      PROVE  Exclusive'
  <2>1. UNCHANGED holder
    BY <1>3 DEF Locate, AddCall, Add1, Add2, AddRecord
  <2>2. /\ pc'[c] = pc[c] \/ pc'[c] \notin Locked
        /\ \A d \in Clients : d # c => pc'[d] = pc[d]
    <3>1. CASE Locate(c) \/ AddCall(c)
      BY <3>1 DEF Locate, AddCall, Return
    <3>2. CASE Add1(c)
      BY <3>2 DEF Add1
    <3>3. CASE Add2(c) \/ AddRecord(c)
      BY <3>3 DEF Add2, AddRecord
    <3>4. QED
      BY <1>3, <3>1, <3>2, <3>3
  <2>3. QED
    BY <2>1, <2>2
<1>4. ASSUME NEW c \in Clients, Lock(c) \/ Unlock(c) \/ DeleteLock(c) \/ DeleteUnlock(c)
      PROVE  Exclusive'
  BY <1>4 DEF Lock, Unlock, DeleteLock, DeleteUnlock, Return
<1>5. ASSUME NEW c \in Clients,
             DialPanic(c) \/ WriteChunk(c) \/ Report(c) \/ ReadChunk(c)
      PROVE  Exclusive'
  BY <1>5 DEF DialPanic, WriteChunk, Report, ReadChunk
<1>6. ASSUME NEW c \in Clients, Broadcast(c) \/ ReplicaReport(c) \/ LogVersion(c)
      PROVE  Exclusive'
  BY <1>6 DEF Broadcast, ReplicaReport, LogVersion
<1>7. ASSUME NEW c \in Clients, DeleteBegin(c) \/ DeleteChunk(c) \/ Forget(c)
      PROVE  Exclusive'
  BY <1>7 DEF DeleteBegin, DeleteChunk, Forget, Return
<1>8. ASSUME NEW s \in Servers, Crash(s) PROVE Exclusive'
  BY <1>8 DEF Crash
<1>9. ASSUME NEW s \in Servers, Restart(s) \/ Timeup(s) \/ AcceptHeartbeat(s)
      PROVE Exclusive'
  BY <1>9 DEF Restart, Timeup, AcceptHeartbeat
<1>10. ASSUME NEW t \in late, LateWrite(t) \/ LateReport(t) PROVE Exclusive'
  BY <1>10 DEF LateWrite, LateReport
<1>11. QED
  BY <1>2, <1>3, <1>4, <1>5, <1>6, <1>7, <1>8, <1>9, <1>10 DEF Next, Step

\* The master answers with the first replica if that one runs and is not marked
\* dead.
LEMMA LocatedIs ==
  ASSUME Placed, Tracked, fmap = "chunk"
  PROVE  Located \in {1, 2} /\ (1 \in alive \cap up => Located = 1)
BY DEF Placed, Tracked, Located

\* The record of what versions cannot mend only grows.
LEMMA AstrayGrows ==
  ASSUME Next, astray' = {}
  PROVE  astray = {}
<1>1. ASSUME NEW c \in Clients, Step(c) PROVE astray \subseteq astray'
  <2>1. CASE Locate(c) \/ AddCall(c) \/ Add1(c) \/ Add2(c) \/ AddRecord(c)
    BY <2>1 DEF Locate, AddCall, Add1, Add2, AddRecord, count
  <2>2. CASE Lock(c) \/ DialPanic(c) \/ WriteChunk(c) \/ Report(c) \/ Broadcast(c)
    BY <2>2 DEF Lock, DialPanic, WriteChunk, Report, Broadcast, count
  <2>3. CASE ReplicaReport(c) \/ LogVersion(c) \/ ReadChunk(c) \/ Unlock(c)
    BY <2>3 DEF ReplicaReport, LogVersion, ReadChunk, Unlock, count
  <2>4. CASE DeleteBegin(c) \/ DeleteLock(c) \/ DeleteChunk(c) \/ DeleteUnlock(c)
               \/ Forget(c)
    BY <2>4 DEF DeleteBegin, DeleteLock, DeleteChunk, DeleteUnlock, Forget, count
  <2>5. QED
    BY <1>1, <2>1, <2>2, <2>3, <2>4 DEF Step
<1>2. ASSUME NEW s \in Servers,
             Crash(s) \/ Restart(s) \/ Timeup(s) \/ AcceptHeartbeat(s)
      PROVE  astray \subseteq astray'
  BY <1>2 DEF Crash, Restart, Timeup, AcceptHeartbeat, count
<1>3. ASSUME NEW t \in late, LateWrite(t) \/ LateReport(t)
      PROVE  astray \subseteq astray'
  BY <1>3 DEF LateWrite, LateReport, count
<1>4. ASSUME NEW c \in Clients, NEW o \in Ops, NEW cell \in Cells, Call(c, o, cell)
      PROVE  astray \subseteq astray'
  BY <1>4 DEF Call
<1>5. QED
  BY <1>1, <1>2, <1>3, <1>4 DEF Next

\* A write that is not recorded is served with no stray call about, and its
\* list has every running replica.
LEMMA UnrecordedWrite ==
  ASSUME TypeOK, Exclusive, Placed, NEW c \in Clients, WriteChunk(c), loc[c] \in has,
         astray' = {}
  PROVE  /\ late = {}
         /\ loc[c] = 1 /\ 2 \in up => 2 \in all[c]
         /\ loc[c] = 2 => 1 \notin up
<1>1. /\ pc[c] = "write" /\ loc[c] \in up /\ late = {} /\ LeftOut(c) = {}
  BY DEF WriteChunk
<1>2. all[c] # {} /\ loc[c] \in {1, 2} /\ (loc[c] = 2 /\ 1 \in up => 1 \notin all[c])
  BY <1>1 DEF Placed
<1>3. up \cap has \subseteq all[c] \cup {loc[c]}
  BY <1>1, <1>2 DEF LeftOut
<1>4. loc[c] = 1 /\ 2 \in up => 2 \in all[c]
  BY <1>1, <1>3 DEF Placed
<1>5. \A d \in Clients : pc[d] # "del2"
  BY <1>1 DEF Exclusive, Locked
<1>6. loc[c] = 2 => 1 \notin up
  BY <1>1, <1>2, <1>3, <1>5 DEF Placed
<1>7. QED
  BY <1>1, <1>4, <1>6

\* Replicas stay where they are and calls go where they should.
LEMMA PlacedStep ==
  ASSUME TypeOK, ForGood, Exclusive, Placed, Tracked, Next, astray' = {}
  PROVE  Placed'
<1> USE DEF Goto, Adding
<1>1. ASSUME NEW c \in Clients, NEW o \in Ops, NEW cell \in Cells, Call(c, o, cell)
      PROVE  Placed'
  BY <1>1 DEF Call, master, disks, Placed, TypeOK, CallsOK, AtPrimary, NextReplica
<1>2. ASSUME NEW c \in Clients, Locate(c) PROVE Placed'
  <2>1. UNCHANGED <<fmap, locs, has, up, alive>>
    BY <1>2 DEF Locate, disks
  <2>2. CASE UNCHANGED <<pc, locals>>
    BY <2>1, <2>2 DEF Placed, NextReplica, locals
  <2>3. CASE Return(c)
    <3>1. \A d \in Clients : \/ UNCHANGED <<pc[d], loc[d], rep[d], all[d]>>
                             \/ pc[d] = "locate" /\ pc'[d] = "idle"
      BY <1>2, <2>3 DEF Locate, Return, TypeOK, CallsOK
    <3>2. QED
      BY <2>1, <3>1 DEF Placed, NextReplica, AtPrimary
  <2>4. CASE /\ fmap = "chunk" /\ {locs[1], locs[2]} \cap alive # {}
             /\ loc' = [loc EXCEPT ![c] = Located] /\ all' = [all EXCEPT ![c] = alive]
             /\ Goto(c, "lock") /\ UNCHANGED rep
    <3>1. Located \in {1, 2} /\ (1 \in alive \cap up => Located = 1)
      BY <2>4, LocatedIs
    <3>2. /\ pc'[c] = "lock" /\ loc'[c] = Located /\ all'[c] = alive
          /\ pc[c] = "locate"
          /\ \A d \in Clients : d # c => UNCHANGED <<pc[d], loc[d], all[d]>>
      BY <1>2, <2>4 DEF Locate, TypeOK, CallsOK
    <3>3. QED
      BY <2>1, <2>4, <3>1, <3>2 DEF Placed, NextReplica, AtPrimary
  <2>5. QED
    BY <1>2, <2>2, <2>3, <2>4 DEF Locate, Placed
<1>3. ASSUME NEW c \in Clients, AddCall(c) \/ Add1(c) \/ Add2(c) \/ AddRecord(c)
      PROVE  FALSE
  BY <1>3 DEF AddCall, Add1, Add2, AddRecord, Placed
<1>4. ASSUME NEW c \in Clients,
             Lock(c) \/ DialPanic(c) \/ Report(c) \/ Unlock(c) \/ LogVersion(c)
      PROVE  Placed'
  <2>1. UNCHANGED <<fmap, locs, has, up, alive>>
    BY <1>4 DEF Lock, DialPanic, Report, Unlock, LogVersion, master, disks
  <2>2. \A d \in Clients :
          \/ UNCHANGED <<pc[d], loc[d], rep[d], all[d]>>
          \/ /\ pc[d] = "lock" /\ pc'[d] \in {"write", "read"}
             /\ UNCHANGED <<loc[d], all[d]>>
          \/ /\ pc[d] = "report" /\ pc'[d] = "bcast"
             /\ UNCHANGED <<loc[d], all[d]>>
          \/ pc[d] # "del2" /\ pc'[d] \in {"idle", "panic", "unlock"}
    BY <1>4 DEF Lock, DialPanic, Report, Unlock, LogVersion, Return, locals, TypeOK,
                CallsOK
  <2>3. QED
    BY <2>1, <2>2 DEF Placed, NextReplica, AtPrimary
<1>5. ASSUME NEW c \in Clients, WriteChunk(c) PROVE Placed'
  <2>1. \A d \in Clients : pc[d] \in AtPrimary => d = c
    BY <1>5 DEF WriteChunk, Exclusive, Locked
  <2>2. /\ UNCHANGED <<fmap, locs, has, alive, loc, rep>>
        /\ up' \subseteq up
    BY <1>5 DEF WriteChunk, master
  <2>3. \A d \in Clients : d # c => UNCHANGED <<pc[d], all[d]>>
    BY <1>5 DEF WriteChunk, TypeOK, CallsOK
  <2>4. \/ pc'[c] = "unlock"
        \/ /\ pc'[c] = "report" /\ loc[c] \in has /\ loc[c] \in up'
           /\ all'[c] = all[c] \ {loc[c]}
    BY <1>5 DEF WriteChunk, TypeOK, CallsOK
  <2>5. pc[c] = "write"
    BY <1>5 DEF WriteChunk
  <2>6. loc[c] \in has /\ loc[c] = 2 => 1 \notin up
    BY <1>5, UnrecordedWrite
  <2>7. \A d \in Clients : pc[d] # "del2"
    BY <2>5 DEF Exclusive, Locked
  <2>8. QED
    BY <2>1, <2>2, <2>3, <2>4, <2>5, <2>6, <2>7 DEF Placed, NextReplica, AtPrimary
<1>6. ASSUME NEW c \in Clients, ReadChunk(c) PROVE Placed'
  <2>1. \A d \in Clients : pc[d] \in AtPrimary => d = c
    BY <1>6 DEF ReadChunk, Exclusive, Locked
  <2>2. /\ UNCHANGED <<fmap, locs, has, alive, loc, rep, all>> /\ up' \subseteq up
        /\ pc'[c] = "unlock" /\ \A d \in Clients : d # c => UNCHANGED pc[d]
    BY <1>6 DEF ReadChunk, master, TypeOK, CallsOK
  <2>3. pc[c] = "read" /\ \A d \in Clients : pc[d] # "del2"
    BY <1>6 DEF ReadChunk, Exclusive, Locked
  <2>4. QED
    BY <2>1, <2>2, <2>3 DEF Placed, NextReplica, AtPrimary
<1>7. ASSUME NEW c \in Clients, Broadcast(c) PROVE Placed'
  <2>1. UNCHANGED <<fmap, locs, has, up, alive, loc, rep>>
    BY <1>7 DEF Broadcast, master
  <2>2. \A d \in Clients : d # c => UNCHANGED <<pc[d], all[d]>>
    BY <1>7 DEF Broadcast, TypeOK, CallsOK
  <2>3. pc[c] = "bcast"
    BY <1>7 DEF Broadcast
  <2>4. PICK s \in Servers :
          /\ NextReplica(c, s)
          /\ \/ /\ s \in up /\ s \in has /\ pc'[c] = "breport" /\ all' = all
             \/ /\ all'[c] = all[c] \ {s} /\ pc'[c] = "bcast"
    BY <1>7 DEF Broadcast, TypeOK, CallsOK
  <2>5. CASE s \in up /\ s \in has /\ pc'[c] = "breport" /\ all' = all
    <3>1. s = 2 /\ loc[c] = 1
      <4>1. s \in all[c] /\ s \in {1, 2}
        BY <2>4, <2>5 DEF Placed, NextReplica
      <4>2. loc[c] \in {1, 2} /\ loc[c] \notin all[c] /\ (loc[c] = 2 => 1 \notin up)
        BY <2>3 DEF Placed, AtPrimary
      <4>3. QED
        BY <2>5, <4>1, <4>2
    <3>2. QED
      BY <2>1, <2>2, <2>3, <2>4, <2>5, <3>1 DEF Placed, NextReplica, AtPrimary
  <2>6. CASE all'[c] = all[c] \ {s} /\ pc'[c] = "bcast"
    BY <2>1, <2>2, <2>3, <2>6 DEF Placed, NextReplica, AtPrimary
  <2>7. QED
    BY <2>4, <2>5, <2>6
<1>8. ASSUME NEW c \in Clients, ReplicaReport(c) PROVE Placed'
  <2>1. /\ UNCHANGED <<fmap, locs, has, up, alive, loc, rep>>
        /\ \A d \in Clients : d # c => UNCHANGED <<pc[d], all[d]>>
        /\ pc[c] = "breport" /\ pc'[c] = "bcast" /\ all'[c] \subseteq all[c]
    BY <1>8 DEF ReplicaReport, TypeOK, CallsOK
  <2>2. QED
    BY <2>1 DEF Placed, NextReplica, AtPrimary
<1>9. ASSUME NEW c \in Clients, DeleteBegin(c) PROVE Placed'
  BY <1>9 DEF DeleteBegin, Placed, NextReplica, AtPrimary, disks, TypeOK, MasterOK, CallsOK
<1>10. ASSUME NEW c \in Clients, DeleteLock(c) \/ DeleteUnlock(c) \/ Forget(c)
       PROVE  Placed'
  <2>1. UNCHANGED <<locs, has, up, alive>> /\ fmap' # "file"
    BY <1>10 DEF DeleteLock, DeleteUnlock, Forget, master, disks, Placed
  <2>2. \A d \in Clients :
          \/ UNCHANGED <<pc[d], loc[d], rep[d], all[d]>>
          \/ /\ pc[d] = "dlock" /\ pc'[d] = "del1"
             /\ UNCHANGED <<loc[d], rep[d]>>
          \/ pc[d] # "del2" /\ pc'[d] \in {"idle", "forget"}
    BY <1>10 DEF DeleteLock, DeleteUnlock, Forget, Return, locals, TypeOK, CallsOK
  <2>3. QED
    BY <2>1, <2>2 DEF Placed, NextReplica, AtPrimary
<1>11. ASSUME NEW c \in Clients, DeleteChunk(c) PROVE Placed'
  <2>1. \A d \in Clients : pc[d] \in AtPrimary \cup {"del1", "del2"} => d = c
    BY <1>11 DEF DeleteChunk, Exclusive, Locked
  <2>2. /\ UNCHANGED <<fmap, locs, alive, loc, rep, all>>
        /\ has' \subseteq has /\ up' \subseteq up
        /\ \A d \in Clients : d # c => UNCHANGED pc[d]
    BY <1>11 DEF DeleteChunk, master, locals, TypeOK, CallsOK
  <2>3. \/ pc[c] = "del1" /\ pc'[c] = "del2" /\ 1 \notin has' \cap up' /\ loc[c] = 1 /\ rep[c] = 2
        \/ /\ pc[c] = "del2" /\ pc'[c] = "dunlock" /\ 1 \notin has \cap up
           /\ 2 \notin has' \cap up'
    BY <1>11 DEF DeleteChunk, Placed, TypeOK, CallsOK
  <2>4. QED
    BY <2>1, <2>2, <2>3 DEF Placed, NextReplica, AtPrimary
<1>12. ASSUME NEW s \in Servers, Crash(s) PROVE Placed'
  <2>1. UNCHANGED <<fmap, locs, has, alive, loc, rep, all>> /\ up' = up \ {s}
    BY <1>12 DEF Crash, master, locals
  <2>2. \A d \in Clients :
           pc'[d] = IF pc[d] \in AtPrimary /\ loc[d] = s THEN "unlock"
                    ELSE IF pc[d] = "breport" /\ NextReplica(d, s) THEN "bcast"
                    ELSE pc[d]
    BY <1>12 DEF Crash
  <2>3. \A d \in Clients :
          \/ pc'[d] = "unlock" /\ pc[d] # "del2"
          \/ pc[d] = "breport" /\ pc'[d] = "bcast" /\ loc[d] # s
          \/ /\ pc'[d] = pc[d] /\ (pc[d] \in AtPrimary => loc[d] # s)
             /\ pc[d] = "breport" => s # 2
    BY <2>2 DEF Placed, AtPrimary
  <2>4. QED
    BY <2>1, <2>3 DEF Placed, NextReplica, AtPrimary
<1>13. ASSUME NEW s \in Servers, Restart(s) PROVE FALSE
  BY <1>13 DEF Restart, ForGood, TypeOK, CountOK
<1>14. ASSUME NEW s \in Servers, AcceptHeartbeat(s) PROVE Placed'
  BY <1>14 DEF AcceptHeartbeat, disks, locals, Placed, NextReplica
<1>15. ASSUME NEW s \in Servers, Timeup(s) PROVE Placed'
  BY <1>15 DEF Timeup, disks, locals, Placed, NextReplica
<1>16. ASSUME NEW t \in late, LateWrite(t) \/ LateReport(t) PROVE Placed'
  BY <1>16 DEF LateWrite, LateReport, master, locals, Placed, NextReplica
<1>17. QED
  BY <1>1, <1>2, <1>3, <1>4, <1>5, <1>6, <1>7, <1>8, <1>9, <1>10, <1>11, <1>12,
     <1>13, <1>14, <1>15, <1>16 DEF Next, Step

\* A step that touches no replica, no version the master keeps and no call at a
\* primary leaves the rest of the invariant alone.
LEMMA AsideStep ==
  ASSUME TypeOK, Stamped, Mirrored, Tracked, Landing,
         UNCHANGED <<mver, data, ver, late, last>>,
         up' \subseteq up,
         fmap' = "chunk" => fmap = "chunk",
         writes' \in {writes, writes + 1},
         \A d \in Clients : pc[d] \in AtPrimary \/ pc'[d] \in AtPrimary =>
           UNCHANGED <<pc[d], at[d], loc[d], all[d], val[d], wver[d]>>
  PROVE  Stamped' /\ Mirrored' /\ Tracked' /\ Landing'
<1>1. \A d \in Clients : /\ Behind(d)' <=> Behind(d)
                         /\ Behind(d) => pc[d] \in AtPrimary
  BY DEF Behind, AtPrimary
<1>2. Stamped'
  BY DEF Stamped, TypeOK, CountOK, CallsOK, DisksOK
<1>3. Mirrored'
  BY <1>1 DEF Mirrored
<1>4. Tracked'
  BY DEF Tracked, AtPrimary
<1>5. Landing'
  BY DEF Landing
<1>6. QED
  BY <1>2, <1>3, <1>4, <1>5

\* What one assignment to a cell changes.
LEMMA PutAt ==
  ASSUME NEW d \in [Servers -> [Cells -> Nat]], NEW s \in Servers, NEW x \in Cells,
         NEW v
  PROVE  \A u \in Servers, y \in Cells :
           [d EXCEPT ![s][x] = v][u][y] = IF u = s /\ y = x THEN v ELSE d[u][y]
OBVIOUS

LEMMA OneTwo == 1 \in Servers /\ 2 \in Servers
BY ServerAssumption DEF Servers

\* The write reaches its primary.
LEMMA WriteStep ==
  ASSUME TypeOK, ForGoodInv, NEW c \in Clients, WriteChunk(c), astray' = {}
  PROVE  Stamped' /\ Mirrored' /\ Tracked' /\ Landing'
<1> DEFINE s == loc[c]
<1> USE DEF ForGoodInv
<1>1. pc[c] = "write" /\ s \in up /\ s \in Servers /\ at[c] \in Cells
  BY DEF WriteChunk, TypeOK, DisksOK, CallsOK
<1>2. \A d \in Clients : pc[d] \notin AtPrimary
  BY <1>1 DEF Exclusive, Locked, AtPrimary
<1>3. /\ UNCHANGED <<fmap, mver, late, last, at, loc>>
      /\ writes' = writes + 1 /\ up' \subseteq up
      /\ \A d \in Clients : d # c => UNCHANGED <<pc[d], all[d], val[d], wver[d]>>
  BY DEF WriteChunk, Goto, master, TypeOK, CallsOK
<1>4. CASE s \notin has
  <2>1. UNCHANGED <<data, ver>> /\ pc'[c] = "unlock"
    BY <1>1, <1>4 DEF WriteChunk, Goto, TypeOK, CallsOK
  <2>2. \A d \in Clients : pc'[d] \notin AtPrimary
    BY <1>2, <1>3, <2>1 DEF AtPrimary
  <2>3. QED
    BY <1>2, <1>3, <2>1, <2>2, AsideStep
<1>5. CASE s \in has
  <2>1. /\ up' = up /\ pc'[c] = "report" /\ all'[c] = all[c] \ {s}
        /\ val'[c] = writes + 1 /\ wver'[c] = ver[s] + 1
        /\ data' = [data EXCEPT ![s][at[c]] = writes + 1]
        /\ ver' = [ver EXCEPT ![s] = @ + 1]
    BY <1>1, <1>5 DEF WriteChunk, Goto, TypeOK, CallsOK
  <2>2. \A u \in Servers, x \in Cells :
          data'[u][x] = IF u = s /\ x = at[c] THEN writes + 1 ELSE data[u][x]
    BY <1>1, <2>1, PutAt DEF TypeOK, DisksOK
  <2>3. \A u \in Servers : ver'[u] = IF u = s THEN ver[s] + 1 ELSE ver[u]
    BY <1>1, <2>1 DEF TypeOK, DisksOK
  <2>4. /\ s \in {1, 2} /\ late = {} /\ (1 \in up => s = 1)
        /\ s = 1 /\ 2 \in up => 2 \in all[c]
    BY <1>1, <1>5, UnrecordedWrite DEF Placed
  <2>5. \A d \in Clients : pc'[d] \in AtPrimary => d = c
    BY <1>2, <1>3
  <2>6. \A t \in late : FALSE
    BY <2>4
  <2>7. mver[s] = ver[s] \/ fmap # "chunk"
    BY <1>1, <1>2, <2>4, <2>6 DEF Tracked, AtPrimary
  <2>8. ver[s] \in Nat /\ writes \in Nat /\ \A x \in Cells : last[x] \in Nat
    BY <1>1 DEF TypeOK, DisksOK, CountOK
  <2> HIDE DEF s
  <2>9. Stamped'
    <3>1. \A x \in Cells : last'[x] <= writes'
      BY <1>3, <2>8 DEF Stamped
    <3>2. \A d \in Clients : pc'[d] \in AtPrimary =>
            /\ val'[d] >= last'[at'[d]] /\ val'[d] <= writes'
            /\ data'[loc'[d]][at'[d]] = val'[d] /\ ver'[loc'[d]] = wver'[d]
      BY <1>1, <1>3, <2>1, <2>2, <2>3, <2>5, <2>8 DEF Stamped, s
    <3>3. \A t \in late' : t.srv = 2 /\ 2 \in up' => t.val >= last'[t.cell]
      BY <1>3, <2>1 DEF Stamped
    <3>4. \A u \in {1, 2} \cap up', x \in Cells : data'[u][x] >= last'[x]
      BY <1>3, <2>1, <2>2, <2>8, OneTwo DEF Stamped
    <3>5. QED
      BY <3>1, <3>2, <3>3, <3>4 DEF Stamped
  <2>10. Mirrored'
    <3> SUFFICES ASSUME 1 \in up, 2 \in up PROVE Mirrored'
      BY <2>1 DEF Mirrored
    <3>1. s = 1 /\ 2 \in all'[c]
      BY <2>1, <2>4
    <3>2. Behind(c)' /\ \A d \in Clients : Behind(d)' => d = c
      BY <1>3, <2>1, <2>5, <3>1 DEF Behind, s, AtPrimary
    <3>3. \A x \in Cells : data[1][x] = data[2][x]
      BY <1>2 DEF Mirrored, Behind, AtPrimary
    <3>4. QED
      BY <1>3, <2>2, <3>1, <3>2, <3>3, OneTwo DEF Mirrored
  <2>11. Tracked'
    <3> SUFFICES ASSUME fmap = "chunk" PROVE Tracked'
      BY <1>3 DEF Tracked
    <3>1. \A d \in Clients : d # c => pc'[d] \notin {"report", "bcast", "breport"}
      BY <2>5 DEF AtPrimary
    <3>2. wver'[c] >= mver'[loc'[c]]
      BY <1>3, <2>1, <2>7, <2>8 DEF s
    <3>3. /\ 1 \in up => \/ mver'[1] = ver'[1]
                         \/ \E d \in Clients : pc'[d] = "report" /\ loc'[d] = 1
          /\ 2 \in up => \/ mver'[2] = ver'[2]
                         \/ \E d \in Clients : pc'[d] = "report" /\ loc'[d] = 2
                         \/ \E t \in late : t.srv = 2 /\ t.kind = "report"
      BY <1>2, <1>3, <2>1, <2>3, <2>4, OneTwo DEF Tracked, AtPrimary, s
    <3>4. QED
      BY <1>3, <2>1, <3>1, <3>2, <3>3 DEF Tracked
  <2>12. Landing'
    BY <1>3, <2>6 DEF Landing
  <2>13. QED
    BY <2>9, <2>10, <2>11, <2>12
<1>6. QED
  BY <1>4, <1>5

\* The primary tells the master its version.
LEMMA ReportStep ==
  ASSUME TypeOK, ForGoodInv, NEW c \in Clients, Report(c)
  PROVE  Stamped' /\ Mirrored' /\ Tracked' /\ Landing'
<1> USE DEF ForGoodInv
<1>1. /\ pc[c] = "report" /\ pc'[c] = "bcast"
      /\ UNCHANGED <<fmap, locs, alive, up, data, ver, late, last, writes,
                     at, loc, all, val, wver>>
      /\ \A d \in Clients : d # c => UNCHANGED pc[d]
  BY DEF Report, Goto, disks, locals, count, TypeOK, CallsOK
<1>2. \A d \in Clients : pc[d] \in AtPrimary \/ pc'[d] \in AtPrimary => d = c
  BY <1>1 DEF Exclusive, Locked, AtPrimary
<1>3. /\ loc[c] \in {1, 2} /\ (1 \in up => loc[c] = 1) /\ loc[c] \in up
      /\ locs = <<1, 2>>
  BY <1>1 DEF Placed, AtPrimary
<1>4. \A u \in Servers :
        mver'[u] = IF fmap = "chunk" /\ u = loc[c] THEN wver[c] ELSE mver[u]
  BY <1>1, <1>3, OneTwo DEF Report, SetVersion, TypeOK, MasterOK
<1>5. \A t \in late : t.srv = loc[c] => FALSE
  BY <1>1, <1>3 DEF Landing, AtPrimary
<1>6. \A d \in Clients : Behind(d)' <=> Behind(d)
  BY <1>1 DEF Behind
<1>7. ver[loc[c]] = wver[c] /\ wver[c] \in Nat
  BY <1>1 DEF Stamped, AtPrimary, TypeOK, CallsOK
<1>8. Stamped'
  BY <1>1 DEF Stamped, AtPrimary
<1>9. Mirrored'
  BY <1>1, <1>6 DEF Mirrored
<1>10. fmap = "chunk" => /\ wver[c] >= mver[loc[c]]
                         /\ mver[1] \in Nat /\ mver[2] \in Nat
                         /\ 1 \in up => mver[1] >= mver[2]
  BY <1>1, OneTwo DEF Tracked, TypeOK, MasterOK
<1>11. Tracked'
  <2> SUFFICES ASSUME fmap = "chunk" PROVE Tracked'
    BY <1>1 DEF Tracked
  <2>1. 1 \in up => mver'[1] >= mver'[2]
    BY <1>3, <1>4, <1>7, <1>10, OneTwo
  <2>2. \A d \in Clients :
          /\ pc'[d] \in {"bcast", "breport"} => mver'[loc[d]] = wver[d]
          /\ pc'[d] # "report"
    BY <1>1, <1>2, <1>3, <1>4, OneTwo DEF AtPrimary
  <2>3. 1 \in up => mver'[1] = ver[1]
    <3>1. CASE loc[c] = 1
      BY <1>4, <1>7, <3>1, OneTwo
    <3>2. CASE loc[c] # 1
      BY <1>3, <3>2
    <3>3. QED
      BY <3>1, <3>2
  <2>4. 2 \in up => \/ mver'[2] = ver[2]
                    \/ \E t \in late : t.srv = 2 /\ t.kind = "report"
    <3>1. CASE loc[c] = 2
      BY <1>4, <1>7, <3>1, OneTwo
    <3>2. CASE loc[c] # 2
      <4>1. mver'[2] = mver[2] /\ \A d \in Clients : /\ ~(pc[d] = "report" /\ loc[d] = 2)
                                                     /\ pc[d] # "breport"
        BY <1>1, <1>2, <1>4, <3>2, OneTwo DEF AtPrimary
      <4>2. QED
        BY <4>1 DEF Tracked
    <3>3. QED
      BY <3>1, <3>2
  <2>5. QED
    BY <1>1, <2>1, <2>2, <2>3, <2>4 DEF Tracked
<1>12. Landing'
  <2>1. \A t \in late : t.ver \in Nat
    BY DEF TypeOK, DisksOK, Tasks
  <2>2. \A t \in late : t.srv = 2 /\ fmap = "chunk" /\ 1 \in up => t.ver <= mver'[1]
    BY <1>3, <1>4, <1>7, <1>10, <2>1, OneTwo DEF Landing
  <2>3. \A d \in Clients : pc'[d] \in AtPrimary => pc[d] \in AtPrimary
    BY <1>1 DEF AtPrimary
  <2>4. QED
    BY <1>1, <2>2, <2>3 DEF Landing
<1>13. QED
  BY <1>8, <1>9, <1>11, <1>12

\* The second replica takes the write over.
LEMMA BroadcastStep ==
  ASSUME TypeOK, ForGoodInv, NEW c \in Clients, Broadcast(c)
  PROVE  Stamped' /\ Mirrored' /\ Tracked' /\ Landing'
<1> USE DEF ForGoodInv
<1>1. /\ pc[c] = "bcast" /\ at[c] \in Cells
      /\ UNCHANGED <<fmap, locs, mver, alive, up, late, last, writes,
                     at, loc, val, wver>>
      /\ \A d \in Clients : d # c => UNCHANGED <<pc[d], all[d]>>
  BY DEF Broadcast, Goto, master, count, TypeOK, CallsOK
<1>2. \A d \in Clients : pc[d] \in AtPrimary \/ pc'[d] \in AtPrimary => d = c
  BY <1>1 DEF Exclusive, Locked, AtPrimary
<1>3. /\ loc[c] \in {1, 2} /\ loc[c] \in up \cap has
      /\ loc[c] \notin all[c] /\ (loc[c] = 2 => 1 \notin up)
      /\ has \subseteq {1, 2} /\ (1 \in has \cap up => 2 \in has)
  BY <1>1 DEF Placed, AtPrimary
<1>4. PICK s \in Servers :
        /\ NextReplica(c, s)
        /\ \/ /\ s \in up /\ s \in has /\ pc'[c] = "breport" /\ all' = all
              /\ data' = [data EXCEPT ![s][at[c]] = val[c]]
              /\ ver' = [ver EXCEPT ![s] = wver[c]]
           \/ /\ ~(s \in up /\ s \in has)
              /\ all'[c] = all[c] \ {s} /\ pc' = pc /\ UNCHANGED <<data, ver>>
  BY DEF Broadcast, Goto, TypeOK, CallsOK
<1>5. CASE ~(s \in up /\ s \in has)
  <2>1. pc' = pc /\ all'[c] = all[c] \ {s} /\ UNCHANGED <<data, ver>>
    BY <1>4, <1>5
  <2>2. Stamped'
    BY <1>1, <2>1 DEF Stamped
  <2>3. Mirrored'
    <3> SUFFICES ASSUME 1 \in up, 2 \in up PROVE Mirrored'
      BY <1>1 DEF Mirrored
    <3>1. s # 2
      BY <1>3, <1>5
    <3>2. \A d \in Clients : Behind(d)' <=> Behind(d)
      BY <1>1, <2>1, <3>1 DEF Behind
    <3>3. QED
      BY <1>1, <2>1, <3>2 DEF Mirrored
  <2>4. Tracked' /\ Landing'
    BY <1>1, <2>1 DEF Tracked, Landing
  <2>5. QED
    BY <2>2, <2>3, <2>4
<1>6. CASE s \in up /\ s \in has
  <2>1. s \in all[c] /\ s = 2 /\ loc[c] = 1
    BY <1>3, <1>4, <1>6 DEF NextReplica
  <2>2. /\ pc'[c] = "breport" /\ all' = all
        /\ data' = [data EXCEPT ![2][at[c]] = val[c]]
        /\ ver' = [ver EXCEPT ![2] = wver[c]]
    BY <1>4, <1>6, <2>1
  <2>3. \A u \in Servers, x \in Cells :
          data'[u][x] = IF u = 2 /\ x = at[c] THEN val[c] ELSE data[u][x]
    BY <1>1, <2>2, PutAt, OneTwo DEF TypeOK, DisksOK
  <2>4. \A u \in Servers : ver'[u] = IF u = 2 THEN wver[c] ELSE ver[u]
    BY <2>2, OneTwo DEF TypeOK, DisksOK
  <2>5. /\ val[c] >= last[at[c]] /\ val[c] <= writes
        /\ data[1][at[c]] = val[c] /\ ver[1] = wver[c]
    BY <1>1, <2>1 DEF Stamped, AtPrimary
  <2>6. \A t \in late : t.srv = 2 => FALSE
    BY <1>1, <1>6, <2>1 DEF Landing, AtPrimary
  <2>7. Behind(c) /\ \A d \in Clients : ~Behind(d)'
    BY <1>1, <1>2, <2>1, <2>2 DEF Behind, AtPrimary
  <2>8. Stamped'
    <3>1. \A d \in Clients : pc'[d] \in AtPrimary =>
            /\ val[d] >= last[at[d]] /\ val[d] <= writes
            /\ data'[loc[d]][at[d]] = val[d] /\ ver'[loc[d]] = wver[d]
      BY <1>1, <1>2, <2>1, <2>3, <2>4, <2>5, OneTwo
    <3>2. \A u \in {1, 2} \cap up, x \in Cells : data'[u][x] >= last[x]
      BY <2>3, <2>5, OneTwo DEF Stamped
    <3>3. QED
      BY <1>1, <3>1, <3>2 DEF Stamped
  <2>9. Mirrored'
    <3> SUFFICES ASSUME 1 \in up, 2 \in up PROVE Mirrored'
      BY <1>1 DEF Mirrored
    <3>1. \A x \in Cells : data'[1][x] = data'[2][x]
      BY <2>3, <2>5, <2>7, OneTwo DEF Mirrored
    <3>2. ver'[1] = ver'[2]
      BY <2>4, <2>5, OneTwo
    <3>3. QED
      BY <2>7, <3>1, <3>2 DEF Mirrored
  <2>10. Tracked'
    <3> SUFFICES ASSUME fmap = "chunk" PROVE Tracked'
      BY <1>1 DEF Tracked
    <3>1. mver[1] = wver[c] /\ (1 \in up => mver[1] >= mver[2])
      BY <1>1, <2>1 DEF Tracked
    <3>2. \A d \in Clients :
            /\ pc'[d] \in {"bcast", "breport"} => mver[loc[d]] = wver[d]
            /\ pc'[d] # "report"
      BY <1>1, <1>2, <2>1, <2>2, <3>1 DEF AtPrimary
    <3>3. mver[1] = ver'[1]
      BY <2>4, <2>5, <3>1, OneTwo
    <3>4. QED
      BY <1>1, <2>2, <3>1, <3>2, <3>3 DEF Tracked
  <2>11. Landing'
    <3>1. \A d \in Clients : pc'[d] \in AtPrimary => pc[d] \in AtPrimary
      BY <1>1, <1>2 DEF AtPrimary
    <3>2. QED
      BY <1>1, <2>6, <3>1 DEF Landing
  <2>12. QED
    BY <2>8, <2>9, <2>10, <2>11
<1>7. QED
  BY <1>5, <1>6

\* The second replica tells the master its version.
LEMMA ReplicaReportStep ==
  ASSUME TypeOK, ForGoodInv, NEW c \in Clients, ReplicaReport(c)
  PROVE  Stamped' /\ Mirrored' /\ Tracked' /\ Landing'
<1> USE DEF ForGoodInv
<1>1. /\ pc[c] = "breport" /\ pc'[c] = "bcast"
      /\ UNCHANGED <<fmap, locs, alive, up, data, ver, late, last, writes,
                     at, loc, val, wver>>
      /\ \A d \in Clients : d # c => UNCHANGED <<pc[d], all[d]>>
  BY DEF ReplicaReport, Goto, count, TypeOK, CallsOK
<1>2. \A d \in Clients : pc[d] \in AtPrimary \/ pc'[d] \in AtPrimary => d = c
  BY <1>1 DEF Exclusive, Locked, AtPrimary
<1>3. /\ loc[c] = 1 /\ 1 \in up /\ NextReplica(c, 2) /\ 2 \in up
      /\ locs = <<1, 2>>
  BY <1>1 DEF Placed, AtPrimary
<1>4. all'[c] = all[c] \ {2} /\ SetVersion(2, wver[c])
  <2>1. PICK s \in Servers : /\ NextReplica(c, s) /\ SetVersion(s, wver[c])
                             /\ all' = [all EXCEPT ![c] = @ \ {s}]
    BY DEF ReplicaReport
  <2>2. s = 2
    BY <1>3, <2>1 DEF NextReplica, Servers
  <2>3. QED
    BY <2>1, <2>2 DEF TypeOK, CallsOK
<1>5. \A u \in Servers :
        mver'[u] = IF fmap = "chunk" /\ u = 2 THEN wver[c] ELSE mver[u]
  BY <1>3, <1>4, OneTwo DEF SetVersion, TypeOK, MasterOK
<1>6. \A d \in Clients : ~Behind(d) /\ ~Behind(d)'
  BY <1>1, <1>2, <1>4 DEF Behind, AtPrimary
<1>7. ver[1] = wver[c] /\ ver[2] = wver[c] /\ wver[c] \in Nat
  BY <1>1, <1>3, <1>6 DEF Stamped, Mirrored, AtPrimary, TypeOK, CallsOK
<1>8. Stamped'
  BY <1>1 DEF Stamped, AtPrimary
<1>9. Mirrored'
  BY <1>1, <1>6 DEF Mirrored
<1>10. fmap = "chunk" => mver[1] = wver[c]
  BY <1>1, <1>3 DEF Tracked
<1>11. Tracked'
  <2> SUFFICES ASSUME fmap = "chunk" PROVE Tracked'
    BY <1>1 DEF Tracked
  <2>1. mver'[1] = wver[c] /\ mver'[2] = wver[c]
    BY <1>5, <1>10, OneTwo
  <2>2. \A d \in Clients :
          /\ pc'[d] \in {"bcast", "breport"} => mver'[loc[d]] = wver[d]
          /\ pc'[d] # "report"
    BY <1>1, <1>2, <1>3, <2>1 DEF AtPrimary
  <2>3. QED
    BY <1>1, <1>7, <2>1, <2>2 DEF Tracked
<1>12. Landing'
  <2>1. mver'[1] = mver[1]
    BY <1>5, OneTwo
  <2>2. \A d \in Clients : pc'[d] \in AtPrimary => pc[d] \in AtPrimary
    BY <1>1, <1>2 DEF AtPrimary
  <2>3. QED
    BY <1>1, <2>1, <2>2 DEF Landing
<1>13. QED
  BY <1>8, <1>9, <1>11, <1>12

\* The write returns: from now on its stamp may not be lost.
LEMMA LogVersionStep ==
  ASSUME TypeOK, ForGoodInv, NEW c \in Clients, LogVersion(c)
  PROVE  Stamped' /\ Mirrored' /\ Tracked' /\ Landing'
<1> USE DEF ForGoodInv
<1>1. /\ pc[c] = "bcast" /\ pc'[c] = "unlock" /\ all[c] = {} /\ at[c] \in Cells
      /\ UNCHANGED <<fmap, mver, alive, up, data, ver, late, writes,
                     at, loc, all, val, wver>>
      /\ \A d \in Clients : d # c => UNCHANGED pc[d]
      /\ \A x \in Cells : last'[x] = IF x = at[c] THEN val[c] ELSE last[x]
  BY DEF LogVersion, Goto, master, locals, TypeOK, CallsOK, CountOK
<1>2. /\ \A d \in Clients : pc[d] \in AtPrimary => d = c
      /\ \A d \in Clients : pc'[d] \notin AtPrimary
  BY <1>1 DEF Exclusive, Locked, AtPrimary
<1>3. loc[c] \in {1, 2} /\ (1 \in up => loc[c] = 1) /\ loc[c] \in up
  BY <1>1 DEF Placed, AtPrimary
<1>4. \A d \in Clients : ~Behind(d) /\ ~Behind(d)'
  BY <1>1, <1>2 DEF Behind, AtPrimary
<1>5. val[c] <= writes /\ data[loc[c]][at[c]] = val[c]
  BY <1>1 DEF Stamped, AtPrimary
<1>6. Stamped'
  <2>1. \A x \in Cells : last'[x] <= writes'
    BY <1>1, <1>5 DEF Stamped
  <2>2. \A t \in late : t.srv = 2 /\ 2 \in up => FALSE
    BY <1>1 DEF Landing, AtPrimary
  <2>3. \A s \in {1, 2} \cap up : data[s][at[c]] = val[c]
    BY <1>1, <1>3, <1>4, <1>5 DEF Mirrored
  <2>4. val[c] \in Nat
    BY DEF TypeOK, CallsOK
  <2>5. \A s \in {1, 2} \cap up, x \in Cells : data'[s][x] >= last'[x]
    BY <1>1, <2>3, <2>4 DEF Stamped
  <2>6. QED
    BY <1>1, <1>2, <2>1, <2>2, <2>5 DEF Stamped
<1>7. Mirrored'
  BY <1>1, <1>4 DEF Mirrored
<1>8. Tracked'
  <2>1. \A d \in Clients : pc[d] \notin {"report", "breport"}
    BY <1>1, <1>2 DEF AtPrimary
  <2>2. QED
    BY <1>1, <1>2, <2>1 DEF Tracked, AtPrimary
<1>9. Landing'
  BY <1>1, <1>2 DEF Landing
<1>10. QED
  BY <1>6, <1>7, <1>8, <1>9

\* A crash turns at most one call of each replica into a stray call.
LEMMA CrashStep ==
  ASSUME TypeOK, TypeOK', ForGoodInv, NEW s \in Servers, Crash(s)
  PROVE  Stamped' /\ Mirrored' /\ Tracked' /\ Landing'
<1> USE DEF ForGoodInv
<1> DEFINE FromReplica(t, d) == /\ pc[d] = "breport" /\ loc[d] = s
                                /\ NextReplica(d, t.srv) /\ t = Task(d, "report", t.srv)
           FromBcast(t, d) == /\ pc[d] = "bcast" /\ loc[d] = s
                              /\ NextReplica(d, t.srv) /\ t = Task(d, "write", t.srv)
           FromReport(t, d) == pc[d] = "report" /\ loc[d] = s /\ t = Task(d, "sent", s)
           FromCallee(t, d) == /\ pc[d] = "breport" /\ NextReplica(d, s)
                               /\ t = Task(d, "sent", s)
<1>1. /\ s \in up /\ up' = up \ {s}
      /\ UNCHANGED <<fmap, locs, mver, alive, has, data, ver, last, writes,
                     at, loc, all, val, wver>>
      /\ \A d \in Clients :
           pc'[d] = IF pc[d] \in AtPrimary /\ loc[d] = s THEN "unlock"
                    ELSE IF pc[d] = "breport" /\ NextReplica(d, s) THEN "bcast"
                    ELSE pc[d]
  BY DEF Crash, master, locals
<1>2. \A t \in late' : \/ t \in late
                       \/ \E d \in Clients : \/ FromReplica(t, d) \/ FromBcast(t, d)
                                             \/ FromReport(t, d) \/ FromCallee(t, d)
  <2> SUFFICES ASSUME NEW t \in late', t \notin late
               PROVE  \E d \in Clients : \/ FromReplica(t, d) \/ FromBcast(t, d)
                                         \/ FromReport(t, d) \/ FromCallee(t, d)
    OBVIOUS
  <2>1. t \in Orphans(s) \cup Sent(s)
    BY DEF Crash
  <2>2. CASE t \in Orphans(s)
    <3>1. PICK p \in Serving("breport", s) : t = Task(p[1], "report", p[2])
      BY <2>2 DEF Orphans
    <3>2. /\ p[1] \in Clients /\ pc[p[1]] = "breport" /\ loc[p[1]] = s
          /\ NextReplica(p[1], p[2])
      BY <3>1 DEF Serving
    <3>3. t.srv = p[2]
      BY <3>1 DEF Task
    <3>4. FromReplica(t, p[1])
      BY <3>1, <3>2, <3>3
    <3>5. QED
      BY <3>2, <3>4
  <2>3. ASSUME NEW p \in Serving("bcast", s), t = Task(p[1], "write", p[2])
        PROVE  \E d \in Clients : FromBcast(t, d)
    <3>1. /\ p[1] \in Clients /\ pc[p[1]] = "bcast" /\ loc[p[1]] = s
          /\ NextReplica(p[1], p[2])
      BY DEF Serving
    <3>2. t.srv = p[2]
      BY <2>3 DEF Task
    <3>3. FromBcast(t, p[1])
      BY <2>3, <3>1, <3>2
    <3>4. QED
      BY <3>1, <3>3
  <2>4. QED
    BY <2>1, <2>2, <2>3 DEF Sent
<1>3. \A d \in Clients : \A k, u :
       /\ Task(d, k, u).kind = k /\ Task(d, k, u).srv = u
       /\ Task(d, k, u).cell = at[d]
       /\ Task(d, k, u).val = val[d]
       /\ Task(d, k, u).ver = wver[d]
  BY DEF Task
<1>4. \A t \in late : t.srv # s => t \in late'
  BY DEF Crash
<1>5. \A d, e \in Clients : pc[d] \in AtPrimary /\ pc[e] \in AtPrimary => d = e
  BY DEF Exclusive, Locked
<1>6. \A d \in Clients : pc[d] \in AtPrimary =>
        /\ loc[d] \in {1, 2} /\ loc[d] \in up /\ (1 \in up => loc[d] = 1)
        /\ loc[d] = 1 => 1 \notin all[d]
        /\ loc[d] = 2 => 2 \notin all[d]
        /\ pc[d] = "breport" => loc[d] = 1 /\ NextReplica(d, 2) /\ 2 \in up
  BY DEF Placed
<1>7. \A d \in Clients : pc[d] = "breport" => \A u \in Servers : NextReplica(d, u) => u = 2
  BY <1>6, OneTwo DEF NextReplica, AtPrimary, Servers
<1>9. \A t \in late' : t.srv \in Servers
  BY DEF TypeOK, DisksOK, Tasks
<1>10. \A t \in late' : t \notin late /\ t.srv \in {1, 2} => \E d \in Clients :
         /\ pc[d] \in AtPrimary /\ t.cell = at[d] /\ t.val = val[d] /\ t.ver = wver[d]
         /\ \/ t.srv = 1 /\ 1 \notin up'
            \/ t.srv = 2 /\ s = 2 /\ (pc[d] = "breport" \/ loc[d] = 2)
            \/ /\ t.srv = 2 /\ s = 1 /\ pc[d] = "breport" /\ loc[d] = 1
               /\ t = Task(d, "report", 2)
            \/ /\ t.srv = 2 /\ s = 1 /\ pc[d] = "bcast" /\ loc[d] = 1
               /\ t = Task(d, "write", 2)
  <2> SUFFICES ASSUME NEW t \in late', t \notin late, t.srv \in {1, 2}, NEW d \in Clients,
                      \/ FromReplica(t, d) \/ FromBcast(t, d)
                      \/ FromReport(t, d) \/ FromCallee(t, d)
               PROVE  /\ pc[d] \in AtPrimary
                      /\ t.cell = at[d] /\ t.val = val[d] /\ t.ver = wver[d]
                      /\ \/ t.srv = 1 /\ 1 \notin up'
                         \/ t.srv = 2 /\ s = 2 /\ (pc[d] = "breport" \/ loc[d] = 2)
                         \/ /\ t.srv = 2 /\ s = 1 /\ pc[d] = "breport" /\ loc[d] = 1
                            /\ t = Task(d, "report", 2)
                         \/ /\ t.srv = 2 /\ s = 1 /\ pc[d] = "bcast" /\ loc[d] = 1
                            /\ t = Task(d, "write", 2)
    BY <1>2
  <2>1. CASE FromReplica(t, d)
    BY <1>3, <1>6, <1>7, <1>9, <2>1 DEF AtPrimary
  <2>2. CASE FromBcast(t, d)
    BY <1>1, <1>3, <1>6, <2>2 DEF AtPrimary, NextReplica
  <2>3. CASE FromReport(t, d)
    BY <1>1, <1>3, <1>6, <2>3 DEF AtPrimary
  <2>4. CASE FromCallee(t, d)
    BY <1>3, <1>6, <1>7, <2>4 DEF AtPrimary
  <2>5. QED
    BY <2>1, <2>2, <2>3, <2>4
<1> HIDE DEF FromReplica, FromBcast, FromReport, FromCallee
<1>11. \A d \in Clients :
         /\ pc'[d] \in AtPrimary => pc[d] \in AtPrimary
         /\ pc'[d] \in {"bcast", "breport"} => pc[d] \in {"bcast", "breport"}
         /\ pc'[d] = "report" => pc[d] = "report"
         /\ pc[d] = "report" /\ loc[d] # s => pc'[d] = "report"
         /\ pc[d] = "breport" /\ s # 2 /\ loc[d] # s => pc'[d] = "breport"
  BY <1>1, <1>7 DEF AtPrimary
<1>12. Stamped'
  <2>1. \A t \in late' : t.srv = 2 /\ 2 \in up' => t.val >= last[t.cell]
    BY <1>1, <1>10 DEF Stamped
  <2>2. QED
    BY <1>1, <1>11, <2>1 DEF Stamped
<1>13. Mirrored'
  <2> SUFFICES ASSUME 1 \in up', 2 \in up' PROVE Mirrored'
    BY DEF Mirrored
  <2>1. s # 1 /\ s # 2
    BY <1>1
  <2>2. \A d \in Clients : Behind(d)' <=> Behind(d)
    BY <1>1, <1>6, <1>7, <2>1 DEF Behind, AtPrimary
  <2>3. QED
    BY <1>1, <2>2 DEF Mirrored
<1>14. Tracked'
  <2> SUFFICES ASSUME fmap = "chunk" PROVE Tracked'
    BY <1>1 DEF Tracked
  <2>1. /\ 1 \in up' => mver[1] >= mver[2]
        /\ \A d \in Clients :
             /\ pc'[d] \in {"bcast", "breport"} => mver[loc[d]] = wver[d]
             /\ pc'[d] = "report" => wver[d] >= mver[loc[d]]
    BY <1>1, <1>11 DEF Tracked
  <2>2. 1 \in up' => \/ mver[1] = ver[1]
                     \/ \E d \in Clients : pc'[d] = "report" /\ loc[d] = 1
    BY <1>1, <1>11 DEF Tracked
  <2>3. ASSUME 2 \in up', mver[2] # ver[2]
        PROVE  \/ \E d \in Clients : pc'[d] = "report" /\ loc[d] = 2
               \/ \E d \in Clients : pc'[d] = "breport"
               \/ \E t \in late' : t.srv = 2 /\ t.kind = "report"
    <3>1. s # 2
      BY <1>1, <2>3
    <3>2. ASSUME NEW d \in Clients, pc[d] = "report", loc[d] = 2
          PROVE  pc'[d] = "report"
      BY <1>11, <3>1, <3>2
    <3>3. ASSUME NEW d \in Clients, pc[d] = "breport"
          PROVE  \/ pc'[d] = "breport"
                 \/ \E t \in late' : t.srv = 2 /\ t.kind = "report"
      <4>1. CASE loc[d] # s
        BY <1>11, <3>1, <3>3, <4>1
      <4>2. CASE loc[d] = s
        <5>1. NextReplica(d, 2)
          BY <1>6, <3>3 DEF AtPrimary
        <5>2. <<d, 2>> \in Serving("breport", s)
          BY <3>3, <4>2, <5>1, OneTwo DEF Serving
        <5>3. Task(d, "report", 2) \in Orphans(s)
          BY <5>2 DEF Orphans
        <5>4. Task(d, "report", 2) \in late'
          BY <5>3 DEF Crash
        <5>5. QED
          BY <1>3, <5>4
      <4>3. QED
        BY <4>1, <4>2
    <3>4. ASSUME NEW t \in late, t.srv = 2, t.kind = "report" PROVE t \in late'
      BY <1>4, <3>1, <3>4
    <3>5. QED
      BY <1>1, <2>3, <3>2, <3>3, <3>4 DEF Tracked
  <2>4. QED
    BY <1>1, <2>1, <2>2, <2>3 DEF Tracked
<1>15. Landing'
  <2>1. ASSUME NEW c \in Clients, pc'[c] \in AtPrimary, NEW t \in late', t.srv \in {1, 2}
        PROVE  t.srv \notin up'
    <3>1. pc[c] \in AtPrimary
      BY <1>11, <2>1
    <3>2. CASE t \in late
      BY <1>1, <2>1, <3>1, <3>2 DEF Landing
    <3>3. CASE t \notin late
      <4>1. loc[c] # s
        BY <1>1, <2>1, <3>1 DEF AtPrimary
      <4>2. \A d \in Clients : pc[d] \in AtPrimary => d = c
        BY <1>5, <3>1
      <4>3. QED
        BY <1>1, <1>6, <1>10, <2>1, <3>1, <3>3, <4>1, <4>2
    <3>4. QED
      BY <3>2, <3>3
  <2>2. \A t \in late' :
          /\ t.srv = 1 => 1 \notin up'
          /\ t.srv = 2 /\ 2 \in up' => 1 \notin up' /\ t.kind # "sent"
    BY <1>1, <1>3, <1>10 DEF Landing
  <2>3. ASSUME NEW t \in late', t.srv = 2, 2 \in up', t.kind = "report"
        PROVE  t.ver = ver[2]
    <3>1. CASE t \in late
      BY <1>1, <2>3, <3>1 DEF Landing
    <3>2. CASE t \notin late
      <4>1. PICK d \in Clients : /\ pc[d] = "breport" /\ loc[d] = 1 /\ s = 1
                                 /\ t.ver = wver[d]
        BY <1>1, <1>3, <1>10, <2>3, <3>2
      <4>2. \A e \in Clients : ~Behind(e)
        BY <1>5, <4>1 DEF Behind, AtPrimary
      <4>3. QED
        BY <1>1, <2>3, <4>1, <4>2 DEF Mirrored, Stamped, AtPrimary
    <3>3. QED
      BY <3>1, <3>2
  <2>4. ASSUME NEW t \in late', fmap = "chunk", 1 \in up'
        PROVE  t.srv = 2 => t.ver <= mver[1]
    <3>0. 1 \in up /\ s # 1
      BY <1>1, <2>4
    <3>1. CASE t \in late
      BY <2>4, <3>0, <3>1 DEF Landing
    <3>2. CASE t \notin late
      <4>1. \A d \in Clients : wver[d] \in Nat
        BY DEF TypeOK, CallsOK
      <4>3. t.srv = 2 => t.ver <= mver[1]
        <5> SUFFICES ASSUME t.srv = 2 PROVE t.ver <= mver[1]
          OBVIOUS
        <5>1. PICK d \in Clients : /\ pc[d] \in AtPrimary /\ t.ver = wver[d]
                                   /\ pc[d] \in {"breport", "bcast"} \/ loc[d] = 2
          BY <1>10, <3>2
        <5>2. loc[d] = 1 /\ pc[d] \in {"breport", "bcast"}
          BY <1>6, <3>0, <5>1
        <5>3. QED
          BY <2>4, <4>1, <5>1, <5>2 DEF Tracked
      <4>4. QED
        BY <4>3
    <3>3. QED
      BY <3>1, <3>2
  <2>6. 2 \in up' => \A t, u \in late' : t.srv = 2 /\ u.srv = 2 => t = u
    <3> SUFFICES ASSUME 2 \in up', NEW t \in late', NEW u \in late',
                        t.srv = 2, u.srv = 2
                 PROVE  t = u
      OBVIOUS
    <3>0. 2 \in up /\ s # 2
      BY <1>1
    <3>1. CASE t \in late \/ u \in late
      <4>1. 1 \notin up
        BY <3>0, <3>1 DEF Landing
      <4>2. t \in late /\ u \in late
        BY <1>1, <1>10, <3>0, <4>1
      <4>3. QED
        BY <3>0, <4>2 DEF Landing
    <3>2. CASE t \notin late /\ u \notin late
      <4>1. PICK d \in Clients :
              /\ pc[d] \in AtPrimary
              /\ \/ pc[d] = "breport" /\ t = Task(d, "report", 2)
                 \/ pc[d] = "bcast" /\ t = Task(d, "write", 2)
        BY <1>10, <3>0, <3>2
      <4>2. PICK e \in Clients :
              /\ pc[e] \in AtPrimary
              /\ \/ pc[e] = "breport" /\ u = Task(e, "report", 2)
                 \/ pc[e] = "bcast" /\ u = Task(e, "write", 2)
        BY <1>10, <3>0, <3>2
      <4>3. d = e
        BY <1>5, <4>1, <4>2
      <4>4. QED
        BY <4>1, <4>2, <4>3
    <3>3. QED
      BY <3>1, <3>2
  <2>7. QED
    BY <1>1, <2>1, <2>2, <2>3, <2>4, <2>6 DEF Landing
<1>16. QED
  BY <1>12, <1>13, <1>14, <1>15

\* A stray write lands on the second replica, whose primary is down and which
\* no call has been sent to yet.
LEMMA LateWriteStep ==
  ASSUME TypeOK, ForGoodInv, NEW t \in late, LateWrite(t)
  PROVE  Stamped' /\ Mirrored' /\ Tracked' /\ Landing'
<1> USE DEF ForGoodInv
<1>1. /\ t.kind = "write" /\ t \in Tasks
      /\ UNCHANGED <<fmap, mver, alive, up, has, last, writes, pc,
                     at, loc, all, val, wver>>
  BY DEF LateWrite, master, locals, count, TypeOK, DisksOK
<1>2. CASE t.srv \notin up \cap has
  <2>1. UNCHANGED <<data, ver>> /\ late' = late \ {t}
    BY <1>2 DEF LateWrite
  <2>2. \A d \in Clients : Behind(d)' <=> Behind(d)
    BY <1>1 DEF Behind
  <2>3. Stamped'
    BY <1>1, <2>1 DEF Stamped
  <2>4. Mirrored'
    BY <1>1, <2>1, <2>2 DEF Mirrored
  <2>5. Tracked' /\ Landing'
    BY <1>1, <2>1 DEF Tracked, Landing
  <2>6. QED
    BY <2>3, <2>4, <2>5
<1>3. CASE t.srv \in up \cap has
  <2> DEFINE w == [t EXCEPT !.kind = "report"]
  <2>1. t.srv = 2
    BY <1>1, <1>3 DEF Landing, Placed
  <2>2. /\ data' = [data EXCEPT ![2][t.cell] = t.val]
        /\ ver' = [ver EXCEPT ![2] = t.ver]
        /\ late' = (late \ {t}) \cup {w}
    BY <1>3, <2>1 DEF LateWrite
  <2>3. w.srv = 2 /\ w.kind = "report" /\ w.cell = t.cell /\ w.val = t.val /\ w.ver = t.ver
    BY <1>1, <2>1 DEF Tasks
  <2>4. t.cell \in Cells /\ t.val \in Nat /\ t.ver \in Nat
    BY <1>1 DEF Tasks
  <2> HIDE DEF w
  <2>5. \A u \in Servers, x \in Cells :
          data'[u][x] = IF u = 2 /\ x = t.cell THEN t.val ELSE data[u][x]
    BY <2>2, <2>4, PutAt, OneTwo DEF TypeOK, DisksOK
  <2>6. \A u \in Servers : ver'[u] = IF u = 2 THEN t.ver ELSE ver[u]
    BY <2>2, OneTwo DEF TypeOK, DisksOK
  <2>7. 2 \in up /\ 1 \notin up /\ t.val >= last[t.cell]
    BY <1>3, <2>1 DEF Landing, Stamped
  <2>8. \A d \in Clients : pc[d] \notin AtPrimary
    BY <2>1, <2>7 DEF Landing
  <2>9. \A u \in late' : u.srv \in {1, 2} => (u \in late /\ u.srv = 1) \/ u = w
    BY <2>1, <2>2, <2>7 DEF Landing
  <2>10. Stamped'
    <3>1. \A s \in {1, 2} \cap up, x \in Cells : data'[s][x] >= last[x]
      BY <2>5, <2>7, OneTwo DEF Stamped
    <3>2. \A u \in late' : u.srv = 2 => u.val >= last[u.cell]
      BY <2>3, <2>7, <2>9
    <3>3. QED
      BY <1>1, <2>8, <3>1, <3>2 DEF Stamped
  <2>11. Mirrored'
    BY <1>1, <2>7 DEF Mirrored
  <2>12. Tracked'
    <3>1. w \in late'
      BY <2>2
    <3>2. QED
      BY <1>1, <2>3, <2>7, <2>8, <3>1 DEF Tracked, AtPrimary
  <2>13. Landing'
    <3>1. w.ver = ver'[2]
      BY <2>3, <2>6, OneTwo
    <3>2. QED
      BY <1>1, <2>3, <2>7, <2>8, <2>9, <3>1 DEF Landing
  <2>14. QED
    BY <2>10, <2>11, <2>12, <2>13
<1>4. QED
  BY <1>2, <1>3

\* A stray report reaches the master.
LEMMA LateReportStep ==
  ASSUME TypeOK, ForGoodInv, NEW t \in late, LateReport(t)
  PROVE  Stamped' /\ Mirrored' /\ Tracked' /\ Landing'
<1> USE DEF ForGoodInv
<1>1. /\ UNCHANGED <<fmap, locs, alive, up, has, data, ver, last, writes, pc,
                     at, loc, all, val, wver>>
      /\ late' = late \ {t} /\ t.ver \in Nat /\ t.srv \in Servers
      /\ SetVersion(t.srv, t.ver)
  BY DEF LateReport, locals, count, TypeOK, DisksOK, Tasks
<1>2. locs = <<1, 2>>
  BY DEF Placed
<1>3. \A u \in Servers :
        mver'[u] = IF fmap = "chunk" /\ u = t.srv /\ u \in {1, 2} THEN t.ver ELSE mver[u]
  BY <1>1, <1>2 DEF SetVersion, TypeOK, MasterOK
<1>4. mver[1] \in Nat /\ mver[2] \in Nat
  BY OneTwo DEF TypeOK, MasterOK
<1>5. \A d \in Clients : Behind(d)' <=> Behind(d)
  BY <1>1 DEF Behind
<1>6. Stamped'
  BY <1>1 DEF Stamped
<1>7. Mirrored'
  BY <1>1, <1>5 DEF Mirrored
<1>8. fmap = "chunk" /\ 1 \in up => mver'[1] = mver[1] /\ mver'[1] >= mver'[2]
  BY <1>1, <1>3, <1>4, OneTwo DEF Landing, Tracked
<1>9. Tracked'
  <2> SUFFICES ASSUME fmap = "chunk" PROVE Tracked'
    BY <1>1 DEF Tracked
  <2>1. \A d \in Clients : pc[d] \in AtPrimary =>
          loc[d] \in {1, 2} /\ mver'[loc[d]] = mver[loc[d]]
    <3> SUFFICES ASSUME NEW d \in Clients, pc[d] \in AtPrimary
                 PROVE  loc[d] \in {1, 2} /\ mver'[loc[d]] = mver[loc[d]]
      OBVIOUS
    <3>1. loc[d] \in {1, 2} /\ loc[d] \in up
      BY DEF Placed
    <3>2. t.srv # loc[d]
      BY <1>2, <3>1 DEF Landing
    <3>3. QED
      BY <1>3, <3>1, <3>2, OneTwo
  <2>2. 1 \in up => mver'[1] = mver[1]
    BY <1>3, OneTwo DEF Landing
  <2>3. 2 \in up => \/ mver'[2] = ver[2]
                    \/ mver'[2] = mver[2] /\ t.srv # 2
    BY <1>3, OneTwo DEF Landing, LateReport
  <2>4. 2 \in up => \/ mver'[2] = ver[2]
                    \/ \E d \in Clients : pc[d] = "report" /\ loc[d] = 2
                    \/ \E d \in Clients : pc[d] = "breport"
                    \/ \E u \in late' : u.srv = 2 /\ u.kind = "report"
    BY <1>1, <2>3 DEF Tracked
  <2>5. QED
    BY <1>1, <1>8, <2>1, <2>2, <2>4 DEF Tracked, AtPrimary
<1>10. Landing'
  <2>1. \A u \in late' : u.srv = 2 /\ fmap = "chunk" /\ 1 \in up => u.ver <= mver'[1]
    BY <1>1, <1>8 DEF Landing
  <2>2. QED
    BY <1>1, <2>1 DEF Landing
<1>11. QED
  BY <1>6, <1>7, <1>9, <1>10

\* It holds of what create has made.
LEMMA ForGoodInit ==
  ASSUME Init, ForGood
  PROVE  ForGoodInv
<1>1. Exclusive
  BY DEF Init, Exclusive, Locked, AtPrimary
<1>2. Placed
  BY OneTwo DEF Init, ForGood, Placed, Adding, AtPrimary
<1>3. Stamped
  BY OneTwo DEF Init, Stamped, AtPrimary, Blank
<1>4. Mirrored
  BY OneTwo DEF Init, Mirrored, Behind
<1>5. Tracked
  BY OneTwo DEF Init, Tracked
<1>6. Landing
  BY DEF Init, Landing
<1>7. QED
  BY <1>1, <1>2, <1>3, <1>4, <1>5, <1>6 DEF ForGoodInv

\* Every step keeps the invariant: most steps touch no replica, and for the
\* eight that do there is a lemma each.
LEMMA ForGoodStep ==
  ASSUME TypeOK, TypeOK', ForGood, ForGoodInv, [Next]_vars, astray' = {}
  PROVE  ForGoodInv'
<1>1. CASE UNCHANGED vars
  <2>1. Exclusive' /\ Placed'
    BY <1>1 DEF vars, master, disks, locals, count, ForGoodInv, Exclusive, Placed,
                NextReplica
  <2>2. /\ UNCHANGED <<fmap, mver, data, ver, late, last, up, writes>>
        /\ UNCHANGED <<pc, at, loc, all, val, wver>>
    BY <1>1 DEF vars, master, disks, locals, count
  <2>3. Stamped' /\ Mirrored' /\ Tracked' /\ Landing'
    BY <2>2, AsideStep DEF ForGoodInv
  <2>4. QED
    BY <2>1, <2>3 DEF ForGoodInv
<1>2. CASE Next
  <2>1. Exclusive' /\ Placed'
    BY <1>2, ExclusiveStep, PlacedStep DEF ForGoodInv
  <2> DEFINE Rest == Stamped' /\ Mirrored' /\ Tracked' /\ Landing'
             Aside == /\ UNCHANGED <<mver, data, ver, late, last>>
                      /\ up' \subseteq up
                      /\ fmap' = "chunk" => fmap = "chunk"
                      /\ writes' \in {writes, writes + 1}
             Apart == \A d \in Clients : pc[d] \in AtPrimary \/ pc'[d] \in AtPrimary =>
                        UNCHANGED <<pc[d], at[d], loc[d], all[d], val[d], wver[d]>>
  <2>2. Aside /\ Apart => Rest
    BY AsideStep DEF ForGoodInv
  <2>3. ASSUME NEW c \in Clients, NEW o \in Ops, NEW cell \in Cells, Call(c, o, cell)
        PROVE  Rest
    <3>1. Aside
      BY <2>3 DEF Call, master, disks
    <3>2. Apart
      BY <2>3 DEF Call, Goto, AtPrimary, TypeOK, CallsOK
    <3>3. QED
      BY <2>2, <3>1, <3>2
  <2>4. ASSUME NEW c \in Clients, Locate(c) PROVE Rest
    <3>1. Aside
      BY <2>4 DEF Locate, disks, count
    <3>2. Apart
      BY <2>4 DEF Locate, Return, locals, Goto, AtPrimary, TypeOK, CallsOK
    <3>3. QED
      BY <2>2, <3>1, <3>2
  <2>5. ASSUME NEW c \in Clients, AddCall(c) \/ Add1(c) \/ Add2(c) \/ AddRecord(c)
        PROVE  FALSE
    BY <2>5 DEF AddCall, Add1, Add2, AddRecord, ForGoodInv, Placed, Adding
  <2>6. ASSUME NEW c \in Clients, Lock(c) \/ DialPanic(c) \/ Unlock(c) PROVE Rest
    <3>1. Aside
      BY <2>6 DEF Lock, DialPanic, Unlock, master, disks, count
    <3>2. Apart
      BY <2>6 DEF Lock, DialPanic, Unlock, Return, locals, Goto, AtPrimary, TypeOK,
                  CallsOK
    <3>3. QED
      BY <2>2, <3>1, <3>2
  <2>7. ASSUME NEW c \in Clients, DeleteBegin(c) \/ DeleteLock(c) PROVE Rest
    <3>1. Aside
      BY <2>7 DEF DeleteBegin, DeleteLock, master, disks, count
    <3>2. Apart
      BY <2>7 DEF DeleteBegin, DeleteLock, locals, Goto, AtPrimary, TypeOK, CallsOK
    <3>3. QED
      BY <2>2, <3>1, <3>2
  <2>8. ASSUME NEW c \in Clients, DeleteUnlock(c) \/ Forget(c) PROVE Rest
    <3>1. Aside
      BY <2>8 DEF DeleteUnlock, Forget, master, disks, count
    <3>2. Apart
      BY <2>8 DEF DeleteUnlock, Forget, Return, locals, Goto, AtPrimary, TypeOK, CallsOK
    <3>3. QED
      BY <2>2, <3>1, <3>2
  <2>9. ASSUME NEW c \in Clients, ReadChunk(c) \/ DeleteChunk(c) PROVE Rest
    <3>1. Aside
      BY <2>9 DEF ReadChunk, DeleteChunk, master, count
    <3>2. Apart
      BY <2>9 DEF ReadChunk, DeleteChunk, locals, Goto, AtPrimary, TypeOK, CallsOK
    <3>3. QED
      BY <2>2, <3>1, <3>2
  <2>10. ASSUME NEW s \in Servers, Timeup(s) \/ AcceptHeartbeat(s) PROVE Rest
    <3>1. Aside
      BY <2>10 DEF Timeup, AcceptHeartbeat, disks, count
    <3>2. Apart
      BY <2>10 DEF Timeup, AcceptHeartbeat, locals
    <3>3. QED
      BY <2>2, <3>1, <3>2
  <2>11. ASSUME NEW s \in Servers, Restart(s) PROVE FALSE
    BY <2>11 DEF Restart, ForGood, TypeOK, CountOK
  <2> HIDE DEF Rest
  <2>12. ASSUME NEW c \in Clients,
                WriteChunk(c) \/ Report(c) \/ Broadcast(c) \/ ReplicaReport(c)
                  \/ LogVersion(c)
         PROVE  Rest
    BY <2>12, WriteStep, ReportStep, BroadcastStep, ReplicaReportStep, LogVersionStep
       DEF Rest
  <2>13. ASSUME NEW s \in Servers, Crash(s) PROVE Rest
    BY <2>13, CrashStep DEF Rest
  <2>14. ASSUME NEW t \in late, LateWrite(t) \/ LateReport(t) PROVE Rest
    BY <2>14, LateWriteStep, LateReportStep DEF Rest
  <2>15. Rest
    BY <1>2, <2>3, <2>4, <2>5, <2>6, <2>7, <2>8, <2>9, <2>10, <2>11, <2>12, <2>13,
       <2>14 DEF Next, Step
  <2>16. QED
    BY <2>1, <2>15 DEF Rest, ForGoodInv
<1>3. QED
  BY <1>1, <1>2

\* The inductive invariant holds as long as nothing is recorded.
LEMMA ForGoodInvariant ==
  ASSUME ForGood
  PROVE  Spec => [](astray = {} => ForGoodInv)
<1>1. Init => (astray = {} => ForGoodInv)
  BY ForGoodInit
<1>2. TypeOK /\ TypeOK' /\ (astray = {} => ForGoodInv) /\ [Next]_vars
        => (astray = {} => ForGoodInv)'
  <2> SUFFICES ASSUME TypeOK, TypeOK', astray = {} => ForGoodInv, [Next]_vars, astray' = {}
               PROVE  ForGoodInv'
    OBVIOUS
  <2>1. astray = {}
    BY AstrayGrows DEF vars, count
  <2>2. QED
    BY <2>1, ForGoodStep
<1>3. QED
  BY <1>1, <1>2, TypeCorrect, PTL DEF Spec

\* Two running replicas of the same version hold the same contents whenever the
\* chunk lock is free, for any number of servers that crash for good in the
\* middle of a write and any number of time-outs of running servers, until a
\* write leaves out such a server or overtakes a call of a dead one.
THEOREM ReplicasAgreeHolds ==
  ASSUME ForGood
  PROVE  Spec => []ReplicasAgree
<1>1. TypeOK /\ (astray = {} => ForGoodInv) => ReplicasAgree
  <2> SUFFICES ASSUME TypeOK, ForGoodInv, Quiet, fmap = "chunk", 1 \in up, 2 \in up
               PROVE  data[1] = data[2]
    BY DEF ReplicasAgree, ForGoodInv, Placed
  <2>1. \A c \in Clients : ~Behind(c)
    BY ClientAssumption DEF Quiet, ForGoodInv, Exclusive, Locked, AtPrimary, Behind
  <2>2. \A x \in Cells : data[1][x] = data[2][x]
    BY <2>1 DEF ForGoodInv, Mirrored
  <2>3. data[1] \in [Cells -> Nat] /\ data[2] \in [Cells -> Nat]
    BY OneTwo DEF TypeOK, DisksOK
  <2>4. QED
    BY <2>2, <2>3
<1>2. QED
  BY <1>1, TypeCorrect, ForGoodInvariant, PTL

\* Under the same conditions the master knows the version of every running
\* replica whenever the lock is free.
THEOREM VersionsTrackedHolds ==
  ASSUME ForGood
  PROVE  Spec => []VersionsTracked
<1>1. (astray = {} => ForGoodInv) => VersionsTracked
  <2> SUFFICES ASSUME ForGoodInv, Quiet, fmap = "chunk",
                      NEW s \in {1, 2}, s \in up
               PROVE  mver[s] = ver[s]
    BY DEF VersionsTracked, ForGoodInv, Placed
  <2>1. \A c \in Clients : pc[c] \notin {"report", "breport"}
    BY ClientAssumption DEF Quiet, ForGoodInv, Exclusive, Locked, AtPrimary
  <2>2. QED
    BY <2>1 DEF ForGoodInv, Tracked, Quiet
<1>2. QED
  BY <1>1, ForGoodInvariant, PTL

\* Under the same conditions the replica GetChunkLocation names, if it runs, has
\* every write whose Write call returned, or a later one.
THEOREM NoLostWriteHolds ==
  ASSUME ForGood
  PROVE  Spec => []NoLostWrite
<1>1. (astray = {} => ForGoodInv) => NoLostWrite
  <2> SUFFICES ASSUME ForGoodInv, Located \in up, NEW x \in Cells
               PROVE  data[Located][x] >= last[x]
    BY DEF NoLostWrite
  <2>1. Located \in {1, 2}
    BY DEF Located, ForGoodInv, Placed
  <2>2. QED
    BY <2>1 DEF ForGoodInv, Stamped
<1>2. QED
  BY <1>1, ForGoodInvariant, PTL

-----------------------------------------------------------------------------
(* The file system as one chunk on one disk                                *)

\* A chunk made by create in a system where nothing crashes, no running server
\* is timed out and nothing is deleted.
Sunny == ~Added /\ MaxCrash = 0 /\ MaxSlow = 0 /\ "delete" \notin Ops

\* In such a system all servers stay, the first replica is the primary of every
\* call, the master's version of it is never the lower one, and its stamps are
\* those of writes already counted.
Calm ==
  /\ fmap = "chunk" /\ locs = <<1, 2>> /\ alive = Servers /\ up = Servers
  /\ has = {1, 2} /\ late = {}
  /\ mver[1] >= mver[2]
  /\ \A x \in Cells : data[1][x] <= writes
  /\ mver[1] = ver[1] \/ \E c \in Clients : pc[c] = "report"
  /\ \A c \in Clients :
       /\ pc[c] \in {"idle", "locate", "lock", "write", "read", "unlock"} \cup AtPrimary
       /\ pc[c] \in {"lock", "write", "read"} \cup AtPrimary => loc[c] = 1
       /\ pc[c] \in AtPrimary => 1 \notin all[c] /\ ver[1] = wver[c]
       /\ pc[c] \in {"bcast", "breport"} => mver[1] = wver[c]
       /\ pc[c] = "report" => wver[c] >= mver[1]
       /\ pc[c] = "read" => op[c] = "read"
       /\ pc[c] \in {"write"} \cup AtPrimary => op[c] # "read"

LEMMA CalmLocated ==
  ASSUME Calm PROVE Located = 1
BY OneTwo DEF Calm, Located

\* Every step keeps it.
LEMMA CalmStep ==
  ASSUME TypeOK, Sunny, Exclusive, Calm, Next
  PROVE  Calm'
<1> USE OneTwo DEF Goto, AtPrimary
<1>1. ASSUME NEW c \in Clients, NEW o \in Ops, NEW cell \in Cells, Call(c, o, cell)
      PROVE  Calm'
  <2>1. o # "delete"
    BY DEF Sunny
  <2>2. /\ UNCHANGED <<fmap, locs, alive, up, has, late, mver, data, writes, ver, loc, all, wver>>
        /\ pc[c] = "idle" /\ pc'[c] = "locate" /\ \A d \in Clients : d # c => UNCHANGED <<pc[d], op[d]>>
    BY <1>1, <2>1 DEF Call, master, disks, TypeOK, CallsOK
  <2>3. QED
    BY <2>2 DEF Calm
<1>2. ASSUME NEW c \in Clients, Locate(c) PROVE Calm'
  <2>1. Located = 1
    BY CalmLocated
  <2>2. /\ UNCHANGED <<fmap, locs, alive, up, has, late, mver, data, writes, ver, op, wver>>
        /\ pc[c] = "locate" /\ pc'[c] = "lock" /\ loc'[c] = 1
        /\ \A d \in Clients : d # c => UNCHANGED <<pc[d], loc[d], all[d]>>
    BY <1>2, <2>1 DEF Locate, Calm, disks, count, TypeOK, CallsOK
  <2>3. QED
    BY <2>2 DEF Calm
<1>3. ASSUME NEW c \in Clients, Lock(c) PROVE Calm'
  <2>1. /\ UNCHANGED <<fmap, locs, alive, up, has, late, mver, data, writes, ver, op, loc, all, wver>>
        /\ pc[c] = "lock"
        /\ \/ pc'[c] = "read" /\ op[c] = "read"
           \/ pc'[c] = "write" /\ op[c] # "read"
        /\ \A d \in Clients : d # c => UNCHANGED pc[d]
    <3>1. /\ UNCHANGED <<fmap, locs, alive, up, has, late, mver, data, writes, ver, op, loc,
                         all, wver>>
          /\ pc[c] = "lock"
      BY <1>3 DEF Lock, master, disks, locals, count
    <3>2. pc' = [pc EXCEPT ![c] = IF op[c] = "read" THEN "read" ELSE "write"]
      BY <1>3 DEF Lock
    <3>3. QED
      BY <3>1, <3>2 DEF TypeOK, CallsOK
  <2>2. QED
    BY <2>1 DEF Calm
<1>4. ASSUME NEW c \in Clients, ReadChunk(c) \/ LogVersion(c) PROVE Calm'
  <2>1. /\ UNCHANGED <<fmap, locs, alive, up, has, late, mver, data, writes, ver, op, loc, all, wver>>
        /\ pc[c] \in {"read", "bcast"} /\ pc'[c] = "unlock"
        /\ \A d \in Clients : d # c => UNCHANGED pc[d]
    BY <1>4 DEF ReadChunk, LogVersion, Calm, master, locals, count, TypeOK, CallsOK
  <2>2. QED
    BY <2>1 DEF Calm
<1>5. ASSUME NEW c \in Clients, Unlock(c) PROVE Calm'
  <2>1. /\ UNCHANGED <<fmap, locs, alive, up, has, late, mver, data, writes, ver>>
        /\ pc[c] = "unlock" /\ pc'[c] = "idle"
        /\ \A d \in Clients : d # c => UNCHANGED <<pc[d], op[d], loc[d], all[d], wver[d]>>
    BY <1>5 DEF Unlock, Return, master, disks, count, TypeOK, CallsOK
  <2>2. QED
    BY <2>1 DEF Calm
<1>6. ASSUME NEW c \in Clients, WriteChunk(c) PROVE Calm'
  <2>1. loc[c] = 1 /\ 1 \in has /\ at[c] \in Cells
    BY <1>6 DEF WriteChunk, Calm, TypeOK, CallsOK
  <2>2. /\ UNCHANGED <<fmap, locs, alive, up, has, late, mver, op, loc>>
        /\ writes' = writes + 1 /\ ver' = [ver EXCEPT ![1] = @ + 1]
        /\ data' = [data EXCEPT ![1][at[c]] = writes + 1]
        /\ pc[c] = "write" /\ pc'[c] = "report" /\ wver'[c] = ver[1] + 1
        /\ all'[c] = all[c] \ {1}
        /\ \A d \in Clients : d # c => UNCHANGED <<pc[d], all[d], wver[d]>>
    BY <1>6, <2>1 DEF WriteChunk, master, TypeOK, CallsOK
  <2>3. \A x \in Cells : data'[1][x] <= writes'
    <3>1. \A x \in Cells : data'[1][x] = IF x = at[c] THEN writes + 1 ELSE data[1][x]
      BY <2>1, <2>2, PutAt DEF TypeOK, DisksOK
    <3>2. writes \in Nat /\ \A x \in Cells : data[1][x] \in Nat /\ data[1][x] <= writes
      BY DEF Calm, TypeOK, DisksOK, CountOK
    <3>3. QED
      BY <2>2, <3>1, <3>2
  <2>4. \A d \in Clients : pc[d] \notin AtPrimary
    BY <2>2 DEF Exclusive, Locked
  <2>5. mver[1] = ver[1] /\ ver'[1] = ver[1] + 1 /\ ver[1] \in Nat
    BY <2>2, <2>4 DEF Calm, TypeOK, DisksOK
  <2>6. QED
    BY <2>1, <2>2, <2>3, <2>4, <2>5 DEF Calm
<1>7. ASSUME NEW c \in Clients, Report(c) PROVE Calm'
  <2>1. /\ UNCHANGED <<fmap, locs, alive, up, has, late, data, writes, ver, op, loc, all, wver>>
        /\ pc[c] = "report" /\ pc'[c] = "bcast" /\ loc[c] = 1 /\ wver[c] >= mver[1]
        /\ ver[1] = wver[c]
        /\ \A d \in Clients : d # c => UNCHANGED pc[d]
    BY <1>7 DEF Report, Calm, disks, locals, count, TypeOK, CallsOK
  <2>2. mver'[1] = wver[c] /\ mver'[2] = mver[2]
    BY <1>7, <2>1 DEF Report, SetVersion, Calm, TypeOK, MasterOK
  <2>3. \A d \in Clients : pc'[d] \in AtPrimary => d = c
    BY <2>1 DEF Exclusive, Locked
  <2>4. mver'[1] >= mver'[2]
    BY <2>1, <2>2 DEF Calm, TypeOK, MasterOK, CallsOK
  <2>5. QED
    BY <2>1, <2>2, <2>3, <2>4 DEF Calm
<1>8. ASSUME NEW c \in Clients, Broadcast(c) PROVE Calm'
  <2>1. /\ UNCHANGED <<fmap, locs, alive, up, has, late, mver, writes, op, loc, wver>>
        /\ pc[c] = "bcast" /\ pc'[c] \in {"bcast", "breport"} /\ all'[c] \subseteq all[c]
        /\ \A d \in Clients : d # c => UNCHANGED <<pc[d], all[d]>>
    BY <1>8 DEF Broadcast, master, count, TypeOK, CallsOK
  <2>2. PICK s \in Servers : /\ NextReplica(c, s)
                             /\ \/ UNCHANGED <<data, ver>>
                                \/ /\ data' = [data EXCEPT ![s][at[c]] = val[c]]
                                   /\ ver' = [ver EXCEPT ![s] = wver[c]]
    BY <1>8 DEF Broadcast
  <2>3. s # 1
    BY <2>1, <2>2 DEF NextReplica, Calm
  <2>4. data'[1] = data[1] /\ ver'[1] = ver[1]
    BY <2>2, <2>3 DEF TypeOK, DisksOK
  <2>5. QED
    BY <2>1, <2>4 DEF Calm
<1>9. ASSUME NEW c \in Clients, ReplicaReport(c) PROVE Calm'
  <2>1. /\ UNCHANGED <<fmap, locs, alive, up, has, late, data, writes, ver, op, loc, wver>>
        /\ pc[c] = "breport" /\ pc'[c] = "bcast" /\ all'[c] \subseteq all[c]
        /\ mver[1] = wver[c]
        /\ \A d \in Clients : d # c => UNCHANGED <<pc[d], all[d]>>
    BY <1>9 DEF ReplicaReport, Calm, count, TypeOK, CallsOK
  <2>2. PICK s \in Servers : NextReplica(c, s) /\ SetVersion(s, wver[c])
    BY <1>9 DEF ReplicaReport
  <2>3. s # 1
    BY <2>1, <2>2 DEF NextReplica, Calm
  <2>4. mver'[1] = mver[1] /\ mver'[2] \in {mver[2], wver[c]}
    BY <2>2, <2>3 DEF SetVersion, TypeOK, MasterOK
  <2>5. mver'[1] >= mver'[2]
    BY <2>1, <2>4 DEF Calm, TypeOK, MasterOK, CallsOK
  <2>6. QED
    BY <2>1, <2>4, <2>5 DEF Calm
<1>10. ASSUME NEW c \in Clients, AddCall(c) \/ Add1(c) \/ Add2(c) \/ AddRecord(c) \/ DialPanic(c)
       PROVE  FALSE
  BY <1>10 DEF AddCall, Add1, Add2, AddRecord, DialPanic, Calm
<1>11. ASSUME NEW c \in Clients,
              DeleteBegin(c) \/ DeleteLock(c) \/ DeleteChunk(c) \/ DeleteUnlock(c) \/ Forget(c)
       PROVE  FALSE
  BY <1>11 DEF DeleteBegin, DeleteLock, DeleteChunk, DeleteUnlock, Forget, Calm
<1>12. ASSUME NEW s \in Servers, Crash(s) \/ Restart(s) \/ Timeup(s) \/ AcceptHeartbeat(s)
       PROVE  FALSE
  BY <1>12 DEF Crash, Restart, Timeup, AcceptHeartbeat, Calm, Sunny, TypeOK, CountOK
<1>13. late = {}
  BY DEF Calm
<1>14. QED
  BY <1>1, <1>2, <1>3, <1>4, <1>5, <1>6, <1>7, <1>8, <1>9, <1>10, <1>11, <1>12, <1>13
     DEF Next, Step

LEMMA CalmInvariant ==
  ASSUME Sunny
  PROVE  Spec => [](Exclusive /\ Calm)
<1>1. Init => Exclusive /\ Calm
  BY OneTwo DEF Init, Sunny, Exclusive, Locked, AtPrimary, Calm, Blank
<1>2. TypeOK /\ Exclusive /\ Calm /\ [Next]_vars => Exclusive' /\ Calm'
  <2> SUFFICES ASSUME TypeOK, Exclusive, Calm, [Next]_vars PROVE Exclusive' /\ Calm'
    OBVIOUS
  <2>1. CASE UNCHANGED vars
    BY <2>1 DEF vars, master, disks, locals, count, Exclusive, Calm
  <2>2. CASE Next
    BY <2>2, ExclusiveStep, CalmStep
  <2>3. QED
    BY <2>1, <2>2
<1>3. QED
  BY <1>1, <1>2, TypeCorrect, PTL DEF Spec

\* Without failures the file system implements one chunk on one disk, for any
\* clients, cells, servers and calls: a write takes effect at WriteChunk, a read
\* at ReadChunk, and no other step shows.
THEOREM ImplementsAtomicChunk ==
  ASSUME Sunny
  PROVE  Spec => AtomicSpec
<1> USE DEF Goto, AtPrimary
<1>1. Init => R!Init
  BY CalmLocated, OneTwo DEF Init, Sunny, R!Init, Contents, Answer, Located, Blank
<1>2. TypeOK /\ Exclusive /\ Calm /\ Calm' /\ [Next]_vars => [R!Next]_<<Contents, Answer>>
  <2> SUFFICES ASSUME TypeOK, Exclusive, Calm, Calm', [Next]_vars
               PROVE  [R!Next]_<<Contents, Answer>>
    OBVIOUS
  <2>1. Contents = data[1] /\ Contents' = data'[1]
    <3>1. Located = 1
      BY CalmLocated
    <3>2. Located' = 1
      BY OneTwo DEF Calm, Located
    <3>3. QED
      BY <3>1, <3>2 DEF Contents
  <2>2. CASE UNCHANGED vars
    BY <2>1, <2>2 DEF vars, disks, locals, Answer
  <2>3. ASSUME NEW c \in Clients, WriteChunk(c) PROVE R!Next
    <3>1. pc[c] = "write" /\ loc[c] = 1 /\ 1 \in has /\ at[c] \in Cells /\ op[c] # "read"
      BY <2>3 DEF WriteChunk, Calm, TypeOK, CallsOK
    <3>2. /\ data' = [data EXCEPT ![1][at[c]] = writes + 1] /\ UNCHANGED op
          /\ pc' = [pc EXCEPT ![c] = "report"] /\ val' = [val EXCEPT ![c] = writes + 1]
      BY <2>3, <3>1 DEF WriteChunk
    <3>3. data'[1] = [data[1] EXCEPT ![at[c]] = writes + 1] /\ data'[1][at[c]] = writes + 1
      BY <3>1, <3>2, OneTwo DEF TypeOK, DisksOK
    <3>4. UNCHANGED Answer
      BY <3>1, <3>2 DEF Answer, TypeOK, CallsOK
    <3>5. writes \in Nat /\ \A x \in Cells : data[1][x] \in Nat /\ data[1][x] <= writes
      BY OneTwo DEF Calm, TypeOK, DisksOK, CountOK
    <3>6. R!Write(at[c])
      BY <2>1, <3>1, <3>3, <3>4, <3>5 DEF R!Write
    <3>7. QED
      BY <3>1, <3>6 DEF R!Next
  <2>4. ASSUME NEW c \in Clients, ReadChunk(c) PROVE R!Next
    <3>1. /\ pc[c] = "read" /\ loc[c] = 1 /\ 1 \in has /\ at[c] \in Cells /\ op[c] = "read"
          /\ UNCHANGED <<data, op>> /\ pc' = [pc EXCEPT ![c] = "unlock"]
          /\ val' = [val EXCEPT ![c] = data[1][at[c]]]
      BY <2>4 DEF ReadChunk, Calm, TypeOK, CallsOK
    <3>2. Answer' = [Answer EXCEPT ![c] = data[1][at[c]]]
      BY <3>1 DEF Answer, TypeOK, CallsOK
    <3>3. R!Read(c, at[c])
      BY <2>1, <3>1, <3>2 DEF R!Read
    <3>4. QED
      BY <3>1, <3>3 DEF R!Next
  <2>5. ASSUME NEW c \in Clients, Unlock(c) PROVE R!Next
    <3>1. /\ UNCHANGED data /\ pc' = [pc EXCEPT ![c] = "idle"]
          /\ op' = [op EXCEPT ![c] = "none"] /\ val' = [val EXCEPT ![c] = 0]
      BY <2>5 DEF Unlock, Return, disks
    <3>2. Answer' = [Answer EXCEPT ![c] = 0]
      BY <3>1 DEF Answer, TypeOK, CallsOK
    <3>3. R!Consume(c)
      BY <2>1, <3>1, <3>2 DEF R!Consume
    <3>4. QED
      BY <3>3, CellAssumption DEF R!Next
  <2>6. ASSUME NEW c \in Clients, Broadcast(c) PROVE UNCHANGED <<Contents, Answer>>
    <3>1. PICK s \in Servers : /\ NextReplica(c, s)
                               /\ \/ UNCHANGED data
                                  \/ data' = [data EXCEPT ![s][at[c]] = val[c]]
      BY <2>6 DEF Broadcast
    <3>2. s # 1 /\ pc[c] = "bcast"
      BY <2>6, <3>1 DEF Broadcast, NextReplica, Calm
    <3>3. data'[1] = data[1]
      BY <3>1, <3>2, OneTwo DEF TypeOK, DisksOK
    <3>4. UNCHANGED <<op, val>> /\ \A d \in Clients : pc'[d] = "unlock" <=> pc[d] = "unlock"
      BY <2>6, <3>2 DEF Broadcast, TypeOK, CallsOK
    <3>5. QED
      BY <2>1, <3>3, <3>4 DEF Answer
  <2>7. ASSUME NEW c \in Clients, LogVersion(c) PROVE UNCHANGED <<Contents, Answer>>
    <3>1. pc[c] = "bcast" /\ op[c] # "read" /\ UNCHANGED <<data, op, val>>
      BY <2>7 DEF LogVersion, locals, Calm
    <3>2. \A d \in Clients : op[d] = "read" => (pc'[d] = "unlock" <=> pc[d] = "unlock")
      BY <2>7, <3>1 DEF LogVersion, TypeOK, CallsOK
    <3>3. QED
      BY <2>1, <3>1, <3>2 DEF Answer
  <2>8. ASSUME NEW c \in Clients,
               Locate(c) \/ Lock(c) \/ Report(c) \/ ReplicaReport(c)
        PROVE  UNCHANGED <<Contents, Answer>>
    <3>1. UNCHANGED data
      BY <2>8 DEF Locate, Lock, Report, ReplicaReport, disks
    <3>2. /\ UNCHANGED <<op, val>>
          /\ \A d \in Clients : pc'[d] = "unlock" <=> pc[d] = "unlock"
      <4>1. CASE Locate(c)
        <5>1. fmap = "chunk" /\ {locs[1], locs[2]} \cap alive # {}
          BY OneTwo DEF Calm
        <5>2. QED
          BY <4>1, <5>1 DEF Locate, TypeOK, CallsOK
      <4>2. CASE Lock(c) \/ Report(c) \/ ReplicaReport(c)
        BY <4>2 DEF Lock, Report, ReplicaReport, locals, TypeOK, CallsOK
      <4>3. QED
        BY <2>8, <4>1, <4>2
    <3>3. QED
      BY <2>1, <3>1, <3>2 DEF Answer
  <2>9. ASSUME NEW c \in Clients, NEW o \in Ops, NEW cell \in Cells, Call(c, o, cell)
        PROVE  UNCHANGED <<Contents, Answer>>
    <3>1. /\ UNCHANGED <<data, val>> /\ pc[c] = "idle" /\ pc'[c] # "unlock"
          /\ \A d \in Clients : d # c => UNCHANGED <<pc[d], op[d]>>
      BY <2>9 DEF Call, disks, TypeOK, CallsOK
    <3>2. QED
      BY <2>1, <3>1 DEF Answer
  <2>10. ASSUME NEW c \in Clients,
                AddCall(c) \/ Add1(c) \/ Add2(c) \/ AddRecord(c) \/ DialPanic(c)
         PROVE  FALSE
    BY <2>10, OneTwo DEF AddCall, Add1, Add2, AddRecord, DialPanic, Calm
  <2>11. ASSUME NEW c \in Clients,
                DeleteBegin(c) \/ DeleteLock(c) \/ DeleteChunk(c) \/ DeleteUnlock(c) \/ Forget(c)
         PROVE  FALSE
    BY <2>11 DEF DeleteBegin, DeleteLock, DeleteChunk, DeleteUnlock, Forget, Calm
  <2>12. ASSUME NEW s \in Servers, Crash(s) \/ Restart(s) \/ Timeup(s) \/ AcceptHeartbeat(s)
         PROVE  FALSE
    BY <2>12 DEF Crash, Restart, Timeup, AcceptHeartbeat, Calm, Sunny, TypeOK, CountOK
  <2>13. late = {}
    BY DEF Calm
  <2>14. QED
    BY <2>2, <2>3, <2>4, <2>5, <2>6, <2>7, <2>8, <2>9, <2>10, <2>11, <2>12, <2>13
       DEF Next, Step
<1>3. QED
  BY <1>1, <1>2, TypeCorrect, CalmInvariant, PTL DEF Spec, AtomicSpec, R!Spec
=============================================================================
