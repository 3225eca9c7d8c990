------------------------- MODULE MasterGroupProofs -------------------------
(***************************************************************************)
(* Proofs about the group of masters for any number of masters, callers,   *)
(* files and calls, and any kills, session expiries and restarts.          *)
(***************************************************************************)
EXTENDS MasterGroup, FiniteSetTheorems, TLAPS

-----------------------------------------------------------------------------
(* Entries                                                                 *)

\* An entry of a log that recover() cannot replay is Broken and nothing else.
Readable(e) == e \in Entries /\ (e.place = -2 => e = Broken)

\* An entry of a table was put there by a handler or by a log that was read.
Proper(e) == e \in Entries /\ e.place # -2

LEMMA Constants ==
  /\ NoFile \in Entries /\ Empty \in Entries /\ Broken \in Entries
  /\ Proper(NoFile) /\ Proper(Empty) /\ Readable(NoFile) /\ Readable(Broken)
  BY BoundAssumption DEF NoFile, Empty, Broken, Entries, Garbled, Proper, Readable

\* The handlers make proper entries of proper ones.
LEMMA ApplyProper ==
  ASSUME NEW o \in Ops, NEW e \in Entries, NEW n \in {Garbled} \cup 0..MaxCalls,
         n = Garbled => o = "add"
  PROVE  Apply(o, e, n) \in Entries /\ (Proper(e) => Proper(Apply(o, e, n)))
<1> USE OpsAssumption, BoundAssumption
<1>1. n # Garbled => n \in 0..MaxCalls
  OBVIOUS
<1>2. CASE o = "create"
  BY <1>1, <1>2 DEF Apply, Empty, Entries, Garbled, Proper
<1>3. CASE o = "add"
  BY <1>3 DEF Apply, Entries, Proper
<1>4. CASE o = "update"
  <2>1. n \in 0..MaxCalls
    BY <1>1, <1>4
  <2> DEFINE b == IF e = NoFile THEN Empty ELSE e
  <2>2. b \in Entries /\ (Proper(e) => Proper(b))
    BY Constants
  <2>3. Apply(o, e, n) = [b EXCEPT !.ver = n]
    BY <1>4 DEF Apply
  <2> HIDE DEF b
  <2>4. QED
    BY <2>1, <2>2, <2>3 DEF Entries, Proper
<1>5. CASE o = "delete"
  BY <1>5, Constants DEF Apply
<1>6. QED
  BY <1>2, <1>3, <1>4, <1>5

\* And so does recover(), until it meets a chunk added to no file.
LEMMA ReplayReadable ==
  ASSUME NEW o \in Ops, NEW e, Readable(e), NEW n \in 0..MaxCalls
  PROVE  Readable(Replay(o, e, n))
<1> USE OpsAssumption, BoundAssumption
<1>1. CASE e = Broken \/ (o = "add" /\ e = NoFile)
  BY <1>1, Constants DEF Replay
<1>2. CASE ~(e = Broken \/ (o = "add" /\ e = NoFile))
  <2> DEFINE g == IF o = "add" THEN Garbled ELSE n
  <2>1. Proper(e) /\ e \in Entries
    BY <1>2 DEF Readable, Proper
  <2>2. g \in {Garbled} \cup 0..MaxCalls /\ (g = Garbled => o = "add")
    BY DEF Garbled
  <2>3. Replay(o, e, n) = Apply(o, e, g)
    BY <1>2 DEF Replay
  <2> HIDE DEF g
  <2>4. Proper(Apply(o, e, g))
    BY <2>1, <2>2, ApplyProper
  <2>5. QED
    BY <2>3, <2>4 DEF Proper, Readable
<1>3. QED
  BY <1>1, <1>2

-----------------------------------------------------------------------------
(* Types                                                                   *)

ElectOK ==
  /\ znode \in Masters \cup {Nobody} /\ left \subseteq Masters \cap {znode}
  /\ elect \in [Masters -> {"exists", "add", "existw", "watch", "won", "lead",
                             "down"}]
  /\ open \subseteq Up /\ isLeader \subseteq open

TablesOK ==
  /\ table \in [Masters -> [Files -> Entries]]
  /\ disk \in [Masters -> [Files -> Entries]]
  /\ \A m \in Masters, f \in Files : Proper(table[m][f]) /\ Readable(disk[m][f])

\* What a call is being done to is known from the moment it is made, and the
\* master that serves it from the moment it is dialled.
CallsOK ==
  /\ pc \in [Callers -> {"idle", "dial", "broken"} \cup Served]
  /\ op \in [Callers -> Ops \cup {"none"}] /\ name \in [Callers -> Files]
  /\ id \in [Callers -> 0..MaxCalls]
  /\ at \in [Callers -> Masters \cup {Nobody}]
  /\ to \in [Callers -> 0..(NumMasters + 1)]
  /\ cache \in [Callers -> Masters \cup {Nobody}]
  /\ \A c \in Callers :
       /\ pc[c] # "idle" => op[c] \in Ops
       /\ pc[c] \in Served => at[c] \in Masters
       /\ pc[c] = "pass" => to[c] \in Masters

CountOK ==
  /\ answered \in [Files -> Entries]
  /\ fuzzy \subseteq Files /\ restarted \subseteq Masters
  /\ calls \in 0..MaxCalls /\ kills \in 0..MaxFaults
  /\ expiries \in 0..MaxFaults /\ losses \in 0..MaxLost

\* The inductive invariant of the types.
Typed == ElectOK /\ TablesOK /\ CallsOK /\ CountOK

\* Nobody is not a master.
LEMMA MasterFacts ==
  Nobody \notin Masters /\ \A m \in Masters : m + 1 \in 0..(NumMasters + 1)
  BY MasterAssumption DEF Masters, Nobody

LEMMA DieElect ==
  ASSUME ElectOK, NEW m, Die(m), UNCHANGED znode
  PROVE  ElectOK'
  BY DEF ElectOK, Die, Up, Owns

LEMMA ElectStep ==
  ASSUME Typed, [Next]_vars
  PROVE  ElectOK'
<1> USE DEF Typed
<1>1. ASSUME NEW m \in Masters, Elect(m) PROVE ElectOK'
  <2>1. CASE ElectExists(m)
    BY <2>1 DEF ElectExists, ElectOK, Up, masters
  <2>2. CASE ElectAdd(m)
    BY <2>2, MasterFacts DEF ElectAdd, ElectOK, Up, masters
  <2>3. CASE ElectWatch(m)
    BY <2>3 DEF ElectWatch, ElectOK, Up
  <2>4. CASE Lead(m)
    BY <2>4 DEF Lead, ElectOK, Up
  <2>5. QED
    BY <1>1, <2>1, <2>2, <2>3, <2>4 DEF Elect
<1>10. ASSUME NEW m \in Masters, ElectAddError(m) PROVE ElectOK'
  BY <1>10, MasterFacts DEF ElectAddError, ElectOK, Up, masters
<1>2. ASSUME NEW m \in Masters, Expire(m) PROVE ElectOK'
  BY <1>2 DEF Expire, Owns, Unwatched, ElectOK, Up, masters
<1>3. ASSUME NEW m \in Masters, Kill(m) PROVE ElectOK'
  BY <1>3, DieElect DEF Kill
<1>4. ASSUME NEW m \in Masters, Restart(m) PROVE ElectOK'
  BY <1>4 DEF Restart, ElectOK, Up
<1>5. CASE SessionEnd
  BY <1>5 DEF SessionEnd, Unwatched, ElectOK, Up, masters
<1>6. ASSUME NEW c \in Callers, Serve(c) PROVE ElectOK'
  <2>1. CASE ApplyCall(c)
    BY <2>1, DieElect DEF ApplyCall, ElectOK, Up
  <2>2. CASE Broadcast(c)
    BY <2>2, DieElect DEF Broadcast, ElectOK, Up
  <2>3. CASE UNCHANGED <<znode, left, elect, open, isLeader>>
    BY <2>3 DEF ElectOK, Up
  <2>4. QED
    BY <1>6, <2>1, <2>2, <2>3
       DEF Serve, Dial, Check, Pass, Answer, BrokenOff, zk, masters
<1>7. ASSUME NEW c \in Callers, NEW o, NEW f, Call(c, o, f) PROVE ElectOK'
  BY <1>7 DEF Call, ElectOK, Up, zk, masters
<1>8. CASE UNCHANGED vars
  BY <1>8 DEF vars, ElectOK, Up, zk, masters
<1>9. QED
  BY <1>1, <1>2, <1>3, <1>4, <1>5, <1>6, <1>7, <1>8, <1>10 DEF Next

\* One entry of the tables or of the logs is changed.
LEMMA TablesSet ==
  ASSUME TablesOK, NEW m \in Masters, NEW f \in Files, NEW e, NEW d,
         table' = table \/ (Proper(e) /\ table' = [table EXCEPT ![m][f] = e]),
         disk' = disk \/ (Readable(d) /\ disk' = [disk EXCEPT ![m][f] = d])
  PROVE  TablesOK'
<1>1. Proper(e) => e \in Entries
  BY DEF Proper
<1>2. Readable(d) => d \in Entries
  BY DEF Readable
<1>3. /\ table' \in [Masters -> [Files -> Entries]]
      /\ \A l \in Masters, g \in Files : Proper(table'[l][g])
  <2>1. CASE table' = table
    BY <2>1 DEF TablesOK
  <2>2. CASE Proper(e) /\ table' = [table EXCEPT ![m][f] = e]
    <3>1. table' = [table EXCEPT ![m] = [table[m] EXCEPT ![f] = e]]
      BY <2>2
    <3>2. [table[m] EXCEPT ![f] = e] \in [Files -> Entries]
      BY <1>1, <2>2 DEF TablesOK
    <3>3. table' \in [Masters -> [Files -> Entries]]
      BY <3>1, <3>2 DEF TablesOK
    <3>4. ASSUME NEW l \in Masters, NEW g \in Files PROVE Proper(table'[l][g])
      BY <2>2, <3>1 DEF TablesOK
    <3>5. QED
      BY <3>3, <3>4
  <2>3. QED
    BY <2>1, <2>2
<1>4. /\ disk' \in [Masters -> [Files -> Entries]]
      /\ \A l \in Masters, g \in Files : Readable(disk'[l][g])
  <2>1. CASE disk' = disk
    BY <2>1 DEF TablesOK
  <2>2. CASE Readable(d) /\ disk' = [disk EXCEPT ![m][f] = d]
    <3>1. disk' = [disk EXCEPT ![m] = [disk[m] EXCEPT ![f] = d]]
      BY <2>2
    <3>2. [disk[m] EXCEPT ![f] = d] \in [Files -> Entries]
      BY <1>2, <2>2 DEF TablesOK
    <3>3. disk' \in [Masters -> [Files -> Entries]]
      BY <3>1, <3>2 DEF TablesOK
    <3>4. ASSUME NEW l \in Masters, NEW g \in Files PROVE Readable(disk'[l][g])
      BY <2>2, <3>1 DEF TablesOK
    <3>5. QED
      BY <3>3, <3>4
  <2>3. QED
    BY <2>1, <2>2
<1>5. QED
  BY <1>3, <1>4 DEF TablesOK

\* What the handlers of master m make of an entry.
LEMMA Entry ==
  ASSUME Typed, NEW c \in Callers, pc[c] \in Served, NEW m \in Masters
  PROVE  /\ Proper(Apply(op[c], table[m][name[c]], id[c]))
         /\ Readable(Replay(op[c], disk[m][name[c]], id[c]))
         /\ name[c] \in Files /\ op[c] \in Ops
<1>1. name[c] \in Files /\ op[c] \in Ops /\ id[c] \in 0..MaxCalls /\ id[c] # Garbled
  BY BoundAssumption DEF Typed, CallsOK, Served, Garbled
<1>2. Proper(table[m][name[c]]) /\ Readable(disk[m][name[c]])
      /\ table[m][name[c]] \in Entries
  BY <1>1 DEF Typed, TablesOK
<1>3. Proper(Apply(op[c], table[m][name[c]], id[c]))
  BY <1>1, <1>2, ApplyProper
<1>4. Readable(Replay(op[c], disk[m][name[c]], id[c]))
  BY <1>1, <1>2, ReplayReadable
<1>5. QED
  BY <1>1, <1>3, <1>4

LEMMA TablesStep ==
  ASSUME Typed, [Next]_vars
  PROVE  TablesOK'
<1>0. ElectOK /\ TablesOK /\ CallsOK
  BY DEF Typed
<1>1. CASE UNCHANGED <<table, disk>>
  BY <1>0, <1>1 DEF TablesOK
<1>2. ASSUME NEW m \in Masters, Restart(m) PROVE TablesOK'
  <2>1. table' = [table EXCEPT ![m] = disk[m]] /\ disk' = disk
        /\ \A f \in Files : disk[m][f] # Broken
    BY <1>2 DEF Restart
  <2>2. \A f \in Files : Proper(disk[m][f])
    BY <1>0, <2>1 DEF TablesOK, Readable, Proper
  <2>3. QED
    BY <1>0, <2>1, <2>2 DEF TablesOK
<1>3. ASSUME NEW c \in Callers, Check(c) \/ ApplyCall(c) PROVE TablesOK'
  <2>1. pc[c] \in Served /\ at[c] \in Masters
    BY <1>0, <1>3 DEF Check, ApplyCall, CallsOK, Served
  <2> DEFINE e == Apply(op[c], table[at[c]][name[c]], id[c])
             d == Replay(op[c], disk[at[c]][name[c]], id[c])
  <2>2. Proper(e) /\ Readable(d) /\ name[c] \in Files
    BY <2>1, Entry
  <2>3. table' = table \/ table' = [table EXCEPT ![at[c]][name[c]] = e]
    BY <1>3 DEF Check, ApplyCall, Changed, Set
  <2>4. disk' = disk \/ disk' = [disk EXCEPT ![at[c]][name[c]] = d]
    BY <1>3 DEF Check, ApplyCall, Logged, Set
  <2> HIDE DEF e, d
  <2>5. QED
    BY <1>0, <2>1, <2>2, <2>3, <2>4, TablesSet
<1>4. ASSUME NEW c \in Callers, Pass(c) PROVE TablesOK'
  <2>1. pc[c] \in Served /\ to[c] \in Masters
    BY <1>0, <1>4 DEF Pass, CallsOK, Served
  <2> DEFINE e == Apply(op[c], table[to[c]][name[c]], id[c])
             d == Replay(op[c], disk[to[c]][name[c]], id[c])
  <2>2. Proper(e) /\ Readable(d) /\ name[c] \in Files
    BY <2>1, Entry
  <2>3. /\ table' = table \/ table' = [table EXCEPT ![to[c]][name[c]] = e]
        /\ disk' = disk \/ disk' = [disk EXCEPT ![to[c]][name[c]] = d]
    BY <1>4 DEF Pass
  <2> HIDE DEF e, d
  <2>4. QED
    BY <1>0, <2>1, <2>2, <2>3, TablesSet
<1>5. QED
  BY <1>1, <1>2, <1>3, <1>4
     DEF Next, vars, masters, Elect, ElectExists, ElectAdd, ElectAddError, ElectWatch, Lead,
         Expire, Kill, SessionEnd, Serve, Dial, Broadcast, Answer, BrokenOff, Call

LEMMA DieCalls ==
  ASSUME CallsOK, NEW m, Die(m), UNCHANGED <<op, name, id, at, to, cache>>
  PROVE  CallsOK'
  BY DEF CallsOK, Die, Served

LEMMA ReturnCalls ==
  ASSUME CallsOK, NEW c \in Callers, Return(c)
  PROVE  CallsOK'
  BY MasterAssumption, BoundAssumption DEF CallsOK, Return, Goto, Served

LEMMA CallsStep ==
  ASSUME Typed, [Next]_vars
  PROVE  CallsOK'
<1> USE MasterAssumption, BoundAssumption
<1>0. ElectOK /\ CallsOK /\ CountOK
  BY DEF Typed
<1>1. CASE UNCHANGED <<pc, op, name, id, at, to, cache>>
  BY <1>0, <1>1 DEF CallsOK
<1>2. ASSUME NEW m \in Masters, Kill(m) PROVE CallsOK'
  BY <1>0, <1>2, DieCalls DEF Kill, locals
<1>3. ASSUME NEW c \in Callers, NEW o \in Ops, NEW f \in Files, Call(c, o, f)
      PROVE  CallsOK'
  <2>1. calls + 1 \in 0..MaxCalls
    BY <1>0, <1>3 DEF Call, CountOK
  <2>2. QED
    BY <1>0, <1>3, <2>1 DEF Call, Goto, CallsOK, Served
<1>4. ASSUME NEW c \in Callers, Dial(c) PROVE CallsOK'
  <2>1. Target(c) \in Masters
    BY <1>0, <1>4 DEF Dial, ElectOK, Up
  <2>2. QED
    BY <1>0, <1>4, <2>1 DEF Dial, Goto, CallsOK, Served
<1>5. ASSUME NEW c \in Callers, Check(c) PROVE CallsOK'
  <2>1. CASE Return(c)
    BY <1>0, <2>1, ReturnCalls
  <2>2. CASE ~Refused(c)
    <3>1. /\ pc[c] = "check" /\ to' = [to EXCEPT ![c] = 1]
          /\ UNCHANGED <<op, name, id, at, cache>>
          /\ \/ pc' = [pc EXCEPT ![c] = "bcast"]
             \/ pc' = [pc EXCEPT ![c] = "apply"]
      BY <1>5, <2>2 DEF Check, Goto
    <3>2. 1 \in 0..(NumMasters + 1)
      OBVIOUS
    <3>3. QED
      BY <1>0, <3>1, <3>2 DEF CallsOK, Served
  <2>3. QED
    BY <1>5, <2>1, <2>2 DEF Check
<1>6. ASSUME NEW c \in Callers, ApplyCall(c) PROVE CallsOK'
  <2>1. CASE Die(at[c])
    BY <1>0, <1>6, <2>1, DieCalls DEF ApplyCall, locals
  <2>2. CASE pc[c] = "apply" /\ Goto(c, "bcast")
    BY <1>0, <1>6, <2>2 DEF ApplyCall, Goto, CallsOK, Served, locals
  <2>3. QED
    BY <1>6, <2>1, <2>2 DEF ApplyCall
<1>7. ASSUME NEW c \in Callers, pc[c] \in {"bcast", "pass"}, to[c] \in Masters,
             Onward(c), UNCHANGED <<op, name, id, at, cache>>
      PROVE  CallsOK'
  <2>1. to[c] + 1 \in 0..(NumMasters + 1)
    BY <1>7, MasterFacts
  <2>2. QED
    BY <1>0, <1>7, <2>1 DEF Onward, Goto, CallsOK, Served
<1>8. ASSUME NEW c \in Callers, Broadcast(c) PROVE CallsOK'
  <2>1. CASE Die(at[c]) /\ UNCHANGED to
    BY <1>0, <1>8, <2>1, DieCalls DEF Broadcast
  <2>2. CASE Onward(c)
    BY <1>7, <1>8, <2>2 DEF Broadcast
  <2>3. CASE Goto(c, "pass") /\ UNCHANGED to
    BY <1>0, <1>8, <2>3 DEF Broadcast, Goto, CallsOK, Served
  <2>4. QED
    BY <1>8, <2>1, <2>2, <2>3 DEF Broadcast
<1>9. ASSUME NEW c \in Callers, Pass(c) PROVE CallsOK'
  BY <1>0, <1>7, <1>9 DEF Pass, CallsOK
<1>10. ASSUME NEW c \in Callers, Answer(c) \/ BrokenOff(c) PROVE CallsOK'
  BY <1>0, <1>10, ReturnCalls DEF Answer, BrokenOff
<1>11. QED
  BY <1>1, <1>2, <1>3, <1>4, <1>5, <1>6, <1>8, <1>9, <1>10
     DEF Next, vars, locals, Elect, ElectExists, ElectAdd, ElectAddError, ElectWatch, Lead,
         Expire, Restart, SessionEnd, Serve

LEMMA DieCount ==
  ASSUME CallsOK, CountOK, NEW m, Die(m)
  PROVE  fuzzy' \subseteq Files
  BY DEF CallsOK, CountOK, Die

LEMMA CountStep ==
  ASSUME Typed, [Next]_vars
  PROVE  CountOK'
<1> USE MasterAssumption, BoundAssumption
<1>0. CallsOK /\ CountOK
  BY DEF Typed
<1>1. CASE UNCHANGED ghosts
  BY <1>0, <1>1 DEF CountOK, ghosts
<1>10. ASSUME NEW m \in Masters, ElectAddError(m) PROVE CountOK'
  BY <1>0, <1>10 DEF ElectAddError, CountOK
<1>2. ASSUME NEW m \in Masters, Expire(m) PROVE CountOK'
  BY <1>0, <1>2 DEF Expire, CountOK
<1>3. ASSUME NEW m \in Masters, Kill(m) PROVE CountOK'
  <2>1. fuzzy' \subseteq Files
    BY <1>0, <1>3, DieCount DEF Kill
  <2>2. QED
    BY <1>0, <1>3, <2>1 DEF Kill, CountOK
<1>4. ASSUME NEW m \in Masters, Restart(m) PROVE CountOK'
  BY <1>0, <1>4 DEF Restart, CountOK
<1>5. ASSUME NEW c \in Callers, NEW o \in Ops, NEW f \in Files, Call(c, o, f)
      PROVE  CountOK'
  BY <1>0, <1>5 DEF Call, CountOK
<1>6. ASSUME NEW c \in Callers, ApplyCall(c) \/ Broadcast(c) PROVE CountOK'
  <2>1. UNCHANGED fuzzy \/ Die(at[c])
    BY <1>6 DEF ApplyCall, Broadcast
  <2>2. fuzzy' \subseteq Files
    BY <1>0, <2>1, DieCount DEF CountOK
  <2>3. QED
    BY <1>0, <1>6, <2>2 DEF ApplyCall, Broadcast, CountOK
<1>7. ASSUME NEW c \in Callers, Pass(c) PROVE CountOK'
  <2>1. name[c] \in Files
    BY <1>0 DEF CallsOK
  <2>2. QED
    BY <1>0, <1>7, <2>1 DEF Pass, CountOK
<1>8. ASSUME NEW c \in Callers, Answer(c) PROVE CountOK'
  <2>1. name[c] \in Files /\ op[c] \in Ops /\ id[c] \in 0..MaxCalls
        /\ id[c] # Garbled /\ answered[name[c]] \in Entries
    BY <1>0, <1>8 DEF Answer, CallsOK, CountOK, Garbled
  <2>2. Apply(op[c], answered[name[c]], id[c]) \in Entries
    BY <2>1, ApplyProper
  <2>3. QED
    BY <1>0, <1>8, <2>1, <2>2 DEF Answer, CountOK
<1>9. QED
  BY <1>1, <1>2, <1>3, <1>4, <1>5, <1>6, <1>7, <1>8, <1>10
     DEF Next, vars, Elect, ElectExists, ElectAdd, ElectWatch, Lead, SessionEnd, Serve,
         Dial, Check, BrokenOff

LEMMA TypedInvariant == Spec => []Typed
<1>1. Init => Typed
  <2> SUFFICES ASSUME Init PROVE Typed
    OBVIOUS
  <2> USE MasterAssumption, BoundAssumption DEF Init
  <2>1. ElectOK
    BY DEF ElectOK, Up
  <2>2. TablesOK
    BY Constants DEF TablesOK
  <2>3. CallsOK
    BY DEF CallsOK, Served
  <2>4. CountOK
    BY Constants DEF CountOK
  <2>5. QED
    BY <2>1, <2>2, <2>3, <2>4 DEF Typed
<1>2. Typed /\ [Next]_vars => Typed'
  BY ElectStep, TablesStep, CallsStep, CountStep DEF Typed
<1>3. QED
  BY <1>1, <1>2, PTL DEF Spec

\* Every state of the masters and their callers is well typed; in particular
\* no table ever gets an entry from a log that recover() cannot read.
THEOREM TypeCorrect == Spec => []TypeOK
<1>1. Typed => TypeOK
  <2> SUFFICES ASSUME Typed PROVE TypeOK
    OBVIOUS
  <2>1. table \in [Masters -> [Files -> Entries \ {Broken}]]
    BY DEF Typed, TablesOK, Proper, Broken
  <2>2. QED
    BY <2>1 DEF Typed, ElectOK, TablesOK, CallsOK, CountOK, TypeOK
<1>2. QED
  BY <1>1, TypedInvariant, PTL

-----------------------------------------------------------------------------
(* One leader                                                              *)

\* Who leads has won the election, and until a session expires the winner
\* owns "/master".
Elected ==
  /\ \A m \in isLeader : elect[m] = "lead"
  /\ expiries = 0 => \A m \in Masters : elect[m] \in {"won", "lead"} => Owns(m)

LEMMA DieElected ==
  ASSUME Typed, Elected, NEW m, Die(m), UNCHANGED <<znode, expiries>>
  PROVE  Elected'
  BY DEF Typed, ElectOK, Up, Elected, Die, Owns

LEMMA ElectedStep ==
  ASSUME Typed, Elected, [Next]_vars
  PROVE  Elected'
<1>0. ElectOK /\ CountOK
  BY DEF Typed
<1>1. CASE UNCHANGED <<znode, left, elect, isLeader, expiries>>
  BY <1>1 DEF Elected, Owns
<1>2. ASSUME NEW m \in Masters, Elect(m) PROVE Elected'
  <2>1. CASE ElectExists(m)
    BY <1>0, <2>1 DEF ElectExists, ElectOK, Up, Elected, Owns, masters, ghosts
  <2>2. CASE ElectAdd(m)
    BY <1>0, <2>2, MasterFacts DEF ElectAdd, ElectOK, Up, Elected, Owns, masters, ghosts
  <2>3. CASE ElectWatch(m)
    BY <1>0, <2>3 DEF ElectWatch, ElectOK, Up, Elected, Owns, ghosts
  <2>4. CASE Lead(m)
    BY <1>0, <2>4 DEF Lead, ElectOK, Up, Elected, Owns, ghosts
  <2>5. QED
    BY <1>2, <2>1, <2>2, <2>3, <2>4 DEF Elect
<1>9. ASSUME NEW m \in Masters, ElectAddError(m) PROVE Elected'
  BY <1>0, <1>9, MasterFacts
     DEF ElectAddError, ElectOK, Up, Elected, Owns, masters
<1>3. ASSUME NEW m \in Masters, Expire(m) PROVE Elected'
  <2>1. expiries' # 0
    BY <1>0, <1>3, BoundAssumption DEF Expire, CountOK
  <2>2. QED
    BY <1>0, <1>3, <2>1 DEF Expire, Owns, Unwatched, ElectOK, Up, Elected, masters
<1>4. ASSUME NEW m \in Masters, Kill(m) PROVE Elected'
  BY <1>4, DieElected DEF Kill
<1>5. ASSUME NEW m \in Masters, Restart(m) PROVE Elected'
  BY <1>0, <1>5 DEF Restart, ElectOK, Up, Elected, Owns
<1>6. CASE SessionEnd
  BY <1>0, <1>6 DEF SessionEnd, Owns, Unwatched, ElectOK, Up, Elected, masters, ghosts
<1>7. ASSUME NEW c \in Callers, ApplyCall(c) \/ Broadcast(c) PROVE Elected'
  BY <1>1, <1>7, DieElected DEF ApplyCall, Broadcast
<1>8. QED
  BY <1>1, <1>2, <1>3, <1>4, <1>5, <1>6, <1>7, <1>9
     DEF Next, vars, zk, masters, ghosts, Serve, Dial, Check, Pass, Answer, BrokenOff,
         Call

\* Until a session expires at most one master takes itself for the leader:
\* lockmaster() lets a second one in only when the znode is gone, and main
\* never sets isLeader before its own add() has succeeded.
THEOREM OneLeaderHolds == Spec => []OneLeader
<1>1. Init => Elected
  BY DEF Init, Elected, Owns
<1>2. Typed /\ Elected => OneLeader
  <2> SUFFICES ASSUME Typed, Elected, expiries = 0
               PROVE  Cardinality(isLeader) <= 1
    BY DEF OneLeader
  <2>1. isLeader = {} \/ isLeader = {znode}
    BY DEF Typed, ElectOK, Up, Elected, Owns
  <2>2. Cardinality({}) = 0 /\ Cardinality({znode}) = 1
    BY FS_EmptySet, FS_Singleton
  <2>3. QED
    BY <2>1, <2>2
<1>3. QED
  BY <1>1, <1>2, TypedInvariant, ElectedStep, PTL DEF Spec

-----------------------------------------------------------------------------
(* What was answered is kept                                               *)

\* Entries that recover() and the handlers tell from no file by their place.
Shaped(e) == e.place = -1 => e = NoFile
Sound(e) == e.place # -2 /\ Shaped(e)

\* Entries that agree in what a log keeps of a file.
Alike(e, g) == e.place = g.place /\ e.ver = g.ver

\* The entries of every table and of every log.
Shapes == \A m \in Masters, f \in Files : Shaped(table[m][f]) /\ Shaped(disk[m][f])

\* A call that has passed its checks and changes its file.
Active(c) == pc[c] \in {"apply", "bcast", "pass"}

\* Where calls are served: by masters that listen, past the checks by leaders,
\* and a call that broke off has left its file fuzzy.
Serving ==
  /\ \A m \in Up \ restarted : m \in open
  /\ \A c \in Callers :
       /\ pc[c] \in Served => at[c] \in open
       /\ Active(c) => at[c] \in isLeader /\ to[c] >= 1
       /\ pc[c] = "apply" => to[c] = 1
       /\ pc[c] = "pass" => to[c] # at[c]
       /\ pc[c] = "broken" => name[c] \in fuzzy

\* One call at a time.
Alone(f) == \A c, d \in Callers :
  pc[c] # "idle" /\ pc[d] # "idle" /\ name[c] = f /\ name[d] = f => c = d

\* The call has reached the table, or the log, of master m.
Reached(c, m) == pc[c] \in {"bcast", "pass"} /\ (m = at[c] \/ m < to[c])
Noted(c, m) == Reached(c, m) \/ (pc[c] = "apply" /\ op[c] = "delete" /\ m = at[c])

\* The entry the call will have left when it is answered.
Outcome(c) == Apply(op[c], answered[name[c]], id[c])

\* Master m has entry e: a restarted one may lack the added chunk.
HasEntry(m, f, e) ==
  IF m \in restarted THEN Alike(table[m][f], e) ELSE table[m][f] = e

\* The file as every table and every log has it: the call being served has
\* reached the masters before the one it is passed on to and no other.
Kept(f) ==
  /\ Sound(answered[f])
  /\ \A c \in Callers : Active(c) /\ name[c] = f =>
       /\ op[c] = "create" => answered[f] = NoFile
       /\ op[c] = "add" => answered[f] # NoFile
  /\ \A m \in Masters :
       /\ \A c \in Callers : name[c] = f /\ Reached(c, m) /\ m \in Up =>
            HasEntry(m, f, Outcome(c))
       /\ \A c \in Callers : name[c] = f /\ Noted(c, m) =>
            Alike(disk[m][f], Outcome(c))
       /\ (\A c \in Callers : name[c] = f => ~Reached(c, m)) /\ m \in Up =>
            HasEntry(m, f, answered[f])
       /\ (\A c \in Callers : name[c] = f => ~Noted(c, m)) =>
            Alike(disk[m][f], answered[f])

KeptInv ==
  /\ Shapes /\ Serving
  /\ \A f \in Files \ fuzzy : Alone(f) /\ (expiries = 0 => Kept(f))

\* What an added chunk, an update and a creation do to the kept part of an entry.
LEMMA ApplyFields ==
  ASSUME NEW e \in Entries, NEW n
  PROVE  /\ Apply("create", e, n).place = n /\ Apply("create", e, n).ver = 0
         /\ Apply("add", e, n).place = e.place /\ Apply("add", e, n).ver = e.ver
         /\ Apply("update", e, n).ver = n
         /\ e = NoFile => Apply("update", e, n).place = 0
         /\ e # NoFile => Apply("update", e, n).place = e.place
         /\ Apply("delete", e, n) = NoFile
  BY DEF Apply, Empty, NoFile, Entries

LEMMA ApplyAlike ==
  ASSUME NEW o \in Ops, NEW e \in Entries, NEW g \in Entries, NEW n,
         Alike(e, g), Shaped(e), Shaped(g)
  PROVE  Alike(Apply(o, e, n), Apply(o, g, n))
<1>1. e = NoFile <=> g = NoFile
  BY DEF Alike, Shaped, NoFile
<1>2. o \in {"create", "add", "update", "delete"}
  BY OpsAssumption
<1>3. QED
  BY <1>1, <1>2, ApplyFields DEF Alike

LEMMA ApplyShaped ==
  ASSUME NEW o \in Ops, NEW e \in Entries, NEW n \in Int, n # -1 \/ o = "add",
         Shaped(e), o = "add" => e # NoFile
  PROVE  Shaped(Apply(o, e, n))
<1>2. o \in {"create", "add", "update", "delete"}
  BY OpsAssumption
<1>3. CASE o = "add"
  BY <1>3, ApplyFields DEF Shaped
<1>4. CASE o = "delete"
  BY <1>4, ApplyFields DEF Shaped
<1>5. CASE o \in {"create", "update"}
  BY <1>5, ApplyFields DEF Shaped
<1>6. QED
  BY <1>2, <1>3, <1>4, <1>5

LEMMA ReplayShaped ==
  ASSUME NEW o \in Ops, NEW e \in Entries, NEW n \in 0..MaxCalls, Shaped(e)
  PROVE  Shaped(Replay(o, e, n))
<1>1. CASE e = Broken \/ (o = "add" /\ e = NoFile)
  BY <1>1 DEF Replay, Shaped, Broken
<1>2. CASE ~(e = Broken \/ (o = "add" /\ e = NoFile))
  <2> DEFINE g == IF o = "add" THEN Garbled ELSE n
  <2>1. g \in Int /\ (g # -1 \/ o = "add")
    BY BoundAssumption DEF Garbled
  <2>2. Replay(o, e, n) = Apply(o, e, g)
    BY <1>2 DEF Replay
  <2> HIDE DEF g
  <2>3. QED
    BY <1>2, <2>1, <2>2, ApplyShaped
<1>3. QED
  BY <1>1, <1>2

\* recover() makes of a log what the handlers made of the table, but for the
\* added chunk.
LEMMA ReplayAlike ==
  ASSUME NEW o \in Ops, NEW e \in Entries, NEW g \in Entries, NEW n,
         Alike(e, g), Shaped(e), Sound(g), o = "add" => g # NoFile
  PROVE  Alike(Replay(o, e, n), Apply(o, g, n))
<1>1. e # Broken /\ (e = NoFile <=> g = NoFile)
  BY DEF Alike, Shaped, Sound, NoFile, Broken
<1>2. Replay(o, e, n) = Apply(o, e, IF o = "add" THEN Garbled ELSE n)
  BY <1>1 DEF Replay
<1>3. CASE o = "add"
  BY <1>2, <1>3, ApplyFields DEF Alike
<1>4. CASE o # "add"
  BY <1>2, <1>4, ApplyAlike DEF Sound
<1>5. QED
  BY <1>3, <1>4

LEMMA ApplySound ==
  ASSUME NEW o \in Ops, NEW e \in Entries, NEW n \in 0..MaxCalls, Sound(e),
         o = "add" => e # NoFile
  PROVE  Sound(Apply(o, e, n))
<1>1. n \in Int /\ n # -1 /\ n # -2
  BY BoundAssumption
<1>2. Shaped(Apply(o, e, n))
  BY <1>1, ApplyShaped DEF Sound
<1>3. o \in {"create", "add", "update", "delete"}
  BY OpsAssumption
<1>4. Apply(o, e, n).place # -2
  BY <1>1, <1>3, ApplyFields DEF Sound, NoFile
<1>5. QED
  BY <1>2, <1>4 DEF Sound

LEMMA ServedFacts ==
  ASSUME Typed, NEW c \in Callers, pc[c] \in Served
  PROVE  /\ name[c] \in Files /\ op[c] \in Ops /\ at[c] \in Masters
         /\ id[c] \in 0..MaxCalls /\ id[c] \in Int /\ id[c] # -1
         /\ pc[c] # "idle"
  BY BoundAssumption DEF Typed, CallsOK, Served

\* The entries of master m and file f.
LEMMA EntryFacts ==
  ASSUME Typed, NEW m \in Masters, NEW f \in Files
  PROVE  /\ table[m][f] \in Entries /\ disk[m][f] \in Entries
         /\ answered[f] \in Entries /\ table[m][f].place # -2
  BY DEF Typed, TablesOK, CountOK, Proper

\* One entry of a table and of a log.
LEMMA PutTable ==
  ASSUME Typed, NEW m \in Masters, NEW f \in Files, NEW e
  PROVE  \A l \in Masters, g \in Files :
           [table EXCEPT ![m][f] = e][l][g] =
             IF l = m /\ g = f THEN e ELSE table[l][g]
<1>1. table \in [Masters -> [Files -> Entries]]
  BY DEF Typed, TablesOK
<1>2. [table EXCEPT ![m][f] = e] = [table EXCEPT ![m] = [table[m] EXCEPT ![f] = e]]
  OBVIOUS
<1>3. table[m] \in [Files -> Entries]
  BY <1>1
<1>4. QED
  BY <1>1, <1>2, <1>3

LEMMA PutDisk ==
  ASSUME Typed, NEW m \in Masters, NEW f \in Files, NEW e
  PROVE  \A l \in Masters, g \in Files :
           [disk EXCEPT ![m][f] = e][l][g] =
             IF l = m /\ g = f THEN e ELSE disk[l][g]
<1>1. disk \in [Masters -> [Files -> Entries]]
  BY DEF Typed, TablesOK
<1>2. [disk EXCEPT ![m][f] = e] = [disk EXCEPT ![m] = [disk[m] EXCEPT ![f] = e]]
  OBVIOUS
<1>3. disk[m] \in [Files -> Entries]
  BY <1>1
<1>4. QED
  BY <1>1, <1>2, <1>3

\* What call c makes of master m's entry, in the table and in the log.
TableSet(c, m) ==
  \A l \in Masters, g \in Files :
    table'[l][g] = IF l = m /\ g = name[c] THEN Apply(op[c], table[m][name[c]], id[c])
                   ELSE table[l][g]
DiskSet(c, m) ==
  \A l \in Masters, g \in Files :
    disk'[l][g] = IF l = m /\ g = name[c] THEN Replay(op[c], disk[m][name[c]], id[c])
                  ELSE disk[l][g]

\* The handlers of master m set its entry and log it.
LEMMA HandlerSets ==
  ASSUME Typed, NEW c \in Callers, pc[c] \in Served, NEW m \in Masters
  PROVE  /\ table' = [table EXCEPT ![m][name[c]] =
                       Apply(op[c], table[m][name[c]], id[c])] => TableSet(c, m)
         /\ disk' = [disk EXCEPT ![m][name[c]] =
                       Replay(op[c], disk[m][name[c]], id[c])] => DiskSet(c, m)
<1> DEFINE e == Apply(op[c], table[m][name[c]], id[c])
           d == Replay(op[c], disk[m][name[c]], id[c])
<1>1. name[c] \in Files
  BY ServedFacts
<1>2. ASSUME table' = [table EXCEPT ![m][name[c]] = e] PROVE TableSet(c, m)
  <2>1. SUFFICES ASSUME NEW l \in Masters, NEW g \in Files
                 PROVE  table'[l][g] = IF l = m /\ g = name[c] THEN e ELSE table[l][g]
    BY DEF TableSet
  <2> HIDE DEF e, d
  <2>2. [table EXCEPT ![m][name[c]] = e][l][g] =
          IF l = m /\ g = name[c] THEN e ELSE table[l][g]
    BY <1>1, PutTable
  <2>3. QED
    BY <1>2, <2>2
<1>3. ASSUME disk' = [disk EXCEPT ![m][name[c]] = d] PROVE DiskSet(c, m)
  <2>1. SUFFICES ASSUME NEW l \in Masters, NEW g \in Files
                 PROVE  disk'[l][g] = IF l = m /\ g = name[c] THEN d ELSE disk[l][g]
    BY DEF DiskSet
  <2> HIDE DEF e, d
  <2>2. [disk EXCEPT ![m][name[c]] = d][l][g] =
          IF l = m /\ g = name[c] THEN d ELSE disk[l][g]
    BY <1>1, PutDisk
  <2>3. QED
    BY <1>3, <2>2
<1>4. QED
  BY <1>2, <1>3

LEMMA CheckEffect ==
  ASSUME Typed, NEW c \in Callers, Check(c), ~Refused(c)
  PROVE  /\ IF op[c] = "update" THEN TableSet(c, at[c]) ELSE table' = table
         /\ IF op[c] \in {"update", "delete"} THEN DiskSet(c, at[c]) ELSE disk' = disk
<1>1. pc[c] \in Served /\ at[c] \in Masters
  BY ServedFacts DEF Check, Served
<1>2. /\ table' = IF op[c] = "update"
                  THEN [table EXCEPT ![at[c]][name[c]] =
                          Apply(op[c], table[at[c]][name[c]], id[c])]
                  ELSE table
      /\ disk' = IF op[c] \in {"update", "delete"}
                 THEN [disk EXCEPT ![at[c]][name[c]] =
                         Replay(op[c], disk[at[c]][name[c]], id[c])]
                 ELSE disk
  BY DEF Check, Changed, Logged, Set
<1>3. QED
  BY <1>1, <1>2, HandlerSets

LEMMA ApplyEffect ==
  ASSUME Typed, NEW c \in Callers, ApplyCall(c),
         ~(op[c] = "add" /\ table[at[c]][name[c]] = NoFile)
  PROVE  /\ TableSet(c, at[c])
         /\ IF op[c] = "delete" THEN disk' = disk ELSE DiskSet(c, at[c])
<1>1. pc[c] \in Served /\ at[c] \in Masters
  BY ServedFacts DEF ApplyCall, Served
<1>2. /\ table' = [table EXCEPT ![at[c]][name[c]] =
                     Apply(op[c], table[at[c]][name[c]], id[c])]
      /\ disk' = IF op[c] = "delete" THEN disk
                 ELSE [disk EXCEPT ![at[c]][name[c]] =
                         Replay(op[c], disk[at[c]][name[c]], id[c])]
  BY DEF ApplyCall, Changed, Logged, Set
<1>3. QED
  BY <1>1, <1>2, HandlerSets

LEMMA PassEffect ==
  ASSUME Typed, NEW c \in Callers, Pass(c), to[c] \in open, Accepts(to[c], c)
  PROVE  TableSet(c, to[c]) /\ DiskSet(c, to[c]) /\ fuzzy' = fuzzy
<1>1. pc[c] \in Served /\ to[c] \in Masters
  BY DEF Pass, Served, Typed, CallsOK
<1>2. /\ table' = [table EXCEPT ![to[c]][name[c]] =
                     Apply(op[c], table[to[c]][name[c]], id[c])]
      /\ disk' = [disk EXCEPT ![to[c]][name[c]] =
                    Replay(op[c], disk[to[c]][name[c]], id[c])]
      /\ fuzzy' = fuzzy
  BY DEF Pass
<1>3. QED
  BY <1>1, <1>2, HandlerSets

\* A handler keeps the shapes of the entries it changes.
LEMMA ShapesSet ==
  ASSUME Typed, Shapes, NEW c \in Callers, pc[c] \in Served, NEW m \in Masters,
         TableSet(c, m) \/ table' = table, DiskSet(c, m) \/ disk' = disk,
         TableSet(c, m) => (op[c] = "add" => table[m][name[c]] # NoFile)
  PROVE  Shapes'
<1>1. name[c] \in Files /\ op[c] \in Ops /\ id[c] \in 0..MaxCalls /\ id[c] \in Int
      /\ id[c] # -1
  BY ServedFacts
<1>2. table[m][name[c]] \in Entries /\ disk[m][name[c]] \in Entries
      /\ Shaped(table[m][name[c]]) /\ Shaped(disk[m][name[c]])
  BY <1>1, EntryFacts DEF Shapes
<1>3. Shaped(Replay(op[c], disk[m][name[c]], id[c]))
  BY <1>1, <1>2, ReplayShaped
<1>4. (op[c] = "add" => table[m][name[c]] # NoFile) =>
        Shaped(Apply(op[c], table[m][name[c]], id[c]))
  BY <1>1, <1>2, ApplyShaped
<1>5. ASSUME NEW l \in Masters, NEW g \in Files PROVE Shaped(table'[l][g])
  <2>1. CASE table' = table
    BY <2>1 DEF Shapes
  <2>2. CASE TableSet(c, m)
    BY <1>4, <2>2 DEF Shapes, TableSet
  <2>3. QED
    BY <2>1, <2>2
<1>6. ASSUME NEW l \in Masters, NEW g \in Files PROVE Shaped(disk'[l][g])
  <2>1. CASE disk' = disk
    BY <2>1 DEF Shapes
  <2>2. CASE DiskSet(c, m)
    BY <1>3, <2>2 DEF Shapes, DiskSet
  <2>3. QED
    BY <2>1, <2>2
<1>7. QED
  BY <1>5, <1>6 DEF Shapes

LEMMA ShapesStep ==
  ASSUME Typed, Shapes, [Next]_vars
  PROVE  Shapes'
<1>1. CASE UNCHANGED <<table, disk>>
  BY <1>1 DEF Shapes
<1>2. ASSUME NEW m \in Masters, Restart(m) PROVE Shapes'
  BY <1>2 DEF Restart, Shapes, Typed, TablesOK
<1>3. ASSUME NEW c \in Callers, Check(c) PROVE Shapes'
  <2>1. pc[c] \in Served
    BY <1>3 DEF Check, Served
  <2>2. CASE Refused(c)
    BY <1>1, <1>3, <2>2 DEF Check
  <2>3. CASE ~Refused(c)
    <3>1. op[c] # "update" => table' = table
      BY <1>3, <2>3, CheckEffect
    <3>2. (op[c] = "update" => TableSet(c, at[c]))
          /\ (DiskSet(c, at[c]) \/ disk' = disk)
      BY <1>3, <2>3, CheckEffect
    <3>3. at[c] \in Masters
      BY <2>1, ServedFacts
    <3>4. op[c] = "add" => table[at[c]][name[c]] # NoFile
      BY <2>3 DEF Refused
    <3>5. QED
      BY <2>1, <3>1, <3>2, <3>3, <3>4, ShapesSet
  <2>4. QED
    BY <2>2, <2>3
<1>4. ASSUME NEW c \in Callers, ApplyCall(c) PROVE Shapes'
  <2>1. pc[c] \in Served /\ at[c] \in Masters
    BY <1>4, ServedFacts DEF ApplyCall, Served
  <2>2. CASE op[c] = "add" /\ table[at[c]][name[c]] = NoFile
    BY <1>1, <1>4, <2>2 DEF ApplyCall
  <2>3. CASE ~(op[c] = "add" /\ table[at[c]][name[c]] = NoFile)
    BY <1>4, <2>1, <2>3, ApplyEffect, ShapesSet
  <2>4. QED
    BY <2>2, <2>3
<1>5. ASSUME NEW c \in Callers, Pass(c) PROVE Shapes'
  <2>1. pc[c] \in Served /\ to[c] \in Masters
    BY <1>5 DEF Pass, Served, Typed, CallsOK
  <2>2. CASE to[c] \in open /\ Accepts(to[c], c)
    <3>1. op[c] = "add" => table[to[c]][name[c]] # NoFile
      BY <2>2 DEF Accepts
    <3>2. QED
      BY <1>5, <2>1, <2>2, <3>1, PassEffect, ShapesSet
  <2>3. CASE ~(to[c] \in open /\ Accepts(to[c], c))
    BY <1>1, <1>5, <2>3 DEF Pass
  <2>4. QED
    BY <2>2, <2>3
<1>6. QED
  BY <1>1, <1>2, <1>3, <1>4, <1>5
     DEF Next, vars, masters, Elect, ElectExists, ElectAdd, ElectAddError, ElectWatch, Lead,
         Expire, Kill, SessionEnd, Serve, Dial, Broadcast, Answer, BrokenOff, Call

\* The masters change and the calls do not.
LEMMA ServingFrame ==
  ASSUME Serving, UNCHANGED <<pc, at, to, name>>, fuzzy \subseteq fuzzy',
         open \subseteq open', isLeader \subseteq isLeader',
         \A m \in Up' \ restarted' : m \in open'
  PROVE  Serving'
  BY DEF Serving, Active, Served

LEMMA DieServing ==
  ASSUME Typed, Serving, NEW m \in Masters, Die(m), UNCHANGED <<at, to, name, restarted>>
  PROVE  Serving'
<1>1. \A l \in Up' \ restarted' : l \in open'
  BY DEF Typed, ElectOK, Serving, Die, Up
<1>2. ASSUME NEW c \in Callers
      PROVE  /\ pc'[c] \in Served => at'[c] \in open'
             /\ Active(c)' => at'[c] \in isLeader' /\ to'[c] >= 1
             /\ pc'[c] = "apply" => to'[c] = 1
             /\ pc'[c] = "pass" => to'[c] # at'[c]
             /\ pc'[c] = "broken" => name'[c] \in fuzzy'
  <2>1. CASE at[c] = m /\ pc[c] \in Served
    <3>1. pc'[c] = "broken" /\ name'[c] \in fuzzy'
      BY <2>1 DEF Die
    <3>2. QED
      BY <3>1 DEF Active, Served
  <2>2. CASE ~(at[c] = m /\ pc[c] \in Served)
    <3>1. pc'[c] = pc[c] /\ fuzzy \subseteq fuzzy' /\ open' = open \ {m}
          /\ isLeader' = isLeader \ {m}
      BY <2>2 DEF Die
    <3>2. pc[c] \in Served => at[c] # m
      BY <2>2
    <3>3. QED
      BY <3>1, <3>2 DEF Serving, Active, Served
  <2>3. QED
    BY <2>1, <2>2
<1>3. QED
  BY <1>1, <1>2 DEF Serving

\* One call changes and the masters do not.
LEMMA ServingMove ==
  ASSUME Serving, NEW c \in Callers, UNCHANGED <<elect, open, isLeader, restarted>>,
         fuzzy \subseteq fuzzy',
         \A d \in Callers : d # c =>
           pc'[d] = pc[d] /\ at'[d] = at[d] /\ to'[d] = to[d] /\ name'[d] = name[d],
         pc'[c] \in Served => at'[c] \in open',
         Active(c)' => at'[c] \in isLeader' /\ to'[c] >= 1,
         pc'[c] = "apply" => to'[c] = 1,
         pc'[c] = "pass" => to'[c] # at'[c],
         pc'[c] # "broken"
  PROVE  Serving'
<1>1. \A l \in Up' \ restarted' : l \in open'
  BY DEF Serving, Up
<1>2. ASSUME NEW d \in Callers
      PROVE  /\ pc'[d] \in Served => at'[d] \in open'
             /\ Active(d)' => at'[d] \in isLeader' /\ to'[d] >= 1
             /\ pc'[d] = "apply" => to'[d] = 1
             /\ pc'[d] = "pass" => to'[d] # at'[d]
             /\ pc'[d] = "broken" => name'[d] \in fuzzy'
  BY DEF Serving, Active
<1>3. QED
  BY <1>1, <1>2 DEF Serving

\* The call of c is over; nothing is left of it.
LEMMA ReturnEffect ==
  ASSUME Typed, NEW c \in Callers, Return(c)
  PROVE  /\ pc'[c] = "idle" /\ name' = name
         /\ \A d \in Callers : d # c =>
              /\ pc'[d] = pc[d] /\ at'[d] = at[d] /\ to'[d] = to[d]
              /\ op'[d] = op[d] /\ id'[d] = id[d]
  BY DEF Typed, CallsOK, Return, Goto

LEMMA ServingReturn ==
  ASSUME Typed, Serving, NEW c \in Callers, Return(c), fuzzy \subseteq fuzzy',
         UNCHANGED <<elect, open, isLeader, restarted>>
  PROVE  Serving'
<1>1. /\ pc'[c] = "idle"
      /\ \A d \in Callers : d # c =>
           pc'[d] = pc[d] /\ at'[d] = at[d] /\ to'[d] = to[d] /\ name'[d] = name[d]
  BY ReturnEffect
<1>2. pc'[c] \notin Served /\ ~Active(c)' /\ pc'[c] \notin {"apply", "pass", "broken"}
  BY <1>1 DEF Active, Served
<1>3. QED
  BY <1>1, <1>2, ServingMove

LEMMA ServingStep ==
  ASSUME Typed, Serving, [Next]_vars
  PROVE  Serving'
<1>0. ElectOK /\ CallsOK
  BY DEF Typed
<1>1. ASSUME UNCHANGED <<pc, at, to, name, fuzzy, open, isLeader>>,
             \A m \in Up' \ restarted' : m \in Up \ restarted
      PROVE  Serving'
  <2>1. \A m \in Up' \ restarted' : m \in open'
    BY <1>1 DEF Serving
  <2>2. QED
    BY <1>1, <2>1, ServingFrame
<1>2. ASSUME NEW m \in Masters, Elect(m) \/ ElectAddError(m) PROVE Serving'
  <2>1. UNCHANGED <<pc, at, to, name, fuzzy, restarted>>
    BY <1>2 DEF Elect, ElectExists, ElectAdd, ElectAddError, ElectWatch, Lead,
                locals, ghosts
  <2>2. open \subseteq open' /\ isLeader \subseteq isLeader'
    BY <1>2 DEF Elect, ElectExists, ElectAdd, ElectAddError, ElectWatch, Lead, masters
  <2>3. elect[m] # "down"
    BY <1>2 DEF Elect, ElectExists, ElectAdd, ElectAddError, ElectWatch, Lead
  <2>4. \E s : elect' = [elect EXCEPT ![m] = s]
    BY <1>2 DEF Elect, ElectExists, ElectAdd, ElectAddError, ElectWatch, Lead
  <2>5. Up' \subseteq Up
    BY <1>0, <2>3, <2>4 DEF Up, ElectOK
  <2>6. \A l \in Up' \ restarted' : l \in open'
    BY <2>1, <2>2, <2>5 DEF Serving
  <2>7. QED
    BY <2>1, <2>2, <2>6, ServingFrame
<1>3. ASSUME NEW m \in Masters, Expire(m) PROVE Serving'
  <2>1. \A l \in Up' \ restarted' : l \in Up \ restarted
    BY <1>0, <1>3 DEF Expire, Up, Unwatched, ElectOK
  <2>2. QED
    BY <1>1, <1>3, <2>1 DEF Expire, masters, locals
<1>4. ASSUME NEW m \in Masters, Kill(m) PROVE Serving'
  BY <1>4, DieServing DEF Kill, locals
<1>5. ASSUME NEW m \in Masters, Restart(m) PROVE Serving'
  <2>1. \A l \in Up' \ restarted' : l \in Up \ restarted
    BY <1>0, <1>5 DEF Restart, Up, ElectOK
  <2>2. QED
    BY <1>1, <1>5, <2>1 DEF Restart, locals
<1>6. CASE SessionEnd
  <2>1. \A l \in Up' \ restarted' : l \in Up \ restarted
    BY <1>0, <1>6 DEF SessionEnd, Up, Unwatched, ElectOK, ghosts
  <2>2. QED
    BY <1>1, <1>6, <2>1 DEF SessionEnd, masters, locals, ghosts
<1>7. ASSUME NEW c \in Callers, NEW o, NEW f, Call(c, o, f) PROVE Serving'
  <2>1. /\ UNCHANGED <<elect, open, isLeader, restarted>> /\ fuzzy \subseteq fuzzy'
        /\ pc'[c] = "dial"
        /\ \A d \in Callers : d # c =>
             pc'[d] = pc[d] /\ at'[d] = at[d] /\ to'[d] = to[d] /\ name'[d] = name[d]
    BY <1>0, <1>7 DEF Call, Goto, CallsOK, zk, masters
  <2>2. pc'[c] \notin Served /\ ~Active(c)' /\ pc'[c] \notin {"apply", "pass", "broken"}
    BY <2>1 DEF Active, Served
  <2>3. QED
    BY <2>1, <2>2, ServingMove
<1>8. ASSUME NEW c \in Callers, Dial(c) PROVE Serving'
  <2>1. /\ UNCHANGED <<elect, open, isLeader, restarted, fuzzy>>
        /\ pc'[c] = "check" /\ at'[c] \in open
        /\ \A d \in Callers : d # c =>
             pc'[d] = pc[d] /\ at'[d] = at[d] /\ to'[d] = to[d] /\ name'[d] = name[d]
    BY <1>0, <1>8 DEF Dial, Goto, CallsOK, zk, masters, ghosts
  <2>2. ~Active(c)' /\ pc'[c] \notin {"apply", "pass", "broken"}
    BY <2>1 DEF Active
  <2>3. QED
    BY <2>1, <2>2, ServingMove
<1>9. ASSUME NEW c \in Callers, Check(c) PROVE Serving'
  <2>0. UNCHANGED <<elect, open, isLeader, restarted, fuzzy>> /\ pc[c] = "check"
    BY <1>9 DEF Check, zk, ghosts
  <2>1. CASE Return(c)
    BY <2>0, <2>1, ServingReturn
  <2>2. CASE ~Refused(c)
    <3>1. /\ pc'[c] \in {"bcast", "apply"} /\ at'[c] = at[c] /\ to'[c] = 1
          /\ \A d \in Callers : d # c =>
               pc'[d] = pc[d] /\ at'[d] = at[d] /\ to'[d] = to[d] /\ name'[d] = name[d]
      BY <1>0, <1>9, <2>2 DEF Check, Goto, CallsOK
    <3>2. at[c] \in isLeader /\ at[c] \in open
      BY <1>0, <2>2 DEF Refused, ElectOK
    <3>3. QED
      BY <2>0, <3>1, <3>2, ServingMove
  <2>3. QED
    BY <1>9, <2>1, <2>2 DEF Check
<1>10. ASSUME NEW c \in Callers, ApplyCall(c) PROVE Serving'
  <2>0. pc[c] = "apply" /\ at[c] \in Masters /\ UNCHANGED <<at, to, name, restarted>>
    BY <1>0, <1>10 DEF ApplyCall, locals, CallsOK, Served
  <2>1. CASE Die(at[c])
    BY <2>0, <2>1, DieServing
  <2>2. CASE Goto(c, "bcast") /\ UNCHANGED <<elect, open, isLeader, fuzzy>>
    <3>1. pc'[c] = "bcast" /\ \A d \in Callers : d # c => pc'[d] = pc[d]
      BY <1>0, <2>2 DEF Goto, CallsOK
    <3>2. at[c] \in open /\ at[c] \in isLeader /\ to[c] >= 1
      BY <2>0 DEF Serving, Active, Served
    <3>3. QED
      BY <2>0, <2>2, <3>1, <3>2, ServingMove
  <2>3. QED
    BY <1>10, <2>1, <2>2 DEF ApplyCall
<1>11. ASSUME NEW c \in Callers, Broadcast(c) PROVE Serving'
  <2>0. /\ pc[c] = "bcast" /\ at[c] \in Masters /\ to[c] \in Masters
        /\ UNCHANGED <<at, name, restarted>>
    BY <1>0, <1>11 DEF Broadcast, CallsOK, Served
  <2>1. CASE Die(at[c]) /\ UNCHANGED to
    BY <2>0, <2>1, DieServing
  <2>2. CASE /\ Onward(c) \/ (Goto(c, "pass") /\ UNCHANGED to /\ to[c] # at[c])
             /\ UNCHANGED <<elect, open, isLeader, fuzzy>>
    <3>1. \A d \in Callers : d # c => pc'[d] = pc[d] /\ to'[d] = to[d]
      BY <1>0, <2>2 DEF Onward, Goto, CallsOK
    <3>2. at[c] \in open /\ at[c] \in isLeader /\ to[c] \in Nat /\ to[c] >= 1
      BY <2>0, MasterAssumption DEF Serving, Active, Served, Masters
    <3>3. /\ pc'[c] \in {"bcast", "pass"} /\ to'[c] >= 1
          /\ pc'[c] = "pass" => to'[c] # at[c]
      BY <1>0, <2>2, <3>2 DEF Onward, Goto, CallsOK
    <3>4. QED
      BY <2>0, <2>2, <3>1, <3>2, <3>3, ServingMove
  <2>3. QED
    BY <1>11, <2>1, <2>2 DEF Broadcast
<1>12. ASSUME NEW c \in Callers, Pass(c) PROVE Serving'
  <2>0. /\ pc[c] = "pass" /\ to[c] \in Masters /\ Onward(c)
        /\ UNCHANGED <<at, name, restarted, elect, open, isLeader>>
        /\ fuzzy \subseteq fuzzy'
    BY <1>0, <1>12 DEF Pass, CallsOK, Served, zk
  <2>1. \A d \in Callers : d # c => pc'[d] = pc[d] /\ to'[d] = to[d]
    BY <1>0, <2>0 DEF Onward, Goto, CallsOK
  <2>2. at[c] \in open /\ at[c] \in isLeader /\ to[c] \in Nat
    BY <2>0, MasterAssumption DEF Serving, Active, Served, Masters
  <2>3. pc'[c] = "bcast" /\ to'[c] >= 1
    BY <1>0, <2>0, <2>2 DEF Onward, Goto, CallsOK
  <2>4. QED
    BY <2>0, <2>1, <2>2, <2>3, ServingMove
<1>13. ASSUME NEW c \in Callers, Answer(c) \/ BrokenOff(c) PROVE Serving'
  BY <1>13, ServingReturn DEF Answer, BrokenOff, zk, masters, ghosts
<1>14. CASE UNCHANGED vars
  <2>1. \A l \in Up' \ restarted' : l \in Up \ restarted
    BY <1>14 DEF vars, zk, ghosts, Up
  <2>2. QED
    BY <1>1, <1>14, <2>1 DEF vars, masters, locals, ghosts
<1>15. QED
  BY <1>2, <1>3, <1>4, <1>5, <1>6, <1>7, <1>8, <1>9, <1>10, <1>11, <1>12, <1>13, <1>14
     DEF Next, Serve

\* Calls only begin with Call, and a file on which two are made is fuzzy.
LEMMA CallsContinue ==
  ASSUME Typed, [Next]_vars
  PROVE  /\ fuzzy \subseteq fuzzy'
         /\ \/ UNCHANGED name /\ \A c \in Callers : pc[c] = "idle" => pc'[c] = "idle"
            \/ \E c \in Callers, o \in Ops, f \in Files : Call(c, o, f)
<1>0. CallsOK
  BY DEF Typed
<1>1. CASE \E m \in Masters : Elect(m) \/ ElectAddError(m) \/ Expire(m) \/ Restart(m)
  BY <1>1 DEF Elect, ElectExists, ElectAdd, ElectAddError, ElectWatch, Lead,
              Expire, Restart, locals, ghosts
<1>2. ASSUME NEW m, Die(m), UNCHANGED name
      PROVE  /\ fuzzy \subseteq fuzzy'
             /\ UNCHANGED name /\ \A c \in Callers : pc[c] = "idle" => pc'[c] = "idle"
  BY <1>2 DEF Die, Served
<1>3. ASSUME NEW c \in Callers, pc[c] # "idle", Goto(c, "idle") \/
             \E s : Goto(c, s), UNCHANGED name
      PROVE  UNCHANGED name /\ \A d \in Callers : pc[d] = "idle" => pc'[d] = "idle"
  BY <1>0, <1>3 DEF Goto, CallsOK
<1>4. CASE \E m \in Masters : Kill(m)
  BY <1>2, <1>4 DEF Kill, locals
<1>5. CASE SessionEnd
  BY <1>5 DEF SessionEnd, locals, ghosts
<1>6. ASSUME NEW c \in Callers, Dial(c) \/ Check(c) \/ Answer(c) \/ BrokenOff(c)
      PROVE  /\ fuzzy \subseteq fuzzy'
             /\ UNCHANGED name /\ \A d \in Callers : pc[d] = "idle" => pc'[d] = "idle"
  BY <1>3, <1>6 DEF Dial, Check, Answer, BrokenOff, Return, ghosts
<1>7. ASSUME NEW c \in Callers, ApplyCall(c) \/ Broadcast(c) \/ Pass(c)
      PROVE  /\ fuzzy \subseteq fuzzy'
             /\ UNCHANGED name /\ \A d \in Callers : pc[d] = "idle" => pc'[d] = "idle"
  <2>1. pc[c] # "idle" /\ UNCHANGED name
    BY <1>7 DEF ApplyCall, Broadcast, Pass, locals
  <2>2. CASE Die(at[c])
    BY <1>2, <2>1, <2>2
  <2>3. CASE (\E s : Goto(c, s)) /\ fuzzy \subseteq fuzzy'
    BY <1>3, <2>1, <2>3
  <2>4. QED
    BY <1>7, <2>2, <2>3 DEF ApplyCall, Broadcast, Pass, Onward
<1>8. CASE UNCHANGED vars
  BY <1>8 DEF vars, locals, ghosts
<1>9. ASSUME NEW c \in Callers, NEW o \in Ops, NEW f \in Files, Call(c, o, f)
      PROVE  fuzzy \subseteq fuzzy'
  BY <1>9 DEF Call
<1>10. QED
  BY <1>1, <1>4, <1>5, <1>6, <1>7, <1>8, <1>9 DEF Next, Serve

LEMMA AloneStep ==
  ASSUME Typed, NEW f \in Files, f \notin fuzzy', Alone(f), [Next]_vars
  PROVE  Alone(f)'
<1>1. CASE UNCHANGED name /\ \A c \in Callers : pc[c] = "idle" => pc'[c] = "idle"
  BY <1>1 DEF Alone
<1>2. ASSUME NEW c \in Callers, NEW o \in Ops, NEW g \in Files, Call(c, o, g)
      PROVE  Alone(f)'
  <2>1. /\ pc'[c] = "dial" /\ name'[c] = g
        /\ \A d \in Callers : d # c => pc'[d] = pc[d] /\ name'[d] = name[d]
    BY <1>2 DEF Call, Goto, Typed, CallsOK
  <2>2. g = f => ~Busy(f)
    BY <1>2 DEF Call
  <2>3. QED
    BY <2>1, <2>2 DEF Alone, Busy
<1>3. QED
  BY <1>1, <1>2, CallsContinue

\* Kept(f) when c is the only caller that may be changing f.
KeptBy(c, f) ==
  /\ Sound(answered[f])
  /\ Active(c) => /\ op[c] = "create" => answered[f] = NoFile
                  /\ op[c] = "add" => answered[f] # NoFile
  /\ \A m \in Masters :
       /\ m \in Up => HasEntry(m, f, IF Reached(c, m) THEN Outcome(c) ELSE answered[f])
       /\ Alike(disk[m][f], IF Noted(c, m) THEN Outcome(c) ELSE answered[f])

LEMMA KeptAlone ==
  ASSUME NEW f \in Files, NEW c \in Callers, pc[c] # "idle", name[c] = f, Alone(f),
         Kept(f)
  PROVE  KeptBy(c, f) /\ \A d \in Callers : d # c => name[d] # f \/ pc[d] = "idle"
<1>1. \A d \in Callers : d # c => name[d] # f \/ pc[d] = "idle"
  BY DEF Alone
<1>2. \A d \in Callers, m \in Masters : d # c /\ name[d] = f =>
        ~Reached(d, m) /\ ~Noted(d, m)
  BY <1>1 DEF Reached, Noted
<1>3. ASSUME NEW m \in Masters
      PROVE  /\ m \in Up =>
                  HasEntry(m, f, IF Reached(c, m) THEN Outcome(c) ELSE answered[f])
             /\ Alike(disk[m][f], IF Noted(c, m) THEN Outcome(c) ELSE answered[f])
  BY <1>2 DEF Kept
<1>4. QED
  BY <1>1, <1>3 DEF Kept, KeptBy

LEMMA KeptAlonePrime ==
  ASSUME NEW f \in Files, NEW c \in Callers, name'[c] = f,
         \A d \in Callers : d # c => name'[d] # f \/ pc'[d] = "idle",
         KeptBy(c, f)'
  PROVE  Kept(f)'
<1>2. \A d \in Callers, m \in Masters : d # c /\ name'[d] = f =>
        ~Reached(d, m)' /\ ~Noted(d, m)'
  BY DEF Reached, Noted
<1>1. \A d \in Callers : d # c /\ name'[d] = f => ~Active(d)'
  BY DEF Active
<1>3. Sound(answered'[f]) /\ \A d \in Callers : Active(d)' /\ name'[d] = f =>
        /\ op'[d] = "create" => answered'[f] = NoFile
        /\ op'[d] = "add" => answered'[f] # NoFile
  BY <1>1 DEF KeptBy
<1>4. ASSUME NEW m \in Masters
      PROVE  /\ \A d \in Callers : name'[d] = f /\ Reached(d, m)' /\ m \in Up' =>
                  HasEntry(m, f, Outcome(d))'
             /\ \A d \in Callers : name'[d] = f /\ Noted(d, m)' =>
                  Alike(disk[m][f], Outcome(d))'
             /\ (\A d \in Callers : name'[d] = f => ~Reached(d, m)') /\ m \in Up' =>
                  HasEntry(m, f, answered[f])'
             /\ (\A d \in Callers : name'[d] = f => ~Noted(d, m)') =>
                  Alike(disk[m][f], answered[f])'
  <2>1. /\ m \in Up' =>
             (Reached(c, m)' => HasEntry(m, f, Outcome(c))')
             /\ (~Reached(c, m)' => HasEntry(m, f, answered[f])')
        /\ Noted(c, m)' => Alike(disk[m][f], Outcome(c))'
        /\ ~Noted(c, m)' => Alike(disk[m][f], answered[f])'
    BY DEF KeptBy, HasEntry
  <2>2. QED
    BY <1>2, <2>1
<1>5. QED
  BY <1>3, <1>4 DEF Kept

\* A step that leaves the file, its log and the calls that change it alone.
LEMMA KeptFrame ==
  ASSUME NEW f \in Files, Kept(f),
         \A m \in Masters : table'[m][f] = table[m][f] /\ disk'[m][f] = disk[m][f],
         answered'[f] = answered[f], restarted' = restarted, Up' \subseteq Up,
         \A c \in Callers : (Active(c) /\ name[c] = f) <=> (Active(c)' /\ name'[c] = f),
         \A c \in Callers : Active(c) /\ name[c] = f =>
           /\ pc'[c] = pc[c] /\ op'[c] = op[c] /\ id'[c] = id[c]
           /\ at'[c] = at[c] /\ to'[c] = to[c]
  PROVE  Kept(f)'
<1>1. \A c \in Callers, m \in Masters :
        /\ (name'[c] = f /\ Reached(c, m)') <=> (name[c] = f /\ Reached(c, m))
        /\ (name'[c] = f /\ Noted(c, m)') <=> (name[c] = f /\ Noted(c, m))
        /\ (name[c] = f /\ Noted(c, m)) => Outcome(c)' = Outcome(c)
        /\ Reached(c, m) => Noted(c, m)
  BY DEF Reached, Noted, Active, Outcome
<1>2. Sound(answered'[f]) /\ \A c \in Callers : Active(c)' /\ name'[c] = f =>
        /\ op'[c] = "create" => answered'[f] = NoFile
        /\ op'[c] = "add" => answered'[f] # NoFile
  BY DEF Kept
<1>4. ASSUME NEW m \in Masters
      PROVE  /\ \A c \in Callers : name'[c] = f /\ Reached(c, m)' /\ m \in Up' =>
                  HasEntry(m, f, Outcome(c))'
             /\ \A c \in Callers : name'[c] = f /\ Noted(c, m)' =>
                  Alike(disk[m][f], Outcome(c))'
             /\ (\A c \in Callers : name'[c] = f => ~Reached(c, m)') /\ m \in Up' =>
                  HasEntry(m, f, answered[f])'
             /\ (\A c \in Callers : name'[c] = f => ~Noted(c, m)') =>
                  Alike(disk[m][f], answered[f])'
  <2>1. ASSUME NEW c \in Callers, name'[c] = f, Reached(c, m)', m \in Up'
        PROVE  HasEntry(m, f, Outcome(c))'
    <3>1. HasEntry(m, f, Outcome(c)) /\ Outcome(c)' = Outcome(c)
      BY <1>1, <2>1 DEF Kept
    <3>2. QED
      BY <3>1 DEF HasEntry
  <2>2. ASSUME NEW c \in Callers, name'[c] = f, Noted(c, m)'
        PROVE  Alike(disk[m][f], Outcome(c))'
    <3>1. Alike(disk[m][f], Outcome(c)) /\ Outcome(c)' = Outcome(c)
      BY <1>1, <2>2 DEF Kept
    <3>2. QED
      BY <3>1
  <2>3. ASSUME \A c \in Callers : name'[c] = f => ~Reached(c, m)', m \in Up'
        PROVE  HasEntry(m, f, answered[f])'
    <3>1. HasEntry(m, f, answered[f])
      BY <1>1, <2>3 DEF Kept
    <3>2. QED
      BY <3>1 DEF HasEntry
  <2>4. ASSUME \A c \in Callers : name'[c] = f => ~Noted(c, m)'
        PROVE  Alike(disk[m][f], answered[f])'
    <3>1. Alike(disk[m][f], answered[f])
      BY <1>1, <2>4 DEF Kept
    <3>2. QED
      BY <3>1
  <2>5. QED
    BY <2>1, <2>2, <2>3, <2>4
<1>5. QED
  BY <1>2, <1>4 DEF Kept

LEMMA NoFileAlike ==
  ASSUME NEW e, NEW g, Alike(e, g), Shaped(e), Shaped(g)
  PROVE  e = NoFile <=> g = NoFile
  BY DEF Alike, Shaped, NoFile

\* A master that has the answered entry knows whether there is such a file.
LEMMA KnowsFile ==
  ASSUME Typed, Shapes, NEW m \in Masters, NEW f \in Files, Sound(answered[f]),
         HasEntry(m, f, answered[f])
  PROVE  table[m][f] = NoFile <=> answered[f] = NoFile
<1>1. Shaped(table[m][f]) /\ Shaped(answered[f])
  BY DEF Shapes, Sound
<1>2. QED
  BY <1>1, NoFileAlike DEF HasEntry

\* Call c takes master m, or its log, from the answered entry to its outcome.
LEMMA HandlerMoves ==
  ASSUME Typed, Shapes, NEW c \in Callers, pc[c] \in Served, NEW m \in Masters,
         Sound(answered[name[c]]),
         op[c] = "add" => answered[name[c]] # NoFile
  PROVE  /\ TableSet(c, m) /\ restarted' = restarted
              /\ HasEntry(m, name[c], answered[name[c]])
              => IF m \in restarted THEN Alike(table'[m][name[c]], Outcome(c))
                 ELSE table'[m][name[c]] = Outcome(c)
         /\ DiskSet(c, m) /\ Alike(disk[m][name[c]], answered[name[c]])
              => Alike(disk'[m][name[c]], Outcome(c))
<1>1. name[c] \in Files /\ op[c] \in Ops
  BY ServedFacts
<1>2. /\ table[m][name[c]] \in Entries /\ disk[m][name[c]] \in Entries
      /\ answered[name[c]] \in Entries
  BY <1>1, EntryFacts
<1>3. Shaped(table[m][name[c]]) /\ Shaped(disk[m][name[c]]) /\ Shaped(answered[name[c]])
  BY <1>1 DEF Shapes, Sound
<1>4. ASSUME TableSet(c, m), HasEntry(m, name[c], answered[name[c]])
      PROVE  IF m \in restarted THEN Alike(table'[m][name[c]], Outcome(c))
             ELSE table'[m][name[c]] = Outcome(c)
  <2>1. table'[m][name[c]] = Apply(op[c], table[m][name[c]], id[c])
    BY <1>1, <1>4 DEF TableSet
  <2>2. CASE m \in restarted
    BY <1>1, <1>2, <1>3, <1>4, <2>1, <2>2, ApplyAlike DEF HasEntry, Outcome
  <2>3. CASE m \notin restarted
    BY <1>4, <2>1, <2>3 DEF HasEntry, Outcome
  <2>4. QED
    BY <2>2, <2>3
<1>5. ASSUME DiskSet(c, m), Alike(disk[m][name[c]], answered[name[c]])
      PROVE  Alike(disk'[m][name[c]], Outcome(c))
  <2>1. disk'[m][name[c]] = Replay(op[c], disk[m][name[c]], id[c])
    BY <1>1, <1>5 DEF DiskSet
  <2>2. QED
    BY <1>1, <1>2, <1>3, <1>5, <2>1, ReplayAlike DEF Outcome
<1>6. QED
  BY <1>4, <1>5

\* A step of call c on its own file.
LEMMA KeptMove ==
  ASSUME Typed, NEW f \in Files, NEW c \in Callers, name[c] = f, name' = name,
         op' = op, id' = id, answered' = answered, restarted' = restarted, elect' = elect,
         \A d \in Callers : d # c => (name[d] # f \/ pc[d] = "idle") /\ pc'[d] = pc[d],
         Sound(answered[f]),
         op[c] = "create" => answered[f] = NoFile,
         op[c] = "add" => answered[f] # NoFile,
         \A m \in Masters :
           /\ m \in Up =>
                LET e == IF Reached(c, m)' THEN Outcome(c) ELSE answered[f]
                IN IF m \in restarted THEN Alike(table'[m][f], e) ELSE table'[m][f] = e
           /\ Alike(disk'[m][f], IF Noted(c, m)' THEN Outcome(c) ELSE answered[f])
  PROVE  Kept(f)'
<1>1. Outcome(c)' = Outcome(c) /\ Up' = Up
  BY DEF Outcome, Up
<1>2. KeptBy(c, f)'
  <2>1. ASSUME NEW m \in Masters
        PROVE  /\ m \in Up' =>
                    HasEntry(m, f, IF Reached(c, m) THEN Outcome(c) ELSE answered[f])'
               /\ Alike(disk[m][f], IF Noted(c, m) THEN Outcome(c) ELSE answered[f])'
    BY <1>1 DEF HasEntry
  <2>2. QED
    BY <2>1 DEF KeptBy
<1>3. QED
  BY <1>2, KeptAlonePrime

LEMMA CheckKept ==
  ASSUME Typed, Shapes, NEW f \in Files, NEW c \in Callers, name[c] = f, Alone(f),
         Kept(f), Check(c), ~Refused(c)
  PROVE  Kept(f)'
<1>0. /\ pc[c] = "check" /\ pc[c] # "idle" /\ pc[c] \in Served
      /\ op[c] \in Ops /\ at[c] \in Masters
  BY ServedFacts DEF Check, Served
<1>1. /\ KeptBy(c, f) /\ \A d \in Callers : d # c => name[d] # f \/ pc[d] = "idle"
  BY <1>0, KeptAlone
<1>2. /\ Sound(answered[f])
      /\ \A m \in Masters : /\ m \in Up => HasEntry(m, f, answered[f])
                            /\ Alike(disk[m][f], answered[f])
  BY <1>0, <1>1 DEF KeptBy, Reached, Noted
<1>3. at[c] \in Up /\ HasEntry(at[c], f, answered[f])
  BY <1>0, <1>2 DEF Refused, Typed, ElectOK
<1>4. /\ op[c] = "create" => answered[f] = NoFile
      /\ op[c] = "add" => answered[f] # NoFile
  BY <1>0, <1>2, <1>3, KnowsFile DEF Refused
<1>5. /\ pc'[c] = IF op[c] = "update" THEN "bcast" ELSE "apply"
      /\ to'[c] = 1
      /\ UNCHANGED <<op, name, id, at, answered, restarted, elect>>
      /\ \A d \in Callers : d # c => pc'[d] = pc[d]
  BY DEF Check, Goto, Typed, CallsOK, zk, ghosts
<1>6. \A m \in Masters :
        /\ Reached(c, m)' <=> (op[c] = "update" /\ m = at[c])
        /\ Noted(c, m)' <=> (op[c] \in {"update", "delete"} /\ m = at[c])
  BY <1>5, MasterAssumption DEF Reached, Noted, Masters
<1>7. /\ IF op[c] = "update" THEN TableSet(c, at[c]) ELSE table' = table
      /\ IF op[c] \in {"update", "delete"} THEN DiskSet(c, at[c]) ELSE disk' = disk
  BY CheckEffect
<1>8. ASSUME NEW m \in Masters
      PROVE  /\ m \in Up =>
                  LET e == IF Reached(c, m)' THEN Outcome(c) ELSE answered[f]
                  IN IF m \in restarted THEN Alike(table'[m][f], e) ELSE table'[m][f] = e
             /\ Alike(disk'[m][f], IF Noted(c, m)' THEN Outcome(c) ELSE answered[f])
  <2>1. ASSUME m \in Up, ~Reached(c, m)'
        PROVE  IF m \in restarted THEN Alike(table'[m][f], answered[f])
               ELSE table'[m][f] = answered[f]
    BY <1>0, <1>2, <1>6, <1>7, <2>1 DEF TableSet, HasEntry
  <2>2. ASSUME Reached(c, m)'
        PROVE  IF m \in restarted THEN Alike(table'[m][f], Outcome(c))
               ELSE table'[m][f] = Outcome(c)
    BY <1>0, <1>2, <1>3, <1>4, <1>5, <1>6, <1>7, <2>2, HandlerMoves
  <2>3. ~Noted(c, m)' => Alike(disk'[m][f], answered[f])
    BY <1>0, <1>2, <1>6, <1>7 DEF DiskSet
  <2>4. Noted(c, m)' => Alike(disk'[m][f], Outcome(c))
    BY <1>0, <1>2, <1>3, <1>4, <1>5, <1>6, <1>7, HandlerMoves
  <2>5. QED
    BY <2>1, <2>2, <2>3, <2>4
<1>9. QED
  BY <1>1, <1>2, <1>4, <1>5, <1>8, KeptMove

LEMMA ApplyKept ==
  ASSUME Typed, Shapes, Serving, NEW f \in Files, NEW c \in Callers, name[c] = f,
         Alone(f), Kept(f), ApplyCall(c),
         ~(op[c] = "add" /\ table[at[c]][name[c]] = NoFile)
  PROVE  Kept(f)'
<1>0. /\ pc[c] = "apply" /\ pc[c] # "idle" /\ pc[c] \in Served
      /\ op[c] \in Ops /\ at[c] \in Masters /\ Active(c)
  BY ServedFacts DEF ApplyCall, Served, Active
<1>1. /\ KeptBy(c, f) /\ \A d \in Callers : d # c => name[d] # f \/ pc[d] = "idle"
  BY <1>0, KeptAlone
<1>2. /\ Sound(answered[f])
      /\ op[c] = "create" => answered[f] = NoFile
      /\ op[c] = "add" => answered[f] # NoFile
      /\ \A m \in Masters : m \in Up => HasEntry(m, f, answered[f])
  BY <1>0, <1>1 DEF KeptBy, Reached
<1>3. at[c] \in Up /\ HasEntry(at[c], f, answered[f]) /\ to[c] = 1
  BY <1>0, <1>2 DEF Serving, Typed, ElectOK
<1>5. /\ pc'[c] = "bcast"
      /\ UNCHANGED <<op, name, id, at, to, answered, restarted, elect>>
      /\ \A d \in Callers : d # c => pc'[d] = pc[d]
  BY DEF ApplyCall, Goto, Typed, CallsOK, locals
<1>6. \A m \in Masters :
        /\ Reached(c, m)' <=> m = at[c]
        /\ Noted(c, m)' <=> m = at[c]
        /\ Noted(c, m) <=> (op[c] = "delete" /\ m = at[c])
  BY <1>0, <1>3, <1>5, MasterAssumption DEF Reached, Noted, Masters
<1>7. /\ TableSet(c, at[c])
      /\ IF op[c] = "delete" THEN disk' = disk ELSE DiskSet(c, at[c])
  BY ApplyEffect
<1>8. ASSUME NEW m \in Masters
      PROVE  /\ m \in Up =>
                  LET e == IF Reached(c, m)' THEN Outcome(c) ELSE answered[f]
                  IN IF m \in restarted THEN Alike(table'[m][f], e) ELSE table'[m][f] = e
             /\ Alike(disk'[m][f], IF Noted(c, m)' THEN Outcome(c) ELSE answered[f])
  <2>0. Alike(disk[m][f], IF Noted(c, m) THEN Outcome(c) ELSE answered[f])
    BY <1>1 DEF KeptBy
  <2>1. ASSUME m \in Up, ~Reached(c, m)'
        PROVE  IF m \in restarted THEN Alike(table'[m][f], answered[f])
               ELSE table'[m][f] = answered[f]
    BY <1>2, <1>6, <1>7, <2>1 DEF TableSet, HasEntry
  <2>2. ASSUME Reached(c, m)'
        PROVE  IF m \in restarted THEN Alike(table'[m][f], Outcome(c))
               ELSE table'[m][f] = Outcome(c)
    BY <1>0, <1>2, <1>3, <1>5, <1>6, <1>7, <2>2, HandlerMoves
  <2>3. ~Noted(c, m)' => Alike(disk'[m][f], answered[f])
    BY <1>6, <1>7, <2>0 DEF DiskSet
  <2>4. Noted(c, m)' => Alike(disk'[m][f], Outcome(c))
    <3>1. CASE op[c] = "delete"
      BY <1>6, <1>7, <2>0, <3>1
    <3>2. CASE op[c] # "delete"
      BY <1>0, <1>2, <1>5, <1>6, <1>7, <2>0, <3>2, HandlerMoves
    <3>3. QED
      BY <3>1, <3>2
  <2>5. QED
    BY <2>1, <2>2, <2>3, <2>4
<1>9. QED
  BY <1>1, <1>2, <1>5, <1>8, KeptMove

\* An added chunk does not change what a log keeps.
LEMMA AddAlike ==
  ASSUME Typed, NEW c \in Callers, op[c] = "add", NEW e
  PROVE  Alike(e, answered[name[c]]) => Alike(e, Outcome(c))
<1>1. answered[name[c]] \in Entries
  BY DEF Typed, CountOK, CallsOK
<1>2. QED
  BY <1>1, ApplyFields DEF Alike, Outcome

LEMMA BroadcastKept ==
  ASSUME Typed, Shapes, Serving, NEW f \in Files, NEW c \in Callers, name[c] = f,
         Alone(f), Kept(f), Broadcast(c), ~Die(at[c])
  PROVE  Kept(f)'
<1>0. /\ pc[c] = "bcast" /\ pc[c] # "idle" /\ pc[c] \in Served /\ Active(c)
      /\ at[c] \in Masters /\ to[c] \in Masters
  BY ServedFacts DEF Broadcast, Served, Active
<1>1. /\ KeptBy(c, f) /\ \A d \in Callers : d # c => name[d] # f \/ pc[d] = "idle"
  BY <1>0, KeptAlone
<1>2. /\ UNCHANGED <<op, name, id, at, answered, restarted, elect, table, disk>>
      /\ \A d \in Callers : d # c => pc'[d] = pc[d]
      /\ \/ /\ pc'[c] = "bcast" /\ to'[c] = to[c] + 1
            /\ to[c] = at[c] \/ (to[c] \notin open /\ op[c] = "add")
         \/ pc'[c] = "pass" /\ to'[c] = to[c]
  BY DEF Broadcast, Onward, Goto, Typed, CallsOK
<1>3. \A m \in Masters :
        /\ Noted(c, m) <=> Reached(c, m)
        /\ Noted(c, m)' <=> Reached(c, m)'
        /\ Reached(c, m) => Reached(c, m)'
        /\ Reached(c, m)' /\ ~Reached(c, m) =>
             m = to[c] /\ m \notin open /\ op[c] = "add"
  BY <1>0, <1>2, MasterAssumption DEF Reached, Noted, Masters
<1>4. ASSUME NEW m \in Masters
      PROVE  /\ m \in Up =>
                  LET e == IF Reached(c, m)' THEN Outcome(c) ELSE answered[f]
                  IN IF m \in restarted THEN Alike(table'[m][f], e) ELSE table'[m][f] = e
             /\ Alike(disk'[m][f], IF Noted(c, m)' THEN Outcome(c) ELSE answered[f])
  <2>0. /\ m \in Up => HasEntry(m, f, IF Reached(c, m) THEN Outcome(c) ELSE answered[f])
        /\ Alike(disk[m][f], IF Noted(c, m) THEN Outcome(c) ELSE answered[f])
    BY <1>1 DEF KeptBy
  <2>1. CASE Reached(c, m)' <=> Reached(c, m)
    BY <1>2, <1>3, <2>0, <2>1 DEF HasEntry
  <2>2. CASE Reached(c, m)' /\ ~Reached(c, m)
    <3>1. m \notin open /\ op[c] = "add" /\ Noted(c, m)' /\ ~Noted(c, m)
      BY <1>3, <2>2
    <3>2. m \in Up => m \in restarted
      BY <3>1 DEF Serving
    <3>3. QED
      BY <1>2, <2>0, <2>2, <3>1, <3>2, AddAlike DEF HasEntry
  <2>3. QED
    BY <1>3, <2>1, <2>2
<1>5. /\ Sound(answered[f])
      /\ op[c] = "create" => answered[f] = NoFile
      /\ op[c] = "add" => answered[f] # NoFile
  BY <1>0, <1>1 DEF KeptBy
<1>6. QED
  BY <1>1, <1>2, <1>4, <1>5, KeptMove

LEMMA PassKept ==
  ASSUME Typed, Elected, Shapes, Serving, expiries = 0, NEW f \in Files,
         NEW c \in Callers, name[c] = f, f \notin fuzzy', Alone(f), Kept(f), Pass(c)
  PROVE  Kept(f)'
<1>0. /\ pc[c] = "pass" /\ pc[c] # "idle" /\ pc[c] \in Served /\ Active(c)
      /\ at[c] \in Masters /\ to[c] \in Masters /\ to[c] # at[c]
  BY ServedFacts DEF Pass, Served, Active, Typed, CallsOK, Serving
<1>1. /\ KeptBy(c, f) /\ \A d \in Callers : d # c => name[d] # f \/ pc[d] = "idle"
  BY <1>0, KeptAlone
<1>2. /\ UNCHANGED <<op, name, id, at, answered, restarted, elect>>
      /\ \A d \in Callers : d # c => pc'[d] = pc[d]
      /\ pc'[c] = "bcast" /\ to'[c] = to[c] + 1
  BY DEF Pass, Onward, Goto, Typed, CallsOK, zk
<1>3. \A m \in Masters :
        /\ Noted(c, m) <=> Reached(c, m)
        /\ Noted(c, m)' <=> Reached(c, m)'
        /\ Reached(c, m)' <=> (Reached(c, m) \/ m = to[c])
        /\ m = to[c] => ~Reached(c, m)
  BY <1>0, <1>2, MasterAssumption DEF Reached, Noted, Masters
<1>4. to[c] \in open /\ to[c] \in Up
  BY DEF Pass, Typed, ElectOK
<1>5. to[c] \notin isLeader
  <2>1. at[c] \in isLeader
    BY <1>0 DEF Serving
  <2>2. \A m \in Masters : m \in isLeader => znode = m
    BY DEF Elected, Owns
  <2>3. QED
    BY <1>0, <2>1, <2>2
<1>6. /\ Sound(answered[f])
      /\ op[c] = "create" => answered[f] = NoFile
      /\ op[c] = "add" => answered[f] # NoFile
  BY <1>0, <1>1 DEF KeptBy
<1>7. /\ HasEntry(to[c], f, answered[f])
      /\ Alike(disk[to[c]][f], answered[f])
  BY <1>0, <1>1, <1>3, <1>4 DEF KeptBy
<1>8. Accepts(to[c], c)
  BY <1>0, <1>5, <1>6, <1>7, KnowsFile DEF Accepts
<1>9. TableSet(c, to[c]) /\ DiskSet(c, to[c])
  BY <1>4, <1>8, PassEffect
<1>10. ASSUME NEW m \in Masters
      PROVE  /\ m \in Up =>
                  LET e == IF Reached(c, m)' THEN Outcome(c) ELSE answered[f]
                  IN IF m \in restarted THEN Alike(table'[m][f], e) ELSE table'[m][f] = e
             /\ Alike(disk'[m][f], IF Noted(c, m)' THEN Outcome(c) ELSE answered[f])
  <2>0. /\ m \in Up => HasEntry(m, f, IF Reached(c, m) THEN Outcome(c) ELSE answered[f])
        /\ Alike(disk[m][f], IF Noted(c, m) THEN Outcome(c) ELSE answered[f])
    BY <1>1 DEF KeptBy
  <2>1. CASE m # to[c]
    BY <1>3, <1>9, <2>0, <2>1 DEF HasEntry, TableSet, DiskSet
  <2>2. CASE m = to[c]
    <3>1. Reached(c, m)' /\ Noted(c, m)'
      BY <1>3, <2>2
    <3>2. QED
      BY <1>0, <1>2, <1>6, <1>7, <1>9, <2>2, <3>1, HandlerMoves
  <2>3. QED
    BY <2>1, <2>2
<1>11. QED
  BY <1>1, <1>2, <1>6, <1>10, KeptMove

\* When the leader answers, every master that runs has been told.
LEMMA AnswerKept ==
  ASSUME Typed, Serving, NEW f \in Files, NEW c \in Callers, name[c] = f, Alone(f),
         Kept(f), Answer(c)
  PROVE  Kept(f)'
<1>0. /\ pc[c] = "bcast" /\ pc[c] # "idle" /\ pc[c] \in Served /\ Active(c)
      /\ op[c] \in Ops /\ id[c] \in 0..MaxCalls
      /\ to[c] >= 1 /\ to[c] \in 0..(NumMasters + 1) /\ to[c] \notin Masters
  BY ServedFacts DEF Answer, Served, Active, Typed, CallsOK, Serving
<1>1. /\ KeptBy(c, f) /\ \A d \in Callers : d # c => name[d] # f \/ pc[d] = "idle"
  BY <1>0, KeptAlone
<1>2. \A m \in Masters : Reached(c, m) /\ Noted(c, m)
  BY <1>0, MasterAssumption DEF Reached, Noted, Masters
<1>3. /\ \A m \in Masters : /\ m \in Up => HasEntry(m, f, Outcome(c))
                            /\ Alike(disk[m][f], Outcome(c))
      /\ Sound(answered[f]) /\ (op[c] = "add" => answered[f] # NoFile)
  BY <1>0, <1>1, <1>2 DEF KeptBy
<1>4. /\ UNCHANGED <<name, table, disk, restarted, elect>>
      /\ pc'[c] = "idle" /\ \A d \in Callers : d # c => pc'[d] = pc[d]
  BY ReturnEffect DEF Answer, zk, masters
<1>5. answered'[f] = Outcome(c)
  BY DEF Answer, Outcome, Typed, CountOK
<1>6. Sound(Outcome(c))
  <2>1. answered[f] \in Entries
    BY DEF Typed, CountOK
  <2>2. QED
    BY <1>0, <1>3, <2>1, ApplySound DEF Outcome
<1>7. ~Active(c)' /\ \A m \in Masters : ~Reached(c, m)' /\ ~Noted(c, m)'
  BY <1>4 DEF Active, Reached, Noted
<1>8. KeptBy(c, f)'
  <2>1. ASSUME NEW m \in Masters
        PROVE  /\ m \in Up' => HasEntry(m, f, answered[f])'
               /\ Alike(disk[m][f], answered[f])'
    BY <1>3, <1>4, <1>5 DEF HasEntry, Up
  <2>2. QED
    BY <1>5, <1>6, <1>7, <2>1 DEF KeptBy, HasEntry
<1>9. QED
  BY <1>1, <1>4, <1>8, KeptAlonePrime

\* recover() gives a restarted master what its log keeps.
LEMMA RestartKept ==
  ASSUME Typed, Serving, NEW f \in Files, Kept(f), NEW r \in Masters, Restart(r)
  PROVE  Kept(f)'
<1>0. /\ elect[r] = "down" /\ restarted' = restarted \cup {r}
      /\ UNCHANGED <<disk, pc, op, name, id, at, to, answered, open>>
      /\ table' = [table EXCEPT ![r] = disk[r]]
      /\ elect' = [elect EXCEPT ![r] = "exists"]
  BY DEF Restart, locals
<1>1. /\ table'[r][f] = disk[r][f]
      /\ \A m \in Masters : m # r => table'[m][f] = table[m][f]
  BY <1>0 DEF Typed, TablesOK
<1>2. \A m \in Masters : m # r => (m \in Up' <=> m \in Up)
  BY <1>0 DEF Up, Typed, ElectOK
<1>3. \A c \in Callers, m \in Masters :
        /\ Reached(c, m)' <=> Reached(c, m)
        /\ Noted(c, m)' <=> Noted(c, m)
        /\ Outcome(c)' = Outcome(c)
        /\ Active(c)' <=> Active(c)
  BY <1>0 DEF Reached, Noted, Outcome, Active
<1>4. \A c \in Callers : Reached(c, r) <=> Noted(c, r)
  <2>1. r \notin open
    BY <1>0 DEF Typed, ElectOK, Up
  <2>2. \A c \in Callers : pc[c] = "apply" => at[c] # r
    BY <2>1 DEF Serving, Served
  <2>3. QED
    BY <2>2 DEF Reached, Noted
<1>5. Sound(answered'[f]) /\ \A c \in Callers : Active(c)' /\ name'[c] = f =>
        /\ op'[c] = "create" => answered'[f] = NoFile
        /\ op'[c] = "add" => answered'[f] # NoFile
  BY <1>0 DEF Kept, Active
<1>6. ASSUME NEW m \in Masters
      PROVE  /\ \A c \in Callers : name'[c] = f /\ Reached(c, m)' /\ m \in Up' =>
                  HasEntry(m, f, Outcome(c))'
             /\ \A c \in Callers : name'[c] = f /\ Noted(c, m)' =>
                  Alike(disk[m][f], Outcome(c))'
             /\ (\A c \in Callers : name'[c] = f => ~Reached(c, m)') /\ m \in Up' =>
                  HasEntry(m, f, answered[f])'
             /\ (\A c \in Callers : name'[c] = f => ~Noted(c, m)') =>
                  Alike(disk[m][f], answered[f])'
  <2>1. /\ \A c \in Callers : name[c] = f /\ Noted(c, m) => Alike(disk[m][f], Outcome(c))
        /\ (\A c \in Callers : name[c] = f => ~Noted(c, m)) =>
             Alike(disk[m][f], answered[f])
    BY DEF Kept
  <2>2. /\ \A c \in Callers : name'[c] = f /\ Noted(c, m)' =>
             Alike(disk[m][f], Outcome(c))'
        /\ (\A c \in Callers : name'[c] = f => ~Noted(c, m)') =>
             Alike(disk[m][f], answered[f])'
    BY <1>0, <1>3, <2>1
  <2>3. CASE m = r
    <3>1. /\ \A c \in Callers : name'[c] = f /\ Reached(c, m)' =>
               HasEntry(m, f, Outcome(c))'
          /\ (\A c \in Callers : name'[c] = f => ~Reached(c, m)') =>
               HasEntry(m, f, answered[f])'
      BY <1>0, <1>1, <1>3, <1>4, <2>1, <2>3 DEF HasEntry
    <3>2. QED
      BY <2>2, <3>1
  <2>4. CASE m # r
    <3>1. /\ \A c \in Callers : name[c] = f /\ Reached(c, m) /\ m \in Up =>
               HasEntry(m, f, Outcome(c))
          /\ (\A c \in Callers : name[c] = f => ~Reached(c, m)) /\ m \in Up =>
               HasEntry(m, f, answered[f])
      BY DEF Kept
    <3>2. /\ \A c \in Callers : name'[c] = f /\ Reached(c, m)' /\ m \in Up' =>
               HasEntry(m, f, Outcome(c))'
          /\ (\A c \in Callers : name'[c] = f => ~Reached(c, m)') /\ m \in Up' =>
               HasEntry(m, f, answered[f])'
      BY <1>0, <1>1, <1>2, <1>3, <2>4, <3>1 DEF HasEntry
    <3>3. QED
      BY <2>2, <3>2
  <2>5. QED
    BY <2>3, <2>4
<1>7. QED
  BY <1>5, <1>6 DEF Kept

\* The calls that change f are left alone.
LEMMA KeptQuiet ==
  ASSUME NEW f \in Files, Kept(f), UNCHANGED <<pc, op, name, id, at, to, restarted>>,
         \A m \in Masters : table'[m][f] = table[m][f] /\ disk'[m][f] = disk[m][f],
         answered'[f] = answered[f], Up' \subseteq Up
  PROVE  Kept(f)'
<1>1. \A c \in Callers : (Active(c) /\ name[c] = f) <=> (Active(c)' /\ name'[c] = f)
  BY DEF Active
<1>2. QED
  BY <1>1, KeptFrame

\* So are they when c changes no file, or another one.
LEMMA KeptOther ==
  ASSUME NEW f \in Files, Kept(f), NEW c \in Callers, restarted' = restarted,
         elect' = elect,
         \A m \in Masters : table'[m][f] = table[m][f] /\ disk'[m][f] = disk[m][f],
         answered'[f] = answered[f],
         \A d \in Callers : d # c =>
           /\ pc'[d] = pc[d] /\ op'[d] = op[d] /\ id'[d] = id[d] /\ at'[d] = at[d]
           /\ to'[d] = to[d] /\ name'[d] = name[d],
         name[c] = f => ~Active(c), name'[c] = f => ~Active(c)'
  PROVE  Kept(f)'
<1>1. \A d \in Callers : (Active(d) /\ name[d] = f) <=> (Active(d)' /\ name'[d] = f)
  BY DEF Active
<1>2. Up' = Up
  BY DEF Up
<1>3. QED
  BY <1>1, <1>2, KeptFrame

\* The end of a master breaks no call on a file that is not fuzzy after it.
LEMMA DieKept ==
  ASSUME Typed, NEW f \in Files, f \notin fuzzy', Kept(f), NEW m \in Masters, Die(m),
         UNCHANGED <<table, disk, op, name, id, at, to, answered, restarted>>
  PROVE  Kept(f)'
<1>1. \A c \in Callers : name[c] = f => pc'[c] = pc[c]
  BY DEF Die
<1>2. \A c \in Callers : (Active(c) /\ name[c] = f) <=> (Active(c)' /\ name'[c] = f)
  BY <1>1 DEF Active
<1>3. Up' \subseteq Up
  BY DEF Die, Up, Typed, ElectOK
<1>4. QED
  BY <1>1, <1>2, <1>3, KeptFrame

LEMMA ServeKept ==
  ASSUME Typed, Elected, Shapes, Serving, expiries = 0, NEW f \in Files,
         f \notin fuzzy', Alone(f), Kept(f), NEW c \in Callers, Serve(c)
  PROVE  Kept(f)'
<1>0. CallsOK /\ CountOK
  BY DEF Typed
<1>1. CASE Dial(c)
  <2>1. /\ pc'[c] = "check" /\ pc[c] = "dial" /\ UNCHANGED <<restarted, elect>>
        /\ UNCHANGED <<table, disk, answered>>
        /\ \A d \in Callers : d # c =>
             /\ pc'[d] = pc[d] /\ op'[d] = op[d] /\ id'[d] = id[d] /\ at'[d] = at[d]
             /\ to'[d] = to[d] /\ name'[d] = name[d]
    BY <1>0, <1>1 DEF Dial, Goto, CallsOK, zk, masters, ghosts
  <2>2. ~Active(c) /\ ~Active(c)'
    BY <2>1 DEF Active
  <2>3. QED
    BY <2>1, <2>2, KeptOther
<1>2. ASSUME Return(c), UNCHANGED <<table, disk, elect, restarted>>,
             answered'[f] = answered[f], name[c] = f => ~Active(c)
      PROVE  Kept(f)'
  <2>1. /\ pc'[c] = "idle"
        /\ \A d \in Callers : d # c =>
             /\ pc'[d] = pc[d] /\ op'[d] = op[d] /\ id'[d] = id[d] /\ at'[d] = at[d]
             /\ to'[d] = to[d] /\ name'[d] = name[d]
    BY <1>2, ReturnEffect
  <2>2. ~Active(c)'
    BY <2>1 DEF Active
  <2>3. QED
    BY <1>2, <2>1, <2>2, KeptOther
<1>3. CASE Check(c)
  <2>1. pc[c] = "check" /\ ~Active(c) /\ pc[c] \in Served
    BY <1>3 DEF Check, Active, Served
  <2>2. CASE Refused(c)
    BY <1>2, <1>3, <2>1, <2>2 DEF Check, zk, ghosts
  <2>3. CASE ~Refused(c) /\ name[c] = f
    BY <1>3, <2>3, CheckKept
  <2>4. CASE ~Refused(c) /\ name[c] # f
    <3>1. \A m \in Masters : table'[m][f] = table[m][f] /\ disk'[m][f] = disk[m][f]
      BY <1>3, <2>4, CheckEffect DEF TableSet, DiskSet
    <3>2. /\ UNCHANGED <<restarted, elect, answered, op, id, at, name>>
          /\ \A d \in Callers : d # c => pc'[d] = pc[d] /\ to'[d] = to[d]
      BY <1>0, <1>3, <2>4 DEF Check, Goto, CallsOK, zk, ghosts
    <3>3. QED
      BY <2>4, <3>1, <3>2, KeptOther
  <2>5. QED
    BY <2>2, <2>3, <2>4
<1>4. CASE ApplyCall(c)
  <2>1. pc[c] = "apply" /\ pc[c] \in Served /\ at[c] \in Masters
    BY <1>4, ServedFacts DEF ApplyCall, Served
  <2>2. CASE op[c] = "add" /\ table[at[c]][name[c]] = NoFile
    BY <1>4, <2>1, <2>2, DieKept DEF ApplyCall, locals
  <2>3. CASE ~(op[c] = "add" /\ table[at[c]][name[c]] = NoFile) /\ name[c] = f
    BY <1>4, <2>3, ApplyKept
  <2>4. CASE ~(op[c] = "add" /\ table[at[c]][name[c]] = NoFile) /\ name[c] # f
    <3>1. \A m \in Masters : table'[m][f] = table[m][f] /\ disk'[m][f] = disk[m][f]
      BY <1>4, <2>4, ApplyEffect DEF TableSet, DiskSet
    <3>2. /\ UNCHANGED <<restarted, elect, answered, op, id, at, to, name>>
          /\ \A d \in Callers : d # c => pc'[d] = pc[d]
      BY <1>0, <1>4, <2>4 DEF ApplyCall, Goto, CallsOK, locals
    <3>3. QED
      BY <2>4, <3>1, <3>2, KeptOther
  <2>5. QED
    BY <2>2, <2>3, <2>4
<1>5. CASE Broadcast(c)
  <2>1. pc[c] = "bcast" /\ pc[c] \in Served /\ at[c] \in Masters
    BY <1>5, ServedFacts DEF Broadcast, Served
  <2>2. CASE Die(at[c]) /\ UNCHANGED to
    BY <1>5, <2>1, <2>2, DieKept DEF Broadcast
  <2>3. CASE ~Die(at[c]) /\ name[c] = f
    BY <1>5, <2>3, BroadcastKept
  <2>4. CASE ~Die(at[c]) /\ name[c] # f
    <3>1. UNCHANGED <<table, disk>>
      BY <1>5 DEF Broadcast
    <3>2. /\ UNCHANGED <<restarted, elect, answered, op, id, at, name>>
          /\ \A d \in Callers : d # c => pc'[d] = pc[d] /\ to'[d] = to[d]
      BY <1>0, <1>5, <2>4 DEF Broadcast, Onward, Goto, CallsOK
    <3>3. QED
      BY <2>4, <3>1, <3>2, KeptOther
  <2>5. Die(at[c]) => UNCHANGED to
    <3>1. ASSUME Die(at[c]) PROVE pc'[c] = "broken"
      BY <2>1, <3>1 DEF Die
    <3>2. CASE UNCHANGED to
      BY <3>2
    <3>3. CASE Onward(c)
      <4>1. pc'[c] = "bcast"
        BY <1>0, <3>3 DEF Onward, Goto, CallsOK
      <4>2. QED
        BY <3>1, <4>1
    <3>4. QED
      BY <1>5, <3>2, <3>3 DEF Broadcast
  <2>6. QED
    BY <2>2, <2>3, <2>4, <2>5
<1>6. CASE Pass(c)
  <2>1. CASE name[c] = f
    BY <1>6, <2>1, PassKept
  <2>2. CASE name[c] # f
    <3>1. \A m \in Masters : table'[m][f] = table[m][f] /\ disk'[m][f] = disk[m][f]
      <4>1. CASE to[c] \in open /\ Accepts(to[c], c)
        BY <1>6, <2>2, <4>1, PassEffect DEF TableSet, DiskSet
      <4>2. CASE ~(to[c] \in open /\ Accepts(to[c], c))
        BY <1>6, <4>2 DEF Pass
      <4>3. QED
        BY <4>1, <4>2
    <3>2. /\ UNCHANGED <<restarted, elect, answered, op, id, at, name>>
          /\ \A d \in Callers : d # c => pc'[d] = pc[d] /\ to'[d] = to[d]
      BY <1>0, <1>6 DEF Pass, Onward, Goto, CallsOK, zk
    <3>3. QED
      BY <2>2, <3>1, <3>2, KeptOther
  <2>3. QED
    BY <2>1, <2>2
<1>7. CASE Answer(c)
  <2>1. CASE name[c] = f
    BY <1>7, <2>1, AnswerKept
  <2>2. CASE name[c] # f
    <3>1. answered'[f] = answered[f]
      BY <1>0, <1>7, <2>2 DEF Answer, CountOK
    <3>2. QED
      BY <1>2, <1>7, <2>2, <3>1 DEF Answer, zk, masters
  <2>3. QED
    BY <2>1, <2>2
<1>8. CASE BrokenOff(c)
  <2>1. ~Active(c)
    BY <1>8 DEF BrokenOff, Active
  <2>2. QED
    BY <1>2, <1>8, <2>1 DEF BrokenOff, zk, masters, ghosts
<1>9. QED
  BY <1>1, <1>3, <1>4, <1>5, <1>6, <1>7, <1>8 DEF Serve

LEMMA KeptStep ==
  ASSUME Typed, Elected, Shapes, Serving, expiries' = 0, NEW f \in Files,
         f \notin fuzzy', Alone(f), expiries = 0 => Kept(f), [Next]_vars
  PROVE  Kept(f)'
<1>0. ElectOK /\ CallsOK /\ CountOK
  BY DEF Typed
<1>1. expiries = 0 /\ \A m \in Masters : ~Expire(m)
  <2>1. ASSUME NEW m \in Masters, Expire(m) PROVE FALSE
    BY <1>0, <2>1, BoundAssumption DEF Expire, CountOK
  <2>2. expiries' = expiries \/ \E m \in Masters : Expire(m)
    BY DEF Next, vars, ghosts, Elect, ElectExists, ElectAdd, ElectAddError, ElectWatch, Lead,
           Kill, Restart, SessionEnd, Serve, Dial, Check, ApplyCall, Broadcast, Pass, Answer,
           BrokenOff, Call
  <2>3. QED
    BY <2>1, <2>2
<1>2. Kept(f)
  BY <1>1
<1>3. ASSUME NEW m \in Masters, Elect(m) \/ ElectAddError(m) PROVE Kept(f)'
  <2>1. UNCHANGED <<table, disk, pc, op, name, id, at, to, restarted, answered>>
    BY <1>3 DEF Elect, ElectExists, ElectAdd, ElectAddError, ElectWatch, Lead,
                masters, locals, ghosts
  <2>2. elect[m] # "down" /\ \E s : elect' = [elect EXCEPT ![m] = s]
    BY <1>3 DEF Elect, ElectExists, ElectAdd, ElectAddError, ElectWatch, Lead
  <2>3. Up' \subseteq Up
    BY <1>0, <2>2 DEF Up, ElectOK
  <2>4. QED
    BY <1>2, <2>1, <2>3, KeptQuiet
<1>4. ASSUME NEW m \in Masters, Kill(m) PROVE Kept(f)'
  BY <1>2, <1>4, DieKept DEF Kill, locals
<1>5. ASSUME NEW m \in Masters, Restart(m) PROVE Kept(f)'
  BY <1>2, <1>5, RestartKept
<1>6. CASE SessionEnd
  <2>1. Up' \subseteq Up
    BY <1>0, <1>6 DEF SessionEnd, Up, Unwatched, ElectOK
  <2>2. QED
    BY <1>2, <1>6, <2>1, KeptQuiet DEF SessionEnd, masters, locals, ghosts
<1>7. ASSUME NEW c \in Callers, Serve(c) PROVE Kept(f)'
  BY <1>1, <1>2, <1>7, ServeKept
<1>8. ASSUME NEW c \in Callers, NEW o \in Ops, NEW g \in Files, Call(c, o, g)
      PROVE  Kept(f)'
  <2>1. /\ pc[c] = "idle" /\ pc'[c] = "dial"
        /\ UNCHANGED <<elect, restarted, table, disk, answered>>
        /\ \A d \in Callers : d # c =>
             /\ pc'[d] = pc[d] /\ op'[d] = op[d] /\ id'[d] = id[d] /\ at'[d] = at[d]
             /\ to'[d] = to[d] /\ name'[d] = name[d]
    BY <1>0, <1>8 DEF Call, Goto, CallsOK, zk, masters
  <2>2. ~Active(c) /\ ~Active(c)'
    BY <2>1 DEF Active
  <2>3. QED
    BY <1>2, <2>1, <2>2, KeptOther
<1>9. CASE UNCHANGED vars
  <2>1. Up' \subseteq Up
    BY <1>9 DEF vars, zk, Up
  <2>2. QED
    BY <1>2, <1>9, <2>1, KeptQuiet DEF vars, masters, locals, ghosts
<1>10. QED
  BY <1>1, <1>3, <1>4, <1>5, <1>6, <1>7, <1>8, <1>9 DEF Next

LEMMA KeptInvStep ==
  ASSUME Typed, Elected, KeptInv, [Next]_vars
  PROVE  KeptInv'
<1>1. Shapes' /\ Serving'
  BY ShapesStep, ServingStep DEF KeptInv
<1>2. ASSUME NEW f \in Files, f \notin fuzzy'
      PROVE  Alone(f)' /\ (expiries' = 0 => Kept(f)')
  <2>1. f \notin fuzzy
    BY <1>2, CallsContinue
  <2>2. Alone(f) /\ (expiries = 0 => Kept(f)) /\ Shapes /\ Serving
    BY <2>1 DEF KeptInv
  <2>3. QED
    BY <1>2, <2>2, AloneStep, KeptStep
<1>3. QED
  BY <1>1, <1>2 DEF KeptInv

\* What the leader has answered outlives it, for any number of masters, calls,
\* kills and restarts: if the calls on a file did not overlap and none broke
\* off, every running master's fileToChunkMap has the file as the last answered
\* call left it, and what recover() replays after a restart lacks at most the
\* location of an added chunk.
THEOREM AnsweredEverywhereHolds == Spec => []AnsweredEverywhere
<1>1. Init => Elected /\ KeptInv
  <2> SUFFICES ASSUME Init PROVE Elected /\ KeptInv
    OBVIOUS
  <2>1. Elected
    BY DEF Init, Elected, Owns
  <2>2. Shapes
    BY DEF Init, Shapes, Shaped
  <2>3. \A c \in Callers : pc[c] = "idle"
    BY DEF Init
  <2>4. Serving
    BY <2>3 DEF Init, Serving, Served, Active, Up
  <2>5. ASSUME NEW f \in Files PROVE Alone(f) /\ Kept(f)
    <3>1. Sound(answered[f]) /\ answered[f] = NoFile
      BY DEF Init, Sound, Shaped, NoFile
    <3>2. \A m \in Masters : table[m][f] = NoFile /\ disk[m][f] = NoFile
      BY DEF Init
    <3>3. \A c \in Callers : ~Active(c)
      BY <2>3 DEF Active
    <3>4. \A c \in Callers, m \in Masters : ~Reached(c, m) /\ ~Noted(c, m)
      BY <2>3 DEF Reached, Noted
    <3>5. Alone(f)
      BY <2>3 DEF Alone
    <3>6. \A m \in Masters : HasEntry(m, f, answered[f]) /\ Alike(disk[m][f], answered[f])
      BY <3>1, <3>2 DEF HasEntry, Alike
    <3>7. QED
      BY <3>1, <3>3, <3>4, <3>5, <3>6 DEF Kept
  <2>6. QED
    BY <2>1, <2>2, <2>4, <2>5 DEF KeptInv
<1>2. Typed /\ KeptInv => AnsweredEverywhere
  <2> SUFFICES ASSUME Typed, KeptInv, expiries = 0, NEW f \in Files, f \notin fuzzy,
                      ~Busy(f), NEW m \in Up
               PROVE  IF m \in restarted
                      THEN /\ table[m][f].place = answered[f].place
                           /\ table[m][f].ver = answered[f].ver
                      ELSE table[m][f] = answered[f]
    BY DEF AnsweredEverywhere
  <2>1. Kept(f) /\ m \in Masters
    BY DEF KeptInv, Up
  <2>2. \A c \in Callers : name[c] = f => ~Reached(c, m)
    BY DEF Busy, Reached
  <2>3. HasEntry(m, f, answered[f])
    BY <2>1, <2>2 DEF Kept
  <2>4. QED
    BY <2>3 DEF HasEntry, Alike
<1>3. QED
  BY <1>1, <1>2, TypedInvariant, ElectedStep, KeptInvStep, PTL DEF Spec
============================================================================
