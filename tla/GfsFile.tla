------------------------------ MODULE GfsFile ------------------------------
(***************************************************************************)
(* write() and read() of the client library (gfs_api.go) on a file of many *)
(* chunks: how a byte range is cut at the chunk boundaries, which chunk    *)
(* each piece goes to, and what happens when a chunk, or the file, is not  *)
(* there.  A chunk accessed under its lock is one step, as ChunkReplication*)
(* shows of its replicas (AtomicSpec).                                     *)
(*                                                                         *)
(* A byte moved is a pair <<position in the file, position in Data>>.      *)
(***************************************************************************)
EXTENDS Integers

CONSTANTS Clients,    \* goroutines that call the client library
          ChunkSize,  \* chunk_size, 1 MiB in the code
          Offsets,    \* offsets of the calls
          Sizes,      \* lengths of the calls
          MaxCalls,   \* bound on library calls
          Failover,   \* a new leader's znode may be seen before it leads
          Word        \* uint64: 2^64 in the code

ASSUME SizeAssumption == ChunkSize \in Nat \ {0}
ASSUME RangeAssumption == Offsets \subseteq Nat /\ Sizes \subseteq Nat
ASSUME FlagAssumption == Failover \in BOOLEAN /\ MaxCalls \in Nat
ASSUME WordAssumption == Word \in Nat /\ Word > ChunkSize

VARIABLES
  file,    \* the leader's entry: "live", "dying" under a delete, or "gone"
  chunks,  \* indexes of the chunks it has
  stored,  \* indexes of the chunks the chunkservers have
  doomed,  \* indexes of the chunks a delete is still to remove
  pc,      \* where each call is
  call,    \* the local variables of each call
  moved,   \* bytes each call has written or read
  calls    \* library calls so far

catalog == <<file, chunks, stored, doomed>>
vars == <<catalog, pc, call, moved, calls>>

\* A client between two calls.
NoCall == [op |-> "none", mode |-> "none", offset |-> 0, size |-> 0, index |-> 0,
           coff |-> 0, last |-> 0, left |-> 0, new |-> 0, whole |-> FALSE]

\* create() has made the file with one chunk.
Init ==
  /\ file = "live" /\ chunks = {0} /\ stored = {0} /\ doomed = {}
  /\ pc = [c \in Clients |-> "idle"]
  /\ call = [c \in Clients |-> NoCall]
  /\ moved = [c \in Clients |-> {}]
  /\ calls = 0

Goto(c, s) == pc' = [pc EXCEPT ![c] = s]

\* Indexes of the chunks that bytes offset .. offset + size - 1 are in.
Touched(offset, size) == {(offset + i) \div ChunkSize : i \in 0..(size - 1)}

\* Mutant: the last byte is compared with chunk_size, and with >.
ReachesPast(coff, size) == coff + size > ChunkSize + 1

\* A range that reaches the end of its chunk is cut into pieces.
Reaches(coff, size) == coff + size >= ChunkSize

\* Mutant: newsize takes no account of chunk_offset.
NewSizeFull(k) == ChunkSize

\* newsize: what the chunk has room for.
NewSize(k) == ChunkSize - k.coff

\* len(leftdata) of a write and lastsize of a read after its next piece.
LeftAfter(k) == IF k.op = "write" THEN k.size - (k.last + NewSize(k))
                ELSE k.size - NewSize(k)

\* After the loop: what is left is one piece more.
Rest(k) == [k EXCEPT !.mode = "tail"]

\* The head of the loop: one more piece up to the end of a chunk, or the rest.
Cut(k) == IF Reaches(k.coff, k.left)
          THEN [k EXCEPT !.mode = "bulk", !.new = NewSize(k), !.left = LeftAfter(k)]
          ELSE Rest(k)

\* Go on with the piece k, if there is one.
Continue(c, k) ==
  /\ call' = [call EXCEPT ![c] = k]
  /\ Goto(c, IF k.mode = "tail" /\ k.left = 0 THEN "done" ELSE "locate")

\* An empty read returns at once; an empty write is carried out.
Call(c, op, offset, size) ==
  /\ pc[c] = "idle"
  /\ calls < MaxCalls
  /\ op = "read" => size > 0
  /\ LET coff == offset % ChunkSize
         k == [op |-> op, mode |-> "single", offset |-> offset, size |-> size,
               index |-> offset \div ChunkSize, coff |-> coff,
               last |-> 0, left |-> size, new |-> size,
               whole |-> file = "live" /\ Touched(offset, size) \subseteq chunks]
     IN Continue(c, IF Reaches(coff, size) THEN Cut(k) ELSE k)
  /\ calls' = calls + 1
  /\ UNCHANGED <<catalog, moved>>

\* GetChunkLocation says -3: a cut write adds the chunk, a cut read leaves the
\* loop and asks once more.  An uncut call takes no notice: its chunk id is
\* "", and lock("/") waits for a znode that is never deleted.
Missing(c, k) ==
  CASE k.mode = "single" -> Goto(c, "stuck") /\ UNCHANGED call
    [] k.mode # "single" /\ k.op = "write" -> Goto(c, "add") /\ UNCHANGED call
    [] k.mode = "bulk" /\ k.op = "read" -> Continue(c, Rest(k))
    [] k.mode = "tail" /\ k.op = "read" -> Goto(c, "done") /\ UNCHANGED call

\* GetChunkLocation.  -2 ends the call; -4, from a master that does not lead
\* yet, is ignored like -3.
Locate(c) ==
  /\ pc[c] = "locate"
  /\ \/ file = "gone" /\ Goto(c, "failed") /\ UNCHANGED call
     \/ /\ file # "gone" /\ call[c].index \in chunks
        /\ Goto(c, "move") /\ UNCHANGED call
     \/ file # "gone" /\ call[c].index \notin chunks /\ Missing(c, call[c])
     \/ Failover /\ Goto(c, "stuck") /\ UNCHANGED call
  /\ UNCHANGED <<catalog, moved, calls>>

\* Mutant: the file's entry does not get the chunk, and the loop asks again.
AddChunkUnlisted(c) ==
  /\ pc[c] = "add"
  /\ \/ file = "gone" /\ Goto(c, "failed") /\ UNCHANGED catalog
     \/ /\ file # "gone"
        /\ stored' = stored \cup {call[c].index}
        /\ Goto(c, "locate") /\ UNCHANGED <<file, chunks, doomed>>
  /\ UNCHANGED <<call, moved, calls>>

\* AddChunk, with the same answers.  The second of two adds is like the first.
AddChunk(c) ==
  /\ pc[c] = "add"
  /\ \/ /\ file = "gone" /\ Goto(c, "failed") /\ UNCHANGED catalog
     \/ /\ file # "gone"
        /\ chunks' = chunks \cup {call[c].index}
        /\ stored' = stored \cup {call[c].index}
        /\ Goto(c, "move") /\ UNCHANGED <<file, doomed>>
     \/ /\ Failover /\ Goto(c, "stuck") /\ UNCHANGED catalog
  /\ UNCHANGED <<call, moved, calls>>

\* Length of the piece.
Length(k) == CASE k.mode = "bulk" -> k.new
               [] k.mode = "tail" -> k.left
               [] k.mode = "single" -> k.size

\* Mutant: the rest starts at newsize, as if there had been one piece.
FromNew(k) == IF k.op = "write" /\ k.mode = "tail" THEN k.new ELSE k.last

\* The place of its first byte in Data.
From(k) == IF k.op = "write" /\ k.mode = "tail" THEN k.size - k.left ELSE k.last

\* Bytebegin and Byteend of the request.
Bytebegin(k) == k.coff
Byteend(k) == IF k.op = "write" THEN (k.coff + Length(k) - 1) % Word
              ELSE k.coff + Length(k)

\* The bytes of a piece.  Over the end of its chunk a read gets zeros, which
\* are not a byte of the file.
Padding == -1
Place(k, i) == IF k.coff + i < ChunkSize THEN k.index * ChunkSize + k.coff + i
               ELSE Padding
Piece(k) == {<<Place(k, i), From(k) + i>> : i \in 0..(Length(k) - 1)}

\* Mutant: chunk_index++ is missing.
AdvanceStill(k) == [k EXCEPT !.coff = (k.coff + k.new) % ChunkSize,
                             !.last = k.last + k.new]

\* On to the next chunk; last is lastoffset of a write, len(Data) of a read.
Advance(k) == [k EXCEPT !.coff = (k.coff + k.new) % ChunkSize,
                        !.index = k.index + 1,
                        !.last = k.last + k.new]

\* lock, the call to the chunkserver, unlock.  A chunkserver without the chunk
\* ends itself, and the caller does not look at the result.
Move(c) ==
  /\ pc[c] = "move"
  /\ LET k == call[c]
     IN /\ moved' = IF k.index \in stored
                    THEN [moved EXCEPT ![c] = moved[c] \cup Piece(k)] ELSE moved
        /\ IF k.mode = "bulk" THEN Continue(c, Cut(Advance(k)))
           ELSE Goto(c, "done") /\ UNCHANGED call
  /\ UNCHANGED <<catalog, calls>>

Return(c) ==
  /\ pc[c] \in {"done", "failed"}
  /\ Goto(c, "idle")
  /\ call' = [call EXCEPT ![c] = NoCall]
  /\ moved' = [moved EXCEPT ![c] = {}]
  /\ UNCHANGED <<catalog, calls>>

\* DeleteFileAndChunksFunc: each chunk the entry has now, under its lock, then
\* the entry, with any chunk added meanwhile.
DeleteBegin ==
  /\ file = "live"
  /\ file' = "dying" /\ doomed' = chunks
  /\ UNCHANGED <<chunks, stored, pc, call, moved, calls>>

DeleteChunk(i) ==
  /\ i \in doomed
  /\ doomed' = doomed \ {i} /\ stored' = stored \ {i}
  /\ UNCHANGED <<file, chunks, pc, call, moved, calls>>

Forget ==
  /\ file = "dying"
  /\ doomed = {}
  /\ file' = "gone" /\ chunks' = {}
  /\ UNCHANGED <<stored, doomed, pc, call, moved, calls>>

-----------------------------------------------------------------------------
Step(c) == Locate(c) \/ AddChunk(c) \/ Move(c) \/ Return(c)

Next ==
  \/ \E c \in Clients :
       \/ Step(c)
       \/ \E op \in {"write", "read"}, offset \in Offsets, size \in Sizes :
            Call(c, op, offset, size)
  \/ DeleteBegin \/ Forget \/ \E i \in doomed : DeleteChunk(i)

Spec == Init /\ [][Next]_vars

\* A goroutine that is not blocked runs on.
FairSpec == Spec /\ \A c \in Clients : WF_vars(Step(c))

-----------------------------------------------------------------------------
(* Properties                                                              *)

\* The local variables of a call.
Locals == [op: {"none", "write", "read"}, mode: {"none", "bulk", "tail", "single"},
           offset: Nat, size: Nat, index: Nat, coff: Nat, last: Nat, left: Nat,
           new: Nat, whole: BOOLEAN]

\* left is a natural number: the slices of Data never leave Data.
TypeOK ==
  /\ file \in {"live", "dying", "gone"}
  /\ chunks \subseteq Nat /\ stored \subseteq Nat /\ doomed \subseteq Nat
  /\ pc \in [Clients -> {"idle", "locate", "add", "move", "done", "failed",
                         "stuck"}]
  /\ call \in [Clients -> Locals]
  /\ moved \in [Clients -> SUBSET (Int \X Int)]
  /\ calls \in 0..MaxCalls

\* The bytes a caller asked for, each in its place.
Asked(k) == {<<k.offset + i, i>> : i \in 0..(k.size - 1)}

\* A write that returns true has put every byte of Data in its place in the
\* file, and no other byte anywhere, however many chunks it crosses; unless
\* the file was being deleted.
WriteTiles ==
  \A c \in Clients :
    pc[c] = "done" /\ call[c].op = "write" /\ file = "live"
      => moved[c] = Asked(call[c])

\* A read called when the file had all the chunks of its range returns every
\* byte asked for in its place (over several boundaries it may return more).
ReadInOrder ==
  \A c \in Clients :
    call[c].op = "read" /\ call[c].whole /\ file = "live"
      => /\ \A b \in moved[c] :
              b[2] < call[c].size => b[1] = call[c].offset + b[2]
         /\ pc[c] = "done" => Asked(call[c]) \subseteq moved[c]

\* No write goes over the end of its chunk, where the chunkserver would end
\* itself with "Write bytes exceed".
PieceFits ==
  \A c \in Clients :
    pc[c] = "move" /\ call[c].op = "write" => Byteend(call[c]) < ChunkSize

\* Every call comes back, or waits for ever in lock("/"): the loops end.
LoopsEnd == \A c \in Clients : pc[c] # "idle" ~> pc[c] \in {"idle", "stuck"}
============================================================================
