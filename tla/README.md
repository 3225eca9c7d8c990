# Specifications of gdocs-k-on and of the MapReduce lab

TLA+ modules for the parts of this repository that carry its own distributed
logic: the document store of `gdocs-k-on/code` (a GFS-like file system with a
ZooKeeper lock, a group of masters and replicated chunks), the shared sheets
its web server builds on it, and the MapReduce of `lab4`. TLC checks the modules on small instances, TLAPS proves some of their
properties for every value of the constants. `PROJECT.json` is the index: which
definition stands for which lines, which run checks which property, which
mutation of the code each property notices, which hazard each property is for.

Run a model with `tlc -config ZkLock_lock.cfg MCZkLock`, check proofs with
`tlapm ZkLockProofs.tla`.

## 1. Inventory

### The document store

    browser --websocket--> web server (client/webserver.go, handlers_ws.go)
                             | calls
                             v
                           client library (client/gfs_api.go, lock.go)
                 RPC         |         RPC               ZooKeeper
        +--------------------+----------+---------------- "/master", "/<Chunkid>",
        v                               v                 "/<file>-<row>-<col>"
     leader master  --RPC-->       chunkservers
     (master/master.go)            (chunkserver/chunkserver.go)
        |  RPC broadcast                | RPC to each other (rpcToOtherChunk.go)
        v                               | RPC to the leader (rpcToMaster.go)
     other masters

| component | state | operations | interacts by |
|---|---|---|---|
| lock (`lock.go`, three copies) | one ephemeral znode per path, one-shot watches, sessions | `lock`, `locknotblock`, `unlock`, `close`, `lockmaster` | ZooKeeper requests |
| client library (`gfs_api.go`) | local variables of a call | `create`, `write`, `read`, `deletee` | RPC to the leader for locations, to a chunkserver for data, under the chunk's lock |
| leader master (`master.go`) | `fileToChunkMap`, `scheduleList`, `isLeader`, its log | `NewFileChunk`, `GetChunkLocation`, `AddChunk`, `DeleteFileAndChunks`, `UpdateChunkVersion`, `AcceptHeartbeat`, `timeup`, `recover` | serves clients and chunkservers, calls chunkservers, broadcasts to the other masters |
| other masters (`master.go`, `rpcToReplica.go`) | the same table and log | `Replica*` handlers, election | take the leader's broadcasts, wait on "/master" |
| chunkserver | chunk files, `nameToChunkMetadataMap`, its log | `Write`, `Read`, `Add`, `Delete`, `UpdateOwnChunkVersion`, heartbeat, `recover` | reports versions to the leader, writes to the other chunkservers |
| web server | `fileMap`, `trashMap`, `connMap`, `allConnMap`, `nodeMap`, `lockMap`; files "config" and "gDocLog" | one handler per websocket message | one goroutine per connection, no mutex |
| page of a document (`Luckysheet.js`) | `editLock`, the cell being edited, the cells shown | `editingCell`, `updateCell`, `MouseDownBefore`, `handleKeyPress`, `onMessage` | websocket messages, in order on each connection |
| other frontend views | lists of documents | | websocket messages |

None of the servers holds a mutex: every remote call starts a goroutine of
`net/rpc`, and the maps are shared between them. What orders accesses to a
chunk is only the ZooKeeper lock on its id, which covers the client's call to
the chunkserver and everything the chunkserver does in it, but neither the look
up of the location before it nor the adding of a chunk.

Hard behaviours: the race between `exists` and `create` and between `exists`
and `existw`; a request whose answer is lost; sessions that expire without
their owner being told; writes that are half way through their two replicas
when a server dies; handlers that outlive their caller; versions reported
before a crash and compared after it; masters that die in the middle of a
broadcast; byte ranges that end exactly at, or cross several, chunk boundaries;
handlers of two pages that read and write "config" or "gDocLog" piece by piece;
a change that is told after the lock was given back; a page that is reloaded
while its lock, its entry in `lockMap` or its requests are still there.

### MapReduce

The master (`master.go`, `schedule.go`) gives map, then reduce tasks to workers
that register over RPC; `schedule` runs one goroutine per task, which takes a
worker from a channel, calls it and puts it back. Workers (`worker.go`) accept
a limited number of connections. Tasks (`common_map.go`, `common_reduce.go`)
append to files of a shared directory, `merge` collects them. Hard behaviours:
workers that stop or die in a task, retried tasks that meet the files of their
first attempt, workers that are gone and still in the channel, connections in
the backlog of a listener that closes.

### What correctness means, by component

* lock: one holder at a time; no lost wake-up; no lock without an owner; progress.
* one chunk: replicas of one version are equal; the master knows the versions;
  an acknowledged write is not lost; calls are atomic and return; no server
  ends itself.
* a file: a call moves the bytes asked for, each to its place, once; loops end.
* the masters: one leader; what was answered is known everywhere; a leader is
  always found again; one dead master is survived.
* MapReduce: one task per worker, no record lost or doubled, the job ends.
* catalog: a document whose creation was answered stays until it is cleared;
  `fileMap`, `trashMap` and "config" tell the same story through restarts; a
  document that is open is not in the trash; no handler hangs.
* editing: whoever updates a cell has its lock; server and page know who has it;
  an edit that was begun ends.
* contents and log: the log has every change once and in order; a rollback
  restores exactly what it undoes and nobody else's work; pages show the file.

## 2. Modules

| module | models | variables and actions |
|---|---|---|
| `Mutex` | what a lock promises | who is inside; the promise is void once a session expired |
| `ZkLock` | `client/lock.go` on one path | `owner`, `watches` are ZooKeeper's; `pc` says before which request each goroutine is. One action per request: `Exists`, `Create`, `ExistsW`, `Wake`, `UnlockExists`, `Delete`; plus `CreateError`/`DeleteError` (answer lost), `Close`, `Expire` |
| `AtomicChunk` | what a chunk promises: atomic cells | |
| `ChunkReplication` | one chunk from `gfs_api.go` to the disks of its replicas | every handler split at its own remote calls; section 3 |
| `GfsFile` | `write` and `read` of `gfs_api.go` over chunk boundaries | `call` is the record of the local variables (`chunk_index`, `chunkoffset`, `lastoffset`/`len(Data)`, `leftdata`/`lastsize`, `newsize`); `mode` is the part of the function: the loop (`bulk`), after it (`tail`), or the branch without a cut (`single`) |
| `MasterGroup` | election, broadcasts and logs of the masters | `elect` is the goroutine of `main`, `pc` the handler of the leader between its remote calls, `disk` what `recover` would make of the log |
| `MapReduce` | `schedule`, the master, the workers, the shared files | `task[t]` is the goroutine of task t, `chan` the senders blocked on `registerChan`, `wpc` the accept loop of a worker |
| `DocCatalog` | the web server's list of documents: create, trash, recover, clear, open, crash and restart | `fileMap`, `trashMap`, `connMap`, `config` (count, length, rows), `stored`; `pc`, `name`, `local` are the handler of each connection |
| `DocEditing` | the editing of one document by several pages | `page`, `editLock`, `editing` are Luckysheet.js's; `inbox`, `outbox` the connections; `pc`, `cell`, `connMap`, `lockMap` the server's; `owner` ZooKeeper's |
| `DocHistory` | what is in the cells, "gDocLog", rollback, what pages show | `content`, `logLen`, `slots` are files; `view` what a page shows; `pc`, `local` the handlers |
| `MC*` | constants for TLC | |
| `ZkLockProofs`, `ChunkReplicationProofs`, `MapReduceProofs`, `GfsFileProofs`, `MasterGroupProofs`, `DocEditingProofs`, `DocCatalogProofs`, `DocHistoryProofs` | theorems | section 5 |

`ChunkReplication` uses the lock as an atomic step (its `holder`), which is what
`ZkLock` is shown to implement (`MutexSpec`). `GfsFile` uses a chunk accessed
under its lock as an atomic step, which is what `ChunkReplication` is shown to
implement without failures (`AtomicSpec`). `MasterGroup` names placements by the
call that chose them; which servers those are is in `ChunkReplication`. The three
`Doc*` modules use a `read`, a `write`, a `create` or a `deletee` of the library as
one step, which is what `GfsFile` shows of calls on existing chunks, and a cell
lock as `ZkLock` has it for a session that does not expire. `DocEditing` leaves
open what a rollback finds in the log; `DocHistory` has that, and takes from
`DocEditing` that a cell is updated by the owner of its lock
(`UpdateUnderLock`).

## 3. Correspondence to the code

**ZkLock.** A request to ZooKeeper is atomic, the Go code between two requests
is local. `exists` repeats failed requests in place, so only requests with an
effect (`add`, `remove`) have an error variant; `CreateError` may or may not
have created the znode. `remove` passes version 0 and so deletes whatever znode
is there. A session that expires takes its znode and its watches with it and
the caller is not told.

**ChunkReplication.** `fmap` is what `fileToChunkMap` has of the file, `locs`
and `mver` the two `Chunklocation`/`Version` pairs, `alive` and `chunkNum` are
`scheduleList`. On the servers `has` and `data` are the chunk file, `ver` the
version in memory, `logged` the one `recover` will read, `doomed` a log that
`recover` cannot replay. A write is `Locate`, `Lock`, `WriteChunk` (log, disk,
version), `Report` (`updateMasterVersion`), then for each server of
`AllServerLocation` `Broadcast` and that server's own `ReplicaReport`, then
`LogVersion` and `Unlock`. `AddCall`/`Add1`/`Add2`/`AddRecord` are `AddChunk`
with its two calls; `Delete*` and `Forget` are `DeleteFileAndChunks`.
`log.Fatalln` and panics take the process down. `Crash` ends a server: the
calls it serves fail, and what it had already sent may still arrive (`late`).
`timeup` knows only that no heartbeat came for three seconds, so `Timeup` may hit
a server that runs (`MaxSlow` times); `AcceptHeartbeat` brings it back. `astray`
records what version numbers cannot mend: a write that left out a running
replica (`LeftOut`), and a write served while a call of a dead server was under
way. No action looks at it. Differences in detail: an `Add` call that fails after
its dial (`rpcToChunkServer.go:64-69`; a dead server is found at the dial) is not
in the model, so `NoServerFatal` says nothing of it; the empty entry
`UpdateChunkVersionFunc` makes for a file that was deleted is left out;
`Restart` reads back the whole version where `recover` takes one digit; a server
the master has never heard of (`isNew` in `AcceptHeartbeat`) does not join.
Contents are one stamp per cell, the number of the write that last reached it,
so that equality and "not older than" can be asked.

**GfsFile.** A byte is a pair of its place in the file and its place in the
caller's data, so a skipped, doubled or displaced byte shows. `Byteend` of a
write is computed in unsigned words as in `rpcToNodeWriteChunk`. An answer -3 or
-4 that the code ignores leads to `lock("/")`, whose znode is never deleted:
the state "stuck".

**MasterGroup.** Handlers run to their first remote call (`Check`), are done
after the chunkservers answered (`ApplyCall`) and pass the call on master by
master in the order of the ports (`Broadcast`, `Pass`). The nil connection that
everything except `AddChunk` uses after a failed dial is `Die`. `Replay` is
`recover`, with its wrong offsets for added chunks. `znode` is the owner of
"/master", `left` says that the process whose session owns it has ended: a master
restarted before ZooKeeper ends that session (`SessionEnd`) finds the znode of its
former process. `ElectAddError` is the failed `add("/master")`, with the znode made
or not; the master then tries again and may find its own znode. `Lead` takes
`isLeader = true` and the first `Listen` as one step: calls that arrive between them
find no listener, as before.

**MapReduce.** A map task writes one record into each bin; a file is the number
of copies of it. `Limit` is `nRPC`, `Process` says whether `RunWorker` is the
whole process (`main/wc.go`) or a goroutine (`test_test.go`).

**DocCatalog.** `reader` runs one handler after another for its connection; each
is split at its calls to the library and between a check of a map and what
relies on it (`TrashCheck`/`Trash`, `Open`/`Lookup`). `handleCreate` is
`CreateCheck` to `CreateSetLen`; `changeValidBit` is `BitLen`, `BitFind`, `BitSet`;
`clearTrash` is `Clear` to `ClearDelete`; `main` is `Init` the first time and
`Restart` later; `Init` may also find that the process before died between
`create("config")` and the header. A "config" is a count, a length and rows, and
positions are counted in rows. `Find` is `strings.Index`, which looks for the bytes
of a name anywhere: `Inside` holds the pairs of names of which the first occurs in
the row of the second ("file" and "file1"), and `Find` returns the first row that has
them. `Own` says whether that is the right row. A name that is not found has index
-1, and the bit goes to byte 7 + its length: for names in `Short` into the leading
zeros of `totalLen`, for longer ones further on, into the last digits or the first
row. A bit or a cut at a wrong place is recorded in `misplaced`, and what the garbled
"config" reads as is not followed any more (`Followed`), except by handlers that
have read it already. Two values of the length are no number of rows: `Far`, after
the bit "1" went into the header, and `Under`, a negative length, which the header
cannot hold, or no header yet. A row written over the header (`CreateRow` with
`Under`) is not followed, and names that occur in the digits of the header are left
out. `write` never shortens a file, so `ClearWrite` leaves the last row behind the new length. A map that lacks a
key reads as 0, `Absent` is a key that is not there. Requests name any document,
since pages act on lists that may be old. `clash`, `stale`, `torn` and `orphans`
record which overlaps, misdirected requests and crashes have happened; no action
looks at them.

**DocEditing.** The user's actions are those of Luckysheet.js: `Update` (which
`cellUpdated` and `MouseDownBefore` both end in), `ClickAway` before a grant,
`EditingCell`, `AskRollback`, `Leave`. A message is heard whole (`OnMessage`).
`handleEdit` is `TryLock` and `Announce`, `handleUpdate` is `Write`, `Unlock`,
`Spread`, `handleOpen` is `CreateConnect` and `OpenInfo`, `removeConn` is
`RemoveConn`, which comes when the page is gone and its requests are read. FAILOCK
and refused rollbacks change nothing at the page and are not messages of the
model. An announcement may end at any connection whose page is gone (`Before`),
because a write to a closed websocket may fail or not. `WideCells` allows the
panic on a full cell. `upsets` records what came between an editor and its lock:
a page that took an entry of its user's name for its own ("mistaken"), an
announcement that did not reach the holder ("untold"), a change told after the
next lock ("overtaken"), a lock whose holder is told FAILOCK ("unaware":
`TryLockLost`, where `locknotblock` lost the answer of `add`, tried again and found
its own znode).

**DocHistory.** A cell is `Width` units; a value is a sequence of units of at least
five bytes, so that the search for five spaces finds the first blank unit.
`OldValue`, `Cut`, `Put` and `Pad` are the slicing and padding of `handleUpdate` and
`handleRollBack`. The file and the log get the cut value, the pages the message as
it came (`sent`). What a page shows in a cell is a value or `Notice`, "X is editing",
which the announcement of an edit (`Note`) puts there on other users' pages and
FILELOCKINFO (`OpenInfo`) on a page that opens the document. `writeLog` is `LogLen`, `LogHead`, `LogSlot`; entries have one
length, and a slot that is counted and not written (`Hole`) hides the entry after
it, since the two are read as one piece. `Aims` is what the counter `skipNum` of
`handleRollBack` comes to when it walks back through the log, `Taken` is `rcSlice`. `journal` is the history of changes the properties
compare the log with; `upsets` records overlaps and a crash between a change and
its entry. No action looks at either.

## 4. Runs

| run | instance | shows |
|---|---|---|
| `lock` | 3 callers, 1 failed request, 1 expiry | mutual exclusion before an expiry, no orphaned lock, refinement of `Mutex`, progress |
| `repl_safe` | 3 clients, 2 cells, 3 servers, 4 calls | `ReplicasAgree`, refinement of `AtomicChunk`, every call returns |
| `repl_crash` | 3 clients, 2 cells, 3 calls, a delete, 1 crash for good, 1 time-out of a running server | the replica that is chosen has every acknowledged write and its version is known, until a write leaves out a running replica or overtakes a stray call; deleted chunks are gone |
| `repl_chaos` | an added chunk, 2 clients, 3 calls, 2 crashes, 1 restart, 1 time-out of a running server | no step but a crash ends a chunkserver: none is asked for a chunk it lacks |
| `repl_added` (violation) | an added chunk | `ReplicasAgree` fails: the write that adds a chunk has no server list to broadcast to |
| `gfs_ranges` | 2 calls of 1, 3 or 7 bytes from offset 2 or 4, chunks of 3 bytes, a delete, -4 answers | `WriteTiles`, `ReadInOrder`, `PieceFits`, the loops end |
| `masters` | 3 masters, 2 calls, 1 kill or expiry, 1 restart, 1 failed `add("/master")` | `OneLeader`, `AnsweredEverywhere`, a leader is elected unless a master waits for itself |
| `masters_kill` (violation) | 3 masters, creates, 1 kill | `OneKillSurvived` fails: the leader panics on the dead master, and so does its successor |
| `mapreduce` | 2 map and 2 reduce tasks, 2 workers, 1 quits, 1 killed | one task per worker, no lost record, exact output without kills, the job ends |
| `catalog` | 2 connections, 2 names, one found in the row of the other and one too long for the header, 4 requests of any kind, 1 crash | `NoDocumentLost`, `MapsAgree`, `OpenNotTrashed`, `NoHang` |
| `edit` | 2 users, 1 cell, 3 pages one after another, 2 edits or rollbacks, lost answers of ZooKeeper | `UpdateUnderLock`, `HolderKnown`, `EditEnds` |
| `history` | 2 users, 2 cells, 4 requests, 1 crash, values of one and four units, cells of three | `LogComplete`, `RollbackExact`, `PagesAgree` |

`PROJECT.json` quotes, under "findings", what the documents say about each of
the two violations.

### Bounds

* Three lock callers: a holder, a waiter and one that comes between. A request
  or a session can be lost at any step.
* Three servers of which two have the chunk: the broadcast reaches one that has
  not. Two cells tell a lost write from an overwritten one. Three calls of three
  clients: two writes race, a third reads or deletes; in `repl_safe` there is a
  fourth, so that one caller calls again.
* Chunks of three bytes, calls of one, three and seven bytes: within a chunk, to
  exactly its end, over three boundaries; two calls so that one finds the
  chunks the other adds.
* Three masters are what the code starts; two calls are a create and a change or
  a delete of what was created, or two creates. Restarts with one fault: a master
  that was away. Longer sequences of calls are covered by the proof of
  `AnsweredEverywhere`.
* Two tasks per phase and two workers: a retry on the other worker, and a worker
  that comes back into the channel while tasks wait.
* Four requests to the catalog: a document is created, trashed, recovered or
  cleared, and another request overlaps the last of them; two names, so that a row
  moves when the one before it is cut out, and so that each kind of name that
  `strings.Index` treats differently is there.
* Three pages and two requests for one cell: an editor, a rival or a rollback
  beside it, and a page that is reloaded. Cells do not share state except
  `editing` and the order of messages; an instance with two cells and queues of two
  messages passed as well.
* Four requests, two cells, cells of three units in the history: two updates and
  two rollbacks of one user, or an update of the other user in between. The value of
  four units is cut and fills its cell, so that the next update of it panics, as it
  leaves no blank unit. An instance with a third value, of two units, which can also be
  written over by the shorter one, passed as well (3.9 million states).
* `Word` is 8 or 256 in the place of 2^64: unsigned wrap-around happens.
* One time-out of a running server in `repl_crash` and `repl_chaos`: the two writes
  after it on two cells, with a heartbeat between them, are what loses a write once
  the first of them left the server out. Calls of dead servers arrive arbitrarily late.

`CHECK_DEADLOCK FALSE` in all runs: the bounds on calls let every instance come
to an end, and some states in which nobody can move are the code's own (a lost
`create` answer, a client that died with the lock, `lock("/")`).

### Symmetry

The safety runs of `ChunkReplication` use the permutations of the clients
(`Perms`): nothing in the module orders them. Servers are numbered and not
permuted. `catalog` permutes connections and names; `history` permutes cells, and
exchanges the two users together with their pages. Runs with liveness or refinement use no symmetry.

### Fairness

* `ZkLock`: a goroutine inside `lock` or `unlock` runs on, and a holder gives the
  lock back, as every `lock` of `gfs_api.go` and `master.go` is followed by
  `unlock`. Weak fairness only; nothing is said about who wins.
* `ChunkReplication`, `GfsFile`: goroutines run and calls return; heartbeats of a
  server that runs come, and so does the timer of one that is down. That a running
  server is timed out is never obliged to happen.
* `MasterGroup`: as above, and ZooKeeper ends the session of a dead master.
* `MapReduce`: strong fairness for handing out a worker. Receives from
  `registerChan` are not continuously enabled, as the task that waits may change;
  but a Go channel serves its blocked senders first in, first out, so a worker
  that waits is handed out if tasks keep asking.

* `DocEditing`: goroutines run, a message that was sent arrives while the page is
  open, and a user who is in a cell ends the edit some time (`EndEdit`). A user need
  not leave or be told anything.

Nobody is obliged to call, to crash, or to be started again.

## 5. Proofs

`ZkLockProofs`, for any set of callers and any number of faults and expiries:

* `TypeCorrect`: `Spec => []TypeOK`.
* `MutualExclusionHolds`: `MutualExclusion` is not inductive, as it does not say
  whose znode keeps the others out. The strengthening is `HolderOwnsNode`: until a
  session expires, whoever is between lock and unlock owns the znode.
* `NoLostWakeupHolds`: from `WatchesHaveNode`: a pending watch implies a znode,
  because the answer and the watch of `ExistsW` are one request and every step
  that removes the znode fires all watches.
* `NoOrphanedLockHolds`: inductive together with types.
* `ImplementsMutex`: `Spec => MutexSpec`; initial states map to initial states, and
  each step is a step of `Mutex` or a stutter, by `HolderOwnsNode`.

`ChunkReplicationProofs`, for any clients, cells, servers, calls and failures:

* `TypeCorrect`: one lemma for each group of variables (`MasterOK`, `DisksOK`,
  `CallsOK`, `CountOK`), one step per action. It contains that `ChunkNum` stays a
  word although two deletes of one file lower it twice.
* `NoServerFatalHolds`, where no request is a delete: no step but a crash from outside
  takes a server out of `up`. By `Homed`: whoever is asked for the chunk has it, because
  a server is placed before its address is given out and disks keep what they have
  through crashes and restarts.
* `DeletedChunksGoneHolds`, without conditions: by `Shrinking`, which says how far
  deletions have come while no server crashed: chunk files only disappear, the first
  replica's before the second's, and both before the entry of the file.
* `ReplicasAgreeHolds`, `VersionsTrackedHolds`, `NoLostWriteHolds`, under `ForGood`: the
  chunk was made by `create` and servers that crash stay down (`MaxRestart = 0`). Servers
  that run may be timed out and come back, any number of times; the three properties
  end (`astray`) with the first write that leaves out a running replica or is served
  while a call of a dead server is under way. The conditions are needed: section 6
  and the run `repl_added` have the failures without them. The three speak of moments
  when the lock is free; what has to hold during a write, as long as `astray` is empty,
  is `ForGoodInv`:
  only the holder of the lock is past it (`Exclusive`); the chunk stays where `create`
  put it, and a write is served by the second replica only when the first is down, since
  otherwise it leaves the first out (`Placed`); no running replica, and no call under way, carries an older stamp than
  the last write that returned (`Stamped`); two running replicas differ at most in the
  cell that is being written (`Mirrored`); what the master still has to be told about
  a running replica is on its way to it (`Tracked`); and a call whose caller has given
  up is at a replica that runs only when that is the second, alone, and no write is in
  progress (`Landing`).
* `ImplementsAtomicChunk`, under `Sunny` (no crash, no time-out of a running
  server, no delete, a chunk made by `create`): `Spec => AtomicSpec`. A write takes effect at `WriteChunk` on the first
  replica, a read at `ReadChunk`; each other step is a stutter, by `Exclusive` and
  `Calm`: all servers stay, and the master's version of the first replica is never
  the lower one, so every call is sent to the replica that is written first.

`MapReduceProofs`, for any workers, numbers of tasks, connection limits and kills:

* `TypeCorrect` and `OneTaskPerWorkerHolds`, together from `HandedOut`: a worker that
  was forwarded to the phase is in the channel or called by one task. Neither is
  inductive alone, as the channel is filled by the tasks that give workers back.
* `NoLostRecordHolds`: from `RecordsKept`, which says phase by phase what the files
  hold: a task that is done has appended its records, and files only grow, so a
  retry, a kill in the middle of a task or a late worker cannot take any away.
* `ExactOutputHolds`, for workers that are goroutines (`~Process`, as in the tests):
  from `RecordsOnce`: the record of a map task is in the files once from the moment
  the task has run, a reduce task answers once, and a task whose goroutine has not
  started has not run. A call fails only before the worker accepts it, so what is
  given out again has not run.

`GfsFileProofs`, for every chunk size, set of offsets and lengths, word and number
of clients. The invariant is `Tiling`. In it `AtByte` ties the loop to the file,
`index * ChunkSize + coff = offset + last`; `Shape` says what `leftdata`, `lastsize`
and `newsize` are in each part of the functions; `Done` says which bytes have been
moved; and `Past` is the one way a read goes wrong, harmless to the bytes it was
asked for: `lastsize` does not count the pieces before the last, so over several
boundaries a read goes on behind its range.

* `TypeCorrect`: what is left of a range is never negative, so no slice leaves the data.
* `WriteTilesHolds`, `ReadInOrderHolds`: what `write` and `read` promise.
* `PieceFitsHolds`: no piece crosses the end of its chunk, if no call is empty. The
  condition is needed: `Byteend` of an empty write at the start of a chunk wraps.

`MasterGroupProofs`, for any masters, callers, files, calls, kills, expiries, restarts:

* `TypeCorrect`: by `Typed`, which adds to the types that a served call has a master
  and an operation, and that an entry of a log is either replayed to a proper entry
  or `Broken`, which a restart does not survive.
* `OneLeaderHolds`: by `Elected`: who has `isLeader` has won its election, and until
  a session expires whoever has won owns "/master" with the session of its own process.
* `AnsweredEverywhereHolds`, without conditions: by `KeptInv`, which says for a file
  whose calls did not overlap what each table, the log of each master and the call
  under way make of each other: masters before the one being told have the change,
  masters after it do not, and a log replays to the table up to the places `recover`
  misreads.

`DocEditingProofs`, for any connections, users, cells and bounds:

* `TypeCorrect`: one lemma for the pages, one for messages, one for the handlers.
* `UpdateUnderLockHolds`: `UpdateUnderLock` speaks of the page, the requests and the
  handler of an update, and is not inductive, as the right to update comes from the
  server in a message. The invariant `OneToken` follows that right as a token: the
  lock just taken (`Held`), its announcement in the outbox (`Granted`), the entry of
  `editLock` (`MayUpdate`), the update in the inbox (`Asked`), the handler of the
  update (`Held` again). A connection has the token of a cell at most once, and
  only while the lock is its own. `Forgotten` says that a closed page has none. The
  lemma `Frame` deals with every step that creates no token, so that `TryLock`,
  `Announce`, `OnMessage`, `Update`, `EditingCell`, `Write`, `Unlock` and `RemoveConn`
  are what is left to argue about.
* `HolderKnownHolds`: by `OneToken` and `Holding`: the right to a lock is with the
  holder's handler, page or requests (`Along`, the converse of the above), and its
  user is in `lockMap` except while one of the holder's own handlers is at work
  (`Entered`), both as long as no answer that a lock was taken was lost.

`DocCatalogProofs`, for any connections, names, requests and crashes:

* `TypeCorrect`: by `Fits`, which bounds where a handler is about to write: rows are
  written at most one behind the end, so "config" never gets a gap, even when
  handlers overlap and cut out each other's rows. What `Find`, `Within`, `Without` and
  `Overwrite` compute is stated first; that `strings.Index` finds the first row with the
  bytes of the name, and that it is the name's own row unless `Own` says otherwise, is
  `FindIs` with the lemma `Least`, from the well-foundedness of the numbers.
* `OpenNotTrashedHolds`: by `Connected`: a page that shows a document, or is about to,
  is in `connMap` where `moveToTrash` looks.
* `NoDocumentLostHolds`, `MapsAgreeHolds`, `NoHangHolds`: from one invariant, `RowsInv`,
  with three layers, each as long as nothing has happened that the code does not
  stand. `Rows(n)`, while no two handlers changed the number of rows together and no
  name was found in the row of another: the
  first n rows are those of the created documents, each once; a document on its way
  in or out has its file and no row (`Between`); and what a handler has read still
  fits (`Knows`). The number n, not the length in the header, is what the argument
  follows, since the header may be overwritten and restored by a create that read it
  before. `Listing(n)`, while besides no bit was marked beside a change of its row and
  no request was stale: every file belongs to a row in a map or to a handler.
  `Exact(n)`, while besides no crash tore a create: count and length are n and the
  maps are what the rows say, but for documents somebody moves or clears; every name
  that is looked for is found, so no bit goes into the first row. Each layer
  has one lemma per group of actions; the two steps that change n (`CreateSetLen`,
  `ClearWrite`) have their own. If `clearTrash` writes the overwritten length back,
  nobody remembers n any more (`Spoilt`); and if `main` died before it wrote the header
  no create ever ends (`Headless`).

`DocHistoryProofs`, for any connections, users, cells, values, width, requests and
crashes:

* `TypeCorrect`: by `Typed`: values in entries are no longer than a cell (`Fitting`), so
  that cutting, padding and writing back stay within it.
* `PagesAgreeHolds`: by `Recorded` (the journal says what each change wrote, and a
  handler's mark is the number of its change) and `Shown`: a page that has been sent the
  document shows a cell as it is, or as it was sent before it was cut, or the notice of
  an edit, except where a change is still to be told (`Pending`). `Edited`: a cell with a
  notice is locked, or its change is still to be told.
* `LogCompleteHolds`: by `Noticed` (every overlap of handlers is in `upsets`) and, while
  nothing spoiled the log, `Even` (the header fits the entries), `Begun` (the log is a
  beginning of the journal) and `Owed`: the rest of the journal is with the handlers, one
  change each, and who is writing has the first of it.
* `RollbackExactHolds`: the property compares a rollback with `Undoable`, a recursive
  function of the history, while `handleRollBack` counts in the log. What ties the two
  is `Stacked`: between one update that is left to undo and the next, everything is
  undone (`Undid`), that is, each update of the user has more rollbacks than updates after
  it, and a cell that only this user changed has its value back. It is kept by an
  update, by a rollback of the last one left, and by changes of others. Hence the last
  update with as many rollbacks as updates after it, which is where `handleRollBack`
  stops, is the last one left (`AimIsTop`); and if no update of another user is in
  `rcSlice`, no rollback of another user changed the cell either (`NotTaken`), as it would
  have undone an earlier update and ours lies between. The rest of `Exacting`: cells are
  filled from their start, so `OldValue` is all of the value and padding over the new one
  brings it back (`Filled`, `PutBack`); a rollback that reads the log finds all changes in
  it, and what it has decided on stays right until it writes (`Aiming`). `Locked` (who
  writes has the lock) and `Traced` (the journal says what was in the cells) hold
  without conditions. What `Undoable` computes is obtained by showing that the
  function exists, from the well-foundedness of the numbers (`RestsExist`), not by the
  library's induction.

The attempt to prove those of `DocCatalog` corrected two properties that had passed with the
run's four requests: `NoDocumentLost` is false after the length was overwritten, and `NoHang`
after creates overlapped, with seven and with five requests; both now say so, and
section 6 has the behaviour.

Assumptions are those on the constants, named in the modules: callers are not
the "nobody" value, bounds are natural numbers, there are at least two servers,
chunks have at least one byte and fewer than the word can count, and no value that a
user writes holds a blank unit (five spaces).

Beyond them, `ForGood`, `Sunny`, "no request is a delete" and `~Process` are hypotheses of
the theorems named above, where the property is false without them; they are the
values that the runs which check these properties give the constants.

Only model-checked: all liveness (fairness and `ENABLED` are out of the prover's
reach). Every invariant and every refinement that a passing run checks is proved, under
the hypotheses named above. `NoLostWakeup` of `ZkLock` is the other way round: it is
proved, and no run repeats it.

## 6. Known behaviour without a run of its own

Met while modelling; the model has it, and the properties above are stated so
that they are true beside it, or it is outside the modelled part.

* `unlock` after a session expiry deletes the znode of the next holder
  (`client/lock.go:137`).
* Two writes that both find a chunk missing both add it; the second `Add` truncates
  what the first write stored (`master.go:170`). A location read before a delete is
  used after it, and the chunkserver ends itself (`chunkserver.go:166`).
* A client that cannot dial a chunkserver panics with the chunk lock held
  (`gfs_api.go:378`).
* A read over two boundaries or more reads on to the end of the file
  (`gfs_api.go:200`); one that races an append may be padded with zeros
  (`gfs_api.go:209`); an uncut call on a missing chunk, or a call answered -4 by a
  master between `add("/master")` and `isLeader = true`, waits for `lock("/")` for
  ever.
* `create` ignores the error of its call and returns true (`gfs_api.go:73`).
* `Add`'s Version record lacks a "/", so `recover` panics (`chunkserver.go:124`); a
  version of two digits is read back as one.
* A leader whose session expired goes on leading; chunkservers keep reporting to
  it (`rpcToMaster.go:77`). Overlapping creates and deletes reach the other masters
  in different orders. A master whose `add("/master")` made the znode and lost the answer
  finds it there and waits for it (`master/lock.go:125`): nobody leads until that
  master ends or its session does. `recover` takes the file name of an added chunk for its
  location (`master.go:584`). `UpdateChunkVersionFunc` on an absent file makes an
  empty entry.
* A chunkserver whose heartbeats are late is marked dead although it runs
  (`master.go:541`); a write that is located then leaves it out. When it is back it
  takes the next write to another cell together with the caller's version, and
  `GetChunkLocation` prefers it again: an acknowledged write is lost
  (`master.go:147`). `NoLostWrite` stops at the write that left it out. So it does at a
  write that is served while a call of a dead chunkserver is under way, which may
  land on top of it.
* With a restart (`MaxRestart = 1` in `repl_crash`) `NoLostWrite` fails: version numbers
  count the writes a replica took, so the stale replica can be chosen. With empty
  calls (`Sizes` with 0 from `Offsets` {0}) `PieceFits` fails. With workers that are
  processes (`Process = TRUE`) `ExactOutput` fails: the connection limit ends the
  process in its last task and the retry appends.
* Two creates at once, or a create beside a clear, overwrite each other's row of
  "config" (`handlers_ws.go:175`): after a restart a document is gone. A crash
  between the writes of a create or a clear leaves a file no list has, whose name
  cannot be used again.
* `changeValidBit` and `clearTrash` look for a name among all bytes of "config"
  (`handlers_ws.go:527`, `:686`). With documents "file1" and "file", created in this
  order, trashing "file" writes the bit into the row of "file1", and clearing "file"
  cuts that row up: one user, no crash. A document that is not in "config" has index
  -1: for a name of nine bytes or more the bit, 0 or 1, goes into the first row
  (`handlers_ws.go:529`).
* If `main` dies between `create("config")` and the write of the header
  (`webserver.go:232`), the next start takes the empty file for a "config", and the
  first document's row is written over the place of the header.
* Recovering a document that is not in "config", which a page with an old list
  does, sets a digit of `totalLen` if its name is short; the next create waits for ever.
  From then on `clearTrash` finds the rows that were left
  behind the end: clearing a name a second time takes the row of another document
  out of what is counted, which a restart no longer lists (seven requests of one
  connection). After two creates that overwrote each other's row, trashing and
  recovering the one without a row has the same effect (five requests).
* `removeConn` closes the session, which gives the locks back, and leaves the names
  in `lockMap`: other pages show an editor who is gone and do not ask for the cell,
  and the user's own reloaded page takes the name for a grant and updates without
  a lock.
* `locknotblock` whose `add` made the znode and lost the answer finds it there and
  returns false (`client/lock.go:125`): the page is told FAILOCK and the cell is
  locked until the page is closed. So it is when the grant comes to a page whose user
  has clicked away (`Abandoned`).
* A change is told after the unlock: the page of the next editor may take it for the
  end of its own edit, and then keeps a lock it does not know of. An announcement
  ends at the first broken connection (`handlers_ws.go:509`).
* A cell without five spaces at its end makes `handleUpdate` panic with the lock held
  and the entry in `lockMap` (`handlers_ws.go:304`).
* A value longer than a cell is cut in the file and in the log, and shown whole on the
  pages that were open (`handlers_ws.go:346`). A shorter value leaves the end of the
  longer one in the file. `handleOpen` may send
  cells it read before a change the page was already told of.
* `writeLog` is three calls: entries written at the same time fall on one place, and
  a crash leaves a hole. A rollback beside an update that is not logged yet, or
  after a crash before its entry, puts back an old value over another user's.
* `schedule` reads `mapFiles[i]` in the reduce phase: more reduce tasks than input
  files are a panic (`schedule.go:41`). A worker that starts before the master never
  registers; `Shutdown` sets `nRPC` to 1, so the worker waits for one connection more.

## 7. Not modelled

* `handleDelete` of the web server: nothing calls it. `showLog` and the
  lists sent to pages: they read, and change nothing.
* Of the page of a document `updateLock` and `isLoading`, which keep a value set by the
  page from being sent back; the other views, which show lists; test programs,
  learning examples, JSON records, `wc.go`/`ii.go`: no distributed state of their own.
* lab4 `raft`, `kvraft`, `shardmaster`, `shardkv`: skeletons whose bodies are "Your
  code here". `labrpc`, `labgob`, `linearizability` and the `config.go` test harnesses:
  course infrastructure for code that is not there. They are most of the lines
  without a model.
* lab1 to lab3: an archive, a packet generator, and parameters of DPDK's meter and
  RED, whose algorithms are not in the repository.
* `Sequential` and `CleanupFiles` of MapReduce: straight-line code.
* Byte formats of the logs, except where a record cannot be read back.

## 8. Plan

1. Done: `ZkLock` with `Mutex`; `ChunkReplication` with `AtomicChunk`; `MapReduce`;
   `GfsFile`; `MasterGroup`; `DocCatalog`; `DocEditing`; `DocHistory`.
2. Done: proofs of all safety properties, and of both refinements.
