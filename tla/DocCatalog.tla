----------------------------- MODULE DocCatalog -----------------------------
(***************************************************************************)
(* The web server's catalog of documents: fileMap and trashMap in memory,  *)
(* the file "config" they are rebuilt from when the server starts, and the *)
(* handlers that change them (handleCreate, moveToTrash, recoverFile,      *)
(* recoverWithRet, clearTrash, changeValidBit), with the opening and the   *)
(* closing of documents that moveToTrash looks at (handlers_ws.go, main    *)
(* and reader of webserver.go).                                            *)
(*                                                                         *)
(* One goroutine per connection runs the handlers and no mutex guards the  *)
(* maps or "config": a handler is split at every read() and write() of the *)
(* client library, each of them atomic, and between a check of a map and   *)
(* the step that relies on it.  The log file is in DocHistory.             *)
(*                                                                         *)
(* "config" is a count, a length and rows of a name and a valid bit.       *)
(* Lengths and positions are counted in rows.  A name is looked for among  *)
(* all bytes of "config", so it may be found in the row of another; a bit  *)
(* or a cut that then lands where no row has its place is recorded, and    *)
(* what "config" reads as from then on is not followed.  Names that occur  *)
(* in the digits of the header are left out.                               *)
(***************************************************************************)
EXTENDS Integers, Sequences

CONSTANTS Conns,      \* connections, each with the goroutine that reads it
          Names,      \* names users give to documents
          Inside,     \* <<f, g>>: f occurs in the row of g, not as its name
          Short,      \* names shorter than the leading zeros of the length
          Requests,   \* the requests made
          MaxCalls,   \* bound on requests
          MaxCrashes  \* bound on crashes of the server

AllRequests == {"create", "mtt", "recover", "ct", "open"}

ASSUME RequestAssumption == Requests \subseteq AllRequests
ASSUME BoundAssumption == MaxCalls \in Nat /\ MaxCrashes \in Nat

\* The name read from a row that was never written.
NoName == "blank"
Listed == Names \cup {NoName}

ASSUME NameAssumption == NoName \notin Names
ASSUME RowAssumption == Inside \subseteq Names \X Names /\ Short \subseteq Names

\* Sizes in the maps, in documents: a key that is not there reads as 0.
Absent == -1
DefaultSize == 1

\* totalLen once changeValidBit has put its "1" into the header: millions, which
\* is further than "config" reaches.
Far == -2

\* totalLen when more rows were cut out of "config" than it had, a negative
\* number, or when there is none yet: it reads back as 0 bytes and so lies
\* before the header.
Under == -1

VARIABLES
  up,        \* the server runs
  fileMap, trashMap, connMap,
  config,    \* the file "config"
  stored,    \* names of the documents the file system has
  \* the handlers
  pc,
  name,      \* the document the request is about
  local,     \* their other variables
  viewing,   \* the document whose cells were sent to the page
  \* bookkeeping
  created,   \* documents whose creation was answered, less the cleared ones
  clash,     \* ways in which handlers have overlapped
  stale,     \* documents moved from a map they were not in
  misplaced, \* what was written into "config" where no row has its place
  torn,      \* a crash hit main or handleCreate between its writes to "config"
  orphans,   \* documents being created or cleared when the server crashed
  calls, crashes

maps   == <<fileMap, trashMap>>
server == <<up, maps, connMap, config, stored>>
budget == <<calls, crashes>>
ghosts == <<created, stale, misplaced, torn, orphans, budget>>
vars   == <<server, pc, name, local, viewing, clash, ghosts>>

Nothing == [num |-> 0, len |-> 0, rows |-> <<>>]

\* bit: what changeValidBit is to write; num: fileNum of handleCreate; len:
\* totalLen; pos: the row changeValidBit found, 0 if none; own: not in the row
\* of another name; snap: newConfigStr.
NoLocal == [bit |-> FALSE, num |-> 0, len |-> 0, pos |-> 0, own |-> TRUE, snap |-> Nothing]

\* main() on its first start, which writes the header of "config", or on the
\* next if it died before that.
Init ==
  /\ up = TRUE
  /\ fileMap = [f \in Listed |-> Absent]
  /\ trashMap = [f \in Listed |-> Absent]
  /\ connMap = [f \in Names |-> {}]
  /\ torn \in BOOLEAN
  /\ config = [Nothing EXCEPT !.len = IF torn THEN Under ELSE 0]
  /\ stored = {}
  /\ pc = [c \in Conns |-> "idle"]
  /\ name = [c \in Conns |-> NoName]
  /\ local = [c \in Conns |-> NoLocal]
  /\ viewing = [c \in Conns |-> NoName]
  /\ created = {} /\ clash = {} /\ stale = {} /\ misplaced = {} /\ orphans = {}
  /\ calls = 0 /\ crashes = 0

-----------------------------------------------------------------------------
\* Handlers that have read "config", or changed a map, and are still to write
\* what follows from it.
Appending == {"setnum", "getlen", "row", "setlen"}
Marking   == {"bitlen", "find", "mark"}
Rewriting == {"whole", "rewrite"}

\* How handlers at p overlap: "rows", two of them change the number of rows;
\* "bits", a valid bit is marked while its row may move or is changed by
\* another; "open", a document is opened past the check of moveToTrash.
Overlap(p) ==
  {k \in {"rows", "bits", "open"} : \E c, d \in Conns :
     /\ c # d
     /\ CASE k = "rows" -> {p[c], p[d]} \subseteq Appending \cup Rewriting
          [] k = "bits" -> /\ p[c] \in Marking
                           /\ \/ p[d] \in Rewriting
                              \/ /\ name[c] = name[d]
                                 /\ p[d] \in Marking \cup Appending \cup {"getnum"}
          [] k = "open" -> /\ p[c] = "lookup" /\ p[d] = "trash"
                           /\ name[c] = name[d]}

\* The handler goes on at s.
Goto(c, s) ==
  LET p == [pc EXCEPT ![c] = s]
  IN pc' = p /\ clash' = clash \cup Overlap(p) /\ UNCHANGED name

\* The same, with new values of its variables.
With(c, s, l) == Goto(c, s) /\ local' = [local EXCEPT ![c] = l]

\* It returns to reader(), which forgets the request.
Done(c) ==
  LET p == [pc EXCEPT ![c] = "idle"]
  IN /\ pc' = p /\ clash' = clash \cup Overlap(p)
     /\ name' = [name EXCEPT ![c] = NoName]
     /\ local' = [local EXCEPT ![c] = NoLocal]

\* Mutant: the last row within the length is missed.
WithinShort(l) == IF l = Under THEN <<>>
                  ELSE IF l = Far \/ l > Len(config.rows) THEN config.rows
                  ELSE SubSeq(config.rows, 1, l - 1)

\* The part of "config" within the length l.
Within(l) == IF l = Under THEN <<>>
             ELSE IF l = Far \/ l >= Len(config.rows) THEN config.rows
             ELSE SubSeq(config.rows, 1, l)

\* The bytes of name f occur in the row of g; elsewhere than as its name.
Occurs(f, g) == f = g \/ <<f, g>> \in Inside

\* strings.Index: the first row with the bytes of the name, 0 if there is none.
Find(rows, f) ==
  IF \E i \in DOMAIN rows : Occurs(f, rows[i].name)
  THEN CHOOSE i \in DOMAIN rows : /\ Occurs(f, rows[i].name)
                                  /\ \A j \in 1..(i - 1) : ~Occurs(f, rows[j].name)
  ELSE 0

\* What was found at row i is the name of that row, or nothing.
Own(rows, i, f) == i > 0 => <<f, rows[i].name>> \notin Inside

\* The rows of "config" can still be told apart.
Followed == misplaced = {}

\* write() of rows at the place of row i: what comes after them stays.
Overwrite(rows, i, new) ==
  [j \in 1..(IF i - 1 + Len(new) > Len(rows) THEN i - 1 + Len(new) ELSE Len(rows))
     |-> IF j >= i /\ j < i + Len(new) THEN new[j - i + 1] ELSE rows[j]]

\* A map after m[f] = v.  A key deleted has the value Absent.
Put(m, f, v) == [m EXCEPT ![f] = v]

\* m[f], 0 where there is no such key.
Get(m, f) == IF m[f] = Absent THEN 0 ELSE m[f]

-----------------------------------------------------------------------------
\* reader() takes a request from a page.  Pages work with lists that may be
\* out of date: the name need not be in the map the handler expects it in.
\* The blank name is in a list, or unknown to users.
Request(c, r, f) ==
  /\ up /\ pc[c] = "idle"
  /\ calls < MaxCalls
  /\ f = NoName => r \in {"mtt", "recover", "ct"} /\ {fileMap[f], trashMap[f]} # {Absent}
  /\ name' = [name EXCEPT ![c] = f]
  /\ pc' = [pc EXCEPT ![c] = r]
  /\ calls' = calls + 1
  /\ UNCHANGED <<server, local, viewing, clash, created, stale, misplaced, torn, orphans, crashes>>

\* handleCreate: a document in the trash is recovered instead.
CreateCheck(c) ==
  /\ pc[c] = "create"
  /\ Goto(c, IF trashMap[name[c]] # Absent THEN "recover" ELSE "mkfile")
  /\ UNCHANGED <<server, local, viewing, ghosts>>

\* create() of the library, which refuses a name that is taken (CEF).
CreateFile(c) ==
  /\ pc[c] = "mkfile"
  /\ IF name[c] \in stored THEN Done(c) /\ UNCHANGED stored
     ELSE Goto(c, "fill") /\ stored' = stored \cup {name[c]} /\ UNCHANGED local
  /\ UNCHANGED <<up, maps, connMap, config, viewing, ghosts>>

\* The document is filled with spaces and entered in fileMap.
CreateFill(c) ==
  /\ pc[c] = "fill"
  /\ fileMap' = Put(fileMap, name[c], DefaultSize)
  /\ Goto(c, "getnum")
  /\ UNCHANGED <<up, trashMap, connMap, config, stored, local, viewing, ghosts>>

CreateGetNum(c) ==
  /\ pc[c] = "getnum" /\ Followed
  /\ With(c, "setnum", [local[c] EXCEPT !.num = config.num])
  /\ UNCHANGED <<server, viewing, ghosts>>

\* Mutant: the count is written as it was read.
CreateSetNumSame(c) ==
  /\ pc[c] = "setnum"
  /\ config' = [config EXCEPT !.num = local[c].num]
  /\ Goto(c, "getlen")
  /\ UNCHANGED <<up, maps, connMap, stored, local, viewing, ghosts>>

CreateSetNum(c) ==
  /\ pc[c] = "setnum"
  /\ config' = [config EXCEPT !.num = local[c].num + 1]
  /\ Goto(c, "getlen")
  /\ UNCHANGED <<up, maps, connMap, stored, local, viewing, ghosts>>

CreateGetLen(c) ==
  /\ pc[c] = "getlen" /\ Followed
  /\ With(c, "row", [local[c] EXCEPT !.len = config.len])
  /\ UNCHANGED <<server, viewing, ghosts>>

\* The row is written at the length.  A write that is all in a chunk "config"
\* does not have never returns (GfsFile).  A row written over the header is not
\* followed further.
CreateRow(c) ==
  /\ pc[c] = "row"
  /\ local[c].len # Under
  /\ IF local[c].len = Far THEN Goto(c, "stuck") /\ UNCHANGED config
     ELSE /\ Goto(c, "setlen")
          /\ config' = [config EXCEPT !.rows = Overwrite(@, local[c].len + 1,
                                        <<[name |-> name[c], valid |-> TRUE]>>)]
  /\ UNCHANGED <<up, maps, connMap, stored, local, viewing, ghosts>>

\* The length follows, and the page is told CREATESUCCESS.
CreateSetLen(c) ==
  /\ pc[c] = "setlen"
  /\ config' = [config EXCEPT !.len = local[c].len + 1]
  /\ created' = created \cup {name[c]}
  /\ Done(c)
  /\ UNCHANGED <<up, maps, connMap, stored, viewing, stale, misplaced, torn, orphans, budget>>

-----------------------------------------------------------------------------
\* Mutant: moveToTrash does not look for open connections.
TrashCheckNone(c) ==
  /\ pc[c] = "mtt"
  /\ Goto(c, "trash")
  /\ UNCHANGED <<server, local, viewing, ghosts>>

\* moveToTrash refuses a document that has connections (MTTERROR).
TrashCheck(c) ==
  /\ pc[c] = "mtt"
  /\ IF name[c] \in Names /\ connMap[name[c]] # {} THEN Done(c)
     ELSE Goto(c, "trash") /\ UNCHANGED local
  /\ UNCHANGED <<server, viewing, ghosts>>

\* It is moved from fileMap to trashMap; changeValidBit follows.
Trash(c) ==
  /\ pc[c] = "trash"
  /\ trashMap' = Put(trashMap, name[c], Get(fileMap, name[c]))
  /\ fileMap' = Put(fileMap, name[c], Absent)
  /\ stale' = IF fileMap[name[c]] = Absent THEN stale \cup {name[c]} ELSE stale
  /\ Goto(c, "bitlen")
  /\ UNCHANGED <<up, connMap, config, stored, local, viewing, created, misplaced, torn, orphans,
                 budget>>

\* recoverFile and recoverWithRet: the other way, and no check at all.
Recover(c) ==
  /\ pc[c] = "recover"
  /\ fileMap' = Put(fileMap, name[c], Get(trashMap, name[c]))
  /\ trashMap' = Put(trashMap, name[c], Absent)
  /\ stale' = IF trashMap[name[c]] = Absent THEN stale \cup {name[c]} ELSE stale
  /\ With(c, "bitlen", [local[c] EXCEPT !.bit = TRUE])
  /\ UNCHANGED <<up, connMap, config, stored, viewing, created, misplaced, torn, orphans, budget>>

\* changeValidBit reads the length,
BitLen(c) ==
  /\ pc[c] = "bitlen" /\ Followed
  /\ With(c, "find", [local[c] EXCEPT !.len = config.len])
  /\ UNCHANGED <<server, viewing, ghosts>>

\* then that much of "config", to look for the name,
BitFind(c) ==
  /\ pc[c] = "find" /\ Followed
  /\ LET rows == Within(local[c].len)
         i    == Find(rows, name[c])
     IN With(c, "mark", [local[c] EXCEPT !.pos = i, !.own = Own(rows, i, name[c])])
  /\ UNCHANGED <<server, viewing, ghosts>>

\* Where the bit goes if the name was found in the row of another: somewhere in
\* that row.  Index is -1 for a name that is not there, 0 for the blank one, and
\* the bit goes into the leading zeros of the length in the header; for a longer
\* name, into the digits after them or into the first row.
Astray(l, f) == IF ~l.own THEN {"inside"}
                ELSE IF l.pos = 0 /\ f \notin Short \cup {NoName} THEN {"absent"} ELSE {}

\* and writes the bit.
BitSet(c) ==
  /\ pc[c] = "mark"
  /\ LET i == local[c].pos
         v == local[c].bit
         x == Astray(local[c], name[c])
     IN /\ misplaced' = misplaced \cup x
        /\ config' = IF x # {} THEN config
                     ELSE IF i > 0 THEN [config EXCEPT !.rows[i].valid = v]
                     ELSE IF v /\ config.len # Under THEN [config EXCEPT !.len = Far]
                     ELSE config
  /\ Done(c)
  /\ UNCHANGED <<up, maps, connMap, stored, viewing, created, stale, torn, orphans, budget>>

-----------------------------------------------------------------------------
\* clearTrash takes a document out of trashMap,
Clear(c) ==
  /\ pc[c] = "ct"
  /\ IF trashMap[name[c]] = Absent THEN Done(c) /\ UNCHANGED trashMap
     ELSE Goto(c, "ctlen") /\ trashMap' = Put(trashMap, name[c], Absent) /\ UNCHANGED local
  /\ UNCHANGED <<up, fileMap, connMap, config, stored, viewing, ghosts>>

\* reads the length,
ClearLen(c) ==
  /\ pc[c] = "ctlen" /\ Followed
  /\ With(c, "whole", [local[c] EXCEPT !.len = config.len])
  /\ UNCHANGED <<server, viewing, ghosts>>

\* Mutant: the count is lowered twice.
WithoutTwice(cfg, rows, i) ==
  [num |-> IF cfg.num = 0 THEN 0 ELSE cfg.num - 2,
   len |-> IF cfg.len \in {Far, Under} THEN cfg.len ELSE cfg.len - 1,
   rows |-> SubSeq(rows, 1, i - 1) \o SubSeq(rows, i + 1, Len(rows))]

\* newConfigStr: row i is cut out of the rows read.  A count of -1 reads back
\* as 0, a length in the millions stays one.
Without(cfg, rows, i) ==
  [num |-> IF cfg.num = 0 THEN 0 ELSE cfg.num - 1,
   len |-> IF cfg.len \in {Far, Under} THEN cfg.len ELSE cfg.len - 1,
   rows |-> SubSeq(rows, 1, i - 1) \o SubSeq(rows, i + 1, Len(rows))]

\* then that much of "config".  Without the name in it a slice with negative
\* bounds panics, and the goroutine ends.
ClearRead(c) ==
  /\ pc[c] = "whole" /\ Followed
  /\ LET rows == Within(local[c].len)
         i == Find(rows, name[c])
     IN IF i = 0 THEN Done(c)
        ELSE With(c, "rewrite", [local[c] EXCEPT !.snap = Without(config, rows, i),
                                                 !.own = Own(rows, i, name[c])])
  /\ UNCHANGED <<server, viewing, ghosts>>

\* writes the new "config" over the old, which is longer,
ClearWrite(c) ==
  /\ pc[c] = "rewrite"
  /\ config' = IF local[c].own THEN [local[c].snap EXCEPT !.rows = Overwrite(config.rows, 1, @)]
               ELSE config
  /\ misplaced' = IF local[c].own THEN misplaced ELSE misplaced \cup {"inside"}
  /\ created' = created \ {name[c]}
  /\ Goto(c, "unlink")
  /\ UNCHANGED <<up, maps, connMap, stored, local, viewing, stale, torn, orphans, budget>>

\* Mutant: the document's file stays.
ClearDeleteNot(c) ==
  /\ pc[c] = "unlink"
  /\ Done(c)
  /\ UNCHANGED <<server, viewing, ghosts>>

\* and deletes the document's file.
ClearDelete(c) ==
  /\ pc[c] = "unlink"
  /\ stored' = stored \ {name[c]}
  /\ Done(c)
  /\ UNCHANGED <<up, maps, connMap, config, viewing, ghosts>>

-----------------------------------------------------------------------------
\* createConnect enters the connection in connMap,
Open(c) ==
  /\ pc[c] = "open"
  /\ connMap' = [connMap EXCEPT ![name[c]] = @ \cup {c}]
  /\ Goto(c, "lookup")
  /\ UNCHANGED <<up, maps, config, stored, local, viewing, ghosts>>

\* and handleOpen sends the cells of a document that is in fileMap.
Lookup(c) ==
  /\ pc[c] = "lookup"
  /\ viewing' = IF fileMap[name[c]] = Absent THEN viewing
                ELSE [viewing EXCEPT ![c] = name[c]]
  /\ Done(c)
  /\ UNCHANGED <<server, ghosts>>

\* The page closes the document it shows (handleClose).
Close(c) ==
  /\ up /\ pc[c] = "idle" /\ viewing[c] # NoName
  /\ connMap' = [connMap EXCEPT ![viewing[c]] = @ \ {c}]
  /\ viewing' = [viewing EXCEPT ![c] = NoName]
  /\ UNCHANGED <<up, maps, config, stored, pc, name, local, clash, ghosts>>

\* The connection ends: removeConn takes it off every document.
Leave(c) ==
  /\ up /\ pc[c] = "idle"
  /\ \E f \in Names : c \in connMap[f]
  /\ connMap' = [f \in Names |-> connMap[f] \ {c}]
  /\ viewing' = [viewing EXCEPT ![c] = NoName]
  /\ UNCHANGED <<up, maps, config, stored, pc, name, local, clash, ghosts>>

\* The server dies, of a fault or of a map it writes from two goroutines.
Crash ==
  /\ up /\ crashes < MaxCrashes
  /\ up' = FALSE
  /\ torn' = (torn \/ \E c \in Conns : pc[c] \in Appending \ {"setnum"})
  /\ orphans' = orphans \cup {name[c] : c \in {d \in Conns :
                  pc[d] \in Appending \cup {"fill", "getnum", "unlink", "stuck"}}}
  /\ pc' = [c \in Conns |-> "idle"]
  /\ name' = [c \in Conns |-> NoName]
  /\ local' = [c \in Conns |-> NoLocal]
  /\ fileMap' = [f \in Listed |-> Absent] /\ trashMap' = [f \in Listed |-> Absent]
  /\ connMap' = [f \in Names |-> {}]
  /\ viewing' = [c \in Conns |-> NoName]
  /\ crashes' = crashes + 1
  /\ UNCHANGED <<config, stored, created, clash, stale, misplaced, calls>>

\* The name and the valid bit main() reads from row i.
RowAt(i) == IF i \in DOMAIN config.rows THEN config.rows[i]
            ELSE [name |-> NoName, valid |-> FALSE]

\* Names main() finds in "config" with this valid bit.
Found(v) == {RowAt(i).name : i \in {j \in 1..config.num : RowAt(j).valid = v}}

\* The map main() builds of them.
Built(v) == [f \in Listed |-> IF f \in Found(v) THEN DefaultSize ELSE Absent]

\* main() when "config" exists: as many rows are read as the count says.
Restart ==
  /\ ~up /\ Followed
  /\ up' = TRUE
  /\ fileMap' = Built(TRUE) /\ trashMap' = Built(FALSE)
  /\ UNCHANGED <<connMap, config, stored, pc, name, local, viewing, clash, ghosts>>

-----------------------------------------------------------------------------
Handler(c) ==
  \/ CreateCheck(c) \/ CreateFile(c) \/ CreateFill(c) \/ CreateGetNum(c)
  \/ CreateSetNum(c) \/ CreateGetLen(c) \/ CreateRow(c) \/ CreateSetLen(c)
  \/ TrashCheck(c) \/ Trash(c) \/ Recover(c)
  \/ BitLen(c) \/ BitFind(c) \/ BitSet(c)
  \/ Clear(c) \/ ClearLen(c) \/ ClearRead(c) \/ ClearWrite(c) \/ ClearDelete(c)
  \/ Open(c) \/ Lookup(c)

Next ==
  \/ \E c \in Conns, r \in Requests, f \in Listed : Request(c, r, f)
  \/ \E c \in Conns : Handler(c) \/ Close(c) \/ Leave(c)
  \/ Crash
  \/ Restart

Spec == Init /\ [][Next]_vars

-----------------------------------------------------------------------------
Row == [name : Names, valid : BOOLEAN]

\* What a "config" with rows in it can be.
Length == Nat \cup {Under, Far}
ConfigType == [num : Nat, len : Length, rows : Seq(Row)]

TypeOK ==
  /\ up \in BOOLEAN
  /\ fileMap \in [Listed -> {Absent, 0, DefaultSize}]
  /\ trashMap \in [Listed -> {Absent, 0, DefaultSize}]
  /\ connMap \in [Names -> SUBSET Conns]
  /\ config \in ConfigType
  /\ stored \subseteq Names
  /\ pc \in [Conns -> {"idle", "mkfile", "fill", "getnum", "trash", "ctlen", "unlink",
                       "lookup", "stuck"}
                      \cup AllRequests \cup Appending \cup Marking \cup Rewriting]
  /\ name \in [Conns -> Listed]
  /\ local \in [Conns -> [bit : BOOLEAN, num : Nat, len : Length, pos : Nat,
                          own : BOOLEAN, snap : ConfigType]]
  /\ viewing \in [Conns -> Listed]
  /\ created \subseteq Names
  /\ clash \subseteq {"rows", "bits", "open"}
  /\ stale \subseteq Listed
  /\ misplaced \subseteq {"inside", "absent"}
  /\ torn \in BOOLEAN /\ orphans \subseteq Listed

Quiet == up /\ \A c \in Conns : pc[c] = "idle"

\* A document whose creation was answered, and that was not cleared, has its
\* file and a row main() reads: a crash at any point, requests for documents
\* that are no longer where the page saw them, and the marking of valid bits
\* beside every other handler do not lose it.  It may be lost when handlers
\* change the number of rows at the same time; by clearTrash once the length in
\* the header is overwritten, since it finds rows that were cut out before; and
\* when a bit or a cut is written out of place: a name was found in the row of
\* another, or a name too long for the header was not found at all.
NoDocumentLost ==
  "rows" \notin clash /\ config.len # Far /\ misplaced = {} =>
    created \subseteq stored \cap (Found(TRUE) \cup Found(FALSE))

\* Between requests every file of a document is listed, so that its name can be
\* used or the document recovered; and the server would find after a restart the
\* maps it has now, every document in the map its valid bit says, with its size.
\* A crash leaves an unlisted file only of a document that was being created or
\* cleared, and other maps only if it hit main() or handleCreate between two
\* writes to "config".  This is so as long as no handlers have overlapped in
\* changing rows or bits, no document was moved from a map it was not in, and
\* nothing was written out of place.
MapsAgree ==
  Quiet /\ clash \subseteq {"open"} /\ stale = {} /\ misplaced = {} =>
    /\ config.len # Far =>
         \A f \in stored \ orphans : fileMap[f] # Absent \/ trashMap[f] # Absent
    /\ ~torn => /\ fileMap = Built(TRUE) /\ trashMap = Built(FALSE)
               /\ config.num = config.len

\* A page shows a document from the trash only if it was opened between the
\* check of moveToTrash and the change of the maps.
OpenNotTrashed ==
  "open" \notin clash => \A c \in Conns : viewing[c] # NoName => fileMap[viewing[c]] # Absent

\* A handler hangs, or marks a bit in the first row, only after "config" was
\* marked for a name it does not have: one that is not in the map the handler
\* takes it from, one that is still being created or whose row was overwritten
\* by another handler, one that main() read because a crash had torn a create
\* or the header, or one whose row was cut up or marked for a name inside it.
NoHang ==
  clash \subseteq {"open"} /\ stale = {} /\ ~torn /\ "inside" \notin misplaced =>
    "absent" \notin misplaced /\ \A c \in Conns : pc[c] # "stuck"
=============================================================================
