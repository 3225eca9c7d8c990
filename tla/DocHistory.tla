----------------------------- MODULE DocHistory -----------------------------
(***************************************************************************)
(* The contents of a document's cells, the log "gDocLog" of their changes, *)
(* and the rollback that undoes a user's last change from what the log     *)
(* says (writeLog, handleOpen, handleUpdate, handleRollBack of             *)
(* handlers_ws.go).                                                        *)
(*                                                                         *)
(* One goroutine per connection runs the handlers; a handler is split at   *)
(* its calls to the client library, to ZooKeeper and to the pages.  A cell *)
(* is edited under its lock (DocEditing); a rollback takes none.           *)
(*                                                                         *)
(* A value is a sequence of units, and a cell has room for Width of them,  *)
(* each a run of at least five bytes.  No value holds a tab, a keyword of  *)
(* the log or five spaces.  Entries of the log have the same length and    *)
(* its positions count entries.                                            *)
(***************************************************************************)
EXTENDS Integers, Sequences, FiniteSets

CONSTANTS Conns,      \* connections of pages that have the document open
          Users,
          UserOf,     \* the user at the page of a connection
          Cells,
          Values,     \* what users write into cells
          Width,
          MaxOps,     \* bound on requests
          MaxCrashes  \* bound on crashes of the web server

ASSUME UserAssumption == UserOf \in [Conns -> Users]
ASSUME BoundAssumption == Width \in Nat \ {0} /\ MaxOps \in Nat /\ MaxCrashes \in Nat

Blank  == "blank"
Nobody == "nobody"
NoCell == "none"
NoConn == "free"

\* A place in the log that the header counts and nobody has written.
Hole == [type |-> "hole", user |-> Nobody, cell |-> NoCell, old |-> <<>>, new |-> <<>>]

\* What a place in a cell can hold.
Unit == {Blank} \cup UNION {{v[i] : i \in DOMAIN v} : v \in Values}

ASSUME ValueAssumption == Values \subseteq Seq(Unit \ {Blank})

\* What a page shows in a cell that another user edits: "X is editing".
Notice == <<"editing">>

ASSUME NoticeAssumption == "editing" \notin Unit
ASSUME NameAssumption == Nobody \notin Users /\ NoCell \notin Cells /\ NoConn \notin Conns

VARIABLES
  content,  \* the cells, in the document's file
  logLen,   \* the length in the header of "gDocLog"
  slots,    \* the entries after it
  owner,    \* the connection that has the lock of a cell
  lockMap,  \* the user who has it, as the server noted
  connMap,  \* the connections of the document
  view,     \* the cells as the page of a connection shows them
  pc, local,
  \* bookkeeping
  journal,  \* the changes of cells in the order in which they happened
  upsets,   \* ways in which handlers have overlapped, or were torn
  ops, crashes

locks  == <<owner, lockMap>>
pages  == <<connMap, view>>
logged == <<logLen, slots>>
budget == <<ops, crashes>>
vars   == <<content, logged, locks, pages, pc, local, journal, upsets, budget>>

EmptyCell == [i \in 1..Width |-> Blank]
EmptyDoc  == [k \in Cells |-> EmptyCell]

\* entry: what the handler will log; sent: the value its page has sent; len:
\* logLen; mark: how many changes there were when it wrote, or read the
\* document; snap: the document it read.
NoLocal == [entry |-> Hole, sent |-> <<>>, len |-> 0, mark |-> 0, snap |-> EmptyDoc]

\* A new document, which some pages have open.  The log is followed from here.
Init ==
  /\ content = EmptyDoc
  /\ logLen = 0 /\ slots = <<>>
  /\ owner = [k \in Cells |-> NoConn]
  /\ lockMap = [k \in Cells |-> Nobody]
  /\ connMap \in SUBSET Conns
  /\ view = [c \in Conns |-> EmptyDoc]
  /\ pc = [c \in Conns |-> "idle"]
  /\ local = [c \in Conns |-> NoLocal]
  /\ journal = <<>> /\ upsets = {}
  /\ ops = 0 /\ crashes = 0

-----------------------------------------------------------------------------
\* How far a cell is filled.
Solid(s) == Cardinality({i \in DOMAIN s : \A j \in 1..i : s[j] # Blank})

\* The old value handleUpdate finds in a cell: up to the spaces, and a single
\* space in an empty one.
OldValue(s) == IF Solid(s) = 0 THEN <<Blank>> ELSE SubSeq(s, 1, Solid(s))

\* A value too long for the cell is cut.
Cut(v) == IF Len(v) > Width THEN SubSeq(v, 1, Width) ELSE v

\* write() of a value at the start of a cell: what it does not reach stays.
Put(s, v) == [i \in 1..(IF Len(v) > Len(s) THEN Len(v) ELSE Len(s)) |->
                IF i <= Len(v) THEN v[i] ELSE s[i]]

\* Mutant: as many spaces are added as the value has that is undone.
PadMore(old, new) == [i \in 1..(Len(old) + Len(new)) |-> IF i <= Len(old) THEN old[i] ELSE Blank]

\* A rollback covers the value it undoes with spaces.
Pad(old, new) == [i \in 1..(IF Len(old) < Len(new) THEN Len(new) ELSE Len(old)) |->
                    IF i <= Len(old) THEN old[i] ELSE Blank]

\* A page shows a value alone in its cell.
Look(v) == Put(EmptyCell, v)

\* Entries of the log: an update, a rollback, the opening of the document.
Entry(t, u, k, old, new) == [type |-> t, user |-> u, cell |-> k, old |-> old, new |-> new]

Me(c) == UserOf[c]

\* A handler has changed a cell and is still to log it; is on its way to
\* change one back from what it read in the log; is writing to the log.
Unlogged == {"unlock", "spread", "loglen", "loghead", "logslot"}
Undoing  == {"rolllog", "rollwrite"}
Logging  == {"loghead", "logslot"}

\* How handlers at p overlap: "behind", a rollback beside a change that is not
\* in the log yet, or about to write where an update has read the old value;
\* "log", two writers of the log.
Overlap(p, l) ==
  {x \in {"behind", "log"} : \E c, d \in Conns :
     /\ c # d
     /\ CASE x = "behind" ->
               \/ /\ p[c] \in Undoing /\ p[d] \in Unlogged
                  /\ l[d].entry.type # "open"
               \/ /\ p[c] = "rollwrite" /\ p[d] = "write"
                  /\ l[c].entry.cell = l[d].entry.cell
          [] x = "log"    -> {p[c], p[d]} \subseteq Logging}

\* The handler of c goes on at s with the variables l; x has happened.
Goto(c, s, l, x) ==
  LET p == [pc EXCEPT ![c] = s]
  IN /\ pc' = p
     /\ local' = [local EXCEPT ![c] = l]
     /\ upsets' = upsets \cup x \cup Overlap(p, [local EXCEPT ![c] = l])

Done(c) == Goto(c, "idle", NoLocal, {})

\* reader() of connection c takes a request.
Begin(c) == pc[c] = "idle" /\ ops < MaxOps /\ ops' = ops + 1

\* The change of cell k to s by an entry's handler.
Change(k, s, e) ==
  /\ content' = [content EXCEPT ![k] = s]
  /\ journal' = Append(journal, [entry |-> e, before |-> content[k], after |-> s])

-----------------------------------------------------------------------------
\* createConnect enters the connection; handleOpen reads the document,
Open(c) ==
  /\ c \notin connMap /\ Begin(c)
  /\ connMap' = connMap \cup {c}
  /\ view' = [view EXCEPT ![c] = EmptyDoc]
  /\ Goto(c, "send", [NoLocal EXCEPT !.entry = Entry("open", Me(c), NoCell, <<>>, <<>>),
                                     !.snap = content, !.mark = Len(journal)], {})
  /\ UNCHANGED <<content, logged, locks, journal, crashes>>

\* and sends it to the page.  A change told in between is overwritten there.
OpenSend(c) ==
  /\ pc[c] = "send"
  /\ view' = [view EXCEPT ![c] = local[c].snap]
  /\ Goto(c, "loglen", [local[c] EXCEPT !.snap = EmptyDoc],
          IF local[c].mark # Len(journal) THEN {"late"} ELSE {})
  /\ UNCHANGED <<content, logged, locks, connMap, journal, budget>>

\* handleEdit takes the lock of a cell,
TryLock(c, k) ==
  /\ c \in connMap /\ Begin(c)
  /\ owner[k] = NoConn
  /\ owner' = [owner EXCEPT ![k] = c]
  /\ Goto(c, "note", [NoLocal EXCEPT !.entry.cell = k], {})
  /\ UNCHANGED <<content, logged, lockMap, pages, journal, crashes>>

\* enters the user in lockMap and announces it to all pages: those of other
\* users show the notice in place of the value.
Note(c) ==
  /\ pc[c] = "note"
  /\ LET k == local[c].entry.cell
     IN /\ lockMap' = [lockMap EXCEPT ![k] = Me(c)]
        /\ view' = [d \in Conns |-> IF d \in connMap /\ Me(d) # Me(c)
                                    THEN [view[d] EXCEPT ![k] = Notice] ELSE view[d]]
  /\ Done(c)
  /\ UNCHANGED <<content, logged, owner, connMap, journal, budget>>

\* The page that has the lock sends a value.  handleUpdate reads the old one,
\* and panics over a cell that is full.  What it will write and log is cut.
UpdateRead(c, k, v) ==
  /\ pc[c] = "idle" /\ owner[k] = c
  /\ LET old == content[k]
     IN IF Solid(old) >= Width THEN Goto(c, "dead", NoLocal, {})
        ELSE Goto(c, "write", [NoLocal EXCEPT
               !.entry = Entry("update", Me(c), k, OldValue(old), Cut(v)), !.sent = v], {})
  /\ UNCHANGED <<content, logged, locks, pages, journal, budget>>

\* It writes the value and takes the cell out of lockMap,
UpdateWrite(c) ==
  /\ pc[c] = "write"
  /\ LET e == local[c].entry
     IN /\ Change(e.cell, Put(content[e.cell], e.new), e)
        /\ lockMap' = [lockMap EXCEPT ![e.cell] = Nobody]
        /\ Goto(c, "unlock", [local[c] EXCEPT !.mark = Len(journal) + 1], {})
  /\ UNCHANGED <<logged, owner, pages, budget>>

\* and gives the lock back.
Unlock(c) ==
  /\ pc[c] = "unlock"
  /\ owner' = [owner EXCEPT ![local[c].entry.cell] = NoConn]
  /\ Goto(c, "spread", local[c], {})
  /\ UNCHANGED <<content, logged, lockMap, pages, journal, budget>>

\* Mutant: a rollback sends the value it undid.
ToldNew(l) == IF l.entry.type = "rollback" THEN l.entry.new ELSE l.sent

\* What the pages are told of a change: an update is passed on as it came.
Told(l) == IF l.entry.type = "rollback" THEN l.entry.old ELSE l.sent

\* All pages are told of the change, after which it is logged.
Spread(c) ==
  /\ pc[c] = "spread"
  /\ LET e == local[c].entry
     IN /\ view' = [d \in Conns |->
                     IF d \in connMap THEN [view[d] EXCEPT ![e.cell] = Look(Told(local[c]))]
                     ELSE view[d]]
        /\ Goto(c, "loglen", local[c],
                IF \E i \in DOMAIN journal : i > local[c].mark /\ journal[i].entry.cell = e.cell
                THEN {"late"} ELSE {})
  /\ UNCHANGED <<content, logged, locks, connMap, journal, budget>>

-----------------------------------------------------------------------------
\* Another has changed a cell before c did and has not begun to log it.
Passed(c) == \E d \in Conns : /\ pc[d] \in Unlogged \ Logging
                              /\ {local[c].entry.type, local[d].entry.type}
                                   \subseteq {"update", "rollback"}
                              /\ local[d].mark < local[c].mark

\* writeLog reads the length,
LogLen(c) ==
  /\ pc[c] = "loglen"
  /\ Goto(c, "loghead", [local[c] EXCEPT !.len = logLen],
          IF Passed(c) THEN {"order"} ELSE {})
  /\ UNCHANGED <<content, logged, locks, pages, journal, budget>>

\* writes the new one,
LogHead(c) ==
  /\ pc[c] = "loghead"
  /\ logLen' = local[c].len + 1
  /\ Goto(c, "logslot", local[c], {})
  /\ UNCHANGED <<content, slots, locks, pages, journal, budget>>

\* Mutant: the entry is written at the new length.
LogSlotNext(c) ==
  /\ pc[c] = "logslot"
  /\ LET n == local[c].len + 2
     IN slots' = [i \in 1..(IF Len(slots) < n THEN n ELSE Len(slots)) |->
                    IF i = n THEN local[c].entry
                    ELSE IF i \in DOMAIN slots THEN slots[i] ELSE Hole]
  /\ IF local[c].entry.type = "open" THEN Goto(c, "info", NoLocal, {}) ELSE Done(c)
  /\ UNCHANGED <<content, logLen, locks, pages, journal, budget>>

\* and the entry at the old one.  handleOpen goes on.
LogSlot(c) ==
  /\ pc[c] = "logslot"
  /\ LET n == local[c].len + 1
     IN slots' = [i \in 1..(IF Len(slots) < n THEN n ELSE Len(slots)) |->
                    IF i = n THEN local[c].entry
                    ELSE IF i \in DOMAIN slots THEN slots[i] ELSE Hole]
  /\ IF local[c].entry.type = "open" THEN Goto(c, "info", NoLocal, {}) ELSE Done(c)
  /\ UNCHANGED <<content, logLen, locks, pages, journal, budget>>

\* handleOpen tells its page who edits (FILELOCKINFO).
OpenInfo(c) ==
  /\ pc[c] = "info"
  /\ view' = [view EXCEPT ![c] = [k \in Cells |-> IF lockMap[k] \in {Nobody, Me(c)}
                                                  THEN view[c][k] ELSE Notice]]
  /\ Done(c)
  /\ UNCHANGED <<content, logged, locks, connMap, journal, budget>>

\* What handleRollBack and showLog read of n entries.  The bytes of a hole run
\* into the entry after it, which is not recognised.
LogRead(n) ==
  [i \in 1..(IF n < Len(slots) THEN n ELSE Len(slots)) |->
     IF i > 1 /\ slots[i - 1] = Hole THEN Hole ELSE slots[i]]

\* How many entries of user u after i have this type.
After(es, u, t, i) == Cardinality({j \in (i + 1)..Len(es) : es[j].user = u /\ es[j].type = t})

\* Mutant: rollbacks in the log are not looked at.
AimsNoSkip(es, u) == {i \in DOMAIN es : es[i].type = "update" /\ es[i].user = u}

\* Updates of user u at which handleRollBack has nothing to skip, going back in
\* the log.  It stops at the last of them, 0 if there is none.
Aims(es, u) == {i \in DOMAIN es : /\ es[i].type = "update" /\ es[i].user = u
                                  /\ After(es, u, "rollback", i) = After(es, u, "update", i)}

Aim(es, u) == IF Aims(es, u) = {} THEN 0
              ELSE CHOOSE i \in Aims(es, u) : \A j \in Aims(es, u) : j <= i

\* Others have changed the cell of entry i since (rcSlice).
Taken(es, i) == \E j \in (i + 1)..Len(es) : /\ es[j].type = "update"
                                           /\ es[j].user # es[i].user
                                           /\ es[j].cell = es[i].cell

\* handleRollBack reads the length of the log,
RollLen(c) ==
  /\ c \in connMap /\ Begin(c)
  /\ Goto(c, "rolllog", [NoLocal EXCEPT !.len = logLen], {})
  /\ UNCHANGED <<content, logged, locks, pages, journal, crashes>>

\* then the log, and looks for the update to undo: there is none
\* (ROLLBACKEMPTY), another user has changed the cell since (ROLLBACKERR), or
\* the cell is in lockMap (ROLLBACKLOCK).
RollLog(c) ==
  /\ pc[c] = "rolllog"
  /\ LET es == LogRead(local[c].len)
         i  == Aim(es, Me(c))
     IN IF i = 0 THEN Done(c)
        ELSE IF Taken(es, i) \/ lockMap[es[i].cell] # Nobody THEN Done(c)
        ELSE Goto(c, "rollwrite", [NoLocal EXCEPT !.entry = [es[i] EXCEPT !.type = "rollback"]],
                  {})
  /\ UNCHANGED <<content, logged, locks, pages, journal, budget>>

\* The old value is written; the pages are told and the rollback is logged.
RollWrite(c) ==
  /\ pc[c] = "rollwrite"
  /\ LET e == local[c].entry
     IN /\ Change(e.cell, Put(content[e.cell], Pad(e.old, e.new)), e)
        /\ Goto(c, "spread", [local[c] EXCEPT !.mark = Len(journal) + 1], {})
  /\ UNCHANGED <<logged, locks, pages, budget>>

\* The web server dies and is started again: the files stay, sessions and
\* connections go.
Crash ==
  /\ crashes < MaxCrashes
  /\ upsets' = IF \E c \in Conns : pc[c] \in Unlogged THEN upsets \cup {"torn"} ELSE upsets
  /\ owner' = [k \in Cells |-> NoConn]
  /\ lockMap' = [k \in Cells |-> Nobody]
  /\ connMap' = {}
  /\ view' = [c \in Conns |-> EmptyDoc]
  /\ pc' = [c \in Conns |-> "idle"]
  /\ local' = [c \in Conns |-> NoLocal]
  /\ crashes' = crashes + 1
  /\ UNCHANGED <<content, logged, journal, ops>>

-----------------------------------------------------------------------------
Next ==
  \/ \E c \in Conns :
       \/ Open(c) \/ OpenSend(c) \/ OpenInfo(c) \/ Note(c)
       \/ UpdateWrite(c) \/ Unlock(c) \/ Spread(c)
       \/ LogLen(c) \/ LogHead(c) \/ LogSlot(c)
       \/ RollLen(c) \/ RollLog(c) \/ RollWrite(c)
  \/ \E c \in Conns, k \in Cells : TryLock(c, k) \/ \E v \in Values : UpdateRead(c, k, v)
  \/ Crash

Spec == Init /\ [][Next]_vars

-----------------------------------------------------------------------------
EntryType == [type : {"hole", "open", "update", "rollback"}, user : Users \cup {Nobody},
              cell : Cells \cup {NoCell}, old : Seq(Unit), new : Seq(Unit)]
CellType == [1..Width -> Unit]

TypeOK ==
  /\ content \in [Cells -> CellType]
  /\ logLen \in Nat /\ slots \in Seq(EntryType)
  /\ owner \in [Cells -> Conns \cup {NoConn}]
  /\ lockMap \in [Cells -> Users \cup {Nobody}]
  /\ connMap \subseteq Conns
  /\ view \in [Conns -> [Cells -> Seq(Unit) \cup {Notice}]]
  /\ pc \in [Conns -> {"idle", "send", "info", "note", "write", "dead"} \cup Unlogged \cup Undoing]
  /\ local \in [Conns -> [entry : EntryType, sent : Seq(Unit), len : Nat, mark : Nat,
                      snap : [Cells -> CellType]]]
  /\ journal \in Seq([entry : EntryType, before : CellType, after : CellType])
  /\ upsets \subseteq {"behind", "log", "late", "order", "torn"}
  /\ ops \in Nat /\ crashes \in Nat

Quiet == \A c \in Conns : pc[c] \in {"idle", "dead"}

\* How many changes of cells the first i entries of the log are.
Changes(es, i) == Cardinality({j \in 1..i : es[j].type \in {"update", "rollback"}})

\* Between requests the log says what happened to the cells, each change once
\* and in order, unless two handlers wrote to it at the same time, a change was
\* logged before an earlier one, or a crash came between a change and its entry.
LogComplete ==
  Quiet /\ upsets \cap {"log", "order", "torn"} = {} =>
    LET es == LogRead(logLen)
    IN /\ Changes(es, Len(es)) = Len(journal)
       /\ \A i \in DOMAIN es : es[i].type \in {"update", "rollback"} =>
            es[i] = journal[Changes(es, i)].entry

\* The updates of user u that are not undone after the first n changes of h, in
\* the order they were made: a rollback undoes the last.
Undoable(h, u, n) ==
  LET rest[i \in 0..n] ==
        IF i = 0 THEN <<>>
        ELSE IF h[i].entry.user # u THEN rest[i - 1]
        ELSE IF h[i].entry.type = "update" THEN Append(rest[i - 1], i)
        ELSE SubSeq(rest[i - 1], 1, Len(rest[i - 1]) - 1)
  IN rest[n]

\* Change i of h can be undone: no other user has changed its cell since.
MayUndo(h, i, n) == \A j \in (i + 1)..n : h[j].entry.cell = h[i].entry.cell
                                          => h[j].entry.user = h[i].entry.user

\* A rollback puts back exactly what the cell held before the last update of
\* its user that is not undone, and never undoes what another user wrote into
\* the cell.  The log must say what happened when it is read, and nobody may
\* change a cell beside a rollback.
RollbackExact ==
  upsets \cap {"log", "order", "torn", "behind"} = {} =>
    \A n \in DOMAIN journal : journal[n].entry.type = "rollback" =>
      LET s == Undoable(journal, journal[n].entry.user, n - 1)
          i == s[Len(s)]
      IN /\ s # <<>>
         /\ journal[n].entry.cell = journal[i].entry.cell
         /\ journal[n].after = journal[i].before
         /\ MayUndo(journal, i, n - 1)

\* The last change of cell k left a part of the value before it.
Shortened(k) ==
  \E i \in DOMAIN journal :
    /\ journal[i].entry.cell = k
    /\ \A j \in (i + 1)..Len(journal) : journal[j].entry.cell # k
    /\ \E j \in DOMAIN journal[i].before :
         /\ journal[i].before[j] # Blank
         /\ j > Len(journal[i].entry.new)
         /\ journal[i].entry.type = "rollback" => j > Len(journal[i].entry.old)

\* Between requests every page shows what is in the file, from where a page that
\* opens the document now gets it, with the end of a value that was cut to fit
\* its cell; or the notice that somebody edits the cell, and then somebody has
\* its lock.  Left out are cells where a shorter value was written over a longer
\* one, and pages that were told of a change, or sent the document, after a
\* later change.
PagesAgree ==
  Quiet /\ "late" \notin upsets =>
    \A c \in connMap, k \in Cells :
      IF view[c][k] = Notice THEN owner[k] # NoConn
      ELSE ~Shortened(k) => Cut(view[c][k]) = content[k]
=============================================================================
