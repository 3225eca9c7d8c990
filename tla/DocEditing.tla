----------------------------- MODULE DocEditing -----------------------------
(***************************************************************************)
(* Editing one document together: the pages (Luckysheet.js), which keep    *)
(* who edits which cell in editLock, the web server's handlers, one        *)
(* goroutine per connection (reader of webserver.go, handlers_ws.go), the  *)
(* cell locks they take in ZooKeeper for the session of the connection     *)
(* (lock.go), and the messages between pages and server, which every       *)
(* connection delivers in order.                                           *)
(*                                                                         *)
(* A handler is split at its calls to the client library and to ZooKeeper. *)
(* What is in the cells, and the log, are in DocHistory.  The library's    *)
(* session of a connection does not expire while it is open (ZkLock).      *)
(***************************************************************************)
EXTENDS Integers, Sequences

CONSTANTS Conns,         \* connections of pages, one at a time each
          Users,
          UserOf,        \* the user at the page of a connection
          Cells,
          MaxJoins,      \* bound on pages that connect
          MaxAsks,       \* bound on the edits and rollbacks they ask for
          MaxQueue,      \* bound on requests a connection holds
          WideCells      \* cells may be filled to their last five bytes

ASSUME UserAssumption == UserOf \in [Conns -> Users]
ASSUME BoundAssumption ==
  MaxJoins \in Nat /\ MaxAsks \in Nat /\ MaxQueue \in Nat
ASSUME WideAssumption == WideCells \in BOOLEAN

Nobody == "nobody"
NoCell == "none"
NoConn == "free"

ASSUME NameAssumption == Nobody \notin Users /\ NoCell \notin Cells /\ NoConn \notin Conns

VARIABLES
  \* the pages
  page,      \* "open" or "gone"
  editLock,  \* who edits each cell, as the page believes
  editing,   \* the cell it is editing: isEditing, editingRow and editingColumn
  \* the connections
  inbox,     \* requests on their way to the server
  outbox,    \* messages on their way to the page
  \* the server
  pc, cell,  \* the handler of each connection and the cell it is about
  connMap,   \* the connections of the document, in the order they came
  lockMap,   \* the user who took the lock of a cell
  \* ZooKeeper
  owner,     \* the connection whose session has the znode of a cell
  \* bookkeeping
  upsets,    \* what has come between an editor and its lock
  joins, asks

pages  == <<page, editLock, editing>>
server == <<pc, cell, connMap, lockMap, owner>>
budget == <<joins, asks>>
vars   == <<pages, inbox, outbox, server, upsets, budget>>

Free == [k \in Cells |-> Nobody]

Init ==
  /\ page = [p \in Conns |-> "gone"]
  /\ editLock = [p \in Conns |-> Free]
  /\ editing = [p \in Conns |-> NoCell]
  /\ inbox = [p \in Conns |-> <<>>]
  /\ outbox = [p \in Conns |-> <<>>]
  /\ pc = [p \in Conns |-> "closed"]
  /\ cell = [p \in Conns |-> NoCell]
  /\ connMap = <<>>
  /\ lockMap = Free
  /\ owner = [k \in Cells |-> NoConn]
  /\ upsets = {} /\ joins = 0 /\ asks = 0

Me(p) == UserOf[p]

\* Messages.  "locks" is FILELOCKINFO; FAILOCK, and the answers of a rollback
\* that is refused, change nothing at the page and are left out.
Req(t, k) == [type |-> t, cell |-> k]
Editing(p, k) == [type |-> "editing", cell |-> k, by |-> p]
Clear(k) == [type |-> "clear", cell |-> k]
Locks(m) == [type |-> "locks", map |-> m]

\* The page of p sends requests to the server.
Send(p, reqs) ==
  /\ Len(inbox[p]) + Len(reqs) <= MaxQueue
  /\ inbox' = [inbox EXCEPT ![p] = @ \o reqs]

-----------------------------------------------------------------------------
\* The page of a user connects and opens the document.  A connection the
\* server has done with stands for the next one, of the reloaded page.
Join(p) ==
  /\ pc[p] = "closed" /\ joins < MaxJoins
  /\ page' = [page EXCEPT ![p] = "open"]
  /\ pc' = [pc EXCEPT ![p] = "idle"]
  /\ Send(p, <<Req("open", NoCell)>>)
  /\ joins' = joins + 1
  /\ UNCHANGED <<editLock, editing, outbox, cell, connMap, lockMap, owner, upsets, asks>>

\* Mutant: updateCell sends the update if nobody else edits.
MayUpdateFree(p, k) == editLock[p][k] \in {Nobody, Me(p)}

\* updateCell sends an update for a cell the page may edit, and drops one for
\* any other without a word, or with an error shown.
MayUpdate(p, k) == editLock[p][k] = Me(p)

\* updateCell for a cell that may be updated: it is nobody's now.
Updated(p, k) == [editLock EXCEPT ![p][k] = Nobody]

\* The user changes a cell (cellUpdated): its edit ends.
Update(p, k) ==
  /\ page[p] = "open" /\ MayUpdate(p, k)
  /\ Send(p, <<Req("update", k)>>)
  /\ editLock' = Updated(p, k)
  /\ editing' = [editing EXCEPT ![p] = NoCell]
  /\ UNCHANGED <<page, outbox, server, upsets, budget>>

\* A click away from the cell (MouseDownBefore) ends the edit as well.  If the
\* lock has not been granted yet, the edit is given up.
ClickAway(p) ==
  LET k == editing[p]
  IN /\ page[p] = "open" /\ k # NoCell /\ ~MayUpdate(p, k)
     /\ editing' = [editing EXCEPT ![p] = NoCell]
     /\ UNCHANGED <<page, editLock, inbox, outbox, server, upsets, budget>>

\* editingCell: the user goes into a cell.  The cell edited before is updated
\* if it may be; then the lock of the new one is asked for, unless the page
\* believes that somebody else has it.
EditingCell(p, k) ==
  LET old == editing[p]
      ends == old # NoCell /\ MayUpdate(p, old)
      now == IF ends THEN Updated(p, old) ELSE editLock
      wants == now[p][k] \in {Nobody, Me(p)}
  IN /\ page[p] = "open" /\ asks < MaxAsks
     /\ ends \/ wants \/ (old # NoCell /\ old # k)
     /\ Send(p, (IF ends THEN <<Req("update", old)>> ELSE <<>>)
                \o (IF wants THEN <<Req("editing", k)>> ELSE <<>>))
     /\ editLock' = now
     /\ editing' = [editing EXCEPT ![p] =
                      IF wants \/ (old # NoCell /\ ~ends) THEN k ELSE NoCell]
     /\ asks' = asks + 1
     /\ UNCHANGED <<page, outbox, server, upsets, joins>>

\* handleKeyPress asks for a rollback.
AskRollback(p) ==
  /\ page[p] = "open" /\ asks < MaxAsks
  /\ Send(p, <<Req("rollback", NoCell)>>)
  /\ asks' = asks + 1
  /\ UNCHANGED <<pages, outbox, server, upsets, joins>>

\* The page is closed.  What it has sent is still read by the server.
Leave(p) ==
  /\ page[p] = "open"
  /\ page' = [page EXCEPT ![p] = "gone"]
  /\ editLock' = [editLock EXCEPT ![p] = Free]
  /\ editing' = [editing EXCEPT ![p] = NoCell]
  /\ outbox' = [outbox EXCEPT ![p] = <<>>]
  /\ UNCHANGED <<inbox, server, upsets, budget>>

\* Mutant: the connection is kept, not its user.
HeardConn(p, m) ==
  CASE m.type = "editing" -> [editLock[p] EXCEPT ![m.cell] = m.by]
    [] m.type = "clear"   -> [editLock[p] EXCEPT ![m.cell] = Nobody]
    [] m.type = "locks"   -> [k \in Cells |-> IF m.map[k] = Nobody THEN editLock[p][k]
                                              ELSE m.map[k]]

\* editLock after onMessage: "editing", "update" and "ROLLBACK", FILELOCKINFO.
Heard(p, m) ==
  CASE m.type = "editing" -> [editLock[p] EXCEPT ![m.cell] = Me(m.by)]
    [] m.type = "clear"   -> [editLock[p] EXCEPT ![m.cell] = Nobody]
    [] m.type = "locks"   -> [k \in Cells |-> IF m.map[k] = Nobody THEN editLock[p][k]
                                              ELSE m.map[k]]

\* The page takes the name of its own user for its own: another connection of
\* that user was named, or one that is no more.
Mistaken(p, m) ==
  CASE m.type = "editing" -> m.by # p /\ Me(m.by) = Me(p)
    [] m.type = "clear"   -> FALSE
    [] m.type = "locks"   -> \E k \in Cells : m.map[k] = Me(p)

OnMessage(p) ==
  /\ page[p] = "open" /\ outbox[p] # <<>>
  /\ LET m == Head(outbox[p])
     IN /\ editLock' = [editLock EXCEPT ![p] = Heard(p, m)]
        /\ upsets' = IF Mistaken(p, m) THEN upsets \cup {"mistaken"} ELSE upsets
  /\ outbox' = [outbox EXCEPT ![p] = Tail(@)]
  /\ UNCHANGED <<page, editing, inbox, server, budget>>

-----------------------------------------------------------------------------
\* The handler goes on at s, for cell k.
Goto(p, s, k) == /\ pc' = [pc EXCEPT ![p] = s]
                 /\ cell' = [cell EXCEPT ![p] = k]

Done(p) == Goto(p, "idle", NoCell)

\* Message m to the connections cs, as far as their pages are still there.
Tell(cs, m) ==
  outbox' = [q \in Conns |-> IF q \in cs /\ page[q] = "open" THEN Append(outbox[q], m)
                             ELSE outbox[q]]

\* The connections of connMap, and those that come before q.
Connected == {connMap[i] : i \in DOMAIN connMap}
Before(q) == {connMap[i] : i \in {j \in DOMAIN connMap :
                                    \A h \in 1..j : connMap[h] # q}}

\* reader() takes the next request, one of type t, and runs its handler.
Serve(p, t) ==
  /\ pc[p] = "idle" /\ inbox[p] # <<>>
  /\ Head(inbox[p]).type = t
  /\ inbox' = [inbox EXCEPT ![p] = Tail(@)]

\* createConnect: a session for the connection, which enters connMap.
\* handleOpen reads the cells, sends them and writes the log;
CreateConnect(p) ==
  /\ Serve(p, "open")
  /\ connMap' = Append(connMap, p)
  /\ Goto(p, "look", NoCell)
  /\ UNCHANGED <<pages, outbox, lockMap, owner, upsets, budget>>

\* then it tells the page who edits.
OpenInfo(p) ==
  /\ pc[p] = "look"
  /\ Tell({p}, Locks(lockMap))
  /\ Done(p)
  /\ UNCHANGED <<pages, inbox, connMap, lockMap, owner, upsets, budget>>

\* handleEdit tries the lock (locknotblock): the znode is there (FAILOCK), be
\* it the connection's own, or it is made for the session of the connection.
TryLock(p) ==
  /\ Serve(p, "editing")
  /\ LET k == Head(inbox[p]).cell
     IN IF owner[k] = NoConn THEN owner' = [owner EXCEPT ![k] = p] /\ Goto(p, "note", k)
        ELSE UNCHANGED owner /\ Done(p)
  /\ UNCHANGED <<pages, outbox, connMap, lockMap, upsets, budget>>

\* The answer of add() is lost after the znode was made: locknotblock tries
\* again and finds it there.  The lock is held, and the page is told FAILOCK.
TryLockLost(p) ==
  /\ Serve(p, "editing")
  /\ LET k == Head(inbox[p]).cell
     IN owner[k] = NoConn /\ owner' = [owner EXCEPT ![k] = p]
  /\ Done(p)
  /\ upsets' = upsets \cup {"unaware"}
  /\ UNCHANGED <<pages, outbox, connMap, lockMap, budget>>

\* Mutant: the user is not entered in lockMap.
AnnounceOnly(p) ==
  /\ pc[p] = "note"
  /\ \E cs \in {Connected} \cup {Before(q) : q \in {r \in Connected : page[r] = "gone"}} :
       /\ Tell(cs, Editing(p, cell[p]))
       /\ upsets' = IF p \in cs THEN upsets ELSE upsets \cup {"untold"}
  /\ Done(p)
  /\ UNCHANGED <<pages, inbox, connMap, lockMap, owner, budget>>

\* It enters the user in lockMap and tells the connections in turn, until a
\* broken one ends the handler.
Announce(p) ==
  /\ pc[p] = "note"
  /\ lockMap' = [lockMap EXCEPT ![cell[p]] = Me(p)]
  /\ \E cs \in {Connected} \cup {Before(q) : q \in {r \in Connected : page[r] = "gone"}} :
       /\ Tell(cs, Editing(p, cell[p]))
       /\ upsets' = IF p \in cs THEN upsets ELSE upsets \cup {"untold"}
  /\ Done(p)
  /\ UNCHANGED <<pages, inbox, connMap, owner, budget>>

-----------------------------------------------------------------------------
\* Mutant: handleUpdate takes the lock of the cell itself, and waits for it.
WriteLocking(p) ==
  /\ Serve(p, "update")
  /\ LET k == Head(inbox[p]).cell
     IN /\ owner[k] = NoConn
        /\ Goto(p, "unlock", k) /\ lockMap' = [lockMap EXCEPT ![k] = Nobody]
  /\ UNCHANGED <<pages, outbox, connMap, owner, upsets, budget>>

\* handleUpdate reads the old value, writes the new one and takes the cell out
\* of lockMap.  An old value without five spaces at its end makes a slice with
\* a negative bound: the goroutine panics and ends, and nobody takes the
\* connection apart.
Write(p) ==
  /\ Serve(p, "update")
  /\ LET k == Head(inbox[p]).cell
     IN \/ Goto(p, "unlock", k) /\ lockMap' = [lockMap EXCEPT ![k] = Nobody]
        \/ WideCells /\ Goto(p, "dead", k) /\ UNCHANGED lockMap
  /\ UNCHANGED <<pages, outbox, connMap, owner, upsets, budget>>

\* It removes the znode, whoever made it.
Unlock(p) ==
  /\ pc[p] = "unlock"
  /\ owner' = [owner EXCEPT ![cell[p]] = NoConn]
  /\ Goto(p, "spread", cell[p])
  /\ UNCHANGED <<pages, inbox, outbox, connMap, lockMap, upsets, budget>>

\* A new editor of the cell has been told of its lock before.
Overtaken(k) == \E q \in Conns : owner[k] = q /\ ~(pc[q] = "note" /\ cell[q] = k)

\* All connections are told that the cell has changed, by handleUpdate and by
\* handleRollBack.
Spread(p) ==
  /\ pc[p] = "spread"
  /\ Tell(Connected, Clear(cell[p]))
  /\ upsets' = IF Overtaken(cell[p]) THEN upsets \cup {"overtaken"} ELSE upsets
  /\ Done(p)
  /\ UNCHANGED <<pages, inbox, connMap, lockMap, owner, budget>>

\* handleRollBack: the log yields a cell (DocHistory) or a reason to refuse.
\* A cell in lockMap is left alone; another is written and told of.
RollBack(p) ==
  /\ Serve(p, "rollback")
  /\ \/ Done(p)
     \/ \E k \in Cells : lockMap[k] = Nobody /\ Goto(p, "spread", k)
  /\ UNCHANGED <<pages, outbox, connMap, lockMap, owner, upsets, budget>>

\* handleClose: the connection leaves connMap, where it is once, since a page
\* opens its document once.
Forget(p) ==
  \E i \in DOMAIN connMap :
    /\ connMap[i] = p
    /\ connMap' = SubSeq(connMap, 1, i - 1) \o SubSeq(connMap, i + 1, Len(connMap))

\* removeConn when nothing is left to read: the session is closed, which
\* removes its znodes, and the connection leaves connMap.  lockMap stays.
RemoveConn(p) ==
  /\ page[p] = "gone" /\ pc[p] = "idle" /\ inbox[p] = <<>>
  /\ owner' = [k \in Cells |-> IF owner[k] = p THEN NoConn ELSE owner[k]]
  /\ Forget(p)
  /\ Goto(p, "closed", NoCell)
  /\ UNCHANGED <<pages, inbox, outbox, lockMap, upsets, budget>>

-----------------------------------------------------------------------------
Handler(p) ==
  \/ CreateConnect(p) \/ OpenInfo(p) \/ TryLock(p) \/ TryLockLost(p) \/ Announce(p)
  \/ Write(p) \/ Unlock(p) \/ Spread(p)
  \/ RollBack(p) \/ RemoveConn(p)

\* The user at an open page ends the edit of the cell the page is in.
EndEdit(p) == editing[p] # NoCell /\ (ClickAway(p) \/ Update(p, editing[p]))

UserStep(p) ==
  \/ Join(p) \/ ClickAway(p) \/ AskRollback(p) \/ Leave(p)
  \/ \E k \in Cells : Update(p, k) \/ EditingCell(p, k)

Next == \E p \in Conns : UserStep(p) \/ OnMessage(p) \/ Handler(p)

\* Goroutines run, messages arrive, and a user does not stay in a cell for
\* ever.
Fairness == \A p \in Conns : WF_vars(Handler(p)) /\ WF_vars(OnMessage(p))
                             /\ WF_vars(EndEdit(p))

Spec == Init /\ [][Next]_vars /\ Fairness

-----------------------------------------------------------------------------
ReqType == [type : {"open", "rollback"}, cell : {NoCell}]
           \cup [type : {"editing", "update"}, cell : Cells]
MsgType == [type : {"editing"}, cell : Cells, by : Conns]
           \cup [type : {"clear"}, cell : Cells]
           \cup [type : {"locks"}, map : [Cells -> Users \cup {Nobody}]]

TypeOK ==
  /\ page \in [Conns -> {"open", "gone"}]
  /\ editLock \in [Conns -> [Cells -> Users \cup {Nobody}]]
  /\ editing \in [Conns -> Cells \cup {NoCell}]
  /\ inbox \in [Conns -> Seq(ReqType)]
  /\ outbox \in [Conns -> Seq(MsgType)]
  /\ pc \in [Conns -> {"idle", "look", "note", "unlock", "spread", "dead", "closed"}]
  /\ cell \in [Conns -> Cells \cup {NoCell}]
  /\ \A p \in Conns : pc[p] \in {"note", "unlock", "spread", "dead"} => cell[p] \in Cells
  /\ connMap \in Seq(Conns)
  /\ lockMap \in [Cells -> Users \cup {Nobody}]
  /\ owner \in [Cells -> Conns \cup {NoConn}]
  /\ upsets \subseteq {"mistaken", "untold", "overtaken", "unaware"}
  /\ joins \in Nat /\ asks \in Nat

\* The connection p is to update cell k: its page may, its request is on the
\* way, or its handler has not released the lock yet.
Updating(p, k) ==
  \/ page[p] = "open" /\ MayUpdate(p, k)
  \/ \E i \in DOMAIN inbox[p] : inbox[p][i] = Req("update", k)
  \/ pc[p] \in {"unlock", "dead"} /\ cell[p] = k

\* A cell is updated, over the network and past the other goroutines, under
\* the lock of the connection that updates it, although the server never looks
\* whose lock it is: the pages alone see to it.  Only a page that takes another
\* connection's or an old entry of its user's name for its own breaks it.
UpdateUnderLock ==
  "mistaken" \notin upsets => \A p \in Conns, k \in Cells : Updating(p, k) => owner[k] = p

\* Nothing is under way between the page of p and the server.
Settled(p) == page[p] = "open" /\ pc[p] = "idle" /\ inbox[p] = <<>> /\ outbox[p] = <<>>

\* A lock is known to those who rely on it.  Its user is in lockMap, where
\* handleRollBack and handleOpen look, except while the holder's handlers are
\* at work; and the holder's page ends up knowing, so that it can give it back,
\* unless the change of the cell by an earlier editor or by a rollback was told
\* after the lock, the announcement ended at a broken connection, or the answer
\* that the lock was taken was lost.
HolderKnown ==
  \A p \in Conns, k \in Cells : owner[k] = p =>
    /\ \/ upsets \cap {"mistaken", "unaware"} # {}
       \/ cell[p] = k /\ pc[p] \in {"note", "unlock"}
       \/ lockMap[k] = Me(p)
    /\ upsets = {} /\ Settled(p) => MayUpdate(p, k)

\* The lock came after the page of p had gone on: it knows of the lock, and
\* nobody there is in the cell to give it back.
Abandoned(p, k) == page[p] = "open" /\ editing[p] # k /\ MayUpdate(p, k)

\* Every lock is given back: the editor's page sends the update and the server
\* writes the cell and unlocks it, or the lock goes with the session of a page
\* that was closed.  It stays only where the user went on before the lock was
\* granted, the handler panicked, or one of the mishaps hit somebody.
EditEnds ==
  \A p \in Conns, k \in Cells :
    (owner[k] = p)
      ~> (owner[k] # p \/ Abandoned(p, k) \/ upsets # {} \/ pc[p] = "dead")
=============================================================================
