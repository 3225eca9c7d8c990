-------------------------- MODULE DocEditingProofs --------------------------
(***************************************************************************)
(* Proofs about DocEditing, for any connections, users, cells and bounds.  *)
(*                                                                         *)
(* UpdateUnderLock is not inductive: it does not say what happens to the   *)
(* right to update a cell on its way between server and page.  That right  *)
(* is a token: the lock just taken, the announcement on its way to the     *)
(* page of the holder, the entry of its editLock, the update on its way    *)
(* back, and the handler of the update.  A connection has it at most once, *)
(* for a cell whose lock it has.                                           *)
(***************************************************************************)
EXTENDS DocEditing, SequenceTheorems, TLAPS

None(s, m) == \A i \in DOMAIN s : s[i] # m
Once(s, m) == \A i, j \in DOMAIN s : s[i] = m /\ s[j] = m => i = j

Held(p, k) == pc[p] \in {"note", "unlock", "dead"} /\ cell[p] = k
Asked(p, k) == ~None(inbox[p], Req("update", k))
Granted(p, k) == ~None(outbox[p], Editing(p, k))

Tokens(p, k) ==
  /\ Held(p, k) \/ MayUpdate(p, k) \/ Asked(p, k) \/ Granted(p, k) => owner[k] = p
  /\ ~(Held(p, k) /\ MayUpdate(p, k)) /\ ~(Asked(p, k) /\ Granted(p, k))
  /\ Held(p, k) \/ MayUpdate(p, k) => ~Asked(p, k) /\ ~Granted(p, k)
  /\ Once(inbox[p], Req("update", k)) /\ Once(outbox[p], Editing(p, k))

OneToken == "mistaken" \notin upsets => \A p \in Conns, k \in Cells : Tokens(p, k)

\* A closed page has forgotten what it knew, and is told nothing.
Forgotten == \A p \in Conns : page[p] = "gone" => editLock[p] = Free /\ outbox[p] = <<>>

IInv == TypeOK /\ Forgotten /\ OneToken

-----------------------------------------------------------------------------
\* A message put at the end of a queue is the only new one in it.
LEMMA AppendOne ==
  ASSUME NEW S, NEW s \in Seq(S), NEW e \in S, NEW m
  PROVE  /\ Append(s, e) \in Seq(S)
         /\ None(s, m) /\ e # m => None(Append(s, e), m)
         /\ Once(s, m) /\ e # m => Once(Append(s, e), m)
         /\ None(s, m) => Once(Append(s, e), m)
<1> DEFINE t == Append(s, e)
<1>1. /\ t \in Seq(S) /\ DOMAIN t = 1..(Len(s) + 1) /\ DOMAIN s = 1..Len(s)
      /\ Len(s) \in Nat /\ t[Len(s) + 1] = e /\ \A i \in 1..Len(s) : t[i] = s[i]
  OBVIOUS
<1> HIDE DEF t
<1>2. \A i \in DOMAIN t : i \in DOMAIN s \/ i = Len(s) + 1
  BY <1>1
<1> QED  BY <1>1, <1>2 DEF None, Once, t

\* Taking the first message out of a queue adds none, and takes out the one
\* there was of its kind.
LEMMA TailOne ==
  ASSUME NEW S, NEW s \in Seq(S), s # <<>>, NEW m
  PROVE  /\ Tail(s) \in Seq(S) /\ Head(s) \in S
         /\ None(s, m) => None(Tail(s), m)
         /\ Once(s, m) => Once(Tail(s), m)
         /\ Once(s, m) /\ Head(s) = m => None(Tail(s), m)
         /\ Head(s) = m => ~None(s, m)
<1> DEFINE t == Tail(s)
<1>1. /\ t \in Seq(S) /\ Head(s) = s[1] /\ Len(s) \in Nat /\ Len(s) >= 1
      /\ DOMAIN t = 1..(Len(s) - 1) /\ DOMAIN s = 1..Len(s)
      /\ \A i \in 1..(Len(s) - 1) : t[i] = s[i + 1]
  OBVIOUS
<1> HIDE DEF t
<1>2. \A i \in DOMAIN t : i \in Int /\ i + 1 \in DOMAIN s /\ i + 1 # 1 /\ t[i] = s[i + 1]
  BY <1>1
<1>3. 1 \in DOMAIN s /\ s[1] \in S
  BY <1>1
<1>4. None(s, m) => None(t, m)
  BY <1>2 DEF None
<1>5. Once(s, m) => Once(t, m)
  BY <1>2 DEF Once
<1>6. Once(s, m) /\ s[1] = m => None(t, m)
  BY <1>2, <1>3 DEF Once, None
<1> QED  BY <1>1, <1>3, <1>4, <1>5, <1>6 DEF None, t

\* What the page of p sends goes to the end of its queue.
LEMMA Sends ==
  ASSUME NEW S, NEW s \in Seq(S), NEW a \in S, NEW b \in S
  PROVE  /\ s \o <<>> = s
         /\ s \o <<a>> = Append(s, a)
         /\ s \o (<<a>> \o <<b>>) = Append(Append(s, a), b)
         /\ s \o (<<a>> \o <<>>) = Append(s, a)
         /\ s \o (<<>> \o <<a>>) = Append(s, a)
         /\ s \o (<<>> \o <<>>) = s
<1>1. s \o <<>> = s
  OBVIOUS
<1>2. s \o <<a>> = Append(s, a)
  OBVIOUS
<1>3. s \o (<<a>> \o <<b>>) = Append(Append(s, a), b)
  OBVIOUS
<1>4. <<a>> \o <<>> = <<a>> /\ <<>> \o <<a>> = <<a>> /\ <<>> \o <<>> = <<>>
  OBVIOUS
<1> QED  BY <1>1, <1>2, <1>3, <1>4

\* A sequence without one of its elements.
LEMMA Spliced ==
  ASSUME NEW S, NEW s \in Seq(S), NEW i \in DOMAIN s
  PROVE  SubSeq(s, 1, i - 1) \o SubSeq(s, i + 1, Len(s)) \in Seq(S)
<1>1. i \in 1..Len(s) /\ Len(s) \in Nat /\ \A j \in 1..Len(s) : s[j] \in S
  OBVIOUS
<1>2. SubSeq(s, 1, i - 1) \in Seq(S)
  BY <1>1, SubSeqProperties
<1>3. SubSeq(s, i + 1, Len(s)) \in Seq(S)
  BY <1>1, SubSeqProperties
<1> QED  BY <1>2, <1>3, ConcatProperties

\* Nothing is in an empty queue.
LEMMA NoneEmpty == ASSUME NEW m PROVE None(<<>>, m) /\ Once(<<>>, m)
BY DEF None, Once

\* The requests and messages, by their types.
LEMMA Kinds ==
  /\ Req("open", NoCell) \in ReqType /\ Req("rollback", NoCell) \in ReqType
  /\ \A k \in Cells : Req("editing", k) \in ReqType /\ Req("update", k) \in ReqType
  /\ \A k \in Cells : Clear(k) \in MsgType /\ \A p \in Conns : Editing(p, k) \in MsgType
  /\ \A f \in [Cells -> Users \cup {Nobody}] : Locks(f) \in MsgType
BY DEF Req, Editing, Clear, Locks, ReqType, MsgType

\* No two of them are taken for each other.
LEMMA Different ==
  ASSUME NEW j, NEW k, NEW p, NEW q, NEW f
  PROVE  /\ Req("open", j) # Req("update", k) /\ Req("rollback", j) # Req("update", k)
         /\ Req("editing", j) # Req("update", k)
         /\ (Req("update", j) = Req("update", k)) => j = k
         /\ (Editing(p, j) = Editing(q, k)) => p = q /\ j = k
         /\ Clear(j) # Editing(q, k) /\ Locks(f) # Editing(q, k)
<1>1. /\ Req("open", j).type # Req("update", k).type
      /\ Req("rollback", j).type # Req("update", k).type
      /\ Req("editing", j).type # Req("update", k).type
      /\ Req("update", j).cell = j /\ Req("update", k).cell = k
  BY DEF Req
<1>2. /\ Editing(p, j).by = p /\ Editing(p, j).cell = j
      /\ Editing(q, k).by = q /\ Editing(q, k).cell = k
      /\ Clear(j).type # Editing(q, k).type /\ Locks(f).type # Editing(q, k).type
  BY DEF Editing, Clear, Locks
<1> QED  BY <1>1, <1>2

\* Messages and requests are of one of these forms.
LEMMA Forms ==
  /\ \A m \in ReqType : m.type = "update" => m.cell \in Cells /\ m = Req("update", m.cell)
  /\ \A m \in ReqType : m.type = "editing" => m.cell \in Cells
  /\ \A m \in MsgType :
       \/ m.type = "editing" /\ m.cell \in Cells /\ m.by \in Conns
          /\ m = Editing(m.by, m.cell)
       \/ m.type = "clear" /\ m.cell \in Cells /\ \A p, k : m # Editing(p, k)
       \/ m.type = "locks" /\ m.map \in [Cells -> Users \cup {Nobody}]
          /\ \A p, k : m # Editing(p, k)
BY DEF ReqType, MsgType, Req, Editing

-----------------------------------------------------------------------------
\* A handler takes a request of its type.
LEMMA Served ==
  ASSUME TypeOK, NEW p \in Conns, NEW t, Serve(p, t)
  PROVE  /\ inbox[p] \in Seq(ReqType) /\ Head(inbox[p]) \in ReqType
         /\ inbox' \in [Conns -> Seq(ReqType)]
<1>1. inbox[p] \in Seq(ReqType) /\ inbox[p] # <<>>
  BY DEF TypeOK, Serve
<1>2. Head(inbox[p]) \in ReqType /\ Tail(inbox[p]) \in Seq(ReqType)
  BY <1>1, TailOne
<1> QED  BY <1>1, <1>2 DEF TypeOK, Serve

\* Telling a message leaves every page a queue of messages.
LEMMA Told ==
  ASSUME TypeOK, NEW cs, NEW m \in MsgType, Tell(cs, m)
  PROVE  outbox' \in [Conns -> Seq(MsgType)]
<1>1. \A q \in Conns : outbox[q] \in Seq(MsgType) /\ Append(outbox[q], m) \in Seq(MsgType)
  BY AppendOne DEF TypeOK
<1> QED  BY <1>1 DEF Tell

\* The cell a page ends by going into another is one it is in.
LEMMA EditingType ==
  ASSUME TypeOK, NEW p \in Conns, NEW j \in Cells, EditingCell(p, j)
  PROVE  TypeOK'
<1> USE DEF TypeOK
<1>1. /\ editLock' \in [Conns -> [Cells -> Users \cup {Nobody}]]
      /\ editing' \in [Conns -> Cells \cup {NoCell}] /\ asks' \in Nat
  BY DEF EditingCell, Updated
<1>2. inbox' \in [Conns -> Seq(ReqType)]
  <2> DEFINE old == editing[p]
             ends == old # NoCell /\ MayUpdate(p, old)
             wants == (IF ends THEN Updated(p, old) ELSE editLock)[p][j] \in {Nobody, Me(p)}
             first == IF ends THEN <<Req("update", old)>> ELSE <<>>
             second == IF wants THEN <<Req("editing", j)>> ELSE <<>>
  <2>1. inbox' = [inbox EXCEPT ![p] = @ \o (first \o second)]
    BY DEF EditingCell, Send
  <2>2. first \in Seq(ReqType)
    BY Kinds
  <2>3. second \in Seq(ReqType)
    BY Kinds
  <2> HIDE DEF first, second
  <2> QED  BY <2>1, <2>2, <2>3
<1> QED  BY <1>1, <1>2 DEF EditingCell, server

\* A message leaves a page with an entry for every cell.
LEMMA MessageType ==
  ASSUME TypeOK, NEW p \in Conns, OnMessage(p)
  PROVE  TypeOK'
<1> DEFINE m == Head(outbox[p])
<1>1. m \in MsgType /\ Tail(outbox[p]) \in Seq(MsgType)
  BY TailOne DEF TypeOK, OnMessage
<1> HIDE DEF m
<1>2. Heard(p, m) \in [Cells -> Users \cup {Nobody}]
  BY <1>1, Forms, UserAssumption DEF Heard, Me, TypeOK
<1>3. editLock' = [editLock EXCEPT ![p] = Heard(p, m)] /\ upsets' \in {upsets, upsets \cup {"mistaken"}}
  BY DEF OnMessage, m
<1> QED  BY <1>1, <1>2, <1>3 DEF OnMessage, TypeOK, server, budget

\* What the pages do, messages aside, keeps the types.
LEMMA UserType ==
  ASSUME TypeOK, NEW p \in Conns, UserStep(p)
  PROVE  TypeOK'
<1> USE DEF TypeOK
<1>1. CASE Join(p)
  BY <1>1, Kinds, Sends DEF Join, Send
<1>2. CASE ClickAway(p)
  BY <1>2 DEF ClickAway, server, budget
<1>3. CASE AskRollback(p)
  BY <1>3, Kinds DEF AskRollback, Send, server, pages
<1>4. CASE Leave(p)
  BY <1>4 DEF Leave, Free, server, budget
<1>5. ASSUME NEW k \in Cells, Update(p, k) PROVE TypeOK'
  BY <1>5, Kinds DEF Update, Updated, Send, server, budget
<1> QED  BY <1>1, <1>2, <1>3, <1>4, <1>5, EditingType DEF UserStep

\* What is left in connMap are connections.
LEMMA ForgetType ==
  ASSUME connMap \in Seq(Conns), NEW p, Forget(p)
  PROVE  connMap' \in Seq(Conns)
<1>1. PICK i \in DOMAIN connMap :
        connMap' = SubSeq(connMap, 1, i - 1) \o SubSeq(connMap, i + 1, Len(connMap))
  BY DEF Forget
<1>2. SubSeq(connMap, 1, i - 1) \o SubSeq(connMap, i + 1, Len(connMap)) \in Seq(Conns)
  BY Spliced, Zenon
<1> QED  BY <1>1, <1>2

\* The handlers keep the types.
LEMMA HandlerType ==
  ASSUME TypeOK, NEW p \in Conns, Handler(p)
  PROVE  TypeOK'
<1> USE DEF TypeOK
<1>1. CASE CreateConnect(p)
  <2>1. inbox' \in [Conns -> Seq(ReqType)]
    BY <1>1, Served DEF CreateConnect
  <2>2. connMap' \in Seq(Conns)
    BY <1>1 DEF CreateConnect
  <2> QED  BY <1>1, <2>1, <2>2 DEF CreateConnect, Goto, pages, budget
<1>2. CASE OpenInfo(p)
  <2>1. outbox' \in [Conns -> Seq(MsgType)]
    BY <1>2, Told, Kinds DEF OpenInfo
  <2> QED  BY <1>2, <2>1 DEF OpenInfo, Done, Goto, pages, budget
<1>3. CASE TryLock(p)
  <2> DEFINE k == Head(inbox[p]).cell
  <2>1. inbox' \in [Conns -> Seq(ReqType)] /\ k \in Cells
    BY <1>3, Served, Forms DEF TryLock, Serve
  <2>2. CASE owner' = [owner EXCEPT ![k] = p] /\ Goto(p, "note", k)
    <3> HIDE DEF k
    <3> QED  BY <1>3, <2>1, <2>2 DEF TryLock, Goto, pages, budget
  <2>3. CASE UNCHANGED owner /\ Done(p)
    <3> HIDE DEF k
    <3> QED  BY <1>3, <2>1, <2>3 DEF TryLock, Done, Goto, pages, budget
  <2> QED  BY <1>3, <2>2, <2>3 DEF TryLock
<1>4. CASE Announce(p)
  <2>1. cell[p] \in Cells
    BY <1>4 DEF Announce
  <2>2. outbox' \in [Conns -> Seq(MsgType)]
    BY <1>4, <2>1, Told, Kinds DEF Announce
  <2>3. lockMap' \in [Cells -> Users \cup {Nobody}]
    BY <1>4, <2>1, UserAssumption DEF Announce, Me
  <2>4. upsets' \subseteq {"mistaken", "untold", "overtaken", "unaware"}
    BY <1>4 DEF Announce
  <2> QED  BY <1>4, <2>1, <2>2, <2>3, <2>4 DEF Announce, Done, Goto, pages, budget
<1>5. CASE Write(p)
  <2>1. inbox' \in [Conns -> Seq(ReqType)] /\ Head(inbox[p]).cell \in Cells
    BY <1>5, Served, Forms DEF Write, Serve
  <2> QED  BY <1>5, <2>1, ZenonT(60) DEF Write, Goto, pages, budget
<1>6. CASE Unlock(p)
  BY <1>6 DEF Unlock, Goto, pages, budget
<1>7. CASE Spread(p)
  <2>1. outbox' \in [Conns -> Seq(MsgType)]
    BY <1>7, Told, Kinds DEF Spread
  <2> QED  BY <1>7, <2>1 DEF Spread, Done, Goto, pages, budget
<1>8. CASE RollBack(p)
  <2>1. inbox' \in [Conns -> Seq(ReqType)]
    BY <1>8, Served DEF RollBack
  <2>2. CASE Done(p)
    BY <1>8, <2>1, <2>2 DEF RollBack, Done, Goto, pages, budget
  <2>3. ASSUME NEW k \in Cells, Goto(p, "spread", k) PROVE TypeOK'
    BY <1>8, <2>1, <2>3 DEF RollBack, Goto, pages, budget
  <2> QED  BY <1>8, <2>2, <2>3 DEF RollBack
<1>9. CASE RemoveConn(p)
  <2>1. connMap' \in Seq(Conns)
    BY <1>9, ForgetType DEF RemoveConn
  <2>2. owner' \in [Cells -> Conns \cup {NoConn}]
    BY <1>9 DEF RemoveConn
  <2> QED  BY <1>9, <2>1, <2>2 DEF RemoveConn, Goto, pages, budget
<1>10. CASE TryLockLost(p)
  <2> DEFINE k == Head(inbox[p]).cell
  <2>1. inbox' \in [Conns -> Seq(ReqType)] /\ k \in Cells
    BY <1>10, Served, Forms DEF TryLockLost, Serve
  <2>2. owner' = [owner EXCEPT ![k] = p]
    BY <1>10 DEF TryLockLost
  <2>3. /\ upsets' \subseteq {"mistaken", "untold", "overtaken", "unaware"}
        /\ UNCHANGED <<page, editLock, editing, outbox, connMap, lockMap, joins, asks>>
    BY <1>10 DEF TryLockLost, pages, budget
  <2>4. Goto(p, "idle", NoCell)
    BY <1>10 DEF TryLockLost, Done
  <2> HIDE DEF k
  <2>5. owner' \in [Cells -> Conns \cup {NoConn}]
    BY <2>1, <2>2
  <2>6. /\ pc' \in [Conns -> {"idle", "look", "note", "unlock", "spread", "dead", "closed"}]
        /\ cell' \in [Conns -> Cells \cup {NoCell}]
        /\ \A q \in Conns : pc'[q] \in {"note", "unlock", "spread", "dead"} => cell'[q] \in Cells
    BY <2>4 DEF Goto
  <2> QED  BY <2>1, <2>3, <2>5, <2>6
<1> QED  BY <1>1, <1>2, <1>3, <1>4, <1>5, <1>6, <1>7, <1>8, <1>9, <1>10 DEF Handler

\* Every step keeps the types.
LEMMA TypeStep == TypeOK /\ [Next]_vars => TypeOK'
<1> SUFFICES ASSUME TypeOK, [Next]_vars PROVE TypeOK'
  OBVIOUS
<1>1. CASE UNCHANGED vars
  BY <1>1 DEF vars, pages, server, budget, TypeOK
<1>2. CASE Next
  BY <1>2, UserType, MessageType, HandlerType DEF Next
<1> QED  BY <1>1, <1>2

\* What the pages, the connections, the server and ZooKeeper hold is always
\* well formed, whatever the order of requests, messages and handlers.
THEOREM TypeCorrect == Spec => []TypeOK
<1>1. Init => TypeOK
  BY DEF Init, TypeOK, Free
<1> QED  BY <1>1, TypeStep, PTL DEF Spec

-----------------------------------------------------------------------------
\* A step adds no update of k to the requests of q, and no announcement of
\* its lock to the messages for q.
InKept(q, k) ==
  /\ None(inbox[q], Req("update", k)) => None(inbox'[q], Req("update", k))
  /\ Once(inbox[q], Req("update", k)) => Once(inbox'[q], Req("update", k))

OutKept(q, k) ==
  /\ None(outbox[q], Editing(q, k)) => None(outbox'[q], Editing(q, k))
  /\ Once(outbox[q], Editing(q, k)) => Once(outbox'[q], Editing(q, k))

\* A step that leaves the requests alone adds none,
LEMMA SameIn == ASSUME UNCHANGED inbox, NEW q, NEW k PROVE InKept(q, k)
BY DEF InKept

\* and so it is with the messages.
LEMMA SameOut == ASSUME UNCHANGED outbox, NEW q, NEW k PROVE OutKept(q, k)
BY DEF OutKept

\* Sending another request, or from another page, keeps the requests of q.
LEMMA OtherSent ==
  ASSUME TypeOK, NEW p \in Conns, NEW e \in ReqType, Send(p, <<e>>),
         NEW q \in Conns, NEW k, q # p \/ e # Req("update", k)
  PROVE  InKept(q, k)
<1>0. inbox[p] \in Seq(ReqType) /\ inbox[q] \in Seq(ReqType)
  BY DEF TypeOK
<1>1. inbox' = [inbox EXCEPT ![p] = Append(@, e)]
  <2>1. inbox[p] \o <<e>> = Append(inbox[p], e)
    BY <1>0, Sends
  <2> QED  BY <2>1 DEF Send
<1>2. CASE q # p
  BY <1>1, <1>2 DEF InKept, TypeOK
<1>3. CASE q = p
  <2>1. inbox'[q] = Append(inbox[q], e)
    BY <1>1, <1>3 DEF TypeOK
  <2> QED  BY <1>0, <1>3, <2>1, AppendOne DEF InKept
<1> QED  BY <1>2, <1>3

\* Taking a request out adds none.
LEMMA ServedKept ==
  ASSUME TypeOK, NEW p \in Conns, NEW t, Serve(p, t), NEW q \in Conns, NEW k
  PROVE  InKept(q, k)
<1>1. inbox[p] \in Seq(ReqType) /\ inbox[p] # <<>>
      /\ inbox' = [inbox EXCEPT ![p] = Tail(@)]
  BY DEF Serve, TypeOK
<1>2. CASE q # p
  BY <1>1, <1>2 DEF InKept, TypeOK
<1>3. CASE q = p
  <2>1. inbox'[q] = Tail(inbox[q])
    BY <1>1, <1>3 DEF TypeOK
  <2> QED  BY <1>1, <1>3, <2>1, TailOne DEF InKept
<1> QED  BY <1>2, <1>3

\* Telling another message keeps the announcements for q.
LEMMA OtherTold ==
  ASSUME TypeOK, NEW cs, NEW m \in MsgType, Tell(cs, m),
         NEW q \in Conns, NEW k, m # Editing(q, k)
  PROVE  OutKept(q, k)
<1>1. outbox[q] \in Seq(MsgType)
      /\ (outbox'[q] = outbox[q] \/ outbox'[q] = Append(outbox[q], m))
  BY DEF Tell, TypeOK
<1>2. CASE outbox'[q] = outbox[q]
  BY <1>2 DEF OutKept
<1>3. CASE outbox'[q] = Append(outbox[q], m)
  BY <1>1, <1>3, AppendOne DEF OutKept
<1> QED  BY <1>1, <1>2, <1>3

\* A step that gives no right to update k keeps the one there may be.
LEMMA Frame ==
  ASSUME NEW q, NEW k, Tokens(q, k), owner[k] = q => owner'[k] = q,
         Held(q, k)' => Held(q, k), MayUpdate(q, k)' => MayUpdate(q, k),
         InKept(q, k), OutKept(q, k)
  PROVE  Tokens(q, k)'
BY DEF Tokens, Asked, Granted, InKept, OutKept

\* A handler that goes on outside the lock does not hold it.
LEMMA NotHeld ==
  ASSUME TypeOK, NEW p \in Conns, NEW s, NEW j, Goto(p, s, j), NEW q \in Conns, NEW k,
         p # q \/ s \notin {"note", "unlock", "dead"} \/ j # k
  PROVE  Held(q, k)' => Held(q, k) /\ p # q
BY DEF Goto, Held, TypeOK

\* Nobody's name is no user's.
LEMMA Named == \A p \in Conns : Me(p) \in Users /\ Me(p) # Nobody
BY UserAssumption, NameAssumption DEF Me

-----------------------------------------------------------------------------
\* The page of p ends the edit of j: its right goes into the request.
LEMMA Ended ==
  ASSUME TypeOK, NEW p \in Conns, NEW j \in Cells, NEW i \in Cells,
         MayUpdate(p, j), editLock' = Updated(p, j),
         UNCHANGED <<outbox, pc, cell, owner>>,
         \/ inbox' = [inbox EXCEPT ![p] = Append(@, Req("update", j))]
         \/ inbox' = [inbox EXCEPT ![p] = Append(Append(@, Req("update", j)),
                                                 Req("editing", i))],
         NEW q \in Conns, NEW k \in Cells, Tokens(q, k)
  PROVE  Tokens(q, k)'
<1> DEFINE u == Req("update", k)
           one == Append(inbox[p], Req("update", j))
           two == Append(one, Req("editing", i))
<1>1. inbox[p] \in Seq(ReqType) /\ Req("update", j) \in ReqType /\ Req("editing", i) \in ReqType
  BY Kinds DEF TypeOK
<1>2. Req("editing", i) # u /\ (Req("update", j) = u => j = k)
  BY Different
<1>3. Held(q, k)' <=> Held(q, k)
  BY DEF Held
<1>4. MayUpdate(q, k)' => MayUpdate(q, k) /\ ~(q = p /\ k = j)
  BY Named DEF MayUpdate, Updated, TypeOK, Me
<1>5. OutKept(q, k) /\ owner'[k] = owner[k]
  BY DEF OutKept
<1>6. CASE q # p
  <2>1. InKept(q, k)
    BY <1>6 DEF InKept, TypeOK
  <2> QED  BY <1>3, <1>4, <1>5, <2>1, Frame
<1>7. CASE q = p
  <2>1. inbox'[q] = one \/ inbox'[q] = two
    BY <1>7 DEF TypeOK
  <2>2. one \in Seq(ReqType)
    BY <1>1, AppendOne
  <2> HIDE DEF u
  <2>3. CASE k # j
    <3>1. /\ None(inbox[p], u) => None(one, u)
          /\ Once(inbox[p], u) => Once(one, u)
      BY <1>1, <1>2, <2>3, AppendOne
    <3> HIDE DEF one
    <3>2. /\ None(one, u) => None(two, u)
          /\ Once(one, u) => Once(two, u)
      BY <1>1, <1>2, <2>2, AppendOne
    <3>3. InKept(q, k)
      BY <1>7, <2>1, <3>1, <3>2 DEF InKept, u
    <3> QED  BY <1>3, <1>4, <1>5, <3>3, Frame
  <2>4. CASE k = j
    <3>1. ~Held(p, k) /\ None(inbox[p], u) /\ ~Granted(p, k) /\ owner[k] = p
      BY <1>7, <2>4 DEF Tokens, Asked, u
    <3>2. Once(one, u)
      BY <1>1, <3>1, AppendOne
    <3>3. Once(two, u)
      BY <1>1, <1>2, <2>2, <3>2, AppendOne
    <3>4. Once(inbox'[q], u)
      BY <2>1, <3>2, <3>3
    <3> QED  BY <1>3, <1>4, <1>5, <1>7, <2>4, <3>1, <3>4 DEF Tokens, Granted, OutKept, u
  <2> QED  BY <2>3, <2>4
<1> QED  BY <1>6, <1>7

\* Going into another cell ends the edit of the one before, if there was one.
LEMMA EditingTokens ==
  ASSUME TypeOK, NEW p \in Conns, NEW i \in Cells, EditingCell(p, i),
         NEW q \in Conns, NEW k \in Cells, Tokens(q, k)
  PROVE  Tokens(q, k)'
<1> DEFINE old == editing[p]
           ends == old # NoCell /\ MayUpdate(p, old)
           wants == (IF ends THEN Updated(p, old) ELSE editLock)[p][i] \in {Nobody, Me(p)}
           first == IF ends THEN <<Req("update", old)>> ELSE <<>>
           second == IF wants THEN <<Req("editing", i)>> ELSE <<>>
<1>1. /\ inbox' = [inbox EXCEPT ![p] = @ \o (first \o second)]
      /\ editLock' = IF ends THEN Updated(p, old) ELSE editLock
      /\ UNCHANGED <<outbox, pc, cell, owner>>
  BY DEF EditingCell, Send, server
<1>2. inbox[p] \in Seq(ReqType) /\ Req("editing", i) \in ReqType
  BY Kinds DEF TypeOK
<1>3. CASE ends
  <2>1. old \in Cells
    BY <1>3 DEF TypeOK
  <2>2. Req("update", old) \in ReqType
    BY <2>1, Kinds
  <2>3. \/ inbox[p] \o (first \o second) = Append(inbox[p], Req("update", old))
        \/ inbox[p] \o (first \o second)
             = Append(Append(inbox[p], Req("update", old)), Req("editing", i))
    <3>1. first = <<Req("update", old)>> /\ second \in {<<Req("editing", i)>>, <<>>}
      BY <1>3
    <3> HIDE DEF first, second
    <3>2. /\ inbox[p] \o (<<Req("update", old)>> \o <<>>) = Append(inbox[p], Req("update", old))
          /\ inbox[p] \o (<<Req("update", old)>> \o <<Req("editing", i)>>)
               = Append(Append(inbox[p], Req("update", old)), Req("editing", i))
      BY <1>2, <2>2, Sends
    <3> QED  BY <3>1, <3>2, Zenon
  <2>4. MayUpdate(p, old) /\ editLock' = Updated(p, old)
    BY <1>1, <1>3
  <2> HIDE DEF old, first, second
  <2> QED  BY <1>1, <2>1, <2>3, <2>4, Ended
<1>4. CASE ~ends
  <2>1. inbox[p] \o (first \o second) \in {inbox[p], Append(inbox[p], Req("editing", i))}
    BY <1>2, <1>4, Sends
  <2>2. InKept(q, k)
    <3>1. CASE inbox' = inbox
      BY <3>1, SameIn
    <3>2. CASE inbox' = [inbox EXCEPT ![p] = Append(@, Req("editing", i))]
      <4>1. CASE q # p
        BY <3>2, <4>1 DEF InKept, TypeOK
      <4>2. CASE q = p
        <5>1. inbox'[q] = Append(inbox[q], Req("editing", i)) /\ inbox[q] \in Seq(ReqType)
          BY <3>2, <4>2 DEF TypeOK
        <5> QED  BY <1>2, <5>1, AppendOne, Different DEF InKept
      <4> QED  BY <4>1, <4>2
    <3> HIDE DEF first, second
    <3> QED  BY <1>1, <2>1, <3>1, <3>2 DEF TypeOK
  <2>3. editLock' = editLock
    BY <1>1, <1>4
  <2> HIDE DEF first, second
  <2> QED  BY <1>1, <2>2, <2>3, Frame, SameOut DEF Held, MayUpdate
<1> QED  BY <1>3, <1>4

\* What the pages do, messages aside.
LEMMA UserTokens ==
  ASSUME TypeOK, NEW p \in Conns, UserStep(p),
         NEW q \in Conns, NEW k \in Cells, Tokens(q, k)
  PROVE  Tokens(q, k)'
<1>1. CASE Join(p)
  <2>1. InKept(q, k)
    <3>1. Req("open", NoCell) # Req("update", k) /\ Req("open", NoCell) \in ReqType
      BY Different, Kinds
    <3>2. Send(p, <<Req("open", NoCell)>>)
      BY <1>1 DEF Join
    <3> QED  BY <3>1, <3>2, OtherSent
  <2>2. Held(q, k)' => Held(q, k)
    BY <1>1 DEF Join, Held, TypeOK
  <2> QED  BY <1>1, <2>1, <2>2, Frame, SameOut DEF Join, MayUpdate
<1>2. CASE ClickAway(p)
  <2>1. UNCHANGED <<editLock, inbox, outbox, pc, cell, owner>>
    BY <1>2 DEF ClickAway, server
  <2> QED  BY <2>1, Frame, SameIn, SameOut DEF Held, MayUpdate
<1>3. CASE AskRollback(p)
  <2>1. InKept(q, k)
    <3>1. Req("rollback", NoCell) # Req("update", k) /\ Req("rollback", NoCell) \in ReqType
      BY Different, Kinds
    <3>2. Send(p, <<Req("rollback", NoCell)>>)
      BY <1>3 DEF AskRollback
    <3> QED  BY <3>1, <3>2, OtherSent
  <2>2. UNCHANGED <<editLock, outbox, pc, cell, owner>>
    BY <1>3 DEF AskRollback, server, pages
  <2> QED  BY <2>1, <2>2, Frame, SameOut DEF Held, MayUpdate
<1>4. CASE Leave(p)
  <2>1. UNCHANGED <<inbox, pc, cell, owner>>
    BY <1>4 DEF Leave, server
  <2>2. MayUpdate(q, k)' => MayUpdate(q, k)
    BY <1>4, Named DEF Leave, MayUpdate, Free, TypeOK
  <2>3. OutKept(q, k)
    BY <1>4, NoneEmpty DEF Leave, OutKept, TypeOK
  <2> QED  BY <2>1, <2>2, <2>3, Frame, SameIn DEF Held
<1>5. ASSUME NEW j \in Cells, Update(p, j) PROVE Tokens(q, k)'
  <2>1. inbox[p] \in Seq(ReqType) /\ Req("update", j) \in ReqType
    BY Kinds DEF TypeOK
  <2>2. inbox[p] \o <<Req("update", j)>> = Append(inbox[p], Req("update", j))
    BY <2>1, Sends
  <2>3. inbox' = [inbox EXCEPT ![p] = Append(@, Req("update", j))]
    BY <1>5, <2>2 DEF Update, Send
  <2>4. /\ MayUpdate(p, j) /\ editLock' = Updated(p, j)
        /\ UNCHANGED <<outbox, pc, cell, owner>>
    BY <1>5 DEF Update, server
  <2> QED  BY <2>3, <2>4, Ended
<1> QED  BY <1>1, <1>2, <1>3, <1>4, <1>5, EditingTokens DEF UserStep

\* A page that hears of its own lock gets the right to update the cell; no
\* other message gives one, unless the page is mistaken.
LEMMA MessageTokens ==
  ASSUME TypeOK, NEW p \in Conns, OnMessage(p), "mistaken" \notin upsets',
         NEW q \in Conns, NEW k \in Cells, Tokens(q, k)
  PROVE  Tokens(q, k)'
<1> DEFINE m == Head(outbox[p])
<1>1. /\ outbox[p] \in Seq(MsgType) /\ outbox[p] # <<>>
      /\ outbox' = [outbox EXCEPT ![p] = Tail(@)]
      /\ editLock' = [editLock EXCEPT ![p] = Heard(p, m)]
      /\ ~Mistaken(p, m)
      /\ UNCHANGED <<inbox, pc, cell, owner>>
  BY DEF OnMessage, TypeOK, server
<1>2. Held(q, k)' <=> Held(q, k)
  BY <1>1 DEF Held
<1>3. OutKept(q, k)
  <2>1. CASE q # p
    BY <1>1, <2>1 DEF OutKept, TypeOK
  <2>2. CASE q = p
    <3>1. outbox'[q] = Tail(outbox[q])
      BY <1>1, <2>2 DEF TypeOK
    <3> QED  BY <1>1, <2>2, <3>1, TailOne DEF OutKept
  <2> QED  BY <2>1, <2>2
<1>4. ASSUME MayUpdate(q, k)' => MayUpdate(q, k) PROVE Tokens(q, k)'
  BY <1>1, <1>2, <1>3, <1>4, Frame, SameIn
<1>5. CASE q # p
  <2>1. editLock'[q] = editLock[q]
    BY <1>1, <1>5 DEF TypeOK
  <2> QED  BY <1>4, <2>1 DEF MayUpdate
<1>6. CASE q = p
  <2>1. m \in MsgType
    BY <1>1, TailOne
  <2>2. editLock'[p] = Heard(p, m) /\ outbox'[p] = Tail(outbox[p])
    BY <1>1 DEF TypeOK
  <2>3. CASE m = Editing(p, k)
    <3>1. None(Tail(outbox[p]), Editing(p, k)) /\ Granted(p, k)
      BY <1>1, <1>6, <2>3, TailOne DEF Tokens, Granted
    <3>2. ~Held(p, k) /\ ~Asked(p, k) /\ owner[k] = p
      BY <1>6, <3>1 DEF Tokens
    <3>3. ~Held(p, k)' /\ ~Asked(p, k)' /\ ~Granted(p, k)' /\ owner'[k] = p
      BY <1>1, <1>2, <1>6, <2>2, <3>1, <3>2 DEF Asked, Granted
    <3>4. Once(inbox'[p], Req("update", k)) /\ Once(outbox'[p], Editing(p, k))
      BY <1>1, <1>6, <2>2, <3>1 DEF Tokens, Once, None
    <3> QED  BY <1>6, <3>3, <3>4 DEF Tokens
  <2>4. CASE m # Editing(p, k)
    <3> HIDE DEF m
    <3>1. CASE m.type = "editing" /\ m.cell = k
      <4>1. m.by \in Conns /\ m.by # p
        BY <2>1, <2>4, <3>1, Forms
      <4>2. Me(m.by) # Me(p)
        BY <1>1, <3>1, <4>1 DEF Mistaken
      <4>3. editLock'[p][k] = Me(m.by)
        BY <2>2, <3>1 DEF Heard, TypeOK
      <4> QED  BY <1>4, <1>6, <4>2, <4>3 DEF MayUpdate, Me
    <3>2. CASE m.type = "editing" /\ m.cell # k
      <4>1. editLock'[p][k] = editLock[p][k]
        BY <2>2, <3>2 DEF Heard, TypeOK
      <4> QED  BY <1>4, <1>6, <4>1 DEF MayUpdate, Me
    <3>3. CASE m.type = "clear"
      <4>1. editLock'[p][k] \in {editLock[p][k], Nobody}
        BY <2>2, <3>3 DEF Heard, TypeOK
      <4> QED  BY <1>4, <1>6, <4>1, Named DEF MayUpdate, Me
    <3>4. CASE m.type = "locks"
      <4>1. m.map[k] # Me(p)
        BY <1>1, <3>4 DEF Mistaken
      <4>2. editLock'[p][k] \in {editLock[p][k], m.map[k]}
        BY <2>2, <3>4 DEF Heard, TypeOK
      <4> QED  BY <1>4, <1>6, <4>1, <4>2 DEF MayUpdate, Me
    <3> QED  BY <2>1, <3>1, <3>2, <3>3, <3>4, Forms
  <2> QED  BY <2>3, <2>4
<1> QED  BY <1>5, <1>6

\* The handlers: the lock is taken when nobody has a right to the cell, the
\* announcement and the update pass the right on, and it is given up before
\* the lock is.
LEMMA HandlerTokens ==
  ASSUME TypeOK, Forgotten, NEW p \in Conns, Handler(p),
         \A r \in Conns, c \in Cells : Tokens(r, c),
         NEW q \in Conns, NEW k \in Cells
  PROVE  Tokens(q, k)'
<1>0. Tokens(q, k) /\ owner[k] \in Conns \cup {NoConn} /\ q # NoConn
  BY NameAssumption DEF TypeOK
<1>1. CASE CreateConnect(p)
  <2>1. Goto(p, "look", NoCell) /\ Serve(p, "open") /\ UNCHANGED <<editLock, outbox, owner>>
    BY <1>1 DEF CreateConnect, pages
  <2> QED  BY <1>0, <2>1, Frame, NotHeld, ServedKept, SameOut DEF MayUpdate
<1>2. CASE OpenInfo(p)
  <2>1. /\ Goto(p, "idle", NoCell) /\ Tell({p}, Locks(lockMap))
        /\ UNCHANGED <<editLock, inbox, owner>>
    BY <1>2 DEF OpenInfo, Done, pages
  <2>2. Locks(lockMap) \in MsgType /\ Locks(lockMap) # Editing(q, k)
    BY Kinds, Different DEF TypeOK
  <2>3. OutKept(q, k)
    BY <2>1, <2>2, OtherTold
  <2> QED  BY <1>0, <2>1, <2>3, Frame, NotHeld, SameIn DEF MayUpdate
<1>3. CASE TryLock(p)
  <2> DEFINE c == Head(inbox[p]).cell
  <2>1. Serve(p, "editing") /\ UNCHANGED <<editLock, outbox>>
    BY <1>3 DEF TryLock, pages
  <2>2. InKept(q, k) /\ OutKept(q, k) /\ (MayUpdate(q, k)' <=> MayUpdate(q, k))
    BY <2>1, ServedKept, SameOut DEF MayUpdate
  <2>3. CASE owner[c] = NoConn /\ owner' = [owner EXCEPT ![c] = p] /\ Goto(p, "note", c)
    <3> HIDE DEF c
    <3>1. CASE k = c
      <4>1. ~Held(q, k) /\ ~MayUpdate(q, k) /\ ~Asked(q, k) /\ ~Granted(q, k)
        BY <1>0, <2>3, <3>1 DEF Tokens
      <4>2. ~MayUpdate(q, k)' /\ ~Asked(q, k)' /\ ~Granted(q, k)'
        BY <2>2, <4>1 DEF InKept, OutKept, Asked, Granted
      <4>3. Held(q, k)' => q = p
        BY <2>3, <4>1, NotHeld
      <4>4. owner'[k] = p
        BY <2>3, <3>1 DEF TypeOK
      <4> QED  BY <1>0, <2>2, <4>2, <4>3, <4>4 DEF Tokens, InKept, OutKept
    <3>2. CASE k # c
      BY <1>0, <2>2, <2>3, <3>2, Frame, NotHeld DEF TypeOK
    <3> QED  BY <3>1, <3>2
  <2>4. CASE UNCHANGED owner /\ Goto(p, "idle", NoCell)
    BY <1>0, <2>2, <2>4, Frame, NotHeld
  <2> QED  BY <1>3, <2>3, <2>4 DEF TryLock, Done
<1>10. CASE TryLockLost(p)
  <2> DEFINE c == Head(inbox[p]).cell
  <2>1. /\ Serve(p, "editing") /\ UNCHANGED <<editLock, outbox>> /\ owner[c] = NoConn
        /\ owner' = [owner EXCEPT ![c] = p] /\ Goto(p, "idle", NoCell)
    BY <1>10 DEF TryLockLost, Done, pages
  <2>2. InKept(q, k) /\ OutKept(q, k) /\ (MayUpdate(q, k)' <=> MayUpdate(q, k))
    BY <2>1, ServedKept, SameOut DEF MayUpdate
  <2> HIDE DEF c
  <2>3. CASE k = c
    <3>1. ~Held(q, k) /\ ~MayUpdate(q, k) /\ ~Asked(q, k) /\ ~Granted(q, k)
      BY <1>0, <2>1, <2>3 DEF Tokens
    <3>2. ~MayUpdate(q, k)' /\ ~Asked(q, k)' /\ ~Granted(q, k)'
      BY <2>2, <3>1 DEF InKept, OutKept, Asked, Granted
    <3>3. ~Held(q, k)'
      BY <2>1, <3>1, NotHeld
    <3> QED  BY <1>0, <2>2, <3>2, <3>3 DEF Tokens, InKept, OutKept
  <2>4. CASE k # c
    <3>1. owner'[k] = owner[k]
      BY <2>1, <2>4 DEF TypeOK
    <3>2. Held(q, k)' => Held(q, k)
      BY <2>1, NotHeld
    <3> QED  BY <1>0, <2>2, <3>1, <3>2, Frame
  <2> QED  BY <2>3, <2>4
<1>4. CASE Announce(p)
  <2> DEFINE c == cell[p]
  <2>1. PICK cs : Tell(cs, Editing(p, c))
    BY <1>4 DEF Announce
  <2>2. c \in Cells /\ Held(p, c) /\ Goto(p, "idle", NoCell) /\ UNCHANGED <<editLock, inbox, owner>>
    BY <1>4 DEF Announce, Done, pages, TypeOK, Held
  <2>3. Editing(p, c) \in MsgType
    BY <2>2, Kinds
  <2>4. InKept(q, k) /\ (MayUpdate(q, k)' <=> MayUpdate(q, k)) /\ owner'[k] = owner[k]
    BY <2>2, SameIn DEF MayUpdate
  <2>5. Held(q, k)' => Held(q, k) /\ p # q
    BY <2>2, NotHeld
  <2>6. CASE q = p /\ k = c
    <3>1. ~MayUpdate(p, k) /\ ~Asked(p, k) /\ None(outbox[p], Editing(p, k)) /\ owner[k] = p
      BY <1>0, <2>2, <2>6 DEF Tokens, Granted
    <3>2. \/ outbox'[p] = outbox[p]
          \/ outbox'[p] = Append(outbox[p], Editing(p, k)) /\ outbox[p] \in Seq(MsgType)
      BY <2>1, <2>6 DEF Tell, TypeOK
    <3>3. Once(outbox'[p], Editing(p, k))
      <4>1. CASE outbox'[p] = outbox[p]
        BY <1>0, <2>6, <4>1 DEF Tokens
      <4>2. CASE outbox'[p] = Append(outbox[p], Editing(p, k)) /\ outbox[p] \in Seq(MsgType)
        BY <2>3, <2>6, <3>1, <4>2, AppendOne
      <4> QED  BY <3>2, <4>1, <4>2
    <3> QED  BY <1>0, <2>4, <2>5, <2>6, <3>1, <3>3 DEF Tokens, InKept, Asked, Granted
  <2>7. CASE ~(q = p /\ k = c)
    <3>1. Editing(p, c) # Editing(q, k)
      BY <2>7, Different
    <3>2. OutKept(q, k)
      BY <2>1, <2>3, <3>1, OtherTold
    <3> QED  BY <1>0, <2>4, <2>5, <3>2, Frame
  <2> QED  BY <2>6, <2>7
<1>5. CASE Write(p)
  <2> DEFINE c == Head(inbox[p]).cell
  <2>1. Serve(p, "update") /\ UNCHANGED <<editLock, outbox, owner>>
        /\ (Goto(p, "unlock", c) \/ Goto(p, "dead", c))
    BY <1>5 DEF Write, pages
  <2>2. InKept(q, k) /\ OutKept(q, k) /\ (MayUpdate(q, k)' <=> MayUpdate(q, k))
    BY <2>1, ServedKept, SameOut DEF MayUpdate
  <2>3. c \in Cells /\ Head(inbox[p]) = Req("update", c)
    BY <2>1, Served, Forms DEF Serve
  <2>4. CASE q = p /\ k = c
    <3>1. /\ inbox[p] \in Seq(ReqType) /\ inbox[p] # <<>> /\ inbox'[p] = Tail(inbox[p])
      BY <2>1 DEF Serve, TypeOK
    <3>2. Asked(p, k) /\ None(inbox'[p], Req("update", k))
      BY <1>0, <2>3, <2>4, <3>1, TailOne DEF Tokens, Asked
    <3>3. ~MayUpdate(p, k) /\ ~Granted(p, k) /\ owner[k] = p
      BY <1>0, <2>4, <3>2 DEF Tokens
    <3> QED  BY <1>0, <2>1, <2>2, <2>4, <3>2, <3>3 DEF Tokens, InKept, OutKept, Asked, Granted
  <2>5. CASE ~(q = p /\ k = c)
    <3> HIDE DEF c
    <3>1. Held(q, k)' => Held(q, k)
      BY <2>1, <2>5, NotHeld
    <3> QED  BY <1>0, <2>1, <2>2, <3>1, Frame
  <2> QED  BY <2>4, <2>5
<1>6. CASE Unlock(p)
  <2> DEFINE c == cell[p]
  <2>1. c \in Cells /\ Held(p, c) /\ Goto(p, "spread", c) /\ UNCHANGED <<editLock, inbox, outbox>>
        /\ owner' = [owner EXCEPT ![c] = NoConn]
    BY <1>6 DEF Unlock, pages, TypeOK, Held
  <2>2. Tokens(p, c)
    BY <2>1
  <2> HIDE DEF c
  <2>3. InKept(q, k) /\ OutKept(q, k) /\ (MayUpdate(q, k)' <=> MayUpdate(q, k))
    BY <2>1, SameIn, SameOut DEF MayUpdate
  <2>4. Held(q, k)' => Held(q, k) /\ p # q
    BY <2>1, NotHeld
  <2>5. CASE k = c
    <3>1. ~MayUpdate(q, k) /\ ~Asked(q, k) /\ ~Granted(q, k) /\ (Held(q, k) => p = q)
      BY <1>0, <2>1, <2>2, <2>5 DEF Tokens
    <3> QED  BY <1>0, <2>3, <2>4, <3>1 DEF Tokens, InKept, OutKept, Asked, Granted
  <2>6. CASE k # c
    <3>1. owner'[k] = owner[k]
      BY <2>1, <2>6 DEF TypeOK
    <3> QED  BY <1>0, <2>3, <2>4, <3>1, Frame
  <2> QED  BY <2>5, <2>6
<1>7. CASE Spread(p)
  <2>1. /\ Goto(p, "idle", NoCell) /\ Tell(Connected, Clear(cell[p])) /\ cell[p] \in Cells
        /\ UNCHANGED <<editLock, inbox, owner>>
    BY <1>7 DEF Spread, Done, pages, TypeOK
  <2>2. Clear(cell[p]) \in MsgType /\ Clear(cell[p]) # Editing(q, k)
    BY <2>1, Kinds, Different
  <2>3. OutKept(q, k)
    BY <2>1, <2>2, OtherTold
  <2> QED  BY <1>0, <2>1, <2>3, Frame, NotHeld, SameIn DEF MayUpdate
<1>8. CASE RollBack(p)
  <2>1. Serve(p, "rollback") /\ UNCHANGED <<editLock, outbox, owner>>
    BY <1>8 DEF RollBack, pages
  <2>2. Held(q, k)' => Held(q, k)
    BY <1>8, NotHeld DEF RollBack, Done
  <2> QED  BY <1>0, <2>1, <2>2, Frame, ServedKept, SameOut DEF MayUpdate
<1>9. CASE RemoveConn(p)
  <2>1. /\ Goto(p, "closed", NoCell) /\ UNCHANGED <<editLock, inbox, outbox>>
        /\ owner'[k] = IF owner[k] = p THEN NoConn ELSE owner[k]
    BY <1>9 DEF RemoveConn, pages
  <2>2. InKept(q, k) /\ OutKept(q, k) /\ (MayUpdate(q, k)' <=> MayUpdate(q, k))
    BY <2>1, SameIn, SameOut DEF MayUpdate
  <2>3. Held(q, k)' => Held(q, k) /\ p # q
    BY <2>1, NotHeld
  <2>4. CASE q # p
    BY <1>0, <2>1, <2>2, <2>3, <2>4, Frame
  <2>5. CASE q = p
    <3>1. editLock[p] = Free /\ inbox[p] = <<>> /\ outbox[p] = <<>>
      BY <1>9 DEF RemoveConn, Forgotten
    <3>2. ~MayUpdate(q, k) /\ ~Asked(q, k) /\ ~Granted(q, k)
      BY <2>5, <3>1, Named, NoneEmpty DEF MayUpdate, Free, Asked, Granted
    <3> QED  BY <1>0, <2>2, <2>3, <2>5, <3>2 DEF Tokens, InKept, OutKept, Asked, Granted
  <2> QED  BY <2>4, <2>5
<1> QED  BY <1>1, <1>2, <1>3, <1>4, <1>5, <1>6, <1>7, <1>8, <1>9, <1>10 DEF Handler

-----------------------------------------------------------------------------
\* A page forgets when it is closed; what happens later does not reach it.
LEMMA ForgottenStep ==
  ASSUME TypeOK, Forgotten, [Next]_vars
  PROVE  Forgotten'
<1> SUFFICES ASSUME NEW q \in Conns, page'[q] = "gone"
             PROVE  editLock'[q] = Free /\ outbox'[q] = <<>>
  BY DEF Forgotten
<1>0. page[q] = "gone" => editLock[q] = Free /\ outbox[q] = <<>>
  BY DEF Forgotten
<1>1. ASSUME NEW cs, NEW m, Tell(cs, m), UNCHANGED <<page, editLock>>
      PROVE  editLock'[q] = Free /\ outbox'[q] = <<>>
  BY <1>0, <1>1 DEF Tell
<1>2. CASE UNCHANGED <<page, editLock, outbox>>
  BY <1>0, <1>2
<1>3. ASSUME NEW p \in Conns, UserStep(p) PROVE editLock'[q] = Free /\ outbox'[q] = <<>>
  <2>1. CASE Join(p)
    BY <1>0, <2>1 DEF Join, TypeOK
  <2>2. CASE ClickAway(p) \/ AskRollback(p)
    BY <1>2, <2>2 DEF ClickAway, AskRollback, pages
  <2>3. CASE Leave(p)
    BY <1>0, <2>3 DEF Leave, TypeOK
  <2>4. ASSUME NEW k \in Cells, Update(p, k) PROVE editLock'[q] = Free /\ outbox'[q] = <<>>
    BY <1>0, <2>4 DEF Update, Updated, TypeOK
  <2>5. ASSUME NEW k \in Cells, EditingCell(p, k) PROVE editLock'[q] = Free /\ outbox'[q] = <<>>
    BY <1>0, <2>5 DEF EditingCell, Updated, TypeOK
  <2> QED  BY <1>3, <2>1, <2>2, <2>3, <2>4, <2>5 DEF UserStep
<1>4. ASSUME NEW p \in Conns, OnMessage(p) PROVE editLock'[q] = Free /\ outbox'[q] = <<>>
  BY <1>0, <1>4 DEF OnMessage, TypeOK
<1>5. ASSUME NEW p \in Conns, Handler(p) PROVE editLock'[q] = Free /\ outbox'[q] = <<>>
  <2>1. CASE OpenInfo(p) \/ Announce(p) \/ Spread(p)
    BY <1>1, <2>1 DEF OpenInfo, Announce, Spread, pages
  <2>2. CASE \/ CreateConnect(p) \/ TryLock(p) \/ TryLockLost(p) \/ Write(p) \/ Unlock(p)
             \/ RollBack(p) \/ RemoveConn(p)
    BY <1>2, <2>2 DEF CreateConnect, TryLock, TryLockLost, Write, Unlock, RollBack,
                      RemoveConn, pages
  <2> QED  BY <1>5, <2>1, <2>2 DEF Handler
<1>6. CASE UNCHANGED vars
  BY <1>2, <1>6 DEF vars, pages
<1> QED  BY <1>3, <1>4, <1>5, <1>6 DEF Next

\* Nobody stops being mistaken.
LEMMA UpsetsGrow ==
  ASSUME [Next]_vars
  PROVE  upsets \subseteq upsets'
<1>1. ASSUME NEW p \in Conns, UserStep(p) PROVE upsets' = upsets
  BY <1>1 DEF UserStep, Join, ClickAway, AskRollback, Leave, Update, EditingCell
<1>2. ASSUME NEW p \in Conns, OnMessage(p) PROVE upsets \subseteq upsets'
  BY <1>2 DEF OnMessage
<1>3. ASSUME NEW p \in Conns, Handler(p) PROVE upsets \subseteq upsets'
  BY <1>3 DEF Handler, CreateConnect, OpenInfo, TryLock, TryLockLost, Announce, Write,
              Unlock, Spread, RollBack, RemoveConn
<1> QED  BY <1>1, <1>2, <1>3 DEF Next, vars

\* The inductive invariant holds before the first page connects,
LEMMA IInvInit == Init => IInv
<1> SUFFICES ASSUME Init PROVE IInv
  OBVIOUS
<1>1. TypeOK /\ Forgotten
  BY DEF Init, TypeOK, Forgotten, Free
<1>2. ASSUME NEW p \in Conns, NEW k \in Cells PROVE Tokens(p, k)
  <2>1. pc[p] = "closed" /\ editLock[p][k] = Nobody /\ inbox[p] = <<>> /\ outbox[p] = <<>>
    BY DEF Init, Free
  <2>2. ~Held(p, k) /\ ~MayUpdate(p, k)
    BY <2>1, Named DEF Held, MayUpdate
  <2> QED  BY <2>1, <2>2, NoneEmpty DEF Tokens, Asked, Granted
<1> QED  BY <1>1, <1>2 DEF IInv, OneToken

\* is kept by every step,
LEMMA IInvStep == IInv /\ [Next]_vars => IInv'
<1> SUFFICES ASSUME IInv, [Next]_vars PROVE IInv'
  OBVIOUS
<1>1. TypeOK /\ Forgotten /\ TypeOK' /\ Forgotten'
  BY TypeStep, ForgottenStep DEF IInv
<1>2. SUFFICES ASSUME "mistaken" \notin upsets', NEW q \in Conns, NEW k \in Cells
               PROVE  Tokens(q, k)'
  BY <1>1 DEF IInv, OneToken
<1>3. \A r \in Conns, c \in Cells : Tokens(r, c)
  BY <1>2, UpsetsGrow DEF IInv, OneToken
<1>4. CASE UNCHANGED vars
  BY <1>3, <1>4 DEF vars, pages, server, Tokens, Held, MayUpdate, Asked, Granted
<1>5. CASE Next
  BY <1>1, <1>2, <1>3, <1>5, UserTokens, MessageTokens, HandlerTokens DEF Next
<1> QED  BY <1>4, <1>5

\* and implies that updates happen under their lock.
LEMMA Covered == IInv => UpdateUnderLock
<1> SUFFICES ASSUME IInv, "mistaken" \notin upsets,
                    NEW p \in Conns, NEW k \in Cells, Updating(p, k)
             PROVE  owner[k] = p
  BY DEF UpdateUnderLock
<1>1. Tokens(p, k)
  BY DEF IInv, OneToken
<1>2. Held(p, k) \/ MayUpdate(p, k) \/ Asked(p, k)
  BY DEF Updating, Held, Asked, None
<1> QED  BY <1>1, <1>2 DEF Tokens

\* For any number of pages, users and cells, and however requests, messages,
\* announcements, reloads and crashes of handlers interleave: a cell is updated
\* only under the lock of the connection that updates it, although the server
\* does not look whose lock it is, as long as no page takes another entry of
\* its user's name for its own.
THEOREM UpdateUnderLockHolds == Spec => []UpdateUnderLock
BY IInvInit, IInvStep, Covered, PTL DEF Spec

-----------------------------------------------------------------------------
(* Who relies on a lock knows of it.  HolderKnown needs to know where the  *)
(* right to a lock is on its way to the page of its holder, and that       *)
(* nothing on the same way takes it back.                                  *)

\* The message takes the entry of k away from the page of p.
Spoils(m, p, k) ==
  \/ m.type = "editing" /\ m.cell = k /\ m.by # p
  \/ m.type = "clear" /\ m.cell = k
  \/ m.type = "locks" /\ m.map[k] \notin {Nobody, Me(p)}

\* When its messages are read the page of p has cell k for its own: it has it
\* now, or an announcement on its way says so, and nothing behind spoils it.
Due(p, k) ==
  \/ MayUpdate(p, k) /\ \A i \in DOMAIN outbox[p] : ~Spoils(outbox[p][i], p, k)
  \/ \E i \in DOMAIN outbox[p] :
       /\ outbox[p][i] = Editing(p, k)
       /\ \A j \in DOMAIN outbox[p] : j > i => ~Spoils(outbox[p][j], p, k)

\* The user of a lock is in lockMap, except while the holder's handlers work.
Entered(p, k) == \/ cell[p] = k /\ pc[p] \in {"note", "unlock"}
               \/ lockMap[k] = Me(p)

\* The right to a lock is with the holder's handler, page or requests.
Along(p, k) == page[p] = "open" => Held(p, k) \/ Asked(p, k) \/ Due(p, k)

\* A connection the server has done with has no page and no lock.
Shut == \A p \in Conns : pc[p] = "closed" =>
          page[p] = "gone" /\ \A k \in Cells : owner[k] # p

\* Nobody is mistaken, and nobody has a lock without being told.
Certain == upsets \cap {"mistaken", "unaware"} = {}

Holding ==
  /\ Shut
  /\ \A p \in Conns, k \in Cells : owner[k] = p =>
       /\ Certain => Entered(p, k)
       /\ upsets = {} => Along(p, k)

-----------------------------------------------------------------------------
\* What is in a queue stays there when something is put at its end, and when
\* something else is taken out.
LEMMA QueueHas ==
  ASSUME NEW S, NEW s \in Seq(S), NEW e \in S, NEW m
  PROVE  /\ ~None(s, m) => ~None(Append(s, e), m)
         /\ ~None(Append(s, e), e)
         /\ ~None(s, m) /\ Head(s) # m => ~None(Tail(s), m)
<1>1. ~None(s, m) => ~None(Append(s, e), m)
  BY DEF None
<1>2. ~None(Append(s, e), e)
  BY DEF None
<1>3. ASSUME ~None(s, m), Head(s) # m PROVE ~None(Tail(s), m)
  <2>1. PICK i \in DOMAIN s : s[i] = m
    BY <1>3 DEF None
  <2>2. i \in 1..Len(s) /\ Len(s) \in Nat /\ i # 1 /\ s # <<>>
    BY <1>3, <2>1
  <2>3. i - 1 \in 1..(Len(s) - 1) /\ Tail(s)[i - 1] = s[i]
        /\ DOMAIN Tail(s) = 1..(Len(s) - 1)
    BY <2>2
  <2> QED  BY <2>1, <2>3 DEF None
<1> QED  BY <1>1, <1>2, <1>3

\* An announcement at the end of its messages will give the page its cell.
LEMMA DueGrant ==
  ASSUME NEW p, NEW k, outbox[p] \in Seq(MsgType), Editing(p, k) \in MsgType,
         outbox'[p] = Append(outbox[p], Editing(p, k))
  PROVE  Due(p, k)'
<1>1. /\ DOMAIN outbox'[p] = 1..(Len(outbox[p]) + 1) /\ Len(outbox[p]) \in Nat
      /\ outbox'[p][Len(outbox[p]) + 1] = Editing(p, k)
  OBVIOUS
<1> QED  BY <1>1 DEF Due

\* Messages that spoil nothing may follow.
LEMMA DueKept ==
  ASSUME NEW p, NEW k, Due(p, k), outbox[p] \in Seq(MsgType),
         editLock'[p][k] = editLock[p][k], NEW m \in MsgType,
         \/ outbox'[p] = outbox[p]
         \/ outbox'[p] = Append(outbox[p], m) /\ ~Spoils(m, p, k)
  PROVE  Due(p, k)'
<1>0. MayUpdate(p, k)' <=> MayUpdate(p, k)
  BY DEF MayUpdate
<1>1. CASE outbox'[p] = outbox[p]
  BY <1>0, <1>1 DEF Due, Spoils
<1>2. CASE outbox'[p] = Append(outbox[p], m) /\ ~Spoils(m, p, k)
  <2>1. /\ DOMAIN outbox'[p] = 1..(Len(outbox[p]) + 1) /\ Len(outbox[p]) \in Nat
        /\ DOMAIN outbox[p] = 1..Len(outbox[p])
        /\ outbox'[p][Len(outbox[p]) + 1] = m
        /\ \A i \in 1..Len(outbox[p]) : outbox'[p][i] = outbox[p][i]
    BY <1>2
  <2>2. \A i \in DOMAIN outbox'[p] : i \notin DOMAIN outbox[p] => outbox'[p][i] = m
    BY <2>1
  <2>3. DOMAIN outbox[p] \subseteq DOMAIN outbox'[p]
    BY <2>1
  <2>4. CASE MayUpdate(p, k) /\ \A i \in DOMAIN outbox[p] : ~Spoils(outbox[p][i], p, k)
    <3>1. \A i \in DOMAIN outbox'[p] : ~Spoils(outbox'[p][i], p, k)
      BY <1>2, <2>1, <2>2, <2>4
    <3> QED  BY <1>0, <2>4, <3>1 DEF Due, Spoils
  <2>5. ASSUME NEW i \in DOMAIN outbox[p], outbox[p][i] = Editing(p, k),
               \A j \in DOMAIN outbox[p] : j > i => ~Spoils(outbox[p][j], p, k)
        PROVE  Due(p, k)'
    <3>1. \A j \in DOMAIN outbox'[p] : j > i => ~Spoils(outbox'[p][j], p, k)
      BY <1>2, <2>1, <2>2, <2>5
    <3>2. i \in DOMAIN outbox'[p] /\ outbox'[p][i] = Editing(p, k)
      BY <2>1, <2>3, <2>5
    <3> QED  BY <3>1, <3>2 DEF Due, Spoils
  <2> QED  BY <2>4, <2>5 DEF Due
<1> QED  BY <1>1, <1>2

\* A message that is read and spoils nothing leaves the page its cell.
LEMMA DueRead ==
  ASSUME TypeOK, NEW p \in Conns, NEW k \in Cells, Due(p, k), OnMessage(p)
  PROVE  Due(p, k)'
<1> DEFINE s == outbox[p]
           m == Head(outbox[p])
<1>1. /\ s \in Seq(MsgType) /\ s # <<>> /\ m \in MsgType
      /\ outbox'[p] = Tail(s) /\ editLock'[p] = Heard(p, m)
  BY TailOne DEF OnMessage, TypeOK
<1>2. /\ DOMAIN s = 1..Len(s) /\ Len(s) \in Nat /\ m = s[1] /\ 1 \in DOMAIN s
      /\ DOMAIN outbox'[p] = 1..(Len(s) - 1)
      /\ \A i \in 1..(Len(s) - 1) : outbox'[p][i] = s[i + 1]
  BY <1>1
<1> HIDE DEF m, s
<1>3. \A i \in DOMAIN outbox'[p] : i \in Int /\ i + 1 \in DOMAIN s /\ i + 1 > 1
        /\ outbox'[p][i] = s[i + 1]
  BY <1>2
<1>4. MayUpdate(p, k) /\ ~Spoils(m, p, k) => MayUpdate(p, k)'
  <2> SUFFICES ASSUME MayUpdate(p, k), ~Spoils(m, p, k) PROVE editLock'[p][k] = Me(p)
    BY DEF MayUpdate
  <2>1. editLock[p][k] = Me(p) /\ editLock[p] \in [Cells -> Users \cup {Nobody}]
    BY DEF MayUpdate, TypeOK
  <2>2. CASE m.type = "editing"
    <3>1. m.cell = k => m.by = p
      BY <2>2 DEF Spoils
    <3> QED  BY <1>1, <2>1, <2>2, <3>1 DEF Heard
  <2>3. CASE m.type = "clear"
    <3>1. m.cell # k
      BY <2>3 DEF Spoils
    <3> QED  BY <1>1, <2>1, <2>3, <3>1 DEF Heard
  <2>4. CASE m.type = "locks"
    <3>1. m.map[k] \in {Nobody, Me(p)}
      BY <2>4 DEF Spoils
    <3> QED  BY <1>1, <2>1, <2>4, <3>1 DEF Heard
  <2> QED  BY <1>1, <2>2, <2>3, <2>4, Forms
<1>5. CASE MayUpdate(p, k) /\ \A i \in DOMAIN s : ~Spoils(s[i], p, k)
  <2>1. \A i \in DOMAIN outbox'[p] : ~Spoils(outbox'[p][i], p, k)
    BY <1>3, <1>5
  <2>2. MayUpdate(p, k)'
    BY <1>2, <1>4, <1>5
  <2> QED  BY <2>1, <2>2 DEF Due, Spoils
<1>6. ASSUME NEW i \in DOMAIN s, s[i] = Editing(p, k),
             \A j \in DOMAIN s : j > i => ~Spoils(s[j], p, k)
      PROVE  Due(p, k)'
  <2>1. CASE i = 1
    <3>1. editLock'[p][k] = Me(p)
      <4>1. m = Editing(p, k)
        BY <1>2, <1>6, <2>1
      <4>2. m.type = "editing" /\ m.cell = k /\ m.by = p
        BY <4>1 DEF Editing
      <4> QED  BY <1>1, <4>2 DEF Heard, TypeOK
    <3>2. \A j \in DOMAIN outbox'[p] : ~Spoils(outbox'[p][j], p, k)
      BY <1>3, <1>6, <2>1
    <3> QED  BY <3>1, <3>2 DEF Due, Spoils, MayUpdate
  <2>2. CASE i # 1
    <3>1. i - 1 \in DOMAIN outbox'[p] /\ outbox'[p][i - 1] = Editing(p, k)
      BY <1>2, <1>3, <1>6, <2>2
    <3>2. \A j \in DOMAIN outbox'[p] : j > i - 1 => ~Spoils(outbox'[p][j], p, k)
      BY <1>2, <1>3, <1>6
    <3> QED  BY <3>1, <3>2 DEF Due, Spoils
  <2> QED  BY <2>1, <2>2
<1> QED  BY <1>5, <1>6 DEF Due, s

-----------------------------------------------------------------------------
\* A connection the server has done with has given its locks back, and only a
\* page that connects anew starts it again.
LEMMA ShutStep ==
  ASSUME TypeOK, Shut, [Next]_vars
  PROVE  Shut'
<1>1. CASE UNCHANGED <<page, pc, owner>>
  BY <1>1 DEF Shut
<1>2. ASSUME NEW p \in Conns, Join(p) PROVE Shut'
  BY <1>2 DEF Join, Shut, TypeOK
<1>3. ASSUME NEW p \in Conns, Leave(p) PROVE Shut'
  BY <1>3 DEF Leave, Shut, TypeOK, server
<1>4. ASSUME NEW p \in Conns, NEW s, NEW j, Goto(p, s, j), pc[p] # "closed",
             s # "closed", UNCHANGED page,
             \A k \in Cells : owner'[k] \in {owner[k], p, NoConn}
      PROVE  Shut'
  <2> SUFFICES ASSUME NEW q \in Conns, pc'[q] = "closed"
               PROVE  page'[q] = "gone" /\ \A k \in Cells : owner'[k] # q
    BY DEF Shut
  <2>1. q # p /\ pc[q] = "closed"
    BY <1>4 DEF Goto, TypeOK
  <2> QED  BY <1>4, <2>1, NameAssumption DEF Shut
<1>5. ASSUME NEW p \in Conns, Handler(p), ~RemoveConn(p) PROVE Shut'
  <2>1. pc[p] # "closed" /\ UNCHANGED page
    BY <1>5 DEF Handler, CreateConnect, OpenInfo, TryLock, TryLockLost, Announce, Write,
                Unlock, Spread, RollBack, Serve, pages
  <2>2. \A k \in Cells : owner'[k] \in {owner[k], p, NoConn}
    BY <1>5 DEF Handler, CreateConnect, OpenInfo, TryLock, TryLockLost, Announce, Write,
                Unlock, Spread, RollBack, TypeOK
  <2>3. \E s, j : Goto(p, s, j) /\ s # "closed"
    BY <1>5 DEF Handler, CreateConnect, OpenInfo, TryLock, TryLockLost, Announce, Write,
                Unlock, Spread, RollBack, Done
  <2> QED  BY <1>4, <2>1, <2>2, <2>3
<1>6. ASSUME NEW p \in Conns, RemoveConn(p) PROVE Shut'
  <2> SUFFICES ASSUME NEW q \in Conns, pc'[q] = "closed"
               PROVE  page'[q] = "gone" /\ \A k \in Cells : owner'[k] # q
    BY DEF Shut
  <2> QED  BY <1>6, NameAssumption DEF RemoveConn, Goto, Shut, TypeOK, pages
<1>7. ASSUME NEW p \in Conns, UserStep(p), ~Join(p), ~Leave(p) PROVE Shut'
  BY <1>1, <1>7 DEF UserStep, ClickAway, AskRollback, Update, EditingCell, server, pages
<1> QED  BY <1>1, <1>2, <1>3, <1>5, <1>6, <1>7
           DEF Next, OnMessage, vars, pages, server

\* The pages change neither the locks nor what the server knows of them.
LEMMA PageEntered ==
  ASSUME TypeOK, NEW p \in Conns, UserStep(p) \/ OnMessage(p), NEW q \in Conns,
         NEW k \in Cells, owner'[k] = q
  PROVE  owner[k] = q /\ (Entered(q, k) => Entered(q, k)')
<1>1. CASE Join(p)
  BY <1>1 DEF Join, Entered, TypeOK
<1>2. CASE UNCHANGED server
  BY <1>2 DEF server, Entered
<1> QED  BY <1>1, <1>2
           DEF UserStep, OnMessage, ClickAway, AskRollback, Leave, Update, EditingCell

\* The holder's name enters lockMap with the announcement, and leaves it only
\* in the hands of the holder's update.
LEMMA HandlerEntered ==
  ASSUME TypeOK, Holding, \A r \in Conns, c \in Cells : Tokens(r, c),
         Certain, Certain', NEW p \in Conns, Handler(p), NEW q \in Conns,
         NEW k \in Cells, owner'[k] = q
  PROVE  Entered(q, k)'
<1>0. owner[k] = q => Entered(q, k)
  BY DEF Holding
<1>q. q # NoConn /\ ~TryLockLost(p)
  BY NameAssumption DEF TryLockLost, Certain
<1>1. ASSUME NEW s, NEW j, Goto(p, s, j), pc[p] \notin {"note", "unlock"},
             UNCHANGED <<lockMap, owner>>
      PROVE  Entered(q, k)'
  BY <1>0, <1>1 DEF Goto, Entered, TypeOK
<1>2. CASE CreateConnect(p) \/ OpenInfo(p) \/ Spread(p) \/ RollBack(p)
  <2>1. UNCHANGED <<lockMap, owner>> /\ pc[p] \notin {"note", "unlock"}
    BY <1>2 DEF CreateConnect, OpenInfo, Spread, RollBack, Serve
  <2>2. \E s, j : Goto(p, s, j)
    BY <1>2 DEF CreateConnect, OpenInfo, Spread, RollBack, Done
  <2> QED  BY <1>1, <2>1, <2>2
<1>3. CASE TryLock(p)
  <2> DEFINE c == Head(inbox[p]).cell
  <2>1. c \in Cells /\ pc[p] = "idle" /\ lockMap' = lockMap
    BY <1>3, Served, Forms DEF TryLock, Serve
  <2>2. CASE owner' = [owner EXCEPT ![c] = p] /\ Goto(p, "note", c)
    <3> HIDE DEF c
    <3> QED  BY <1>0, <2>1, <2>2 DEF Goto, Entered, TypeOK
  <2>3. CASE UNCHANGED owner /\ Goto(p, "idle", NoCell)
    BY <1>1, <2>1, <2>3
  <2> QED  BY <1>3, <2>2, <2>3 DEF TryLock, Done
<1>4. CASE Announce(p)
  <2>1. /\ pc[p] = "note" /\ cell[p] \in Cells /\ Goto(p, "idle", NoCell)
        /\ lockMap' = [lockMap EXCEPT ![cell[p]] = Me(p)] /\ owner' = owner
    BY <1>4 DEF Announce, Done, TypeOK
  <2>2. owner[cell[p]] = p
    BY <2>1 DEF Tokens, Held
  <2>3. CASE k = cell[p]
    BY <2>1, <2>2, <2>3 DEF Entered, TypeOK
  <2>4. CASE k # cell[p]
    BY <1>0, <2>1, <2>4 DEF Entered, Goto, TypeOK
  <2> QED  BY <2>3, <2>4
<1>5. CASE Write(p)
  <2> DEFINE c == Head(inbox[p]).cell
  <2>1. /\ pc[p] = "idle" /\ c \in Cells /\ Head(inbox[p]) = Req("update", c)
        /\ inbox[p] \in Seq(ReqType) /\ inbox[p] # <<>> /\ owner' = owner
    BY <1>5, Served, Forms DEF Write, Serve
  <2>2. owner[c] = p
    BY <2>1, TailOne DEF Tokens, Asked
  <2>3. \/ Goto(p, "unlock", c) /\ lockMap' = [lockMap EXCEPT ![c] = Nobody]
        \/ Goto(p, "dead", c) /\ UNCHANGED lockMap
    BY <1>5 DEF Write
  <2> HIDE DEF c
  <2>4. CASE Goto(p, "dead", c) /\ UNCHANGED lockMap
    BY <1>1, <2>1, <2>4
  <2>5. CASE Goto(p, "unlock", c) /\ lockMap' = [lockMap EXCEPT ![c] = Nobody]
    <3>1. CASE k = c
      BY <2>1, <2>2, <2>5, <3>1 DEF Entered, Goto, TypeOK
    <3>2. CASE k # c
      BY <1>0, <2>1, <2>5, <3>2 DEF Entered, Goto, TypeOK
    <3> QED  BY <3>1, <3>2
  <2> QED  BY <2>3, <2>4, <2>5
<1>6. CASE Unlock(p)
  <2>1. /\ pc[p] = "unlock" /\ cell[p] \in Cells /\ Goto(p, "spread", cell[p])
        /\ owner' = [owner EXCEPT ![cell[p]] = NoConn] /\ lockMap' = lockMap
    BY <1>6 DEF Unlock, TypeOK
  <2>2. k # cell[p] /\ owner[k] = q
    BY <1>q, <2>1 DEF TypeOK
  <2> QED  BY <1>0, <2>1, <2>2 DEF Entered, Goto, TypeOK
<1>7. CASE RemoveConn(p)
  <2>1. /\ pc[p] = "idle" /\ Goto(p, "closed", NoCell) /\ lockMap' = lockMap
        /\ owner[k] = q
    BY <1>q, <1>7 DEF RemoveConn, TypeOK
  <2> QED  BY <1>0, <2>1 DEF Entered, Goto, TypeOK
<1> QED  BY <1>q, <1>2, <1>3, <1>4, <1>5, <1>6, <1>7 DEF Handler

-----------------------------------------------------------------------------
\* Nothing happens to the page of q, to its requests and to its handler.
LEMMA AlongKept ==
  ASSUME TypeOK, NEW q \in Conns, NEW k \in Cells, Along(q, k), page'[q] = page[q],
         Held(q, k) => Held(q, k)', Asked(q, k) => Asked(q, k)',
         editLock'[q][k] = editLock[q][k], outbox'[q] = outbox[q]
  PROVE  Along(q, k)'
<1>1. Due(q, k) => Due(q, k)'
  BY DEF Due, MayUpdate, Spoils
<1> QED  BY <1>1 DEF Along

\* What a page sends is added to its requests.
LEMMA AskedSent ==
  ASSUME TypeOK, NEW p \in Conns, NEW e \in ReqType, Send(p, <<e>>),
         NEW q \in Conns, NEW k
  PROVE  /\ Asked(q, k) => Asked(q, k)'
         /\ q = p /\ e = Req("update", k) => Asked(q, k)'
<1>0. inbox[p] \in Seq(ReqType)
  BY DEF TypeOK
<1>1. inbox' = [inbox EXCEPT ![p] = Append(@, e)]
  <2>1. inbox[p] \o <<e>> = Append(inbox[p], e)
    BY <1>0, Sends
  <2> QED  BY <2>1 DEF Send
<1>2. CASE q # p
  BY <1>1, <1>2 DEF Asked, TypeOK
<1>3. CASE q = p
  <2>1. inbox'[q] = Append(inbox[q], e)
    BY <1>1, <1>3 DEF TypeOK
  <2> QED  BY <1>0, <1>3, <2>1, QueueHas DEF Asked
<1> QED  BY <1>2, <1>3

\* Going into another cell loses no request, and the right to the cell edited
\* before goes into one.
LEMMA EditingAsked ==
  ASSUME TypeOK, NEW p \in Conns, NEW i \in Cells, EditingCell(p, i),
         NEW q \in Conns, NEW k \in Cells
  PROVE  /\ Asked(q, k) => Asked(q, k)'
         /\ editLock'[q][k] = editLock[q][k] \/ Asked(q, k)'
<1> DEFINE old == editing[p]
           ends == old # NoCell /\ MayUpdate(p, old)
           wants == (IF ends THEN Updated(p, old) ELSE editLock)[p][i] \in {Nobody, Me(p)}
           first == IF ends THEN <<Req("update", old)>> ELSE <<>>
           second == IF wants THEN <<Req("editing", i)>> ELSE <<>>
           one == Append(inbox[p], Req("update", old))
<1>1. /\ inbox' = [inbox EXCEPT ![p] = @ \o (first \o second)]
      /\ editLock' = IF ends THEN Updated(p, old) ELSE editLock
  BY DEF EditingCell, Send
<1>2. inbox[p] \in Seq(ReqType) /\ Req("editing", i) \in ReqType
  BY Kinds DEF TypeOK
<1>3. CASE q # p
  BY <1>1, <1>3 DEF Asked, TypeOK, Updated
<1>4. CASE q = p /\ ends
  <2>1. old \in Cells
    BY <1>4 DEF TypeOK
  <2>2. Req("update", old) \in ReqType
    BY <2>1, Kinds
  <2>3. \/ inbox[p] \o (first \o second) = one
        \/ inbox[p] \o (first \o second) = Append(one, Req("editing", i))
    <3>1. first = <<Req("update", old)>>
      BY <1>4
    <3>2. second = <<>> \/ second = <<Req("editing", i)>>
      OBVIOUS
    <3>3. /\ inbox[p] \o (<<Req("update", old)>> \o <<>>) = one
          /\ inbox[p] \o (<<Req("update", old)>> \o <<Req("editing", i)>>)
               = Append(one, Req("editing", i))
      BY <1>2, <2>2, Sends
    <3> HIDE DEF first, second, one
    <3> QED  BY <3>1, <3>2, <3>3
  <2>4. editLock' = Updated(p, old)
    BY <1>1, <1>4
  <2>5. one \in Seq(ReqType)
    BY <1>2, <2>2, AppendOne
  <2>6. (~None(inbox[p], Req("update", k)) \/ k = old) => ~None(one, Req("update", k))
    BY <1>2, <2>2, QueueHas
  <2>7. ~None(one, Req("update", k)) =>
          ~None(Append(one, Req("editing", i)), Req("update", k))
    BY <1>2, <2>5, QueueHas
  <2>8. inbox'[p] = inbox[p] \o (first \o second)
    BY <1>1 DEF TypeOK
  <2>9. k # old => editLock'[p][k] = editLock[p][k]
    BY <2>1, <2>4 DEF Updated, TypeOK
  <2> HIDE DEF old, first, second, one
  <2> QED  BY <1>4, <2>3, <2>6, <2>7, <2>8, <2>9 DEF Asked
<1>5. CASE q = p /\ ~ends
  <2>1. inbox[p] \o (first \o second) \in {inbox[p], Append(inbox[p], Req("editing", i))}
    BY <1>2, <1>5, Sends
  <2>2. inbox'[p] = inbox[p] \o (first \o second)
    BY <1>1 DEF TypeOK
  <2>3. editLock' = editLock
    BY <1>1, <1>5
  <2> HIDE DEF first, second
  <2> QED  BY <1>2, <1>5, <2>1, <2>2, <2>3, QueueHas DEF Asked
<1> QED  BY <1>3, <1>4, <1>5

\* The pages lose the right to a lock only into the request that gives it back.
LEMMA UserAlong ==
  ASSUME TypeOK, Shut, NEW p \in Conns, UserStep(p), NEW q \in Conns, NEW k \in Cells,
         owner[k] = q, Along(q, k)
  PROVE  Along(q, k)'
<1>1. CASE Join(p)
  <2>1. q # p
    BY <1>1 DEF Join, Shut
  <2>2. /\ page'[q] = page[q] /\ editLock' = editLock /\ outbox' = outbox
        /\ pc'[q] = pc[q] /\ cell' = cell /\ inbox'[q] = inbox[q]
    BY <1>1, <2>1 DEF Join, Send, TypeOK
  <2> QED  BY <2>2, AlongKept DEF Held, Asked
<1>2. CASE ClickAway(p)
  BY <1>2, AlongKept DEF ClickAway, Held, Asked, server
<1>3. CASE AskRollback(p)
  <2>1. Asked(q, k) => Asked(q, k)'
    BY <1>3, Kinds, AskedSent DEF AskRollback
  <2> QED  BY <1>3, <2>1, AlongKept DEF AskRollback, Held, server, pages
<1>4. CASE Leave(p)
  <2>1. CASE q = p
    BY <1>4, <2>1 DEF Leave, Along, TypeOK
  <2>2. CASE q # p
    BY <1>4, <2>2, AlongKept DEF Leave, Held, Asked, server, TypeOK
  <2> QED  BY <2>1, <2>2
<1>5. ASSUME NEW j \in Cells, Update(p, j) PROVE Along(q, k)'
  <2>1. /\ Asked(q, k) => Asked(q, k)'
        /\ q = p /\ j = k => Asked(q, k)'
    BY <1>5, Kinds, AskedSent DEF Update
  <2>2. CASE q = p /\ j = k
    BY <2>1, <2>2 DEF Along
  <2>3. CASE ~(q = p /\ j = k)
    <3>1. editLock'[q][k] = editLock[q][k]
      BY <1>5, <2>3 DEF Update, Updated, TypeOK
    <3> QED  BY <1>5, <2>1, <3>1, AlongKept DEF Update, Held, server
  <2> QED  BY <2>2, <2>3
<1>6. ASSUME NEW j \in Cells, EditingCell(p, j) PROVE Along(q, k)'
  <2>1. /\ Asked(q, k) => Asked(q, k)'
        /\ editLock'[q][k] = editLock[q][k] \/ Asked(q, k)'
    BY <1>6, EditingAsked
  <2>2. CASE Asked(q, k)'
    BY <2>2 DEF Along
  <2>3. CASE editLock'[q][k] = editLock[q][k]
    BY <1>6, <2>1, <2>3, AlongKept DEF EditingCell, Held, server
  <2> QED  BY <2>1, <2>2, <2>3
<1> QED  BY <1>1, <1>2, <1>3, <1>4, <1>5, <1>6 DEF UserStep

LEMMA MessageAlong ==
  ASSUME TypeOK, NEW p \in Conns, OnMessage(p), NEW q \in Conns, NEW k \in Cells,
         Along(q, k)
  PROVE  Along(q, k)'
<1>1. CASE q # p
  BY <1>1, AlongKept DEF OnMessage, Held, Asked, server, TypeOK
<1>2. CASE q = p
  BY <1>2, DueRead DEF Along, OnMessage, Held, Asked, server
<1> QED  BY <1>1, <1>2

\* A handler that takes a request leaves the others.
LEMMA AskedServed ==
  ASSUME TypeOK, NEW p \in Conns, NEW t, Serve(p, t), NEW q \in Conns, NEW k \in Cells,
         q # p \/ Head(inbox[p]) # Req("update", k)
  PROVE  Asked(q, k) => Asked(q, k)'
<1>1. inbox[p] \in Seq(ReqType) /\ inbox[p] # <<>>
      /\ inbox' = [inbox EXCEPT ![p] = Tail(@)]
  BY DEF Serve, TypeOK
<1>2. CASE q # p
  BY <1>1, <1>2 DEF Asked, TypeOK
<1>3. CASE q = p
  <2>1. inbox'[q] = Tail(inbox[q])
    BY <1>1, <1>3 DEF TypeOK
  <2> QED  BY <1>1, <1>3, <2>1, QueueHas, Served DEF Asked
<1> QED  BY <1>2, <1>3

\* Telling a message that spoils nothing of the holder's.
LEMMA ToldAlong ==
  ASSUME TypeOK, NEW cs, NEW m \in MsgType, Tell(cs, m), UNCHANGED <<page, editLock, inbox>>,
         NEW q \in Conns, NEW k \in Cells, Along(q, k), ~Spoils(m, q, k),
         Held(q, k) => Held(q, k)'
  PROVE  Along(q, k)'
<1>1. outbox[q] \in Seq(MsgType)
      /\ (outbox'[q] = outbox[q] \/ outbox'[q] = Append(outbox[q], m))
  BY DEF Tell, TypeOK
<1>2. Due(q, k) => Due(q, k)'
  BY <1>1, DueKept
<1> QED  BY <1>2 DEF Along, Asked

\* The handlers: a lock that is taken is announced to the page of its holder,
\* an update goes from the requests into its handler, and what is told of
\* other locks does not take the holder's away.
LEMMA HandlerAlong ==
  ASSUME TypeOK, Holding, \A r \in Conns, c \in Cells : Tokens(r, c),
         upsets = {}, upsets' = {}, NEW p \in Conns, Handler(p), NEW q \in Conns,
         NEW k \in Cells, owner'[k] = q
  PROVE  Along(q, k)'
<1>0. owner[k] = q => Along(q, k) /\ Entered(q, k)
  BY DEF Holding, Certain
<1>q. q # NoConn /\ owner[k] \in Conns \cup {NoConn} /\ ~TryLockLost(p)
  BY NameAssumption DEF TypeOK, TryLockLost
<1>h. ASSUME NEW s, NEW j, Goto(p, s, j), Held(q, k) => p # q
      PROVE  Held(q, k) => Held(q, k)'
  BY <1>h DEF Goto, Held, TypeOK
<1>1. ASSUME NEW t, Serve(p, t), t # "update", NEW s, NEW j, Goto(p, s, j),
             UNCHANGED <<page, editLock, outbox>>, owner[k] = q
      PROVE  Along(q, k)'
  <2>1. Head(inbox[p]) # Req("update", k) /\ pc[p] = "idle"
    BY <1>1 DEF Serve, Req
  <2>2. Held(q, k) => p # q
    BY <2>1 DEF Held
  <2>3. Held(q, k) => Held(q, k)'
    BY <1>1, <1>h, <2>2
  <2>4. Asked(q, k) => Asked(q, k)'
    BY <1>1, <2>1, AskedServed
  <2> QED  BY <1>0, <1>1, <2>3, <2>4, AlongKept
<1>2. CASE CreateConnect(p)
  BY <1>1, <1>2 DEF CreateConnect, pages
<1>3. CASE RollBack(p)
  <2>1. Serve(p, "rollback") /\ UNCHANGED <<page, editLock, outbox, owner>>
        /\ \E s, j : Goto(p, s, j)
    BY <1>3 DEF RollBack, Done, pages
  <2> QED  BY <1>1, <2>1
<1>4. CASE TryLock(p)
  <2> DEFINE c == Head(inbox[p]).cell
  <2>1. Serve(p, "editing") /\ UNCHANGED <<page, editLock, outbox>> /\ c \in Cells
    BY <1>4, Served, Forms DEF TryLock, Serve, pages
  <2>2. CASE owner' = [owner EXCEPT ![c] = p] /\ Goto(p, "note", c)
    <3> HIDE DEF c
    <3>1. CASE k = c
      <4>1. q = p /\ Held(q, k)'
        BY <2>1, <2>2, <3>1 DEF Goto, Held, TypeOK
      <4> QED  BY <4>1 DEF Along
    <3>2. CASE k # c
      <4>1. owner[k] = q
        BY <2>1, <2>2, <3>2 DEF TypeOK
      <4> QED  BY <1>1, <2>1, <2>2, <4>1
    <3> QED  BY <3>1, <3>2
  <2>3. CASE UNCHANGED owner /\ Done(p)
    BY <1>1, <2>1, <2>3 DEF Done
  <2> QED  BY <1>4, <2>2, <2>3 DEF TryLock
<1>5. CASE OpenInfo(p)
  <2>1. /\ pc[p] = "look" /\ Tell({p}, Locks(lockMap)) /\ Goto(p, "idle", NoCell)
        /\ UNCHANGED <<page, editLock, inbox, owner>>
    BY <1>5 DEF OpenInfo, Done, pages
  <2>2. Locks(lockMap) \in MsgType
    BY Kinds DEF TypeOK
  <2>3. Held(q, k) => Held(q, k)'
    BY <1>h, <2>1 DEF Held
  <2>4. CASE q = p
    <3>1. lockMap[k] = Me(q)
      BY <1>0, <2>1, <2>4 DEF Entered
    <3>2. ~Spoils(Locks(lockMap), q, k)
      BY <3>1 DEF Spoils, Locks
    <3> QED  BY <1>0, <2>1, <2>2, <2>3, <3>2, ToldAlong
  <2>5. CASE q # p
    <3>1. outbox'[q] = outbox[q]
      BY <2>1, <2>5 DEF Tell
    <3> QED  BY <1>0, <2>1, <2>3, <3>1, AlongKept DEF Asked
  <2> QED  BY <2>4, <2>5
<1>6. CASE Announce(p)
  <2> DEFINE c == cell[p]
  <2>1. /\ pc[p] = "note" /\ c \in Cells /\ Held(p, c) /\ Goto(p, "idle", NoCell)
        /\ UNCHANGED <<page, editLock, inbox, owner>>
    BY <1>6 DEF Announce, Done, pages, TypeOK, Held
  <2>2. PICK cs : Tell(cs, Editing(p, c)) /\ p \in cs
    BY <1>6 DEF Announce
  <2>3. Editing(p, c) \in MsgType /\ owner[c] = p
    BY <2>1, Kinds DEF Tokens
  <2> HIDE DEF c
  <2>4. CASE k = c
    <3>1. q = p
      BY <2>1, <2>3, <2>4
    <3>2. CASE page[p] = "open"
      <4>1. outbox'[p] = Append(outbox[p], Editing(p, k)) /\ outbox[p] \in Seq(MsgType)
        BY <2>2, <2>4, <3>2 DEF Tell, TypeOK
      <4>2. Due(q, k)'
        BY <2>3, <2>4, <3>1, <4>1, DueGrant
      <4> QED  BY <4>2 DEF Along
    <3>3. CASE page[p] # "open"
      BY <2>1, <3>1, <3>3 DEF Along
    <3> QED  BY <3>2, <3>3
  <2>5. CASE k # c
    <3>1. Held(q, k) => p # q
      BY <2>1, <2>5 DEF Held, c
    <3>2. Held(q, k) => Held(q, k)'
      BY <1>h, <2>1, <3>1
    <3>3. ~Spoils(Editing(p, c), q, k)
      BY <2>5 DEF Spoils, Editing
    <3> QED  BY <1>0, <2>1, <2>2, <2>3, <3>2, <3>3, ToldAlong
  <2> QED  BY <2>4, <2>5
<1>7. CASE Write(p)
  <2> DEFINE c == Head(inbox[p]).cell
  <2>1. /\ Serve(p, "update") /\ pc[p] = "idle" /\ c \in Cells
        /\ Head(inbox[p]) = Req("update", c)
        /\ UNCHANGED <<page, editLock, outbox, owner>>
        /\ Goto(p, "unlock", c) \/ Goto(p, "dead", c)
    BY <1>7, Served, Forms DEF Write, Serve, pages
  <2> HIDE DEF c
  <2>2. CASE q = p /\ k = c
    <3>1. Held(q, k)'
      BY <2>1, <2>2 DEF Goto, Held, TypeOK
    <3> QED  BY <3>1 DEF Along
  <2>3. CASE ~(q = p /\ k = c)
    <3>1. q # p \/ Head(inbox[p]) # Req("update", k)
      BY <2>1, <2>3, Different
    <3>2. Asked(q, k) => Asked(q, k)'
      BY <2>1, <3>1, AskedServed
    <3>3. Held(q, k) => Held(q, k)'
      BY <1>h, <2>1 DEF Held
    <3> QED  BY <1>0, <2>1, <3>2, <3>3, AlongKept
  <2> QED  BY <2>2, <2>3
<1>8. CASE Unlock(p)
  <2>1. /\ pc[p] = "unlock" /\ cell[p] \in Cells /\ Goto(p, "spread", cell[p])
        /\ owner' = [owner EXCEPT ![cell[p]] = NoConn]
        /\ UNCHANGED <<page, editLock, inbox, outbox>>
    BY <1>8 DEF Unlock, TypeOK, pages
  <2>2. k # cell[p] /\ owner[k] = q
    BY <1>q, <2>1 DEF TypeOK
  <2>3. Held(q, k) => Held(q, k)'
    BY <1>h, <2>1, <2>2 DEF Held
  <2> QED  BY <1>0, <2>1, <2>2, <2>3, AlongKept DEF Asked
<1>9. CASE Spread(p)
  <2>1. /\ pc[p] = "spread" /\ cell[p] \in Cells /\ Goto(p, "idle", NoCell)
        /\ Tell(Connected, Clear(cell[p])) /\ ~Overtaken(cell[p])
        /\ UNCHANGED <<page, editLock, inbox, owner>>
    BY <1>9 DEF Spread, Done, pages, TypeOK
  <2>2. Held(q, k) => Held(q, k)'
    BY <1>h, <2>1 DEF Held
  <2>3. CASE k = cell[p]
    <3>1. Held(q, k)
      BY <2>1, <2>3 DEF Overtaken, Held
    <3> QED  BY <2>2, <3>1 DEF Along
  <2>4. CASE k # cell[p]
    <3>1. Clear(cell[p]) \in MsgType /\ ~Spoils(Clear(cell[p]), q, k)
      BY <2>1, <2>4, Kinds DEF Spoils, Clear
    <3> QED  BY <1>0, <2>1, <2>2, <3>1, ToldAlong
  <2> QED  BY <2>3, <2>4
<1>10. CASE RemoveConn(p)
  <2>1. /\ pc[p] = "idle" /\ Goto(p, "closed", NoCell) /\ owner[k] = q
        /\ UNCHANGED <<page, editLock, inbox, outbox>>
    BY <1>q, <1>10 DEF RemoveConn, pages
  <2>2. Held(q, k) => Held(q, k)'
    BY <1>h, <2>1 DEF Held
  <2> QED  BY <1>0, <2>1, <2>2, AlongKept DEF Asked
<1> QED  BY <1>2, <1>3, <1>4, <1>5, <1>6, <1>7, <1>8, <1>9, <1>10, <1>q DEF Handler

LEMMA HoldingStep ==
  ASSUME IInv, Holding, [Next]_vars
  PROVE  Holding'
<1>1. TypeOK /\ Shut
  BY DEF IInv, Holding
<1>2. Shut'
  BY <1>1, ShutStep
<1>3. "mistaken" \notin upsets => \A r \in Conns, c \in Cells : Tokens(r, c)
  BY DEF IInv, OneToken
<1>4. SUFFICES ASSUME NEW q \in Conns, NEW k \in Cells, owner'[k] = q
               PROVE  /\ Certain' => Entered(q, k)'
                      /\ upsets' = {} => Along(q, k)'
  BY <1>2 DEF Holding
<1>5. upsets \subseteq upsets'
  BY UpsetsGrow
<1>6. ASSUME NEW p \in Conns, UserStep(p) \/ OnMessage(p)
      PROVE  /\ Certain' => Entered(q, k)'
             /\ upsets' = {} => Along(q, k)'
  <2>1. owner[k] = q /\ (Entered(q, k) => Entered(q, k)')
    BY <1>1, <1>4, <1>6, PageEntered
  <2>2. /\ Certain => Entered(q, k)
        /\ upsets = {} => Along(q, k)
    BY <2>1 DEF Holding
  <2>3. (Certain' => Certain) /\ (upsets' = {} => upsets = {})
    BY <1>5 DEF Certain
  <2> QED  BY <1>1, <1>6, <2>1, <2>2, <2>3, UserAlong, MessageAlong
<1>7. ASSUME NEW p \in Conns, Handler(p)
      PROVE  /\ Certain' => Entered(q, k)'
             /\ upsets' = {} => Along(q, k)'
  <2>1. Certain' => Certain /\ "mistaken" \notin upsets
    BY <1>5 DEF Certain
  <2>2. upsets' = {} => upsets = {} /\ "mistaken" \notin upsets
    BY <1>5
  <2> QED  BY <1>1, <1>3, <1>4, <1>7, <2>1, <2>2, HandlerEntered, HandlerAlong
<1>8. CASE UNCHANGED vars
  <2>1. UNCHANGED <<page, editLock, inbox, outbox, pc, cell, lockMap, owner, upsets>>
    BY <1>8 DEF vars, pages, server
  <2>2. /\ owner[k] = q
        /\ Certain => Entered(q, k)
        /\ upsets = {} => Along(q, k)
    BY <1>4, <2>1 DEF Holding
  <2>3. Along(q, k) => Along(q, k)'
    BY <1>1, <2>1, AlongKept DEF Held, Asked
  <2> QED  BY <2>1, <2>2, <2>3 DEF Entered, Certain
<1> QED  BY <1>6, <1>7, <1>8 DEF Next

\* A lock is known to those who rely on it, for any number of pages, users and
\* cells: while no page is mistaken and no answer of locknotblock's create was
\* lost, its user is in lockMap whenever the holder's handlers are not at work
\* on it, so that handleRollBack leaves the cell alone; and if no announcement was cut short or overtaken, the holder's
\* page knows of the lock once everything sent has arrived.
THEOREM HolderKnownHolds == Spec => []HolderKnown
<1>1. Init => Holding
  BY NameAssumption DEF Init, Holding, Shut
<1>2. IInv /\ Holding => HolderKnown
  <2> SUFFICES ASSUME IInv, Holding, NEW p \in Conns, NEW k \in Cells, owner[k] = p
               PROVE  /\ \/ upsets \cap {"mistaken", "unaware"} # {}
                         \/ cell[p] = k /\ pc[p] \in {"note", "unlock"}
                         \/ lockMap[k] = Me(p)
                      /\ upsets = {} /\ Settled(p) => MayUpdate(p, k)
    BY DEF HolderKnown
  <2>1. /\ Certain => Entered(p, k)
        /\ upsets = {} => Along(p, k)
    BY DEF Holding
  <2>2. ASSUME upsets = {}, Settled(p) PROVE MayUpdate(p, k)
    <3>1. page[p] = "open" /\ pc[p] = "idle" /\ inbox[p] = <<>> /\ outbox[p] = <<>>
      BY <2>2 DEF Settled
    <3>2. ~Held(p, k) /\ ~Asked(p, k)
      BY <3>1, NoneEmpty DEF Held, Asked
    <3>3. Due(p, k)
      BY <2>1, <2>2, <3>1, <3>2 DEF Along
    <3> QED  BY <3>1, <3>3 DEF Due
  <2> QED  BY <2>1, <2>2 DEF Entered, Certain
<1> QED  BY <1>1, <1>2, IInvInit, IInvStep, HoldingStep, PTL DEF Spec
=============================================================================
