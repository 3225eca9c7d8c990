-------------------------- MODULE DocHistoryProofs --------------------------
(***************************************************************************)
(* Proofs about the module DocHistory, for any connections, users, cells,  *)
(* values, width, numbers of requests and crashes.                         *)
(***************************************************************************)
EXTENDS DocHistory, FiniteSetTheorems, NaturalsInduction, TLAPS

-----------------------------------------------------------------------------
(* Numbers and cells                                                       *)

\* A set of numbers has a least one.
LEMMA Least ==
  ASSUME NEW T \in SUBSET Nat, T # {}
  PROVE  \E x \in T : \A y \in T : x <= y
<1> DEFINE R == {ss \in Nat \X Nat : ss[1] < ss[2]}
<1>1. IsWellFoundedOn(R, Nat)
  BY NatLessThanWellFounded DEF OpToRel
<1>2. \A x, y \in Nat : y < x => <<y, x>> \in R
  OBVIOUS
<1> HIDE DEF R
<1>3. PICK x \in T : \A y \in T : ~(<<y, x>> \in R)
  BY <1>1, WFMin
<1>4. \A y \in T : y \in Nat /\ x \in Nat /\ ~(y < x)
  BY <1>2, <1>3
<1>5. \A y \in T : x <= y
  BY <1>4
<1> QED  BY <1>5

\* A set of numbers with a bound has a greatest one.
LEMMA Greatest ==
  ASSUME NEW n \in Nat, NEW T \in SUBSET (0..n), T # {}
  PROVE  \E x \in T : \A y \in T : y <= x
<1> DEFINE M == {m \in Nat : \A y \in T : y <= m}
<1>1. n \in M
  OBVIOUS
<1>2. PICK m \in M : \A y \in M : m <= y
  <2>1. M \in SUBSET Nat /\ M # {}
    BY <1>1
  <2> HIDE DEF M
  <2> QED  BY <2>1, Least
<1>3. m \in T
  <2> SUFFICES ASSUME m \notin T PROVE FALSE
    OBVIOUS
  <2>1. PICK t \in T : TRUE
    OBVIOUS
  <2>2. \A y \in T : y < m
    BY <1>2
  <2>3. m - 1 \in Nat /\ \A y \in T : y <= m - 1
    BY <1>2, <2>1, <2>2
  <2> QED  BY <1>2, <2>3
<1> QED  BY <1>2, <1>3

\* A value of a cell is filled no further than the cell is wide.
LEMMA SolidIs ==
  ASSUME NEW s \in CellType
  PROVE  Solid(s) \in 0..Width
<1> DEFINE T == {i \in DOMAIN s : \A j \in 1..i : s[j] # Blank}
<1>1. Width \in Nat /\ DOMAIN s = 1..Width
  BY BoundAssumption DEF CellType
<1>2. IsFiniteSet(1..Width) /\ Cardinality(1..Width) = Width
  BY <1>1, FS_Interval
<1>3. T \in SUBSET (1..Width)
  BY <1>1
<1> HIDE DEF T
<1>4. IsFiniteSet(T) /\ Cardinality(T) <= Width
  BY <1>2, <1>3, FS_Subset
<1>5. Cardinality(T) \in Nat
  BY <1>4, FS_CardinalityType
<1>6. Solid(s) = Cardinality(T)
  BY DEF Solid, T
<1> QED  BY <1>1, <1>4, <1>5, <1>6

\* Sequences that are no longer than a cell is wide.
Short == {v \in Seq(Unit) : Len(v) <= Width}

LEMMA ValuesType == Values \subseteq Seq(Unit) /\ Blank \in Unit
<1>1. Unit \ {Blank} \subseteq Unit
  OBVIOUS
<1>2. Seq(Unit \ {Blank}) \subseteq Seq(Unit)
  BY <1>1
<1>3. Blank \in Unit
  <2> DEFINE Written == UNION {{v[i] : i \in DOMAIN v} : v \in Values}
  <2>1. Unit = {Blank} \cup Written
    BY DEF Unit
  <2> HIDE DEF Written
  <2> QED  BY <2>1
<1> QED  BY <1>2, <1>3, ValueAssumption

\* The operators on values stay within a cell.
LEMMA CutType == ASSUME NEW v \in Values PROVE Cut(v) \in Short
<1>1. v \in Seq(Unit) /\ Width \in Nat
  BY ValuesType, BoundAssumption
<1> QED  BY <1>1 DEF Cut, Short

LEMMA OldValueType ==
  ASSUME NEW s \in CellType
  PROVE  OldValue(s) \in Short
<1>1. s \in Seq(Unit) /\ Len(s) = Width /\ Width \in Nat \ {0}
  BY BoundAssumption DEF CellType
<1>2. Solid(s) \in 0..Width
  BY SolidIs
<1>3. <<Blank>> \in Seq(Unit) /\ Len(<<Blank>>) = 1
  BY ValuesType
<1>4. SubSeq(s, 1, Solid(s)) \in Seq(Unit) /\ Len(SubSeq(s, 1, Solid(s))) = Solid(s)
  BY <1>1, <1>2
<1> QED  BY <1>1, <1>2, <1>3, <1>4 DEF OldValue, Short

LEMMA EmptyType == EmptyCell \in CellType /\ EmptyDoc \in [Cells -> CellType]
  BY ValuesType DEF EmptyCell, EmptyDoc, CellType

LEMMA PutType ==
  ASSUME NEW s \in CellType, NEW v \in Short
  PROVE  /\ Put(s, v) \in CellType
         /\ \A i \in 1..Width : Put(s, v)[i] = IF i <= Len(v) THEN v[i] ELSE s[i]
<1>1. s \in Seq(Unit) /\ Len(s) = Width /\ Width \in Nat
  BY BoundAssumption DEF CellType
<1>2. v \in Seq(Unit) /\ Len(v) <= Width /\ Len(v) \in Nat
  BY DEF Short
<1>3. Put(s, v) = [i \in 1..Width |-> IF i <= Len(v) THEN v[i] ELSE s[i]]
  BY <1>1, <1>2 DEF Put
<1>4. \A i \in 1..Width : (IF i <= Len(v) THEN v[i] ELSE s[i]) \in Unit
  BY <1>1, <1>2
<1> QED  BY <1>3, <1>4 DEF CellType

LEMMA PadType ==
  ASSUME NEW old \in Short, NEW new \in Short
  PROVE  /\ Pad(old, new) \in Short
         /\ Len(Pad(old, new)) = IF Len(old) < Len(new) THEN Len(new) ELSE Len(old)
         /\ \A i \in 1..Len(Pad(old, new)) :
              Pad(old, new)[i] = IF i <= Len(old) THEN old[i] ELSE Blank
<1>1. /\ old \in Seq(Unit) /\ Len(old) <= Width /\ Len(old) \in Nat
      /\ new \in Seq(Unit) /\ Len(new) <= Width /\ Len(new) \in Nat
      /\ Width \in Nat /\ Blank \in Unit
  BY BoundAssumption, ValuesType DEF Short
<1> DEFINE n == IF Len(old) < Len(new) THEN Len(new) ELSE Len(old)
<1>2. n \in Nat /\ n <= Width
  BY <1>1
<1>3. Pad(old, new) = [i \in 1..n |-> IF i <= Len(old) THEN old[i] ELSE Blank]
  BY DEF Pad
<1> HIDE DEF n
<1>4. \A i \in 1..n : (IF i <= Len(old) THEN old[i] ELSE Blank) \in Unit
  BY <1>1, <1>2
<1>5. Pad(old, new) \in Seq(Unit) /\ Len(Pad(old, new)) = n
  BY <1>2, <1>3, <1>4
<1> QED  BY <1>2, <1>3, <1>5 DEF Short, n

LEMMA LookType == ASSUME NEW v \in Short PROVE Look(v) \in CellType
  BY EmptyType, PutType DEF Look

\* What fits into a cell is not cut.
LEMMA CutNot == \A s \in CellType : Cut(s) = s
<1> SUFFICES ASSUME NEW s \in CellType PROVE Cut(s) = s
  OBVIOUS
<1>1. Len(s) = Width /\ Width \in Nat
  BY BoundAssumption DEF CellType
<1> QED  BY <1>1 DEF Cut

\* A page shows all of a value that is sent to it; cut, that is what it shows
\* of the value that is cut.
LEMMA LookCut ==
  ASSUME NEW v \in Seq(Unit)
  PROVE  Look(v) \in Seq(Unit) /\ Cut(v) \in Short /\ Cut(Look(v)) = Look(Cut(v))
<1>1. Width \in Nat /\ Len(v) \in Nat /\ Blank \in Unit
  BY ValuesType, BoundAssumption
<1> DEFINE n == IF Len(v) > Width THEN Len(v) ELSE Width
<1>2. Len(EmptyCell) = Width /\ \A i \in 1..Width : EmptyCell[i] = Blank
  BY <1>1 DEF EmptyCell
<1>3. Look(v) = [i \in 1..n |-> IF i <= Len(v) THEN v[i] ELSE EmptyCell[i]]
  BY <1>2 DEF Look, Put
<1>4. n \in Nat /\ n >= Width /\ n >= Len(v) /\ (Len(v) <= Width => n = Width)
  BY <1>1
<1> HIDE DEF n
<1>5. \A i \in 1..n : (IF i <= Len(v) THEN v[i] ELSE EmptyCell[i]) \in Unit
  <2> SUFFICES ASSUME NEW i \in 1..n
               PROVE  (IF i <= Len(v) THEN v[i] ELSE EmptyCell[i]) \in Unit
    OBVIOUS
  <2>1. CASE i <= Len(v)
    BY <1>1, <1>4, <2>1
  <2>2. CASE ~(i <= Len(v))
    BY <1>1, <1>2, <1>4, <2>2 DEF n
  <2> QED  BY <2>1, <2>2
<1>6. Look(v) \in Seq(Unit) /\ Len(Look(v)) = n
  BY <1>3, <1>4, <1>5
<1>7. CASE Len(v) <= Width
  <2>1. Cut(v) = v /\ Cut(Look(v)) = Look(v)
    BY <1>1, <1>4, <1>6, <1>7 DEF Cut
  <2> QED  BY <1>6, <1>7, <2>1 DEF Short
<1>8. CASE Len(v) > Width
  <2>1. Cut(v) = SubSeq(v, 1, Width) /\ Cut(Look(v)) = SubSeq(Look(v), 1, Width)
    BY <1>1, <1>4, <1>6, <1>8 DEF Cut
  <2>2. /\ Cut(v) \in Seq(Unit) /\ Len(Cut(v)) = Width
        /\ \A i \in 1..Width : Cut(v)[i] = v[i]
    BY <1>1, <1>8, <2>1
  <2>3. Cut(Look(v)) = [i \in 1..Width |-> v[i]]
    <3>1. \A i \in 1..Width : Look(v)[i] = v[i]
      BY <1>1, <1>3, <1>4, <1>8
    <3>2. SubSeq(Look(v), 1, Width) = [i \in 1..Width |-> Look(v)[i]]
      BY <1>1, <1>4, <1>6, <1>8
    <3> QED  BY <2>1, <3>1, <3>2
  <2>4. Cut(v) \in Short
    BY <1>1, <2>2 DEF Short
  <2>5. Look(Cut(v)) = [i \in 1..Width |-> v[i]]
    <3>1. Look(Cut(v)) \in CellType
          /\ \A i \in 1..Width : Look(Cut(v))[i] = v[i]
      BY <2>2, <2>4, EmptyType, PutType DEF Look
    <3> QED  BY <3>1 DEF CellType
  <2> QED  BY <1>6, <2>3, <2>4, <2>5
<1> QED  BY <1>1, <1>7, <1>8

\* No value looks like the notice.
LEMMA NoticeIs == ASSUME NEW v \in Seq(Unit) PROVE v # Notice
<1> SUFFICES ASSUME v = Notice PROVE FALSE
  OBVIOUS
<1>1. v = <<"editing">>
  BY DEF Notice
<1>2. v[1] = "editing" /\ Len(v) = 1
  BY <1>1
<1>3. 1 \in 1..Len(v)
  BY <1>2
<1>4. v[1] \in Unit
  BY <1>3
<1> QED  BY <1>2, <1>4, NoticeAssumption

\* What a page shows.
Views == [Cells -> Seq(Unit) \cup {Notice}]

LEMMA ViewsType == [Cells -> CellType] \subseteq Views /\ CellType \subseteq Seq(Unit)
<1>1. CellType \subseteq Seq(Unit)
  BY BoundAssumption DEF CellType
<1>2. [Cells -> CellType] \subseteq Views
  BY <1>1 DEF Views
<1> QED  BY <1>1, <1>2

-----------------------------------------------------------------------------
(* Types                                                                   *)

Kinds  == {"update", "rollback"}
Places == {"idle", "send", "info", "note", "write", "dead"} \cup Unlogged \cup Undoing
Upsets == {"behind", "log", "late", "order", "torn"}

\* Entries whose values fit into a cell, those of changes with a cell.
Fitting == {e \in [type : {"hole", "open", "update", "rollback"}, user : Users \cup {Nobody},
                   cell : Cells \cup {NoCell}, old : Short, new : Short] :
              e.type \in Kinds => e.cell \in Cells}
Changing   == {e \in Fitting : e.type \in Kinds}
ChangeType == [entry : Changing, before : CellType, after : CellType]
LocalType  == [entry : Fitting, sent : Seq(Unit), len : Nat, mark : Nat, snap : [Cells -> CellType]]

\* What the handler at s with the variables l is about.
Right(s, l) ==
  /\ s = "note" => l.entry.cell \in Cells
  /\ s = "send" => l.entry.type = "open"
  /\ s \in {"write", "unlock"} => l.entry.type = "update"
  /\ s = "rollwrite" => l.entry.type = "rollback"
  /\ s = "spread" => l.entry.type \in Kinds
  /\ s \in Unlogged => l.entry.type \in Kinds \cup {"open"}
  /\ s \in {"write", "unlock", "spread"} /\ l.entry.type = "update" =>
       l.entry.new = Cut(l.sent)

\* The types, with what makes them inductive: values fit.
Typed ==
  /\ content \in [Cells -> CellType]
  /\ logLen \in Nat /\ slots \in Seq(Fitting)
  /\ owner \in [Cells -> Conns \cup {NoConn}]
  /\ lockMap \in [Cells -> Users \cup {Nobody}]
  /\ connMap \subseteq Conns
  /\ view \in [Conns -> Views]
  /\ pc \in [Conns -> Places]
  /\ local \in [Conns -> LocalType]
  /\ journal \in Seq(ChangeType)
  /\ upsets \subseteq Upsets
  /\ ops \in Nat /\ crashes \in Nat
  /\ \A c \in Conns : Right(pc[c], local[c])

LEMMA FittingType == Fitting \subseteq EntryType /\ Hole \in Fitting
<1>1. Short \subseteq Seq(Unit) /\ <<>> \in Short
  BY BoundAssumption DEF Short
<1>2. ASSUME NEW e \in Fitting PROVE e \in EntryType
  BY <1>1 DEF Fitting, EntryType
<1>3. Hole \in Fitting
  BY <1>1 DEF Hole, Fitting, Kinds
<1> QED  BY <1>2, <1>3

LEMMA SeqMono ==
  ASSUME NEW S, NEW T, S \subseteq T, NEW s \in Seq(S)
  PROVE  s \in Seq(T)
<1>1. \A i \in 1..Len(s) : s[i] \in T
  OBVIOUS
<1>2. s \in [1..Len(s) -> T] /\ Len(s) \in Nat
  BY <1>1
<1> QED  BY <1>2

LEMMA TypedTypes == Typed => TypeOK
<1> SUFFICES ASSUME Typed PROVE TypeOK
  OBVIOUS
<1>1. slots \in Seq(EntryType)
  <2>1. Fitting \subseteq EntryType
    BY FittingType
  <2> QED  BY <2>1, SeqMono DEF Typed
<1>2. local \in [Conns -> [entry : EntryType, sent : Seq(Unit), len : Nat, mark : Nat,
                          snap : [Cells -> CellType]]]
  <2>1. \A l \in LocalType : l \in [entry : EntryType, sent : Seq(Unit), len : Nat,
                                    mark : Nat, snap : [Cells -> CellType]]
    BY FittingType DEF LocalType
  <2> QED  BY <2>1 DEF Typed
<1>3. journal \in Seq([entry : EntryType, before : CellType, after : CellType])
  <2>1. \A l \in ChangeType : l \in [entry : EntryType, before : CellType, after : CellType]
    BY FittingType DEF ChangeType, Changing
  <2>2. ChangeType \subseteq [entry : EntryType, before : CellType, after : CellType]
    BY <2>1
  <2> QED  BY <2>2, SeqMono DEF Typed
<1> QED  BY <1>1, <1>2, <1>3 DEF Typed, TypeOK, Upsets, Places, Views

LEMMA NoLocalType == NoLocal \in LocalType /\ NoLocal.entry = Hole /\ NoLocal.snap = EmptyDoc
  BY EmptyType, FittingType DEF NoLocal, LocalType

\* What an entry is.
LEMMA EntryIs ==
  ASSUME NEW t \in {"open", "update", "rollback"}, NEW c \in Conns,
         NEW k \in Cells \cup {NoCell}, NEW old \in Short, NEW new \in Short,
         t \in Kinds => k \in Cells
  PROVE  /\ Entry(t, Me(c), k, old, new) \in Fitting
         /\ Entry(t, Me(c), k, old, new).type = t
         /\ Entry(t, Me(c), k, old, new).user = Me(c)
         /\ Entry(t, Me(c), k, old, new).cell = k
         /\ Entry(t, Me(c), k, old, new).old = old
         /\ Entry(t, Me(c), k, old, new).new = new
  BY UserAssumption DEF Entry, Fitting, Me, Kinds

\* The handler of c goes on at s with the variables l; x and what is between
\* the handlers then has happened.
Moves(c, s, l, x) ==
  /\ s \in Places /\ l \in LocalType /\ Right(s, l)
  /\ pc' = [pc EXCEPT ![c] = s] /\ local' = [local EXCEPT ![c] = l]
  /\ pc' \in [Conns -> Places] /\ local' \in [Conns -> LocalType]
  /\ pc'[c] = s /\ local'[c] = l
  /\ \A d \in Conns : d # c => pc'[d] = pc[d] /\ local'[d] = local[d]
  /\ \A d \in Conns : Right(pc'[d], local'[d])
  /\ upsets' \subseteq Upsets /\ upsets \subseteq upsets' /\ x \subseteq upsets'
  /\ Overlap(pc', local') \subseteq upsets'

LEMMA GotoIs ==
  ASSUME Typed, NEW c \in Conns, NEW s \in Places, NEW l \in LocalType,
         NEW x \in SUBSET Upsets, Right(s, l), Goto(c, s, l, x)
  PROVE  Moves(c, s, l, x)
<1>1. /\ pc' = [pc EXCEPT ![c] = s] /\ local' = [local EXCEPT ![c] = l]
      /\ upsets' = upsets \cup x \cup Overlap(pc', local')
  BY DEF Goto
<1>2. Overlap(pc', local') \subseteq Upsets
  <2>1. \A X : X \in Overlap(pc', local') => X \in {"behind", "log"}
    BY DEF Overlap
  <2> QED  BY <2>1 DEF Upsets
<1>3. /\ pc \in [Conns -> Places] /\ local \in [Conns -> LocalType] /\ upsets \subseteq Upsets
      /\ \A d \in Conns : Right(pc[d], local[d])
  BY DEF Typed
<1>4. /\ pc' \in [Conns -> Places] /\ local' \in [Conns -> LocalType]
      /\ pc'[c] = s /\ local'[c] = l
      /\ \A d \in Conns : d # c => pc'[d] = pc[d] /\ local'[d] = local[d]
  BY <1>1, <1>3
<1>5. \A d \in Conns : Right(pc'[d], local'[d])
  BY <1>3, <1>4
<1> QED  BY <1>1, <1>2, <1>3, <1>4, <1>5 DEF Moves

LEMMA DoneIs ==
  ASSUME Typed, NEW c \in Conns, Done(c)
  PROVE  Moves(c, "idle", NoLocal, {})
<1>1. Goto(c, "idle", NoLocal, {})
  BY DEF Done
<1>2. Right("idle", NoLocal) /\ "idle" \in Places /\ {} \in SUBSET Upsets
  BY DEF Right, Places, Unlogged
<1> QED  BY <1>1, <1>2, NoLocalType, GotoIs

-----------------------------------------------------------------------------
(* What each action does to the handler that takes it                      *)

LEMMA OpenMoves ==
  ASSUME Typed, NEW c \in Conns, Open(c)
  PROVE  \E l \in LocalType :
           /\ Moves(c, "send", l, {})
           /\ l.entry.type = "open" /\ l.snap = content /\ l.mark = Len(journal)
<1> DEFINE e == Entry("open", Me(c), NoCell, <<>>, <<>>)
           l == [NoLocal EXCEPT !.entry = e, !.snap = content, !.mark = Len(journal)]
<1>1. <<>> \in Short
  BY BoundAssumption DEF Short
<1>2. e \in Fitting /\ e.type = "open"
  BY <1>1, EntryIs DEF Kinds
<1>3. content \in [Cells -> CellType] /\ Len(journal) \in Nat
  BY DEF Typed
<1> HIDE DEF e
<1>4. /\ l \in LocalType
      /\ l.entry = e /\ l.snap = content /\ l.mark = Len(journal)
  BY <1>2, <1>3, NoLocalType DEF LocalType
<1>5. Goto(c, "send", l, {})
  BY DEF Open, e
<1> HIDE DEF l
<1>6. "send" \in Places /\ Right("send", l) /\ {} \in SUBSET Upsets
  BY <1>2, <1>4 DEF Right, Places, Unlogged
<1> QED  BY <1>2, <1>4, <1>5, <1>6, GotoIs

LEMMA OpenSendMoves ==
  ASSUME Typed, NEW c \in Conns, OpenSend(c)
  PROVE  \E l \in LocalType :
           /\ Moves(c, "loglen", l, IF local[c].mark # Len(journal) THEN {"late"} ELSE {})
           /\ l.entry = local[c].entry /\ l.entry.type = "open"
<1> DEFINE l == [local[c] EXCEPT !.snap = EmptyDoc]
           x == IF local[c].mark # Len(journal) THEN {"late"} ELSE {}
<1>1. local[c] \in LocalType /\ local[c].entry.type = "open"
  BY DEF Typed, OpenSend, Right
<1>2. l \in LocalType /\ l.entry = local[c].entry
  BY <1>1, EmptyType DEF LocalType
<1>3. Goto(c, "loglen", l, x)
  BY DEF OpenSend
<1> HIDE DEF l
<1>4. "loglen" \in Places /\ Right("loglen", l) /\ x \in SUBSET Upsets
  BY <1>1, <1>2 DEF Right, Places, Unlogged, Upsets
<1> QED  BY <1>1, <1>2, <1>3, <1>4, GotoIs

LEMMA TryLockMoves ==
  ASSUME Typed, NEW c \in Conns, NEW k \in Cells, TryLock(c, k)
  PROVE  \E l \in LocalType : Moves(c, "note", l, {}) /\ l.entry.cell = k
<1> DEFINE l == [NoLocal EXCEPT !.entry.cell = k]
<1>1. [Hole EXCEPT !.cell = k] \in Fitting /\ [Hole EXCEPT !.cell = k].cell = k
  <2>1. <<>> \in Short
    BY BoundAssumption DEF Short
  <2>2. [Hole EXCEPT !.cell = k]
          = [type |-> "hole", user |-> Nobody, cell |-> k, old |-> <<>>, new |-> <<>>]
    BY DEF Hole
  <2> QED  BY <2>1, <2>2 DEF Fitting, Kinds
<1>2. l = [NoLocal EXCEPT !.entry = [Hole EXCEPT !.cell = k]]
  BY NoLocalType DEF LocalType
<1>3. l \in LocalType /\ l.entry.cell = k
  BY <1>1, <1>2, NoLocalType DEF LocalType
<1>4. Goto(c, "note", l, {})
  BY DEF TryLock
<1> HIDE DEF l
<1>5. "note" \in Places /\ Right("note", l) /\ {} \in SUBSET Upsets
  BY <1>3 DEF Right, Places, Unlogged
<1> QED  BY <1>3, <1>4, <1>5, GotoIs

LEMMA UpdateReadMoves ==
  ASSUME Typed, NEW c \in Conns, NEW k \in Cells, NEW v \in Values, UpdateRead(c, k, v)
  PROVE  \/ Moves(c, "dead", NoLocal, {})
         \/ \E l \in LocalType :
              /\ Moves(c, "write", l, {})
              /\ Solid(content[k]) < Width
              /\ l.entry = Entry("update", Me(c), k, OldValue(content[k]), Cut(v))
              /\ l.entry.type = "update" /\ l.entry.user = Me(c) /\ l.entry.cell = k
              /\ l.entry.old = OldValue(content[k]) /\ l.entry.new = Cut(v)
<1> DEFINE e == Entry("update", Me(c), k, OldValue(content[k]), Cut(v))
           l == [NoLocal EXCEPT !.entry = e, !.sent = v]
<1>1. content[k] \in CellType
  BY DEF Typed
<1>2. OldValue(content[k]) \in Short /\ Cut(v) \in Short
  BY <1>1, OldValueType, CutType
<1>3. /\ e \in Fitting /\ e.type = "update" /\ e.user = Me(c) /\ e.cell = k
      /\ e.old = OldValue(content[k]) /\ e.new = Cut(v)
  BY <1>2, EntryIs
<1>4. \/ Goto(c, "dead", NoLocal, {})
      \/ Solid(content[k]) < Width /\ Goto(c, "write", l, {})
  <2>1. Solid(content[k]) \in Int /\ Width \in Int
    BY <1>1, SolidIs, BoundAssumption
  <2> QED  BY <2>1 DEF UpdateRead, e
<1> HIDE DEF e
<1>5. l \in LocalType /\ l.entry = e /\ l.sent = v
  BY <1>3, NoLocalType, ValuesType DEF LocalType
<1> HIDE DEF l
<1>6. /\ "dead" \in Places /\ Right("dead", NoLocal) /\ {} \in SUBSET Upsets
      /\ "write" \in Places /\ Right("write", l)
  BY <1>3, <1>5 DEF Right, Places, Unlogged
<1>7. CASE Goto(c, "dead", NoLocal, {})
  BY <1>6, <1>7, NoLocalType, GotoIs
<1>8. CASE Solid(content[k]) < Width /\ Goto(c, "write", l, {})
  BY <1>3, <1>5, <1>6, <1>8, GotoIs DEF e
<1> QED  BY <1>4, <1>7, <1>8

LEMMA WriteMoves ==
  ASSUME Typed, NEW c \in Conns, NEW t \in Places,
         \/ pc[c] = "write" /\ t = "unlock"
         \/ pc[c] = "rollwrite" /\ t = "spread",
         Goto(c, t, [local[c] EXCEPT !.mark = Len(journal) + 1], {})
  PROVE  \E l \in LocalType :
           /\ Moves(c, t, l, {})
           /\ l.entry = local[c].entry /\ l.mark = Len(journal) + 1
           /\ local[c].entry \in Changing
           /\ local[c].entry.type = IF pc[c] = "write" THEN "update" ELSE "rollback"
<1> DEFINE l == [local[c] EXCEPT !.mark = Len(journal) + 1]
<1>1. /\ local[c] \in LocalType /\ Len(journal) + 1 \in Nat
      /\ local[c].entry.type = IF pc[c] = "write" THEN "update" ELSE "rollback"
  BY DEF Typed, Right
<1>2. /\ l \in LocalType /\ l.entry = local[c].entry /\ l.mark = Len(journal) + 1
      /\ l.sent = local[c].sent
  BY <1>1 DEF LocalType
<1>3. local[c].entry \in Changing
  BY <1>1 DEF Changing, LocalType, Kinds
<1> HIDE DEF l
<1>4. Right(t, l) /\ {} \in SUBSET Upsets
  <2>1. pc[c] = "write" => local[c].entry.new = Cut(local[c].sent)
    BY <1>1 DEF Typed, Right
  <2> QED  BY <1>1, <1>2, <2>1 DEF Right, Unlogged, Kinds
<1>5. Moves(c, t, l, {})
  BY <1>2, <1>4, GotoIs DEF l
<1> QED  BY <1>1, <1>2, <1>3, <1>5

LEMMA UnlockMoves ==
  ASSUME Typed, NEW c \in Conns, Unlock(c)
  PROVE  Moves(c, "spread", local[c], {}) /\ local[c].entry.type = "update"
<1>1. local[c] \in LocalType /\ local[c].entry.type = "update"
  BY DEF Typed, Unlock, Right
<1>2. "spread" \in Places /\ Right("spread", local[c]) /\ {} \in SUBSET Upsets
  <2>1. local[c].entry.new = Cut(local[c].sent)
    BY <1>1 DEF Typed, Unlock, Right
  <2> QED  BY <1>1, <2>1 DEF Right, Places, Unlogged, Kinds
<1> QED  BY <1>1, <1>2, GotoIs DEF Unlock

\* A change of the cell of the entry of c came after its own.
Later(c) == \E i \in DOMAIN journal : /\ i > local[c].mark
                                      /\ journal[i].entry.cell = local[c].entry.cell

LEMMA SpreadMoves ==
  ASSUME Typed, NEW c \in Conns, Spread(c)
  PROVE  /\ Moves(c, "loglen", local[c], IF Later(c) THEN {"late"} ELSE {})
         /\ local[c].entry \in Changing
<1>1. local[c] \in LocalType /\ local[c].entry.type \in Kinds
  BY DEF Typed, Spread, Right
<1>2. /\ "loglen" \in Places /\ Right("loglen", local[c])
      /\ (IF Later(c) THEN {"late"} ELSE {}) \in SUBSET Upsets
  BY <1>1 DEF Right, Places, Unlogged, Upsets
<1>3. Goto(c, "loglen", local[c], IF Later(c) THEN {"late"} ELSE {})
  BY DEF Spread, Later
<1> QED  BY <1>1, <1>2, <1>3, GotoIs DEF Changing, LocalType

LEMMA LogLenMoves ==
  ASSUME Typed, NEW c \in Conns, LogLen(c)
  PROVE  \E l \in LocalType :
           /\ Moves(c, "loghead", l, IF Passed(c) THEN {"order"} ELSE {})
           /\ l.entry = local[c].entry /\ l.mark = local[c].mark /\ l.len = logLen
           /\ l.entry.type \in Kinds \cup {"open"}
<1> DEFINE l == [local[c] EXCEPT !.len = logLen]
<1>1. /\ local[c] \in LocalType /\ logLen \in Nat
      /\ local[c].entry.type \in Kinds \cup {"open"}
  BY DEF Typed, LogLen, Right, Unlogged
<1>2. l \in LocalType /\ l.entry = local[c].entry /\ l.mark = local[c].mark /\ l.len = logLen
  BY <1>1 DEF LocalType
<1>3. Goto(c, "loghead", l, IF Passed(c) THEN {"order"} ELSE {})
  BY DEF LogLen
<1> HIDE DEF l
<1>4. /\ "loghead" \in Places /\ Right("loghead", l)
      /\ (IF Passed(c) THEN {"order"} ELSE {}) \in SUBSET Upsets
  BY <1>1, <1>2 DEF Right, Places, Unlogged, Upsets
<1> QED  BY <1>1, <1>2, <1>3, <1>4, GotoIs

LEMMA LogHeadMoves ==
  ASSUME Typed, NEW c \in Conns, LogHead(c)
  PROVE  Moves(c, "logslot", local[c], {}) /\ local[c].entry.type \in Kinds \cup {"open"}
<1>1. local[c] \in LocalType /\ local[c].entry.type \in Kinds \cup {"open"}
  BY DEF Typed, LogHead, Right, Unlogged
<1>2. "logslot" \in Places /\ Right("logslot", local[c]) /\ {} \in SUBSET Upsets
  BY <1>1 DEF Right, Places, Unlogged, Kinds
<1> QED  BY <1>1, <1>2, GotoIs DEF LogHead

\* handleOpen goes on when it has logged; the others are done.
LEMMA LogSlotMoves ==
  ASSUME Typed, NEW c \in Conns, LogSlot(c)
  PROVE  \E s \in {"idle", "info"} : Moves(c, s, NoLocal, {})
<1>1. Done(c) \/ Goto(c, "info", NoLocal, {})
  BY DEF LogSlot
<1>2. Right("info", NoLocal) /\ "info" \in Places /\ {} \in SUBSET Upsets
  BY DEF Right, Places, Unlogged
<1> QED  BY <1>1, <1>2, NoLocalType, DoneIs, GotoIs

LEMMA RollLenMoves ==
  ASSUME Typed, NEW c \in Conns, RollLen(c)
  PROVE  \E l \in LocalType : Moves(c, "rolllog", l, {}) /\ l.len = logLen
<1> DEFINE l == [NoLocal EXCEPT !.len = logLen]
<1>1. l \in LocalType /\ l.len = logLen
  BY NoLocalType DEF LocalType, Typed
<1>2. Goto(c, "rolllog", l, {})
  BY DEF RollLen
<1> HIDE DEF l
<1>3. "rolllog" \in Places /\ Right("rolllog", l) /\ {} \in SUBSET Upsets
  BY DEF Right, Places, Unlogged, Undoing
<1> QED  BY <1>1, <1>2, <1>3, GotoIs

\* The log as it is read.
LEMMA LogReadIs ==
  ASSUME Typed, NEW n \in Nat
  PROVE  /\ LogRead(n) \in Seq(Fitting)
         /\ Len(LogRead(n)) = IF n < Len(slots) THEN n ELSE Len(slots)
         /\ \A i \in 1..Len(LogRead(n)) :
              LogRead(n)[i] = IF i > 1 /\ slots[i - 1] = Hole THEN Hole ELSE slots[i]
<1> DEFINE m == IF n < Len(slots) THEN n ELSE Len(slots)
<1>1. slots \in Seq(Fitting) /\ Hole \in Fitting /\ m \in Nat /\ m <= Len(slots)
  BY FittingType DEF Typed
<1>2. LogRead(n) = [i \in 1..m |-> IF i > 1 /\ slots[i - 1] = Hole THEN Hole ELSE slots[i]]
  BY DEF LogRead
<1> HIDE DEF m
<1>3. \A i \in 1..m : (IF i > 1 /\ slots[i - 1] = Hole THEN Hole ELSE slots[i]) \in Fitting
  BY <1>1
<1>4. LogRead(n) \in Seq(Fitting) /\ Len(LogRead(n)) = m
  BY <1>1, <1>2, <1>3
<1> QED  BY <1>2, <1>4 DEF m

\* The update a rollback stops at is the last that has nothing to skip.
LEMMA AimIs ==
  ASSUME NEW es \in Seq(Fitting), NEW u
  PROVE  /\ Aim(es, u) \in 0..Len(es)
         /\ Aim(es, u) # 0 => /\ Aim(es, u) \in Aims(es, u)
                              /\ \A j \in Aims(es, u) : j <= Aim(es, u)
         /\ Aim(es, u) = 0 => Aims(es, u) = {}
<1>1. CASE Aims(es, u) = {}
  BY <1>1 DEF Aim
<1>2. CASE Aims(es, u) # {}
  <2>1. Aims(es, u) \subseteq 1..Len(es) /\ Len(es) \in Nat
    BY DEF Aims
  <2>2. PICK x \in Aims(es, u) : \A y \in Aims(es, u) : y <= x
    <3>1. Aims(es, u) \in SUBSET (0..Len(es))
      BY <2>1
    <3> QED  BY <1>2, <2>1, <3>1, Greatest
  <2>3. Aim(es, u) = CHOOSE i \in Aims(es, u) : \A j \in Aims(es, u) : j <= i
    BY <1>2 DEF Aim
  <2>4. Aim(es, u) \in Aims(es, u) /\ \A j \in Aims(es, u) : j <= Aim(es, u)
    BY <2>2, <2>3, Zenon
  <2> QED  BY <2>1, <2>4
<1> QED  BY <1>1, <1>2

LEMMA RollLogMoves ==
  ASSUME Typed, NEW c \in Conns, RollLog(c)
  PROVE  LET es == LogRead(local[c].len)
             i  == Aim(es, Me(c))
         IN \/ Moves(c, "idle", NoLocal, {})
            \/ \E l \in LocalType :
                 /\ Moves(c, "rollwrite", l, {})
                 /\ i \in DOMAIN es /\ i \in Aims(es, Me(c)) /\ es[i] \in Fitting
                 /\ \A j \in Aims(es, Me(c)) : j <= i
                 /\ ~Taken(es, i)
                 /\ l.entry = [es[i] EXCEPT !.type = "rollback"]
                 /\ l.entry \in Changing /\ l.entry.type = "rollback"
                 /\ l.entry.user = Me(c) /\ l.entry.cell = es[i].cell
                 /\ l.entry.old = es[i].old /\ l.entry.new = es[i].new
<1> DEFINE es == LogRead(local[c].len)
           i  == Aim(es, Me(c))
           e  == [es[i] EXCEPT !.type = "rollback"]
           l  == [NoLocal EXCEPT !.entry = e]
<1>1. local[c].len \in Nat
  BY DEF Typed, LocalType
<1>2. es \in Seq(Fitting)
  BY <1>1, LogReadIs
<1>3. \/ Done(c)
      \/ i # 0 /\ ~Taken(es, i) /\ Goto(c, "rollwrite", l, {})
  BY DEF RollLog
<1>4. CASE Done(c)
  BY <1>4, DoneIs
<1>5. CASE i # 0 /\ ~Taken(es, i) /\ Goto(c, "rollwrite", l, {})
  <2> HIDE DEF es
  <2>1. /\ i \in Aims(es, Me(c)) /\ \A j \in Aims(es, Me(c)) : j <= i
    BY <1>2, <1>5, AimIs
  <2> HIDE DEF i
  <2>2. i \in DOMAIN es /\ es[i] \in Fitting /\ es[i].type = "update" /\ es[i].user = Me(c)
    BY <1>2, <2>1 DEF Aims
  <2>3. /\ e \in Changing /\ e.type = "rollback" /\ e.user = Me(c) /\ e.cell = es[i].cell
        /\ e.old = es[i].old /\ e.new = es[i].new
    BY <2>2 DEF Changing, Fitting, Kinds
  <2>4. Goto(c, "rollwrite", l, {})
    BY <1>5
  <2> HIDE DEF e
  <2>5. l \in LocalType /\ l.entry = e
    BY <2>3, NoLocalType DEF LocalType, Changing
  <2> HIDE DEF l
  <2>6. "rollwrite" \in Places /\ Right("rollwrite", l) /\ {} \in SUBSET Upsets
    BY <2>3, <2>5 DEF Right, Places, Unlogged, Undoing
  <2>7. Moves(c, "rollwrite", l, {})
    BY <2>4, <2>5, <2>6, GotoIs
  <2>8. /\ l.entry = [es[i] EXCEPT !.type = "rollback"]
        /\ l.entry \in Changing /\ l.entry.type = "rollback"
        /\ l.entry.user = Me(c) /\ l.entry.cell = es[i].cell
        /\ l.entry.old = es[i].old /\ l.entry.new = es[i].new
    BY <2>3, <2>5 DEF e
  <2> QED  BY <1>5, <2>1, <2>2, <2>5, <2>7, <2>8 DEF es, i
<1> QED  BY <1>3, <1>4, <1>5

-----------------------------------------------------------------------------
(* Type correctness                                                        *)

\* What is left to show of a step of a handler.
LEMMA MoveTypes ==
  ASSUME Typed, NEW c \in Conns, NEW s, NEW l, NEW x, Moves(c, s, l, x),
         content' \in [Cells -> CellType],
         logLen' \in Nat, slots' \in Seq(Fitting),
         owner' \in [Cells -> Conns \cup {NoConn}],
         lockMap' \in [Cells -> Users \cup {Nobody}],
         connMap' \subseteq Conns,
         view' \in [Conns -> Views],
         journal' \in Seq(ChangeType),
         ops' \in Nat, crashes' \in Nat
  PROVE  Typed'
  BY DEF Moves, Typed

\* The change of a cell.
LEMMA ChangeTypes ==
  ASSUME Typed, NEW e \in Changing, NEW v \in Short,
         Change(e.cell, Put(content[e.cell], v), e)
  PROVE  /\ e.cell \in Cells /\ content[e.cell] \in CellType
         /\ Put(content[e.cell], v) \in CellType
         /\ content' = [content EXCEPT ![e.cell] = Put(content[e.cell], v)]
         /\ content' \in [Cells -> CellType]
         /\ journal' = Append(journal, [entry |-> e, before |-> content[e.cell],
                                        after |-> Put(content[e.cell], v)])
         /\ journal' \in Seq(ChangeType)
<1>1. e.cell \in Cells /\ content \in [Cells -> CellType] /\ journal \in Seq(ChangeType)
  BY DEF Changing, Fitting, Typed
<1>2. content[e.cell] \in CellType
  BY <1>1
<1>3. Put(content[e.cell], v) \in CellType
  BY <1>2, PutType
<1> DEFINE p == Put(content[e.cell], v)
           j == [entry |-> e, before |-> content[e.cell], after |-> p]
<1>4. content' = [content EXCEPT ![e.cell] = p] /\ journal' = Append(journal, j)
  BY DEF Change
<1>5. p \in CellType
  BY <1>3
<1> HIDE DEF p
<1>6. j \in ChangeType
  BY <1>2, <1>5 DEF ChangeType
<1>7. content' \in [Cells -> CellType]
  BY <1>1, <1>4, <1>5
<1>8. journal' \in Seq(ChangeType)
  <2> HIDE DEF j
  <2> QED  BY <1>1, <1>4, <1>6
<1> QED  BY <1>1, <1>2, <1>3, <1>4, <1>7, <1>8 DEF p

LEMMA EntryValues ==
  ASSUME Typed, NEW c \in Conns
  PROVE  /\ local[c].entry \in Fitting
         /\ local[c].entry.old \in Short /\ local[c].entry.new \in Short
         /\ Pad(local[c].entry.old, local[c].entry.new) \in Short
         /\ Told(local[c]) \in Seq(Unit)
<1>1. local[c].entry \in Fitting
  BY DEF Typed, LocalType
<1>2. local[c].entry.old \in Short /\ local[c].entry.new \in Short
  BY <1>1 DEF Fitting
<1>3. Pad(local[c].entry.old, local[c].entry.new) \in Short
  BY <1>2, PadType
<1>4. local[c].sent \in Seq(Unit) /\ local[c].entry.old \in Seq(Unit)
  BY <1>2 DEF Typed, LocalType, Short
<1> QED  BY <1>1, <1>2, <1>3, <1>4 DEF Told

\* What the log is after an entry was written.
LEMMA SlotIs ==
  ASSUME Typed, NEW c \in Conns, LogSlot(c)
  PROVE  LET n == local[c].len + 1
         IN /\ n \in Nat \ {0}
            /\ slots' \in Seq(Fitting)
            /\ Len(slots') = IF Len(slots) < n THEN n ELSE Len(slots)
            /\ \A i \in 1..Len(slots') : slots'[i] = IF i = n THEN local[c].entry
                                                     ELSE IF i <= Len(slots) THEN slots[i]
                                                     ELSE Hole
<1> DEFINE n == local[c].len + 1
           m == IF Len(slots) < n THEN n ELSE Len(slots)
<1>1. /\ n \in Nat \ {0} /\ slots \in Seq(Fitting) /\ Hole \in Fitting
      /\ local[c].entry \in Fitting
  BY FittingType DEF Typed, LocalType
<1>2. slots' = [i \in 1..m |-> IF i = n THEN local[c].entry
                               ELSE IF i \in DOMAIN slots THEN slots[i] ELSE Hole]
  BY DEF LogSlot
<1>3. m \in Nat /\ m >= n /\ m >= Len(slots)
  BY <1>1
<1>4. m = IF Len(slots) < n THEN n ELSE Len(slots)
  OBVIOUS
<1> HIDE DEF m
<1>5. \A i \in 1..m : (IF i = n THEN local[c].entry
                       ELSE IF i \in DOMAIN slots THEN slots[i] ELSE Hole) \in Fitting
  BY <1>1
<1>6. slots' \in Seq(Fitting) /\ Len(slots') = m
  BY <1>2, <1>3, <1>5
<1>7. \A i \in 1..m : i \in DOMAIN slots <=> i <= Len(slots)
  BY <1>1
<1>8. \A i \in 1..m : slots'[i] = IF i = n THEN local[c].entry
                                  ELSE IF i <= Len(slots) THEN slots[i] ELSE Hole
  BY <1>2, <1>7, Zenon
<1> QED  BY <1>1, <1>4, <1>6, <1>8

\* A page that changes with an announcement shows the notice.
LEMMA NoteView ==
  ASSUME Typed, NEW c \in Conns, Note(c) \/ OpenInfo(c)
  PROVE  /\ view' \in [Conns -> Views]
         /\ \A d \in Conns, k \in Cells : view'[d][k] = view[d][k] \/ view'[d][k] = Notice
<1>1. view \in [Conns -> Views]
  BY DEF Typed
<1>2. CASE Note(c)
  <2> DEFINE k == local[c].entry.cell
  <2>1. \A d \in Conns : [view[d] EXCEPT ![k] = Notice] \in Views
    BY <1>1 DEF Views
  <2>2. view' = [d \in Conns |-> IF d \in connMap /\ Me(d) # Me(c)
                                 THEN [view[d] EXCEPT ![k] = Notice] ELSE view[d]]
    BY <1>2 DEF Note
  <2>3. \A d \in Conns, m \in Cells : \/ [view[d] EXCEPT ![k] = Notice][m] = view[d][m]
                                     \/ [view[d] EXCEPT ![k] = Notice][m] = Notice
    BY <1>1 DEF Views
  <2> HIDE DEF k
  <2> QED  BY <1>1, <2>1, <2>2, <2>3
<1>3. CASE OpenInfo(c)
  <2> DEFINE f == [k \in Cells |-> IF lockMap[k] \in {Nobody, Me(c)} THEN view[c][k]
                                   ELSE Notice]
  <2>1. f \in Views /\ \A k \in Cells : f[k] = view[c][k] \/ f[k] = Notice
    BY <1>1 DEF Views
  <2>2. view' = [view EXCEPT ![c] = f]
    BY <1>3 DEF OpenInfo
  <2> HIDE DEF f
  <2> QED  BY <1>1, <2>1, <2>2
<1> QED  BY <1>2, <1>3

LEMMA TypeInit == Init => Typed
<1> SUFFICES ASSUME Init PROVE Typed
  OBVIOUS
<1>1. Right("idle", NoLocal) /\ "idle" \in Places
  BY DEF Right, Places, Unlogged
<1>2. EmptyDoc \in Views
  BY EmptyType, ViewsType
<1> QED  BY <1>1, <1>2, EmptyType, NoLocalType DEF Init, Typed

LEMMA TypeStep == Typed /\ [Next]_vars => Typed'
<1> SUFFICES ASSUME Typed, [Next]_vars PROVE Typed'
  OBVIOUS
<1>0. /\ content \in [Cells -> CellType]
      /\ logLen \in Nat /\ slots \in Seq(Fitting)
      /\ owner \in [Cells -> Conns \cup {NoConn}]
      /\ lockMap \in [Cells -> Users \cup {Nobody}]
      /\ connMap \subseteq Conns
      /\ view \in [Conns -> Views]
      /\ journal \in Seq(ChangeType)
      /\ ops \in Nat /\ crashes \in Nat
  BY DEF Typed
<1>1. ASSUME NEW c \in Conns, Open(c) PROVE Typed'
  <2>1. PICK l : Moves(c, "send", l, {})
    BY <1>1, OpenMoves
  <2>2. /\ connMap' \subseteq Conns /\ view' \in [Conns -> Views] /\ ops' \in Nat
        /\ UNCHANGED <<content, logged, locks, journal, crashes>>
    BY <1>0, <1>1, EmptyType, ViewsType DEF Open, Begin
  <2> QED  BY <1>0, <2>1, <2>2, MoveTypes DEF logged, locks
<1>2. ASSUME NEW c \in Conns, OpenSend(c) PROVE Typed'
  <2>1. PICK l, x : Moves(c, "loglen", l, x)
    BY <1>2, OpenSendMoves
  <2>2. view' \in [Conns -> Views]
    BY <1>0, <1>2, ViewsType DEF OpenSend, Typed, LocalType
  <2> QED  BY <1>0, <1>2, <2>1, <2>2, MoveTypes DEF OpenSend, logged, locks, budget
<1>3. ASSUME NEW c \in Conns, Note(c) PROVE Typed'
  <2>1. Moves(c, "idle", NoLocal, {})
    BY <1>3, DoneIs DEF Note
  <2>2. lockMap' \in [Cells -> Users \cup {Nobody}]
    BY <1>0, <1>3, UserAssumption DEF Note, Me
  <2>3. view' \in [Conns -> Views]
    BY <1>0, <1>3, NoteView
  <2> QED  BY <1>0, <1>3, <2>1, <2>2, <2>3, MoveTypes DEF Note, logged, budget
<1>4. ASSUME NEW c \in Conns, UpdateWrite(c) PROVE Typed'
  <2>0. /\ pc[c] = "write" /\ "unlock" \in Places
        /\ Goto(c, "unlock", [local[c] EXCEPT !.mark = Len(journal) + 1], {})
    BY <1>4 DEF UpdateWrite, Places, Unlogged
  <2>1. PICK l \in LocalType : Moves(c, "unlock", l, {}) /\ local[c].entry \in Changing
    BY <2>0, WriteMoves
  <2>2. content' \in [Cells -> CellType] /\ journal' \in Seq(ChangeType)
    BY <1>4, <2>1, ChangeTypes, EntryValues DEF UpdateWrite
  <2>3. lockMap' \in [Cells -> Users \cup {Nobody}]
    BY <1>0, <1>4 DEF UpdateWrite
  <2> QED  BY <1>0, <1>4, <2>1, <2>2, <2>3, MoveTypes DEF UpdateWrite, logged, pages, budget
<1>5. ASSUME NEW c \in Conns, Unlock(c) PROVE Typed'
  <2>1. Moves(c, "spread", local[c], {})
    BY <1>5, UnlockMoves
  <2>2. owner' \in [Cells -> Conns \cup {NoConn}]
    BY <1>0, <1>5 DEF Unlock
  <2> QED  BY <1>0, <1>5, <2>1, <2>2, MoveTypes DEF Unlock, logged, pages, budget
<1>6. ASSUME NEW c \in Conns, Spread(c) PROVE Typed'
  <2>1. PICK x : Moves(c, "loglen", local[c], x)
    BY <1>6, SpreadMoves
  <2>2. Look(Told(local[c])) \in Seq(Unit)
    BY EntryValues, LookCut
  <2>3. view' \in [Conns -> Views]
    BY <1>0, <1>6, <2>2 DEF Spread, Views
  <2> QED  BY <1>0, <1>6, <2>1, <2>3, MoveTypes DEF Spread, logged, locks, budget
<1>7. ASSUME NEW c \in Conns, LogLen(c) PROVE Typed'
  <2>1. PICK l, x : Moves(c, "loghead", l, x)
    BY <1>7, LogLenMoves
  <2> QED  BY <1>0, <1>7, <2>1, MoveTypes DEF LogLen, logged, locks, pages, budget
<1>8. ASSUME NEW c \in Conns, LogHead(c) PROVE Typed'
  <2>1. Moves(c, "logslot", local[c], {})
    BY <1>8, LogHeadMoves
  <2>2. logLen' \in Nat
    BY <1>8 DEF LogHead, Typed, LocalType
  <2> QED  BY <1>0, <1>8, <2>1, <2>2, MoveTypes DEF LogHead, locks, pages, budget
<1>9. ASSUME NEW c \in Conns, LogSlot(c) PROVE Typed'
  <2>1. PICK s : Moves(c, s, NoLocal, {})
    BY <1>9, LogSlotMoves
  <2>2. slots' \in Seq(Fitting)
    BY <1>9, SlotIs
  <2> QED  BY <1>0, <1>9, <2>1, <2>2, MoveTypes DEF LogSlot, locks, pages, budget
<1>10. ASSUME NEW c \in Conns, RollLen(c) PROVE Typed'
  <2>1. PICK l : Moves(c, "rolllog", l, {})
    BY <1>10, RollLenMoves
  <2>2. ops' \in Nat
    BY <1>0, <1>10 DEF RollLen, Begin
  <2> QED  BY <1>0, <1>10, <2>1, <2>2, MoveTypes DEF RollLen, logged, locks, pages
<1>11. ASSUME NEW c \in Conns, RollLog(c) PROVE Typed'
  <2>1. PICK s, l : Moves(c, s, l, {})
    BY <1>11, RollLogMoves, Zenon
  <2> QED  BY <1>0, <1>11, <2>1, MoveTypes DEF RollLog, logged, locks, pages, budget
<1>12. ASSUME NEW c \in Conns, RollWrite(c) PROVE Typed'
  <2>1. PICK l : Moves(c, "spread", l, {}) /\ local[c].entry \in Changing
    BY <1>12, WriteMoves DEF RollWrite, Places, Unlogged, Undoing
  <2>2. content' \in [Cells -> CellType] /\ journal' \in Seq(ChangeType)
    BY <1>12, <2>1, ChangeTypes, EntryValues DEF RollWrite
  <2> QED  BY <1>0, <1>12, <2>1, <2>2, MoveTypes DEF RollWrite, logged, locks, pages, budget
<1>13. ASSUME NEW c \in Conns, NEW k \in Cells, TryLock(c, k) PROVE Typed'
  <2>1. PICK l : Moves(c, "note", l, {})
    BY <1>13, TryLockMoves
  <2>2. owner' \in [Cells -> Conns \cup {NoConn}] /\ ops' \in Nat
    BY <1>0, <1>13 DEF TryLock, Begin
  <2> QED  BY <1>0, <1>13, <2>1, <2>2, MoveTypes DEF TryLock, logged, pages
<1>14. ASSUME NEW c \in Conns, NEW k \in Cells, NEW v \in Values, UpdateRead(c, k, v)
       PROVE  Typed'
  <2>1. PICK s, l : Moves(c, s, l, {})
    BY <1>14, UpdateReadMoves, Zenon
  <2> QED  BY <1>0, <1>14, <2>1, MoveTypes DEF UpdateRead, logged, locks, pages, budget
<1>15. CASE Crash
  <2>1. Right("idle", NoLocal) /\ "idle" \in Places
    BY DEF Right, Places, Unlogged
  <2>2. upsets' \subseteq Upsets
    BY <1>15 DEF Crash, Typed, Upsets
  <2>3. crashes' \in Nat /\ connMap' \subseteq Conns
    BY <1>0, <1>15 DEF Crash
  <2>4. view' \in [Conns -> Views]
    BY <1>15, EmptyType, ViewsType DEF Crash
  <2> QED  BY <1>0, <1>15, <2>1, <2>2, <2>3, <2>4, NoLocalType DEF Crash, Typed, logged
<1>16. CASE UNCHANGED vars
  BY <1>16 DEF vars, logged, locks, pages, budget, Typed
<1>17. ASSUME NEW c \in Conns, OpenInfo(c) PROVE Typed'
  <2>1. Moves(c, "idle", NoLocal, {})
    BY <1>17, DoneIs DEF OpenInfo
  <2>2. view' \in [Conns -> Views]
    BY <1>17, NoteView
  <2> QED  BY <1>0, <1>17, <2>1, <2>2, MoveTypes DEF OpenInfo, logged, locks, budget
<1> QED
  BY <1>1, <1>2, <1>3, <1>4, <1>5, <1>6, <1>7, <1>8, <1>9, <1>10, <1>11, <1>12, <1>13,
     <1>14, <1>15, <1>16, <1>17 DEF Next

LEMMA TypedAlways == Spec => []Typed
  BY TypeInit, TypeStep, PTL DEF Spec

\* TypeOK for every instance: whatever handlers overlap, crash or are rolled
\* back, no value leaves its cell and no entry of the log is malformed.
THEOREM TypeCorrect == Spec => []TypeOK
  BY TypedAlways, TypedTypes, PTL

-----------------------------------------------------------------------------
(* What the journal says of the cells and of the handlers                  *)

\* What the handler of an entry writes into the cell.
Written(e) == IF e.type = "rollback" THEN Pad(e.old, e.new) ELSE e.new

\* Change i is the last of cell k.
LastOf(i, k) == /\ i \in 1..Len(journal) /\ journal[i].entry.cell = k
                /\ \A j \in (i + 1)..Len(journal) : journal[j].entry.cell # k

\* The change a handler has made is in the journal where it noted it.
Marked(l) == l.mark \in 1..Len(journal) /\ journal[l.mark].entry = l.entry

\* A handler that sends the document has it as it was at its mark.
Snapped(l) == l.mark <= Len(journal) /\ (l.mark = Len(journal) => l.snap = content)

Recorded ==
  /\ \A i \in 1..Len(journal) :
       journal[i].after = Put(journal[i].before, Written(journal[i].entry))
  /\ \A i \in 1..Len(journal) : \A k \in Cells : LastOf(i, k) => content[k] = journal[i].after
  /\ \A c \in Conns : pc[c] \in Unlogged /\ local[c].entry.type \in Kinds => Marked(local[c])
  /\ \A c \in Conns : pc[c] = "send" => Snapped(local[c])

\* A step that changes no cell.
LEMMA RecordedStay ==
  ASSUME Typed, Recorded, NEW c \in Conns, NEW s, NEW l, NEW x, Moves(c, s, l, x),
         UNCHANGED <<content, journal>>,
         s \in Unlogged /\ l.entry.type \in Kinds => Marked(l),
         s = "send" => Snapped(l)
  PROVE  Recorded'
<1>1. /\ \A i, k : LastOf(i, k)' <=> LastOf(i, k)
      /\ \A m : Marked(m)' <=> Marked(m)
      /\ \A m : Snapped(m)' <=> Snapped(m)
  BY DEF LastOf, Marked, Snapped
<1>2. /\ pc'[c] = s /\ local'[c] = l
      /\ \A d \in Conns : d # c => pc'[d] = pc[d] /\ local'[d] = local[d]
  BY DEF Moves
<1>3. \A d \in Conns : pc'[d] \in Unlogged /\ local'[d].entry.type \in Kinds
                         => Marked(local'[d])
  BY <1>2 DEF Recorded
<1>4. \A d \in Conns : pc'[d] = "send" => Snapped(local'[d])
  BY <1>2 DEF Recorded
<1>5. \A d \in Conns : /\ Marked(local'[d]) => Marked(local[d])'
                       /\ Snapped(local'[d]) => Snapped(local[d])'
  BY DEF Marked, Snapped
<1>6. /\ \A i \in 1..Len(journal') :
           journal'[i].after = Put(journal'[i].before, Written(journal'[i].entry))
      /\ \A i \in 1..Len(journal') : \A k \in Cells :
           LastOf(i, k)' => content'[k] = journal'[i].after
  BY <1>1 DEF Recorded
<1> QED  BY <1>3, <1>4, <1>5, <1>6 DEF Recorded

\* The journal after a change.
LEMMA JournalGrows ==
  ASSUME Typed, NEW j \in ChangeType, journal' = Append(journal, j)
  PROVE  /\ Len(journal') = Len(journal) + 1 /\ Len(journal) \in Nat
         /\ journal'[Len(journal) + 1] = j
         /\ \A i \in 1..Len(journal) : journal'[i] = journal[i] /\ i \in 1..Len(journal')
         /\ \A i \in 1..Len(journal') : i \in 1..Len(journal) \/ i = Len(journal) + 1
         /\ \A n, k : n = Len(journal) + 1 => (LastOf(n, k)' <=> k = j.entry.cell)
         /\ \A k : \A i \in 1..Len(journal) :
              LastOf(i, k)' <=> LastOf(i, k) /\ k # j.entry.cell
<1>1. journal \in Seq(ChangeType)
  BY DEF Typed
<1>2. /\ Len(journal') = Len(journal) + 1 /\ Len(journal) \in Nat
      /\ journal'[Len(journal) + 1] = j
      /\ \A i \in 1..Len(journal) : journal'[i] = journal[i] /\ i \in 1..Len(journal')
      /\ \A i \in 1..Len(journal') : i \in 1..Len(journal) \/ i = Len(journal) + 1
  BY <1>1
<1>3. ASSUME NEW n, NEW k, n = Len(journal) + 1 PROVE LastOf(n, k)' <=> k = j.entry.cell
  <2>1. LastOf(n, k)' <=> /\ n \in 1..Len(journal') /\ journal'[n].entry.cell = k
                          /\ \A i \in (n + 1)..Len(journal') : journal'[i].entry.cell # k
    BY DEF LastOf
  <2> QED  BY <1>2, <1>3, <2>1
<1>4. ASSUME NEW k, NEW i \in 1..Len(journal)
      PROVE  LastOf(i, k)' <=> LastOf(i, k) /\ k # j.entry.cell
  <2>1. LastOf(i, k)' <=> /\ journal'[i].entry.cell = k
                          /\ \A m \in (i + 1)..Len(journal') : journal'[m].entry.cell # k
    BY <1>2 DEF LastOf
  <2>2. (\A m \in (i + 1)..Len(journal') : journal'[m].entry.cell # k) <=>
          /\ \A m \in (i + 1)..Len(journal) : journal[m].entry.cell # k
          /\ j.entry.cell # k
    BY <1>2
  <2> QED  BY <1>2, <2>1, <2>2 DEF LastOf
<1> QED  BY <1>2, <1>3, <1>4

\* A step that changes the cell of the entry of c.
LEMMA RecordedChange ==
  ASSUME Typed, Recorded, NEW c \in Conns, NEW s, NEW l, Moves(c, s, l, {}),
         l.entry = local[c].entry, l.mark = Len(journal) + 1, s # "send",
         NEW e \in Changing, e = local[c].entry,
         Change(e.cell, Put(content[e.cell], Written(e)), e)
  PROVE  /\ Recorded'
         /\ journal' = Append(journal, [entry |-> e, before |-> content[e.cell],
                                        after |-> Put(content[e.cell], Written(e))])
         /\ [entry |-> e, before |-> content[e.cell],
             after |-> Put(content[e.cell], Written(e))] \in ChangeType
         /\ content' = [content EXCEPT ![e.cell] = Put(content[e.cell], Written(e))]
<1> DEFINE p == Put(content[e.cell], Written(e))
           j == [entry |-> e, before |-> content[e.cell], after |-> p]
           n == Len(journal) + 1
<1>1. Written(e) \in Short
  BY EntryValues DEF Written
<1>2. /\ e.cell \in Cells /\ content[e.cell] \in CellType /\ p \in CellType
      /\ content' = [content EXCEPT ![e.cell] = p] /\ journal' = Append(journal, j)
  BY <1>1, ChangeTypes
<1>3. j \in ChangeType /\ j.entry = e /\ j.after = p /\ j.before = content[e.cell]
  <2> HIDE DEF p
  <2> QED  BY <1>2 DEF ChangeType
<1>4. p = Put(j.before, Written(j.entry))
  BY <1>3
<1> HIDE DEF p, j
<1>5. /\ Len(journal') = Len(journal) + 1 /\ Len(journal) \in Nat
      /\ journal'[n] = j
      /\ \A i \in 1..Len(journal) : journal'[i] = journal[i] /\ i \in 1..Len(journal')
      /\ \A i \in 1..Len(journal') : i \in 1..Len(journal) \/ i = n
      /\ \A m, k : m = n => (LastOf(m, k)' <=> k = j.entry.cell)
      /\ \A k : \A i \in 1..Len(journal) : LastOf(i, k)' <=> LastOf(i, k) /\ k # j.entry.cell
  BY <1>2, <1>3, JournalGrows
<1>6. \A i \in 1..Len(journal') :
        journal'[i].after = Put(journal'[i].before, Written(journal'[i].entry))
  BY <1>3, <1>4, <1>5 DEF Recorded
<1>7. content'[e.cell] = p /\ \A k \in Cells : k # e.cell => content'[k] = content[k]
  BY <1>2 DEF Typed
<1>8. \A i \in 1..Len(journal') : \A k \in Cells : LastOf(i, k)' => content'[k] = journal'[i].after
  BY <1>3, <1>5, <1>7 DEF Recorded
<1>9. /\ pc'[c] = s /\ local'[c] = l
      /\ \A d \in Conns : d # c => pc'[d] = pc[d] /\ local'[d] = local[d]
  BY DEF Moves
<1>10. \A d \in Conns : pc'[d] \in Unlogged /\ local'[d].entry.type \in Kinds =>
         local'[d].mark \in 1..Len(journal') /\ journal'[local'[d].mark].entry = local'[d].entry
  <2> SUFFICES ASSUME NEW d \in Conns, pc'[d] \in Unlogged, local'[d].entry.type \in Kinds
               PROVE  /\ local'[d].mark \in 1..Len(journal')
                      /\ journal'[local'[d].mark].entry = local'[d].entry
    OBVIOUS
  <2>1. CASE d = c
    <3>1. local'[d].mark = n /\ local'[d].entry = e
      BY <1>9, <2>1
    <3>2. n \in 1..Len(journal') /\ journal'[n].entry = e
      BY <1>3, <1>5
    <3> QED  BY <3>1, <3>2
  <2>2. CASE d # c
    BY <1>5, <1>9, <2>2 DEF Recorded, Marked
  <2> QED  BY <2>1, <2>2
<1>11. \A d \in Conns : pc'[d] = "send" =>
         local'[d].mark <= Len(journal') /\ local'[d].mark # Len(journal')
  <2>1. \A d \in Conns : local[d].mark \in Nat
    BY DEF Typed, LocalType
  <2> QED  BY <1>5, <1>9, <2>1 DEF Recorded, Snapped
<1>12. Recorded'
  BY <1>6, <1>8, <1>10, <1>11 DEF Recorded, Marked, Snapped
<1> QED  BY <1>2, <1>3, <1>12 DEF p, j

LEMMA RecordedInit == Init => Recorded
  BY DEF Init, Recorded, Unlogged

\* A cell is changed by an update and by a rollback as its entry says.
LEMMA UpdateWriteIs ==
  ASSUME Typed, Recorded, NEW c \in Conns, UpdateWrite(c)
  PROVE  /\ Recorded'
         /\ local[c].entry \in Changing /\ local[c].entry.type = "update"
         /\ \E l \in LocalType : /\ Moves(c, "unlock", l, {}) /\ l.entry = local[c].entry
                                 /\ l.mark = Len(journal) + 1
         /\ \E j \in ChangeType : /\ journal' = Append(journal, j) /\ j.entry = local[c].entry
                                  /\ j.before = content[j.entry.cell]
                                  /\ j.after = Put(j.before, Written(j.entry))
                                  /\ content' = [content EXCEPT ![j.entry.cell] = j.after]
<1> DEFINE e == local[c].entry
           j == [entry |-> e, before |-> content[e.cell],
                 after |-> Put(content[e.cell], Written(e))]
<1>1. /\ pc[c] = "write" /\ "unlock" \in Places
      /\ Goto(c, "unlock", [local[c] EXCEPT !.mark = Len(journal) + 1], {})
      /\ Change(e.cell, Put(content[e.cell], e.new), e)
  BY DEF UpdateWrite, Places, Unlogged
<1>2. PICK l \in LocalType :
        /\ Moves(c, "unlock", l, {}) /\ l.entry = e /\ l.mark = Len(journal) + 1
        /\ e \in Changing /\ e.type = "update"
  BY <1>1, WriteMoves
<1>3. Written(e) = e.new
  BY <1>2 DEF Written
<1> HIDE DEF e
<1>4. /\ Recorded' /\ j \in ChangeType /\ journal' = Append(journal, j)
      /\ content' = [content EXCEPT ![e.cell] = Put(content[e.cell], Written(e))]
  BY <1>1, <1>2, <1>3, RecordedChange DEF e
<1>5. j.entry = e /\ j.before = content[e.cell] /\ j.after = Put(content[e.cell], Written(e))
  OBVIOUS
<1> HIDE DEF j
<1> QED  BY <1>2, <1>4, <1>5 DEF e

LEMMA RollWriteIs ==
  ASSUME Typed, Recorded, NEW c \in Conns, RollWrite(c)
  PROVE  /\ Recorded'
         /\ local[c].entry \in Changing /\ local[c].entry.type = "rollback"
         /\ \E l \in LocalType : /\ Moves(c, "spread", l, {}) /\ l.entry = local[c].entry
                                 /\ l.mark = Len(journal) + 1
         /\ \E j \in ChangeType : /\ journal' = Append(journal, j) /\ j.entry = local[c].entry
                                  /\ j.before = content[j.entry.cell]
                                  /\ j.after = Put(j.before, Written(j.entry))
                                  /\ content' = [content EXCEPT ![j.entry.cell] = j.after]
<1> DEFINE e == local[c].entry
           j == [entry |-> e, before |-> content[e.cell],
                 after |-> Put(content[e.cell], Written(e))]
<1>1. /\ pc[c] = "rollwrite" /\ "spread" \in Places
      /\ Goto(c, "spread", [local[c] EXCEPT !.mark = Len(journal) + 1], {})
      /\ Change(e.cell, Put(content[e.cell], Pad(e.old, e.new)), e)
  BY DEF RollWrite, Places, Unlogged
<1>2. PICK l \in LocalType :
        /\ Moves(c, "spread", l, {}) /\ l.entry = e /\ l.mark = Len(journal) + 1
        /\ e \in Changing /\ e.type = "rollback"
  BY <1>1, WriteMoves
<1>3. Written(e) = Pad(e.old, e.new)
  BY <1>2 DEF Written
<1> HIDE DEF e
<1>4. /\ Recorded' /\ j \in ChangeType /\ journal' = Append(journal, j)
      /\ content' = [content EXCEPT ![e.cell] = Put(content[e.cell], Written(e))]
  BY <1>1, <1>2, <1>3, RecordedChange DEF e
<1>5. j.entry = e /\ j.before = content[e.cell] /\ j.after = Put(content[e.cell], Written(e))
  OBVIOUS
<1> HIDE DEF j
<1> QED  BY <1>2, <1>4, <1>5 DEF e

LEMMA RecordedStep == Typed /\ Recorded /\ [Next]_vars => Recorded'
<1> SUFFICES ASSUME Typed, Recorded, [Next]_vars PROVE Recorded'
  OBVIOUS
<1>1. ASSUME NEW c \in Conns, Open(c) PROVE Recorded'
  <2>1. PICK l : Moves(c, "send", l, {}) /\ l.snap = content /\ l.mark = Len(journal)
    BY <1>1, OpenMoves
  <2>2. Snapped(l) /\ "send" \notin Unlogged
    BY <2>1 DEF Snapped, Unlogged, Typed
  <2> QED  BY <1>1, <2>1, <2>2, RecordedStay DEF Open
<1>2. ASSUME NEW c \in Conns, OpenSend(c) PROVE Recorded'
  <2>1. PICK l, x : Moves(c, "loglen", l, x) /\ l.entry.type = "open"
    BY <1>2, OpenSendMoves
  <2> QED  BY <1>2, <2>1, RecordedStay DEF OpenSend, Kinds
<1>3. ASSUME NEW c \in Conns, Note(c) PROVE Recorded'
  <2>1. Moves(c, "idle", NoLocal, {})
    BY <1>3, DoneIs DEF Note
  <2> QED  BY <1>3, <2>1, RecordedStay DEF Note, Unlogged
<1>4. ASSUME NEW c \in Conns, UpdateWrite(c) PROVE Recorded'
  BY <1>4, UpdateWriteIs
<1>5. ASSUME NEW c \in Conns, Unlock(c) PROVE Recorded'
  <2>1. Moves(c, "spread", local[c], {}) /\ Marked(local[c])
    BY <1>5, UnlockMoves DEF Recorded, Unlock, Unlogged, Kinds
  <2> QED  BY <1>5, <2>1, RecordedStay DEF Unlock
<1>6. ASSUME NEW c \in Conns, Spread(c) PROVE Recorded'
  <2>1. PICK x : Moves(c, "loglen", local[c], x) /\ Marked(local[c])
    BY <1>6, SpreadMoves DEF Recorded, Spread, Unlogged, Changing
  <2> QED  BY <1>6, <2>1, RecordedStay DEF Spread
<1>7. ASSUME NEW c \in Conns, LogLen(c) PROVE Recorded'
  <2>1. PICK l, x : /\ Moves(c, "loghead", l, x)
                    /\ l.entry = local[c].entry /\ l.mark = local[c].mark
    BY <1>7, LogLenMoves
  <2>2. local[c].entry.type \in Kinds => Marked(local[c])
    BY <1>7 DEF Recorded, LogLen, Unlogged
  <2>3. l.entry.type \in Kinds => Marked(l)
    BY <2>1, <2>2 DEF Marked
  <2> QED  BY <1>7, <2>1, <2>3, RecordedStay DEF LogLen
<1>8. ASSUME NEW c \in Conns, LogHead(c) PROVE Recorded'
  <2>1. Moves(c, "logslot", local[c], {})
    BY <1>8, LogHeadMoves
  <2>2. local[c].entry.type \in Kinds => Marked(local[c])
    BY <1>8 DEF Recorded, LogHead, Unlogged
  <2> QED  BY <1>8, <2>1, <2>2, RecordedStay DEF LogHead
<1>9. ASSUME NEW c \in Conns, LogSlot(c) PROVE Recorded'
  <2>1. PICK s \in {"idle", "info"} : Moves(c, s, NoLocal, {})
    BY <1>9, LogSlotMoves
  <2> QED  BY <1>9, <2>1, RecordedStay DEF LogSlot, Unlogged
<1>10. ASSUME NEW c \in Conns, RollLen(c) PROVE Recorded'
  <2>1. PICK l : Moves(c, "rolllog", l, {})
    BY <1>10, RollLenMoves
  <2> QED  BY <1>10, <2>1, RecordedStay DEF RollLen, Unlogged
<1>11. ASSUME NEW c \in Conns, RollLog(c) PROVE Recorded'
  <2>1. PICK s, l : Moves(c, s, l, {}) /\ s \in {"idle", "rollwrite"}
    <3>1. \/ Moves(c, "idle", NoLocal, {})
          \/ \E l : Moves(c, "rollwrite", l, {})
      BY <1>11, RollLogMoves, Zenon
    <3> QED  BY <3>1
  <2> QED  BY <1>11, <2>1, RecordedStay DEF RollLog, Unlogged
<1>12. ASSUME NEW c \in Conns, RollWrite(c) PROVE Recorded'
  BY <1>12, RollWriteIs
<1>13. ASSUME NEW c \in Conns, NEW k \in Cells, TryLock(c, k) PROVE Recorded'
  <2>1. PICK l : Moves(c, "note", l, {})
    BY <1>13, TryLockMoves
  <2> QED  BY <1>13, <2>1, RecordedStay DEF TryLock, Unlogged
<1>14. ASSUME NEW c \in Conns, NEW k \in Cells, NEW v \in Values, UpdateRead(c, k, v)
       PROVE  Recorded'
  <2>1. PICK s, l : Moves(c, s, l, {}) /\ s \in {"dead", "write"}
    <3>1. \/ Moves(c, "dead", NoLocal, {})
          \/ \E l : Moves(c, "write", l, {})
      BY <1>14, UpdateReadMoves, Zenon
    <3> QED  BY <3>1
  <2> QED  BY <1>14, <2>1, RecordedStay DEF UpdateRead, Unlogged
<1>15. CASE Crash
  <2>1. /\ UNCHANGED <<content, journal>> /\ \A c \in Conns : pc'[c] = "idle"
    BY <1>15 DEF Crash
  <2> QED  BY <2>1 DEF Recorded, LastOf, Unlogged
<1>16. CASE UNCHANGED vars
  <2>1. UNCHANGED <<content, journal, pc, local>>
    BY <1>16 DEF vars
  <2> QED  BY <2>1 DEF Recorded, LastOf, Marked, Snapped
<1>17. ASSUME NEW c \in Conns, OpenInfo(c) PROVE Recorded'
  <2>1. Moves(c, "idle", NoLocal, {})
    BY <1>17, DoneIs DEF OpenInfo
  <2> QED  BY <1>17, <2>1, RecordedStay DEF OpenInfo, Unlogged
<1> QED
  BY <1>1, <1>2, <1>3, <1>4, <1>5, <1>6, <1>7, <1>8, <1>9, <1>10, <1>11, <1>12, <1>13,
     <1>14, <1>15, <1>16, <1>17 DEF Next

-----------------------------------------------------------------------------
(* Locks of cells                                                          *)

\* A handler that writes, or has just written, has the lock of its cell.
Locked == \A c \in Conns : pc[c] \in {"write", "unlock"} => owner[local[c].entry.cell] = c

LEMMA LockedInit == Init => Locked
  BY DEF Init, Locked

\* It has a cell.
LEMMA WriterCell ==
  ASSUME Typed, NEW c \in Conns, pc[c] \in {"write", "unlock"}
  PROVE  local[c].entry.cell \in Cells
<1>1. local[c].entry \in Fitting /\ local[c].entry.type = "update"
  BY DEF Typed, LocalType, Right
<1> QED  BY <1>1 DEF Fitting, Kinds

LEMMA LockedStay ==
  ASSUME Locked, NEW c \in Conns, NEW s, NEW l, NEW x, Moves(c, s, l, x), UNCHANGED owner,
         s \in {"write", "unlock"} => owner[l.entry.cell] = c
  PROVE  Locked'
<1>1. /\ pc'[c] = s /\ local'[c] = l
      /\ \A d \in Conns : d # c => pc'[d] = pc[d] /\ local'[d] = local[d]
  BY DEF Moves
<1> QED  BY <1>1 DEF Locked

LEMMA LockedStep == Typed /\ Recorded /\ Locked /\ [Next]_vars => Locked'
<1> SUFFICES ASSUME Typed, Recorded, Locked, [Next]_vars PROVE Locked'
  OBVIOUS
<1>1. ASSUME NEW c \in Conns,
             Open(c) \/ OpenSend(c) \/ OpenInfo(c) \/ Note(c) \/ Spread(c) \/ LogLen(c)
             \/ LogHead(c) \/ LogSlot(c) \/ RollLen(c) \/ RollLog(c)
      PROVE  Locked'
  <2>1. \E s, l, x : Moves(c, s, l, x) /\ s \notin {"write", "unlock"}
    <3>1. CASE Open(c)
      BY <3>1, OpenMoves
    <3>2. CASE OpenSend(c)
      BY <3>2, OpenSendMoves
    <3>3. CASE Note(c) \/ OpenInfo(c)
      BY <3>3, DoneIs DEF Note, OpenInfo
    <3>4. CASE Spread(c)
      BY <3>4, SpreadMoves
    <3>5. CASE LogLen(c)
      BY <3>5, LogLenMoves
    <3>6. CASE LogHead(c)
      BY <3>6, LogHeadMoves
    <3>7. CASE RollLen(c)
      BY <3>7, RollLenMoves
    <3>8. CASE RollLog(c)
      <4>1. \/ Moves(c, "idle", NoLocal, {})
            \/ \E l : Moves(c, "rollwrite", l, {})
        BY <3>8, RollLogMoves, Zenon
      <4> QED  BY <4>1
    <3>9. CASE LogSlot(c)
      BY <3>9, LogSlotMoves
    <3> QED  BY <1>1, <3>1, <3>2, <3>3, <3>4, <3>5, <3>6, <3>7, <3>8, <3>9
  <2>2. UNCHANGED owner
    BY <1>1 DEF Open, OpenSend, OpenInfo, Note, Spread, LogLen, LogHead, LogSlot, RollLen, RollLog, locks
  <2> QED  BY <2>1, <2>2, LockedStay
<1>2. ASSUME NEW c \in Conns, UpdateWrite(c) PROVE Locked'
  <2>1. PICK l : Moves(c, "unlock", l, {}) /\ l.entry = local[c].entry
    BY <1>2, UpdateWriteIs
  <2>2. UNCHANGED owner /\ pc[c] = "write"
    BY <1>2 DEF UpdateWrite
  <2> QED  BY <2>1, <2>2, LockedStay DEF Locked
<1>3. ASSUME NEW c \in Conns, RollWrite(c) PROVE Locked'
  <2>1. PICK l : Moves(c, "spread", l, {})
    BY <1>3, RollWriteIs
  <2>2. UNCHANGED owner
    BY <1>3 DEF RollWrite, locks
  <2> QED  BY <2>1, <2>2, LockedStay
<1>4. ASSUME NEW c \in Conns, Unlock(c) PROVE Locked'
  <2>1. Moves(c, "spread", local[c], {})
    BY <1>4, UnlockMoves
  <2>2. /\ pc'[c] = "spread"
        /\ \A d \in Conns : d # c => pc'[d] = pc[d] /\ local'[d] = local[d]
    BY <2>1 DEF Moves
  <2>3. /\ owner' = [owner EXCEPT ![local[c].entry.cell] = NoConn]
        /\ owner[local[c].entry.cell] = c
    BY <1>4 DEF Unlock, Locked
  <2>4. \A k \in Cells : k # local[c].entry.cell => owner'[k] = owner[k]
    BY <2>3 DEF Typed
  <2> QED  BY <2>2, <2>3, <2>4, WriterCell DEF Locked
<1>5. ASSUME NEW c \in Conns, NEW k \in Cells, TryLock(c, k) PROVE Locked'
  <2>1. PICK l : Moves(c, "note", l, {})
    BY <1>5, TryLockMoves
  <2>2. /\ pc'[c] = "note"
        /\ \A d \in Conns : d # c => pc'[d] = pc[d] /\ local'[d] = local[d]
    BY <2>1 DEF Moves
  <2>3. owner' = [owner EXCEPT ![k] = c] /\ owner[k] = NoConn
    BY <1>5 DEF TryLock
  <2>4. \A m \in Cells : m # k => owner'[m] = owner[m]
    BY <2>3 DEF Typed
  <2>5. \A d \in Conns : d # NoConn
    BY NameAssumption
  <2> QED  BY <2>2, <2>3, <2>4, <2>5, WriterCell DEF Locked
<1>6. ASSUME NEW c \in Conns, NEW k \in Cells, NEW v \in Values, UpdateRead(c, k, v) PROVE Locked'
  <2>1. UNCHANGED owner /\ owner[k] = c
    BY <1>6 DEF UpdateRead, locks
  <2>2. \/ Moves(c, "dead", NoLocal, {})
        \/ \E l : Moves(c, "write", l, {}) /\ l.entry.cell = k
    <3>1. \/ Moves(c, "dead", NoLocal, {})
          \/ \E l \in LocalType :
               /\ Moves(c, "write", l, {})
               /\ Solid(content[k]) < Width
               /\ l.entry = Entry("update", Me(c), k, OldValue(content[k]), Cut(v))
               /\ l.entry.type = "update" /\ l.entry.user = Me(c) /\ l.entry.cell = k
               /\ l.entry.old = OldValue(content[k]) /\ l.entry.new = Cut(v)
      BY <1>6, UpdateReadMoves
    <3> QED  BY <3>1
  <2> QED  BY <2>1, <2>2, LockedStay
<1>7. CASE Crash
  BY <1>7 DEF Crash, Locked
<1>8. CASE UNCHANGED vars
  BY <1>8 DEF vars, locks, Locked
<1> QED  BY <1>1, <1>2, <1>3, <1>4, <1>5, <1>6, <1>7, <1>8 DEF Next

\* Cell k has an editor, or one whose change the pages are still to be told of.
Editor(k) == \/ owner[k] # NoConn
             \/ \E c \in Conns : pc[c] = "spread" /\ local[c].entry.cell = k

\* A page shows the notice only in such a cell; a user who is in lockMap has
\* the lock.
Edited ==
  /\ \A c \in Conns : pc[c] = "note" => owner[local[c].entry.cell] = c
  /\ \A c \in Conns : pc[c] = "unlock" => lockMap[local[c].entry.cell] = Nobody
  /\ \A k \in Cells : lockMap[k] # Nobody => owner[k] # NoConn
  /\ \A c \in connMap, k \in Cells : view[c][k] = Notice => Editor(k)

LEMMA BlankIs == \A k \in Cells : EmptyDoc[k] \in CellType /\ EmptyDoc[k] # Notice
  BY EmptyType, ViewsType, NoticeIs

LEMMA EditedInit == Init => Edited
  BY BlankIs DEF Init, Edited

\* Steps that touch no lock and announce nothing.
LEMMA EditedStay ==
  ASSUME Typed, Edited, NEW c \in Conns, NEW s, NEW l, NEW x, Moves(c, s, l, x),
         UNCHANGED <<owner, lockMap>>, s \notin {"note", "unlock"}, pc[c] # "spread",
         \A d \in connMap', k \in Cells : view'[d][k] = Notice =>
           d \in connMap /\ view[d][k] = Notice
  PROVE  Edited'
<1>1. /\ pc'[c] = s /\ local'[c] = l
      /\ \A d \in Conns : d # c => pc'[d] = pc[d] /\ local'[d] = local[d]
  BY DEF Moves
<1>2. \A k \in Cells : Editor(k) => Editor(k)'
  BY <1>1 DEF Editor
<1>3. \A d \in Conns : pc'[d] = "note" => owner'[local'[d].entry.cell] = d
  BY <1>1 DEF Edited
<1>4. \A d \in Conns : pc'[d] = "unlock" => lockMap'[local'[d].entry.cell] = Nobody
  BY <1>1 DEF Edited
<1>5. \A d \in connMap', k \in Cells : view'[d][k] = Notice => Editor(k)'
  BY <1>2 DEF Edited
<1> QED  BY <1>3, <1>4, <1>5 DEF Edited

\* A handler that locks a cell or announces it has the cell.
LEMMA HolderCell ==
  ASSUME Typed, NEW c \in Conns, pc[c] = "note"
  PROVE  local[c].entry.cell \in Cells
  BY DEF Typed, Right

\* The cell is taken, and announced,
LEMMA EditedTry ==
  ASSUME Typed, Edited, NEW c \in Conns, NEW k \in Cells, TryLock(c, k)
  PROVE  Edited'
<1>1. PICK l : Moves(c, "note", l, {}) /\ l.entry.cell = k
  BY TryLockMoves
<1>2. /\ pc'[c] = "note" /\ local'[c] = l
      /\ \A d \in Conns : d # c => pc'[d] = pc[d] /\ local'[d] = local[d]
  BY <1>1 DEF Moves
<1>3. /\ owner[k] = NoConn /\ owner' = [owner EXCEPT ![k] = c] /\ pc[c] = "idle"
      /\ UNCHANGED <<lockMap, connMap, view>>
  BY DEF TryLock, Begin, pages
<1>4. owner'[k] = c /\ c # NoConn /\ \A m \in Cells : m # k => owner'[m] = owner[m]
  BY <1>3, NameAssumption DEF Typed
<1>5. \A m \in Cells : Editor(m) => Editor(m)'
  BY <1>2, <1>3, <1>4 DEF Editor
<1>6. \A d \in Conns : pc'[d] = "note" => owner'[local'[d].entry.cell] = d
  <2> SUFFICES ASSUME NEW d \in Conns, d # c, pc[d] = "note"
               PROVE  owner'[local[d].entry.cell] = d
    BY <1>1, <1>2, <1>4
  <2>1. local[d].entry.cell \in Cells /\ owner[local[d].entry.cell] = d /\ d # NoConn
    BY HolderCell, NameAssumption DEF Edited
  <2> QED  BY <1>3, <1>4, <2>1
<1>7. \A d \in Conns : pc'[d] = "unlock" => lockMap'[local'[d].entry.cell] = Nobody
  BY <1>2, <1>3 DEF Edited
<1>8. \A m \in Cells : lockMap'[m] # Nobody => owner'[m] # NoConn
  BY <1>3, <1>4 DEF Edited
<1>9. \A d \in connMap', m \in Cells : view'[d][m] = Notice => Editor(m)'
  BY <1>3, <1>5 DEF Edited
<1> QED  BY <1>6, <1>7, <1>8, <1>9 DEF Edited

LEMMA EditedNote ==
  ASSUME Typed, Locked, Edited, NEW c \in Conns, Note(c)
  PROVE  Edited'
<1> DEFINE k == local[c].entry.cell
<1>1. Moves(c, "idle", NoLocal, {})
  BY DoneIs DEF Note
<1>2. /\ pc'[c] = "idle" /\ pc[c] = "note" /\ UNCHANGED <<owner, connMap>>
      /\ \A d \in Conns : d # c => pc'[d] = pc[d] /\ local'[d] = local[d]
  BY <1>1 DEF Moves, Note
<1>3. k \in Cells /\ owner[k] = c /\ c # NoConn
  BY <1>2, HolderCell, NameAssumption DEF Edited
<1>4. /\ lockMap' = [lockMap EXCEPT ![k] = Me(c)]
      /\ view' = [d \in Conns |-> IF d \in connMap /\ Me(d) # Me(c)
                                  THEN [view[d] EXCEPT ![k] = Notice] ELSE view[d]]
  BY DEF Note
<1> HIDE DEF k
<1>5. \A m \in Cells : m # k => lockMap'[m] = lockMap[m]
  BY <1>4 DEF Typed
<1>6. \A m \in Cells : Editor(m) => Editor(m)'
  BY <1>2 DEF Editor
<1>7. \A d \in Conns : pc'[d] = "note" => owner'[local'[d].entry.cell] = d
  BY <1>2 DEF Edited
<1>8. \A d \in Conns : pc'[d] = "unlock" => lockMap'[local'[d].entry.cell] = Nobody
  <2> SUFFICES ASSUME NEW d \in Conns, d # c, pc[d] = "unlock"
               PROVE  lockMap'[local[d].entry.cell] = Nobody
    BY <1>2
  <2>1. local[d].entry.cell \in Cells /\ owner[local[d].entry.cell] = d
    BY WriterCell DEF Locked
  <2>2. lockMap[local[d].entry.cell] = Nobody
    BY DEF Edited
  <2> QED  BY <1>3, <1>5, <2>1, <2>2
<1>9. \A m \in Cells : lockMap'[m] # Nobody => owner'[m] # NoConn
  BY <1>2, <1>3, <1>5 DEF Edited
<1>10. ASSUME NEW d \in connMap', NEW m \in Cells, view'[d][m] = Notice
       PROVE  Editor(m)'
  <2>1. CASE m = k
    BY <1>2, <1>3, <2>1 DEF Editor
  <2>2. CASE m # k
    <3>1. d \in connMap /\ d \in Conns /\ view[d] \in Views
      BY <1>2 DEF Typed
    <3>2. view'[d] = view[d] \/ view'[d] = [view[d] EXCEPT ![k] = Notice]
      BY <1>4, <3>1
    <3>3. view'[d][m] = view[d][m]
      BY <2>2, <3>1, <3>2 DEF Views
    <3> QED  BY <1>6, <1>10, <3>1, <3>3 DEF Edited
  <2> QED  BY <2>1, <2>2
<1> QED  BY <1>7, <1>8, <1>9, <1>10 DEF Edited

\* shown to a page that opens the document,
LEMMA EditedInfo ==
  ASSUME Typed, Edited, NEW c \in Conns, OpenInfo(c)
  PROVE  Edited'
<1>1. Moves(c, "idle", NoLocal, {})
  BY DoneIs DEF OpenInfo
<1>2. /\ pc'[c] = "idle" /\ pc[c] = "info" /\ UNCHANGED <<owner, lockMap, connMap>>
      /\ \A d \in Conns : d # c => pc'[d] = pc[d] /\ local'[d] = local[d]
  BY <1>1 DEF Moves, OpenInfo, locks
<1>3. view' = [view EXCEPT ![c] = [k \in Cells |-> IF lockMap[k] \in {Nobody, Me(c)}
                                                  THEN view[c][k] ELSE Notice]]
  BY DEF OpenInfo
<1>4. \A m \in Cells : Editor(m) => Editor(m)'
  BY <1>2 DEF Editor
<1>5. \A d \in Conns : pc'[d] = "note" => owner'[local'[d].entry.cell] = d
  BY <1>2 DEF Edited
<1>6. \A d \in Conns : pc'[d] = "unlock" => lockMap'[local'[d].entry.cell] = Nobody
  BY <1>2 DEF Edited
<1>7. ASSUME NEW d \in connMap', NEW m \in Cells, view'[d][m] = Notice
      PROVE  Editor(m)'
  <2>1. d \in connMap /\ d \in Conns /\ view \in [Conns -> Views]
    BY <1>2 DEF Typed
  <2>2. view'[d][m] = view[d][m] \/ lockMap[m] # Nobody
    BY <1>3, <2>1
  <2>3. Editor(m)
    BY <1>7, <2>1, <2>2 DEF Edited, Editor
  <2> QED  BY <1>4, <2>3
<1> QED  BY <1>2, <1>5, <1>6, <1>7 DEF Edited

\* left,
LEMMA EditedWrite ==
  ASSUME Typed, Recorded, Locked, Edited, NEW c \in Conns, UpdateWrite(c)
  PROVE  Edited'
<1> DEFINE k == local[c].entry.cell
<1>1. PICK l : Moves(c, "unlock", l, {}) /\ l.entry = local[c].entry
  BY UpdateWriteIs
<1>2. /\ pc'[c] = "unlock" /\ local'[c] = l
      /\ \A d \in Conns : d # c => pc'[d] = pc[d] /\ local'[d] = local[d]
      /\ pc[c] = "write" /\ UNCHANGED <<owner, connMap, view>>
      /\ lockMap' = [lockMap EXCEPT ![k] = Nobody]
  BY <1>1 DEF Moves, UpdateWrite, pages
<1>3. k \in Cells
  BY <1>2, WriterCell
<1>4. l.entry.cell = k
  BY <1>1
<1> HIDE DEF k
<1>5. lockMap'[k] = Nobody /\ \A m \in Cells : m # k => lockMap'[m] = lockMap[m]
  BY <1>2, <1>3 DEF Typed
<1>6. \A m \in Cells : Editor(m) => Editor(m)'
  BY <1>2 DEF Editor
<1>7. \A d \in Conns : pc'[d] = "note" => owner'[local'[d].entry.cell] = d
  BY <1>2 DEF Edited
<1>8. \A d \in Conns : pc'[d] = "unlock" => lockMap'[local'[d].entry.cell] = Nobody
  <2>1. \A d \in Conns : d # c /\ pc[d] = "unlock" =>
          local[d].entry.cell \in Cells /\ lockMap[local[d].entry.cell] = Nobody
    BY WriterCell DEF Edited
  <2> QED  BY <1>2, <1>4, <1>5, <2>1
<1>9. \A m \in Cells : lockMap'[m] # Nobody => owner'[m] # NoConn
  BY <1>2, <1>5 DEF Edited
<1>10. \A d \in connMap', m \in Cells : view'[d][m] = Notice => Editor(m)'
  BY <1>2, <1>6 DEF Edited
<1> QED  BY <1>7, <1>8, <1>9, <1>10 DEF Edited

LEMMA EditedUnlock ==
  ASSUME Typed, Locked, Edited, NEW c \in Conns, Unlock(c)
  PROVE  Edited'
<1> DEFINE k == local[c].entry.cell
<1>1. Moves(c, "spread", local[c], {})
  BY UnlockMoves
<1>2. /\ pc'[c] = "spread" /\ local'[c] = local[c] /\ pc[c] = "unlock"
      /\ \A d \in Conns : d # c => pc'[d] = pc[d] /\ local'[d] = local[d]
      /\ UNCHANGED <<lockMap, connMap, view>>
      /\ owner' = [owner EXCEPT ![k] = NoConn]
  BY <1>1 DEF Moves, Unlock, pages
<1>3. k \in Cells /\ owner[k] = c /\ lockMap[k] = Nobody
  BY <1>2, WriterCell DEF Locked, Edited
<1>4. local'[c].entry.cell = k
  BY <1>2
<1> HIDE DEF k
<1>5. \A m \in Cells : m # k => owner'[m] = owner[m]
  BY <1>2 DEF Typed
<1>6. \A m \in Cells : Editor(m) => Editor(m)'
  <2> SUFFICES ASSUME NEW m \in Cells, Editor(m) PROVE Editor(m)'
    OBVIOUS
  <2>1. CASE m = k
    BY <1>2, <1>4, <2>1 DEF Editor
  <2>2. CASE m # k
    BY <1>2, <1>5, <2>2 DEF Editor
  <2> QED  BY <2>1, <2>2
<1>7. \A d \in Conns : pc'[d] = "note" => owner'[local'[d].entry.cell] = d
  <2> SUFFICES ASSUME NEW d \in Conns, d # c, pc[d] = "note"
               PROVE  owner'[local[d].entry.cell] = d
    BY <1>2
  <2>1. local[d].entry.cell \in Cells /\ owner[local[d].entry.cell] = d
    BY HolderCell DEF Edited
  <2> QED  BY <1>3, <1>5, <2>1
<1>8. \A d \in Conns : pc'[d] = "unlock" => lockMap'[local'[d].entry.cell] = Nobody
  BY <1>2 DEF Edited
<1>9. \A m \in Cells : lockMap'[m] # Nobody => owner'[m] # NoConn
  BY <1>2, <1>3, <1>5 DEF Edited
<1>10. \A d \in connMap', m \in Cells : view'[d][m] = Notice => Editor(m)'
  BY <1>2, <1>6 DEF Edited
<1> QED  BY <1>7, <1>8, <1>9, <1>10 DEF Edited

\* and shown with its value again.
LEMMA EditedSpread ==
  ASSUME Typed, Edited, NEW c \in Conns, Spread(c)
  PROVE  Edited'
<1> DEFINE k == local[c].entry.cell
           t == Look(Told(local[c]))
<1>1. PICK x : Moves(c, "loglen", local[c], x) /\ local[c].entry \in Changing
  BY SpreadMoves
<1>2. /\ pc'[c] = "loglen" /\ local'[c] = local[c]
      /\ \A d \in Conns : d # c => pc'[d] = pc[d] /\ local'[d] = local[d]
      /\ UNCHANGED <<owner, lockMap, connMap>>
      /\ view' = [d \in Conns |-> IF d \in connMap THEN [view[d] EXCEPT ![k] = t] ELSE view[d]]
  BY <1>1 DEF Moves, Spread, locks
<1>3. t # Notice /\ k \in Cells
  BY <1>1, EntryValues, LookCut, NoticeIs DEF Changing, Fitting
<1>4. \A d \in Conns : d # c => local'[d] = local[d] /\ (pc'[d] = "spread" <=> pc[d] = "spread")
  BY <1>2
<1>5. \A m \in Cells : m # k /\ Editor(m) => Editor(m)'
  BY <1>2 DEF Editor
<1> HIDE DEF k, t
<1>6. \A d \in Conns : pc'[d] = "note" => owner'[local'[d].entry.cell] = d
  BY <1>2 DEF Edited
<1>7. \A d \in Conns : pc'[d] = "unlock" => lockMap'[local'[d].entry.cell] = Nobody
  BY <1>2 DEF Edited
<1>8. ASSUME NEW d \in connMap', NEW m \in Cells, view'[d][m] = Notice
      PROVE  Editor(m)'
  <2>1. d \in connMap /\ d \in Conns /\ view[d] \in Views
    BY <1>2 DEF Typed
  <2>2. view'[d] = [view[d] EXCEPT ![k] = t]
    BY <1>2, <2>1
  <2>3. m # k /\ view[d][m] = Notice
    BY <1>3, <1>8, <2>1, <2>2 DEF Views
  <2> QED  BY <1>5, <2>1, <2>3 DEF Edited
<1> QED  BY <1>2, <1>6, <1>7, <1>8 DEF Edited

LEMMA EditedStep == Typed /\ Recorded /\ Locked /\ Edited /\ [Next]_vars => Edited'
<1> SUFFICES ASSUME Typed, Recorded, Locked, Edited, [Next]_vars PROVE Edited'
  OBVIOUS
<1>1. ASSUME NEW c \in Conns, Open(c) PROVE Edited'
  <2>1. PICK l : Moves(c, "send", l, {})
    BY <1>1, OpenMoves
  <2>2. /\ connMap' = connMap \cup {c} /\ pc[c] = "idle" /\ UNCHANGED <<owner, lockMap>>
        /\ view' = [view EXCEPT ![c] = EmptyDoc] /\ view \in [Conns -> Views]
        /\ connMap \subseteq Conns
    BY <1>1 DEF Open, Begin, locks, Typed
  <2>3. \A d \in connMap', k \in Cells : view'[d][k] = Notice =>
          d \in connMap /\ view[d][k] = Notice
    BY <2>2, BlankIs
  <2> QED  BY <2>1, <2>2, <2>3, EditedStay
<1>2. ASSUME NEW c \in Conns, OpenSend(c) PROVE Edited'
  <2>1. PICK l, x : Moves(c, "loglen", l, x)
    BY <1>2, OpenSendMoves
  <2>2. /\ UNCHANGED <<owner, lockMap, connMap>> /\ pc[c] = "send"
        /\ view' = [view EXCEPT ![c] = local[c].snap] /\ view \in [Conns -> Views]
        /\ connMap \subseteq Conns
    BY <1>2 DEF OpenSend, locks, Typed
  <2>3. \A k \in Cells : local[c].snap[k] # Notice
    <3>1. \A k \in Cells : local[c].snap[k] \in CellType
      BY DEF Typed, LocalType
    <3> QED  BY <3>1, ViewsType, NoticeIs
  <2>4. \A d \in connMap', k \in Cells : view'[d][k] = Notice =>
          d \in connMap /\ view[d][k] = Notice
    BY <2>2, <2>3
  <2> QED  BY <2>1, <2>2, <2>4, EditedStay
<1>3. ASSUME NEW c \in Conns,
             LogLen(c) \/ LogHead(c) \/ LogSlot(c) \/ RollLen(c) \/ RollLog(c) \/ RollWrite(c)
      PROVE  Edited'
  <2>1. \E s, l, x : Moves(c, s, l, x) /\ s \notin {"note", "unlock"}
    <3>1. CASE LogLen(c)
      BY <3>1, LogLenMoves
    <3>2. CASE LogHead(c)
      BY <3>2, LogHeadMoves
    <3>3. CASE LogSlot(c)
      BY <3>3, LogSlotMoves
    <3>4. CASE RollLen(c)
      BY <3>4, RollLenMoves
    <3>5. CASE RollLog(c)
      <4>1. \/ Moves(c, "idle", NoLocal, {})
            \/ \E l : Moves(c, "rollwrite", l, {})
        BY <3>5, RollLogMoves, Zenon
      <4> QED  BY <4>1
    <3>6. CASE RollWrite(c)
      BY <3>6, RollWriteIs
    <3> QED  BY <1>3, <3>1, <3>2, <3>3, <3>4, <3>5, <3>6
  <2>2. UNCHANGED <<owner, lockMap, connMap, view>> /\ pc[c] # "spread"
    BY <1>3 DEF LogLen, LogHead, LogSlot, RollLen, RollLog, RollWrite, Begin, locks, pages
  <2> QED  BY <2>1, <2>2, EditedStay
<1>4. ASSUME NEW c \in Conns, NEW k \in Cells, NEW v \in Values, UpdateRead(c, k, v) PROVE Edited'
  <2>1. PICK s, l : Moves(c, s, l, {}) /\ s \in {"dead", "write"}
    <3>1. \/ Moves(c, "dead", NoLocal, {})
          \/ \E l : Moves(c, "write", l, {})
      BY <1>4, UpdateReadMoves, Zenon
    <3> QED  BY <3>1
  <2>2. UNCHANGED <<owner, lockMap, connMap, view>> /\ pc[c] = "idle"
    BY <1>4 DEF UpdateRead, locks, pages
  <2> QED  BY <2>1, <2>2, EditedStay
<1>5. CASE Crash
  <2>1. /\ connMap' = {} /\ \A c \in Conns : pc'[c] = "idle"
        /\ \A k \in Cells : lockMap'[k] = Nobody
    BY <1>5 DEF Crash
  <2> QED  BY <2>1 DEF Edited
<1>6. CASE UNCHANGED vars
  <2>1. UNCHANGED <<owner, lockMap, connMap, view, pc, local>>
    BY <1>6 DEF vars, locks, pages
  <2> QED  BY <2>1 DEF Edited, Editor
<1> QED
  BY <1>1, <1>2, <1>3, <1>4, <1>5, <1>6, EditedTry, EditedNote, EditedInfo, EditedWrite,
     EditedUnlock, EditedSpread DEF Next

-----------------------------------------------------------------------------
(* The pages show the document                                             *)

\* The change j left a part of the value before it.
Leaves(j) == \E i \in DOMAIN j.before :
               /\ j.before[i] # Blank
               /\ i > Len(j.entry.new)
               /\ j.entry.type = "rollback" => i > Len(j.entry.old)

LEMMA ShortenedIs ==
  ASSUME Typed, NEW k
  PROVE  Shortened(k) <=> \E i \in 1..Len(journal) : LastOf(i, k) /\ Leaves(journal[i])
<1>1. DOMAIN journal = 1..Len(journal)
  BY DEF Typed
<1> QED  BY <1>1 DEF Shortened, LastOf, Leaves

LEMMA CellEqual ==
  ASSUME NEW s \in CellType, NEW t \in CellType, \A i \in 1..Width : s[i] = t[i]
  PROVE  s = t
<1>1. s = [i \in 1..Width |-> s[i]] /\ t = [i \in 1..Width |-> t[i]]
  BY DEF CellType
<1> QED  BY <1>1

\* If nothing is left, the pages are told what is in the cell.
LEMMA ToldIsWritten ==
  ASSUME NEW j \in ChangeType, ~Leaves(j), NEW l \in LocalType, l.entry = j.entry,
         l.entry.type = "update" => l.entry.new = Cut(l.sent)
  PROVE  Put(j.before, Written(j.entry)) = Cut(Look(Told(l)))
<1> DEFINE old == j.entry.old
           new == j.entry.new
           b   == j.before
<1>1. j.entry \in Changing /\ b \in CellType
  BY DEF ChangeType
<1>2. old \in Short /\ new \in Short
  BY <1>1 DEF Changing, Fitting
<1>3. /\ DOMAIN b = 1..Width /\ Width \in Nat
      /\ Len(old) \in Nat /\ Len(new) \in Nat
  BY <1>1, <1>2, BoundAssumption DEF CellType, Short
<1>4. \A i \in 1..Width : EmptyCell[i] = Blank
  BY DEF EmptyCell
<1>5. /\ EmptyCell \in CellType /\ Pad(old, new) \in Short
      /\ Len(Pad(old, new)) = IF Len(old) < Len(new) THEN Len(new) ELSE Len(old)
      /\ \A i \in 1..Len(Pad(old, new)) :
           Pad(old, new)[i] = IF i <= Len(old) THEN old[i] ELSE Blank
  BY <1>2, EmptyType, PadType
<1>6. CASE j.entry.type = "rollback"
  <2>1. Written(j.entry) = Pad(old, new) /\ Told(l) = old
    BY <1>6 DEF Written, Told
  <2>2. \A i \in 1..Width : i > Len(new) /\ i > Len(old) => b[i] = Blank
    BY <1>3, <1>6 DEF Leaves
  <2> HIDE DEF old, new, b
  <2>3. /\ Put(b, Pad(old, new)) \in CellType /\ Put(EmptyCell, old) \in CellType
        /\ \A i \in 1..Width : Put(b, Pad(old, new))[i]
                               = IF i <= Len(Pad(old, new)) THEN Pad(old, new)[i] ELSE b[i]
        /\ \A i \in 1..Width : Put(EmptyCell, old)[i]
                               = IF i <= Len(old) THEN old[i] ELSE EmptyCell[i]
    BY <1>1, <1>2, <1>5, PutType
  <2>4. \A i \in 1..Width : Put(b, Pad(old, new))[i] = Put(EmptyCell, old)[i]
    BY <1>3, <1>4, <1>5, <2>2, <2>3
  <2>5. Put(b, Pad(old, new)) = Put(EmptyCell, old)
    BY <2>3, <2>4, CellEqual
  <2>6. Cut(Look(old)) = Look(old)
    BY <1>2, LookType, CutNot
  <2> QED  BY <2>1, <2>5, <2>6 DEF Look, b
<1>7. CASE j.entry.type # "rollback"
  <2>1. Written(j.entry) = new /\ Told(l) = l.sent /\ new = Cut(l.sent)
    BY <1>1, <1>7 DEF Written, Told, Changing, Kinds
  <2>2. \A i \in 1..Width : i > Len(new) => b[i] = Blank
    BY <1>3, <1>7 DEF Leaves
  <2> HIDE DEF old, new, b
  <2>3. /\ Put(b, new) \in CellType /\ Put(EmptyCell, new) \in CellType
        /\ \A i \in 1..Width : Put(b, new)[i] = IF i <= Len(new) THEN new[i] ELSE b[i]
        /\ \A i \in 1..Width : Put(EmptyCell, new)[i]
                               = IF i <= Len(new) THEN new[i] ELSE EmptyCell[i]
    BY <1>1, <1>2, <1>5, PutType
  <2>4. \A i \in 1..Width : Put(b, new)[i] = Put(EmptyCell, new)[i]
    BY <1>3, <1>4, <2>2, <2>3
  <2>5. Put(b, new) = Put(EmptyCell, new)
    BY <2>3, <2>4, CellEqual
  <2>6. Cut(Look(l.sent)) = Look(Cut(l.sent))
    BY LookCut DEF LocalType
  <2> QED  BY <2>1, <2>5, <2>6 DEF Look, b
<1> QED  BY <1>6, <1>7

\* A change of cell k that the pages are still to be told of.
Pending(k) == \E c \in Conns : pc[c] \in {"unlock", "spread"} /\ local[c].entry.cell = k

\* Page c shows in cell k what the file has, or the notice.
Same(c, k) == view[c][k] = Notice \/ Cut(view[c][k]) = content[k]

\* A page that has been sent the document shows it, but for such changes.
Shown ==
  "late" \notin upsets =>
    \A c \in connMap, k \in Cells :
      pc[c] # "send" /\ ~Shortened(k) /\ ~Pending(k) => Same(c, k)

LEMMA ShownInit == Init => Shown
<1> SUFFICES ASSUME Init, NEW c \in connMap, NEW k \in Cells PROVE Same(c, k)
  BY DEF Shown
<1>1. view[c][k] = EmptyDoc[k] /\ content[k] = EmptyDoc[k]
  BY DEF Init
<1> QED  BY <1>1, BlankIs, CutNot DEF Same

\* Steps that tell the pages no more than who edits, and change no cell.
LEMMA ShownStay ==
  ASSUME Typed, Shown, NEW c \in Conns, NEW s, NEW l, NEW x, Moves(c, s, l, x),
         UNCHANGED <<content, journal, connMap>>,
         \A d \in connMap, k \in Cells : view'[d][k] = view[d][k] \/ view'[d][k] = Notice,
         pc[c] # "send",
         pc[c] \in {"unlock", "spread"} =>
           s \in {"unlock", "spread"} /\ l.entry.cell = local[c].entry.cell
  PROVE  Shown'
<1> SUFFICES ASSUME "late" \notin upsets', NEW d \in connMap', NEW k \in Cells,
                    pc'[d] # "send", ~Shortened(k)', ~Pending(k)'
             PROVE  Same(d, k)'
  BY DEF Shown
<1>1. /\ pc'[c] = s /\ local'[c] = l /\ upsets \subseteq upsets'
      /\ \A b \in Conns : b # c => pc'[b] = pc[b] /\ local'[b] = local[b]
  BY DEF Moves
<1>2. d \in connMap /\ d \in Conns /\ pc[d] # "send"
  BY <1>1 DEF Typed
<1>3. ~Shortened(k)
  BY DEF Shortened
<1>4. ~Pending(k)
  BY <1>1 DEF Pending
<1>5. Same(d, k)
  BY <1>1, <1>2, <1>3, <1>4 DEF Shown
<1> QED  BY <1>2, <1>5 DEF Same

\* A change: the pages are still to be told.
LEMMA ShownChange ==
  ASSUME Typed, Shown, NEW c \in Conns, NEW s \in {"unlock", "spread"}, NEW l,
         Moves(c, s, l, {}), l.entry = local[c].entry,
         pc[c] \in {"write", "rollwrite"},
         NEW j \in ChangeType, journal' = Append(journal, j), j.entry = local[c].entry,
         content' = [content EXCEPT ![j.entry.cell] = j.after],
         UNCHANGED <<connMap, view>>
  PROVE  Shown'
<1> SUFFICES ASSUME "late" \notin upsets', NEW d \in connMap', NEW k \in Cells,
                    pc'[d] # "send", ~Shortened(k)', ~Pending(k)'
             PROVE  Same(d, k)'
  BY DEF Shown
<1>1. /\ pc'[c] = s /\ local'[c] = l /\ upsets \subseteq upsets'
      /\ \A b \in Conns : b # c => pc'[b] = pc[b] /\ local'[b] = local[b]
  BY DEF Moves
<1>2. d \in connMap /\ d \in Conns /\ pc[d] # "send"
  BY <1>1 DEF Typed
<1>3. k # j.entry.cell
  BY <1>1 DEF Pending
<1>4. ~Shortened(k)
  <2> SUFFICES ASSUME NEW i \in 1..Len(journal), LastOf(i, k), Leaves(journal[i]) PROVE FALSE
    BY ShortenedIs
  <2>1. LastOf(i, k)' /\ journal'[i] = journal[i] /\ i \in 1..Len(journal')
    BY <1>3, JournalGrows
  <2>2. Leaves(journal'[i])
    BY <2>1
  <2>3. DOMAIN journal' = 1..Len(journal')
    BY DEF Typed
  <2>4. Shortened(k)'
    BY <2>1, <2>2, <2>3 DEF Shortened, LastOf, Leaves
  <2> QED  BY <2>4
<1>5. ~Pending(k)
  BY <1>1 DEF Pending
<1>6. Same(d, k)
  BY <1>1, <1>2, <1>4, <1>5 DEF Shown
<1> QED  BY <1>3, <1>6 DEF Typed, Same

LEMMA ShownStep == Typed /\ Recorded /\ Shown /\ [Next]_vars => Shown'
<1> SUFFICES ASSUME Typed, Recorded, Shown, [Next]_vars PROVE Shown'
  OBVIOUS
<1>1. ASSUME NEW c \in Conns, Open(c) PROVE Shown'
  <2>1. PICK l : Moves(c, "send", l, {})
    BY <1>1, OpenMoves
  <2>2. /\ c \notin connMap /\ connMap' = connMap \cup {c} /\ pc[c] = "idle"
        /\ view' = [view EXCEPT ![c] = EmptyDoc] /\ UNCHANGED <<content, journal>>
    BY <1>1 DEF Open, Begin
  <2> SUFFICES ASSUME "late" \notin upsets', NEW d \in connMap', NEW k \in Cells,
                      pc'[d] # "send", ~Shortened(k)', ~Pending(k)'
               PROVE  Same(d, k)'
    BY DEF Shown
  <2>3. /\ pc'[c] = "send" /\ upsets \subseteq upsets'
        /\ \A b \in Conns : b # c => pc'[b] = pc[b] /\ local'[b] = local[b]
    BY <2>1 DEF Moves
  <2>4. d # c /\ d \in connMap /\ d \in Conns /\ view'[d] = view[d] /\ pc[d] # "send"
    BY <2>2, <2>3 DEF Typed
  <2>5. ~Shortened(k)
    BY <2>2 DEF Shortened
  <2>6. ~Pending(k)
    BY <2>2, <2>3 DEF Pending
  <2>7. Same(d, k)
    BY <2>3, <2>4, <2>5, <2>6 DEF Shown
  <2> QED  BY <2>2, <2>4, <2>7 DEF Same
<1>2. ASSUME NEW c \in Conns, OpenSend(c) PROVE Shown'
  <2>1. PICK l \in LocalType : /\ Moves(c, "loglen", l, IF local[c].mark # Len(journal)
                                                        THEN {"late"} ELSE {})
    BY <1>2, OpenSendMoves
  <2>2. /\ pc[c] = "send" /\ view' = [view EXCEPT ![c] = local[c].snap]
        /\ UNCHANGED <<content, journal, connMap>>
    BY <1>2 DEF OpenSend
  <2> SUFFICES ASSUME "late" \notin upsets', NEW d \in connMap', NEW k \in Cells,
                      pc'[d] # "send", ~Shortened(k)', ~Pending(k)'
               PROVE  Same(d, k)'
    BY DEF Shown
  <2>3. /\ pc'[c] = "loglen" /\ upsets \subseteq upsets' /\ local[c].mark = Len(journal)
        /\ \A b \in Conns : b # c => pc'[b] = pc[b] /\ local'[b] = local[b]
    BY <2>1 DEF Moves
  <2>4. d \in connMap /\ d \in Conns
    BY <2>2 DEF Typed
  <2>5. CASE d = c
    <3>1. local[c].snap = content
      BY <2>2, <2>3 DEF Recorded, Snapped
    <3>2. view'[d][k] = content'[k] /\ content'[k] \in CellType
      BY <2>2, <2>4, <2>5, <3>1 DEF Typed
    <3> QED  BY <3>2, CutNot DEF Same
  <2>6. CASE d # c
    <3>1. ~Shortened(k)
      BY <2>2 DEF Shortened
    <3>2. ~Pending(k)
      BY <2>2, <2>3 DEF Pending
    <3>3. Same(d, k)
      BY <2>3, <2>4, <2>6, <3>1, <3>2 DEF Shown
    <3> QED  BY <2>2, <2>4, <2>6, <3>3 DEF Typed, Same
  <2> QED  BY <2>5, <2>6
<1>3. ASSUME NEW c \in Conns, Note(c) PROVE Shown'
  <2>1. Moves(c, "idle", NoLocal, {})
    BY <1>3, DoneIs DEF Note
  <2> QED  BY <1>3, <2>1, NoteView, ShownStay DEF Note, Typed
<1>4. ASSUME NEW c \in Conns, UpdateWrite(c) PROVE Shown'
  <2>1. PICK l \in LocalType : Moves(c, "unlock", l, {}) /\ l.entry = local[c].entry
    BY <1>4, UpdateWriteIs
  <2>2. PICK j \in ChangeType : /\ journal' = Append(journal, j) /\ j.entry = local[c].entry
                                /\ content' = [content EXCEPT ![j.entry.cell] = j.after]
    BY <1>4, UpdateWriteIs
  <2>3. pc[c] = "write" /\ UNCHANGED <<connMap, view>>
    BY <1>4 DEF UpdateWrite, pages
  <2> QED  BY <2>1, <2>2, <2>3, ShownChange
<1>5. ASSUME NEW c \in Conns, Unlock(c) PROVE Shown'
  <2>1. Moves(c, "spread", local[c], {})
    BY <1>5, UnlockMoves
  <2> QED  BY <1>5, <2>1, ShownStay DEF Unlock, pages
<1>6. ASSUME NEW c \in Conns, Spread(c) PROVE Shown'
  <2> DEFINE e == local[c].entry
  <2>1. /\ Moves(c, "loglen", local[c], IF Later(c) THEN {"late"} ELSE {})
        /\ e \in Changing
    BY <1>6, SpreadMoves
  <2>2. /\ pc[c] = "spread" /\ UNCHANGED <<content, journal, connMap>>
        /\ view' = [d \in Conns |-> IF d \in connMap
                                    THEN [view[d] EXCEPT ![e.cell] = Look(Told(local[c]))]
                                    ELSE view[d]]
    BY <1>6 DEF Spread
  <2> SUFFICES ASSUME "late" \notin upsets', NEW d \in connMap', NEW k \in Cells,
                      pc'[d] # "send", ~Shortened(k)', ~Pending(k)'
               PROVE  Same(d, k)'
    BY DEF Shown
  <2>3. /\ pc'[c] = "loglen" /\ upsets \subseteq upsets' /\ ~Later(c)
        /\ \A b \in Conns : b # c => pc'[b] = pc[b] /\ local'[b] = local[b]
    BY <2>1 DEF Moves
  <2>4. d \in connMap /\ d \in Conns /\ view[d] \in Views
    BY <2>2 DEF Typed
  <2>5. ~Shortened(k)
    BY <2>2 DEF Shortened
  <2>6. view'[d] = [view[d] EXCEPT ![e.cell] = Look(Told(local[c]))]
    BY <2>2, <2>4
  <2>7. CASE k = e.cell
    <3> DEFINE m == local[c].mark
    <3>1. m \in 1..Len(journal) /\ journal[m].entry = e
      BY <2>1, <2>2 DEF Recorded, Marked, Unlogged, Changing
    <3>2. LastOf(m, k)
      <4>1. DOMAIN journal = 1..Len(journal) /\ Len(journal) \in Nat
        BY DEF Typed
      <4> QED  BY <2>3, <2>7, <3>1, <4>1 DEF LastOf, Later
    <3>3. /\ content[k] = journal[m].after
          /\ journal[m].after = Put(journal[m].before, Written(journal[m].entry))
      BY <3>1, <3>2 DEF Recorded
    <3>4. ~Leaves(journal[m]) /\ journal[m] \in ChangeType
      BY <2>5, <3>1, <3>2, ShortenedIs DEF Typed
    <3>5. local[c] \in LocalType /\ (e.type = "update" => e.new = Cut(local[c].sent))
      BY <2>2 DEF Typed, Right
    <3>6. content[k] = Cut(Look(Told(local[c])))
      BY <3>1, <3>3, <3>4, <3>5, ToldIsWritten
    <3>7. view'[d][k] = Look(Told(local[c]))
      BY <2>4, <2>6, <2>7 DEF Views
    <3> QED  BY <2>2, <3>6, <3>7 DEF Same
  <2>8. CASE k # e.cell
    <3>1. ~Pending(k)
      BY <2>3, <2>8 DEF Pending
    <3>2. pc[d] # "send"
      BY <2>2, <2>3, <2>4
    <3>3. Same(d, k)
      BY <2>3, <2>4, <2>5, <3>1, <3>2 DEF Shown
    <3>4. view'[d][k] = view[d][k]
      BY <2>4, <2>6, <2>8 DEF Views
    <3> QED  BY <2>2, <3>3, <3>4 DEF Same
  <2> QED  BY <2>7, <2>8
<1>7. ASSUME NEW c \in Conns, LogLen(c) PROVE Shown'
  <2>1. PICK l, x : Moves(c, "loghead", l, x)
    BY <1>7, LogLenMoves
  <2> QED  BY <1>7, <2>1, ShownStay DEF LogLen, pages
<1>8. ASSUME NEW c \in Conns, LogHead(c) PROVE Shown'
  <2>1. Moves(c, "logslot", local[c], {})
    BY <1>8, LogHeadMoves
  <2> QED  BY <1>8, <2>1, ShownStay DEF LogHead, pages
<1>9. ASSUME NEW c \in Conns, LogSlot(c) PROVE Shown'
  <2>1. PICK s : Moves(c, s, NoLocal, {})
    BY <1>9, LogSlotMoves
  <2> QED  BY <1>9, <2>1, ShownStay DEF LogSlot, pages
<1>10. ASSUME NEW c \in Conns, RollLen(c) PROVE Shown'
  <2>1. PICK l : Moves(c, "rolllog", l, {})
    BY <1>10, RollLenMoves
  <2> QED  BY <1>10, <2>1, ShownStay DEF RollLen, Begin, pages
<1>11. ASSUME NEW c \in Conns, RollLog(c) PROVE Shown'
  <2>1. PICK s, l : Moves(c, s, l, {})
    BY <1>11, RollLogMoves, Zenon
  <2> QED  BY <1>11, <2>1, ShownStay DEF RollLog, pages
<1>12. ASSUME NEW c \in Conns, RollWrite(c) PROVE Shown'
  <2>1. PICK l \in LocalType : Moves(c, "spread", l, {}) /\ l.entry = local[c].entry
    BY <1>12, RollWriteIs
  <2>2. PICK j \in ChangeType : /\ journal' = Append(journal, j) /\ j.entry = local[c].entry
                                /\ content' = [content EXCEPT ![j.entry.cell] = j.after]
    BY <1>12, RollWriteIs
  <2>3. pc[c] = "rollwrite" /\ UNCHANGED <<connMap, view>>
    BY <1>12 DEF RollWrite, pages
  <2> QED  BY <2>1, <2>2, <2>3, ShownChange
<1>13. ASSUME NEW c \in Conns, NEW k \in Cells, TryLock(c, k) PROVE Shown'
  <2>1. PICK l : Moves(c, "note", l, {})
    BY <1>13, TryLockMoves
  <2> QED  BY <1>13, <2>1, ShownStay DEF TryLock, Begin, pages
<1>14. ASSUME NEW c \in Conns, NEW k \in Cells, NEW v \in Values, UpdateRead(c, k, v)
       PROVE  Shown'
  <2>1. PICK s, l : Moves(c, s, l, {})
    BY <1>14, UpdateReadMoves, Zenon
  <2> QED  BY <1>14, <2>1, ShownStay DEF UpdateRead, pages
<1>15. CASE Crash
  BY <1>15 DEF Crash, Shown
<1>16. CASE UNCHANGED vars
  <2>1. UNCHANGED <<content, journal, pc, local, connMap, view, upsets>>
    BY <1>16 DEF vars, pages
  <2> QED  BY <2>1 DEF Shown, Shortened, Pending, Same
<1>17. ASSUME NEW c \in Conns, OpenInfo(c) PROVE Shown'
  <2>1. Moves(c, "idle", NoLocal, {})
    BY <1>17, DoneIs DEF OpenInfo
  <2> QED  BY <1>17, <2>1, NoteView, ShownStay DEF OpenInfo, Typed
<1> QED
  BY <1>1, <1>2, <1>3, <1>4, <1>5, <1>6, <1>7, <1>8, <1>9, <1>10, <1>11, <1>12, <1>13,
     <1>14, <1>15, <1>16, <1>17 DEF Next

\* Between requests a page shows what is in the file, and the end of a value
\* that was cut when it was written, or it shows that the cell is edited while
\* somebody has its lock (handleUpdate, handleRollBack, handleEdit, handleOpen).
\* So it is whatever updates, rollbacks, openings and crashes there were, but
\* for cells where a shorter value was written over a longer one, and after a
\* page was told of a change, or sent the document, behind a later change.
THEOREM PagesAgreeHolds == Spec => []PagesAgree
<1>1. Typed /\ Shown /\ Edited => PagesAgree
  <2> SUFFICES ASSUME Typed, Shown, Edited, Quiet, "late" \notin upsets,
                      NEW c \in connMap, NEW k \in Cells
               PROVE  IF view[c][k] = Notice THEN owner[k] # NoConn
                      ELSE ~Shortened(k) => Cut(view[c][k]) = content[k]
    BY DEF PagesAgree
  <2>1. ~Pending(k) /\ \A d \in Conns : pc[d] # "spread"
    BY DEF Quiet, Pending
  <2>2. pc[c] # "send"
    BY DEF Quiet, Typed
  <2>3. CASE view[c][k] = Notice
    BY <2>1, <2>3 DEF Edited, Editor
  <2>4. CASE view[c][k] # Notice
    BY <2>1, <2>2, <2>4 DEF Shown, Same
  <2> QED  BY <2>3, <2>4
<1> QED
  BY <1>1, TypeInit, TypeStep, RecordedInit, RecordedStep, LockedInit, LockedStep,
     EditedInit, EditedStep, ShownInit, ShownStep, PTL DEF Spec

-----------------------------------------------------------------------------
(* The log says what happened                                              *)

\* Every way in which handlers overlap has been noticed.
Noticed == Overlap(pc, local) \subseteq upsets

LEMMA NoticedInit == Init => Noticed
<1> SUFFICES ASSUME Init, NEW x \in Overlap(pc, local) PROVE FALSE
  BY DEF Noticed
<1>1. \A c \in Conns : pc[c] = "idle"
  BY DEF Init
<1>2. /\ \A c \in Conns : pc[c] \notin Undoing \cup Logging /\ pc[c] # "rollwrite"
      /\ \A c, d : {pc[c], pc[d]} \subseteq Logging => pc[c] \in Logging
  BY <1>1 DEF Undoing, Logging
<1> QED  BY <1>2 DEF Overlap

LEMMA NoticedCrash == ASSUME Crash PROVE Noticed'
<1> SUFFICES ASSUME NEW x \in Overlap(pc', local') PROVE FALSE
  BY DEF Noticed
<1>1. \A c \in Conns : pc'[c] = "idle"
  BY DEF Crash
<1>2. /\ \A c \in Conns : pc'[c] \notin Undoing \cup Logging /\ pc'[c] # "rollwrite"
      /\ \A c, d : {pc'[c], pc'[d]} \subseteq Logging => pc'[c] \in Logging
  BY <1>1 DEF Undoing, Logging
<1> QED  BY <1>2 DEF Overlap

\* Every step but a crash is a step of one handler.
LEMMA StepIs ==
  ASSUME Typed, Next
  PROVE  Crash \/ \E c \in Conns : \E s, l, x : Moves(c, s, l, x)
<1>1. ASSUME NEW c \in Conns,
             \/ Open(c) \/ OpenSend(c) \/ OpenInfo(c) \/ Note(c)
             \/ UpdateWrite(c) \/ Unlock(c) \/ Spread(c)
             \/ LogLen(c) \/ LogHead(c) \/ LogSlot(c)
             \/ RollLen(c) \/ RollLog(c) \/ RollWrite(c)
      PROVE  \E s, l, x : Moves(c, s, l, x)
  <2>1. CASE Open(c)
    BY <2>1, OpenMoves
  <2>2. CASE OpenSend(c)
    BY <2>2, OpenSendMoves
  <2>3. CASE Note(c) \/ OpenInfo(c)
    BY <2>3, DoneIs DEF Note, OpenInfo
  <2>4. CASE UpdateWrite(c)
    <3>1. /\ pc[c] = "write" /\ "unlock" \in Places
          /\ Goto(c, "unlock", [local[c] EXCEPT !.mark = Len(journal) + 1], {})
      BY <2>4 DEF UpdateWrite, Places, Unlogged
    <3> QED  BY <3>1, WriteMoves
  <2>5. CASE Unlock(c)
    BY <2>5, UnlockMoves
  <2>6. CASE Spread(c)
    BY <2>6, SpreadMoves
  <2>7. CASE LogLen(c)
    BY <2>7, LogLenMoves
  <2>8. CASE LogHead(c)
    BY <2>8, LogHeadMoves
  <2>9. CASE RollLen(c)
    BY <2>9, RollLenMoves
  <2>10. CASE RollLog(c)
    BY <2>10, RollLogMoves, Zenon
  <2>11. CASE RollWrite(c)
    <3>1. /\ pc[c] = "rollwrite" /\ "spread" \in Places
          /\ Goto(c, "spread", [local[c] EXCEPT !.mark = Len(journal) + 1], {})
      BY <2>11 DEF RollWrite, Places, Unlogged
    <3> QED  BY <3>1, WriteMoves
  <2>12. CASE LogSlot(c)
    BY <2>12, LogSlotMoves
  <2> QED
    BY <1>1, <2>1, <2>2, <2>3, <2>4, <2>5, <2>6, <2>7, <2>8, <2>9, <2>10, <2>11, <2>12
<1>2. ASSUME NEW c \in Conns, NEW k \in Cells, TryLock(c, k) PROVE \E s, l, x : Moves(c, s, l, x)
  BY <1>2, TryLockMoves
<1>3. ASSUME NEW c \in Conns, NEW k \in Cells, NEW v \in Values, UpdateRead(c, k, v)
      PROVE  \E s, l, x : Moves(c, s, l, x)
  BY <1>3, UpdateReadMoves, Zenon
<1> QED  BY <1>1, <1>2, <1>3 DEF Next

LEMMA NoticedStep == Typed /\ Noticed /\ [Next]_vars => Noticed'
<1> SUFFICES ASSUME Typed, Noticed, [Next]_vars PROVE Noticed'
  OBVIOUS
<1>1. CASE Crash
  BY <1>1, NoticedCrash
<1>2. ASSUME NEW c \in Conns, NEW s, NEW l, NEW x, Moves(c, s, l, x) PROVE Noticed'
  BY <1>2 DEF Moves, Noticed
<1>3. CASE UNCHANGED vars
  <2>1. UNCHANGED <<pc, local, upsets>>
    BY <1>3 DEF vars
  <2> QED  BY <2>1 DEF Noticed
<1> QED  BY <1>1, <1>2, <1>3, StepIs

\* Two handlers write to the log only if that has been noticed.
LEMMA OneWriter ==
  ASSUME Noticed, "log" \notin upsets, NEW c \in Conns, NEW d \in Conns, c # d,
         pc[c] \in Logging, pc[d] \in Logging
  PROVE  FALSE
<1>1. "log" \in Overlap(pc, local)
  <2>1. {pc[c], pc[d]} \subseteq Logging /\ "log" # "behind"
    OBVIOUS
  <2> QED  BY <2>1 DEF Overlap
<1> QED  BY <1>1 DEF Noticed

\* Counting the changes in a log, entry by entry.
LEMMA ChangesIs ==
  ASSUME NEW es, NEW i \in Nat
  PROVE  /\ Changes(es, 0) = 0 /\ Changes(es, i) \in Nat
         /\ Changes(es, i + 1) = Changes(es, i) + IF es[i + 1].type \in Kinds THEN 1 ELSE 0
<1> DEFINE S(n) == {j \in 1..n : es[j].type \in Kinds}
<1>1. \A n : Changes(es, n) = Cardinality(S(n))
  BY DEF Changes, Kinds
<1>2. S(0) = {}
  OBVIOUS
<1>3. IsFiniteSet(S(i))
  <2>1. S(i) \in SUBSET (1..i) /\ IsFiniteSet(1..i)
    BY FS_Interval
  <2> HIDE DEF S
  <2> QED  BY <2>1, FS_Subset
<1>4. S(i + 1) = IF es[i + 1].type \in Kinds THEN S(i) \cup {i + 1} ELSE S(i)
  OBVIOUS
<1>5. i + 1 \notin S(i)
  OBVIOUS
<1> HIDE DEF S
<1>6. Cardinality(S(i)) \in Nat
  BY <1>3, FS_CardinalityType
<1>7. Cardinality(S(i) \cup {i + 1}) = Cardinality(S(i)) + 1
  BY <1>3, <1>5, FS_AddElement
<1>8. CASE es[i + 1].type \in Kinds
  BY <1>1, <1>2, <1>4, <1>6, <1>7, <1>8, FS_EmptySet
<1>9. CASE es[i + 1].type \notin Kinds
  BY <1>1, <1>2, <1>4, <1>6, <1>9, FS_EmptySet
<1> QED  BY <1>8, <1>9

LEMMA ChangesSame ==
  ASSUME NEW es, NEW fs, NEW i \in Nat, \A j \in 1..i : es[j].type = fs[j].type
  PROVE  Changes(es, i) = Changes(fs, i)
<1>1. {j \in 1..i : es[j].type \in {"update", "rollback"}}
        = {j \in 1..i : fs[j].type \in {"update", "rollback"}}
  OBVIOUS
<1> QED  BY <1>1 DEF Changes

\* What is in the log, and which change handlers have made and not logged.
N == Changes(slots, Len(slots))
Awaits(c) == pc[c] \in Unlogged /\ local[c].entry.type \in Kinds

\* The length in the header and the entries after it.
Even ==
  /\ \A c \in Conns : pc[c] \in Logging => local[c].len = Len(slots)
  /\ (\E c \in Conns : pc[c] = "logslot") => logLen = Len(slots) + 1
  /\ (\A c \in Conns : pc[c] # "logslot") => logLen = Len(slots)

\* The log is a beginning of what happened.
Begun ==
  /\ N <= Len(journal)
  /\ \A i \in 1..Len(slots) : slots[i].type # "hole"
  /\ \A i \in 1..Len(slots) : slots[i].type \in Kinds =>
       /\ Changes(slots, i) \in 1..Len(journal)
       /\ slots[i] = journal[Changes(slots, i)].entry

\* The rest is with the handlers, one change each; who writes has the first.
Owed ==
  /\ \A c \in Conns : Awaits(c) => local[c].mark \in (N + 1)..Len(journal)
  /\ \A m \in (N + 1)..Len(journal) : \E c \in Conns : Awaits(c) /\ local[c].mark = m
  /\ \A c, d \in Conns : c # d /\ Awaits(c) /\ Awaits(d) => local[c].mark # local[d].mark
  /\ \A c \in Conns : Awaits(c) /\ pc[c] \in Logging => local[c].mark = N + 1

Spoiling == {"log", "order", "torn"}
Logged == upsets \cap Spoiling = {} => Even /\ Begun /\ Owed

LEMMA NType == ASSUME Typed PROVE N \in Nat /\ Len(slots) \in Nat /\ Len(journal) \in Nat
<1>1. Len(slots) \in Nat /\ Len(journal) \in Nat
  BY DEF Typed
<1> QED  BY <1>1, ChangesIs DEF N

LEMMA LoggedInit == Init => Logged
<1> SUFFICES ASSUME Init PROVE Even /\ Begun /\ Owed
  BY DEF Logged
<1>1. /\ slots = <<>> /\ journal = <<>> /\ logLen = 0 /\ \A c \in Conns : pc[c] = "idle"
      /\ Len(slots) = 0 /\ Len(journal) = 0
  BY DEF Init
<1>2. N = 0
  BY <1>1, ChangesIs DEF N
<1>3. \A c \in Conns : pc[c] \notin Logging /\ pc[c] # "logslot" /\ ~Awaits(c)
  BY <1>1 DEF Logging, Awaits, Unlogged
<1> QED  BY <1>1, <1>2, <1>3 DEF Even, Begun, Owed

\* Steps that leave log and journal alone.
LEMMA LoggedStay ==
  ASSUME Typed, Logged, NEW c \in Conns, NEW s, NEW l, NEW x, Moves(c, s, l, x),
         UNCHANGED <<slots, logLen, journal>>,
         pc[c] \notin Logging, s \notin Logging,
         \/ ~Awaits(c) /\ ~(s \in Unlogged /\ l.entry.type \in Kinds)
         \/ /\ Awaits(c) /\ s \in Unlogged
            /\ l.entry = local[c].entry /\ l.mark = local[c].mark
  PROVE  Logged'
<1> SUFFICES ASSUME upsets' \cap Spoiling = {} PROVE (Even /\ Begun /\ Owed)'
  BY DEF Logged
<1>1. /\ pc'[c] = s /\ local'[c] = l /\ upsets \subseteq upsets'
      /\ \A d \in Conns : d # c => pc'[d] = pc[d] /\ local'[d] = local[d]
  BY DEF Moves
<1>2. Even /\ Begun /\ Owed
  BY <1>1 DEF Logged
<1>3. /\ \A d \in Conns : (Awaits(d)' <=> Awaits(d)) /\ (Awaits(d) => local'[d].mark = local[d].mark)
  BY <1>1 DEF Awaits
<1>4. \A d \in Conns : /\ pc'[d] \in Logging <=> pc[d] \in Logging
                       /\ pc[d] \in Logging => pc'[d] = pc[d] /\ local'[d] = local[d]
  BY <1>1
<1>5. N' = N
  BY DEF N
<1>6. Even'
  <2>1. \A d \in Conns : pc'[d] = "logslot" <=> pc[d] = "logslot"
    BY <1>4 DEF Logging
  <2> QED  BY <1>2, <1>4, <2>1 DEF Even
<1>7. Begun'
  BY <1>2, <1>5 DEF Begun
<1>8. Owed'
  <2> HIDE DEF N, Awaits
  <2> QED  BY <1>2, <1>3, <1>4, <1>5 DEF Owed
<1> QED  BY <1>6, <1>7, <1>8

\* A change.
LEMMA LoggedChange ==
  ASSUME Typed, Logged, NEW c \in Conns, NEW s \in {"unlock", "spread"}, NEW l,
         Moves(c, s, l, {}), l.entry = local[c].entry, l.mark = Len(journal) + 1,
         local[c].entry \in Changing, pc[c] \in {"write", "rollwrite"},
         NEW j \in ChangeType, journal' = Append(journal, j), UNCHANGED <<slots, logLen>>
  PROVE  Logged'
<1> SUFFICES ASSUME upsets' \cap Spoiling = {} PROVE (Even /\ Begun /\ Owed)'
  BY DEF Logged
<1>1. /\ pc'[c] = s /\ local'[c] = l /\ upsets \subseteq upsets'
      /\ \A d \in Conns : d # c => pc'[d] = pc[d] /\ local'[d] = local[d]
  BY DEF Moves
<1>2. Even /\ Begun /\ Owed
  BY <1>1 DEF Logged
<1>3. /\ Awaits(c)' /\ ~Awaits(c)
      /\ \A d \in Conns : d # c => (Awaits(d)' <=> Awaits(d)) /\ local'[d].mark = local[d].mark
      /\ local'[c].mark = Len(journal) + 1
  BY <1>1 DEF Awaits, Unlogged, Changing
<1>4. \A d \in Conns : /\ pc'[d] \in Logging <=> pc[d] \in Logging
                       /\ pc[d] \in Logging => d # c /\ pc'[d] = pc[d] /\ local'[d] = local[d]
  BY <1>1 DEF Logging
<1>5. N' = N
  BY DEF N
<1>6. /\ Len(journal') = Len(journal) + 1 /\ Len(journal) \in Nat /\ N \in Nat
      /\ \A i \in 1..Len(journal) : journal'[i] = journal[i] /\ i \in 1..Len(journal')
  BY JournalGrows, NType
<1>7. Even'
  <2>1. \A d \in Conns : pc'[d] = "logslot" <=> pc[d] = "logslot"
    BY <1>4 DEF Logging
  <2> QED  BY <1>2, <1>4, <2>1 DEF Even
<1>8. Begun'
  BY <1>2, <1>5, <1>6 DEF Begun
<1>9. Owed'
  <2> HIDE DEF N, Awaits
  <2>1. \A d \in Conns : Awaits(d)' => local'[d].mark \in (N + 1)..Len(journal')
    BY <1>2, <1>3, <1>6 DEF Owed, Begun
  <2>2. \A m \in (N + 1)..Len(journal') : \E d \in Conns : Awaits(d)' /\ local'[d].mark = m
    <3> SUFFICES ASSUME NEW m \in (N + 1)..Len(journal')
                 PROVE  \E d \in Conns : Awaits(d)' /\ local'[d].mark = m
      OBVIOUS
    <3>1. CASE m = Len(journal) + 1
      BY <1>3, <3>1
    <3>2. CASE m # Len(journal) + 1
      <4>1. m \in (N + 1)..Len(journal)
        BY <1>6, <3>2
      <4>2. PICK d \in Conns : Awaits(d) /\ local[d].mark = m
        BY <1>2, <4>1 DEF Owed
      <4> QED  BY <1>3, <4>2
    <3> QED  BY <3>1, <3>2
  <2>3. \A d, f \in Conns : d # f /\ Awaits(d)' /\ Awaits(f)' => local'[d].mark # local'[f].mark
    <3>1. \A d \in Conns : d # c /\ Awaits(d)' => local'[d].mark # Len(journal) + 1
      BY <1>2, <1>3, <1>6 DEF Owed
    <3> QED  BY <1>2, <1>3, <3>1 DEF Owed
  <2>4. \A d \in Conns : Awaits(d)' /\ pc'[d] \in Logging => local'[d].mark = N + 1
    BY <1>2, <1>3, <1>4 DEF Owed
  <2> QED  BY <1>5, <2>1, <2>2, <2>3, <2>4 DEF Owed
<1> QED  BY <1>7, <1>8, <1>9

\* writeLog reads the length: the first of the waiting changes is this one.
LEMMA LoggedLen ==
  ASSUME Typed, Noticed', Logged, NEW c \in Conns, LogLen(c)
  PROVE  Logged'
<1>0. PICK l \in LocalType :
        /\ Moves(c, "loghead", l, IF Passed(c) THEN {"order"} ELSE {})
        /\ l.entry = local[c].entry /\ l.mark = local[c].mark /\ l.len = logLen
  BY LogLenMoves
<1> SUFFICES ASSUME upsets' \cap Spoiling = {} PROVE (Even /\ Begun /\ Owed)'
  BY DEF Logged
<1>1. /\ pc'[c] = "loghead" /\ local'[c] = l /\ upsets \subseteq upsets'
      /\ (IF Passed(c) THEN {"order"} ELSE {}) \subseteq upsets'
      /\ \A d \in Conns : d # c => pc'[d] = pc[d] /\ local'[d] = local[d]
  BY <1>0 DEF Moves
<1>2. Even /\ Begun /\ Owed
  BY <1>1 DEF Logged
<1>3. UNCHANGED <<slots, logLen, journal>> /\ pc[c] = "loglen"
  BY DEF LogLen, logged
<1>4. ~Passed(c) /\ "log" \notin upsets'
  BY <1>1 DEF Spoiling
<1>5. \A d \in Conns : d # c => pc[d] \notin Logging
  <2> SUFFICES ASSUME NEW d \in Conns, d # c, pc[d] \in Logging PROVE FALSE
    OBVIOUS
  <2>1. {pc'[c], pc'[d]} \subseteq Logging /\ "log" # "behind"
    BY <1>1 DEF Logging
  <2>2. "log" \in Overlap(pc', local')
    BY <2>1 DEF Overlap
  <2> QED  BY <1>4, <2>2 DEF Noticed
<1>6. /\ \A d \in Conns : (Awaits(d)' <=> Awaits(d)) /\ local'[d].mark = local[d].mark
  BY <1>0, <1>1, <1>3 DEF Awaits, Unlogged
<1>7. N' = N /\ N \in Nat /\ Len(journal) \in Nat
  BY <1>3, NType DEF N
<1>8. Even'
  <2>1. logLen = Len(slots)
    BY <1>2, <1>3, <1>5 DEF Even, Logging
  <2>2. \A d \in Conns : pc'[d] # "logslot" /\ (pc'[d] \in Logging => d = c)
    BY <1>1, <1>5 DEF Logging
  <2> QED  BY <1>0, <1>1, <1>3, <2>1, <2>2 DEF Even
<1>9. Begun'
  BY <1>2, <1>3, <1>7 DEF Begun
<1>10. Owed'
  <2>1. \A d \in Conns : Awaits(d)' /\ pc'[d] \in Logging => local'[d].mark = N + 1
    <3> SUFFICES ASSUME Awaits(c) PROVE local[c].mark = N + 1
      BY <1>1, <1>5, <1>6
    <3>1. local[c].mark \in (N + 1)..Len(journal)
      BY <1>2 DEF Owed
    <3>2. PICK d \in Conns : Awaits(d) /\ local[d].mark = N + 1
      <4>1. N + 1 \in (N + 1)..Len(journal)
        BY <1>7, <3>1
      <4> QED  BY <1>2, <4>1 DEF Owed
    <3>3. ~(local[d].mark < local[c].mark)
      <4>1. CASE d = c
        BY <1>7, <3>1, <4>1
      <4>2. CASE d # c
        <5>1. pc[d] \in Unlogged \ Logging
          BY <1>5, <3>2, <4>2 DEF Awaits
        <5>2. {local[c].entry.type, local[d].entry.type} \subseteq {"update", "rollback"}
          BY <3>2 DEF Awaits, Kinds
        <5> QED  BY <1>4, <5>1, <5>2 DEF Passed
      <4> QED  BY <4>1, <4>2
    <3> QED  BY <1>7, <3>1, <3>2, <3>3
  <2> HIDE DEF N, Awaits
  <2> QED  BY <1>2, <1>3, <1>6, <1>7, <2>1 DEF Owed
<1> QED  BY <1>8, <1>9, <1>10

\* It writes the new length.
LEMMA LoggedHead ==
  ASSUME Typed, Noticed, Logged, NEW c \in Conns, LogHead(c)
  PROVE  Logged'
<1>0. Moves(c, "logslot", local[c], {})
  BY LogHeadMoves
<1> SUFFICES ASSUME upsets' \cap Spoiling = {} PROVE (Even /\ Begun /\ Owed)'
  BY DEF Logged
<1>1. /\ pc'[c] = "logslot" /\ local'[c] = local[c] /\ upsets \subseteq upsets'
      /\ \A d \in Conns : d # c => pc'[d] = pc[d] /\ local'[d] = local[d]
  BY <1>0 DEF Moves
<1>2. Even /\ Begun /\ Owed /\ "log" \notin upsets
  BY <1>1 DEF Logged, Spoiling
<1>3. UNCHANGED <<slots, journal>> /\ pc[c] = "loghead" /\ logLen' = local[c].len + 1
  BY DEF LogHead
<1>4. \A d \in Conns : d # c => pc[d] \notin Logging
  BY <1>2, <1>3, OneWriter DEF Logging
<1>5. \A d \in Conns : /\ Awaits(d)' <=> Awaits(d) 
                       /\ local'[d].mark = local[d].mark
                       /\ pc'[d] \in Logging <=> pc[d] \in Logging
  BY <1>1, <1>3 DEF Awaits, Unlogged, Logging
<1>6. N' = N
  BY <1>3 DEF N
<1>7. Even'
  <2>1. local[c].len = Len(slots)
    BY <1>2, <1>3 DEF Even, Logging
  <2>2. \A d \in Conns : pc'[d] \in Logging => d = c
    BY <1>1, <1>4
  <2> QED  BY <1>1, <1>3, <2>1, <2>2 DEF Even
<1>8. Begun'
  BY <1>2, <1>3, <1>6 DEF Begun
<1>9. Owed'
  <2> HIDE DEF N, Awaits
  <2> QED  BY <1>2, <1>3, <1>5, <1>6 DEF Owed
<1> QED  BY <1>7, <1>8, <1>9

\* It writes the entry: one change more is in the log.
LEMMA LoggedSlot ==
  ASSUME Typed, Recorded, Noticed, Logged, NEW c \in Conns, LogSlot(c)
  PROVE  Logged'
<1>0. PICK s \in {"idle", "info"} : Moves(c, s, NoLocal, {})
  BY LogSlotMoves
<1> SUFFICES ASSUME upsets' \cap Spoiling = {} PROVE (Even /\ Begun /\ Owed)'
  BY DEF Logged
<1>1. /\ pc'[c] = s /\ local'[c] = NoLocal /\ upsets \subseteq upsets'
      /\ \A d \in Conns : d # c => pc'[d] = pc[d] /\ local'[d] = local[d]
  BY <1>0 DEF Moves
<1>2. Even /\ Begun /\ Owed /\ "log" \notin upsets
  BY <1>1 DEF Logged, Spoiling
<1>3. UNCHANGED <<logLen, journal>> /\ pc[c] = "logslot"
  BY DEF LogSlot
<1>4. \A d \in Conns : d # c => pc[d] \notin Logging
  BY <1>2, <1>3, OneWriter DEF Logging
<1> DEFINE L == Len(slots)
           e == local[c].entry
<1>5. local[c].len = L /\ logLen = L + 1 /\ L \in Nat /\ N \in Nat /\ Len(journal) \in Nat
  BY <1>2, <1>3, NType DEF Even, Logging
<1>6. /\ Len(slots') = L + 1 /\ slots'[L + 1] = e
      /\ \A i \in 1..L : slots'[i] = slots[i]
  <2>1. /\ Len(slots') = IF L < L + 1 THEN L + 1 ELSE L
        /\ \A i \in 1..Len(slots') : slots'[i] = IF i = L + 1 THEN e
                                                 ELSE IF i <= L THEN slots[i] ELSE Hole
    BY <1>5, SlotIs
  <2> HIDE DEF e, L
  <2> QED  BY <1>5, <2>1
<1>7. \A i \in 0..L : Changes(slots', i) = Changes(slots, i)
  BY <1>5, <1>6, ChangesSame
<1>8. Changes(slots', L + 1) = N + IF e.type \in Kinds THEN 1 ELSE 0
  <2>1. Changes(slots', L + 1) = Changes(slots', L) + IF slots'[L + 1].type \in Kinds THEN 1 ELSE 0
    BY <1>5, ChangesIs
  <2>2. Changes(slots', L) = N
    BY <1>5, <1>7 DEF N
  <2> QED  BY <1>6, <2>1, <2>2
<1>9. N' = N + IF e.type \in Kinds THEN 1 ELSE 0
  <2>1. N' = Changes(slots', Len(slots'))
    BY DEF N
  <2> QED  BY <1>6, <1>8, <2>1
<1>10. /\ e.type \in Kinds => Awaits(c) /\ local[c].mark = N + 1
       /\ e.type \in Kinds \cup {"open"}
  BY <1>2, <1>3 DEF Awaits, Unlogged, Logging, Owed, Typed, Right
<1>11. e.type \in Kinds => N + 1 \in 1..Len(journal) /\ journal[N + 1].entry = e
  BY <1>10 DEF Recorded, Marked, Awaits
<1>12. /\ \A d \in Conns : Awaits(d)' <=> d # c /\ Awaits(d)
       /\ \A d \in Conns : d # c => local'[d].mark = local[d].mark
       /\ \A d \in Conns : pc'[d] \notin Logging
  BY <1>1, <1>4 DEF Awaits, Unlogged, Logging
<1>13. Even'
  <2>1. \A d \in Conns : pc'[d] # "logslot"
    BY <1>12 DEF Logging
  <2> QED  BY <1>3, <1>5, <1>6, <1>12, <2>1 DEF Even
<1> HIDE DEF L, e
<1>14. Begun'
  <2>1. N' <= Len(journal)
    BY <1>2, <1>5, <1>9, <1>11 DEF Begun
  <2>2. ASSUME NEW i \in 1..(L + 1)
        PROVE  /\ slots'[i].type # "hole"
               /\ slots'[i].type \in Kinds =>
                    /\ Changes(slots', i) \in 1..Len(journal)
                    /\ slots'[i] = journal[Changes(slots', i)].entry
    <3>1. CASE i \in 1..L
      <4>1. slots'[i] = slots[i] /\ Changes(slots', i) = Changes(slots, i)
        BY <1>5, <1>6, <1>7, <3>1
      <4> QED  BY <1>2, <3>1, <4>1 DEF Begun, L
    <3>2. CASE i = L + 1
      <4>1. slots'[i] = e /\ e.type # "hole"
        BY <1>6, <1>10, <3>2 DEF Kinds
      <4>2. e.type \in Kinds => Changes(slots', i) = N + 1
        BY <1>8, <3>2
      <4> QED  BY <1>11, <4>1, <4>2
    <3> QED  BY <1>5, <3>1, <3>2
  <2> QED  BY <1>3, <1>6, <2>1, <2>2 DEF Begun
<1>15. Owed'
  <2> HIDE DEF N, Awaits
  <2>1. \A d \in Conns : d # c /\ Awaits(d) => local[d].mark \in (N' + 1)..Len(journal)
    <3> SUFFICES ASSUME NEW d \in Conns, d # c, Awaits(d)
                 PROVE  local[d].mark \in (N' + 1)..Len(journal)
      OBVIOUS
    <3>1. local[d].mark \in (N + 1)..Len(journal)
      BY <1>2 DEF Owed
    <3>2. e.type \in Kinds => local[d].mark # N + 1
      BY <1>2, <1>10 DEF Owed
    <3> QED  BY <1>5, <1>9, <3>1, <3>2
  <2>2. \A m \in (N' + 1)..Len(journal) : \E d \in Conns : d # c /\ Awaits(d) /\ local[d].mark = m
    <3> SUFFICES ASSUME NEW m \in (N' + 1)..Len(journal)
                 PROVE  \E d \in Conns : d # c /\ Awaits(d) /\ local[d].mark = m
      OBVIOUS
    <3>1. m \in (N + 1)..Len(journal) /\ (e.type \in Kinds => m # N + 1)
      BY <1>5, <1>9
    <3>2. PICK d \in Conns : Awaits(d) /\ local[d].mark = m
      BY <1>2, <3>1 DEF Owed
    <3>3. d # c
      BY <1>10, <3>1, <3>2 DEF Awaits, e
    <3> QED  BY <3>2, <3>3
  <2>3. \A d, f \in Conns : d # f /\ Awaits(d)' /\ Awaits(f)' => local'[d].mark # local'[f].mark
    BY <1>2, <1>12 DEF Owed
  <2> QED  BY <1>3, <1>12, <2>1, <2>2, <2>3 DEF Owed
<1> QED  BY <1>13, <1>14, <1>15

LEMMA LoggedStep == Typed /\ Recorded /\ Noticed /\ Noticed' /\ Logged /\ [Next]_vars => Logged'
<1> SUFFICES ASSUME Typed, Recorded, Noticed, Noticed', Logged, [Next]_vars PROVE Logged'
  OBVIOUS
<1>1. ASSUME NEW c \in Conns, Open(c) PROVE Logged'
  <2>1. PICK l \in LocalType : Moves(c, "send", l, {})
    BY <1>1, OpenMoves
  <2>2. pc[c] = "idle" /\ UNCHANGED <<slots, logLen, journal>>
    BY <1>1 DEF Open, Begin, logged
  <2> QED  BY <2>1, <2>2, LoggedStay DEF Awaits, Unlogged, Logging
<1>2. ASSUME NEW c \in Conns, OpenSend(c) PROVE Logged'
  <2>1. PICK l, x : Moves(c, "loglen", l, x) /\ l.entry.type = "open"
    BY <1>2, OpenSendMoves
  <2>2. pc[c] = "send" /\ UNCHANGED <<slots, logLen, journal>>
    BY <1>2 DEF OpenSend, logged
  <2> QED  BY <2>1, <2>2, LoggedStay DEF Awaits, Unlogged, Logging, Kinds
<1>3. ASSUME NEW c \in Conns, Note(c) \/ OpenInfo(c) PROVE Logged'
  <2>1. Moves(c, "idle", NoLocal, {})
    BY <1>3, DoneIs DEF Note, OpenInfo
  <2>2. pc[c] \in {"note", "info"} /\ UNCHANGED <<slots, logLen, journal>>
    BY <1>3 DEF Note, OpenInfo, logged
  <2> QED  BY <2>1, <2>2, LoggedStay DEF Awaits, Unlogged, Logging
<1>4. ASSUME NEW c \in Conns, UpdateWrite(c) PROVE Logged'
  <2>1. PICK l \in LocalType : /\ Moves(c, "unlock", l, {}) /\ l.entry = local[c].entry
                               /\ l.mark = Len(journal) + 1
    BY <1>4, UpdateWriteIs
  <2>2. PICK j \in ChangeType : journal' = Append(journal, j)
    BY <1>4, UpdateWriteIs
  <2>3. /\ pc[c] = "write" /\ UNCHANGED <<slots, logLen>> /\ local[c].entry \in Changing
    BY <1>4, UpdateWriteIs DEF UpdateWrite, logged
  <2> QED  BY <2>1, <2>2, <2>3, LoggedChange
<1>5. ASSUME NEW c \in Conns, Unlock(c) PROVE Logged'
  <2>1. Moves(c, "spread", local[c], {}) /\ local[c].entry.type = "update"
    BY <1>5, UnlockMoves
  <2>2. pc[c] = "unlock" /\ UNCHANGED <<slots, logLen, journal>>
    BY <1>5 DEF Unlock, logged
  <2> QED  BY <2>1, <2>2, LoggedStay DEF Awaits, Unlogged, Logging, Kinds
<1>6. ASSUME NEW c \in Conns, Spread(c) PROVE Logged'
  <2>1. PICK x : Moves(c, "loglen", local[c], x) /\ local[c].entry \in Changing
    BY <1>6, SpreadMoves
  <2>2. pc[c] = "spread" /\ UNCHANGED <<slots, logLen, journal>>
    BY <1>6 DEF Spread, logged
  <2> QED  BY <2>1, <2>2, LoggedStay DEF Awaits, Unlogged, Logging, Changing
<1>7. ASSUME NEW c \in Conns, LogLen(c) PROVE Logged'
  BY <1>7, LoggedLen
<1>8. ASSUME NEW c \in Conns, LogHead(c) PROVE Logged'
  BY <1>8, LoggedHead
<1>9. ASSUME NEW c \in Conns, LogSlot(c) PROVE Logged'
  BY <1>9, LoggedSlot
<1>10. ASSUME NEW c \in Conns, RollLen(c) PROVE Logged'
  <2>1. PICK l : Moves(c, "rolllog", l, {})
    BY <1>10, RollLenMoves
  <2>2. pc[c] = "idle" /\ UNCHANGED <<slots, logLen, journal>>
    BY <1>10 DEF RollLen, Begin, logged
  <2> QED  BY <2>1, <2>2, LoggedStay DEF Awaits, Unlogged, Logging
<1>11. ASSUME NEW c \in Conns, RollLog(c) PROVE Logged'
  <2>1. PICK s, l : Moves(c, s, l, {}) /\ s \in {"idle", "rollwrite"}
    <3>1. \/ Moves(c, "idle", NoLocal, {})
          \/ \E l : Moves(c, "rollwrite", l, {})
      BY <1>11, RollLogMoves, Zenon
    <3> QED  BY <3>1
  <2>2. pc[c] = "rolllog" /\ UNCHANGED <<slots, logLen, journal>>
    BY <1>11 DEF RollLog, logged
  <2> QED  BY <2>1, <2>2, LoggedStay DEF Awaits, Unlogged, Logging
<1>12. ASSUME NEW c \in Conns, RollWrite(c) PROVE Logged'
  <2>1. PICK l \in LocalType : /\ Moves(c, "spread", l, {}) /\ l.entry = local[c].entry
                               /\ l.mark = Len(journal) + 1
    BY <1>12, RollWriteIs
  <2>2. PICK j \in ChangeType : journal' = Append(journal, j)
    BY <1>12, RollWriteIs
  <2>3. /\ pc[c] = "rollwrite" /\ UNCHANGED <<slots, logLen>> /\ local[c].entry \in Changing
    BY <1>12, RollWriteIs DEF RollWrite, logged
  <2> QED  BY <2>1, <2>2, <2>3, LoggedChange
<1>13. ASSUME NEW c \in Conns, NEW k \in Cells, TryLock(c, k) PROVE Logged'
  <2>1. PICK l : Moves(c, "note", l, {})
    BY <1>13, TryLockMoves
  <2>2. pc[c] = "idle" /\ UNCHANGED <<slots, logLen, journal>>
    BY <1>13 DEF TryLock, Begin, logged
  <2> QED  BY <2>1, <2>2, LoggedStay DEF Awaits, Unlogged, Logging
<1>14. ASSUME NEW c \in Conns, NEW k \in Cells, NEW v \in Values, UpdateRead(c, k, v)
       PROVE  Logged'
  <2>1. PICK s, l : Moves(c, s, l, {}) /\ s \in {"dead", "write"}
    <3>1. \/ Moves(c, "dead", NoLocal, {})
          \/ \E l : Moves(c, "write", l, {})
      BY <1>14, UpdateReadMoves, Zenon
    <3> QED  BY <3>1
  <2>2. pc[c] = "idle" /\ UNCHANGED <<slots, logLen, journal>>
    BY <1>14 DEF UpdateRead, logged
  <2> QED  BY <2>1, <2>2, LoggedStay DEF Awaits, Unlogged, Logging
<1>15. CASE Crash
  <2> SUFFICES ASSUME upsets' \cap Spoiling = {} PROVE (Even /\ Begun /\ Owed)'
    BY DEF Logged
  <2>1. /\ UNCHANGED <<slots, logLen, journal>> /\ \A c \in Conns : pc'[c] = "idle"
        /\ upsets' = IF \E c \in Conns : pc[c] \in Unlogged THEN upsets \cup {"torn"} ELSE upsets
    BY <1>15 DEF Crash, logged
  <2>2. upsets' = upsets /\ \A c \in Conns : pc[c] \notin Unlogged
    BY <2>1 DEF Spoiling
  <2>3. Even /\ Begun /\ Owed
    BY <2>2 DEF Logged
  <2>4. N' = N
    BY <2>1 DEF N
  <2>5. \A c \in Conns : /\ ~Awaits(c) /\ ~Awaits(c)' /\ pc'[c] \notin Logging
                         /\ pc[c] # "logslot" /\ pc'[c] # "logslot"
    BY <2>1, <2>2 DEF Awaits, Unlogged, Logging
  <2>6. Even' /\ Begun'
    BY <2>1, <2>3, <2>4, <2>5 DEF Even, Begun
  <2>7. Owed'
    <3> HIDE DEF N, Awaits
    <3> QED  BY <2>1, <2>3, <2>4, <2>5 DEF Owed
  <2> QED  BY <2>6, <2>7
<1>16. CASE UNCHANGED vars
  <2>1. UNCHANGED <<slots, logLen, journal, pc, local, upsets>>
    BY <1>16 DEF vars, logged
  <2> QED  BY <2>1 DEF Logged, Even, Begun, Owed, Awaits, N
<1> QED
  BY <1>1, <1>2, <1>3, <1>4, <1>5, <1>6, <1>7, <1>8, <1>9, <1>10, <1>11, <1>12, <1>13,
     <1>14, <1>15, <1>16 DEF Next

\* The log reads back what was written to it when it has no holes.
LEMMA ReadsBack ==
  ASSUME Typed, NEW n \in Nat, Begun
  PROVE  LET es == LogRead(n)
         IN /\ Len(es) = IF n < Len(slots) THEN n ELSE Len(slots)
            /\ \A i \in 1..Len(es) : es[i] = slots[i] /\ Changes(es, i) = Changes(slots, i)
            /\ Changes(es, Len(es)) = Changes(slots, Len(es))
<1> DEFINE es == LogRead(n)
<1>1. /\ Len(es) = IF n < Len(slots) THEN n ELSE Len(slots)
      /\ es \in Seq(Fitting)
      /\ \A i \in 1..Len(es) : es[i] = IF i > 1 /\ slots[i - 1] = Hole THEN Hole ELSE slots[i]
  BY LogReadIs
<1>2. Len(slots) \in Nat /\ Len(es) \in Nat /\ Len(es) <= Len(slots)
  BY <1>1, NType
<1> HIDE DEF es
<1>3. \A i \in 1..Len(slots) : slots[i] # Hole
  BY DEF Begun, Hole
<1>4. \A i \in 1..Len(es) : es[i] = slots[i]
  BY <1>1, <1>2, <1>3
<1>5. \A i \in 0..Len(es) : Changes(es, i) = Changes(slots, i)
  BY <1>2, <1>4, ChangesSame
<1>6. \A i \in 1..Len(es) : i \in 0..Len(es)
  BY <1>2
<1>7. Len(es) \in 0..Len(es)
  BY <1>2
<1> QED  BY <1>1, <1>4, <1>5, <1>6, <1>7 DEF es

\* Between requests the log has each change once and in the order in which
\* they happened, for any number of writers, as long as writeLog ran alone,
\* changes were logged in their order and no crash tore one.
THEOREM LogCompleteHolds == Spec => []LogComplete
<1>1. Typed /\ Logged => LogComplete
  <2> SUFFICES ASSUME Typed, Logged, Quiet, upsets \cap {"log", "order", "torn"} = {}
               PROVE  LET es == LogRead(logLen)
                      IN /\ Changes(es, Len(es)) = Len(journal)
                         /\ \A i \in DOMAIN es : es[i].type \in {"update", "rollback"} =>
                              es[i] = journal[Changes(es, i)].entry
    BY DEF LogComplete
  <2> DEFINE es == LogRead(logLen)
  <2>1. Even /\ Begun /\ Owed
    BY DEF Logged, Spoiling
  <2>2. \A c \in Conns : ~Awaits(c) /\ pc[c] # "logslot"
    BY DEF Quiet, Awaits, Unlogged
  <2>3. logLen = Len(slots) /\ logLen \in Nat
    BY <2>1, <2>2 DEF Even, Typed
  <2>4. /\ Len(es) = Len(slots)
        /\ \A i \in 1..Len(es) : es[i] = slots[i] /\ Changes(es, i) = Changes(slots, i)
        /\ Changes(es, Len(es)) = N
    BY <2>1, <2>3, ReadsBack DEF N
  <2>5. N = Len(journal)
    <3>1. N \in Nat /\ Len(journal) \in Nat /\ N <= Len(journal)
      BY <2>1, NType DEF Begun
    <3>2. \A m \in (N + 1)..Len(journal) : FALSE
      BY <2>1, <2>2 DEF Owed
    <3> QED  BY <3>1, <3>2
  <2>6. DOMAIN es = 1..Len(es)
    BY <2>3, LogReadIs
  <2> HIDE DEF es
  <2>7. \A i \in DOMAIN es : es[i].type \in {"update", "rollback"} =>
          es[i] = journal[Changes(es, i)].entry
    BY <2>1, <2>4, <2>6 DEF Begun, Kinds
  <2> QED  BY <2>4, <2>5, <2>7 DEF es
<1> QED
  BY <1>1, TypeInit, TypeStep, RecordedInit, RecordedStep, NoticedInit, NoticedStep,
     LoggedInit, LoggedStep, PTL DEF Spec

-----------------------------------------------------------------------------
(* What Undoable computes                                                  *)

\* What is left to undo of s after change i of h.
Leftover(h, u, s, i) == IF h[i].entry.user # u THEN s
                        ELSE IF h[i].entry.type = "update" THEN Append(s, i)
                        ELSE SubSeq(s, 1, Len(s) - 1)

\* f is what is left after each of the first n changes.
Rests(f, h, u, n) == f = [i \in 0..n |-> IF i = 0 THEN <<>> ELSE Leftover(h, u, f[i - 1], i)]

LEMMA RestsExist == ASSUME NEW h, NEW u, NEW n \in Nat PROVE \E f : Rests(f, h, u, n)
<1> DEFINE T == {m \in Nat : ~\E f : Rests(f, h, u, m)}
<1> SUFFICES ASSUME T # {} PROVE FALSE
  OBVIOUS
<1>1. PICK m \in T : \A y \in T : m <= y
  <2>1. T \in SUBSET Nat
    OBVIOUS
  <2> HIDE DEF T
  <2> QED  BY <2>1, Least
<1>2. m # 0
  <2> DEFINE f == [i \in 0..0 |-> <<>>]
  <2>1. f = [i \in 0..0 |-> IF i = 0 THEN <<>> ELSE Leftover(h, u, f[i - 1], i)]
    OBVIOUS
  <2>2. Rests(f, h, u, 0)
    BY <2>1, Zenon DEF Rests
  <2> QED  BY <1>1, <2>2
<1>3. m - 1 \in Nat /\ m - 1 \notin T
  BY <1>1, <1>2
<1>4. PICK f : Rests(f, h, u, m - 1)
  BY <1>3
<1> DEFINE g == [i \in 0..m |-> IF i = m THEN Leftover(h, u, f[m - 1], m) ELSE f[i]]
<1>5. /\ DOMAIN f = 0..(m - 1)
      /\ \A i \in 0..(m - 1) : f[i] = IF i = 0 THEN <<>> ELSE Leftover(h, u, f[i - 1], i)
  BY <1>4 DEF Rests
<1>6. \A i \in 0..m : g[i] = IF i = 0 THEN <<>> ELSE Leftover(h, u, g[i - 1], i)
  <2> SUFFICES ASSUME NEW i \in 0..m
               PROVE  g[i] = IF i = 0 THEN <<>> ELSE Leftover(h, u, g[i - 1], i)
    OBVIOUS
  <2>1. CASE i = 0
    BY <1>2, <1>3, <1>5, <2>1
  <2>2. CASE i # 0
    <3>1. i - 1 \in 0..(m - 1) /\ i - 1 \in 0..m /\ i - 1 # m
      BY <1>3, <2>2
    <3>2. g[i - 1] = f[i - 1]
      BY <3>1
    <3>3. CASE i = m
      BY <2>2, <3>2, <3>3
    <3>4. CASE i # m
      <4>1. i \in 0..(m - 1)
        BY <1>3, <3>4
      <4>2. g[i] = f[i] /\ f[i] = Leftover(h, u, f[i - 1], i)
        BY <1>5, <2>2, <3>4, <4>1
      <4> QED  BY <2>2, <3>2, <4>2
    <3> QED  BY <3>3, <3>4
  <2> QED  BY <2>1, <2>2
<1>7. g = [i \in 0..m |-> g[i]]
  OBVIOUS
<1> HIDE DEF g
<1>8. g = [i \in 0..m |-> IF i = 0 THEN <<>> ELSE Leftover(h, u, g[i - 1], i)]
  BY <1>6, <1>7
<1>9. Rests(g, h, u, m)
  BY <1>8, Zenon DEF Rests
<1> QED  BY <1>1, <1>9

\* Histories that begin alike leave the same.
LEMMA RestsSame ==
  ASSUME NEW h, NEW g, NEW u, NEW n \in Nat, NEW m \in Nat, n <= m,
         \A i \in 1..n : h[i] = g[i],
         NEW f, Rests(f, h, u, n), NEW r, Rests(r, g, u, m)
  PROVE  \A i \in 0..n : f[i] = r[i]
<1> DEFINE T == {i \in 0..n : f[i] # r[i]}
<1> SUFFICES ASSUME T # {} PROVE FALSE
  OBVIOUS
<1>1. PICK i \in T : \A y \in T : i <= y
  <2>1. T \in SUBSET Nat
    OBVIOUS
  <2> HIDE DEF T
  <2> QED  BY <2>1, Least
<1>2. /\ \A x \in 0..n : f[x] = IF x = 0 THEN <<>> ELSE Leftover(h, u, f[x - 1], x)
      /\ \A x \in 0..m : r[x] = IF x = 0 THEN <<>> ELSE Leftover(g, u, r[x - 1], x)
  BY DEF Rests
<1>3. i # 0
  BY <1>1, <1>2
<1>4. i - 1 \in 0..n /\ i - 1 \notin T /\ i \in 0..n /\ i \in 0..m /\ i \in 1..n
  BY <1>1, <1>3
<1>5. f[i - 1] = r[i - 1]
  BY <1>4
<1>6. Leftover(h, u, f[i - 1], i) = Leftover(g, u, r[i - 1], i)
  BY <1>4, <1>5 DEF Leftover
<1> QED  BY <1>1, <1>2, <1>3, <1>4, <1>6

LEMMA UndoableRests ==
  ASSUME NEW h, NEW u, NEW n \in Nat
  PROVE  \E f : Rests(f, h, u, n) /\ Undoable(h, u, n) = f[n]
<1> DEFINE P(f) == f = [i \in 0..n |-> IF i = 0 THEN <<>>
                          ELSE IF h[i].entry.user # u THEN f[i - 1]
                          ELSE IF h[i].entry.type = "update" THEN Append(f[i - 1], i)
                          ELSE SubSeq(f[i - 1], 1, Len(f[i - 1]) - 1)]
           c == CHOOSE f : P(f)
<1>1. Undoable(h, u, n) = c[n]
  BY Zenon DEF Undoable
<1>2. \A f : P(f) <=> Rests(f, h, u, n)
  BY Zenon DEF Rests, Leftover
<1> HIDE DEF P
<1>3. \E f : P(f)
  BY <1>2, RestsExist
<1>4. P(c)
  BY <1>3, Zenon
<1> QED  BY <1>1, <1>2, <1>4

\* Undoable one change after the other.
LEMMA UndoableIs ==
  ASSUME NEW h, NEW u, NEW n \in Nat
  PROVE  /\ Undoable(h, u, 0) = <<>>
         /\ Undoable(h, u, n + 1) = Leftover(h, u, Undoable(h, u, n), n + 1)
<1>1. PICK z : Rests(z, h, u, 0) /\ Undoable(h, u, 0) = z[0]
  BY UndoableRests
<1>2. PICK f : Rests(f, h, u, n) /\ Undoable(h, u, n) = f[n]
  BY UndoableRests
<1>3. PICK g : Rests(g, h, u, n + 1) /\ Undoable(h, u, n + 1) = g[n + 1]
  <2>1. n + 1 \in Nat
    OBVIOUS
  <2> QED  BY <2>1, UndoableRests
<1>4. z[0] = <<>>
  BY <1>1 DEF Rests
<1>5. g[n + 1] = Leftover(h, u, g[n], n + 1)
  BY <1>3 DEF Rests
<1>6. f[n] = g[n]
  <2>1. n + 1 \in Nat /\ n <= n + 1 /\ n \in 0..n
    OBVIOUS
  <2> QED  BY <1>2, <1>3, <2>1, RestsSame
<1> QED  BY <1>1, <1>2, <1>3, <1>4, <1>5, <1>6

LEMMA UndoableSame ==
  ASSUME NEW h, NEW g, NEW u, NEW n \in Nat, \A i \in 1..n : h[i] = g[i]
  PROVE  Undoable(h, u, n) = Undoable(g, u, n)
<1>1. PICK f : Rests(f, h, u, n) /\ Undoable(h, u, n) = f[n]
  BY UndoableRests
<1>2. PICK r : Rests(r, g, u, n) /\ Undoable(g, u, n) = r[n]
  BY UndoableRests
<1>3. n <= n /\ n \in 0..n
  OBVIOUS
<1> QED  BY <1>1, <1>2, <1>3, RestsSame

-----------------------------------------------------------------------------
(* Counting updates and rollbacks                                          *)

\* How many numbers of S there are after i and up to n.
Within(S, i, n) == Cardinality(S \cap ((i + 1)..n))

LEMMA WithinIs ==
  ASSUME NEW S, NEW i \in Nat, NEW n \in Nat
  PROVE  Within(S, i, n) \in Nat /\ Within(S, n, n) = 0
<1>1. IsFiniteSet((i + 1)..n) /\ S \cap ((i + 1)..n) \in SUBSET ((i + 1)..n)
  BY FS_Interval
<1>2. IsFiniteSet(S \cap ((i + 1)..n))
  BY <1>1, FS_Subset
<1>3. Within(S, i, n) \in Nat
  BY <1>2, FS_CardinalityType DEF Within
<1>4. S \cap ((n + 1)..n) = {}
  OBVIOUS
<1> QED  BY <1>3, <1>4, FS_EmptySet DEF Within

LEMMA WithinSplit ==
  ASSUME NEW S, NEW i \in Nat, NEW m \in Nat, NEW n \in Nat, i <= m, m <= n
  PROVE  Within(S, i, n) = Within(S, i, m) + Within(S, m, n)
<1> DEFINE A == S \cap ((i + 1)..m)
           B == S \cap ((m + 1)..n)
<1>1. IsFiniteSet(A) /\ IsFiniteSet(B)
  <2>1. /\ IsFiniteSet((i + 1)..m) /\ A \in SUBSET ((i + 1)..m)
        /\ IsFiniteSet((m + 1)..n) /\ B \in SUBSET ((m + 1)..n)
    BY FS_Interval
  <2> HIDE DEF A, B
  <2> QED  BY <2>1, FS_Subset
<1>2. A \cap B = {} /\ A \cup B = S \cap ((i + 1)..n)
  OBVIOUS
<1>3. Within(S, i, m) = Cardinality(A) /\ Within(S, m, n) = Cardinality(B)
  BY DEF Within
<1>4. Within(S, i, n) = Cardinality(A \cup B)
  BY <1>2 DEF Within
<1> HIDE DEF A, B
<1>5. Cardinality(A) \in Nat /\ Cardinality(B) \in Nat
  BY <1>1, FS_CardinalityType
<1>6. Cardinality(A \cup B) = Cardinality(A) + Cardinality(B) - 0
  BY <1>1, <1>2, FS_Union, FS_EmptySet
<1> QED  BY <1>3, <1>4, <1>5, <1>6

LEMMA WithinOne ==
  ASSUME NEW S, NEW n \in Nat
  PROVE  Within(S, n, n + 1) = IF n + 1 \in S THEN 1 ELSE 0
<1>1. (n + 1)..(n + 1) = {n + 1}
  OBVIOUS
<1>2. CASE n + 1 \in S
  <2>1. S \cap ((n + 1)..(n + 1)) = {} \cup {n + 1}
    BY <1>1, <1>2
  <2>2. Cardinality({} \cup {n + 1}) = 0 + 1
    BY FS_AddElement, FS_EmptySet
  <2> QED  BY <1>2, <2>1, <2>2 DEF Within
<1>3. CASE n + 1 \notin S
  <2>1. S \cap ((n + 1)..(n + 1)) = {}
    BY <1>1, <1>3
  <2> QED  BY <1>3, <2>1, FS_EmptySet DEF Within
<1> QED  BY <1>2, <1>3

LEMMA WithinSame ==
  ASSUME NEW S, NEW T, NEW i \in Nat, NEW n \in Nat,
         \A j \in (i + 1)..n : j \in S <=> j \in T
  PROVE  Within(S, i, n) = Within(T, i, n)
<1>1. S \cap ((i + 1)..n) = T \cap ((i + 1)..n)
  OBVIOUS
<1> QED  BY <1>1 DEF Within

\* The changes of kind t of user u in h, and how many more of those after i and
\* up to n are rollbacks than are updates.
Of(h, u, t) == {j \in Nat : h[j].entry.user = u /\ h[j].entry.type = t}
Over(h, u, i, n) == Within(Of(h, u, "rollback"), i, n) - Within(Of(h, u, "update"), i, n)

LEMMA OverIs ==
  ASSUME NEW h, NEW u, NEW i \in Nat, NEW m \in Nat, NEW n \in Nat, i <= m, m <= n
  PROVE  /\ Over(h, u, i, n) \in Int /\ Over(h, u, n, n) = 0
         /\ Over(h, u, i, n) = Over(h, u, i, m) + Over(h, u, m, n)
<1> DEFINE R == Of(h, u, "rollback")
           U == Of(h, u, "update")
<1>1. /\ Within(R, i, n) = Within(R, i, m) + Within(R, m, n)
      /\ Within(U, i, n) = Within(U, i, m) + Within(U, m, n)
  BY WithinSplit
<1>2. /\ Within(R, i, n) \in Nat /\ Within(U, i, n) \in Nat
      /\ Within(R, i, m) \in Nat /\ Within(U, i, m) \in Nat
      /\ Within(R, m, n) \in Nat /\ Within(U, m, n) \in Nat
      /\ Within(R, n, n) = 0 /\ Within(U, n, n) = 0
  BY WithinIs
<1> HIDE DEF R, U
<1>3. \A a, b : Over(h, u, a, b) = Within(R, a, b) - Within(U, a, b)
  BY DEF Over, R, U
<1> QED  BY <1>1, <1>2, <1>3

LEMMA OverType ==
  ASSUME NEW h, NEW u, NEW i \in Nat, NEW n \in Nat
  PROVE  Over(h, u, i, n) \in Int
<1>1. /\ Within(Of(h, u, "rollback"), i, n) \in Nat
      /\ Within(Of(h, u, "update"), i, n) \in Nat
  BY WithinIs
<1> QED  BY <1>1 DEF Over

\* One change more.
LEMMA OverOne ==
  ASSUME NEW h, NEW u, NEW n \in Nat
  PROVE  Over(h, u, n, n + 1) =
           IF h[n + 1].entry.user # u THEN 0
           ELSE IF h[n + 1].entry.type = "rollback" THEN 1
           ELSE IF h[n + 1].entry.type = "update" THEN -1 ELSE 0
<1>1. n + 1 \in Nat
  OBVIOUS
<1>2. /\ n + 1 \in Of(h, u, "rollback") <=> h[n + 1].entry.user = u /\ h[n + 1].entry.type = "rollback"
      /\ n + 1 \in Of(h, u, "update") <=> h[n + 1].entry.user = u /\ h[n + 1].entry.type = "update"
  BY <1>1 DEF Of
<1>3. \A t : Within(Of(h, u, t), n, n + 1) = IF n + 1 \in Of(h, u, t) THEN 1 ELSE 0
  BY WithinOne
<1>4. Over(h, u, n, n + 1) = (IF n + 1 \in Of(h, u, "rollback") THEN 1 ELSE 0)
                             - (IF n + 1 \in Of(h, u, "update") THEN 1 ELSE 0)
  BY <1>3 DEF Over
<1> QED  BY <1>2, <1>4

LEMMA OverSame ==
  ASSUME NEW h, NEW g, NEW u, NEW i \in Nat, NEW n \in Nat,
         \A j \in 1..n : h[j] = g[j]
  PROVE  Over(h, u, i, n) = Over(g, u, i, n)
<1>1. \A t : \A j \in (i + 1)..n : j \in Of(h, u, t) <=> j \in Of(g, u, t)
  BY DEF Of
<1>2. \A t : Within(Of(h, u, t), i, n) = Within(Of(g, u, t), i, n)
  BY <1>1, WithinSame
<1> QED  BY <1>2 DEF Over

-----------------------------------------------------------------------------
(* What a cell held                                                        *)

\* Cell k has the value v after the first n changes of h.
Held(h, k, n, v) ==
  \/ \E i \in 1..n : /\ h[i].entry.cell = k /\ v = h[i].after
                     /\ \A j \in (i + 1)..n : h[j].entry.cell # k
  \/ v = EmptyCell /\ \A i \in 1..n : h[i].entry.cell # k

LEMMA HeldOne ==
  ASSUME NEW h, NEW k, NEW n \in Nat, NEW v, NEW w
  PROVE  /\ Held(h, k, 0, v) <=> v = EmptyCell
         /\ Held(h, k, n, v) /\ Held(h, k, n, w) => v = w
<1>1. Held(h, k, 0, v) <=> v = EmptyCell
  BY DEF Held
<1>2. Held(h, k, n, v) /\ Held(h, k, n, w) => v = w
  BY DEF Held
<1> QED  BY <1>1, <1>2

LEMMA HeldNext ==
  ASSUME NEW h, NEW k, NEW n \in Nat, NEW v
  PROVE  Held(h, k, n + 1, v) <=> IF h[n + 1].entry.cell = k THEN v = h[n + 1].after
                                  ELSE Held(h, k, n, v)
<1>1. CASE h[n + 1].entry.cell = k
  <2>1. Held(h, k, n + 1, v) => v = h[n + 1].after
    BY <1>1 DEF Held
  <2>2. ASSUME v = h[n + 1].after PROVE Held(h, k, n + 1, v)
    <3>1. n + 1 \in 1..(n + 1) /\ \A j \in ((n + 1) + 1)..(n + 1) : FALSE
      OBVIOUS
    <3> QED  BY <1>1, <2>2, <3>1 DEF Held
  <2> QED  BY <1>1, <2>1, <2>2
<1>2. CASE h[n + 1].entry.cell # k
  <2>1. \A i \in 1..(n + 1) : i \in 1..n \/ i = n + 1
    OBVIOUS
  <2>2. \A i \in 1..n : (\A j \in (i + 1)..(n + 1) : h[j].entry.cell # k)
                        <=> (\A j \in (i + 1)..n : h[j].entry.cell # k)
    BY <1>2
  <2>3. (\A i \in 1..(n + 1) : h[i].entry.cell # k) <=> (\A i \in 1..n : h[i].entry.cell # k)
    BY <1>2, <2>1
  <2>4. \A i \in 1..n : i \in 1..(n + 1)
    OBVIOUS
  <2> QED  BY <1>2, <2>1, <2>2, <2>3, <2>4 DEF Held
<1> QED  BY <1>1, <1>2

LEMMA HeldSame ==
  ASSUME NEW h, NEW g, NEW k, NEW n \in Nat, NEW v, \A i \in 1..n : h[i] = g[i]
  PROVE  Held(h, k, n, v) <=> Held(g, k, n, v)
<1>1. \A i \in 1..n : \A j \in (i + 1)..n : j \in 1..n
  OBVIOUS
<1> QED  BY <1>1 DEF Held

-----------------------------------------------------------------------------
(* Updates and the rollbacks that undo them nest                           *)

\* Change j of h is an update of user u.
IsUpdate(h, u, j) == h[j].entry.user = u /\ h[j].entry.type = "update"

\* After change a and up to b only user u has changed cell k.
Only(h, u, k, a, b) == \A j \in (a + 1)..b : h[j].entry.cell = k => h[j].entry.user = u

\* Each update of u after a and up to b has been undone by then, so that cells
\* which nobody else has changed have their values back.
Undid(h, u, a, b) ==
  /\ a \in Nat /\ b \in Nat /\ a <= b
  /\ \A j \in (a + 1)..b : IsUpdate(h, u, j) => Over(h, u, j, b) > 0
  /\ \A k : Only(h, u, k, a, b) => \A v : Held(h, k, a, v) <=> Held(h, k, b, v)

LEMMA UndidNothing == ASSUME NEW h, NEW u, NEW a \in Nat PROVE Undid(h, u, a, a)
<1>1. \A j \in (a + 1)..a : FALSE
  OBVIOUS
<1> QED  BY <1>1 DEF Undid

LEMMA UndidSame ==
  ASSUME NEW h, NEW g, NEW u, NEW n \in Nat, \A i \in 1..n : h[i] = g[i],
         NEW a, NEW b, b <= n, Undid(h, u, a, b)
  PROVE  Undid(g, u, a, b)
<1>1. a \in Nat /\ b \in Nat /\ a <= b
  BY DEF Undid
<1>2. /\ \A i \in 1..b : h[i] = g[i]
      /\ \A i \in 1..a : h[i] = g[i]
  BY <1>1
<1>3. ASSUME NEW j \in (a + 1)..b, IsUpdate(g, u, j) PROVE Over(g, u, j, b) > 0
  <2>1. j \in 1..b /\ j \in Nat
    BY <1>1
  <2>2. IsUpdate(h, u, j)
    BY <1>2, <1>3, <2>1 DEF IsUpdate
  <2>3. Over(h, u, j, b) > 0
    BY <2>2 DEF Undid
  <2>4. Over(h, u, j, b) = Over(g, u, j, b)
    BY <1>1, <1>2, <2>1, OverSame
  <2> QED  BY <2>3, <2>4
<1>4. ASSUME NEW k, Only(g, u, k, a, b), NEW v PROVE Held(g, k, a, v) <=> Held(g, k, b, v)
  <2>1. Only(h, u, k, a, b)
    BY <1>1, <1>2, <1>4 DEF Only
  <2>2. Held(h, k, a, v) <=> Held(h, k, b, v)
    BY <2>1 DEF Undid
  <2>3. /\ Held(h, k, a, v) <=> Held(g, k, a, v)
        /\ Held(h, k, b, v) <=> Held(g, k, b, v)
    BY <1>1, <1>2, HeldSame
  <2> QED  BY <2>2, <2>3
<1> QED  BY <1>1, <1>3, <1>4 DEF Undid

\* Another user's change undoes nothing.
LEMMA UndidOther ==
  ASSUME NEW h, NEW u, NEW a, NEW n, Undid(h, u, a, n), h[n + 1].entry.user # u
  PROVE  Undid(h, u, a, n + 1) /\ Over(h, u, a, n + 1) = Over(h, u, a, n)
<1>1. a \in Nat /\ n \in Nat /\ a <= n /\ n + 1 \in Nat
  BY DEF Undid
<1>2. Over(h, u, n, n + 1) = 0
  BY <1>1, OverOne
<1>3. ASSUME NEW j \in Nat, j <= n PROVE Over(h, u, j, n + 1) = Over(h, u, j, n)
  <2>1. Over(h, u, j, n + 1) = Over(h, u, j, n) + Over(h, u, n, n + 1)
    BY <1>1, <1>3, OverIs
  <2>2. Over(h, u, j, n) \in Int
    BY <1>1, OverType
  <2> QED  BY <1>2, <2>1, <2>2
<1>4. ASSUME NEW j \in (a + 1)..(n + 1), IsUpdate(h, u, j) PROVE Over(h, u, j, n + 1) > 0
  <2>1. j # n + 1
    BY <1>4 DEF IsUpdate
  <2>2. j \in (a + 1)..n /\ j \in Nat /\ j <= n
    BY <1>1, <2>1
  <2>3. Over(h, u, j, n) > 0
    BY <1>4, <2>2 DEF Undid
  <2> QED  BY <1>3, <2>2, <2>3
<1>5. ASSUME NEW k, Only(h, u, k, a, n + 1), NEW v PROVE Held(h, k, a, v) <=> Held(h, k, n + 1, v)
  <2>1. n + 1 \in (a + 1)..(n + 1) /\ \A j \in (a + 1)..n : j \in (a + 1)..(n + 1)
    BY <1>1
  <2>2. h[n + 1].entry.cell # k /\ Only(h, u, k, a, n)
    BY <1>5, <2>1 DEF Only
  <2>3. Held(h, k, n + 1, v) <=> Held(h, k, n, v)
    BY <1>1, <2>2, HeldNext
  <2> QED  BY <2>2, <2>3 DEF Undid
<1> QED  BY <1>1, <1>3, <1>4, <1>5 DEF Undid

\* A rollback that puts back what was there before the last update.
LEMMA UndidRollback ==
  ASSUME NEW h, NEW u, NEW a, NEW t \in Nat, NEW n,
         Undid(h, u, a, t - 1), IsUpdate(h, u, t), Undid(h, u, t, n), Over(h, u, t, n) = 0,
         h[n + 1].entry.user = u, h[n + 1].entry.type = "rollback",
         h[n + 1].entry.cell = h[t].entry.cell, h[n + 1].after = h[t].before,
         Held(h, h[t].entry.cell, t - 1, h[t].before)
  PROVE  Undid(h, u, a, n + 1) /\ Over(h, u, a, n + 1) = Over(h, u, a, t - 1)
<1>1. /\ a \in Nat /\ t - 1 \in Nat /\ n \in Nat /\ n + 1 \in Nat /\ a <= t - 1 /\ t <= n
      /\ (t - 1) + 1 = t
  BY DEF Undid
<1>2. Over(h, u, n, n + 1) = 1
  BY <1>1, OverOne
<1>3. Over(h, u, t - 1, t) = -1
  <2>1. Over(h, u, t - 1, (t - 1) + 1) = -1
    BY <1>1, OverOne DEF IsUpdate
  <2> QED  BY <1>1, <2>1
<1>4. Over(h, u, t, n + 1) = 1
  <2>1. Over(h, u, t, n + 1) = Over(h, u, t, n) + Over(h, u, n, n + 1)
    BY <1>1, OverIs
  <2> QED  BY <1>2, <2>1
<1>5. ASSUME NEW j \in Nat, j <= t - 1 PROVE Over(h, u, j, n + 1) = Over(h, u, j, t - 1)
  <2>1. Over(h, u, j, n + 1) = Over(h, u, j, t - 1) + Over(h, u, t - 1, n + 1)
    BY <1>1, <1>5, OverIs
  <2>2. Over(h, u, t - 1, n + 1) = Over(h, u, t - 1, t) + Over(h, u, t, n + 1)
    BY <1>1, OverIs
  <2>3. Over(h, u, j, t - 1) \in Int
    BY <1>1, OverType
  <2> QED  BY <1>3, <1>4, <2>1, <2>2, <2>3
<1>6. ASSUME NEW j \in (a + 1)..(n + 1), IsUpdate(h, u, j) PROVE Over(h, u, j, n + 1) > 0
  <2>1. j # n + 1
    BY <1>6 DEF IsUpdate
  <2>2. CASE j < t
    <3>1. j \in (a + 1)..(t - 1) /\ j \in Nat /\ j <= t - 1
      BY <1>1, <2>2
    <3>2. Over(h, u, j, t - 1) > 0
      BY <1>6, <3>1 DEF Undid
    <3> QED  BY <1>5, <3>1, <3>2
  <2>3. CASE j = t
    BY <1>4, <2>3
  <2>4. CASE j > t
    <3>1. j \in (t + 1)..n /\ j \in Nat /\ j <= n
      BY <1>1, <2>1, <2>4
    <3>2. Over(h, u, j, n) > 0
      BY <1>6, <3>1 DEF Undid
    <3>3. Over(h, u, j, n + 1) = Over(h, u, j, n) + Over(h, u, n, n + 1)
      BY <1>1, <3>1, OverIs
    <3>4. Over(h, u, j, n) \in Int
      BY <1>1, <3>1, OverType
    <3> QED  BY <1>2, <3>2, <3>3, <3>4
  <2> QED  BY <1>1, <2>2, <2>3, <2>4
<1>7. ASSUME NEW k, Only(h, u, k, a, n + 1), NEW v PROVE Held(h, k, a, v) <=> Held(h, k, n + 1, v)
  <2>1. /\ \A j \in (a + 1)..(t - 1) : j \in (a + 1)..(n + 1)
        /\ \A j \in (t + 1)..n : j \in (a + 1)..(n + 1)
    BY <1>1
  <2>2. Only(h, u, k, a, t - 1) /\ Only(h, u, k, t, n)
    BY <1>7, <2>1 DEF Only
  <2>3. /\ Held(h, k, a, v) <=> Held(h, k, t - 1, v)
        /\ Held(h, k, t, v) <=> Held(h, k, n, v)
    BY <2>2 DEF Undid
  <2>4. Held(h, k, n + 1, v) <=> IF h[n + 1].entry.cell = k THEN v = h[n + 1].after
                                 ELSE Held(h, k, n, v)
    BY <1>1, HeldNext
  <2>5. CASE h[t].entry.cell = k
    <3>1. Held(h, k, t - 1, h[t].before)
      BY <2>5
    <3>2. Held(h, k, t - 1, v) <=> v = h[t].before
      BY <1>1, <3>1, HeldOne
    <3> QED  BY <2>3, <2>4, <2>5, <3>2
  <2>6. CASE h[t].entry.cell # k
    <3>1. Held(h, k, (t - 1) + 1, v) <=> IF h[(t - 1) + 1].entry.cell = k
                                         THEN v = h[(t - 1) + 1].after
                                         ELSE Held(h, k, t - 1, v)
      BY <1>1, HeldNext
    <3>2. Held(h, k, t, v) <=> Held(h, k, t - 1, v)
      BY <1>1, <2>6, <3>1
    <3> QED  BY <2>3, <2>4, <2>6, <3>2
  <2> QED  BY <2>5, <2>6
<1>8. Over(h, u, a, n + 1) = Over(h, u, a, t - 1)
  BY <1>1, <1>5
<1> QED  BY <1>1, <1>6, <1>7, <1>8 DEF Undid

-----------------------------------------------------------------------------
(* What is left to undo                                                    *)

\* The changes between which everything has been undone.
Floor(s, p)   == IF p = 0 THEN 0 ELSE s[p]
Ceil(s, p, n) == IF p < Len(s) THEN s[p + 1] - 1 ELSE n

\* s is what is left to undo of user u after n changes of h.
Stacked(h, u, n, s) ==
  /\ s \in Seq(1..n)
  /\ \A p \in 1..Len(s) : IsUpdate(h, u, s[p]) /\ Over(h, u, s[p], Ceil(s, p, n)) = 0
  /\ \A p \in 0..Len(s) : Undid(h, u, Floor(s, p), Ceil(s, p, n))

LEMMA StackedNone == ASSUME NEW h, NEW u PROVE Stacked(h, u, 0, <<>>)
<1>1. /\ <<>> \in Seq(1..0) /\ Len(<<>>) = 0
      /\ \A p \in 1..0 : FALSE
      /\ \A p \in 0..0 : p = 0
  OBVIOUS
<1>2. Floor(<<>>, 0) = 0 /\ Ceil(<<>>, 0, 0) = 0
  BY <1>1 DEF Floor, Ceil
<1>3. Undid(h, u, 0, 0)
  BY UndidNothing
<1> QED  BY <1>1, <1>2, <1>3 DEF Stacked

LEMMA StackedSame ==
  ASSUME NEW h, NEW g, NEW u, NEW n \in Nat, NEW s, \A i \in 1..n : h[i] = g[i],
         Stacked(h, u, n, s)
  PROVE  Stacked(g, u, n, s)
<1>1. s \in Seq(1..n) /\ Len(s) \in Nat
  BY DEF Stacked
<1>2. \A p \in 0..Len(s) : Ceil(s, p, n) <= n
  BY <1>1 DEF Ceil
<1>3. ASSUME NEW p \in 0..Len(s) PROVE Undid(g, u, Floor(s, p), Ceil(s, p, n))
  <2>1. Undid(h, u, Floor(s, p), Ceil(s, p, n)) /\ Ceil(s, p, n) <= n
    BY <1>2 DEF Stacked
  <2> QED  BY <2>1, UndidSame
<1>4. ASSUME NEW p \in 1..Len(s)
      PROVE  IsUpdate(g, u, s[p]) /\ Over(g, u, s[p], Ceil(s, p, n)) = 0
  <2>1. IsUpdate(h, u, s[p]) /\ Over(h, u, s[p], Ceil(s, p, n)) = 0 /\ s[p] \in 1..n
    BY <1>1 DEF Stacked
  <2>2. p \in 0..Len(s)
    BY <1>1
  <2>3. Ceil(s, p, n) \in Nat /\ Ceil(s, p, n) <= n /\ s[p] \in Nat
    BY <1>2, <2>1, <2>2 DEF Stacked, Undid
  <2>4. \A j \in 1..Ceil(s, p, n) : h[j] = g[j]
    BY <2>3
  <2>5. Over(h, u, s[p], Ceil(s, p, n)) = Over(g, u, s[p], Ceil(s, p, n))
    BY <2>3, <2>4, OverSame
  <2>6. IsUpdate(g, u, s[p])
    BY <2>1 DEF IsUpdate
  <2> QED  BY <2>1, <2>5, <2>6
<1> QED  BY <1>1, <1>3, <1>4 DEF Stacked

LEMMA StackedOther ==
  ASSUME NEW h, NEW u, NEW n \in Nat, NEW s, Stacked(h, u, n, s), h[n + 1].entry.user # u
  PROVE  Stacked(h, u, n + 1, s)
<1>1. s \in Seq(1..n) /\ Len(s) \in Nat /\ \A p \in 1..Len(s) : s[p] \in 1..n
  BY DEF Stacked
<1>2. s \in Seq(1..(n + 1))
  <2>1. 1..n \subseteq 1..(n + 1)
    OBVIOUS
  <2> QED  BY <1>1, <2>1, SeqMono
<1>3. /\ \A p \in 0..Len(s) : p # Len(s) => Ceil(s, p, n + 1) = Ceil(s, p, n)
      /\ Ceil(s, Len(s), n + 1) = n + 1 /\ Ceil(s, Len(s), n) = n
      /\ Len(s) \in 0..Len(s) /\ \A p \in 1..Len(s) : p \in 0..Len(s)
  BY <1>1 DEF Ceil
<1>4. Undid(h, u, Floor(s, Len(s)), n)
  BY <1>3 DEF Stacked
<1>5. /\ Undid(h, u, Floor(s, Len(s)), n + 1)
      /\ Over(h, u, Floor(s, Len(s)), n + 1) = Over(h, u, Floor(s, Len(s)), n)
  BY <1>4, UndidOther
<1>6. \A p \in 0..Len(s) : Undid(h, u, Floor(s, p), Ceil(s, p, n + 1))
  BY <1>3, <1>5 DEF Stacked
<1>7. ASSUME NEW p \in 1..Len(s)
      PROVE  IsUpdate(h, u, s[p]) /\ Over(h, u, s[p], Ceil(s, p, n + 1)) = 0
  <2>1. IsUpdate(h, u, s[p]) /\ Over(h, u, s[p], Ceil(s, p, n)) = 0
    BY DEF Stacked
  <2>2. CASE p = Len(s)
    <3>1. Floor(s, p) = s[p]
      BY DEF Floor
    <3> QED  BY <1>3, <1>5, <2>1, <2>2, <3>1
  <2>3. CASE p # Len(s)
    BY <1>3, <2>1, <2>3
  <2> QED  BY <2>2, <2>3
<1> QED  BY <1>2, <1>6, <1>7 DEF Stacked

LEMMA StackedUpdate ==
  ASSUME NEW h, NEW u, NEW n \in Nat, NEW s, Stacked(h, u, n, s), IsUpdate(h, u, n + 1)
  PROVE  Stacked(h, u, n + 1, Append(s, n + 1))
<1> DEFINE r == Append(s, n + 1)
<1>1. s \in Seq(1..n) /\ Len(s) \in Nat
  BY DEF Stacked
<1>2. s \in Seq(1..(n + 1))
  <2>1. 1..n \subseteq 1..(n + 1)
    OBVIOUS
  <2> QED  BY <1>1, <2>1, SeqMono
<1>3. /\ r \in Seq(1..(n + 1)) /\ Len(r) = Len(s) + 1 /\ r[Len(s) + 1] = n + 1
      /\ \A p \in 1..Len(s) : r[p] = s[p]
  BY <1>2
<1> HIDE DEF r
<1>4. /\ \A p \in 0..Len(s) : Ceil(r, p, n + 1) = Ceil(s, p, n) /\ Floor(r, p) = Floor(s, p)
      /\ Ceil(r, Len(s) + 1, n + 1) = n + 1 /\ Floor(r, Len(s) + 1) = n + 1
      /\ \A p \in 0..Len(r) : p \in 0..Len(s) \/ p = Len(s) + 1
      /\ \A p \in 1..Len(r) : p \in 1..Len(s) \/ p = Len(s) + 1
      /\ \A p \in 1..Len(s) : p \in 0..Len(s)
  <2>1. ASSUME NEW p \in 0..Len(s)
        PROVE  Ceil(r, p, n + 1) = Ceil(s, p, n) /\ Floor(r, p) = Floor(s, p)
    <3>1. CASE p = Len(s)
      <4>1. p < Len(r) /\ ~(p < Len(s)) /\ r[p + 1] = n + 1 /\ (n + 1) - 1 = n
        BY <1>1, <1>3, <3>1
      <4>2. Ceil(r, p, n + 1) = r[p + 1] - 1 /\ Ceil(s, p, n) = n
        BY <4>1 DEF Ceil
      <4>3. Ceil(r, p, n + 1) = Ceil(s, p, n)
        BY <4>1, <4>2
      <4>4. CASE p = 0
        BY <4>3, <4>4 DEF Floor
      <4>5. CASE p # 0
        <5>1. p \in 1..Len(s)
          BY <1>1, <4>5
        <5> QED  BY <1>3, <4>3, <4>5, <5>1 DEF Floor
      <4> QED  BY <4>4, <4>5
    <3>2. CASE p # Len(s)
      <4>1. p + 1 \in 1..Len(s) /\ p < Len(s) /\ p < Len(r)
        BY <1>1, <1>3, <3>2
      <4> QED  BY <1>1, <1>3, <4>1 DEF Ceil, Floor
    <3> QED  BY <3>1, <3>2
  <2>2. Ceil(r, Len(s) + 1, n + 1) = n + 1 /\ Floor(r, Len(s) + 1) = n + 1
    BY <1>1, <1>3 DEF Ceil, Floor
  <2>3. /\ \A p \in 0..Len(r) : p \in 0..Len(s) \/ p = Len(s) + 1
        /\ \A p \in 1..Len(r) : p \in 1..Len(s) \/ p = Len(s) + 1
        /\ \A p \in 1..Len(s) : p \in 0..Len(s)
    BY <1>1, <1>3
  <2> QED  BY <2>1, <2>2, <2>3
<1>5. Undid(h, u, n + 1, n + 1) /\ Over(h, u, n + 1, n + 1) = 0
  <2>1. n + 1 \in Nat /\ n + 1 <= n + 1
    OBVIOUS
  <2> QED  BY <2>1, UndidNothing, OverIs
<1>6. \A p \in 0..Len(r) : Undid(h, u, Floor(r, p), Ceil(r, p, n + 1))
  BY <1>4, <1>5 DEF Stacked
<1>7. \A p \in 1..Len(r) : IsUpdate(h, u, r[p]) /\ Over(h, u, r[p], Ceil(r, p, n + 1)) = 0
  BY <1>3, <1>4, <1>5 DEF Stacked
<1> QED  BY <1>3, <1>6, <1>7 DEF Stacked, r

LEMMA StackedRollback ==
  ASSUME NEW h, NEW u, NEW n \in Nat, NEW s, Stacked(h, u, n, s), s # <<>>,
         NEW t, t = s[Len(s)],
         h[n + 1].entry.user = u, h[n + 1].entry.type = "rollback",
         h[n + 1].entry.cell = h[t].entry.cell, h[n + 1].after = h[t].before,
         Held(h, h[t].entry.cell, t - 1, h[t].before)
  PROVE  Stacked(h, u, n + 1, SubSeq(s, 1, Len(s) - 1))
<1> DEFINE m == Len(s) - 1
           r == SubSeq(s, 1, m)
<1>1. /\ s \in Seq(1..n) /\ Len(s) \in Nat /\ Len(s) # 0 /\ m \in Nat /\ m + 1 = Len(s)
      /\ t \in 1..n /\ t \in Nat
  BY DEF Stacked
<1>2. r \in Seq(1..n) /\ Len(r) = m /\ \A p \in 1..m : r[p] = s[p]
  BY <1>1
<1>3. r \in Seq(1..(n + 1))
  <2>1. 1..n \subseteq 1..(n + 1)
    OBVIOUS
  <2> HIDE DEF r
  <2> QED  BY <1>2, <2>1, SeqMono
<1> HIDE DEF r, m
<1>4. /\ \A p \in 0..m : p # m => Ceil(r, p, n + 1) = Ceil(s, p, n)
      /\ \A p \in 0..m : Floor(r, p) = Floor(s, p)
      /\ Ceil(r, m, n + 1) = n + 1 /\ Ceil(s, m, n) = t - 1
      /\ Ceil(s, Len(s), n) = n /\ Floor(s, Len(s)) = t
      /\ \A p \in 0..m : p \in 0..Len(s)
      /\ \A p \in 1..m : p \in 1..Len(s) /\ p \in 0..m
      /\ m \in 0..m /\ Len(s) \in 0..Len(s) /\ Len(s) \in 1..Len(s)
  BY <1>1, <1>2 DEF Ceil, Floor
<1>5. /\ Undid(h, u, Floor(s, m), t - 1) /\ Undid(h, u, t, n)
      /\ IsUpdate(h, u, t) /\ Over(h, u, t, n) = 0
  BY <1>4 DEF Stacked
<1>6. /\ Undid(h, u, Floor(s, m), n + 1)
      /\ Over(h, u, Floor(s, m), n + 1) = Over(h, u, Floor(s, m), t - 1)
  <2>1. PICK a : a = Floor(s, m)
    OBVIOUS
  <2>2. Undid(h, u, a, t - 1)
    BY <1>5, <2>1
  <2>3. /\ t \in Nat /\ Undid(h, u, a, t - 1) /\ IsUpdate(h, u, t) /\ Undid(h, u, t, n)
        /\ Over(h, u, t, n) = 0 /\ h[n + 1].entry.user = u /\ h[n + 1].entry.type = "rollback"
        /\ h[n + 1].entry.cell = h[t].entry.cell /\ h[n + 1].after = h[t].before
        /\ Held(h, h[t].entry.cell, t - 1, h[t].before)
    BY <1>1, <1>5, <2>2
  <2>4. Undid(h, u, a, n + 1) /\ Over(h, u, a, n + 1) = Over(h, u, a, t - 1)
    BY <2>3, UndidRollback, ZenonT(60)
  <2> QED  BY <2>1, <2>4
<1>7. \A p \in 0..m : Undid(h, u, Floor(r, p), Ceil(r, p, n + 1))
  BY <1>4, <1>6 DEF Stacked
<1>8. ASSUME NEW p \in 1..m
      PROVE  IsUpdate(h, u, r[p]) /\ Over(h, u, r[p], Ceil(r, p, n + 1)) = 0
  <2>1. r[p] = s[p] /\ IsUpdate(h, u, s[p]) /\ Over(h, u, s[p], Ceil(s, p, n)) = 0
    BY <1>2, <1>4 DEF Stacked
  <2>2. CASE p = m
    <3>1. Floor(s, p) = s[p]
      BY DEF Floor
    <3> QED  BY <1>4, <1>6, <2>1, <2>2, <3>1
  <2>3. CASE p # m
    BY <1>4, <2>1, <2>3
  <2> QED  BY <2>2, <2>3
<1> QED  BY <1>2, <1>3, <1>7, <1>8 DEF Stacked, r, m

-----------------------------------------------------------------------------
(* What handleRollBack finds in the log                                    *)

\* The entries of changes in a log, and those of kind t of user u.
OfChanges(es) == {j \in Nat : es[j].type \in Kinds}
OfUser(es, u, t) == {j \in Nat : es[j].user = u /\ es[j].type = t}

LEMMA ChangesWithin ==
  ASSUME NEW es, NEW i \in Nat
  PROVE  Changes(es, i) = Within(OfChanges(es), 0, i)
<1>1. {j \in 1..i : es[j].type \in {"update", "rollback"}} = OfChanges(es) \cap ((0 + 1)..i)
  BY DEF OfChanges, Kinds
<1> QED  BY <1>1 DEF Changes, Within

LEMMA ChangesMono ==
  ASSUME NEW es, NEW i \in Nat, NEW j \in Nat
  PROVE  /\ i <= j => Changes(es, i) <= Changes(es, j)
         /\ i < j /\ es[j].type \in Kinds => Changes(es, i) < Changes(es, j)
<1>1. ASSUME NEW m \in Nat, i <= m PROVE Changes(es, i) <= Changes(es, m)
  <2>1. 0 \in Nat /\ 0 <= i
    OBVIOUS
  <2>2. Within(OfChanges(es), 0, m) = Within(OfChanges(es), 0, i) + Within(OfChanges(es), i, m)
    BY <1>1, <2>1, WithinSplit
  <2>3. Within(OfChanges(es), 0, i) \in Nat /\ Within(OfChanges(es), i, m) \in Nat
    BY <2>1, WithinIs
  <2> QED  BY <2>2, <2>3, ChangesWithin
<1>2. ASSUME i < j, es[j].type \in Kinds PROVE Changes(es, i) < Changes(es, j)
  <2>1. j - 1 \in Nat /\ i <= j - 1 /\ (j - 1) + 1 = j
    BY <1>2
  <2>2. Changes(es, i) <= Changes(es, j - 1)
    BY <1>1, <2>1
  <2>3. /\ Changes(es, (j - 1) + 1)
             = Changes(es, j - 1) + IF es[(j - 1) + 1].type \in Kinds THEN 1 ELSE 0
        /\ Changes(es, j - 1) \in Nat /\ Changes(es, i) \in Nat
    BY <2>1, ChangesIs
  <2> QED  BY <1>2, <2>1, <2>2, <2>3
<1> QED  BY <1>1, <1>2

\* Every change that is counted has an entry.
LEMMA ChangesReach ==
  ASSUME NEW es, NEW n \in Nat, NEW m \in 1..Changes(es, n)
  PROVE  \E j \in 1..n : es[j].type \in Kinds /\ Changes(es, j) = m
<1> DEFINE T == {j \in Nat : Changes(es, j) >= m}
<1>1. \A j \in Nat : Changes(es, j) \in Nat
  BY ChangesIs
<1>2. n \in T /\ m \in Nat
  BY <1>1
<1>3. PICK j \in T : \A y \in T : j <= y
  <2>1. T \in SUBSET Nat /\ T # {}
    BY <1>2
  <2> HIDE DEF T
  <2> QED  BY <2>1, Least
<1>4. j # 0
  <2>1. Changes(es, 0) = 0
    BY ChangesIs
  <2> QED  BY <1>3, <2>1
<1>5. j - 1 \in Nat /\ j - 1 \notin T /\ j \in 1..n /\ (j - 1) + 1 = j
  BY <1>2, <1>3, <1>4
<1>6. Changes(es, (j - 1) + 1)
        = Changes(es, j - 1) + IF es[(j - 1) + 1].type \in Kinds THEN 1 ELSE 0
  BY <1>5, ChangesIs
<1>7. /\ Changes(es, j) = Changes(es, j - 1) + IF es[j].type \in Kinds THEN 1 ELSE 0
      /\ Changes(es, j) >= m /\ Changes(es, j - 1) < m
      /\ Changes(es, j) \in Nat /\ Changes(es, j - 1) \in Nat
  BY <1>1, <1>2, <1>3, <1>5, <1>6
<1>8. es[j].type \in Kinds
  <2> SUFFICES ASSUME es[j].type \notin Kinds PROVE FALSE
    OBVIOUS
  <2> QED  BY <1>2, <1>7
<1>9. Changes(es, j) = m
  BY <1>2, <1>7, <1>8
<1> QED  BY <1>5, <1>8, <1>9

\* The log es says of the cells what happened: h.
Tells(es, h) ==
  /\ Len(es) \in Nat /\ Len(h) \in Nat /\ DOMAIN es = 1..Len(es)
  /\ Changes(es, Len(es)) = Len(h)
  /\ \A i \in 1..Len(es) : es[i].type \in Kinds =>
       Changes(es, i) \in 1..Len(h) /\ es[i] = h[Changes(es, i)].entry

\* Then it has as many updates and rollbacks of each user, from any entry on.
LEMMA CountsAlike ==
  ASSUME NEW es, NEW h, Tells(es, h), NEW u, NEW t \in Kinds, NEW n \in 0..Len(es)
  PROVE  Within(OfUser(es, u, t), 0, n) = Within(Of(h, u, t), 0, Changes(es, n))
<1> DEFINE W(i) == Within(OfUser(es, u, t), 0, i)
           V(i) == Within(Of(h, u, t), 0, i)
           T == {i \in 0..Len(es) : W(i) # V(Changes(es, i))}
<1> SUFFICES ASSUME T # {} PROVE FALSE
  OBVIOUS
<1>1. Len(es) \in Nat /\ \A i \in Nat : Changes(es, i) \in Nat
  BY ChangesIs DEF Tells
<1>2. PICK i \in T : \A y \in T : i <= y
  <2>1. T \in SUBSET Nat
    BY <1>1
  <2> HIDE DEF T
  <2> QED  BY <2>1, Least
<1>3. i # 0
  <2>1. Changes(es, 0) = 0 /\ W(0) = 0 /\ V(0) = 0
    BY ChangesIs, WithinIs
  <2> HIDE DEF W, V
  <2> QED  BY <1>2, <2>1
<1> DEFINE m == i - 1
           k == Changes(es, m)
<1>4. m \in Nat /\ m + 1 = i /\ m \in 0..Len(es) /\ m \notin T /\ i \in 1..Len(es)
  <2>1. i \in 0..Len(es)
    OBVIOUS
  <2> HIDE DEF T
  <2>2. m \in Nat /\ m + 1 = i /\ m \in 0..Len(es) /\ ~(i <= m) /\ i \in 1..Len(es)
    BY <1>1, <1>3, <2>1
  <2> HIDE DEF m
  <2> QED  BY <1>2, <2>2
<1>5. W(m) = V(k)
  BY <1>4
<1> HIDE DEF T, m
<1>6. k \in Nat
  BY <1>1, <1>4
<1>7. Changes(es, i) = k + IF es[i].type \in Kinds THEN 1 ELSE 0
  <2>1. Changes(es, m + 1) = Changes(es, m) + IF es[m + 1].type \in Kinds THEN 1 ELSE 0
    BY <1>4, ChangesIs
  <2> QED  BY <1>4, <2>1
<1> HIDE DEF k
<1>8. W(m + 1) = W(m) + IF m + 1 \in OfUser(es, u, t) THEN 1 ELSE 0
  <2>1. m + 1 \in Nat /\ 0 \in Nat /\ 0 <= m /\ m <= m + 1
    BY <1>4
  <2> QED  BY <1>4, <2>1, WithinSplit, WithinOne
<1>9. V(k + 1) = V(k) + IF k + 1 \in Of(h, u, t) THEN 1 ELSE 0
  <2>1. k + 1 \in Nat /\ 0 \in Nat /\ 0 <= k /\ k <= k + 1
    BY <1>6
  <2> QED  BY <1>6, <2>1, WithinSplit, WithinOne
<1> HIDE DEF W, V
<1>10. i \in OfUser(es, u, t) <=> es[i].user = u /\ es[i].type = t
  BY <1>4 DEF OfUser
<1>11. CASE es[i].type \in Kinds
  <2>1. Changes(es, i) = k + 1
    BY <1>7, <1>11
  <2>2. es[i] = h[k + 1].entry
    BY <1>4, <1>11, <2>1 DEF Tells
  <2>3. k + 1 \in Of(h, u, t) <=> i \in OfUser(es, u, t)
    BY <1>6, <1>10, <2>2 DEF Of
  <2>4. W(i) = V(Changes(es, i))
    BY <1>4, <1>5, <1>8, <1>9, <2>1, <2>3
  <2> QED  BY <1>2, <2>4 DEF T
<1>12. CASE es[i].type \notin Kinds
  <2>1. Changes(es, i) = k /\ i \notin OfUser(es, u, t)
    BY <1>6, <1>7, <1>10, <1>12
  <2>2. W(m) \in Nat
    BY <1>4, WithinIs DEF W
  <2>3. W(i) = V(Changes(es, i))
    BY <1>4, <1>5, <1>8, <2>1, <2>2
  <2> QED  BY <1>2, <2>3 DEF T
<1> QED  BY <1>11, <1>12

LEMMA AfterIs ==
  ASSUME NEW es, NEW h, Tells(es, h), NEW u, NEW t \in Kinds, NEW i \in 1..Len(es)
  PROVE  After(es, u, t, i) = Within(Of(h, u, t), Changes(es, i), Len(h))
<1>1. /\ Len(es) \in Nat /\ Len(h) \in Nat /\ Changes(es, Len(es)) = Len(h)
      /\ i \in Nat /\ i <= Len(es) /\ 0 \in Nat /\ 0 <= i
      /\ i \in 0..Len(es) /\ Len(es) \in 0..Len(es)
  BY DEF Tells
<1>2. Changes(es, i) \in Nat /\ Changes(es, i) <= Len(h) /\ 0 <= Changes(es, i)
  BY <1>1, ChangesIs, ChangesMono
<1>3. After(es, u, t, i) = Within(OfUser(es, u, t), i, Len(es))
  <2>1. {j \in (i + 1)..Len(es) : es[j].user = u /\ es[j].type = t}
          = OfUser(es, u, t) \cap ((i + 1)..Len(es))
    BY <1>1 DEF OfUser
  <2> QED  BY <2>1 DEF After, Within
<1> DEFINE W(a, b) == Within(OfUser(es, u, t), a, b)
           V(a, b) == Within(Of(h, u, t), a, b)
<1>4. W(0, Len(es)) = W(0, i) + W(i, Len(es))
  BY <1>1, WithinSplit
<1>5. V(0, Len(h)) = V(0, Changes(es, i)) + V(Changes(es, i), Len(h))
  BY <1>1, <1>2, WithinSplit
<1>6. W(0, Len(es)) = V(0, Len(h)) /\ W(0, i) = V(0, Changes(es, i))
  BY <1>1, CountsAlike
<1>7. /\ W(0, i) \in Nat /\ W(i, Len(es)) \in Nat
      /\ V(Changes(es, i), Len(h)) \in Nat /\ V(0, Changes(es, i)) \in Nat
  BY <1>1, <1>2, WithinIs
<1>8. W(i, Len(es)) = V(Changes(es, i), Len(h))
  <2> HIDE DEF W, V
  <2> QED  BY <1>4, <1>5, <1>6, <1>7
<1> QED  BY <1>3, <1>8

\* The update it stops at is the last of its user that is not undone.
LEMMA AimsAt ==
  ASSUME NEW es, NEW h, Tells(es, h), NEW u, NEW i \in 1..Len(es)
  PROVE  i \in Aims(es, u) <=> /\ es[i].type = "update" /\ es[i].user = u
                               /\ Over(h, u, Changes(es, i), Len(h)) = 0
<1>1. /\ After(es, u, "rollback", i) = Within(Of(h, u, "rollback"), Changes(es, i), Len(h))
      /\ After(es, u, "update", i) = Within(Of(h, u, "update"), Changes(es, i), Len(h))
  BY AfterIs DEF Kinds
<1>2. i \in DOMAIN es /\ Len(h) \in Nat /\ Changes(es, i) \in Nat
  BY ChangesIs DEF Tells
<1>3. /\ Within(Of(h, u, "rollback"), Changes(es, i), Len(h)) \in Nat
      /\ Within(Of(h, u, "update"), Changes(es, i), Len(h)) \in Nat
  BY <1>2, WithinIs
<1>4. After(es, u, "rollback", i) = After(es, u, "update", i)
        <=> Over(h, u, Changes(es, i), Len(h)) = 0
  BY <1>1, <1>3 DEF Over
<1> QED  BY <1>2, <1>4 DEF Aims

LEMMA AimIsTop ==
  ASSUME NEW es, NEW h, Tells(es, h), NEW u, NEW s, Stacked(h, u, Len(h), s),
         NEW i \in Aims(es, u), \A j \in Aims(es, u) : j <= i
  PROVE  s # <<>> /\ Changes(es, i) = s[Len(s)]
<1> DEFINE n == Len(h)
           t == Changes(es, i)
<1>1. i \in 1..Len(es) /\ n \in Nat /\ Len(es) \in Nat /\ Changes(es, Len(es)) = n
  BY DEF Aims, Tells
<1>2. es[i].type = "update" /\ es[i].user = u /\ Over(h, u, t, n) = 0
  BY <1>1, AimsAt
<1>3. t \in 1..n /\ IsUpdate(h, u, t)
  BY <1>1, <1>2 DEF Tells, Kinds, IsUpdate
<1> HIDE DEF n, t
<1>4. /\ s \in Seq(1..n) /\ Len(s) \in Nat
      /\ Ceil(s, Len(s), n) = n /\ Undid(h, u, Floor(s, Len(s)), n)
  <2>1. s \in Seq(1..n) /\ Len(s) \in Nat
    BY DEF Stacked, n
  <2>2. Ceil(s, Len(s), n) = n /\ Len(s) \in 0..Len(s)
    BY <2>1 DEF Ceil
  <2> QED  BY <2>1, <2>2 DEF Stacked, n
<1>5. ~(t > Floor(s, Len(s)))
  <2> SUFFICES ASSUME t > Floor(s, Len(s)) PROVE FALSE
    OBVIOUS
  <2>1. Floor(s, Len(s)) \in Nat
    BY <1>4 DEF Undid
  <2>2. t \in (Floor(s, Len(s)) + 1)..n
    BY <1>1, <1>3, <2>1
  <2>3. Over(h, u, t, n) > 0
    BY <1>3, <1>4, <2>2 DEF Undid
  <2> QED  BY <1>2, <2>3 DEF n, t
<1>6. s # <<>> /\ Len(s) # 0
  <2>1. Floor(s, Len(s)) # 0
    BY <1>1, <1>3, <1>5
  <2>2. Len(s) # 0
    BY <2>1 DEF Floor
  <2> QED  BY <2>2
<1> DEFINE x == s[Len(s)]
<1>7. /\ Floor(s, Len(s)) = x /\ x \in 1..n
      /\ IsUpdate(h, u, x) /\ Over(h, u, x, n) = 0
  <2>1. Len(s) \in 1..Len(s)
    BY <1>4, <1>6
  <2>2. x \in 1..n
    <3>1. \A S : s \in Seq(S) => s[Len(s)] \in S
      BY <2>1
    <3> QED  BY <1>4, <3>1
  <2>3. Floor(s, Len(s)) = x
    BY <1>6 DEF Floor
  <2> QED  BY <1>4, <2>1, <2>2, <2>3 DEF Stacked, n
<1> HIDE DEF x
<1>8. PICK j \in 1..Len(es) : es[j].type \in Kinds /\ Changes(es, j) = x
  <2>1. x \in 1..Changes(es, Len(es))
    BY <1>1, <1>7
  <2> QED  BY <1>1, <2>1, ChangesReach
<1>9. es[j].type = "update" /\ es[j].user = u
  <2>1. es[j] = h[x].entry
    BY <1>8 DEF Tells
  <2> QED  BY <1>7, <2>1 DEF IsUpdate
<1>10. j \in Aims(es, u)
  BY <1>7, <1>8, <1>9, AimsAt DEF n
<1>11. j <= i
  BY <1>10
<1>12. x <= t
  <2>1. Changes(es, j) <= Changes(es, i)
    BY <1>1, <1>8, <1>11, ChangesMono
  <2> QED  BY <1>8, <2>1 DEF t
<1>13. t = x
  BY <1>1, <1>3, <1>5, <1>7, <1>12
<1> QED  BY <1>6, <1>13 DEF t, x

\* Change n of h, if it is a rollback, undoes the last update of its user that
\* is not undone.
Undoes(h, n) ==
  h[n].entry.type = "rollback" =>
    LET s == Undoable(h, h[n].entry.user, n - 1)
        i == s[Len(s)]
    IN /\ s # <<>>
       /\ h[n].entry.cell = h[i].entry.cell
       /\ h[n].after = h[i].before
       /\ MayUndo(h, i, n - 1)

Stacks(h) == \A u : \A n \in 0..Len(h) : Stacked(h, u, n, Undoable(h, u, n))

\* The last update that is left to undo is one.
LEMMA TopIs ==
  ASSUME NEW h, NEW u, NEW n \in Nat, NEW s, Stacked(h, u, n, s), s # <<>>
  PROVE  s[Len(s)] \in 1..n /\ IsUpdate(h, u, s[Len(s)])
<1>1. s \in Seq(1..n) /\ Len(s) \in 1..Len(s)
  BY DEF Stacked
<1>2. \A S : s \in Seq(S) => s[Len(s)] \in S
  BY <1>1
<1> QED  BY <1>1, <1>2 DEF Stacked

\* If the log has no update of the cell by another user, there is no rollback
\* by another user either: that would have undone an update of the cell which
\* is before this one, and this one is in between.
LEMMA NotTaken ==
  ASSUME NEW es, NEW h, Tells(es, h), Stacks(h), \A n \in 1..Len(h) : Undoes(h, n),
         NEW i \in 1..Len(es), es[i].type = "update", ~Taken(es, i)
  PROVE  MayUndo(h, Changes(es, i), Len(h))
<1> DEFINE t == Changes(es, i)
           n == Len(h)
           k == h[t].entry.cell
           u == h[t].entry.user
<1>1. /\ t \in 1..n /\ n \in Nat /\ Len(es) \in Nat /\ Changes(es, Len(es)) = n
      /\ es[i] = h[t].entry
  BY DEF Tells, Kinds
<1>2. ASSUME NEW j \in (t + 1)..n, h[j].entry.cell = k, h[j].entry.user # u,
             h[j].entry.type = "update"
      PROVE  FALSE
  <2>1. PICK p \in 1..Len(es) : es[p].type \in Kinds /\ Changes(es, p) = j
    <3>1. j \in 1..Changes(es, Len(es))
      BY <1>1
    <3> QED  BY <1>1, <3>1, ChangesReach
  <2>2. es[p] = h[j].entry
    BY <2>1 DEF Tells
  <2>3. p > i
    <3>1. p <= i => Changes(es, p) <= Changes(es, i)
      BY <1>1, <2>1, ChangesMono
    <3>2. ~(j <= t)
      BY <1>1
    <3> QED  BY <1>1, <2>1, <3>1, <3>2
  <2>4. p \in (i + 1)..Len(es)
    BY <1>1, <2>3
  <2> QED  BY <1>1, <1>2, <2>2, <2>4 DEF Taken
<1>3. ASSUME NEW j \in (t + 1)..n, h[j].entry.cell = k, h[j].entry.user # u,
             h[j].entry.type = "rollback"
      PROVE  FALSE
  <2> DEFINE w == h[j].entry.user
             s == Undoable(h, w, j - 1)
             x == s[Len(s)]
  <2>1. j \in 1..n /\ j - 1 \in 0..n /\ j - 1 \in Nat /\ j \in Nat
    BY <1>1
  <2>2. s # <<>> /\ h[j].entry.cell = h[x].entry.cell /\ MayUndo(h, x, j - 1)
    BY <1>3, <2>1 DEF Undoes
  <2>3. Stacked(h, w, j - 1, s)
    BY <2>1 DEF Stacks
  <2> HIDE DEF s
  <2>4. x \in 1..(j - 1) /\ IsUpdate(h, w, x)
    BY <2>1, <2>2, <2>3, TopIs
  <2> HIDE DEF x
  <2>5. h[x].entry.cell = k /\ h[x].entry.user # u /\ h[x].entry.type = "update"
    BY <1>3, <2>2, <2>4 DEF IsUpdate
  <2>6. x # t
    BY <2>5
  <2>7. CASE x > t
    <3>1. x \in (t + 1)..n
      BY <1>1, <2>1, <2>4, <2>7
    <3> QED  BY <1>2, <2>5, <3>1
  <2>8. CASE x < t
    <3>1. t \in (x + 1)..(j - 1)
      BY <1>1, <2>1, <2>4, <2>8
    <3>2. h[t].entry.user = h[x].entry.user
      BY <2>2, <2>5, <3>1 DEF MayUndo
    <3> QED  BY <2>5, <3>2
  <2> QED  BY <1>1, <2>4, <2>6, <2>7, <2>8
<1>4. ASSUME NEW j \in (t + 1)..n PROVE h[j].entry.type \in Kinds
  <2>1. PICK p \in 1..Len(es) : es[p].type \in Kinds /\ Changes(es, p) = j
    <3>1. j \in 1..Changes(es, Len(es))
      BY <1>1
    <3> QED  BY <1>1, <3>1, ChangesReach
  <2> QED  BY <2>1 DEF Tells
<1>5. \A j \in (t + 1)..n : h[j].entry.cell = k => h[j].entry.user = u
  BY <1>2, <1>3, <1>4 DEF Kinds
<1> QED  BY <1>5 DEF MayUndo

-----------------------------------------------------------------------------
(* What is written back                                                    *)

\* A value has no blanks before its end.
Packed(b) == \A i, j \in 1..Width : i <= j /\ b[i] = Blank => b[j] = Blank

LEMMA EmptyIs == /\ Packed(EmptyCell) /\ \A i \in 1..Width : EmptyCell[i] = Blank
  BY DEF Packed, EmptyCell

LEMMA LookIs ==
  ASSUME NEW v \in Short
  PROVE  \A i \in 1..Width : Look(v)[i] = IF i <= Len(v) THEN v[i] ELSE Blank
<1>1. \A i \in 1..Width : Put(EmptyCell, v)[i] = IF i <= Len(v) THEN v[i] ELSE EmptyCell[i]
  BY EmptyType, PutType
<1> QED  BY <1>1, EmptyIs DEF Look

\* So far is it filled.
LEMMA SolidPacked ==
  ASSUME NEW b \in CellType, Packed(b)
  PROVE  /\ Solid(b) \in 0..Width
         /\ \A i \in 1..Width : b[i] # Blank <=> i <= Solid(b)
<1> DEFINE T == {i \in DOMAIN b : \A j \in 1..i : b[j] # Blank}
<1>1. Width \in Nat /\ DOMAIN b = 1..Width
  BY BoundAssumption DEF CellType
<1>2. \A i \in 1..Width : i \in T <=> b[i] # Blank
  <2> SUFFICES ASSUME NEW i \in 1..Width PROVE i \in T <=> b[i] # Blank
    OBVIOUS
  <2>1. i \in 1..i
    BY <1>1
  <2>2. \A j \in 1..i : j \in 1..Width /\ j <= i
    BY <1>1
  <2> QED  BY <1>1, <2>1, <2>2 DEF Packed
<1>3. T \in SUBSET (0..Width) /\ T \subseteq 1..Width
  BY <1>1
<1>4. Solid(b) = Cardinality(T)
  BY DEF Solid
<1> HIDE DEF T
<1>5. CASE T = {}
  <2>1. Solid(b) = 0
    BY <1>4, <1>5, FS_EmptySet
  <2> QED  BY <1>1, <1>2, <1>5, <2>1
<1>6. CASE T # {}
  <2>1. PICK q \in T : \A y \in T : y <= q
    BY <1>1, <1>3, <1>6, Greatest
  <2>2. q \in 1..Width /\ b[q] # Blank
    BY <1>2, <1>3, <2>1
  <2>3. \A i \in 1..q : i \in 1..Width /\ b[i] # Blank
    BY <1>1, <2>2 DEF Packed
  <2>4. T = 1..q
    <3>1. \A i \in 1..q : i \in T
      BY <1>2, <2>3
    <3>2. \A i \in T : i \in 1..q
      BY <1>1, <1>3, <2>1, <2>2
    <3> QED  BY <3>1, <3>2
  <2>5. Cardinality(1..q) = q
    <3>1. 1 \in Int /\ q \in Int /\ ~(1 > q)
      BY <1>1, <2>2
    <3>2. Cardinality(1..q) = IF 1 > q THEN 0 ELSE q - 1 + 1
      BY <3>1, FS_Interval
    <3> QED  BY <3>1, <3>2
  <2>6. Solid(b) = q
    BY <1>4, <2>4, <2>5
  <2> QED  BY <1>1, <1>2, <2>2, <2>4, <2>6
<1> QED  BY <1>5, <1>6

\* The old value handleUpdate notes is all of it.
LEMMA LookOld ==
  ASSUME NEW b \in CellType, Packed(b)
  PROVE  Look(OldValue(b)) = b
<1>1. Width \in Nat \ {0} /\ b \in Seq(Unit) /\ Len(b) = Width
  BY BoundAssumption DEF CellType
<1>2. OldValue(b) \in Short
  BY OldValueType
<1>3. Look(OldValue(b)) \in CellType
  BY <1>2, LookType
<1>4. \A i \in 1..Width : Look(OldValue(b))[i]
                          = IF i <= Len(OldValue(b)) THEN OldValue(b)[i] ELSE Blank
  BY <1>2, LookIs
<1>5. Solid(b) \in 0..Width /\ \A i \in 1..Width : b[i] # Blank <=> i <= Solid(b)
  BY SolidPacked
<1>6. CASE Solid(b) = 0
  <2>1. OldValue(b) = <<Blank>> /\ Len(<<Blank>>) = 1 /\ <<Blank>>[1] = Blank
    BY <1>6 DEF OldValue
  <2>2. \A i \in 1..Width : Look(OldValue(b))[i] = b[i]
    BY <1>1, <1>4, <1>5, <1>6, <2>1
  <2> QED  BY <1>3, <2>2, CellEqual
<1>7. CASE Solid(b) # 0
  <2>1. OldValue(b) = SubSeq(b, 1, Solid(b))
    BY <1>7 DEF OldValue
  <2>2. /\ Len(SubSeq(b, 1, Solid(b))) = Solid(b)
        /\ \A i \in 1..Solid(b) : SubSeq(b, 1, Solid(b))[i] = b[i]
    BY <1>1, <1>5
  <2>3. \A i \in 1..Width : Look(OldValue(b))[i] = b[i]
    BY <1>1, <1>4, <1>5, <2>1, <2>2
  <2> QED  BY <1>3, <2>3, CellEqual
<1> QED  BY <1>6, <1>7

\* A rollback brings it back over the value that is undone.
LEMMA PutBack ==
  ASSUME NEW b \in CellType, NEW old \in Short, NEW new \in Short, b = Look(old)
  PROVE  Put(Put(b, new), Pad(old, new)) = b
<1> DEFINE p == Pad(old, new)
           c == Put(b, new)
<1>1. /\ p \in Short /\ Len(p) = IF Len(old) < Len(new) THEN Len(new) ELSE Len(old)
      /\ \A i \in 1..Len(p) : p[i] = IF i <= Len(old) THEN old[i] ELSE Blank
  BY PadType
<1>2. c \in CellType /\ \A i \in 1..Width : c[i] = IF i <= Len(new) THEN new[i] ELSE b[i]
  BY PutType
<1> HIDE DEF p, c
<1>3. Put(c, p) \in CellType /\ \A i \in 1..Width : Put(c, p)[i] = IF i <= Len(p) THEN p[i] ELSE c[i]
  BY <1>1, <1>2, PutType
<1>4. \A i \in 1..Width : b[i] = IF i <= Len(old) THEN old[i] ELSE Blank
  BY LookIs
<1>5. Len(old) \in Nat /\ Len(new) \in Nat /\ Width \in Nat
  BY BoundAssumption DEF Short
<1>6. \A i \in 1..Width : Put(c, p)[i] = b[i]
  BY <1>1, <1>2, <1>3, <1>4, <1>5
<1> QED  BY <1>3, <1>6, CellEqual DEF p, c

\* A new value has no blanks.
Full(v) == \A i \in 1..Len(v) : v[i] # Blank

LEMMA CutFull == ASSUME NEW v \in Values PROVE Full(Cut(v))
<1>1. v \in Seq(Unit \ {Blank}) /\ Width \in Nat
  BY ValueAssumption, BoundAssumption
<1> QED  BY <1>1 DEF Cut, Full

LEMMA PackedPut ==
  ASSUME NEW b \in CellType, Packed(b), NEW v \in Short, Full(v)
  PROVE  Packed(Put(b, v))
<1>1. \A i \in 1..Width : Put(b, v)[i] = IF i <= Len(v) THEN v[i] ELSE b[i]
  BY PutType
<1>2. Len(v) \in Nat /\ Width \in Nat
  BY BoundAssumption DEF Short
<1>3. ASSUME NEW i \in 1..Width, NEW j \in 1..Width, i <= j, Put(b, v)[i] = Blank
      PROVE  Put(b, v)[j] = Blank
  <2>1. ~(i <= Len(v))
    BY <1>1, <1>2, <1>3 DEF Full
  <2>2. ~(j <= Len(v))
    BY <1>2, <1>3, <2>1
  <2>3. b[i] = Blank
    BY <1>1, <1>3, <2>1
  <2> QED  BY <1>1, <1>3, <2>2, <2>3 DEF Packed
<1> QED  BY <1>3 DEF Packed

-----------------------------------------------------------------------------
(* What the journal says of values                                         *)

\* The journal says what is in the cells, and what was in them.
Traced ==
  /\ \A k \in Cells : Held(journal, k, Len(journal), content[k])
  /\ \A i \in 1..Len(journal) : Held(journal, journal[i].entry.cell, i - 1, journal[i].before)

LEMMA TracedInit == Init => Traced
<1> SUFFICES ASSUME Init PROVE Traced
  OBVIOUS
<1>1. Len(journal) = 0 /\ \A k \in Cells : content[k] = EmptyCell
  BY DEF Init, EmptyDoc
<1>2. \A k : Held(journal, k, 0, EmptyCell)
  BY HeldOne
<1> QED  BY <1>1, <1>2 DEF Traced

LEMMA TracedChange ==
  ASSUME Typed, Traced, NEW j \in ChangeType, journal' = Append(journal, j),
         j.before = content[j.entry.cell],
         content' = [content EXCEPT ![j.entry.cell] = j.after]
  PROVE  Traced'
<1> DEFINE n == Len(journal)
           g == journal'
<1>1. /\ n \in Nat /\ Len(g) = n + 1 /\ g[n + 1] = j
      /\ \A i \in 1..n : g[i] = journal[i]
      /\ \A i \in 1..(n + 1) : i \in 1..n \/ i = n + 1
  BY JournalGrows
<1>2. /\ j.entry.cell \in Cells /\ content'[j.entry.cell] = j.after
      /\ \A k \in Cells : k # j.entry.cell => content'[k] = content[k]
  <2>1. j.entry.cell \in Cells
    BY DEF ChangeType, Changing, Fitting
  <2> QED  BY <2>1 DEF Typed
<1>3. \A k \in Cells : Held(g, k, n, content[k])
  BY <1>1, HeldSame DEF Traced
<1> HIDE DEF g
<1>4. \A k \in Cells : Held(g, k, n + 1, content'[k])
  <2> SUFFICES ASSUME NEW k \in Cells PROVE Held(g, k, n + 1, content'[k])
    OBVIOUS
  <2>1. Held(g, k, n + 1, content'[k]) <=> IF g[n + 1].entry.cell = k THEN content'[k] = g[n + 1].after
                                           ELSE Held(g, k, n, content'[k])
    BY <1>1, HeldNext
  <2> QED  BY <1>1, <1>2, <1>3, <2>1
<1>5. ASSUME NEW i \in 1..(n + 1) PROVE Held(g, g[i].entry.cell, i - 1, g[i].before)
  <2>1. CASE i \in 1..n
    <3>1. i - 1 \in Nat /\ g[i] = journal[i] /\ \A m \in 1..(i - 1) : m \in 1..n
      BY <1>1, <2>1
    <3>2. \A m \in 1..(i - 1) : journal[m] = g[m]
      BY <1>1, <3>1
    <3>3. Held(journal, journal[i].entry.cell, i - 1, journal[i].before)
      BY <2>1 DEF Traced
    <3> QED  BY <3>1, <3>2, <3>3, HeldSame
  <2>2. CASE i = n + 1
    <3>1. (n + 1) - 1 = n
      BY <1>1
    <3> QED  BY <1>1, <1>2, <1>3, <2>2, <3>1
  <2> QED  BY <1>1, <2>1, <2>2
<1> QED  BY <1>1, <1>4, <1>5 DEF Traced, g

LEMMA TracedStep == Typed /\ Recorded /\ Traced /\ [Next]_vars => Traced'
<1> SUFFICES ASSUME Typed, Recorded, Traced, [Next]_vars PROVE Traced'
  OBVIOUS
<1>1. ASSUME NEW c \in Conns, UpdateWrite(c) PROVE Traced'
  BY <1>1, UpdateWriteIs, TracedChange
<1>2. ASSUME NEW c \in Conns, RollWrite(c) PROVE Traced'
  BY <1>2, RollWriteIs, TracedChange
<1>3. ASSUME UNCHANGED <<content, journal>> PROVE Traced'
  BY <1>3 DEF Traced
<1>4. ASSUME NEW c \in Conns,
             Open(c) \/ OpenSend(c) \/ OpenInfo(c) \/ Note(c) \/ Unlock(c) \/ Spread(c)
             \/ LogLen(c) \/ LogHead(c) \/ LogSlot(c) \/ RollLen(c) \/ RollLog(c)
      PROVE  UNCHANGED <<content, journal>>
  BY <1>4 DEF Open, OpenSend, OpenInfo, Note, Unlock, Spread, LogLen, LogHead, LogSlot, RollLen, RollLog
<1>5. ASSUME NEW c \in Conns, NEW k \in Cells, TryLock(c, k) \/ \E v \in Values : UpdateRead(c, k, v)
      PROVE  UNCHANGED <<content, journal>>
  BY <1>5 DEF TryLock, UpdateRead
<1>6. Crash \/ UNCHANGED vars => UNCHANGED <<content, journal>>
  BY DEF Crash, vars
<1> QED  BY <1>1, <1>2, <1>3, <1>4, <1>5, <1>6 DEF Next

-----------------------------------------------------------------------------
(* Rollbacks are exact                                                     *)

\* An update knows what is in its cell.
Knows(l) == content[l.entry.cell] = Look(l.entry.old) /\ Full(l.entry.new)

\* Cells are filled from their start, and updates have noted all they replace.
Filled ==
  /\ \A k \in Cells : Packed(content[k])
  /\ \A c \in Conns : pc[c] = "write" => Knows(local[c])
  /\ \A i \in 1..Len(journal) : Packed(journal[i].before)
  /\ \A i \in 1..Len(journal) : journal[i].entry.type = "update" =>
       journal[i].before = Look(journal[i].entry.old)

\* The entry e of a rollback by u is of the last update that is not undone.
Aimed(u, e) ==
  LET s == Undoable(journal, u, Len(journal))
      t == s[Len(s)]
  IN /\ s # <<>>
     /\ e = [journal[t].entry EXCEPT !.type = "rollback"]
     /\ MayUndo(journal, t, Len(journal))

\* A log of n entries has all the changes.
Whole(n) == \A i \in 1..Len(slots) : i > n => slots[i].type \notin Kinds

Aiming ==
  /\ \A c \in Conns : pc[c] = "rolllog" => Whole(local[c].len)
  /\ \A c \in Conns : pc[c] = "rollwrite" => Aimed(Me(c), local[c].entry)

Exacting ==
  /\ Filled
  /\ Stacks(journal)
  /\ \A n \in 1..Len(journal) : Undoes(journal, n)
  /\ Aiming

Unclean == {"log", "order", "torn", "behind"}
Exactly == upsets \cap Unclean = {} => Exacting

LEMMA ExactlyInit == Init => Exactly
<1> SUFFICES ASSUME Init PROVE Exacting
  BY DEF Exactly
<1>1. /\ journal = <<>> /\ Len(journal) = 0 /\ \A c \in Conns : pc[c] = "idle"
      /\ \A k \in Cells : content[k] = EmptyCell
  BY DEF Init, EmptyDoc
<1>2. Filled /\ Aiming
  BY <1>1, EmptyIs DEF Filled, Aiming
<1>3. ASSUME NEW u, NEW n \in 0..Len(journal) PROVE Stacked(journal, u, n, Undoable(journal, u, n))
  <2>1. n = 0 /\ 0 \in Nat
    BY <1>1
  <2>2. Undoable(journal, u, 0) = <<>>
    BY <2>1, UndoableIs
  <2>3. Stacked(journal, u, 0, <<>>)
    BY StackedNone
  <2> QED  BY <2>1, <2>2, <2>3
<1> QED  BY <1>1, <1>2, <1>3 DEF Exacting, Stacks

\* Beside a rollback nothing is logged but openings.
LEMMA NotBehind ==
  ASSUME NEW p, NEW l, NEW u, Overlap(p, l) \subseteq u, "behind" \notin u,
         NEW c \in Conns, NEW d \in Conns, c # d
  PROVE  /\ p[c] \in Undoing /\ p[d] \in Unlogged => l[d].entry.type = "open"
         /\ p[c] = "rollwrite" /\ p[d] = "write" => l[c].entry.cell # l[d].entry.cell
<1>1. "behind" \notin Overlap(p, l)
  OBVIOUS
<1> QED  BY <1>1 DEF Overlap

\* Steps that change no cell.
LEMMA ExactlyStay ==
  ASSUME Exacting, NEW c \in Conns, NEW s, NEW l, NEW x, Moves(c, s, l, x),
         UNCHANGED <<content, journal>>,
         \A n : Whole(n) => Whole(n)',
         s = "write" => Knows(l),
         s = "rolllog" => Whole(l.len)',
         s = "rollwrite" => Aimed(Me(c), l.entry)
  PROVE  Exacting'
<1>1. /\ pc'[c] = s /\ local'[c] = l
      /\ \A d \in Conns : d # c => pc'[d] = pc[d] /\ local'[d] = local[d]
  BY DEF Moves
<1>2. /\ \A m : Knows(m)' <=> Knows(m)
      /\ \A u, e : Aimed(u, e)' <=> Aimed(u, e)
  BY DEF Knows, Aimed
<1>3. Filled /\ Stacks(journal) /\ Aiming /\ \A n \in 1..Len(journal) : Undoes(journal, n)
  BY DEF Exacting
<1>4. Filled'
  <2>1. \A d \in Conns : pc'[d] = "write" =>
          content[local'[d].entry.cell] = Look(local'[d].entry.old) /\ Full(local'[d].entry.new)
    BY <1>1, <1>3 DEF Filled, Knows
  <2> QED  BY <1>3, <2>1 DEF Filled, Knows
<1>5. Aiming'
  <2>1. \A d \in Conns : pc'[d] = "rolllog" => \A n : n = local'[d].len => Whole(n)'
    <3> SUFFICES ASSUME NEW d \in Conns, pc'[d] = "rolllog", NEW n, n = local'[d].len PROVE Whole(n)'
      OBVIOUS
    <3>1. CASE d = c
      <4>1. Whole(l.len)' /\ n = l.len
        BY <1>1, <3>1
      <4> QED  BY <4>1 DEF Whole
    <3>2. CASE d # c
      <4>1. Whole(n)
        BY <1>1, <1>3, <3>2 DEF Aiming
      <4> QED  BY <4>1
    <3> QED  BY <3>1, <3>2
  <2>2. \A d \in Conns : pc'[d] = "rollwrite" => \A e : e = local'[d].entry => Aimed(Me(d), e)'
    <3> SUFFICES ASSUME NEW d \in Conns, pc'[d] = "rollwrite", NEW e, e = local'[d].entry
                 PROVE  Aimed(Me(d), e)
      BY <1>2
    <3> QED  BY <1>1, <1>3 DEF Aiming
  <2>3. \A d \in Conns : pc'[d] = "rolllog" => Whole(local[d].len)'
    BY <2>1 DEF Whole
  <2>4. \A d \in Conns : pc'[d] = "rollwrite" => Aimed(Me(d), local[d].entry)'
    BY <2>2 DEF Aimed, Me
  <2> QED  BY <2>3, <2>4 DEF Aiming
<1>6. Stacks(journal') /\ \A n \in 1..Len(journal') : Undoes(journal', n)
  BY <1>3
<1> QED  BY <1>4, <1>5, <1>6 DEF Exacting

\* Steps that change the cell of c.
LEMMA ExactlyChange ==
  ASSUME Typed, Exacting, Noticed', "behind" \notin upsets',
         NEW c \in Conns, NEW s \in {"unlock", "spread"}, NEW l, Moves(c, s, l, {}),
         l.entry = local[c].entry, local[c].entry \in Changing,
         NEW j \in ChangeType, journal' = Append(journal, j), j.entry = local[c].entry,
         content' = [content EXCEPT ![j.entry.cell] = j.after],
         Packed(j.before), Packed(j.after),
         j.entry.type = "update" => j.before = Look(j.entry.old),
         \A d \in Conns : d # c /\ pc[d] = "write" => local[d].entry.cell # j.entry.cell,
         \A u : Stacked(journal', u, Len(journal) + 1, Undoable(journal', u, Len(journal) + 1)),
         Undoes(journal', Len(journal) + 1)
  PROVE  Exacting'
<1> DEFINE n == Len(journal)
           g == journal'
<1>1. /\ n \in Nat /\ Len(g) = n + 1 /\ g[n + 1] = j
      /\ \A i \in 1..n : g[i] = journal[i]
      /\ \A i \in 1..(n + 1) : i \in 1..n \/ i = n + 1
  BY JournalGrows
<1>2. /\ pc'[c] = s /\ local'[c] = l
      /\ \A d \in Conns : d # c => pc'[d] = pc[d] /\ local'[d] = local[d]
  BY DEF Moves
<1>3. /\ j.entry.cell \in Cells /\ content'[j.entry.cell] = j.after
      /\ \A k \in Cells : k # j.entry.cell => content'[k] = content[k]
  <2>1. j.entry.cell \in Cells
    BY DEF ChangeType, Changing, Fitting
  <2> QED  BY <2>1 DEF Typed
<1>4. Filled /\ Stacks(journal) /\ \A i \in 1..n : Undoes(journal, i)
  BY DEF Exacting
<1>5. \A d \in Conns : pc'[d] \notin Undoing
  <2> SUFFICES ASSUME NEW d \in Conns, pc'[d] \in Undoing PROVE FALSE
    OBVIOUS
  <2>1. pc'[c] \in Unlogged /\ pc'[c] \notin Undoing /\ local'[c].entry.type # "open"
    BY <1>2 DEF Unlogged, Undoing, Changing, Kinds
  <2>2. Overlap(pc', local') \subseteq upsets' /\ d # c
    BY <2>1 DEF Noticed
  <2> QED  BY <2>1, <2>2, NotBehind
<1>6. Aiming'
  BY <1>5 DEF Aiming, Undoing
<1>7. Filled'
  <2>1. \A k \in Cells : Packed(content'[k])
    BY <1>3, <1>4 DEF Filled
  <2>2. \A d \in Conns : pc'[d] = "write" =>
          content'[local'[d].entry.cell] = Look(local'[d].entry.old) /\ Full(local'[d].entry.new)
    <3> SUFFICES ASSUME NEW d \in Conns, pc'[d] = "write"
                 PROVE  /\ content'[local'[d].entry.cell] = Look(local'[d].entry.old)
                        /\ Full(local'[d].entry.new)
      OBVIOUS
    <3>1. d # c
      BY <1>2
    <3>2. pc[d] = "write" /\ local'[d] = local[d] /\ local[d].entry.cell # j.entry.cell
      BY <1>2, <3>1
    <3> QED  BY <1>3, <1>4, <3>2, WriterCell DEF Filled, Knows
  <2>3. \A i \in 1..(n + 1) : /\ Packed(g[i].before)
                              /\ g[i].entry.type = "update" => g[i].before = Look(g[i].entry.old)
    <3> HIDE DEF g
    <3> QED  BY <1>1, <1>4 DEF Filled
  <2> QED  BY <1>1, <2>1, <2>2, <2>3 DEF Filled, Knows
<1> HIDE DEF g
<1>8. ASSUME NEW u, NEW i \in 0..n
      PROVE  Undoable(g, u, i) = Undoable(journal, u, i) /\ Stacked(g, u, i, Undoable(g, u, i))
  <2>1. i \in Nat /\ \A m \in 1..i : journal[m] = g[m]
    BY <1>1
  <2>2. Undoable(journal, u, i) = Undoable(g, u, i)
    BY <2>1, UndoableSame
  <2>3. Stacked(journal, u, i, Undoable(journal, u, i))
    BY <1>4 DEF Stacks
  <2>4. Stacked(g, u, i, Undoable(journal, u, i))
    BY <2>1, <2>3, StackedSame
  <2> QED  BY <2>2, <2>4
<1>9. Stacks(g)
  <2>1. \A i \in 0..(n + 1) : i \in 0..n \/ i = n + 1
    BY <1>1
  <2> QED  BY <1>1, <1>8, <2>1 DEF Stacks, g
<1>10. ASSUME NEW i \in 1..n PROVE Undoes(g, i)
  <2> SUFFICES ASSUME g[i].entry.type = "rollback"
               PROVE  LET t == Undoable(g, g[i].entry.user, i - 1)
                          m == t[Len(t)]
                      IN /\ t # <<>>
                         /\ g[i].entry.cell = g[m].entry.cell
                         /\ g[i].after = g[m].before
                         /\ MayUndo(g, m, i - 1)
    BY DEF Undoes
  <2> DEFINE u == g[i].entry.user
             t == Undoable(g, u, i - 1)
             m == t[Len(t)]
  <2>1. i - 1 \in 0..n /\ i - 1 \in Nat /\ g[i] = journal[i]
    BY <1>1
  <2>2. t = Undoable(journal, u, i - 1) /\ Stacked(g, u, i - 1, t)
    BY <1>8, <2>1
  <2>3. Undoes(journal, i)
    BY <1>4
  <2>4. /\ t # <<>> /\ journal[i].entry.cell = journal[m].entry.cell
        /\ journal[i].after = journal[m].before /\ MayUndo(journal, m, i - 1)
    BY <2>1, <2>2, <2>3 DEF Undoes
  <2> HIDE DEF t
  <2>5. m \in 1..(i - 1)
    BY <2>1, <2>2, <2>4, TopIs
  <2> HIDE DEF m
  <2>6. g[m] = journal[m] /\ \A y \in (m + 1)..(i - 1) : g[y] = journal[y]
    BY <1>1, <2>1, <2>5
  <2>7. MayUndo(g, m, i - 1)
    BY <2>4, <2>6 DEF MayUndo
  <2> QED  BY <2>1, <2>4, <2>6, <2>7 DEF m, t
<1>11. \A i \in 1..(n + 1) : Undoes(g, i)
  BY <1>1, <1>10 DEF g
<1> QED  BY <1>1, <1>6, <1>7, <1>9, <1>11 DEF Exacting, g

\* An update is one more change that can be undone.
LEMMA ExactlyUpdate ==
  ASSUME Typed, Recorded, Locked, Exacting, Noticed', "behind" \notin upsets',
         NEW c \in Conns, UpdateWrite(c)
  PROVE  Exacting'
<1>1. PICK l \in LocalType : Moves(c, "unlock", l, {}) /\ l.entry = local[c].entry
  BY UpdateWriteIs
<1>2. PICK j \in ChangeType : /\ journal' = Append(journal, j) /\ j.entry = local[c].entry
                              /\ j.before = content[j.entry.cell]
                              /\ j.after = Put(j.before, Written(j.entry))
                              /\ content' = [content EXCEPT ![j.entry.cell] = j.after]
  BY UpdateWriteIs
<1>3. pc[c] = "write" /\ j.entry \in Changing /\ j.entry.type = "update"
  BY <1>2, UpdateWriteIs DEF UpdateWrite
<1>4. j.before = Look(j.entry.old) /\ Full(j.entry.new) /\ Packed(j.before)
  <2>1. Knows(local[c])
    BY <1>3 DEF Exacting, Filled
  <2>2. j.entry.cell \in Cells
    BY <1>3 DEF Changing, Fitting
  <2> QED  BY <1>2, <2>1, <2>2 DEF Knows, Exacting, Filled
<1>5. Packed(j.after)
  <2>1. j.before \in CellType /\ j.entry.new \in Short /\ Written(j.entry) = j.entry.new
    BY <1>3 DEF ChangeType, Changing, Fitting, Written
  <2> QED  BY <1>2, <1>4, <2>1, PackedPut
<1>6. \A d \in Conns : d # c /\ pc[d] = "write" => local[d].entry.cell # j.entry.cell
  BY <1>2, <1>3 DEF Locked
<1> DEFINE n == Len(journal)
           g == journal'
<1>7. n \in Nat /\ g[n + 1] = j /\ \A i \in 1..n : journal[i] = g[i]
  BY <1>2, JournalGrows
<1>8. Undoes(g, n + 1)
  BY <1>3, <1>7 DEF Undoes
<1>9. ASSUME NEW u PROVE Stacked(g, u, n + 1, Undoable(g, u, n + 1))
  <2> HIDE DEF g
  <2> DEFINE s == Undoable(journal, u, n)
  <2>1. Stacked(journal, u, n, s)
    BY <1>7 DEF Exacting, Stacks
  <2>2. Stacked(g, u, n, s) /\ Undoable(g, u, n) = s
    BY <1>7, <2>1, StackedSame, UndoableSame
  <2>3. Undoable(g, u, n + 1) = Leftover(g, u, s, n + 1)
    BY <1>7, <2>2, UndoableIs
  <2> HIDE DEF s
  <2>4. CASE j.entry.user = u
    <3>1. IsUpdate(g, u, n + 1) /\ Leftover(g, u, s, n + 1) = Append(s, n + 1)
      BY <1>3, <1>7, <2>4 DEF IsUpdate, Leftover
    <3> QED  BY <1>7, <2>2, <2>3, <3>1, StackedUpdate
  <2>5. CASE j.entry.user # u
    <3>1. g[n + 1].entry.user # u /\ Leftover(g, u, s, n + 1) = s
      BY <1>7, <2>5 DEF Leftover
    <3> QED  BY <1>7, <2>2, <2>3, <3>1, StackedOther
  <2> QED  BY <2>4, <2>5
<1> QED  BY <1>1, <1>2, <1>3, <1>4, <1>5, <1>6, <1>8, <1>9, ExactlyChange

\* The cell a rollback is about has the value its update wrote.
LEMMA AimedCell ==
  ASSUME Typed, Recorded, Traced, Exacting, NEW u, NEW e, Aimed(u, e)
  PROVE  LET s == Undoable(journal, u, Len(journal))
             t == s[Len(s)]
         IN /\ s # <<>> /\ t \in 1..Len(journal) /\ IsUpdate(journal, u, t)
            /\ Stacked(journal, u, Len(journal), s)
            /\ MayUndo(journal, t, Len(journal))
            /\ e.cell = journal[t].entry.cell /\ e.user = u /\ e.type = "rollback"
            /\ Put(content[e.cell], Written(e)) = journal[t].before
<1> DEFINE n == Len(journal)
           s == Undoable(journal, u, n)
           t == s[Len(s)]
           f == journal[t].entry
           b == journal[t].before
<1>1. n \in Nat /\ journal \in Seq(ChangeType)
  BY DEF Typed
<1>2. /\ s # <<>> /\ e = [f EXCEPT !.type = "rollback"] /\ MayUndo(journal, t, n)
      /\ Stacked(journal, u, n, s)
  BY <1>1 DEF Aimed, Exacting, Stacks
<1> HIDE DEF s
<1>3. t \in 1..n /\ IsUpdate(journal, u, t)
  BY <1>1, <1>2, TopIs
<1> HIDE DEF t
<1>4. journal[t] \in ChangeType
  BY <1>1, <1>3
<1>5. /\ f \in Changing /\ b \in CellType /\ f.user = u /\ f.type = "update"
      /\ f.old \in Short /\ f.new \in Short /\ f.cell \in Cells
  BY <1>3, <1>4 DEF ChangeType, Changing, Fitting, IsUpdate
<1>6. /\ e.cell = f.cell /\ e.user = u /\ e.type = "rollback"
      /\ e.old = f.old /\ e.new = f.new
  <2> HIDE DEF f
  <2> QED  BY <1>2, <1>5 DEF Changing, Fitting
<1>7. journal[t].after = Put(b, f.new) /\ b = Look(f.old)
  BY <1>3, <1>5 DEF Recorded, Written, Exacting, Filled
<1>8. content[f.cell] = journal[t].after
  <2>1. Undid(journal, u, t, n)
    <3>1. Len(s) \in 0..Len(s) /\ Len(s) # 0
      BY <1>2 DEF Stacked
    <3>2. Floor(s, Len(s)) = t /\ Ceil(s, Len(s), n) = n
      BY <1>2, <3>1 DEF Floor, Ceil, Stacked, t
    <3> QED  BY <1>2, <3>1, <3>2 DEF Stacked
  <2>2. Only(journal, u, f.cell, t, n)
    BY <1>2, <1>5 DEF Only, MayUndo
  <2>3. Held(journal, f.cell, t, content[f.cell]) <=> Held(journal, f.cell, n, content[f.cell])
    BY <2>1, <2>2 DEF Undid
  <2>4. Held(journal, f.cell, n, content[f.cell])
    BY <1>5 DEF Traced
  <2>5. t - 1 \in Nat /\ (t - 1) + 1 = t
    BY <1>1, <1>3
  <2>6. Held(journal, f.cell, (t - 1) + 1, content[f.cell]) <=>
          IF journal[(t - 1) + 1].entry.cell = f.cell THEN content[f.cell] = journal[(t - 1) + 1].after
          ELSE Held(journal, f.cell, t - 1, content[f.cell])
    BY <2>5, HeldNext
  <2> QED  BY <2>3, <2>4, <2>5, <2>6
<1>9. Written(e) = Pad(f.old, f.new)
  BY <1>6 DEF Written
<1>10. Put(content[e.cell], Written(e)) = b
  <2>1. Put(Put(b, f.new), Pad(f.old, f.new)) = b
    BY <1>5, <1>7, PutBack
  <2> QED  BY <1>6, <1>7, <1>8, <1>9, <2>1
<1> QED  BY <1>2, <1>3, <1>6, <1>10 DEF s, t

LEMMA ExactlyRollback ==
  ASSUME Typed, Recorded, Traced, Noticed, Exacting, Noticed', "behind" \notin upsets',
         NEW c \in Conns, RollWrite(c)
  PROVE  Exacting'
<1>1. PICK l \in LocalType : Moves(c, "spread", l, {}) /\ l.entry = local[c].entry
  BY RollWriteIs
<1>2. PICK j \in ChangeType : /\ journal' = Append(journal, j) /\ j.entry = local[c].entry
                              /\ j.before = content[j.entry.cell]
                              /\ j.after = Put(j.before, Written(j.entry))
                              /\ content' = [content EXCEPT ![j.entry.cell] = j.after]
  BY RollWriteIs
<1>3. pc[c] = "rollwrite" /\ j.entry \in Changing /\ j.entry.type = "rollback"
  BY <1>2, RollWriteIs DEF RollWrite
<1> DEFINE n == Len(journal)
           g == journal'
           u == Me(c)
           s == Undoable(journal, u, n)
           t == s[Len(s)]
<1>4. Aimed(u, j.entry)
  BY <1>2, <1>3 DEF Exacting, Aiming
<1>5. /\ s # <<>> /\ t \in 1..n /\ IsUpdate(journal, u, t)
      /\ Stacked(journal, u, n, s) /\ MayUndo(journal, t, n)
      /\ j.entry.cell = journal[t].entry.cell /\ j.entry.user = u
      /\ j.after = journal[t].before
  BY <1>2, <1>4, AimedCell
<1>6. Packed(j.before) /\ Packed(j.after)
  <2>1. j.entry.cell \in Cells
    BY <1>3 DEF Changing, Fitting
  <2> QED  BY <1>2, <1>5, <2>1 DEF Exacting, Filled
<1>7. \A d \in Conns : d # c /\ pc[d] = "write" => local[d].entry.cell # j.entry.cell
  <2>1. Overlap(pc, local) \subseteq upsets /\ "behind" \notin upsets
    BY <1>1 DEF Noticed, Moves
  <2> QED  BY <1>2, <1>3, <2>1, NotBehind
<1>8. n \in Nat /\ g[n + 1] = j /\ \A i \in 1..n : journal[i] = g[i]
  BY <1>2, JournalGrows
<1> HIDE DEF g, s, u
<1>9. \A w : Stacked(journal, w, n, Undoable(journal, w, n))
  BY <1>8 DEF Exacting, Stacks
<1>10. \A w : /\ Undoable(g, w, n) = Undoable(journal, w, n)
              /\ Stacked(g, w, n, Undoable(g, w, n))
  BY <1>8, <1>9, StackedSame, UndoableSame
<1>11. Undoable(g, u, n) = s
  BY <1>10 DEF s
<1> HIDE DEF t
<1>12. g[t] = journal[t] /\ (n + 1) - 1 = n
  BY <1>5, <1>8
<1>13. Undoes(g, n + 1)
  <2>1. \A i \in (t + 1)..n : g[i] = journal[i]
    BY <1>5, <1>8
  <2>2. MayUndo(g, t, n)
    BY <1>5, <1>12, <2>1 DEF MayUndo
  <2>3. /\ g[n + 1].entry.user = u /\ g[n + 1].entry.cell = g[t].entry.cell
        /\ g[n + 1].after = g[t].before
    BY <1>5, <1>8, <1>12
  <2> QED  BY <1>5, <1>11, <1>12, <2>2, <2>3 DEF Undoes, t
<1>14. ASSUME NEW w PROVE Stacked(g, w, n + 1, Undoable(g, w, n + 1))
  <2> DEFINE r == Undoable(g, w, n)
  <2>1. Stacked(g, w, n, r)
    BY <1>10
  <2>2. Undoable(g, w, n + 1) = Leftover(g, w, r, n + 1)
    BY <1>8, UndoableIs
  <2> HIDE DEF r
  <2>3. CASE w = u
    <3>1. r = s
      BY <1>11, <2>3 DEF r
    <3>2. Leftover(g, w, r, n + 1) = SubSeq(s, 1, Len(s) - 1)
      BY <1>3, <1>5, <1>8, <2>3, <3>1 DEF Leftover
    <3>3. Held(journal, journal[t].entry.cell, t - 1, journal[t].before)
      BY <1>5 DEF Traced
    <3>4. Held(g, g[t].entry.cell, t - 1, g[t].before)
      <4>1. t - 1 \in Nat /\ \A i \in 1..(t - 1) : journal[i] = g[i]
        BY <1>5, <1>8
      <4> QED  BY <1>12, <3>3, <4>1, HeldSame
    <3>5. /\ Stacked(g, u, n, s) /\ t = s[Len(s)]
          /\ g[n + 1].entry.user = u /\ g[n + 1].entry.type = "rollback"
          /\ g[n + 1].entry.cell = g[t].entry.cell /\ g[n + 1].after = g[t].before
      BY <1>3, <1>5, <1>8, <1>12, <2>1, <2>3, <3>1 DEF t
    <3>6. Stacked(g, u, n + 1, SubSeq(s, 1, Len(s) - 1))
      BY <1>5, <1>8, <3>4, <3>5, StackedRollback
    <3> QED  BY <2>2, <2>3, <3>2, <3>6
  <2>4. CASE w # u
    <3>1. g[n + 1].entry.user # w /\ Leftover(g, w, r, n + 1) = r
      BY <1>5, <1>8, <2>4 DEF Leftover
    <3> QED  BY <1>8, <2>1, <2>2, <3>1, StackedOther
  <2> QED  BY <2>3, <2>4
<1> QED  BY <1>1, <1>2, <1>3, <1>6, <1>7, <1>13, <1>14, ExactlyChange DEF g

\* A rollback that reads the log finds what happened in it.
LEMMA ReadsAll ==
  ASSUME Typed, Noticed, Logged, Exacting, upsets \cap Unclean = {},
         NEW c \in Conns, pc[c] = "rolllog"
  PROVE  Tells(LogRead(local[c].len), journal)
<1> DEFINE m  == local[c].len
           es == LogRead(m)
<1>1. Even /\ Begun /\ Owed
  BY DEF Logged, Unclean, Spoiling
<1>2. m \in Nat /\ N \in Nat /\ Len(slots) \in Nat /\ Len(journal) \in Nat
  BY NType DEF Typed, LocalType
<1>3. /\ Len(es) = IF m < Len(slots) THEN m ELSE Len(slots)
      /\ \A i \in 1..Len(es) : es[i] = slots[i] /\ Changes(es, i) = Changes(slots, i)
      /\ Changes(es, Len(es)) = Changes(slots, Len(es))
  BY <1>1, <1>2, ReadsBack
<1>4. DOMAIN es = 1..Len(es)
  BY <1>2, LogReadIs
<1>5. N = Len(journal)
  <2>1. \A d \in Conns : ~Awaits(d)
    <3> SUFFICES ASSUME NEW d \in Conns, Awaits(d) PROVE FALSE
      OBVIOUS
    <3>1. pc[d] \in Unlogged /\ local[d].entry.type # "open" /\ c # d /\ pc[c] \in Undoing
      BY DEF Awaits, Kinds, Unlogged, Undoing
    <3>2. Overlap(pc, local) \subseteq upsets /\ "behind" \notin upsets
      BY DEF Noticed, Unclean
    <3> QED  BY <3>1, <3>2, NotBehind
  <2>2. N <= Len(journal) /\ \A i \in (N + 1)..Len(journal) : FALSE
    BY <1>1, <2>1 DEF Begun, Owed
  <2> QED  BY <1>2, <2>2
<1> HIDE DEF es, m
<1>6. Len(es) \in Nat /\ Len(es) <= Len(slots)
  BY <1>2, <1>3
<1>7. Changes(slots, Len(es)) = N
  <2>1. Whole(m)
    BY DEF Exacting, Aiming, m
  <2>2. \A i \in (Len(es) + 1)..Len(slots) : slots[i].type \notin Kinds
    BY <1>2, <1>3, <2>1 DEF Whole
  <2>3. OfChanges(slots) \cap ((Len(es) + 1)..Len(slots)) = {}
    BY <2>2 DEF OfChanges
  <2>4. Within(OfChanges(slots), Len(es), Len(slots)) = 0
    BY <2>3, FS_EmptySet DEF Within
  <2>5. Within(OfChanges(slots), 0, Len(slots))
          = Within(OfChanges(slots), 0, Len(es)) + Within(OfChanges(slots), Len(es), Len(slots))
    <3>1. 0 \in Nat /\ 0 <= Len(es)
      BY <1>6
    <3> QED  BY <1>2, <1>6, <3>1, WithinSplit
  <2>6. Within(OfChanges(slots), 0, Len(es)) \in Nat
    BY <1>6, WithinIs
  <2>7. /\ Changes(slots, Len(es)) = Within(OfChanges(slots), 0, Len(es))
        /\ N = Within(OfChanges(slots), 0, Len(slots))
    BY <1>2, <1>6, ChangesWithin DEF N
  <2> QED  BY <2>4, <2>5, <2>6, <2>7
<1>8. \A i \in 1..Len(es) : es[i].type \in Kinds =>
        Changes(es, i) \in 1..Len(journal) /\ es[i] = journal[Changes(es, i)].entry
  <2>1. \A i \in 1..Len(es) : i \in 1..Len(slots)
    BY <1>2, <1>6
  <2> QED  BY <1>1, <1>3, <2>1 DEF Begun
<1>9. Tells(es, journal)
  BY <1>2, <1>3, <1>4, <1>5, <1>6, <1>7, <1>8 DEF Tells
<1> QED  BY <1>9 DEF es, m

\* So it goes on with the last update that is not undone, or gives up.
LEMMA RollLogAims ==
  ASSUME Typed, Noticed, Logged, Exacting, upsets \cap Unclean = {},
         NEW c \in Conns, RollLog(c)
  PROVE  \/ Moves(c, "idle", NoLocal, {})
         \/ \E l : Moves(c, "rollwrite", l, {}) /\ Aimed(Me(c), l.entry)
<1> DEFINE es == LogRead(local[c].len)
           i  == Aim(es, Me(c))
<1>1. \/ Moves(c, "idle", NoLocal, {})
      \/ \E l : /\ Moves(c, "rollwrite", l, {})
                /\ i \in Aims(es, Me(c)) /\ \A j \in Aims(es, Me(c)) : j <= i
                /\ ~Taken(es, i)
                /\ l.entry = [es[i] EXCEPT !.type = "rollback"]
  BY RollLogMoves, Zenon
<1>2. Tells(es, journal)
  BY ReadsAll DEF RollLog
<1> HIDE DEF es, i
<1>3. ASSUME NEW l, Moves(c, "rollwrite", l, {}),
             i \in Aims(es, Me(c)), \A j \in Aims(es, Me(c)) : j <= i, ~Taken(es, i),
             l.entry = [es[i] EXCEPT !.type = "rollback"]
      PROVE  Aimed(Me(c), l.entry)
  <2> DEFINE s == Undoable(journal, Me(c), Len(journal))
             t == Changes(es, i)
  <2>1. Stacks(journal) /\ \A n \in 1..Len(journal) : Undoes(journal, n)
    BY DEF Exacting
  <2>2. Stacked(journal, Me(c), Len(journal), s)
    <3>1. Len(journal) \in 0..Len(journal)
      BY <1>2 DEF Tells
    <3> QED  BY <2>1, <3>1 DEF Stacks
  <2> HIDE DEF s
  <2>3. s # <<>> /\ t = s[Len(s)]
    BY <1>2, <1>3, <2>2, AimIsTop
  <2>4. i \in 1..Len(es) /\ es[i].type = "update"
    BY <1>2, <1>3 DEF Aims, Tells
  <2>5. MayUndo(journal, t, Len(journal))
    BY <1>2, <1>3, <2>1, <2>4, NotTaken
  <2>6. es[i] = journal[t].entry
    BY <1>2, <2>4 DEF Tells, Kinds
  <2> QED  BY <1>3, <2>3, <2>5, <2>6 DEF Aimed, s
<1> QED  BY <1>1, <1>3

LEMMA ExactlyStep ==
  /\ Typed /\ Recorded /\ Locked /\ Traced /\ Noticed /\ Noticed' /\ Logged /\ Exactly
  /\ [Next]_vars
  => Exactly'
<1> SUFFICES ASSUME Typed, Recorded, Locked, Traced, Noticed, Noticed', Logged, Exactly,
                    [Next]_vars, upsets' \cap Unclean = {}
             PROVE  Exacting'
  BY DEF Exactly
<1>a. ASSUME UNCHANGED slots PROVE \A n : Whole(n) => Whole(n)'
  BY <1>a DEF Whole
<1>b. ASSUME upsets \subseteq upsets' PROVE upsets \cap Unclean = {} /\ Exacting
  BY <1>b DEF Exactly
<1>c. ASSUME NEW c, NEW s, NEW l, NEW x, Moves(c, s, l, x) PROVE upsets \subseteq upsets'
  BY <1>c DEF Moves
<1>d. ASSUME NEW c \in Conns, NEW s, NEW l, NEW x, Moves(c, s, l, x),
             s \notin {"write", "rolllog", "rollwrite"}, UNCHANGED <<content, journal, slots>>
      PROVE  Exacting'
  BY <1>a, <1>b, <1>c, <1>d, ExactlyStay
<1>1. ASSUME NEW c \in Conns,
             Open(c) \/ OpenSend(c) \/ OpenInfo(c) \/ Note(c) \/ Unlock(c) \/ Spread(c)
             \/ LogLen(c) \/ LogHead(c)
      PROVE  Exacting'
  <2>1. \E s, l, x : Moves(c, s, l, x) /\ s \notin {"write", "rolllog", "rollwrite"}
    <3>1. CASE Open(c)
      BY <3>1, OpenMoves
    <3>2. CASE OpenSend(c)
      BY <3>2, OpenSendMoves
    <3>3. CASE Note(c) \/ OpenInfo(c)
      BY <3>3, DoneIs DEF Note, OpenInfo
    <3>4. CASE Spread(c)
      BY <3>4, SpreadMoves
    <3>5. CASE LogLen(c)
      BY <3>5, LogLenMoves
    <3>6. CASE LogHead(c)
      BY <3>6, LogHeadMoves
    <3>7. CASE Unlock(c)
      BY <3>7, UnlockMoves
    <3> QED  BY <1>1, <3>1, <3>2, <3>3, <3>4, <3>5, <3>6, <3>7
  <2>2. UNCHANGED <<content, journal, slots>>
    BY <1>1 DEF Open, OpenSend, OpenInfo, Note, Unlock, Spread, LogLen, LogHead, logged
  <2> QED  BY <1>d, <2>1, <2>2
<1>2. ASSUME NEW c \in Conns, NEW k \in Cells, TryLock(c, k) PROVE Exacting'
  <2>1. PICK l : Moves(c, "note", l, {})
    BY <1>2, TryLockMoves
  <2>2. UNCHANGED <<content, journal, slots>>
    BY <1>2 DEF TryLock, logged
  <2> QED  BY <1>d, <2>1, <2>2
<1>3. ASSUME NEW c \in Conns, NEW k \in Cells, NEW v \in Values, UpdateRead(c, k, v)
      PROVE  Exacting'
  <2>1. UNCHANGED <<content, journal, slots>>
    BY <1>3 DEF UpdateRead, logged
  <2>2. CASE Moves(c, "dead", NoLocal, {})
    BY <1>d, <2>1, <2>2
  <2>3. CASE \E l : /\ Moves(c, "write", l, {}) /\ l.entry.cell = k
                    /\ l.entry.old = OldValue(content[k]) /\ l.entry.new = Cut(v)
    <3>1. PICK l : /\ Moves(c, "write", l, {}) /\ l.entry.cell = k
                   /\ l.entry.old = OldValue(content[k]) /\ l.entry.new = Cut(v)
      BY <2>3
    <3>2. Exacting
      BY <1>b, <1>c, <3>1
    <3>3. content[k] \in CellType /\ Packed(content[k])
      BY <3>2 DEF Typed, Exacting, Filled
    <3>4. Knows(l)
      BY <3>1, <3>3, LookOld, CutFull DEF Knows
    <3>5. \A n : Whole(n) => Whole(n)'
      BY <1>a, <2>1
    <3> QED  BY <2>1, <3>1, <3>2, <3>4, <3>5, ExactlyStay
  <2>4. \/ Moves(c, "dead", NoLocal, {})
        \/ \E l : /\ Moves(c, "write", l, {}) /\ l.entry.cell = k
                  /\ l.entry.old = OldValue(content[k]) /\ l.entry.new = Cut(v)
    <3>1. \/ Moves(c, "dead", NoLocal, {})
          \/ \E l \in LocalType :
               /\ Moves(c, "write", l, {})
               /\ Solid(content[k]) < Width
               /\ l.entry = Entry("update", Me(c), k, OldValue(content[k]), Cut(v))
               /\ l.entry.type = "update" /\ l.entry.user = Me(c) /\ l.entry.cell = k
               /\ l.entry.old = OldValue(content[k]) /\ l.entry.new = Cut(v)
      BY <1>3, UpdateReadMoves
    <3> QED  BY <3>1
  <2> QED  BY <2>2, <2>3, <2>4
<1>4. ASSUME NEW c \in Conns, UpdateWrite(c) PROVE Exacting'
  <2>1. PICK l : Moves(c, "unlock", l, {})
    BY <1>4, UpdateWriteIs
  <2>2. Exacting /\ "behind" \notin upsets'
    BY <1>b, <1>c, <2>1 DEF Unclean
  <2> QED  BY <1>4, <2>2, ExactlyUpdate
<1>5. ASSUME NEW c \in Conns, RollWrite(c) PROVE Exacting'
  <2>1. PICK l : Moves(c, "spread", l, {})
    BY <1>5, RollWriteIs
  <2>2. Exacting /\ "behind" \notin upsets'
    BY <1>b, <1>c, <2>1 DEF Unclean
  <2> QED  BY <1>5, <2>2, ExactlyRollback
<1>6. ASSUME NEW c \in Conns, LogSlot(c) PROVE Exacting'
  <2>1. PICK s \in {"idle", "info"} : Moves(c, s, NoLocal, {})
    BY <1>6, LogSlotMoves
  <2>2. Exacting /\ upsets \cap Unclean = {} /\ UNCHANGED <<content, journal>> /\ pc[c] = "logslot"
    BY <1>6, <1>b, <1>c, <2>1 DEF LogSlot
  <2>3. local[c].len = Len(slots) /\ Len(slots) \in Nat
    <3>1. Even
      BY <2>2 DEF Logged, Unclean, Spoiling
    <3> QED  BY <2>2, <3>1, NType DEF Even, Logging
  <2>4. /\ Len(slots') = Len(slots) + 1 /\ slots'[Len(slots) + 1] = local[c].entry
        /\ \A i \in 1..Len(slots) : slots'[i] = slots[i]
    <3>1. /\ Len(slots') = IF Len(slots) < Len(slots) + 1 THEN Len(slots) + 1 ELSE Len(slots)
          /\ \A i \in 1..Len(slots') : slots'[i] = IF i = Len(slots) + 1 THEN local[c].entry
                                                   ELSE IF i <= Len(slots) THEN slots[i] ELSE Hole
      BY <1>6, <2>3, SlotIs
    <3> QED  BY <2>3, <3>1
  <2>5. CASE local[c].entry.type \in Kinds
    <3>1. \A d \in Conns : pc[d] \notin Undoing
      <4> SUFFICES ASSUME NEW d \in Conns, pc[d] \in Undoing PROVE FALSE
        OBVIOUS
      <4>1. pc[c] \in Unlogged /\ local[c].entry.type # "open" /\ c # d
        BY <2>2, <2>5 DEF Unlogged, Undoing, Kinds
      <4>2. Overlap(pc, local) \subseteq upsets /\ "behind" \notin upsets
        BY <2>2 DEF Noticed, Unclean
      <4> QED  BY <4>1, <4>2, NotBehind
    <3>2. /\ pc'[c] \in {"idle", "info"}
          /\ \A d \in Conns : d # c => pc'[d] = pc[d] /\ local'[d] = local[d]
      BY <2>1 DEF Moves
    <3>3. \A d \in Conns : pc'[d] \notin Undoing /\ (pc'[d] = "write" => d # c)
      BY <3>1, <3>2 DEF Undoing
    <3>4. Aiming'
      BY <3>3 DEF Aiming, Undoing
    <3>5. Filled'
      <4>1. Filled
        BY <2>2 DEF Exacting
      <4>2. \A d \in Conns : pc'[d] = "write" => pc[d] = "write" /\ local'[d] = local[d]
        BY <3>2, <3>3
      <4> QED  BY <2>2, <4>1, <4>2 DEF Filled, Knows
    <3> QED  BY <2>2, <3>4, <3>5 DEF Exacting
  <2>6. CASE local[c].entry.type \notin Kinds
    <3>1. \A n : Whole(n) => Whole(n)'
      <4> SUFFICES ASSUME NEW n, Whole(n), NEW i \in 1..Len(slots'), i > n
                   PROVE  slots'[i].type \notin Kinds
        BY DEF Whole
      <4>1. i \in 1..Len(slots) \/ i = Len(slots) + 1
        BY <2>3, <2>4
      <4> QED  BY <2>4, <2>6, <4>1 DEF Whole
    <3> QED  BY <2>1, <2>2, <3>1, ExactlyStay
  <2> QED  BY <2>5, <2>6
<1>7. ASSUME NEW c \in Conns, RollLen(c) PROVE Exacting'
  <2>1. PICK l \in LocalType : Moves(c, "rolllog", l, {}) /\ l.len = logLen
    BY <1>7, RollLenMoves
  <2>2. Exacting /\ upsets \cap Unclean = {} /\ UNCHANGED <<content, journal, slots>>
    BY <1>7, <1>b, <1>c, <2>1 DEF RollLen, logged
  <2>3. logLen >= Len(slots) /\ Len(slots) \in Nat
    <3>1. Even
      BY <2>2 DEF Logged, Unclean, Spoiling
    <3> QED  BY <3>1, NType DEF Even
  <2>4. Whole(l.len)
    BY <2>1, <2>3 DEF Whole, Typed
  <2>5. Whole(l.len)' /\ \A n : Whole(n) => Whole(n)'
    BY <2>2, <2>4 DEF Whole
  <2> QED  BY <2>1, <2>2, <2>5, ExactlyStay
<1>8. ASSUME NEW c \in Conns, RollLog(c) PROVE Exacting'
  <2>1. UNCHANGED <<content, journal, slots>>
    BY <1>8 DEF RollLog, logged
  <2>2. upsets \subseteq upsets'
    BY <1>8, <1>c, RollLogMoves, Zenon
  <2>3. Exacting /\ upsets \cap Unclean = {}
    BY <1>b, <2>2
  <2>4. \/ Moves(c, "idle", NoLocal, {})
        \/ \E l : Moves(c, "rollwrite", l, {}) /\ Aimed(Me(c), l.entry)
    BY <1>8, <2>3, RollLogAims
  <2>5. \A n : Whole(n) => Whole(n)'
    BY <1>a, <2>1
  <2> QED  BY <2>1, <2>3, <2>4, <2>5, ExactlyStay
<1>9. CASE Crash
  <2>1. /\ UNCHANGED <<content, journal>> /\ \A c \in Conns : pc'[c] = "idle"
        /\ upsets \subseteq upsets'
    BY <1>9 DEF Crash
  <2>2. Exacting
    BY <1>b, <2>1
  <2> QED  BY <2>1, <2>2 DEF Exacting, Filled, Aiming
<1>10. CASE UNCHANGED vars
  <2>1. UNCHANGED <<content, journal, slots, pc, local, upsets>>
    BY <1>10 DEF vars, logged
  <2>2. Exacting
    BY <1>b, <2>1
  <2> QED  BY <2>1, <2>2 DEF Exacting, Filled, Aiming, Aimed, Whole, Knows
<1> QED  BY <1>1, <1>2, <1>3, <1>4, <1>5, <1>6, <1>7, <1>8, <1>9, <1>10 DEF Next

\* A rollback puts back what its cell held before the last update of its user
\* that is not undone, and never undoes what another user wrote, for any
\* connections, users, cells, values and sequences of updates and rollbacks,
\* if handlers did not overlap in the ways upsets names.
THEOREM RollbackExactHolds == Spec => []RollbackExact
<1>1. Typed /\ Exactly => RollbackExact
  <2> SUFFICES ASSUME Typed, Exactly, upsets \cap {"log", "order", "torn", "behind"} = {},
                      NEW n \in DOMAIN journal
               PROVE  Undoes(journal, n)
    BY Zenon DEF RollbackExact, Undoes
  <2>1. n \in 1..Len(journal) /\ Exacting
    BY DEF Exactly, Unclean, Typed
  <2> QED  BY <2>1 DEF Exacting
<1> QED
  BY <1>1, TypeInit, TypeStep, RecordedInit, RecordedStep, NoticedInit, NoticedStep,
     LoggedInit, LoggedStep, LockedInit, LockedStep, TracedInit, TracedStep,
     ExactlyInit, ExactlyStep, PTL DEF Spec
=============================================================================
