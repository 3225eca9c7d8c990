-------------------------- MODULE DocCatalogProofs --------------------------
(***************************************************************************)
(* Proofs about the catalog of documents for any connections, names and    *)
(* requests and any crashes.                                               *)
(***************************************************************************)
EXTENDS DocCatalog, TLAPS, WellFoundedInduction, SequenceTheorems

-----------------------------------------------------------------------------
(* What the operators on the rows of "config" do                           *)

\* A set of numbers has a least one, which is what strings.Index returns.
LEMMA Least ==
  ASSUME NEW T \in SUBSET Nat, T # {}
  PROVE  \E x \in T : \A y \in T : x <= y
<1> DEFINE R == {ss \in Nat \X Nat : ss[1] < ss[2]}
<1>1. IsWellFoundedOn(R, Nat)
  BY NatLessThanWellFounded DEF OpToRel
<1>2. \A x, y \in Nat : y < x => <<y, x>> \in R
  OBVIOUS
<1> HIDE DEF R
<1>3. PICK x \in T : \A y \in T : ~(<<y, x>> \in R)
  BY <1>1, WFMin
<1>4. \A y \in T : y \in Nat /\ x \in Nat /\ ~(y < x)
  BY <1>2, <1>3
<1>5. \A y \in T : x <= y
  BY <1>4
<1>6. QED
  BY <1>5

\* strings.Index finds the bytes of a name that are there, at the first row they
\* are in; when that is not the row of another name it is the name's own row.
LEMMA FindIs ==
  ASSUME NEW rows \in Seq(Row), NEW f
  PROVE  /\ Find(rows, f) \in 0..Len(rows)
         /\ Find(rows, f) = 0 => \A i \in 1..Len(rows) : rows[i].name # f
         /\ Find(rows, f) # 0 /\ Own(rows, Find(rows, f), f) => rows[Find(rows, f)].name = f
         /\ Own(rows, Find(rows, f), f) \in BOOLEAN
<1> DEFINE T == {i \in 1..Len(rows) : Occurs(f, rows[i].name)}
           First(i) == i \in DOMAIN rows /\ Occurs(f, rows[i].name)
                       /\ \A j \in 1..(i - 1) : ~Occurs(f, rows[j].name)
<1>0. Own(rows, Find(rows, f), f) \in BOOLEAN
  BY DEF Own
<1>1. CASE T = {}
  <2>1. \A i \in DOMAIN rows : ~Occurs(f, rows[i].name)
    BY <1>1
  <2>2. Find(rows, f) = 0
    BY <2>1, Zenon DEF Find
  <2>3. \A i \in 1..Len(rows) : rows[i].name # f
    <3>1. DOMAIN rows = 1..Len(rows)
      OBVIOUS
    <3>2. \A i \in DOMAIN rows : rows[i].name # f
      BY <2>1, Zenon DEF Occurs
    <3>3. QED
      BY <3>1, <3>2
  <2>4. QED
    BY <1>0, <2>2, <2>3
<1>2. CASE T # {}
  <2>0. T \in SUBSET Nat
    OBVIOUS
  <2>1. PICK x \in T : \A y \in T : x <= y
    <3> HIDE DEF T
    <3> QED
      BY <1>2, <2>0, Least
  <2>2. First(x)
    BY <2>1
  <2>3. Find(rows, f) = CHOOSE i \in DOMAIN rows : /\ Occurs(f, rows[i].name)
                                  /\ \A j \in 1..(i - 1) : ~Occurs(f, rows[j].name)
    <3>1. \E i \in DOMAIN rows : Occurs(f, rows[i].name)
      BY <2>2
    <3>2. QED
      BY <3>1, Zenon DEF Find
  <2>4. First(Find(rows, f))
    BY <2>2, <2>3
  <2>5. Find(rows, f) \in 1..Len(rows) /\ Occurs(f, rows[Find(rows, f)].name)
    BY <2>4
  <2>6. Own(rows, Find(rows, f), f) => rows[Find(rows, f)].name = f
    BY <2>5 DEF Own, Occurs
  <2>7. QED
    BY <1>0, <2>5, <2>6
<1>3. QED
  BY <1>1, <1>2

\* A write changes the rows it covers and cuts nothing off.
LEMMA OverwriteIs ==
  ASSUME NEW rows \in Seq(Row), NEW new \in Seq(Row), NEW i \in 1..(Len(rows) + 1)
  PROVE  /\ Overwrite(rows, i, new) \in Seq(Row)
         /\ Len(Overwrite(rows, i, new)) >= Len(rows)
         /\ Len(Overwrite(rows, i, new)) >= i - 1 + Len(new)
         /\ \A j \in 1..Len(Overwrite(rows, i, new)) :
              Overwrite(rows, i, new)[j] = IF j >= i /\ j < i + Len(new) THEN new[j - i + 1]
                                           ELSE rows[j]
<1> DEFINE n == IF i - 1 + Len(new) > Len(rows) THEN i - 1 + Len(new) ELSE Len(rows)
           F(j) == IF j >= i /\ j < i + Len(new) THEN new[j - i + 1] ELSE rows[j]
<1>1. n \in Nat /\ n >= Len(rows) /\ n >= i - 1 + Len(new)
  OBVIOUS
<1>2. \A j \in 1..n : F(j) \in Row
  OBVIOUS
<1>3. Overwrite(rows, i, new) = [j \in 1..n |-> F(j)]
  BY DEF Overwrite
<1> HIDE DEF n, F
<1>4. [j \in 1..n |-> F(j)] \in Seq(Row) /\ Len([j \in 1..n |-> F(j)]) = n
  BY <1>1, <1>2
<1>5. QED
  BY <1>1, <1>3, <1>4 DEF F

\* The part within a length is a prefix of the rows.
LEMMA WithinIs ==
  ASSUME NEW l \in Length, config \in ConfigType
  PROVE  /\ Within(l) \in Seq(Row)
         /\ Len(Within(l)) <= Len(config.rows)
         /\ l \in Nat /\ l <= Len(config.rows) => Len(Within(l)) = l
         /\ l = Far => Len(Within(l)) = Len(config.rows)
         /\ \A i \in 1..Len(Within(l)) : Within(l)[i] = config.rows[i]
<1> USE DEF Length, Under, Far
<1>1. config.rows \in Seq(Row) /\ Len(config.rows) \in Nat
  BY DEF ConfigType
<1>2. CASE l = Under
  BY <1>1, <1>2 DEF Within
<1>3. CASE l = Far \/ (l \in Nat /\ l >= Len(config.rows))
  BY <1>1, <1>3 DEF Within
<1>4. CASE l \in Nat /\ l < Len(config.rows)
  <2>1. Within(l) = SubSeq(config.rows, 1, l)
    BY <1>1, <1>4 DEF Within
  <2>2. QED
    BY <1>1, <1>4, <2>1
<1>5. QED
  BY <1>1, <1>2, <1>3, <1>4

\* newConfigStr is a "config" with one row less, which is cut out.
LEMMA WithoutIs ==
  ASSUME NEW cfg \in ConfigType, NEW rows \in Seq(Row), NEW i \in 1..Len(rows)
  PROVE  /\ Without(cfg, rows, i) \in ConfigType
         /\ Len(Without(cfg, rows, i).rows) = Len(rows) - 1
         /\ \A j \in 1..(Len(rows) - 1) :
              Without(cfg, rows, i).rows[j] = rows[IF j < i THEN j ELSE j + 1]
<1> DEFINE a == SubSeq(rows, 1, i - 1)
           b == SubSeq(rows, i + 1, Len(rows))
<1>1. /\ a \in Seq(Row) /\ Len(a) = i - 1
      /\ \A j \in 1..(i - 1) : a[j] = rows[j]
  OBVIOUS
<1>2. /\ b \in Seq(Row) /\ Len(b) = Len(rows) - i
      /\ \A j \in 1..(Len(rows) - i) : b[j] = rows[j + i]
  OBVIOUS
<1>3. /\ Without(cfg, rows, i).rows = a \o b
      /\ Without(cfg, rows, i).num = IF cfg.num = 0 THEN 0 ELSE cfg.num - 1
      /\ Without(cfg, rows, i).len = IF cfg.len \in {Far, Under} THEN cfg.len ELSE cfg.len - 1
      /\ Without(cfg, rows, i)
           = [num |-> Without(cfg, rows, i).num, len |-> Without(cfg, rows, i).len,
              rows |-> Without(cfg, rows, i).rows]
  BY DEF Without
<1> HIDE DEF a, b
<1>4. /\ a \o b \in Seq(Row) /\ Len(a \o b) = Len(rows) - 1
      /\ \A j \in 1..(Len(rows) - 1) : (a \o b)[j] = IF j < i THEN a[j] ELSE b[j - i + 1]
  <2>1. a \o b \in Seq(Row) /\ Len(a \o b) = Len(a) + Len(b)
    BY <1>1, <1>2, ConcatProperties
  <2>2. \A j \in 1..(Len(a) + Len(b)) :
          (a \o b)[j] = IF j <= Len(a) THEN a[j] ELSE b[j - Len(a)]
    BY <1>1, <1>2, ConcatProperties
  <2>3. Len(a) + Len(b) = Len(rows) - 1
    BY <1>1, <1>2
  <2>4. \A j \in 1..(Len(rows) - 1) : /\ j < i <=> j <= Len(a)
                                     /\ j - Len(a) = j - i + 1
    BY <1>1
  <2>5. QED
    BY <2>1, <2>2, <2>3, <2>4
<1>5. ASSUME NEW j \in 1..(Len(rows) - 1)
      PROVE  (a \o b)[j] = rows[IF j < i THEN j ELSE j + 1]
  <2>1. CASE j < i
    <3>1. j \in 1..(i - 1)
      BY <2>1
    <3>2. (a \o b)[j] = a[j] /\ a[j] = rows[j]
      BY <1>1, <1>4, <2>1, <3>1
    <3>3. QED
      BY <2>1, <3>2
  <2>2. CASE ~(j < i)
    <3> DEFINE k == j - i + 1
    <3>1. k \in 1..(Len(rows) - i) /\ k + i = j + 1
      BY <2>2
    <3>2. (a \o b)[j] = b[k]
      BY <1>4, <2>2
    <3> HIDE DEF k
    <3>3. b[k] = rows[k + i]
      BY <1>2, <3>1
    <3>4. QED
      BY <2>2, <3>1, <3>2, <3>3
  <2>3. QED
    BY <2>1, <2>2
<1>6. Without(cfg, rows, i).num \in Nat /\ Without(cfg, rows, i).len \in Length
  BY <1>3 DEF ConfigType, Length, Far, Under
<1>7. QED
  BY <1>3, <1>4, <1>5, <1>6 DEF ConfigType

\* Marking a bit leaves the names.
LEMMA MarkIs ==
  ASSUME config \in ConfigType, NEW i \in Nat, NEW v \in BOOLEAN
  PROVE  LET g == [config EXCEPT !.rows[i].valid = v]
         IN /\ g \in ConfigType /\ g.num = config.num /\ g.len = config.len
            /\ Len(g.rows) = Len(config.rows)
            /\ \A j \in 1..Len(config.rows) :
                 /\ g.rows[j].name = config.rows[j].name
                 /\ g.rows[j].valid = IF j = i THEN v ELSE config.rows[j].valid
<1> DEFINE rows == config.rows
           new == [rows EXCEPT ![i] = [rows[i] EXCEPT !.valid = v]]
           g == [config EXCEPT !.rows[i].valid = v]
<1>1. rows \in Seq(Row) /\ config \in ConfigType
  BY DEF ConfigType
<1>2. g = [config EXCEPT !.rows = new]
  OBVIOUS
<1>3. /\ DOMAIN new = 1..Len(rows)
      /\ \A j \in 1..Len(rows) : new[j] = IF j = i THEN [rows[j] EXCEPT !.valid = v] ELSE rows[j]
  BY <1>1
<1>4. \A r \in Row : LET q == [r EXCEPT !.valid = v]
                    IN q \in Row /\ q.name = r.name /\ q.valid = v
  BY DEF Row
<1>5. \A j \in 1..Len(rows) : rows[j] \in Row
  BY <1>1
<1>6. new = [j \in 1..Len(rows) |-> new[j]]
  BY <1>1
<1> HIDE DEF new
<1>7. \A j \in 1..Len(rows) : /\ new[j] \in Row /\ new[j].name = rows[j].name
                              /\ new[j].valid = IF j = i THEN v ELSE rows[j].valid
  BY <1>3, <1>4, <1>5, ZenonT(60)
<1>8. new \in Seq(Row) /\ Len(new) = Len(rows)
  <2>1. new \in [1..Len(rows) -> Row]
    BY <1>6, <1>7
  <2>2. Len(rows) \in Nat
    BY <1>1
  <2>3. QED
    BY <2>1, <2>2
<1>9. /\ g.rows = new /\ g.num = config.num /\ g.len = config.len
      /\ g \in ConfigType
  BY <1>1, <1>2, <1>8 DEF ConfigType
<1>10. QED
  BY <1>7, <1>8, <1>9
-----------------------------------------------------------------------------
(* Types                                                                   *)

\* What a handler relies on when it writes: the document it creates or opens
\* was named by a user, and a row is written at most at the end of the rows.
Fits ==
  /\ \A c \in Conns :
       /\ pc[c] \in {"create", "mkfile", "fill", "getnum", "open", "lookup"} \cup Appending
            => name[c] \in Names
       /\ pc[c] = "row" /\ local[c].len \in Nat => local[c].len <= Len(config.rows)
       /\ pc[c] = "setlen" => local[c].len \in Nat /\ local[c].len < Len(config.rows)
       /\ pc[c] = "rewrite" /\ local[c].snap.len \in Nat
            => local[c].snap.len <= Len(config.rows)
  /\ config.len \in Nat => config.len <= Len(config.rows)

\* Where a handler can be, and what it can hold.
Places == {"idle", "mkfile", "fill", "getnum", "trash", "ctlen", "unlink", "lookup", "stuck"}
          \cup AllRequests \cup Appending \cup Marking \cup Rewriting
Locals == [bit : BOOLEAN, num : Nat, len : Length, pos : Nat, own : BOOLEAN,
           snap : ConfigType]

LEMMA OverlapType ==
  ASSUME NEW p
  PROVE  Overlap(p) \subseteq {"rows", "bits", "open"}
BY DEF Overlap

\* The handlers of the other connections stay where they are.
Others(c) == \A d \in Conns : d # c => /\ pc'[d] = pc[d] /\ name'[d] = name[d]
                                       /\ local'[d] = local[d]

\* A step of one handler.
LEMMA GotoIs ==
  ASSUME TypeOK, NEW c \in Conns, NEW s \in Places, Goto(c, s)
  PROVE  /\ pc' = [pc EXCEPT ![c] = s] /\ name' = name
         /\ pc'[c] = s /\ \A d \in Conns : d # c => pc'[d] = pc[d]
         /\ pc' \in [Conns -> Places]
         /\ clash' = clash \cup Overlap(pc')
         /\ clash' \subseteq {"rows", "bits", "open"}
<1>1. pc \in [Conns -> Places] /\ clash \subseteq {"rows", "bits", "open"}
  BY DEF TypeOK, Places
<1>2. pc' = [pc EXCEPT ![c] = s] /\ name' = name /\ clash' = clash \cup Overlap(pc')
  BY DEF Goto
<1>3. QED
  BY <1>1, <1>2, OverlapType

LEMMA DoneIs ==
  ASSUME TypeOK, NEW c \in Conns, Done(c)
  PROVE  /\ pc' = [pc EXCEPT ![c] = "idle"]
         /\ name' = [name EXCEPT ![c] = NoName]
         /\ local' = [local EXCEPT ![c] = NoLocal]
         /\ pc'[c] = "idle" /\ Others(c)
         /\ pc' \in [Conns -> Places] /\ name' \in [Conns -> Listed]
         /\ local' \in [Conns -> Locals]
         /\ clash' = clash \cup Overlap(pc')
         /\ clash' \subseteq {"rows", "bits", "open"}
<1>1. /\ pc \in [Conns -> Places] /\ clash \subseteq {"rows", "bits", "open"}
      /\ name \in [Conns -> Listed] /\ local \in [Conns -> Locals]
  BY DEF TypeOK, Places, Locals
<1>2. /\ pc' = [pc EXCEPT ![c] = "idle"] /\ name' = [name EXCEPT ![c] = NoName]
      /\ local' = [local EXCEPT ![c] = NoLocal]
      /\ clash' = clash \cup Overlap(pc')
  BY DEF Done
<1>3. NoLocal \in Locals
  <2>1. <<>> \in Seq(Row)
    OBVIOUS
  <2>2. Nothing \in ConfigType
    BY <2>1 DEF Nothing, ConfigType, Length
  <2>3. QED
    BY <2>2 DEF NoLocal, Locals, Length
<1>4. "idle" \in Places /\ NoName \in Listed
  BY DEF Places, Listed
<1>5. pc'[c] = "idle" /\ Others(c)
  BY <1>1, <1>2 DEF Others
<1>6. QED
  BY <1>1, <1>2, <1>3, <1>4, <1>5, OverlapType

\* As long as "config" loses no row, only the handler that moves matters.
LEMMA FitsFrame ==
  ASSUME TypeOK, Fits, NEW c \in Conns, Others(c),
         Len(config'.rows) \in Nat, Len(config'.rows) >= Len(config.rows),
         config'.len \in Nat => config'.len <= Len(config'.rows),
         pc'[c] \in {"create", "mkfile", "fill", "getnum", "open", "lookup"} \cup Appending
           => name'[c] \in Names,
         pc'[c] = "row" /\ local'[c].len \in Nat => local'[c].len <= Len(config'.rows),
         pc'[c] = "setlen" => local'[c].len \in Nat /\ local'[c].len < Len(config'.rows),
         pc'[c] = "rewrite" /\ local'[c].snap.len \in Nat
           => local'[c].snap.len <= Len(config'.rows)
  PROVE  Fits'
<1>1. Len(config.rows) \in Nat
  BY DEF TypeOK, ConfigType
<1>2. QED
  BY <1>1 DEF Fits, Others

\* The same of a step that does not write "config".
LEMMA FitsStay ==
  ASSUME TypeOK, Fits, NEW c \in Conns, Others(c), config' = config,
         pc'[c] \in {"create", "mkfile", "fill", "getnum", "open", "lookup"} \cup Appending
           => name'[c] \in Names,
         pc'[c] = "row" /\ local'[c].len \in Nat => local'[c].len <= Len(config.rows),
         pc'[c] # "setlen",
         pc'[c] = "rewrite" /\ local'[c].snap.len \in Nat
           => local'[c].snap.len <= Len(config.rows)
  PROVE  Fits'
<1>1. Len(config.rows) \in Nat
  BY DEF TypeOK, ConfigType
<1>2. QED
  BY <1>1 DEF Fits, Others

\* Types are kept by the steps that create a document,
LEMMA CreateTypes ==
  ASSUME TypeOK, Fits, NEW c \in Conns,
         \/ CreateCheck(c) \/ CreateFile(c) \/ CreateFill(c) \/ CreateGetNum(c)
         \/ CreateSetNum(c) \/ CreateGetLen(c) \/ CreateRow(c) \/ CreateSetLen(c)
  PROVE  TypeOK' /\ Fits'
<1> USE DEF AllRequests, Appending, Places, Listed, Absent, DefaultSize
<1>1. /\ config \in ConfigType /\ config.num \in Nat /\ config.len \in Length
      /\ config.rows \in Seq(Row) /\ Len(config.rows) \in Nat
      /\ local[c] \in Locals /\ local[c].num \in Nat /\ local[c].len \in Length
      /\ fileMap \in [Listed -> {Absent, 0, DefaultSize}]
      /\ local \in [Conns -> Locals]
  BY DEF TypeOK, ConfigType, Locals
<1>2. CASE CreateCheck(c)
  <2>1. PICK s \in {"recover", "mkfile"} : Goto(c, s)
    BY <1>2 DEF CreateCheck
  <2>2. UNCHANGED <<server, local, viewing, ghosts>> /\ pc[c] = "create"
    BY <1>2 DEF CreateCheck
  <2>3. TypeOK'
    BY <2>1, <2>2, GotoIs DEF TypeOK, server, ghosts, maps, budget
  <2>4. Fits'
    BY <2>1, <2>2, GotoIs, FitsStay DEF Others, TypeOK, server, Fits
  <2>5. QED
    BY <2>3, <2>4
<1>3. CASE CreateFile(c)
  <2>1. UNCHANGED <<up, maps, connMap, config, viewing, ghosts>> /\ pc[c] = "mkfile"
    BY <1>3 DEF CreateFile
  <2>2. name[c] \in Names
    BY <2>1 DEF Fits
  <2>3. CASE Done(c) /\ UNCHANGED stored
    <3>1. TypeOK'
      BY <2>1, <2>3, DoneIs DEF TypeOK, ghosts, maps, budget, Locals
    <3>2. Fits'
      BY <2>1, <2>3, DoneIs, FitsStay
    <3>3. QED
      BY <3>1, <3>2
  <2>4. CASE Goto(c, "fill") /\ stored' = stored \cup {name[c]} /\ UNCHANGED local
    <3>1. TypeOK'
      BY <2>1, <2>2, <2>4, GotoIs DEF TypeOK, ghosts, maps, budget
    <3>2. Fits'
      BY <2>1, <2>2, <2>4, GotoIs, FitsStay DEF Others, TypeOK, Fits
    <3>3. QED
      BY <3>1, <3>2
  <2>5. QED
    BY <1>3, <2>3, <2>4 DEF CreateFile
<1>4. CASE CreateFill(c)
  <2>1. /\ UNCHANGED <<up, trashMap, connMap, config, stored, local, viewing, ghosts>>
        /\ pc[c] = "fill" /\ Goto(c, "getnum")
        /\ fileMap' = [fileMap EXCEPT ![name[c]] = DefaultSize]
    BY <1>4 DEF CreateFill, Put
  <2>2. name[c] \in Names
    BY <2>1 DEF Fits
  <2>3. TypeOK'
    BY <2>1, <2>2, GotoIs DEF TypeOK, ghosts, budget
  <2>4. Fits'
    BY <2>1, <2>2, GotoIs, FitsStay DEF Others, TypeOK, Fits
  <2>5. QED
    BY <2>3, <2>4
<1>5. CASE CreateGetNum(c)
  <2>1. /\ UNCHANGED <<server, viewing, ghosts>> /\ pc[c] = "getnum" /\ Goto(c, "setnum")
        /\ local' = [local EXCEPT ![c] = [local[c] EXCEPT !.num = config.num]]
    BY <1>5 DEF CreateGetNum, With
  <2>2. local' \in [Conns -> Locals]
    BY <1>1, <2>1 DEF Locals
  <2>3. TypeOK'
    BY <2>1, <2>2, GotoIs DEF TypeOK, server, ghosts, maps, budget, Locals
  <2>4. Fits'
    BY <2>1, GotoIs, FitsStay DEF Others, TypeOK, server, Fits
  <2>5. QED
    BY <2>3, <2>4
<1>6. CASE CreateSetNum(c)
  <2>1. /\ UNCHANGED <<up, maps, connMap, stored, local, viewing, ghosts>>
        /\ pc[c] = "setnum" /\ Goto(c, "getlen")
        /\ config' = [config EXCEPT !.num = local[c].num + 1]
    BY <1>6 DEF CreateSetNum
  <2>2. config' \in ConfigType /\ config'.len = config.len /\ config'.rows = config.rows
    BY <1>1, <2>1 DEF ConfigType
  <2>3. TypeOK'
    BY <2>1, <2>2, GotoIs DEF TypeOK, ghosts, maps, budget
  <2>4. Fits'
    BY <1>1, <2>1, <2>2, GotoIs, FitsFrame DEF TypeOK, Fits, Others
  <2>5. QED
    BY <2>3, <2>4
<1>7. CASE CreateGetLen(c)
  <2>1. /\ UNCHANGED <<server, viewing, ghosts>> /\ pc[c] = "getlen" /\ Goto(c, "row")
        /\ local' = [local EXCEPT ![c] = [local[c] EXCEPT !.len = config.len]]
    BY <1>7 DEF CreateGetLen, With
  <2>2. local' \in [Conns -> Locals] /\ local'[c].len = config.len
    BY <1>1, <2>1 DEF Locals
  <2>3. TypeOK'
    BY <2>1, <2>2, GotoIs DEF TypeOK, server, ghosts, maps, budget, Locals
  <2>4. Fits'
    BY <2>1, <2>2, GotoIs, FitsStay DEF Others, TypeOK, server, Fits
  <2>5. QED
    BY <2>3, <2>4
<1>8. CASE CreateRow(c)
  <2>1. /\ UNCHANGED <<up, maps, connMap, stored, local, viewing, ghosts>>
        /\ pc[c] = "row" /\ local[c].len # Under
    BY <1>8 DEF CreateRow
  <2>2. name[c] \in Names
    BY <2>1 DEF Fits
  <2>3. CASE Goto(c, "stuck") /\ UNCHANGED config
    <3>1. TypeOK'
      BY <2>1, <2>3, GotoIs DEF TypeOK, ghosts, maps, budget
    <3>2. Fits'
      BY <2>1, <2>3, GotoIs, FitsStay DEF Others, TypeOK, Fits
    <3>3. QED
      BY <3>1, <3>2
  <2>4. CASE local[c].len # Far
    <3> DEFINE one == <<[name |-> name[c], valid |-> TRUE]>>
               at  == local[c].len + 1
               new == Overwrite(config.rows, at, one)
    <3>1. Goto(c, "setlen") /\ config' = [config EXCEPT !.rows = new]
      BY <1>8, <2>4 DEF CreateRow
    <3>2. local[c].len \in Nat /\ local[c].len <= Len(config.rows)
      BY <1>1, <2>1, <2>4 DEF Length, Fits
    <3>3. one \in Seq(Row) /\ Len(one) = 1
      BY <2>2 DEF Row
    <3>4. new \in Seq(Row) /\ Len(new) >= Len(config.rows) /\ Len(new) >= local[c].len + 1
      <4>1. at \in 1..(Len(config.rows) + 1) /\ at - 1 + 1 = local[c].len + 1
        BY <1>1, <3>2
      <4> HIDE DEF one, at
      <4>2. /\ new \in Seq(Row) /\ Len(new) >= Len(config.rows)
            /\ Len(new) >= at - 1 + Len(one)
        BY <1>1, <3>3, <4>1, OverwriteIs
      <4>3. QED
        BY <3>3, <4>1, <4>2
    <3> HIDE DEF new
    <3>5. config' \in ConfigType /\ config'.len = config.len /\ config'.rows = new
      BY <1>1, <3>1, <3>4 DEF ConfigType
    <3>6. TypeOK'
      BY <2>1, <3>1, <3>5, GotoIs DEF TypeOK, ghosts, maps, budget
    <3>7. Fits'
      <4>1. pc'[c] = "setlen" /\ name'[c] = name[c] /\ local'[c] = local[c] /\ Others(c)
        BY <2>1, <3>1, GotoIs DEF Others
      <4>2. Len(new) \in Nat /\ Len(config.rows) \in Nat
        BY <1>1, <3>4
      <4>3. config.len \in Nat => config.len <= Len(new)
        BY <3>4, <4>2 DEF Fits
      <4>4. local[c].len < Len(new)
        BY <3>2, <3>4, <4>2
      <4>5. QED
        BY <2>2, <3>2, <3>4, <3>5, <4>1, <4>2, <4>3, <4>4, FitsFrame
    <3>8. QED
      BY <3>6, <3>7
  <2>5. QED
    BY <1>8, <2>3, <2>4 DEF CreateRow
<1>9. CASE CreateSetLen(c)
  <2>1. /\ UNCHANGED <<up, maps, connMap, stored, viewing, stale, misplaced, torn, orphans, budget>>
        /\ pc[c] = "setlen" /\ Done(c)
        /\ config' = [config EXCEPT !.len = local[c].len + 1]
        /\ created' = created \cup {name[c]}
    BY <1>9 DEF CreateSetLen
  <2>2. name[c] \in Names /\ local[c].len \in Nat /\ local[c].len < Len(config.rows)
    BY <2>1 DEF Fits
  <2>3. /\ config' \in ConfigType /\ config'.len = local[c].len + 1
        /\ config'.rows = config.rows
    BY <1>1, <2>1, <2>2 DEF ConfigType, Length
  <2>4. TypeOK'
    BY <2>1, <2>2, <2>3, DoneIs DEF TypeOK, maps, budget, Locals
  <2>5. Fits'
    BY <1>1, <2>1, <2>2, <2>3, DoneIs, FitsFrame
  <2>6. QED
    BY <2>4, <2>5
<1>10. QED
  BY <1>2, <1>3, <1>4, <1>5, <1>6, <1>7, <1>8, <1>9

\* by those that move one to the trash or back and mark its bit,
LEMMA MarkTypes ==
  ASSUME TypeOK, Fits, NEW c \in Conns,
         \/ TrashCheck(c) \/ Trash(c) \/ Recover(c)
         \/ BitLen(c) \/ BitFind(c) \/ BitSet(c)
  PROVE  TypeOK' /\ Fits'
<1> USE DEF AllRequests, Appending, Marking, Places
<1>1. /\ config \in ConfigType /\ config.len \in Length
      /\ config.rows \in Seq(Row) /\ Len(config.rows) \in Nat
      /\ local[c] \in Locals /\ local[c].len \in Length
      /\ local[c].pos \in Nat /\ local[c].bit \in BOOLEAN
      /\ local \in [Conns -> Locals]
      /\ name[c] \in Listed
  BY DEF TypeOK, ConfigType, Locals
<1>2. CASE TrashCheck(c)
  <2>1. UNCHANGED <<server, viewing, ghosts>>
    BY <1>2 DEF TrashCheck
  <2>2. CASE Done(c)
    <3>1. TypeOK'
      BY <2>1, <2>2, DoneIs DEF TypeOK, server, ghosts, maps, budget, Locals
    <3>2. Fits'
      BY <2>1, <2>2, DoneIs, FitsStay DEF server
    <3>3. QED
      BY <3>1, <3>2
  <2>3. CASE Goto(c, "trash") /\ UNCHANGED local
    <3>1. TypeOK'
      BY <2>1, <2>3, GotoIs DEF TypeOK, server, ghosts, maps, budget
    <3>2. Fits'
      BY <2>1, <2>3, GotoIs, FitsStay DEF Others, server
    <3>3. QED
      BY <3>1, <3>2
  <2>4. QED
    BY <1>2, <2>2, <2>3 DEF TrashCheck
<1>3. ASSUME NEW m, m \in [Listed -> {Absent, 0, DefaultSize}]
      PROVE  /\ [m EXCEPT ![name[c]] = Get(fileMap, name[c])] \in [Listed -> {Absent, 0, DefaultSize}]
             /\ [m EXCEPT ![name[c]] = Get(trashMap, name[c])] \in [Listed -> {Absent, 0, DefaultSize}]
             /\ [m EXCEPT ![name[c]] = Absent] \in [Listed -> {Absent, 0, DefaultSize}]
  BY <1>1, <1>3 DEF TypeOK, Get
<1>4. CASE Trash(c)
  <2>1. /\ UNCHANGED <<up, connMap, config, stored, local, viewing, created, misplaced, torn,
                        orphans, budget>>
        /\ Goto(c, "bitlen")
        /\ trashMap' = [trashMap EXCEPT ![name[c]] = Get(fileMap, name[c])]
        /\ fileMap' = [fileMap EXCEPT ![name[c]] = Absent]
        /\ stale' \in {stale, stale \cup {name[c]}}
    BY <1>4 DEF Trash, Put
  <2>2. TypeOK'
    BY <1>1, <1>3, <2>1, GotoIs DEF TypeOK, budget
  <2>3. Fits'
    BY <2>1, GotoIs, FitsStay DEF Others
  <2>4. QED
    BY <2>2, <2>3
<1>5. CASE Recover(c)
  <2>1. /\ UNCHANGED <<up, connMap, config, stored, viewing, created, misplaced, torn, orphans,
                        budget>>
        /\ Goto(c, "bitlen")
        /\ local' = [local EXCEPT ![c] = [local[c] EXCEPT !.bit = TRUE]]
        /\ fileMap' = [fileMap EXCEPT ![name[c]] = Get(trashMap, name[c])]
        /\ trashMap' = [trashMap EXCEPT ![name[c]] = Absent]
        /\ stale' \in {stale, stale \cup {name[c]}}
    BY <1>5 DEF Recover, Put, With
  <2>2. local' \in [Conns -> Locals]
    BY <1>1, <2>1 DEF Locals
  <2>3. TypeOK'
    BY <1>1, <1>3, <2>1, <2>2, GotoIs DEF TypeOK, budget, Locals
  <2>4. Fits'
    BY <1>1, <2>1, GotoIs, FitsStay DEF Others
  <2>5. QED
    BY <2>3, <2>4
<1>6. CASE BitLen(c)
  <2>1. /\ UNCHANGED <<server, viewing, ghosts>> /\ Goto(c, "find")
        /\ local' = [local EXCEPT ![c] = [local[c] EXCEPT !.len = config.len]]
    BY <1>6 DEF BitLen, With
  <2>2. local' \in [Conns -> Locals]
    BY <1>1, <2>1 DEF Locals
  <2>3. TypeOK'
    BY <2>1, <2>2, GotoIs DEF TypeOK, server, ghosts, maps, budget, Locals
  <2>4. Fits'
    BY <1>1, <2>1, GotoIs, FitsStay DEF Others, server
  <2>5. QED
    BY <2>3, <2>4
<1>7. CASE BitFind(c)
  <2> DEFINE rows == Within(local[c].len)
             i == Find(rows, name[c])
             o == Own(rows, i, name[c])
  <2>1. /\ UNCHANGED <<server, viewing, ghosts>> /\ Goto(c, "mark")
        /\ local' = [local EXCEPT ![c] = [local[c] EXCEPT !.pos = i, !.own = o]]
    BY <1>7 DEF BitFind, With
  <2>2. i \in Nat /\ o \in BOOLEAN
    <3>1. rows \in Seq(Row)
      BY <1>1, WithinIs
    <3> HIDE DEF rows
    <3>2. QED
      BY <3>1, FindIs
  <2> HIDE DEF rows, i, o
  <2>3. local' \in [Conns -> Locals]
    BY <1>1, <2>1, <2>2 DEF Locals
  <2>4. TypeOK'
    BY <2>1, <2>3, GotoIs DEF TypeOK, server, ghosts, maps, budget, Locals
  <2>5. Fits'
    BY <1>1, <2>1, GotoIs, FitsStay DEF Others, server
  <2>6. QED
    BY <2>4, <2>5
<1>8. CASE BitSet(c)
  <2>1. /\ UNCHANGED <<up, maps, connMap, stored, viewing, created, stale, torn, orphans, budget>>
        /\ Done(c) /\ misplaced' \subseteq misplaced \cup {"inside", "absent"}
    BY <1>8 DEF BitSet, Astray
  <2>2. /\ config' \in ConfigType /\ Len(config'.rows) = Len(config.rows)
        /\ config'.len \in {config.len, Far}
    <3>1. CASE local[c].pos > 0
      BY <1>1, <1>8, <3>1, MarkIs DEF BitSet
    <3>2. CASE local[c].pos = 0
      BY <1>1, <1>8, <3>2 DEF BitSet, ConfigType, Length
    <3>3. QED
      BY <1>1, <3>1, <3>2
  <2>3. TypeOK'
    BY <2>1, <2>2, DoneIs DEF TypeOK, maps, budget, Locals
  <2>4. Fits'
    BY <1>1, <2>1, <2>2, DoneIs, FitsFrame DEF Fits, Far
  <2>5. QED
    BY <2>3, <2>4
<1>9. QED
  BY <1>2, <1>4, <1>5, <1>6, <1>7, <1>8

\* by those that clear the trash,
LEMMA ClearTypes ==
  ASSUME TypeOK, Fits, NEW c \in Conns,
         Clear(c) \/ ClearLen(c) \/ ClearRead(c) \/ ClearWrite(c) \/ ClearDelete(c)
  PROVE  TypeOK' /\ Fits'
<1> USE DEF AllRequests, Appending, Rewriting, Places
<1>1. /\ config \in ConfigType /\ config.len \in Length
      /\ config.rows \in Seq(Row) /\ Len(config.rows) \in Nat
      /\ local[c] \in Locals /\ local[c].len \in Length /\ local[c].snap \in ConfigType
      /\ local \in [Conns -> Locals]
      /\ name[c] \in Listed
  BY DEF TypeOK, ConfigType, Locals
<1>2. CASE Clear(c)
  <2>1. UNCHANGED <<up, fileMap, connMap, config, stored, viewing, ghosts>>
    BY <1>2 DEF Clear
  <2>2. CASE Done(c) /\ UNCHANGED trashMap
    <3>1. TypeOK'
      BY <2>1, <2>2, DoneIs DEF TypeOK, ghosts, budget, Locals
    <3>2. Fits'
      BY <2>1, <2>2, DoneIs, FitsStay
    <3>3. QED
      BY <3>1, <3>2
  <2>3. CASE Goto(c, "ctlen") /\ trashMap' = Put(trashMap, name[c], Absent) /\ UNCHANGED local
    <3>1. TypeOK'
      BY <1>1, <2>1, <2>3, GotoIs DEF TypeOK, ghosts, budget, Put
    <3>2. Fits'
      BY <2>1, <2>3, GotoIs, FitsStay DEF Others
    <3>3. QED
      BY <3>1, <3>2
  <2>4. QED
    BY <1>2, <2>2, <2>3 DEF Clear
<1>3. CASE ClearLen(c)
  <2>1. /\ UNCHANGED <<server, viewing, ghosts>> /\ Goto(c, "whole")
        /\ local' = [local EXCEPT ![c] = [local[c] EXCEPT !.len = config.len]]
    BY <1>3 DEF ClearLen, With
  <2>2. local' \in [Conns -> Locals]
    BY <1>1, <2>1 DEF Locals
  <2>3. TypeOK'
    BY <2>1, <2>2, GotoIs DEF TypeOK, server, ghosts, maps, budget, Locals
  <2>4. Fits'
    BY <1>1, <2>1, GotoIs, FitsStay DEF Others, server
  <2>5. QED
    BY <2>3, <2>4
<1>4. CASE ClearRead(c)
  <2> DEFINE rows == Within(local[c].len)
             i == Find(rows, name[c])
             w == Without(config, rows, i)
             o == Own(rows, i, name[c])
  <2>1. UNCHANGED <<server, viewing, ghosts>>
    BY <1>4 DEF ClearRead
  <2>2. rows \in Seq(Row) /\ i \in 0..Len(rows) /\ o \in BOOLEAN
    <3>1. rows \in Seq(Row)
      BY <1>1, WithinIs
    <3> HIDE DEF rows
    <3>2. QED
      BY <3>1, FindIs
  <2>3. CASE Done(c)
    <3>1. TypeOK'
      BY <2>1, <2>3, DoneIs DEF TypeOK, server, ghosts, maps, budget, Locals
    <3>2. Fits'
      BY <2>1, <2>3, DoneIs, FitsStay DEF server
    <3>3. QED
      BY <3>1, <3>2
  <2>4. CASE i # 0
    <3>1. /\ Goto(c, "rewrite")
          /\ local' = [local EXCEPT ![c] = [local[c] EXCEPT !.snap = w, !.own = o]]
      BY <1>4, <2>4 DEF ClearRead, With
    <3>2. w \in ConfigType
      <4> HIDE DEF rows, i
      <4>1. i \in 1..Len(rows)
        BY <2>2, <2>4
      <4>2. QED
        BY <1>1, <2>2, <4>1, WithoutIs
    <3>3. w.len \in Nat => w.len <= Len(config.rows)
      BY <1>1 DEF Without, Fits, Length, Far, Under
    <3> HIDE DEF w, o
    <3>4. local' \in [Conns -> Locals] /\ local'[c].snap = w
      BY <1>1, <2>2, <3>1, <3>2 DEF Locals
    <3>5. TypeOK'
      BY <2>1, <3>1, <3>4, GotoIs DEF TypeOK, server, ghosts, maps, budget, Locals
    <3>6. Fits'
      BY <1>1, <2>1, <3>1, <3>3, <3>4, GotoIs, FitsStay DEF Others, server
    <3>7. QED
      BY <3>5, <3>6
  <2>5. QED
    BY <1>4, <2>3, <2>4 DEF ClearRead
<1>5. CASE ClearWrite(c)
  <2> DEFINE new == Overwrite(config.rows, 1, local[c].snap.rows)
  <2>1. /\ UNCHANGED <<up, maps, connMap, stored, local, viewing, stale, torn, orphans, budget>>
        /\ pc[c] = "rewrite" /\ Goto(c, "unlink")
        /\ config' \in {config, [local[c].snap EXCEPT !.rows = new]}
        /\ misplaced' \subseteq misplaced \cup {"inside"}
        /\ created' = created \ {name[c]}
    BY <1>5 DEF ClearWrite
  <2>2. new \in Seq(Row) /\ Len(new) >= Len(config.rows)
    <3>1. local[c].snap.rows \in Seq(Row) /\ 1 \in 1..(Len(config.rows) + 1)
      BY <1>1 DEF ConfigType
    <3>2. QED
      BY <1>1, <3>1, OverwriteIs
  <2> HIDE DEF new
  <2>3. /\ config' \in ConfigType
        /\ config' = config \/ (config'.rows = new /\ config'.len = local[c].snap.len)
    BY <1>1, <2>1, <2>2 DEF ConfigType
  <2>4. TypeOK'
    BY <2>1, <2>3, GotoIs DEF TypeOK, maps, budget
  <2>5. Fits'
    <3>1. /\ pc'[c] = "unlink" /\ Others(c)
          /\ local[c].snap.len \in Nat => local[c].snap.len <= Len(config.rows)
      BY <2>1, GotoIs DEF Others, Fits
    <3>2. CASE config' = config
      BY <1>1, <3>1, <3>2, FitsStay
    <3>3. CASE config'.rows = new /\ config'.len = local[c].snap.len
      BY <1>1, <2>2, <3>1, <3>3, FitsFrame
    <3>4. QED
      BY <2>3, <3>2, <3>3
  <2>6. QED
    BY <2>4, <2>5
<1>6. CASE ClearDelete(c)
  <2>1. /\ UNCHANGED <<up, maps, connMap, config, viewing, ghosts>> /\ Done(c)
        /\ stored' = stored \ {name[c]}
    BY <1>6 DEF ClearDelete
  <2>2. TypeOK'
    BY <2>1, DoneIs DEF TypeOK, ghosts, maps, budget, Locals
  <2>3. Fits'
    BY <2>1, DoneIs, FitsStay
  <2>4. QED
    BY <2>2, <2>3
<1>7. QED
  BY <1>2, <1>3, <1>4, <1>5, <1>6

\* and by requests, openings, closings, crashes and restarts.
LEMMA OtherTypes ==
  ASSUME TypeOK, Fits,
         \/ \E c \in Conns, r \in Requests, f \in Listed : Request(c, r, f)
         \/ \E c \in Conns : Open(c) \/ Lookup(c) \/ Close(c) \/ Leave(c)
         \/ Crash
         \/ Restart
  PROVE  TypeOK' /\ Fits'
<1> USE DEF AllRequests, Appending, Marking, Rewriting, Places
<1>1. ASSUME NEW c \in Conns, NEW r \in Requests, NEW f \in Listed, Request(c, r, f)
      PROVE  TypeOK' /\ Fits'
  <2>1. /\ name' = [name EXCEPT ![c] = f] /\ pc' = [pc EXCEPT ![c] = r]
        /\ UNCHANGED <<server, local, viewing, clash, created, stale, misplaced, torn, orphans,
                        crashes>>
        /\ f = NoName => r \in {"mtt", "recover", "ct"}
        /\ r \in AllRequests
    BY <1>1, RequestAssumption DEF Request
  <2>2. TypeOK'
    BY <2>1 DEF TypeOK, server, maps
  <2>3. Others(c) /\ pc'[c] = r /\ name'[c] = f
    BY <2>1 DEF TypeOK, Others
  <2>4. Fits'
    BY <2>1, <2>3, FitsStay DEF Listed, server
  <2>5. QED
    BY <2>2, <2>4
<1>2. ASSUME NEW c \in Conns, Open(c)
      PROVE  TypeOK' /\ Fits'
  <2>1. /\ UNCHANGED <<up, maps, config, stored, local, viewing, ghosts>>
        /\ Goto(c, "lookup") /\ pc[c] = "open"
        /\ connMap' = [connMap EXCEPT ![name[c]] = @ \cup {c}]
    BY <1>2 DEF Open
  <2>2. name[c] \in Names
    BY <2>1 DEF Fits
  <2>3. TypeOK'
    BY <2>1, <2>2, GotoIs DEF TypeOK, ghosts, maps, budget
  <2>4. Fits'
    BY <2>1, <2>2, GotoIs, FitsStay DEF Others
  <2>5. QED
    BY <2>3, <2>4
<1>3. ASSUME NEW c \in Conns, Lookup(c)
      PROVE  TypeOK' /\ Fits'
  <2>1. /\ UNCHANGED <<server, ghosts>> /\ Done(c)
        /\ viewing' \in {viewing, [viewing EXCEPT ![c] = name[c]]}
    BY <1>3 DEF Lookup
  <2>2. TypeOK'
    BY <2>1, DoneIs DEF TypeOK, server, ghosts, maps, budget, Locals
  <2>3. Fits'
    BY <2>1, DoneIs, FitsStay DEF server
  <2>4. QED
    BY <2>2, <2>3
<1>4. ASSUME NEW c \in Conns, Close(c) \/ Leave(c)
      PROVE  TypeOK' /\ Fits'
  <2>1. UNCHANGED <<up, maps, config, stored, pc, name, local, clash, ghosts>>
    BY <1>4 DEF Close, Leave
  <2>2. viewing' = [viewing EXCEPT ![c] = NoName]
    BY <1>4 DEF Close, Leave
  <2>3. connMap' \in [Names -> SUBSET Conns]
    BY <1>4 DEF TypeOK, Close, Leave
  <2>4. TypeOK'
    BY <2>1, <2>2, <2>3 DEF TypeOK, ghosts, maps, budget, Listed
  <2>5. Fits'
    BY <2>1 DEF Fits
  <2>6. QED
    BY <2>4, <2>5
<1>5. ASSUME Crash
      PROVE  TypeOK' /\ Fits'
  <2>1. /\ pc' = [d \in Conns |-> "idle"] /\ name' = [d \in Conns |-> NoName]
        /\ local' = [d \in Conns |-> NoLocal] /\ viewing' = [d \in Conns |-> NoName]
        /\ fileMap' = [f \in Listed |-> Absent] /\ trashMap' = [f \in Listed |-> Absent]
        /\ connMap' = [f \in Names |-> {}]
        /\ up' = FALSE
        /\ torn' = (torn \/ \E c \in Conns : pc[c] \in Appending \ {"setnum"})
        /\ UNCHANGED <<config, stored, created, clash, stale, misplaced, calls>>
    BY <1>5 DEF Crash
  <2>2. orphans' \subseteq Listed
    BY <1>5 DEF Crash, TypeOK
  <2>3. NoLocal \in Locals
    <3>1. <<>> \in Seq(Row)
      OBVIOUS
    <3>2. Nothing \in ConfigType
      BY <3>1 DEF Nothing, ConfigType, Length
    <3>3. QED
      BY <3>2 DEF NoLocal, Locals, Length
  <2>4. torn' \in BOOLEAN
    BY <2>1
  <2>5. TypeOK'
    BY <2>1, <2>2, <2>3, <2>4 DEF TypeOK, Listed, Locals
  <2>6. Fits'
    BY <2>1 DEF Fits
  <2>7. QED
    BY <2>5, <2>6
<1>6. ASSUME Restart
      PROVE  TypeOK' /\ Fits'
  <2>1. /\ UNCHANGED <<connMap, config, stored, pc, name, local, viewing, clash, ghosts>>
        /\ up' = TRUE /\ fileMap' = Built(TRUE) /\ trashMap' = Built(FALSE)
    BY <1>6 DEF Restart
  <2>2. \A v \in BOOLEAN : Built(v) \in [Listed -> {Absent, 0, DefaultSize}]
    BY DEF Built
  <2>3. TypeOK'
    BY <2>1, <2>2 DEF TypeOK, ghosts, budget
  <2>4. Fits'
    BY <2>1 DEF Fits
  <2>5. QED
    BY <2>3, <2>4
<1>7. QED
  BY <1>1, <1>2, <1>3, <1>4, <1>5, <1>6

LEMMA TypeInit ==
  ASSUME Init
  PROVE  TypeOK /\ Fits
<1>1. <<>> \in Seq(Row) /\ Len(<<>>) = 0
  OBVIOUS
<1>2. Nothing \in ConfigType
  BY <1>1 DEF Nothing, ConfigType, Length
<1>3. NoLocal \in Locals
  BY <1>2 DEF NoLocal, Locals, Length
<1>4. PICK l \in {Under, 0} : config = [Nothing EXCEPT !.len = l]
  BY DEF Init
<1>5. config \in ConfigType /\ config.rows = <<>> /\ config.len \in {Under, 0}
  BY <1>1, <1>2, <1>4 DEF ConfigType, Length, Nothing
<1>6. TypeOK
  BY <1>3, <1>5 DEF Init, TypeOK, Listed, Locals
<1>7. Fits
  BY <1>1, <1>5 DEF Init, Fits, Appending, Under
<1>8. QED
  BY <1>6, <1>7

LEMMA TypeStep ==
  ASSUME TypeOK, Fits, [Next]_vars
  PROVE  TypeOK' /\ Fits'
<1>1. CASE Next
  BY <1>1, CreateTypes, MarkTypes, ClearTypes, OtherTypes DEF Next, Handler
<1>2. CASE UNCHANGED vars
  BY <1>2 DEF vars, server, ghosts, maps, budget, TypeOK, Fits
<1>3. QED
  BY <1>1, <1>2

\* What the maps, "config" and the handlers hold is well formed: whatever
\* overlaps, whatever is requested and whenever the server crashes, rows stay
\* rows, and the length is a number of rows that are there, or one of the two
\* that changeValidBit and clearTrash leave.
THEOREM TypeCorrect == Spec => []TypeOK
<1>1. Spec => [](TypeOK /\ Fits)
  BY TypeInit, TypeStep, PTL DEF Spec
<1>2. QED
  BY <1>1, PTL

-----------------------------------------------------------------------------
(* Who runs beside whom                                                    *)

\* Every step of a handler notes how it overlaps others.
LEMMA HandlerIs ==
  ASSUME TypeOK, NEW c \in Conns, Handler(c)
  PROVE  /\ Others(c) /\ pc[c] # "idle" /\ pc' \in [Conns -> Places]
         /\ clash' = clash \cup Overlap(pc')
         /\ name'[c] = name[c] \/ pc'[c] = "idle"
         /\ UNCHANGED <<up, torn, orphans, budget>>
<1> DEFINE Goal == /\ Others(c) /\ clash' = clash \cup Overlap(pc')
                   /\ pc' \in [Conns -> Places]
                   /\ name'[c] = name[c] \/ pc'[c] = "idle"
<1>1. ASSUME Done(c) PROVE Goal
  BY <1>1, DoneIs
<1>2. ASSUME NEW s \in Places, Goto(c, s), UNCHANGED local PROVE Goal
  BY <1>2, GotoIs DEF Others
<1>3. ASSUME NEW s \in Places, NEW l, With(c, s, l) PROVE Goal
  <2>1. Goto(c, s) /\ \A d \in Conns : d # c => local'[d] = local[d]
    BY <1>3 DEF With, TypeOK
  <2>2. QED
    BY <2>1, GotoIs DEF Others
<1> HIDE DEF Goal
<1> USE DEF Places, AllRequests, Appending, Marking, Rewriting
<1>4. CASE \/ CreateCheck(c) \/ CreateFile(c) \/ CreateFill(c) \/ CreateGetNum(c)
           \/ CreateSetNum(c) \/ CreateGetLen(c) \/ CreateRow(c) \/ CreateSetLen(c)
  <2>1. Goal
    BY <1>1, <1>2, <1>3, <1>4 DEF CreateCheck, CreateFile, CreateFill, CreateGetNum,
       CreateSetNum, CreateGetLen, CreateRow, CreateSetLen
  <2>2. QED
    BY <1>4, <2>1 DEF Goal, CreateCheck, CreateFile, CreateFill, CreateGetNum, CreateSetNum,
       CreateGetLen, CreateRow, CreateSetLen, server, ghosts, budget
<1>5. CASE \/ TrashCheck(c) \/ Trash(c) \/ Recover(c)
           \/ BitLen(c) \/ BitFind(c) \/ BitSet(c)
  <2>1. Goal
    BY <1>1, <1>2, <1>3, <1>5 DEF TrashCheck, Trash, Recover, BitLen, BitFind, BitSet
  <2>2. QED
    BY <1>5, <2>1 DEF Goal, TrashCheck, Trash, Recover, BitLen, BitFind, BitSet, server, ghosts,
       budget
<1>6. CASE Clear(c) \/ ClearLen(c) \/ ClearRead(c) \/ ClearWrite(c) \/ ClearDelete(c)
  <2>1. Goal
    BY <1>1, <1>2, <1>3, <1>6 DEF Clear, ClearLen, ClearRead, ClearWrite, ClearDelete
  <2>2. QED
    BY <1>6, <2>1 DEF Goal, Clear, ClearLen, ClearRead, ClearWrite, ClearDelete, server, ghosts,
       budget
<1>7. CASE Open(c) \/ Lookup(c)
  <2>1. Goal
    BY <1>1, <1>2, <1>3, <1>7 DEF Open, Lookup
  <2>2. QED
    BY <1>7, <2>1 DEF Goal, Open, Lookup, server, ghosts, budget
<1>8. QED
  BY <1>4, <1>5, <1>6, <1>7 DEF Handler

\* A request moves its own handler only, to where nothing was done yet.
LEMMA RequestIs ==
  ASSUME TypeOK, NEW c \in Conns, NEW r \in Requests, NEW f \in Listed, Request(c, r, f)
  PROVE  /\ Others(c) /\ pc'[c] \in AllRequests /\ name'[c] = f /\ up
         /\ UNCHANGED <<server, local, viewing, clash, created, stale, misplaced, torn, orphans>>
BY RequestAssumption DEF Request, TypeOK, Others

\* What clash leaves out: one handler at a time changes the number of rows,
Changing == Appending \cup Rewriting

Sole ==
  "rows" \notin clash =>
    \A c, d \in Conns : pc[c] \in Changing /\ pc[d] \in Changing => c = d

\* and a bit is marked beside none that moves or changes its row.
Filled == {"getnum"} \cup Appending

Apart ==
  "bits" \notin clash =>
    \A c, d \in Conns : c # d /\ pc[c] \in Marking =>
      /\ pc[d] \notin Rewriting
      /\ name[c] = name[d] => pc[d] \notin Marking \cup Filled

\* Nothing runs between a crash and the restart.
Down == ~up => \A c \in Conns : pc[c] = "idle" /\ viewing[c] = NoName

Beside == Sole /\ Apart /\ Down

LEMMA BesideStep ==
  ASSUME TypeOK, TypeOK', Beside, [Next]_vars
  PROVE  Beside'
<1> USE DEF Beside, Sole, Apart, Changing, Filled
<1>1. ASSUME NEW c \in Conns, Handler(c)
      PROVE  Beside'
  <2>1. /\ Others(c) /\ pc[c] # "idle" /\ clash' = clash \cup Overlap(pc')
        /\ name'[c] = name[c] \/ pc'[c] = "idle"
        /\ up' = up
    BY <1>1, HandlerIs
  <2>2. up
    BY <2>1 DEF Down
  <2>3. Sole'
    <3> SUFFICES ASSUME "rows" \notin clash', NEW e \in Conns, NEW d \in Conns, e # d,
                        pc'[e] \in Changing, pc'[d] \in Changing
                 PROVE  FALSE
      OBVIOUS
    <3>1. "rows" \in Overlap(pc')
      BY DEF Overlap
    <3>2. QED
      BY <2>1, <3>1
  <2>4. Apart'
    <3> SUFFICES ASSUME "bits" \notin clash', NEW e \in Conns, NEW d \in Conns, e # d,
                        pc'[e] \in Marking,
                        \/ pc'[d] \in Rewriting
                        \/ name'[e] = name'[d] /\ pc'[d] \in Marking \cup Filled
                 PROVE  FALSE
      OBVIOUS
    <3>1. name'[e] = name[e]
      BY <2>1 DEF Others, Marking
    <3>2. pc'[d] \in Rewriting \/ (name[e] = name[d] /\ pc'[d] \in Marking \cup Filled)
      BY <2>1, <3>1 DEF Others, Marking, Appending
    <3>3. "bits" \in Overlap(pc')
      BY <3>2 DEF Overlap
    <3>4. QED
      BY <2>1, <3>3
  <2>5. Down'
    BY <2>1, <2>2 DEF Down
  <2>6. QED
    BY <2>3, <2>4, <2>5
<1>2. ASSUME NEW c \in Conns, NEW r \in Requests, NEW f \in Listed, Request(c, r, f)
      PROVE  Beside'
  BY <1>2, RequestIs DEF Others, AllRequests, Appending, Marking, Rewriting, Down, server
<1>3. ASSUME NEW c \in Conns, Close(c) \/ Leave(c)
      PROVE  Beside'
  BY <1>3 DEF Close, Leave, Down
<1>4. ASSUME Crash
      PROVE  Beside'
  BY <1>4 DEF Crash, Down, Appending, Marking, Rewriting
<1>5. ASSUME Restart
      PROVE  Beside'
  BY <1>5 DEF Restart, Down
<1>6. ASSUME UNCHANGED vars
      PROVE  Beside'
  BY <1>6 DEF vars, server, Down
<1>7. QED
  BY <1>1, <1>2, <1>3, <1>4, <1>5, <1>6 DEF Next

LEMMA BesideInit == Init => Beside
BY DEF Init, Beside, Sole, Apart, Changing, Filled, Down, Appending, Marking, Rewriting

\* The types and who runs beside whom, which the rest builds on.
Base == TypeOK /\ Fits /\ Beside

LEMMA BaseInvariant == Spec => []Base
<1>1. Init => Base
  BY TypeInit, BesideInit DEF Base
<1>2. Base /\ [Next]_vars => Base'
  BY TypeStep, BesideStep DEF Base
<1>3. QED
  BY <1>1, <1>2, PTL DEF Spec

-----------------------------------------------------------------------------
(* No page shows a document in the trash                                   *)

\* A page that shows a document, or is about to, is in connMap, where
\* moveToTrash has looked.
Connected ==
  /\ \A c \in Conns : /\ viewing[c] # NoName => c \in connMap[viewing[c]]
                      /\ pc[c] = "lookup" => c \in connMap[name[c]]
  /\ "open" \notin clash =>
       \A d \in Conns : pc[d] = "trash" /\ name[d] \in Names => connMap[name[d]] = {}

\* Steps that neither open nor close documents, nor take one out of fileMap.
LEMMA OpenFrame ==
  ASSUME TypeOK, Connected, OpenNotTrashed, NEW c \in Conns, Others(c),
         connMap' = connMap, viewing' = viewing, clash \subseteq clash',
         pc'[c] \notin {"lookup", "trash"},
         \A f \in Listed : fileMap[f] # Absent => fileMap'[f] # Absent
  PROVE  Connected' /\ OpenNotTrashed'
<1>1. viewing \in [Conns -> Listed]
  BY DEF TypeOK
<1>2. Connected'
  BY DEF Connected, Others
<1>3. OpenNotTrashed'
  BY <1>1 DEF OpenNotTrashed
<1>4. QED
  BY <1>2, <1>3

LEMMA OpenStep ==
  ASSUME Base, Base', Connected, OpenNotTrashed, [Next]_vars
  PROVE  Connected' /\ OpenNotTrashed'
<1> USE DEF Base
<1>1. /\ viewing \in [Conns -> Listed] /\ connMap \in [Names -> SUBSET Conns]
      /\ name \in [Conns -> Listed] /\ fileMap \in [Listed -> {Absent, 0, DefaultSize}]
      /\ pc \in [Conns -> Places]
  BY DEF TypeOK, Places
<1>2. ASSUME NEW c \in Conns, Handler(c),
             connMap' = connMap, viewing' = viewing, pc'[c] \notin {"lookup", "trash"},
             \A f \in Listed : fileMap[f] # Absent => fileMap'[f] # Absent
      PROVE  Connected' /\ OpenNotTrashed'
  BY <1>2, HandlerIs, OpenFrame
<1>3. ASSUME NEW c \in Conns, Handler(c), UNCHANGED <<connMap, viewing, fileMap>>,
             \/ Done(c)
             \/ \E s \in Places \ {"lookup", "trash"} : Goto(c, s)
      PROVE  Connected' /\ OpenNotTrashed'
  <2>1. pc'[c] \notin {"lookup", "trash"}
    BY <1>3, DoneIs, GotoIs
  <2>2. QED
    BY <1>2, <1>3, <2>1
<1> DEFINE Rest == Places \ {"lookup", "trash"}
<1>4. ASSUME NEW c \in Conns,
             \/ CreateCheck(c) \/ CreateFile(c) \/ CreateGetNum(c)
             \/ CreateSetNum(c) \/ CreateGetLen(c) \/ CreateRow(c) \/ CreateSetLen(c)
      PROVE  Connected' /\ OpenNotTrashed'
  <2>1. {"recover", "mkfile", "fill", "setnum", "getlen", "row", "stuck", "setlen"} \subseteq Rest
    BY DEF Places, AllRequests, Appending
  <2>2. UNCHANGED <<connMap, viewing, fileMap>> /\ Handler(c)
    BY <1>4 DEF CreateCheck, CreateFile, CreateGetNum, CreateSetNum, CreateGetLen, CreateRow,
       CreateSetLen, server, maps, Handler
  <2>3. Done(c) \/ \E s \in Rest : Goto(c, s)
    <3> HIDE DEF Rest
    <3> QED
      BY <1>4, <2>1 DEF CreateCheck, CreateFile, CreateGetNum, CreateSetNum, CreateGetLen,
         CreateRow, CreateSetLen, With
  <2>4. QED
    BY <1>3, <2>2, <2>3
<1>5. ASSUME NEW c \in Conns,
             \/ BitLen(c) \/ BitFind(c) \/ BitSet(c)
             \/ Clear(c) \/ ClearLen(c) \/ ClearRead(c) \/ ClearWrite(c) \/ ClearDelete(c)
      PROVE  Connected' /\ OpenNotTrashed'
  <2>1. {"find", "mark", "ctlen", "whole", "rewrite", "unlink"} \subseteq Rest
    BY DEF Places, AllRequests, Marking, Rewriting
  <2>2. UNCHANGED <<connMap, viewing, fileMap>> /\ Handler(c)
    BY <1>5 DEF BitLen, BitFind, BitSet, Clear, ClearLen, ClearRead, ClearWrite, ClearDelete,
       server, maps, Handler
  <2>3. Done(c) \/ \E s \in Rest : Goto(c, s)
    <3> HIDE DEF Rest
    <3> QED
      BY <1>5, <2>1 DEF BitLen, BitFind, BitSet, Clear, ClearLen, ClearRead, ClearWrite,
         ClearDelete, With
  <2>4. QED
    BY <1>3, <2>2, <2>3
<1>6. ASSUME NEW c \in Conns, CreateFill(c)
      PROVE  Connected' /\ OpenNotTrashed'
  <2>1. /\ UNCHANGED <<connMap, viewing>> /\ Goto(c, "getnum") /\ Handler(c)
        /\ fileMap' = [fileMap EXCEPT ![name[c]] = DefaultSize]
    BY <1>6 DEF CreateFill, Put, Handler
  <2>2. pc'[c] = "getnum"
    BY <2>1, GotoIs DEF Places
  <2>3. \A f \in Listed : fileMap[f] # Absent => fileMap'[f] # Absent
    BY <1>1, <2>1 DEF Absent, DefaultSize
  <2>4. QED
    BY <1>2, <2>1, <2>2, <2>3
<1>7. ASSUME NEW c \in Conns, Recover(c)
      PROVE  Connected' /\ OpenNotTrashed'
  <2>1. /\ UNCHANGED <<connMap, viewing>> /\ Goto(c, "bitlen") /\ Handler(c)
        /\ fileMap' = [fileMap EXCEPT ![name[c]] = Get(trashMap, name[c])]
    BY <1>7 DEF Recover, Put, Handler, With
  <2>2. pc'[c] = "bitlen"
    BY <2>1, GotoIs DEF Places, Marking
  <2>3. \A f \in Listed : fileMap[f] # Absent => fileMap'[f] # Absent
    BY <1>1, <2>1 DEF Absent, Get
  <2>4. QED
    BY <1>2, <2>1, <2>2, <2>3
<1>8. ASSUME NEW c \in Conns, TrashCheck(c)
      PROVE  Connected' /\ OpenNotTrashed'
  <2>1. UNCHANGED <<connMap, viewing, fileMap>> /\ Handler(c)
    BY <1>8 DEF TrashCheck, server, maps, Handler
  <2>2. CASE Done(c)
    BY <1>3, <2>1, <2>2
  <2>3. CASE Goto(c, "trash") /\ ~(name[c] \in Names /\ connMap[name[c]] # {})
    <3>1. /\ Others(c) /\ clash \subseteq clash' /\ pc'[c] = "trash" /\ name' = name
      BY <2>1, <2>3, HandlerIs, GotoIs DEF Places
    <3>2. QED
      BY <2>1, <2>3, <3>1 DEF Connected, OpenNotTrashed, Others
  <2>4. QED
    BY <1>8, <2>2, <2>3 DEF TrashCheck
<1>9. ASSUME NEW c \in Conns, Trash(c)
      PROVE  Connected' /\ OpenNotTrashed'
  <2>1. /\ UNCHANGED <<connMap, viewing>> /\ Goto(c, "bitlen") /\ Handler(c)
        /\ fileMap' = [fileMap EXCEPT ![name[c]] = Absent] /\ pc[c] = "trash"
    BY <1>9 DEF Trash, Put, Handler
  <2>2. Others(c) /\ clash \subseteq clash' /\ pc'[c] = "bitlen"
    BY <2>1, HandlerIs, GotoIs DEF Places, Marking
  <2>3. Connected'
    BY <2>1, <2>2 DEF Connected, Others
  <2>4. ASSUME "open" \notin clash', NEW d \in Conns, viewing[d] # NoName
        PROVE  viewing[d] # name[c] /\ fileMap[viewing[d]] # Absent
    <3>1. viewing[d] \in Names /\ d \in connMap[viewing[d]] /\ "open" \notin clash
      BY <1>1, <2>2, <2>4 DEF Connected, Listed
    <3>2. QED
      BY <2>1, <2>4, <3>1 DEF Connected, OpenNotTrashed
  <2>5. OpenNotTrashed'
    BY <1>1, <2>1, <2>4 DEF OpenNotTrashed
  <2>6. QED
    BY <2>3, <2>5
<1>10. ASSUME NEW c \in Conns, Open(c)
       PROVE  Connected' /\ OpenNotTrashed'
  <2>1. /\ UNCHANGED <<viewing, fileMap>> /\ Goto(c, "lookup") /\ Handler(c)
        /\ connMap' = [connMap EXCEPT ![name[c]] = @ \cup {c}] /\ pc[c] = "open"
    BY <1>10 DEF Open, maps, Handler
  <2>2. /\ Others(c) /\ clash' = clash \cup Overlap(pc') /\ pc'[c] = "lookup" /\ name' = name
    BY <2>1, HandlerIs, GotoIs DEF Places
  <2>3. name[c] \in Names
    BY <2>1 DEF Fits
  <2>4. \A f \in Names : connMap'[f] = IF f = name[c] THEN connMap[f] \cup {c} ELSE connMap[f]
    BY <1>1, <2>1
  <2>5. \A d \in Conns : /\ viewing'[d] # NoName => d \in connMap'[viewing'[d]]
                         /\ pc'[d] = "lookup" => d \in connMap'[name'[d]]
    <3> TAKE d \in Conns
    <3>1. viewing'[d] # NoName => d \in connMap'[viewing'[d]]
      BY <1>1, <2>1, <2>4 DEF Connected, Listed
    <3>2. pc'[d] = "lookup" => d \in connMap'[name'[d]]
      <4>1. pc'[d] = "lookup" => name'[d] \in Names
        BY DEF Fits
      <4>2. QED
        BY <2>2, <2>3, <2>4, <4>1 DEF Connected, Others
    <3>3. QED
      BY <3>1, <3>2
  <2>6. ASSUME "open" \notin clash', NEW d \in Conns, pc'[d] = "trash", name'[d] \in Names
        PROVE  connMap'[name'[d]] = {}
    <3>1. d # c /\ pc[d] = "trash"
      BY <2>2, <2>6 DEF Others
    <3>2. name[d] # name[c]
      <4> SUFFICES ASSUME name[d] = name[c] PROVE FALSE
        OBVIOUS
      <4>1. "open" \in Overlap(pc')
        BY <2>2, <2>6, <3>1 DEF Overlap
      <4>2. QED
        BY <2>2, <2>6, <4>1
    <3>3. QED
      BY <2>2, <2>4, <2>6, <3>1, <3>2 DEF Connected
  <2>7. QED
    BY <2>1, <2>2, <2>5, <2>6 DEF Connected, OpenNotTrashed
<1>11. ASSUME NEW c \in Conns, Lookup(c)
       PROVE  Connected' /\ OpenNotTrashed'
  <2>1. /\ UNCHANGED <<connMap, fileMap>> /\ Done(c) /\ Handler(c) /\ pc[c] = "lookup"
        /\ viewing' = IF fileMap[name[c]] = Absent THEN viewing
                      ELSE [viewing EXCEPT ![c] = name[c]]
    BY <1>11 DEF Lookup, server, maps, Handler
  <2>2. Others(c) /\ clash \subseteq clash' /\ pc'[c] = "idle"
    BY <2>1, HandlerIs, DoneIs
  <2>3. \A d \in Conns : viewing'[d] \in {viewing[d], name[c]}
          /\ (viewing'[d] # viewing[d] => d = c /\ viewing'[d] = name[c]
                                         /\ fileMap[name[c]] # Absent)
    BY <1>1, <2>1
  <2>4. c \in connMap[name[c]]
    BY <2>1 DEF Connected
  <2>5. Connected'
    BY <2>1, <2>2, <2>3, <2>4 DEF Connected, Others
  <2>6. OpenNotTrashed'
    BY <2>1, <2>2, <2>3 DEF OpenNotTrashed
  <2>7. QED
    BY <2>5, <2>6
<1>12. ASSUME NEW c \in Conns, Close(c) \/ Leave(c)
       PROVE  Connected' /\ OpenNotTrashed'
  <2>1. /\ UNCHANGED <<fileMap, pc, name, clash>> /\ pc[c] = "idle"
        /\ viewing' = [viewing EXCEPT ![c] = NoName]
    BY <1>12 DEF Close, Leave, maps
  <2>2. \A d \in Conns : viewing'[d] = IF d = c THEN NoName ELSE viewing[d]
    BY <1>1, <2>1
  <2>3. \A f \in Names : connMap'[f] \in {connMap[f], connMap[f] \ {c}}
    BY <1>1, <1>12 DEF Close, Leave
  <2>4. \A f \in Names : \A d \in Conns : d # c /\ d \in connMap[f] => d \in connMap'[f]
    BY <2>3
  <2>5. \A d \in Conns : /\ viewing'[d] # NoName => d \in connMap'[viewing'[d]]
                         /\ pc'[d] = "lookup" => d \in connMap'[name'[d]]
    BY <1>1, <2>1, <2>2, <2>4 DEF Connected, Listed, Fits
  <2>6. Connected'
    BY <2>1, <2>3, <2>5 DEF Connected
  <2>7. OpenNotTrashed'
    BY <2>1, <2>2 DEF OpenNotTrashed
  <2>8. QED
    BY <2>6, <2>7
<1>13. ASSUME NEW c \in Conns, NEW r \in Requests, NEW f \in Listed, Request(c, r, f)
       PROVE  Connected' /\ OpenNotTrashed'
  BY <1>13, RequestIs, OpenFrame DEF AllRequests, server, maps
<1>14. ASSUME Crash
       PROVE  Connected' /\ OpenNotTrashed'
  BY <1>14 DEF Crash, Connected, OpenNotTrashed
<1>15. ASSUME Restart
       PROVE  Connected' /\ OpenNotTrashed'
  BY <1>15 DEF Restart, Connected, OpenNotTrashed, Beside, Down
<1>16. ASSUME UNCHANGED vars
       PROVE  Connected' /\ OpenNotTrashed'
  BY <1>16 DEF vars, server, maps, Connected, OpenNotTrashed
<1>17. QED
  BY <1>4, <1>5, <1>6, <1>7, <1>8, <1>9, <1>10, <1>11, <1>12, <1>13, <1>14, <1>15, <1>16
     DEF Next, Handler

\* No page shows a document that is in the trash, unless it was opened between
\* moveToTrash's look at connMap and its change of the maps; for any number of
\* pages and documents, through reloads, closings and crashes.
THEOREM OpenNotTrashedHolds == Spec => []OpenNotTrashed
<1>1. Init => Connected /\ OpenNotTrashed
  BY DEF Init, Connected, OpenNotTrashed
<1>2. Base /\ Base' /\ Connected /\ OpenNotTrashed /\ [Next]_vars
        => Connected' /\ OpenNotTrashed'
  BY OpenStep
<1>3. QED
  BY <1>1, <1>2, BaseInvariant, PTL DEF Spec

-----------------------------------------------------------------------------
(* No document is lost                                                     *)

Counted  == {"getlen", "row", "setlen"}
Creating == {"fill"} \cup Filled
Busy     == Creating \cup {"unlink"}
Clearing == {"ctlen"} \cup Rewriting

\* Document f has one of the first n rows.
In(f, n) == \E i \in 1..n : config.rows[i].name = f

\* The first n rows are those of the documents that were created.  The length
\* in the header is n, or was overwritten.
Kept(n) ==
  /\ config.len \in {n, Far} /\ n <= Len(config.rows) /\ n <= config.num
  /\ \A i \in 1..n : /\ config.rows[i].name \in stored
                     /\ \A j \in 1..n : config.rows[i].name = config.rows[j].name => i = j
  /\ \A f \in created : In(f, n)

\* A document that is being created, or deleted, has its file and no row.
Between(n) ==
  \A c \in Conns : pc[c] \in Busy =>
    /\ name[c] \in stored /\ ~In(name[c], n)
    /\ \A d \in Conns : pc[d] \in Busy /\ name[c] = name[d] => c = d

\* The place in n rows of row j of those that are left without row k.
Shift(j, k) == IF j < k THEN j ELSE j + 1

\* s is what is left of the n rows without that of f.
CutOut(s, f, n) ==
  /\ s.len = n - 1 /\ Len(s.rows) = n - 1 /\ n - 1 <= s.num
  /\ \E k \in 1..n : /\ config.rows[k].name = f
                     /\ \A j \in 1..(n - 1) : s.rows[j].name = config.rows[Shift(j, k)].name

\* What a handler knows that changes the number of rows.
Knows(c, n) ==
  /\ pc[c] = "setnum" => n <= local[c].num
  /\ pc[c] \in Counted => n < config.num
  /\ pc[c] = "row" => local[c].len \in {n, Far}
  /\ pc[c] = "setlen" => /\ local[c].len = n /\ n < Len(config.rows)
                         /\ config.rows[n + 1].name = name[c]
  /\ pc[c] = "whole" => local[c].len \in {n, Far} /\ (local[c].len = Far => config.len = Far)
  /\ pc[c] = "rewrite" /\ local[c].own /\ local[c].snap.len # Far
       => CutOut(local[c].snap, name[c], n)

Rows(n) == Kept(n) /\ Between(n) /\ \A c \in Conns : Knows(c, n)

\* The length in the header is lost for good, and nobody remembers it.
Spoilt ==
  /\ config.len = Far
  /\ \A c \in Conns : /\ pc[c] = "row" => local[c].len = Far
                      /\ pc[c] # "setlen"
                      /\ pc[c] = "rewrite" => local[c].snap.len = Far

LEMMA KnowsIdle ==
  ASSUME NEW c \in Conns, NEW n \in Nat, pc[c] \notin Changing
  PROVE  Knows(c, n)
BY DEF Knows, Changing, Counted, Appending, Rewriting

\* A step of one handler that leaves the first n rows.
LEMMA RowsFrame ==
  ASSUME Base, Base', NEW n \in Nat, Rows(n), NEW c \in Conns, Others(c),
         Kept(n)', stored \subseteq stored',
         \A i \in 1..n : config'.rows[i].name = config.rows[i].name,
         config' = config \/ \A d \in Conns : d # c => pc[d] \notin Changing,
         pc'[c] \in Busy =>
           \/ pc[c] \in Busy /\ name'[c] = name[c]
           \/ /\ name'[c] \in stored' /\ ~In(name'[c], n)
              /\ \A d \in Conns : d # c /\ pc[d] \in Busy => name[d] # name'[c],
         Knows(c, n)'
  PROVE  Rows(n)'
<1>1. \A f : In(f, n)' <=> In(f, n)
  BY DEF In
<1>2. Between(n)'
  <2>1. ASSUME NEW d \in Conns, pc'[d] \in Busy
        PROVE  /\ name'[d] \in stored' /\ ~In(name'[d], n)
               /\ \A e \in Conns : pc'[e] \in Busy /\ name'[d] = name'[e] => d = e
    <3>1. CASE d # c
      BY <2>1, <3>1 DEF Rows, Between, Others
    <3>2. CASE d = c
      BY <2>1, <3>2 DEF Rows, Between, Others
    <3>3. QED
      BY <3>1, <3>2
  <2>2. QED
    BY <1>1, <2>1 DEF Between
<1>3. ASSUME NEW d \in Conns, d # c
      PROVE  Knows(d, n)'
  <2>1. pc'[d] = pc[d] /\ name'[d] = name[d] /\ local'[d] = local[d]
    BY <1>3 DEF Others
  <2>2. CASE config' = config
    <3>1. Knows(d, n)
      BY DEF Rows
    <3>2. QED
      BY <2>1, <2>2, <3>1 DEF Knows, CutOut
  <2>3. CASE pc[d] \notin Changing
    BY <2>1, <2>3 DEF Knows, Changing, Counted, Appending, Rewriting
  <2>4. QED
    BY <1>3, <2>2, <2>3
<1>4. QED
  BY <1>2, <1>3 DEF Rows

\* One that has nothing to do with the rows.
LEMMA RowsStay ==
  ASSUME Base, Base', NEW n \in Nat, Rows(n), NEW c \in Conns, Others(c),
         UNCHANGED <<config, stored, created>>,
         pc'[c] \notin Changing,
         pc'[c] \in Busy => pc[c] \in Busy /\ name'[c] = name[c]
  PROVE  Rows(n)'
<1>1. Kept(n)'
  BY DEF Rows, Kept, In
<1>2. Knows(c, n)'
  BY DEF Knows, Changing, Counted, Appending, Rewriting
<1>3. QED
  BY <1>1, <1>2, RowsFrame

\* The steps of handleCreate up to the row leave the n rows.
LEMMA CreateRows ==
  ASSUME Base, Base', NEW n \in Nat, Rows(n), "rows" \notin clash', NEW c \in Conns,
         \/ CreateCheck(c) \/ CreateFile(c) \/ CreateFill(c) \/ CreateGetNum(c)
         \/ CreateSetNum(c) \/ CreateGetLen(c) \/ CreateRow(c)
  PROVE  Rows(n)'
<1>0. TypeOK /\ Fits /\ Sole /\ Sole'
  BY DEF Base, Beside
<1>1. /\ Others(c) /\ "rows" \notin clash
      /\ \A s : Goto(c, s) /\ s \in Places => pc'[c] = s /\ name'[c] = name[c]
      /\ Done(c) => pc'[c] = "idle"
  <2>1. Handler(c)
    BY DEF Handler
  <2>2. QED
    BY <1>0, <2>1, HandlerIs, GotoIs, DoneIs
<1>2. /\ config \in ConfigType /\ config.num \in Nat /\ config.len \in Length
      /\ config.rows \in Seq(Row) /\ Len(config.rows) \in Nat
      /\ local[c] \in Locals /\ local[c].num \in Nat /\ local[c].len \in Length
      /\ local \in [Conns -> Locals]
  BY <1>0 DEF TypeOK, ConfigType, Locals
<1>3. Kept(n) /\ Between(n) /\ Knows(c, n)
  BY DEF Rows
<1>4. ASSUME pc'[c] \in Changing
      PROVE  \A d \in Conns : d # c => pc[d] \notin Changing
  BY <1>0, <1>1, <1>4 DEF Sole, Others
<1> USE DEF Places, AllRequests, Appending, Rewriting, Changing, Filled, Creating, Busy
<1>5. CASE CreateCheck(c)
  BY <1>1, <1>5, RowsStay DEF CreateCheck, server, ghosts
<1>6. CASE CreateFile(c)
  <2>1. UNCHANGED <<config, created>> /\ pc[c] = "mkfile"
    BY <1>6 DEF CreateFile, ghosts
  <2>2. CASE Done(c) /\ UNCHANGED stored
    BY <1>1, <2>1, <2>2, RowsStay
  <2>3. CASE Goto(c, "fill") /\ stored' = stored \cup {name[c]} /\ name[c] \notin stored
    <3>1. pc'[c] = "fill" /\ name'[c] = name[c]
      BY <1>1, <2>3
    <3>2. Kept(n)'
      BY <1>3, <2>1, <2>3 DEF Kept, In
    <3>3. ~In(name[c], n) /\ \A d \in Conns : d # c /\ pc[d] \in Busy => name[d] # name[c]
      BY <1>3, <2>3 DEF Kept, Between, In
    <3>4. Knows(c, n)'
      BY <3>1 DEF Knows, Counted
    <3>5. QED
      BY <1>1, <2>1, <2>3, <3>1, <3>2, <3>3, <3>4, RowsFrame
  <2>4. QED
    BY <1>6, <2>2, <2>3 DEF CreateFile
<1>7. CASE CreateFill(c)
  <2>1. /\ UNCHANGED <<config, stored, created>> /\ pc[c] = "fill"
        /\ pc'[c] = "getnum" /\ name'[c] = name[c]
    BY <1>1, <1>7 DEF CreateFill, ghosts
  <2>2. QED
    BY <1>1, <2>1, RowsStay
<1>8. CASE CreateGetNum(c)
  <2>1. /\ UNCHANGED <<config, stored, created>> /\ pc[c] = "getnum"
        /\ pc'[c] = "setnum" /\ name'[c] = name[c]
        /\ local' = [local EXCEPT ![c] = [local[c] EXCEPT !.num = config.num]]
    BY <1>1, <1>8 DEF CreateGetNum, With, server, ghosts
  <2>2. local'[c].num = config.num
    BY <1>2, <2>1 DEF Locals
  <2>3. Kept(n)'
    BY <1>3, <2>1 DEF Kept, In
  <2>4. Knows(c, n)'
    BY <1>3, <2>1, <2>2 DEF Knows, Counted, Kept
  <2>5. QED
    BY <1>1, <2>1, <2>3, <2>4, RowsFrame
<1>9. CASE CreateSetNum(c)
  <2>1. /\ UNCHANGED <<stored, created, local>> /\ pc[c] = "setnum"
        /\ pc'[c] = "getlen" /\ name'[c] = name[c]
        /\ config' = [config EXCEPT !.num = local[c].num + 1]
    BY <1>1, <1>9 DEF CreateSetNum, ghosts
  <2>2. /\ config'.num = local[c].num + 1 /\ config'.len = config.len
        /\ config'.rows = config.rows
    BY <1>2, <2>1 DEF ConfigType
  <2>3. n <= local[c].num
    BY <1>3, <2>1 DEF Knows
  <2>4. Kept(n)'
    BY <1>2, <1>3, <2>1, <2>2, <2>3 DEF Kept, In
  <2>5. Knows(c, n)'
    BY <1>2, <2>1, <2>2, <2>3 DEF Knows, Counted
  <2>6. QED
    BY <1>1, <1>4, <2>1, <2>2, <2>4, <2>5, RowsFrame
<1>10. CASE CreateGetLen(c)
  <2>1. /\ UNCHANGED <<config, stored, created>> /\ pc[c] = "getlen"
        /\ pc'[c] = "row" /\ name'[c] = name[c]
        /\ local' = [local EXCEPT ![c] = [local[c] EXCEPT !.len = config.len]]
    BY <1>1, <1>10 DEF CreateGetLen, With, server, ghosts
  <2>2. local'[c].len = config.len
    BY <1>2, <2>1 DEF Locals
  <2>3. Kept(n)'
    BY <1>3, <2>1 DEF Kept, In
  <2>4. Knows(c, n)'
    BY <1>3, <2>1, <2>2 DEF Knows, Counted, Kept
  <2>5. QED
    BY <1>1, <2>1, <2>3, <2>4, RowsFrame
<1>11. CASE CreateRow(c)
  <2>1. /\ UNCHANGED <<stored, created, local>> /\ pc[c] = "row" /\ local[c].len # Under
    BY <1>11 DEF CreateRow, ghosts
  <2>2. CASE Goto(c, "stuck") /\ UNCHANGED config
    BY <1>1, <2>1, <2>2, RowsStay
  <2>3. CASE local[c].len # Far
    <3> DEFINE one == <<[name |-> name[c], valid |-> TRUE]>>
               new == Overwrite(config.rows, n + 1, one)
    <3>1. local[c].len = n
      BY <1>3, <2>1, <2>3 DEF Knows
    <3>2. /\ pc'[c] = "setlen" /\ name'[c] = name[c]
          /\ config' = [config EXCEPT !.rows = new]
      BY <1>1, <1>11, <2>3, <3>1 DEF CreateRow
    <3>3. one \in Seq(Row) /\ Len(one) = 1 /\ one[1].name = name[c]
      BY <1>0, <2>1 DEF Fits, Row
    <3>4. n + 1 \in 1..(Len(config.rows) + 1)
      BY <1>2, <1>3 DEF Kept
    <3>5. /\ new \in Seq(Row) /\ Len(new) >= Len(config.rows) /\ Len(new) >= n + 1
          /\ \A j \in 1..n : new[j] = config.rows[j]
          /\ new[n + 1].name = name[c]
      <4> HIDE DEF one
      <4> DEFINE at == n + 1
      <4>1. at \in 1..(Len(config.rows) + 1)
        BY <3>4
      <4>2. new = Overwrite(config.rows, at, one)
        OBVIOUS
      <4> HIDE DEF at, new
      <4>3. /\ new \in Seq(Row) /\ Len(new) >= Len(config.rows)
            /\ Len(new) >= at - 1 + Len(one)
            /\ \A j \in 1..Len(new) :
                 new[j] = IF j >= at /\ j < at + Len(one) THEN one[j - at + 1]
                          ELSE config.rows[j]
        BY <1>2, <3>3, <4>1, <4>2, OverwriteIs
      <4>4. Len(new) \in Nat /\ n + 1 = at /\ at - 1 + Len(one) = n + 1
        BY <3>3, <4>3 DEF at
      <4>5. /\ Len(new) >= n + 1
            /\ n + 1 \in 1..Len(new) /\ \A j \in 1..n : j \in 1..Len(new) /\ ~(j >= at)
        BY <4>3, <4>4
      <4>6. new[n + 1] = one[1]
        BY <3>3, <4>3, <4>4, <4>5
      <4>7. \A j \in 1..n : new[j] = config.rows[j]
        BY <4>3, <4>5
      <4>8. QED
        BY <3>3, <4>3, <4>5, <4>6, <4>7
    <3> HIDE DEF new
    <3>6. config'.num = config.num /\ config'.len = config.len /\ config'.rows = new
      BY <1>2, <3>2 DEF ConfigType
    <3>7. Len(new) \in Nat
      BY <3>5
    <3>8. Kept(n)'
      <4>1. \A f : In(f, n) => In(f, n)'
        BY <3>5, <3>6 DEF In
      <4>2. n <= Len(new)
        BY <3>5, <3>7
      <4>3. QED
        BY <1>2, <1>3, <2>1, <3>5, <3>6, <4>1, <4>2 DEF Kept
    <3>9. Knows(c, n)'
      BY <1>2, <1>3, <2>1, <3>1, <3>2, <3>5, <3>6, <3>7 DEF Knows, Counted
    <3>10. QED
      BY <1>1, <1>4, <2>1, <3>2, <3>5, <3>6, <3>8, <3>9, RowsFrame
  <2>4. QED
    BY <1>11, <2>2, <2>3 DEF CreateRow
<1>12. QED
  BY <1>5, <1>6, <1>7, <1>8, <1>9, <1>10, <1>11

\* So do those that move documents and mark their bits,
LEMMA MarkRows ==
  ASSUME Base, Base', NEW n \in Nat, Rows(n), NEW c \in Conns,
         \/ TrashCheck(c) \/ Trash(c) \/ Recover(c)
         \/ BitLen(c) \/ BitFind(c) \/ BitSet(c)
  PROVE  Rows(n)'
<1>0. TypeOK
  BY DEF Base
<1>1. /\ Others(c)
      /\ \A s : Goto(c, s) /\ s \in Places => pc'[c] = s /\ name'[c] = name[c]
      /\ Done(c) => pc'[c] = "idle"
  <2>1. Handler(c)
    BY DEF Handler
  <2>2. QED
    BY <1>0, <2>1, HandlerIs, GotoIs, DoneIs
<1> USE DEF Places, AllRequests, Appending, Rewriting, Marking, Changing, Filled, Creating, Busy
<1>2. CASE TrashCheck(c) \/ Trash(c) \/ Recover(c) \/ BitLen(c) \/ BitFind(c)
  <2>1. /\ UNCHANGED <<config, stored, created>>
        /\ pc'[c] \in {"idle", "trash", "bitlen", "find", "mark"}
    BY <1>1, <1>2 DEF TrashCheck, Trash, Recover, BitLen, BitFind, With, server, ghosts
  <2>2. QED
    BY <1>1, <2>1, RowsStay
<1>3. CASE BitSet(c)
  <2>1. UNCHANGED <<stored, created>> /\ pc'[c] = "idle"
    BY <1>1, <1>3 DEF BitSet
  <2>2. /\ config'.len \in {config.len, Far} /\ config'.num = config.num
        /\ Len(config'.rows) = Len(config.rows)
        /\ \A j \in 1..Len(config.rows) : config'.rows[j].name = config.rows[j].name
    <3>1. config \in ConfigType /\ local[c].pos \in Nat /\ local[c].bit \in BOOLEAN
      BY <1>0 DEF TypeOK
    <3>2. CASE local[c].pos > 0
      BY <1>3, <3>1, <3>2, MarkIs DEF BitSet
    <3>3. CASE local[c].pos = 0
      BY <1>3, <3>1, <3>3 DEF BitSet, ConfigType
    <3>4. QED
      BY <3>1, <3>2, <3>3
  <2>3. Len(config.rows) \in Nat /\ n <= Len(config.rows)
    BY <1>0 DEF TypeOK, ConfigType, Rows, Kept
  <2>4. \A i \in 1..n : config'.rows[i].name = config.rows[i].name
    BY <2>2, <2>3
  <2>5. Kept(n)'
    BY <2>1, <2>2, <2>3, <2>4 DEF Rows, Kept, In
  <2>6. \A f : In(f, n)' <=> In(f, n)
    BY <2>4 DEF In
  <2>7. Between(n)'
    BY <1>1, <2>1, <2>6 DEF Rows, Between, Others
  <2>8. ASSUME NEW d \in Conns
        PROVE  Knows(d, n)'
    <3>1. CASE d = c
      BY <2>1, <3>1 DEF Knows, Counted
    <3>2. CASE d # c
      <4>1. pc'[d] = pc[d] /\ name'[d] = name[d] /\ local'[d] = local[d] /\ Knows(d, n)
        BY <1>1, <3>2 DEF Others, Rows
      <4>2. pc[d] = "setlen" => n + 1 \in 1..Len(config.rows)
        BY <2>3, <4>1 DEF Knows
      <4>3. \A k \in 1..n : \A j \in 1..(n - 1) : Shift(j, k) \in 1..n
        BY DEF Shift
      <4>4. CutOut(local[d].snap, name[d], n) => CutOut(local[d].snap, name[d], n)'
        BY <2>4, <4>1, <4>3 DEF CutOut
      <4>5. QED
        BY <2>2, <4>1, <4>2, <4>4 DEF Knows, Counted
    <3>3. QED
      BY <3>1, <3>2
  <2>9. QED
    BY <2>5, <2>7, <2>8 DEF Rows
<1>4. QED
  BY <1>2, <1>3

\* those of clearTrash beside its write,
LEMMA ClearRows ==
  ASSUME Base, Base', NEW n \in Nat, Rows(n), "rows" \notin clash', NEW c \in Conns,
         Clear(c) \/ ClearLen(c) \/ ClearRead(c) \/ ClearDelete(c)
  PROVE  Rows(n)'
<1>0. TypeOK /\ Fits
  BY DEF Base, Beside
<1>1. /\ Others(c)
      /\ \A s : Goto(c, s) /\ s \in Places => pc'[c] = s /\ name'[c] = name[c]
      /\ Done(c) => pc'[c] = "idle"
  <2>1. Handler(c)
    BY DEF Handler
  <2>2. QED
    BY <1>0, <2>1, HandlerIs, GotoIs, DoneIs
<1>2. /\ config \in ConfigType /\ config.num \in Nat /\ config.len \in Length
      /\ config.rows \in Seq(Row) /\ Len(config.rows) \in Nat
      /\ local[c] \in Locals /\ local[c].len \in Length
      /\ local \in [Conns -> Locals]
  BY <1>0 DEF TypeOK, ConfigType, Locals
<1>3. Kept(n) /\ Between(n) /\ Knows(c, n)
  BY DEF Rows
<1> USE DEF Places, AllRequests, Appending, Rewriting, Changing, Filled, Creating, Busy
<1>4. CASE Clear(c)
  <2>1. /\ UNCHANGED <<config, stored, created>> /\ pc'[c] \in {"idle", "ctlen"}
    BY <1>1, <1>4 DEF Clear, ghosts
  <2>2. QED
    BY <1>1, <2>1, RowsStay
<1>5. CASE ClearLen(c)
  <2>1. /\ UNCHANGED <<config, stored, created>> /\ pc'[c] = "whole"
        /\ local' = [local EXCEPT ![c] = [local[c] EXCEPT !.len = config.len]]
    BY <1>1, <1>5 DEF ClearLen, With, server, ghosts
  <2>2. local'[c].len = config.len
    BY <1>2, <2>1 DEF Locals
  <2>3. Kept(n)'
    BY <1>3, <2>1 DEF Kept, In
  <2>4. Knows(c, n)'
    BY <1>3, <2>1, <2>2 DEF Knows, Counted, Kept
  <2>5. QED
    BY <1>1, <2>1, <2>3, <2>4, RowsFrame
<1>6. CASE ClearRead(c)
  <2> DEFINE rows == Within(local[c].len)
             i == Find(rows, name[c])
             w == Without(config, rows, i)
             o == Own(rows, i, name[c])
  <2>1. UNCHANGED <<config, stored, created>> /\ pc[c] = "whole"
    BY <1>6 DEF ClearRead, server, ghosts
  <2>2. CASE Done(c)
    BY <1>1, <2>1, <2>2, RowsStay
  <2>3. CASE i # 0
    <3>1. /\ pc'[c] = "rewrite" /\ name'[c] = name[c]
          /\ local' = [local EXCEPT ![c] = [local[c] EXCEPT !.snap = w, !.own = o]]
      BY <1>1, <1>6, <2>3 DEF ClearRead, With
    <3>2. /\ rows \in Seq(Row) /\ i \in 1..Len(rows) /\ (o => rows[i].name = name[c])
          /\ local[c].len = n => Len(rows) = n
          /\ \A j \in 1..Len(rows) : rows[j] = config.rows[j]
      <4>1. /\ rows \in Seq(Row)
            /\ local[c].len \in Nat /\ local[c].len <= Len(config.rows)
                 => Len(rows) = local[c].len
            /\ \A j \in 1..Len(rows) : rows[j] = config.rows[j]
        BY <1>2, WithinIs
      <4>2. i \in 0..Len(rows) /\ (i # 0 /\ o => rows[i].name = name[c])
        BY <4>1, FindIs
      <4> HIDE DEF rows, i, o
      <4>3. QED
        BY <1>3, <2>3, <4>1, <4>2 DEF Kept
    <3>3. /\ w.num = IF config.num = 0 THEN 0 ELSE config.num - 1
          /\ w.len = IF config.len \in {Far, Under} THEN config.len ELSE config.len - 1
      BY DEF Without
    <3> HIDE DEF rows, i, o
    <3>4. /\ w \in ConfigType /\ Len(w.rows) = Len(rows) - 1
          /\ \A j \in 1..(Len(rows) - 1) : w.rows[j] = rows[IF j < i THEN j ELSE j + 1]
      BY <1>2, <3>2, WithoutIs
    <3> HIDE DEF w
    <3>5. local'[c].snap = w /\ local'[c].own = o
      BY <1>2, <3>1, <3>4 DEF Locals
    <3>6. ASSUME w.len # Far, o
          PROVE  CutOut(w, name[c], n)
      <4>1. config.len = n /\ local[c].len = n
        BY <1>3, <2>1, <3>3, <3>6 DEF Kept, Knows
      <4>2. /\ Len(rows) = n /\ w.len = n - 1 /\ Len(w.rows) = n - 1 /\ i \in 1..n
        BY <3>2, <3>3, <3>4, <4>1 DEF Far, Under
      <4>3. n - 1 <= w.num
        BY <1>2, <1>3, <3>3, <4>2 DEF Kept
      <4>4. /\ config.rows[i].name = name[c]
            /\ \A j \in 1..(n - 1) : w.rows[j] = config.rows[Shift(j, i)]
        BY <3>2, <3>4, <3>6, <4>2 DEF Shift
      <4>5. QED
        BY <4>2, <4>3, <4>4 DEF CutOut
    <3>7. Knows(c, n)'
      <4>1. CutOut(w, name[c], n) => CutOut(local[c].snap, name[c], n)'
        BY <2>1, <3>1, <3>5 DEF CutOut
      <4>2. QED
        BY <3>1, <3>5, <3>6, <4>1 DEF Knows, Counted
    <3>8. Kept(n)'
      BY <1>3, <2>1 DEF Kept, In
    <3>9. QED
      BY <1>1, <2>1, <3>1, <3>7, <3>8, RowsFrame
  <2>4. QED
    BY <1>6, <2>2, <2>3 DEF ClearRead
<1>7. CASE ClearDelete(c)
  <2>1. /\ UNCHANGED <<config, created>> /\ pc[c] = "unlink" /\ pc'[c] = "idle"
        /\ stored' = stored \ {name[c]}
    BY <1>1, <1>7 DEF ClearDelete, ghosts
  <2>2. ~In(name[c], n)
    BY <1>3, <2>1 DEF Between
  <2>3. Kept(n)'
    BY <1>3, <2>1, <2>2 DEF Kept, In
  <2>4. Between(n)'
    BY <1>1, <1>3, <2>1 DEF Between, Others, In
  <2>5. \A d \in Conns : Knows(d, n)'
    <3> TAKE d \in Conns
    <3>1. CASE d = c
      BY <2>1, <3>1 DEF Knows, Counted
    <3>2. CASE d # c
      <4>1. pc'[d] = pc[d] /\ name'[d] = name[d] /\ local'[d] = local[d] /\ Knows(d, n)
        BY <1>1, <3>2 DEF Others, Rows
      <4>2. QED
        BY <2>1, <4>1 DEF Knows, CutOut
    <3>3. QED
      BY <3>1, <3>2
  <2>6. QED
    BY <2>3, <2>4, <2>5 DEF Rows
<1>8. QED
  BY <1>4, <1>5, <1>6, <1>7

\* and requests, openings, closings, crashes and restarts.
LEMMA OtherRows ==
  ASSUME Base, Base', NEW n \in Nat, Rows(n),
         \/ \E c \in Conns, r \in Requests, f \in Listed : Request(c, r, f)
         \/ \E c \in Conns : Open(c) \/ Lookup(c) \/ Close(c) \/ Leave(c)
         \/ Crash
         \/ Restart
         \/ UNCHANGED vars
  PROVE  Rows(n)'
<1>0. TypeOK
  BY DEF Base
<1> USE DEF Places, AllRequests, Appending, Rewriting, Changing, Filled, Creating, Busy
<1>1. ASSUME NEW c \in Conns, NEW r \in Requests, NEW f \in Listed, Request(c, r, f)
      PROVE  Rows(n)'
  BY <1>0, <1>1, RequestIs, RowsStay DEF server
<1>2. ASSUME NEW c \in Conns, Open(c) \/ Lookup(c)
      PROVE  Rows(n)'
  <2>1. Handler(c) /\ UNCHANGED <<config, stored, created>>
    BY <1>2 DEF Open, Lookup, Handler, server, ghosts
  <2>2. Others(c) /\ pc'[c] \in {"idle", "lookup"}
    BY <1>0, <1>2, <2>1, HandlerIs, GotoIs, DoneIs DEF Open, Lookup
  <2>3. QED
    BY <2>1, <2>2, RowsStay
<1>3. ASSUME UNCHANGED <<config, stored, created, pc, name, local>>
      PROVE  Rows(n)'
  <2>1. Kept(n)' /\ Between(n)'
    BY <1>3 DEF Rows, Kept, Between, In
  <2>2. \A d \in Conns : Knows(d, n)'
    BY <1>3 DEF Rows, Knows, CutOut
  <2>3. QED
    BY <2>1, <2>2 DEF Rows
<1>4. ASSUME NEW c \in Conns, Close(c) \/ Leave(c)
      PROVE  Rows(n)'
  BY <1>3, <1>4 DEF Close, Leave, ghosts
<1>5. ASSUME Crash
      PROVE  Rows(n)'
  <2>1. UNCHANGED <<config, stored, created>> /\ pc' = [d \in Conns |-> "idle"]
    BY <1>5 DEF Crash
  <2>2. Kept(n)' /\ Between(n)'
    BY <2>1 DEF Rows, Kept, Between, In
  <2>3. \A d \in Conns : Knows(d, n)'
    BY <2>1 DEF Knows, Counted
  <2>4. QED
    BY <2>2, <2>3 DEF Rows
<1>6. ASSUME Restart
      PROVE  Rows(n)'
  BY <1>3, <1>6 DEF Restart, ghosts
<1>7. ASSUME UNCHANGED vars
      PROVE  Rows(n)'
  BY <1>3, <1>7 DEF vars, server, ghosts
<1>8. QED
  BY <1>1, <1>2, <1>4, <1>5, <1>6, <1>7

\* The last step of handleCreate adds the row it has written.
LEMMA SetLenRows ==
  ASSUME Base, Base', NEW n \in Nat, Rows(n), "rows" \notin clash', NEW c \in Conns,
         CreateSetLen(c)
  PROVE  Rows(n + 1)' /\ config'.len = n + 1
<1>0. TypeOK /\ Fits /\ Sole
  BY DEF Base, Beside
<1>1. /\ Others(c) /\ pc'[c] = "idle" /\ "rows" \notin clash
      /\ UNCHANGED stored /\ pc[c] = "setlen" /\ created' = created \cup {name[c]}
      /\ config' = [config EXCEPT !.len = local[c].len + 1]
  <2>1. Handler(c)
    BY DEF Handler
  <2>2. QED
    BY <1>0, <2>1, HandlerIs, DoneIs DEF CreateSetLen
<1>2. /\ config \in ConfigType /\ Len(config.rows) \in Nat /\ config.num \in Nat
  BY <1>0 DEF TypeOK, ConfigType
<1>3. Kept(n) /\ Between(n) /\ Knows(c, n)
  BY DEF Rows
<1> USE DEF Appending, Rewriting, Changing, Filled, Creating, Busy, Counted
<1>4. /\ local[c].len = n /\ n < Len(config.rows) /\ n < config.num
      /\ config.rows[n + 1].name = name[c]
      /\ name[c] \in stored /\ ~In(name[c], n)
  BY <1>1, <1>3 DEF Knows, Between
<1>5. config'.len = n + 1 /\ config'.num = config.num /\ config'.rows = config.rows
  BY <1>1, <1>2, <1>4 DEF ConfigType
<1>6. \A f : In(f, n + 1)' <=> (In(f, n) \/ f = name[c])
  <2> TAKE f
  <2>1. In(f, n + 1)' <=> \E i \in 1..(n + 1) : config.rows[i].name = f
    BY <1>5 DEF In
  <2>2. 1..(n + 1) = 1..n \cup {n + 1}
    OBVIOUS
  <2>3. QED
    BY <1>4, <2>1, <2>2 DEF In
<1>7. Kept(n + 1)'
  <2>1. \A i \in 1..(n + 1) : i \in 1..n \/ i = n + 1
    OBVIOUS
  <2>2. \A i \in 1..(n + 1) : config.rows[i].name \in stored
    BY <1>3, <1>4, <2>1 DEF Kept
  <2>3. \A i, j \in 1..(n + 1) : config.rows[i].name = config.rows[j].name => i = j
    BY <1>3, <1>4, <2>1 DEF Kept, In
  <2>4. \A f \in created' : In(f, n + 1)'
    BY <1>1, <1>3, <1>6 DEF Kept
  <2>5. QED
    BY <1>1, <1>2, <1>4, <1>5, <2>2, <2>3, <2>4 DEF Kept
<1>8. Between(n + 1)'
  BY <1>1, <1>3, <1>6 DEF Between, Others
<1>9. \A d \in Conns : Knows(d, n + 1)'
  BY <1>0, <1>1 DEF Sole, Others, Knows
<1>10. QED
  BY <1>5, <1>7, <1>8, <1>9 DEF Rows

\* The write of clearTrash takes the row out, if it had the length right and cut
\* out a row of the name.
LEMMA ClearWriteRows ==
  ASSUME Base, Base', NEW n \in Nat, Rows(n), "rows" \notin clash', "inside" \notin misplaced',
         NEW c \in Conns, ClearWrite(c)
  PROVE  \/ Spoilt'
         \/ /\ n > 0 /\ Rows(n - 1)' /\ config'.len = n - 1 /\ local[c].snap.len # Far
            /\ config'.num = local[c].snap.num
            /\ \A j \in 1..(n - 1) : config'.rows[j] = local[c].snap.rows[j]
            /\ \A f : In(f, n - 1)' <=> In(f, n) /\ f # name[c]
            /\ In(name[c], n)
<1>0. TypeOK /\ Fits /\ Sole
  BY DEF Base, Beside
<1> DEFINE s == local[c].snap
           f == name[c]
           new == Overwrite(config.rows, 1, s.rows)
<1>1. /\ Others(c) /\ pc'[c] = "unlink" /\ name'[c] = f /\ "rows" \notin clash
      /\ UNCHANGED stored /\ pc[c] = "rewrite" /\ created' = created \ {f}
      /\ config' = [s EXCEPT !.rows = new] /\ local[c].own
  <2>1. Handler(c)
    BY DEF Handler
  <2>2. local[c].own
    BY DEF ClearWrite
  <2>3. QED
    BY <1>0, <2>1, <2>2, HandlerIs, GotoIs DEF ClearWrite, Places
<1>2. /\ config.rows \in Seq(Row) /\ Len(config.rows) \in Nat
      /\ s \in ConfigType /\ s.rows \in Seq(Row) /\ Len(s.rows) \in Nat
      /\ s.num \in Nat
  BY <1>0 DEF TypeOK, ConfigType
<1>3. Kept(n) /\ Between(n) /\ Knows(c, n)
  BY DEF Rows
<1>4. /\ new \in Seq(Row) /\ Len(new) >= Len(config.rows)
      /\ \A j \in 1..Len(s.rows) : new[j] = s.rows[j]
  <2>1. 1 \in 1..(Len(config.rows) + 1)
    BY <1>2
  <2>2. /\ new \in Seq(Row) /\ Len(new) >= Len(config.rows)
        /\ Len(new) >= 1 - 1 + Len(s.rows)
        /\ \A j \in 1..Len(new) : new[j] = IF j >= 1 /\ j < 1 + Len(s.rows) THEN s.rows[j - 1 + 1]
                                           ELSE config.rows[j]
    <3> HIDE DEF s
    <3> QED
      BY <1>2, <2>1, OverwriteIs
  <2> HIDE DEF new, s
  <2>3. QED
    BY <1>2, <2>2
<1> HIDE DEF new
<1>5. config'.num = s.num /\ config'.len = s.len /\ config'.rows = new
  BY <1>1, <1>2 DEF ConfigType
<1> USE DEF Appending, Rewriting, Changing, Filled, Creating, Busy, Counted
<1>6. CASE s.len = Far
  <2>1. \A d \in Conns : pc'[d] \notin Changing
    BY <1>0, <1>1 DEF Sole, Others
  <2>2. QED
    BY <1>5, <1>6, <2>1 DEF Spoilt
<1>7. CASE s.len # Far
  <2>1. CutOut(s, f, n)
    BY <1>1, <1>3, <1>7 DEF Knows
  <2> HIDE DEF s, f
  <2>2. PICK k \in 1..n :
               /\ config.rows[k].name = f
               /\ \A j \in 1..(n - 1) : s.rows[j].name = config.rows[Shift(j, k)].name
    BY <2>1 DEF CutOut
  <2>3. /\ s.len = n - 1 /\ Len(s.rows) = n - 1 /\ n - 1 <= s.num /\ n > 0
        /\ n <= Len(config.rows)
    BY <1>3, <2>1, <2>2 DEF CutOut, Kept
  <2>4. \A j \in 1..(n - 1) : new[j] = s.rows[j]
                              /\ new[j].name = config.rows[Shift(j, k)].name
    BY <1>4, <2>2, <2>3
  <2>5. /\ \A j \in 1..(n - 1) : Shift(j, k) \in 1..n /\ Shift(j, k) # k
        /\ \A i, j \in 1..(n - 1) : Shift(i, k) = Shift(j, k) => i = j
        /\ \A i \in 1..n : i # k => \E j \in 1..(n - 1) : Shift(j, k) = i
    <3>1. \A j \in 1..(n - 1) : Shift(j, k) \in 1..n /\ Shift(j, k) # k
      BY DEF Shift
    <3>2. \A i, j \in 1..(n - 1) : Shift(i, k) = Shift(j, k) => i = j
      BY DEF Shift
    <3>3. ASSUME NEW i \in 1..n, i # k
          PROVE  \E j \in 1..(n - 1) : Shift(j, k) = i
      <4>1. CASE i < k
        <5>1. i \in 1..(n - 1) /\ Shift(i, k) = i
          BY <4>1 DEF Shift
        <5>2. QED
          BY <5>1
      <4>2. CASE i > k
        <5>1. i - 1 \in 1..(n - 1) /\ Shift(i - 1, k) = i
          BY <4>2 DEF Shift
        <5>2. QED
          BY <5>1
      <4>3. QED
        BY <3>3, <4>1, <4>2
    <3>4. QED
      BY <3>1, <3>2, <3>3
  <2>6. \A i, j \in 1..n : config.rows[i].name = config.rows[j].name => i = j
    BY <1>3 DEF Kept
  <2>7. \A g : In(g, n - 1)' <=> In(g, n) /\ g # f
    <3> TAKE g
    <3>1. ASSUME NEW j \in 1..(n - 1), new[j].name = g
          PROVE  In(g, n) /\ g # f
      BY <2>2, <2>4, <2>5, <2>6, <3>1 DEF In
    <3>2. ASSUME NEW i \in 1..n, config.rows[i].name = g, g # f
          PROVE  \E j \in 1..(n - 1) : new[j].name = g
      BY <2>2, <2>4, <2>5, <3>2
    <3>3. QED
      BY <1>5, <3>1, <3>2 DEF In
  <2>8. Kept(n - 1)'
    <3>1. /\ config'.len = n - 1 /\ n - 1 <= Len(config'.rows) /\ n - 1 <= config'.num
      BY <1>2, <1>4, <1>5, <2>3
    <3>2. \A i \in 1..(n - 1) : config'.rows[i].name \in stored'
      BY <1>1, <1>3, <1>5, <2>4, <2>5 DEF Kept
    <3>3. \A i, j \in 1..(n - 1) : config'.rows[i].name = config'.rows[j].name => i = j
      BY <1>5, <2>4, <2>5, <2>6
    <3>4. \A g \in created' : In(g, n - 1)'
      BY <1>1, <1>3, <2>7 DEF Kept
    <3>5. QED
      BY <3>1, <3>2, <3>3, <3>4 DEF Kept
  <2>9. Between(n - 1)'
    <3>1. f \in stored /\ In(f, n)
      BY <1>3, <2>2 DEF Kept, In
    <3>2. \A d \in Conns : d # c /\ pc'[d] \in Busy =>
            name'[d] # f /\ name'[d] \in stored /\ ~In(name'[d], n)
      BY <1>1, <1>3, <3>1 DEF Between, Others
    <3>3. \A d, e \in Conns : d # c /\ e # c /\ pc'[d] \in Busy /\ pc'[e] \in Busy
                               /\ name'[d] = name'[e] => d = e
      BY <1>1, <1>3 DEF Between, Others
    <3>4. QED
      BY <1>1, <2>7, <3>1, <3>2, <3>3 DEF Between
  <2>10. \A d \in Conns : Knows(d, n - 1)'
    BY <1>0, <1>1 DEF Sole, Others, Knows
  <2>11. In(f, n)
    BY <2>2 DEF In
  <2>12. QED
    BY <1>5, <1>7, <2>3, <2>4, <2>7, <2>8, <2>9, <2>10, <2>11 DEF Rows, s, f
<1>8. QED
  BY <1>6, <1>7

\* A length that is lost stays lost.
LEMMA SpoiltStays ==
  ASSUME Base, Spoilt, [Next]_vars
  PROVE  Spoilt'
<1>0. TypeOK
  BY DEF Base
<1>1. config \in ConfigType /\ local \in [Conns -> Locals]
  BY <1>0 DEF TypeOK, Locals
<1>2. ASSUME NEW c \in Conns, Others(c), config'.len = Far,
             pc'[c] = "row" => local'[c].len = Far, pc'[c] # "setlen",
             pc'[c] = "rewrite" => local'[c].snap.len = Far
      PROVE  Spoilt'
  BY <1>2 DEF Spoilt, Others
<1>3. ASSUME NEW c \in Conns, Handler(c)
      PROVE  Spoilt'
  <2>1. /\ Others(c)
        /\ \A s : Goto(c, s) /\ s \in Places => pc'[c] = s
        /\ Done(c) => pc'[c] = "idle"
    BY <1>0, <1>3, HandlerIs, GotoIs, DoneIs
  <2>2. config.len = Far
    BY DEF Spoilt
  <2> USE DEF Places, AllRequests, Appending, Rewriting, Marking
  <2>3. CASE \/ CreateCheck(c) \/ CreateFile(c) \/ CreateFill(c) \/ CreateGetNum(c)
             \/ TrashCheck(c) \/ Trash(c) \/ Recover(c) \/ BitLen(c) \/ BitFind(c)
             \/ Clear(c) \/ ClearLen(c) \/ ClearDelete(c) \/ Open(c) \/ Lookup(c)
    <3>1. config' = config
      BY <2>3 DEF CreateCheck, CreateFile, CreateFill, CreateGetNum, TrashCheck, Trash, Recover,
         BitLen, BitFind, Clear, ClearLen, ClearDelete, Open, Lookup, server
    <3>2. pc'[c] \notin {"row", "setlen", "rewrite"}
      BY <2>1, <2>3 DEF CreateCheck, CreateFile, CreateFill, CreateGetNum, TrashCheck, Trash,
         Recover, BitLen, BitFind, Clear, ClearLen, ClearDelete, Open, Lookup, With
    <3>3. QED
      BY <1>2, <2>1, <2>2, <3>1, <3>2
  <2>4. CASE CreateSetNum(c)
    BY <1>1, <1>2, <2>1, <2>2, <2>4 DEF CreateSetNum, ConfigType
  <2>5. CASE CreateGetLen(c)
    <3>1. /\ config' = config /\ pc'[c] = "row"
          /\ local' = [local EXCEPT ![c] = [local[c] EXCEPT !.len = config.len]]
      BY <2>1, <2>5 DEF CreateGetLen, With, server
    <3>2. local'[c].len = config.len
      BY <1>1, <3>1 DEF Locals
    <3>3. QED
      BY <1>2, <2>1, <2>2, <3>1, <3>2
  <2>6. CASE CreateRow(c)
    BY <1>2, <2>1, <2>2, <2>6 DEF CreateRow, Spoilt
  <2>7. CASE CreateSetLen(c)
    BY <2>7 DEF CreateSetLen, Spoilt
  <2>8. CASE BitSet(c)
    <3>1. config'.len = Far
      BY <1>0, <1>1, <2>2, <2>8, MarkIs DEF BitSet, TypeOK, ConfigType
    <3>2. QED
      BY <1>2, <2>1, <2>8, <3>1 DEF BitSet
  <2>9. CASE ClearRead(c)
    <3> DEFINE rows == Within(local[c].len)
               i == Find(rows, name[c])
               w == Without(config, rows, i)
               o == Own(rows, i, name[c])
    <3>1. config' = config
      BY <2>9 DEF ClearRead, server
    <3>2. CASE Done(c)
      BY <1>2, <2>1, <2>2, <3>1, <3>2
    <3>3. CASE With(c, "rewrite", [local[c] EXCEPT !.snap = w, !.own = o])
      <4>1. /\ pc'[c] = "rewrite"
            /\ local' = [local EXCEPT ![c] = [local[c] EXCEPT !.snap = w, !.own = o]]
        BY <2>1, <3>3 DEF With
      <4>2. w.len = Far
        BY <2>2 DEF Without
      <4> HIDE DEF w, o
      <4>3. local'[c].snap = w
        BY <1>1, <4>1 DEF Locals
      <4>4. QED
        BY <1>2, <2>1, <2>2, <3>1, <4>1, <4>2, <4>3
    <3>4. QED
      BY <2>9, <3>2, <3>3 DEF ClearRead
  <2>10. CASE ClearWrite(c)
    <3> DEFINE new == Overwrite(config.rows, 1, local[c].snap.rows)
    <3>1. /\ pc'[c] = "unlink" /\ pc[c] = "rewrite"
          /\ config' \in {config, [local[c].snap EXCEPT !.rows = new]}
      BY <2>1, <2>10 DEF ClearWrite
    <3> HIDE DEF new
    <3>2. local[c].snap \in ConfigType
      BY <1>1 DEF Locals
    <3>3. config'.len \in {config.len, local[c].snap.len}
      BY <3>1, <3>2 DEF ConfigType
    <3>4. QED
      BY <1>2, <2>1, <3>1, <3>3 DEF Spoilt
  <2>11. QED
    BY <1>3, <2>3, <2>4, <2>5, <2>6, <2>7, <2>8, <2>9, <2>10 DEF Handler
<1>4. ASSUME NEW c \in Conns, NEW r \in Requests, NEW f \in Listed, Request(c, r, f)
      PROVE  Spoilt'
  <2>1. Others(c) /\ pc'[c] \in AllRequests /\ config' = config
    BY <1>0, <1>4, RequestIs DEF server
  <2>2. QED
    BY <1>2, <2>1 DEF AllRequests, Spoilt
<1>5. ASSUME NEW c \in Conns, Close(c) \/ Leave(c)
      PROVE  Spoilt'
  BY <1>5 DEF Close, Leave, Spoilt
<1>6. ASSUME Crash \/ Restart \/ UNCHANGED vars
      PROVE  Spoilt'
  BY <1>6 DEF Crash, Restart, vars, server, Spoilt
<1>7. QED
  BY <1>3, <1>4, <1>5, <1>6 DEF Next

-----------------------------------------------------------------------------
(* Every file is listed                                                    *)

\* No overlap, and no request for a document that was not where the page saw
\* it, that would put names and rows out of step.
Pure == clash \subseteq {"open"} /\ stale = {}

Present(f) == fileMap[f] # Absent \/ trashMap[f] # Absent

\* The file f is that of a row in a map, or of one that is being cleared, or of
\* a document on its way in or out.
Covered(f, n) ==
  \/ /\ In(f, n)
     /\ up => Present(f) \/ \E c \in Conns : pc[c] \in Clearing /\ name[c] = f
  \/ \E c \in Conns : pc[c] \in Busy \cup {"stuck"} /\ name[c] = f

Listing(n) ==
  /\ \A f \in stored \ orphans : Covered(f, n)
  /\ \A c \in Conns : pc[c] \in Filled => fileMap[name[c]] # Absent

\* Steps that take nothing out of the maps and keep a handler on its document.
LEMMA ListingFrame ==
  ASSUME Base, Base', NEW n \in Nat, NEW m \in Nat, Listing(n), NEW c \in Conns, Others(c),
         UNCHANGED <<up, orphans>>,
         \A f \in stored' : f \in stored \/ (pc'[c] \in Busy /\ name'[c] = f),
         \A f \in Listed : In(f, n) => In(f, m)' \/ (pc'[c] \in Busy /\ name'[c] = f),
         \A f \in Listed : Present(f) => \/ Present(f)'
                                         \/ pc'[c] \in Clearing /\ name'[c] = f
                                         \/ ~In(f, n),
         pc[c] \in Clearing => \/ pc'[c] \in Clearing /\ name'[c] = name[c]
                               \/ pc'[c] \in Busy /\ name'[c] = name[c]
                               \/ ~In(name[c], n),
         \A f \in Listed : pc[c] \in Busy \cup {"stuck"} /\ name[c] = f =>
           \/ pc'[c] \in Busy \cup {"stuck"} /\ name'[c] = f
           \/ In(f, m)' /\ Present(f)'
           \/ f \notin stored',
         \A d \in Conns : d # c /\ pc[d] \in Filled => fileMap'[name[d]] # Absent,
         pc'[c] \in Filled => fileMap'[name'[c]] # Absent
  PROVE  Listing(m)'
<1>1. name \in [Conns -> Listed] /\ stored \subseteq Listed
  BY DEF Base, TypeOK, Listed
<1>2. ASSUME NEW f \in stored' \ orphans'
      PROVE  Covered(f, m)'
  <2>1. CASE f \notin stored
    BY <1>2, <2>1 DEF Covered
  <2>2. CASE f \in stored
    <3>1. Covered(f, n)
      BY <1>2, <2>2 DEF Listing
    <3>2. CASE \E d \in Conns : pc[d] \in Busy \cup {"stuck"} /\ name[d] = f
      <4>1. PICK d \in Conns : pc[d] \in Busy \cup {"stuck"} /\ name[d] = f
        BY <3>2
      <4>2. CASE d # c
        BY <4>1, <4>2 DEF Covered, Others
      <4>3. CASE d = c
        <5>1. \/ pc'[c] \in Busy \cup {"stuck"} /\ name'[c] = f
              \/ In(f, m)' /\ Present(f)'
          BY <1>1, <1>2, <2>2, <4>1, <4>3
        <5>2. QED
          BY <5>1 DEF Covered
      <4>4. QED
        BY <4>2, <4>3
    <3>3. CASE /\ In(f, n)
               /\ up => Present(f) \/ \E d \in Conns : pc[d] \in Clearing /\ name[d] = f
      <4>1. CASE pc'[c] \in Busy /\ name'[c] = f
        BY <4>1 DEF Covered
      <4>2. CASE ~(pc'[c] \in Busy /\ name'[c] = f)
        <5>1. In(f, m)'
          BY <1>1, <2>2, <3>3, <4>2
        <5>2. CASE ~up'
          BY <5>1, <5>2 DEF Covered
        <5>3. CASE Present(f)
          BY <1>1, <2>2, <3>3, <5>1, <5>3 DEF Covered
        <5>4. CASE \E d \in Conns : pc[d] \in Clearing /\ name[d] = f
          <6>1. PICK d \in Conns : pc[d] \in Clearing /\ name[d] = f
            BY <5>4
          <6>2. pc'[d] \in Clearing /\ name'[d] = f
            BY <3>3, <4>2, <6>1 DEF Others
          <6>3. QED
            BY <5>1, <6>2 DEF Covered
        <5>5. QED
          BY <3>3, <5>2, <5>3, <5>4
      <4>3. QED
        BY <4>1, <4>2
    <3>4. QED
      BY <3>1, <3>2, <3>3 DEF Covered
  <2>3. QED
    BY <2>1, <2>2
<1>3. \A d \in Conns : pc'[d] \in Filled => fileMap'[name'[d]] # Absent
  BY DEF Others
<1>4. QED
  BY <1>2, <1>3 DEF Listing

\* What the write of a row at the end of the n rows changes.
LEMMA RowIs ==
  ASSUME TypeOK, Fits, NEW n \in Nat, NEW c \in Conns, CreateRow(c), local[c].len = n,
         n <= Len(config.rows)
  PROVE  /\ pc'[c] = "setlen" /\ name'[c] = name[c]
         /\ config'.num = config.num /\ config'.len = config.len
         /\ Len(config'.rows) \in Nat /\ Len(config'.rows) > n
         /\ \A j \in 1..n : config'.rows[j] = config.rows[j]
         /\ config'.rows[n + 1] = [name |-> name[c], valid |-> TRUE]
<1> DEFINE one == <<[name |-> name[c], valid |-> TRUE]>>
           at == n + 1
           new == Overwrite(config.rows, at, one)
<1>1. /\ config \in ConfigType /\ config.rows \in Seq(Row) /\ Len(config.rows) \in Nat
      /\ pc[c] = "row"
  BY DEF TypeOK, ConfigType, CreateRow
<1>2. one \in Seq(Row) /\ Len(one) = 1 /\ one[1] = [name |-> name[c], valid |-> TRUE]
  BY <1>1 DEF Fits, Row, Appending
<1>3. at \in 1..(Len(config.rows) + 1)
  BY <1>1
<1>4. Goto(c, "setlen") /\ config' = [config EXCEPT !.rows = new]
  BY DEF CreateRow, Far
<1>5. pc'[c] = "setlen" /\ name'[c] = name[c]
  BY <1>4, GotoIs DEF Places, Appending
<1> HIDE DEF one
<1>6. /\ new \in Seq(Row) /\ Len(new) >= at - 1 + Len(one)
      /\ \A j \in 1..Len(new) :
           new[j] = IF j >= at /\ j < at + Len(one) THEN one[j - at + 1]
                    ELSE config.rows[j]
  <2> HIDE DEF at
  <2>1. QED
    BY <1>1, <1>2, <1>3, OverwriteIs
<1> HIDE DEF new
<1>7. config'.num = config.num /\ config'.len = config.len /\ config'.rows = new
  BY <1>1, <1>4 DEF ConfigType
<1>8. Len(new) \in Nat
  BY <1>6
<1>9. /\ Len(new) > n /\ new[n + 1] = one[1]
      /\ \A j \in 1..n : new[j] = config.rows[j]
  <2>1. Len(new) > n
    BY <1>2, <1>6, <1>8
  <2>2. at \in 1..Len(new) /\ at >= at /\ at < at + Len(one) /\ at - at + 1 = 1
    BY <1>2, <1>8, <2>1
  <2>3. new[at] = one[1]
    <3> HIDE DEF at
    <3>1. QED
      BY <1>6, <2>2
  <2>4. QED
    BY <1>6, <1>8, <2>1, <2>3
<1>10. QED
  BY <1>2, <1>5, <1>7, <1>8, <1>9

\* Steps that keep the n rows, the files and the maps.
LEMMA ListingStay ==
  ASSUME Base, Base', NEW n \in Nat, Listing(n), NEW c \in Conns, Others(c),
         UNCHANGED <<up, orphans, stored>>,
         \A j \in 1..n : config'.rows[j].name = config.rows[j].name,
         \A f \in Listed : Present(f) => Present(f)',
         pc[c] \in Clearing => pc'[c] \in Clearing /\ name'[c] = name[c],
         pc[c] \in Busy \cup {"stuck"} =>
           pc'[c] \in Busy \cup {"stuck"} /\ name'[c] = name[c],
         \A d \in Conns : d # c /\ pc[d] \in Filled => fileMap'[name[d]] # Absent,
         pc'[c] \in Filled => fileMap'[name'[c]] # Absent
  PROVE  Listing(n)'
<1>1. \A f : In(f, n)' <=> In(f, n)
  BY DEF In
<1>2. QED
  BY <1>1, ListingFrame

\* The listing and the steps of handleCreate,
LEMMA CreateListing ==
  ASSUME Base, Base', NEW n \in Nat, Rows(n), Listing(n), NEW c \in Conns,
         \/ CreateCheck(c) \/ CreateFile(c) \/ CreateFill(c) \/ CreateGetNum(c)
         \/ CreateSetNum(c) \/ CreateGetLen(c) \/ CreateRow(c)
  PROVE  Listing(n)'
<1>0. TypeOK /\ Fits
  BY DEF Base
<1>1. /\ Others(c) /\ up' = up /\ orphans' = orphans
      /\ \A s : Goto(c, s) /\ s \in Places => pc'[c] = s /\ name'[c] = name[c]
      /\ Done(c) => pc'[c] = "idle"
  <2>1. Handler(c)
    BY DEF Handler
  <2>2. QED
    BY <1>0, <2>1, HandlerIs, GotoIs, DoneIs
<1>2. /\ config \in ConfigType /\ local[c] \in Locals
      /\ fileMap \in [Listed -> {Absent, 0, DefaultSize}] /\ name \in [Conns -> Listed]
  BY <1>0 DEF TypeOK, Locals
<1>3. Kept(n) /\ Knows(c, n)
  BY DEF Rows
<1>4. \A d \in Conns : pc[d] \in Filled => fileMap[name[d]] # Absent
  BY DEF Listing
<1> USE DEF Places, AllRequests, Appending, Rewriting, Clearing, Filled, Creating, Busy
<1>5. CASE CreateCheck(c)
  <2>1. /\ UNCHANGED <<config, stored, maps>> /\ pc[c] = "create"
        /\ pc'[c] \in {"recover", "mkfile"}
    BY <1>1, <1>5 DEF CreateCheck, server
  <2>2. QED
    BY <1>1, <1>4, <2>1, ListingStay DEF maps, Present
<1>6. CASE CreateFile(c)
  <2>1. UNCHANGED <<config, maps>> /\ pc[c] = "mkfile"
    BY <1>6 DEF CreateFile
  <2>2. CASE Done(c) /\ UNCHANGED stored
    BY <1>1, <1>4, <2>1, <2>2, ListingStay DEF maps, Present
  <2>3. CASE Goto(c, "fill") /\ stored' = stored \cup {name[c]}
    <3>1. pc'[c] = "fill" /\ name'[c] = name[c]
      BY <1>1, <2>3
    <3>2. \A f : (In(f, n)' <=> In(f, n)) /\ (Present(f)' <=> Present(f))
      BY <2>1 DEF In, Present, maps
    <3>3. QED
      BY <1>1, <1>4, <2>1, <2>3, <3>1, <3>2, ListingFrame DEF maps
  <2>4. QED
    BY <1>6, <2>2, <2>3 DEF CreateFile
<1>7. CASE CreateFill(c)
  <2>1. /\ UNCHANGED <<config, stored, trashMap>> /\ pc[c] = "fill"
        /\ pc'[c] = "getnum" /\ name'[c] = name[c]
        /\ fileMap' = [fileMap EXCEPT ![name[c]] = DefaultSize]
    BY <1>1, <1>7 DEF CreateFill, Put
  <2>2. \A f \in Listed : fileMap'[f] = IF f = name[c] THEN DefaultSize ELSE fileMap[f]
    BY <1>2, <2>1
  <2>3. \A f \in Listed : fileMap[f] # Absent => fileMap'[f] # Absent
    BY <2>2 DEF DefaultSize, Absent
  <2>4. fileMap'[name[c]] # Absent
    BY <1>2, <2>2 DEF DefaultSize, Absent
  <2>5. QED
    BY <1>1, <1>2, <1>4, <2>1, <2>3, <2>4, ListingStay DEF Present
<1>8. CASE CreateGetNum(c) \/ CreateGetLen(c)
  <2>1. /\ UNCHANGED <<config, stored, maps>> /\ pc[c] \in Filled
        /\ pc'[c] \in Filled /\ name'[c] = name[c]
    BY <1>1, <1>8 DEF CreateGetNum, CreateGetLen, With, server
  <2>2. QED
    BY <1>1, <1>4, <2>1, ListingStay DEF maps, Present
<1>9. CASE CreateSetNum(c)
  <2>1. /\ UNCHANGED <<stored, maps>> /\ pc[c] \in Filled
        /\ pc'[c] \in Filled /\ name'[c] = name[c]
        /\ config' = [config EXCEPT !.num = local[c].num + 1]
    BY <1>1, <1>9 DEF CreateSetNum
  <2>2. config'.rows = config.rows
    BY <1>2, <2>1 DEF ConfigType
  <2>3. QED
    BY <1>1, <1>4, <2>1, <2>2, ListingStay DEF maps, Present
<1>10. CASE CreateRow(c)
  <2>1. UNCHANGED <<stored, maps>> /\ pc[c] = "row"
    BY <1>10 DEF CreateRow
  <2>2. CASE Goto(c, "stuck") /\ UNCHANGED config
    <3>1. pc'[c] = "stuck" /\ name'[c] = name[c]
      BY <1>1, <2>2
    <3>2. QED
      BY <1>1, <1>4, <2>1, <2>2, <3>1, ListingStay DEF maps, Present
  <2>3. CASE local[c].len # Far
    <3>1. local[c].len = n /\ n <= Len(config.rows)
      BY <1>3, <2>1, <2>3 DEF Knows, Kept
    <3>2. /\ pc'[c] = "setlen" /\ name'[c] = name[c]
          /\ \A j \in 1..n : config'.rows[j] = config.rows[j]
      BY <1>0, <1>10, <3>1, RowIs
    <3>3. QED
      BY <1>1, <1>4, <2>1, <3>2, ListingStay DEF maps, Present
  <2>4. QED
    BY <1>10, <2>2, <2>3 DEF CreateRow
<1>11. QED
  BY <1>5, <1>6, <1>7, <1>8, <1>9, <1>10

\* of moveToTrash, recoverFile and changeValidBit,
LEMMA MarkListing ==
  ASSUME Base, Base', NEW n \in Nat, Rows(n), Listing(n), Pure', NEW c \in Conns,
         \/ TrashCheck(c) \/ Trash(c) \/ Recover(c)
         \/ BitLen(c) \/ BitFind(c) \/ BitSet(c)
  PROVE  Listing(n)'
<1>0. TypeOK /\ Apart'
  BY DEF Base, Beside
<1>1. /\ Others(c) /\ up' = up /\ orphans' = orphans
      /\ \A s : Goto(c, s) /\ s \in Places => pc'[c] = s /\ name'[c] = name[c]
      /\ Done(c) => pc'[c] = "idle"
  <2>1. Handler(c)
    BY DEF Handler
  <2>2. QED
    BY <1>0, <2>1, HandlerIs, GotoIs, DoneIs
<1>2. /\ config \in ConfigType /\ local[c].pos \in Nat /\ local[c].bit \in BOOLEAN
      /\ fileMap \in [Listed -> {Absent, 0, DefaultSize}]
      /\ trashMap \in [Listed -> {Absent, 0, DefaultSize}] /\ name \in [Conns -> Listed]
  BY <1>0 DEF TypeOK
<1>3. Kept(n)
  BY DEF Rows
<1>4. \A d \in Conns : pc[d] \in Filled => fileMap[name[d]] # Absent
  BY DEF Listing
<1> USE DEF Places, AllRequests, Appending, Marking, Rewriting, Clearing, Filled, Creating, Busy
<1>5. CASE TrashCheck(c) \/ BitLen(c) \/ BitFind(c)
  <2>1. /\ UNCHANGED <<config, stored, maps>> /\ pc[c] \in {"mtt", "bitlen", "find"}
        /\ pc'[c] \in {"idle", "trash", "find", "mark"}
    BY <1>1, <1>5 DEF TrashCheck, BitLen, BitFind, With, server
  <2>2. QED
    BY <1>1, <1>4, <2>1, ListingStay DEF maps, Present
<1>6. \A m \in [Listed -> {Absent, 0, DefaultSize}] : \A f \in Listed : Get(m, f) # Absent
  BY DEF Get, Absent
<1>7. CASE Trash(c)
  <2>1. /\ UNCHANGED <<config, stored>> /\ pc[c] = "trash"
        /\ pc'[c] = "bitlen" /\ name'[c] = name[c]
        /\ trashMap' = [trashMap EXCEPT ![name[c]] = Get(fileMap, name[c])]
        /\ fileMap' = [fileMap EXCEPT ![name[c]] = Absent]
    BY <1>1, <1>7 DEF Trash, Put
  <2>2. \A f \in Listed : f # name[c] => trashMap'[f] = trashMap[f] /\ fileMap'[f] = fileMap[f]
    BY <1>2, <2>1
  <2>3. trashMap'[name[c]] # Absent
    BY <1>2, <1>6, <2>1
  <2>4. \A f \in Listed : Present(f) => Present(f)'
    BY <2>2, <2>3 DEF Present
  <2>5. ASSUME NEW d \in Conns, d # c, pc[d] \in Filled
        PROVE  fileMap'[name[d]] # Absent
    <3>1. "bits" \notin clash'
      BY DEF Pure
    <3>2. name[d] # name[c]
      BY <1>0, <1>1, <2>1, <2>5, <3>1 DEF Apart, Others
    <3>3. QED
      BY <1>2, <1>4, <2>2, <2>5, <3>2
  <2>6. QED
    BY <1>1, <2>1, <2>4, <2>5, ListingStay
<1>8. CASE Recover(c)
  <2>1. /\ UNCHANGED <<config, stored>> /\ pc[c] = "recover"
        /\ pc'[c] = "bitlen" /\ name'[c] = name[c]
        /\ fileMap' = [fileMap EXCEPT ![name[c]] = Get(trashMap, name[c])]
        /\ trashMap' = [trashMap EXCEPT ![name[c]] = Absent]
    BY <1>1, <1>8 DEF Recover, With, Put
  <2>2. \A f \in Listed : f # name[c] => trashMap'[f] = trashMap[f] /\ fileMap'[f] = fileMap[f]
    BY <1>2, <2>1
  <2>3. fileMap'[name[c]] # Absent
    BY <1>2, <1>6, <2>1
  <2>4. \A f \in Listed : /\ Present(f) => Present(f)'
                          /\ fileMap[f] # Absent => fileMap'[f] # Absent
    BY <2>2, <2>3 DEF Present
  <2>5. QED
    BY <1>1, <1>2, <1>4, <2>1, <2>4, ListingStay
<1>9. CASE BitSet(c)
  <2>1. UNCHANGED <<stored, maps>> /\ pc[c] = "mark" /\ pc'[c] = "idle"
    BY <1>1, <1>9 DEF BitSet
  <2>2. \A j \in 1..n : config'.rows[j].name = config.rows[j].name
    <3>1. n <= Len(config.rows) /\ Len(config.rows) \in Nat
      BY <1>2, <1>3 DEF Kept, ConfigType
    <3>2. CASE config' = [config EXCEPT !.rows[local[c].pos].valid = local[c].bit]
      BY <1>2, <3>1, <3>2, MarkIs
    <3>3. CASE config' = config \/ config' = [config EXCEPT !.len = Far]
      BY <1>2, <3>3 DEF ConfigType
    <3>4. QED
      BY <1>2, <1>9, <3>2, <3>3 DEF BitSet
  <2>3. QED
    BY <1>1, <1>4, <2>1, <2>2, ListingStay DEF maps, Present
<1>10. QED
  BY <1>5, <1>7, <1>8, <1>9

\* main() finds every row within the count.
LEMMA FoundIs ==
  ASSUME config \in ConfigType, NEW i \in 1..config.num, i \in 1..Len(config.rows)
  PROVE  /\ config.rows[i].valid \in BOOLEAN
         /\ config.rows[i].name \in Found(config.rows[i].valid)
         /\ config.rows[i].name \in Found(TRUE) \cup Found(FALSE)
<1>1. config.rows \in Seq(Row) /\ DOMAIN config.rows = 1..Len(config.rows)
  BY DEF ConfigType
<1>2. config.rows[i] \in Row
  BY <1>1
<1>3. config.rows[i].valid \in BOOLEAN
  BY <1>2 DEF Row
<1>4. RowAt(i) = config.rows[i]
  BY <1>1 DEF RowAt
<1>5. config.rows[i].name \in Found(config.rows[i].valid)
  BY <1>4 DEF Found
<1>6. config.rows[i].valid = TRUE \/ config.rows[i].valid = FALSE
  BY <1>3
<1>7. QED
  BY <1>3, <1>5, <1>6

LEMMA BuiltIs ==
  ASSUME NEW v, NEW f \in Listed
  PROVE  /\ Built(v)[f] = IF f \in Found(v) THEN DefaultSize ELSE Absent
         /\ f \in Found(v) <=> Built(v)[f] # Absent
<1>1. Built(v)[f] = IF f \in Found(v) THEN DefaultSize ELSE Absent
  BY DEF Built
<1>2. DefaultSize # Absent
  BY DEF DefaultSize, Absent
<1>3. QED
  BY <1>1, <1>2

\* What clearTrash finds within the length, and cuts out of it.
LEMMA ReadIs ==
  ASSUME TypeOK, NEW n \in Nat, NEW c \in Conns, ClearRead(c),
         local[c].len \in {n, Far}, n <= Len(config.rows)
  PROVE  \/ Done(c) /\ ~In(name[c], n)
         \/ /\ pc'[c] = "rewrite" /\ name' = name
            /\ local'[c].bit = local[c].bit
            /\ local'[c].snap.num = IF config.num = 0 THEN 0 ELSE config.num - 1
            /\ config.len = n /\ local[c].len = n =>
                 /\ local'[c].snap.len = n - 1
                 /\ local'[c].own =>
                      \E k \in 1..n : /\ config.rows[k].name = name[c]
                                      /\ \A j \in 1..(n - 1) :
                                           local'[c].snap.rows[j] = config.rows[Shift(j, k)]
<1> DEFINE rows == Within(local[c].len)
           i == Find(rows, name[c])
           w == Without(config, rows, i)
           o == Own(rows, i, name[c])
<1>1. /\ config \in ConfigType /\ config.rows \in Seq(Row) /\ Len(config.rows) \in Nat
      /\ local[c] \in Locals /\ local[c].len \in Length /\ local \in [Conns -> Locals]
  BY DEF TypeOK, ConfigType, Locals
<1>2. /\ rows \in Seq(Row) /\ Len(rows) \in Nat /\ n <= Len(rows)
      /\ local[c].len = n => Len(rows) = n
      /\ \A j \in 1..Len(rows) : rows[j] = config.rows[j]
  BY <1>1, WithinIs
<1>3. /\ i \in 0..Len(rows)
      /\ i = 0 => \A j \in 1..Len(rows) : rows[j].name # name[c]
      /\ i # 0 /\ o => rows[i].name = name[c]
      /\ o \in BOOLEAN
  BY <1>2, FindIs
<1>4. CASE i = 0
  <2>1. Done(c)
    BY <1>4 DEF ClearRead
  <2>2. ~In(name[c], n)
    <3> HIDE DEF rows, i
    <3>1. QED
      BY <1>2, <1>3, <1>4 DEF In
  <2>3. QED
    BY <2>1, <2>2
<1>5. CASE i # 0
  <2>1. With(c, "rewrite", [local[c] EXCEPT !.snap = w, !.own = o])
    BY <1>5 DEF ClearRead
  <2>2. /\ pc'[c] = "rewrite" /\ name' = name
        /\ local' = [local EXCEPT ![c] = [local[c] EXCEPT !.snap = w, !.own = o]]
    BY <2>1, GotoIs DEF With, Places, Rewriting
  <2>3. /\ w.num = IF config.num = 0 THEN 0 ELSE config.num - 1
        /\ config.len = n => w.len = n - 1
    BY DEF Without, Far, Under
  <2> HIDE DEF rows, i, o
  <2>4. i \in 1..Len(rows) /\ (o => rows[i].name = name[c])
    BY <1>2, <1>3, <1>5
  <2>5. /\ w \in ConfigType
        /\ \A j \in 1..(Len(rows) - 1) : w.rows[j] = rows[IF j < i THEN j ELSE j + 1]
    BY <1>1, <1>2, <2>4, WithoutIs
  <2> HIDE DEF w
  <2>6. local'[c].snap = w /\ local'[c].own = o /\ local'[c].bit = local[c].bit
    BY <1>1, <2>2, <2>5 DEF Locals
  <2>7. ASSUME local[c].len = n, o
        PROVE  \E k \in 1..n : /\ config.rows[k].name = name[c]
                               /\ \A j \in 1..(n - 1) : w.rows[j] = config.rows[Shift(j, k)]
    <3>1. Len(rows) = n /\ i \in 1..n
      BY <1>2, <2>4, <2>7
    <3>2. /\ config.rows[i].name = name[c]
          /\ \A j \in 1..(n - 1) : w.rows[j] = config.rows[Shift(j, i)]
      BY <1>2, <2>4, <2>5, <2>7, <3>1 DEF Shift
    <3>3. QED
      BY <3>1, <3>2
  <2>8. QED
    BY <2>2, <2>3, <2>6, <2>7
<1>6. QED
  BY <1>4, <1>5

\* of clearTrash beside its write,
LEMMA ClearListing ==
  ASSUME Base, Base', NEW n \in Nat, Rows(n), Listing(n), NEW c \in Conns,
         Clear(c) \/ ClearLen(c) \/ ClearRead(c) \/ ClearDelete(c)
  PROVE  Listing(n)'
<1>0. TypeOK
  BY DEF Base
<1>1. /\ Others(c) /\ up' = up /\ orphans' = orphans
      /\ \A s : Goto(c, s) /\ s \in Places => pc'[c] = s /\ name'[c] = name[c]
      /\ Done(c) => pc'[c] = "idle"
  <2>1. Handler(c)
    BY DEF Handler
  <2>2. QED
    BY <1>0, <2>1, HandlerIs, GotoIs, DoneIs
<1>2. /\ trashMap \in [Listed -> {Absent, 0, DefaultSize}] /\ name \in [Conns -> Listed]
  BY <1>0 DEF TypeOK
<1>3. Kept(n) /\ Knows(c, n)
  BY DEF Rows
<1>4. \A d \in Conns : pc[d] \in Filled => fileMap[name[d]] # Absent
  BY DEF Listing
<1> USE DEF Places, AllRequests, Appending, Rewriting, Clearing, Filled, Creating, Busy
<1>5. ASSUME UNCHANGED config
      PROVE  \A f : In(f, n)' <=> In(f, n)
  BY <1>5 DEF In
<1>6. CASE Clear(c)
  <2>1. UNCHANGED <<config, stored, fileMap>> /\ pc[c] = "ct"
    BY <1>6 DEF Clear
  <2>2. CASE Done(c) /\ UNCHANGED trashMap
    BY <1>1, <1>4, <2>1, <2>2, ListingStay DEF Present
  <2>3. CASE Goto(c, "ctlen") /\ trashMap' = Put(trashMap, name[c], Absent)
    <3>1. pc'[c] = "ctlen" /\ name'[c] = name[c]
      BY <1>1, <2>3
    <3>2. \A f \in Listed : f # name[c] => trashMap'[f] = trashMap[f]
      BY <1>2, <2>3 DEF Put
    <3>3. \A f \in Listed : Present(f) => Present(f)' \/ f = name[c]
      BY <2>1, <3>2 DEF Present
    <3>4. QED
      BY <1>1, <1>4, <1>5, <2>1, <3>1, <3>3, ListingFrame
  <2>4. QED
    BY <1>6, <2>2, <2>3 DEF Clear
<1>7. CASE ClearLen(c)
  <2>1. /\ UNCHANGED <<config, stored, maps>> /\ pc[c] = "ctlen"
        /\ pc'[c] = "whole" /\ name'[c] = name[c]
    BY <1>1, <1>7 DEF ClearLen, With, server
  <2>2. QED
    BY <1>1, <1>4, <2>1, ListingStay DEF maps, Present
<1>8. CASE ClearRead(c)
  <2>1. UNCHANGED <<config, stored, maps>> /\ pc[c] = "whole"
    BY <1>8 DEF ClearRead, server
  <2>2. \/ pc'[c] = "idle" /\ ~In(name[c], n)
        \/ pc'[c] = "rewrite" /\ name'[c] = name[c]
    <3>1. local[c].len \in {n, Far} /\ n <= Len(config.rows)
      BY <1>3, <2>1 DEF Knows, Kept
    <3>2. QED
      BY <1>0, <1>1, <1>8, <3>1, ReadIs
  <2>3. \A f : Present(f)' <=> Present(f)
    BY <2>1 DEF Present, maps
  <2>4. QED
    BY <1>1, <1>4, <1>5, <2>1, <2>2, <2>3, ListingFrame DEF maps
<1>9. CASE ClearDelete(c)
  <2>1. /\ UNCHANGED <<config, maps>> /\ pc[c] = "unlink" /\ pc'[c] = "idle"
        /\ stored' = stored \ {name[c]}
    BY <1>1, <1>9 DEF ClearDelete
  <2>2. \A f : Present(f)' <=> Present(f)
    BY <2>1 DEF Present, maps
  <2>3. QED
    BY <1>1, <1>4, <1>5, <2>1, <2>2, ListingFrame DEF maps
<1>10. QED
  BY <1>6, <1>7, <1>8, <1>9

\* the two steps that change the number of rows,
LEMMA SetLenListing ==
  ASSUME Base, Base', NEW n \in Nat, Rows(n), Listing(n), NEW c \in Conns, CreateSetLen(c)
  PROVE  Listing(n + 1)'
<1>0. TypeOK
  BY DEF Base
<1>1. /\ Others(c) /\ up' = up /\ orphans' = orphans
      /\ UNCHANGED <<stored, maps>> /\ pc[c] = "setlen" /\ pc'[c] = "idle"
      /\ config' = [config EXCEPT !.len = local[c].len + 1]
  <2>1. Handler(c)
    BY DEF Handler
  <2>2. QED
    BY <1>0, <2>1, HandlerIs, DoneIs DEF CreateSetLen
<1>2. config'.rows = config.rows
  BY <1>0, <1>1 DEF TypeOK, ConfigType
<1>3. config.rows[n + 1].name = name[c]
  BY <1>1 DEF Rows, Knows
<1>4. /\ \A f : In(f, n) => In(f, n + 1)'
      /\ \A f : f = name[c] => In(f, n + 1)'
  BY <1>2, <1>3 DEF In
<1>5. /\ \A d \in Conns : pc[d] \in Filled => fileMap[name[d]] # Absent
      /\ fileMap[name[c]] # Absent
  BY <1>1 DEF Listing, Filled, Appending
<1>6. /\ \A f : Present(f)' <=> Present(f)
      /\ Present(name[c])
  BY <1>1, <1>5 DEF Present, maps
<1> DEFINE m == n + 1
<1>7. m \in Nat
  OBVIOUS
<1>8. /\ \A f : In(f, n) => In(f, m)'
      /\ \A f : f = name[c] => In(f, m)'
  BY <1>4
<1> HIDE DEF m
<1>9. Listing(m)'
  <2>1. pc[c] \notin Clearing
    BY <1>1 DEF Clearing, Rewriting
  <2>2. pc'[c] \notin Filled
    BY <1>1 DEF Filled, Appending
  <2>3. \A d \in Conns : pc[d] \in Filled => fileMap'[name[d]] # Absent
    BY <1>1, <1>5 DEF maps
  <2>4. \A f : f = name[c] => Present(f)'
    BY <1>6
  <2>5. QED
    BY <1>1, <1>6, <1>7, <1>8, <2>1, <2>2, <2>3, <2>4, ListingFrame
<1>10. QED
  BY <1>9 DEF m

LEMMA ClearWriteListing ==
  ASSUME Base, Base', NEW n \in Nat, Listing(n), NEW m \in Nat,
         NEW c \in Conns, ClearWrite(c), \A f : In(f, m)' <=> (In(f, n) /\ f # name[c])
  PROVE  Listing(m)'
<1>0. TypeOK
  BY DEF Base
<1>1. /\ Others(c) /\ up' = up /\ orphans' = orphans
      /\ UNCHANGED <<stored, maps>> /\ pc[c] = "rewrite"
      /\ pc'[c] = "unlink" /\ name'[c] = name[c]
  <2>1. Handler(c)
    BY DEF Handler
  <2>2. QED
    BY <1>0, <2>1, HandlerIs, GotoIs DEF ClearWrite, Places
<1>2. \A d \in Conns : pc[d] \in Filled => fileMap[name[d]] # Absent
  BY DEF Listing
<1>3. \A f : Present(f)' <=> Present(f)
  BY <1>1 DEF Present, maps
<1> USE DEF Appending, Rewriting, Clearing, Filled, Creating, Busy
<1>4. QED
  BY <1>1, <1>2, <1>3, ListingFrame DEF maps

\* and all others.
LEMMA OtherListing ==
  ASSUME Base, Base', NEW n \in Nat, Rows(n), Listing(n),
         \/ \E c \in Conns, r \in Requests, f \in Listed : Request(c, r, f)
         \/ \E c \in Conns : Open(c) \/ Lookup(c) \/ Close(c) \/ Leave(c)
         \/ Crash
         \/ Restart
         \/ UNCHANGED vars
  PROVE  Listing(n)'
<1>0. TypeOK /\ Down
  BY DEF Base, Beside
<1>1. \A d \in Conns : pc[d] \in Filled => fileMap[name[d]] # Absent
  BY DEF Listing
<1> USE DEF Places, AllRequests, Appending, Rewriting, Clearing, Filled, Creating, Busy
<1>2. ASSUME NEW c \in Conns, Others(c), UNCHANGED <<up, orphans, stored, config, maps>>,
             pc[c] \notin Clearing \cup Busy \cup {"stuck"}, pc'[c] \notin Filled
      PROVE  Listing(n)'
  BY <1>1, <1>2, ListingStay DEF maps, Present
<1>3. ASSUME NEW c \in Conns, NEW r \in Requests, NEW f \in Listed, Request(c, r, f)
      PROVE  Listing(n)'
  <2>1. Others(c) /\ pc'[c] \in AllRequests /\ pc[c] = "idle"
        /\ UNCHANGED <<up, orphans, stored, config, maps>>
    BY <1>0, <1>3, RequestIs DEF server, Request
  <2>2. QED
    BY <1>2, <2>1
<1>4. ASSUME NEW c \in Conns, Open(c) \/ Lookup(c)
      PROVE  Listing(n)'
  <2>1. Handler(c)
    BY <1>4 DEF Handler
  <2>2. Others(c) /\ up' = up /\ orphans' = orphans
    BY <1>0, <2>1, HandlerIs
  <2>3. /\ pc[c] \in {"open", "lookup"} /\ pc'[c] \in {"lookup", "idle"}
        /\ UNCHANGED <<stored, config, maps>>
    BY <1>0, <1>4, GotoIs, DoneIs DEF Open, Lookup, server
  <2>4. QED
    BY <1>2, <2>2, <2>3
<1>5. ASSUME NEW c \in Conns, Close(c) \/ Leave(c)
      PROVE  Listing(n)'
  <2>1. Others(c) /\ pc[c] = "idle" /\ UNCHANGED <<pc, up, orphans, stored, config, maps>>
    BY <1>5 DEF Close, Leave, Others, ghosts
  <2>2. QED
    BY <1>2, <2>1
<1>6. CASE Crash
  <2>1. /\ up' = FALSE /\ UNCHANGED <<stored, config>>
        /\ pc' = [c \in Conns |-> "idle"]
        /\ \A c \in Conns : pc[c] \in Busy \cup {"stuck"} => name[c] \in orphans'
        /\ orphans \subseteq orphans'
    BY <1>6 DEF Crash
  <2>2. \A f \in stored' \ orphans' : In(f, n)
    BY <2>1 DEF Listing, Covered
  <2>3. \A f \in stored' \ orphans' : Covered(f, n)'
    BY <2>1, <2>2 DEF Covered, In
  <2>4. QED
    BY <2>1, <2>3 DEF Listing
<1>7. CASE Restart
  <2>1. /\ ~up /\ UNCHANGED <<stored, config, pc, name, orphans>>
        /\ fileMap' = Built(TRUE) /\ trashMap' = Built(FALSE)
    BY <1>7 DEF Restart, ghosts
  <2>2. \A c \in Conns : pc[c] = "idle"
    BY <1>0, <2>1 DEF Down
  <2>3. ASSUME NEW f \in stored' \ orphans'
        PROVE  Covered(f, n)'
    <3>1. In(f, n) /\ f \in Listed
      BY <1>0, <2>1, <2>2, <2>3 DEF Listing, Covered, TypeOK, Listed
    <3>2. PICK i \in 1..n : config.rows[i].name = f
      BY <3>1 DEF In
    <3>3. /\ config.rows \in Seq(Row) /\ Len(config.rows) \in Nat /\ config.num \in Nat
          /\ n <= Len(config.rows) /\ n <= config.num
      BY <1>0 DEF TypeOK, ConfigType, Rows, Kept
    <3>4. i \in 1..config.num /\ i \in 1..Len(config.rows)
      BY <3>3
    <3>5. config.rows[i].name \in Found(TRUE) \cup Found(FALSE)
      BY <1>0, <3>4, FoundIs DEF TypeOK
    <3>6. Built(TRUE)[f] # Absent \/ Built(FALSE)[f] # Absent
      BY <3>1, <3>2, <3>5, BuiltIs
    <3>7. Present(f)'
      BY <2>1, <3>6 DEF Present
    <3>8. QED
      BY <2>1, <3>1, <3>7 DEF Covered, In
  <2>4. QED
    BY <2>1, <2>2, <2>3 DEF Listing
<1>8. CASE UNCHANGED vars
  BY <1>8 DEF vars, server, ghosts, maps, Listing, Covered, In, Present
<1>9. QED
  BY <1>3, <1>4, <1>5, <1>6, <1>7, <1>8

-----------------------------------------------------------------------------
(* The maps follow the rows                                                *)

\* Nobody marks or clears f.
Idle(f) == \A c \in Conns : pc[c] \in Marking \cup Clearing => name[c] # f

\* The maps say v of document f.
Says(f, v) == /\ fileMap[f] = IF v THEN DefaultSize ELSE Absent
              /\ trashMap[f] = IF v THEN Absent ELSE DefaultSize

\* A handler has created f and not finished its row.
Written(f) == \E c \in Conns : pc[c] \in Filled /\ name[c] = f

\* The maps follow the n rows, but for documents that are on their way.
Follows(n) ==
  /\ \A i \in 1..n : Idle(config.rows[i].name)
                       => Says(config.rows[i].name, config.rows[i].valid)
  /\ \A f \in Listed : ~In(f, n) =>
       /\ trashMap[f] = Absent
       /\ fileMap[f] = IF Written(f) THEN DefaultSize ELSE Absent

\* s is what is left of the n rows without that of f, to the bit.
CutOff(s, f, n) ==
  /\ s.len = n - 1 /\ s.num = n - 1
  /\ \E k \in 1..n : /\ config.rows[k].name = f
                     /\ \A j \in 1..(n - 1) : s.rows[j] = config.rows[Shift(j, k)]

\* What a handler that changes the number of rows has read of them,
Reads(c, n) ==
  /\ pc[c] # "stuck"
  /\ pc[c] \notin Marking => local[c].bit = FALSE
  /\ pc[c] = "setnum" => local[c].num = n
  /\ pc[c] \in Counted => config.num = n + 1
  /\ pc[c] \in {"row", "whole"} => local[c].len = n
  /\ pc[c] = "setlen" => config.rows[n + 1].valid = TRUE
  /\ pc[c] = "rewrite" => local[c].snap.len = n - 1 /\ 0 < n
  /\ pc[c] = "rewrite" /\ local[c].own => CutOff(local[c].snap, name[c], n)

\* what one that clears a document has left of it in the maps,
Clears(c, n) ==
  pc[c] \in Clearing =>
    /\ In(name[c], n) /\ fileMap[name[c]] = Absent /\ trashMap[name[c]] = Absent
    /\ \A d \in Conns : pc[d] \in Clearing /\ name[d] = name[c] => d = c

\* and what changeValidBit is about to write and where.
Marks(c, n) ==
  pc[c] \in Marking =>
    /\ In(name[c], n)
    /\ (\A d \in Conns : pc[d] \in Clearing => name[d] # name[c]) => Says(name[c], local[c].bit)
    /\ pc[c] = "find" => local[c].len \in 0..n /\ In(name[c], local[c].len)
    /\ pc[c] = "mark" => local[c].pos \in 1..n
    /\ pc[c] = "mark" /\ local[c].own => config.rows[local[c].pos].name = name[c]

Steps(c, n) == Reads(c, n) /\ Clears(c, n) /\ Marks(c, n)

Exact(n) ==
  /\ config.len = n
  /\ (\A c \in Conns : pc[c] \notin Counted) => config.num = n
  /\ \A c \in Conns : Steps(c, n)
  /\ up => Follows(n)

\* A step of another handler that leaves what this one relies on.
LEMMA StepsFrame ==
  ASSUME NEW n \in Nat, NEW m \in Nat, NEW c \in Conns, NEW d \in Conns, d # c, Others(c),
         Steps(d, n),
         pc[d] \in Changing => m = n /\ config' = config,
         pc[d] \in Clearing => \A f : f = name[d] => In(f, m)',
         pc[d] \in Marking => n <= m /\ \A j \in 1..n : config'.rows[j].name = config.rows[j].name,
         pc[d] \in Clearing \cup Marking =>
           \/ fileMap'[name[d]] = fileMap[name[d]] /\ trashMap'[name[d]] = trashMap[name[d]]
           \/ pc[d] \in Marking /\ pc'[c] \in Clearing /\ name'[c] = name[d],
         pc[d] \in Marking /\ pc[c] \in Clearing /\ name[c] = name[d] =>
           pc'[c] \in Clearing /\ name'[c] = name[c],
         pc[d] \in Clearing /\ pc'[c] \in Clearing => name'[c] # name[d]
  PROVE  Steps(d, m)'
<1>1. pc'[d] = pc[d] /\ name'[d] = name[d] /\ local'[d] = local[d]
  BY DEF Others
<1>2. Reads(d, m)'
  <2>1. CASE pc[d] \in Changing
    BY <1>1, <2>1 DEF Steps, Reads, CutOff
  <2>2. CASE pc[d] \notin Changing
    BY <1>1, <2>2 DEF Steps, Reads, Changing, Counted, Appending, Rewriting
  <2>3. QED
    BY <2>1, <2>2
<1>3. Clears(d, m)'
  <2>1. SUFFICES ASSUME pc[d] \in Clearing PROVE Clears(d, m)'
    BY <1>1 DEF Clears
  <2>2. /\ fileMap[name[d]] = Absent /\ trashMap[name[d]] = Absent
        /\ \A e \in Conns : pc[e] \in Clearing /\ name[e] = name[d] => e = d
    BY <2>1 DEF Steps, Clears
  <2>3. pc[d] \notin Marking
    BY <2>1 DEF Marking, Clearing, Rewriting
  <2>4. fileMap'[name[d]] = Absent /\ trashMap'[name[d]] = Absent
    BY <2>1, <2>2, <2>3
  <2>5. \A e \in Conns : pc'[e] \in Clearing /\ name'[e] = name[d] => e = d
    BY <2>1, <2>2 DEF Others
  <2>6. In(name[d], m)'
    BY <1>1, <2>1
  <2>7. QED
    BY <1>1, <2>4, <2>5, <2>6 DEF Clears
<1>4. Marks(d, m)'
  <2>1. SUFFICES ASSUME pc[d] \in Marking PROVE Marks(d, m)'
    BY <1>1 DEF Marks
  <2>2. Marks(d, n)
    BY DEF Steps
  <2>3. \A f, l : l \in 0..n /\ In(f, l) => l \in 0..m /\ In(f, l)'
    BY <2>1 DEF In
  <2>4. \A f : In(f, n) => In(f, m)'
    BY <2>1 DEF In
  <2>5. In(name[d], m)'
    BY <1>1, <2>1, <2>2, <2>4 DEF Marks
  <2>6. ASSUME \A e \in Conns : pc'[e] \in Clearing => name'[e] # name[d]
        PROVE  Says(name[d], local[d].bit)'
    <3>1. \A e \in Conns : pc[e] \in Clearing => name[e] # name[d]
      BY <2>1, <2>6 DEF Others
    <3>2. Says(name[d], local[d].bit)
      BY <2>1, <2>2, <3>1 DEF Marks
    <3>3. fileMap'[name[d]] = fileMap[name[d]] /\ trashMap'[name[d]] = trashMap[name[d]]
      BY <2>1, <2>6
    <3>4. QED
      BY <1>1, <3>2, <3>3 DEF Says
  <2>7. ASSUME pc[d] = "find" PROVE local[d].len \in 0..m /\ In(name[d], local[d].len)'
    <3>1. local[d].len \in 0..n /\ In(name[d], local[d].len)
      BY <2>1, <2>2, <2>7 DEF Marks
    <3>2. \A l : l = local'[d].len => In(name[d], l)'
      BY <1>1, <2>3, <3>1
    <3>3. QED
      BY <1>1, <2>3, <3>1, <3>2
  <2>8. ASSUME pc[d] = "mark"
        PROVE  /\ local[d].pos \in 1..m
               /\ local[d].own => config'.rows[local[d].pos].name = name[d]
    BY <2>1, <2>2, <2>8 DEF Marks
  <2>9. QED
    BY <1>1, <2>5, <2>6, <2>7, <2>8 DEF Marks
<1>5. QED
  BY <1>2, <1>3, <1>4 DEF Steps

\* A step about one document leaves the others as they are.
LEMMA FollowsFrame ==
  ASSUME NEW n \in Nat, Follows(n), NEW c \in Conns, Others(c),
         name'[c] = name[c] \/ pc'[c] \notin Filled \cup Marking \cup Clearing,
         \A j \in 1..n : /\ config.rows[j].name \in Listed
                         /\ config'.rows[j].name = config.rows[j].name
                         /\ config.rows[j].name # name[c]
                              => config'.rows[j].valid = config.rows[j].valid,
         \A f \in Listed : f # name[c] => fileMap'[f] = fileMap[f] /\ trashMap'[f] = trashMap[f],
         \A j \in 1..n : config.rows[j].name = name[c] =>
           \/ ~Idle(config.rows[j].name)'
           \/ Says(config.rows[j].name, config.rows[j].valid)',
         ~In(name[c], n) =>
           /\ trashMap'[name[c]] = Absent
           /\ \A f : f = name[c] => fileMap'[f] = IF Written(f)' THEN DefaultSize ELSE Absent
  PROVE  Follows(n)'
<1>1. ASSUME NEW j \in 1..n, Idle(config.rows[j].name)'
      PROVE  Says(config.rows[j].name, config.rows[j].valid)'
  <2>1. CASE config.rows[j].name = name[c]
    BY <1>1, <2>1
  <2>2. CASE config.rows[j].name # name[c]
    <3> DEFINE g == config.rows[j].name
    <3>1. /\ config'.rows[j].name = g /\ config'.rows[j].valid = config.rows[j].valid
          /\ fileMap'[g] = fileMap[g] /\ trashMap'[g] = trashMap[g]
      BY <2>2
    <3>2. Idle(g)
      <4>1. \A d \in Conns : pc'[d] \in Marking \cup Clearing => name'[d] # g
        BY <1>1, <3>1 DEF Idle
      <4>2. QED
        BY <2>2, <4>1 DEF Idle, Others
    <3>3. Says(g, config.rows[j].valid)
      BY <3>2 DEF Follows
    <3>4. QED
      BY <3>1, <3>3 DEF Says
  <2>3. QED
    BY <2>1, <2>2
<1>2. ASSUME NEW f \in Listed, ~In(f, n)'
      PROVE  /\ trashMap'[f] = Absent
             /\ fileMap'[f] = IF Written(f)' THEN DefaultSize ELSE Absent
  <2>1. ~In(f, n)
    BY <1>2 DEF In
  <2>2. CASE f = name[c]
    BY <2>1, <2>2
  <2>3. CASE f # name[c]
    <3>1. Written(f)' <=> Written(f)
      BY <2>3 DEF Written, Others
    <3>2. QED
      BY <2>1, <2>3, <3>1 DEF Follows
  <2>4. QED
    BY <2>2, <2>3
<1>3. QED
  BY <1>1, <1>2 DEF Follows

\* A step that changes neither "config" nor the maps.
LEMMA ExactStay ==
  ASSUME NEW n \in Nat, Exact(n), NEW c \in Conns, Others(c), UNCHANGED <<up, config, maps>>,
         \A K \in {Counted, Filled, Clearing, Marking} : pc'[c] \in K <=> pc[c] \in K,
         name'[c] = name[c] \/ pc'[c] \notin Filled \cup Marking \cup Clearing,
         Reads(c, n)', Marks(c, n)'
  PROVE  Exact(n)'
<1>0. fileMap' = fileMap /\ trashMap' = trashMap
  BY DEF maps
<1>1. /\ pc'[c] \in Counted <=> pc[c] \in Counted
      /\ pc'[c] \in Filled <=> pc[c] \in Filled
      /\ pc'[c] \in Clearing <=> pc[c] \in Clearing
      /\ pc'[c] \in Marking <=> pc[c] \in Marking
  OBVIOUS
<1>2. \A f, l : In(f, l)' <=> In(f, l)
  BY DEF In
<1>3. \A f : (Idle(f)' <=> Idle(f)) /\ (Written(f)' <=> Written(f))
  BY <1>1 DEF Idle, Written, Others
<1>4. up' => Follows(n)'
  BY <1>0, <1>2, <1>3 DEF Exact, Follows, Says
<1>5. Clears(c, n)'
  <2>1. SUFFICES ASSUME pc'[c] \in Clearing PROVE Clears(c, n)'
    BY DEF Clears
  <2>2. name'[c] = name[c] /\ pc[c] \in Clearing
    BY <1>1, <2>1
  <2>3. /\ In(name[c], n) /\ fileMap[name[c]] = Absent /\ trashMap[name[c]] = Absent
        /\ \A d \in Conns : pc[d] \in Clearing /\ name[d] = name[c] => d = c
    BY <2>2 DEF Exact, Steps, Clears
  <2>4. QED
    BY <1>0, <1>2, <2>2, <2>3 DEF Clears, Others
<1>6. ASSUME NEW d \in Conns
      PROVE  Steps(d, n)'
  <2>1. CASE d = c
    BY <1>5, <2>1 DEF Steps
  <2>2. CASE d # c
    <3>1. Steps(d, n)
      BY DEF Exact
    <3>2. pc[d] \in Clearing => \A f : f = name[d] => In(f, n)'
      BY <1>2, <3>1 DEF Steps, Clears
    <3>3. pc[d] \in Clearing /\ pc'[c] \in Clearing => name'[c] # name[d]
      BY <1>1, <2>2, <3>1 DEF Steps, Clears
    <3>4. pc[c] \in Clearing => pc'[c] \in Clearing /\ name'[c] = name[c]
      BY <1>1
    <3>5. QED
      BY <1>0, <2>2, <3>1, <3>2, <3>3, <3>4, StepsFrame
  <2>3. QED
    BY <2>1, <2>2
<1>7. (\A d \in Conns : pc'[d] \notin Counted) => config'.num = n
  BY <1>1 DEF Exact, Others
<1>8. QED
  BY <1>4, <1>6, <1>7 DEF Exact

\* The first n rows have names and bits.
LEMMA RowTypes ==
  ASSUME Base, NEW n \in Nat, Rows(n)
  PROVE  /\ config \in ConfigType /\ config.rows \in Seq(Row) /\ Len(config.rows) \in Nat
         /\ n <= Len(config.rows)
         /\ \A j \in 1..n : /\ config.rows[j].name \in Listed
                            /\ config.rows[j].valid \in BOOLEAN
                            /\ \A i \in 1..n : config.rows[i].name = config.rows[j].name => i = j
<1>1. /\ config \in ConfigType /\ config.rows \in Seq(Row) /\ Len(config.rows) \in Nat
      /\ n <= Len(config.rows)
  BY DEF Base, TypeOK, ConfigType, Rows, Kept
<1>2. \A j \in 1..n : config.rows[j] \in Row
  BY <1>1
<1>3. QED
  BY <1>1, <1>2 DEF Row, Listed, Rows, Kept

\* Nobody marks or clears a document that a map has and no handler moves.
LEMMA SaysIs ==
  ASSUME Base, NEW n \in Nat, Rows(n), Exact(n), up, NEW f \in Listed, In(f, n), Present(f),
         \A d \in Conns : pc[d] \in Marking => name[d] # f
  PROVE  /\ Idle(f)
         /\ \/ Says(f, TRUE)
            \/ Says(f, FALSE)
<1>1. \A d \in Conns : pc[d] \in Clearing => name[d] # f
  BY DEF Exact, Steps, Clears, Present
<1>2. Idle(f)
  BY <1>1 DEF Idle
<1>3. PICK i \in 1..n : config.rows[i].name = f
  BY DEF In
<1>4. Says(f, config.rows[i].valid) /\ config.rows[i].valid \in BOOLEAN
  BY <1>2, <1>3, RowTypes DEF Exact, Follows
<1>5. QED
  BY <1>2, <1>4

\* The maps and the steps of handleCreate,
LEMMA CreateExact ==
  ASSUME Base, Base', NEW n \in Nat, Rows(n), Rows(n)', Exact(n), Pure', NEW c \in Conns,
         \/ CreateCheck(c) \/ CreateFile(c) \/ CreateFill(c) \/ CreateGetNum(c)
         \/ CreateSetNum(c) \/ CreateGetLen(c) \/ CreateRow(c)
  PROVE  Exact(n)'
<1>0. TypeOK /\ Fits /\ Down /\ Sole' /\ Sole
  BY DEF Base, Beside
<1>1. /\ Others(c) /\ up' = up /\ pc[c] # "idle" /\ clash \subseteq clash'
      /\ \A s : Goto(c, s) /\ s \in Places => pc'[c] = s /\ name'[c] = name[c]
      /\ Done(c) => pc'[c] = "idle" /\ local' = [local EXCEPT ![c] = NoLocal]
  <2>1. Handler(c)
    BY DEF Handler
  <2>2. QED
    BY <1>0, <2>1, HandlerIs, GotoIs, DoneIs
<1>2. /\ up /\ "rows" \notin clash' /\ "rows" \notin clash
  BY <1>0, <1>1 DEF Down, Pure
<1>3. /\ local[c] \in Locals /\ local \in [Conns -> Locals]
      /\ config.num \in Nat /\ config \in ConfigType
      /\ fileMap \in [Listed -> {Absent, 0, DefaultSize}]
      /\ trashMap \in [Listed -> {Absent, 0, DefaultSize}] /\ name \in [Conns -> Listed]
  BY <1>0 DEF TypeOK, ConfigType, Locals
<1>4. /\ Reads(c, n) /\ config.len = n /\ Follows(n)
      /\ (\A d \in Conns : pc[d] \notin Counted) => config.num = n
  BY <1>2 DEF Exact, Steps
<1>5. ASSUME pc'[c] \in Changing
      PROVE  \A d \in Conns : d # c => pc[d] \notin Changing
  BY <1>0, <1>1, <1>2, <1>5 DEF Sole, Others
<1> USE DEF Places, AllRequests, Appending, Marking, Rewriting, Clearing, Filled, Counted
<1>6. CASE CreateCheck(c)
  <2>1. /\ UNCHANGED <<config, maps, local>> /\ pc[c] = "create"
        /\ pc'[c] \in {"recover", "mkfile"} /\ name'[c] = name[c]
    BY <1>1, <1>6 DEF CreateCheck, server
  <2>2. Reads(c, n)' /\ Marks(c, n)'
    BY <1>4, <2>1 DEF Reads, Marks
  <2>3. QED
    BY <1>1, <2>1, <2>2, ExactStay
<1>7. CASE CreateFile(c)
  <2>1. UNCHANGED <<config, maps>> /\ pc[c] = "mkfile"
    BY <1>7 DEF CreateFile
  <2>2. /\ pc'[c] = "idle" \/ (pc'[c] = "fill" /\ name'[c] = name[c])
        /\ local'[c].bit = FALSE
    BY <1>1, <1>3, <1>4, <1>7, <2>1 DEF CreateFile, NoLocal, Reads
  <2>3. Reads(c, n)' /\ Marks(c, n)'
    BY <2>2 DEF Reads, Marks
  <2>4. QED
    BY <1>1, <2>1, <2>2, <2>3, ExactStay
<1>8. CASE CreateGetNum(c)
  <2>1. /\ UNCHANGED <<config, maps>> /\ pc[c] = "getnum"
        /\ pc'[c] = "setnum" /\ name'[c] = name[c]
        /\ local' = [local EXCEPT ![c] = [local[c] EXCEPT !.num = config.num]]
    BY <1>1, <1>8 DEF CreateGetNum, With, server
  <2>2. local'[c].num = config.num /\ local'[c].bit = local[c].bit
    BY <1>3, <2>1 DEF Locals
  <2>3. config.num = n
    BY <1>4, <1>5, <2>1 DEF Changing
  <2>4. Reads(c, n)' /\ Marks(c, n)'
    BY <1>4, <2>1, <2>2, <2>3 DEF Reads, Marks
  <2>5. QED
    BY <1>1, <2>1, <2>4, ExactStay
<1>9. CASE CreateGetLen(c)
  <2>1. /\ UNCHANGED <<config, maps>> /\ pc[c] = "getlen"
        /\ pc'[c] = "row" /\ name'[c] = name[c]
        /\ local' = [local EXCEPT ![c] = [local[c] EXCEPT !.len = config.len]]
    BY <1>1, <1>9 DEF CreateGetLen, With, server
  <2>2. local'[c].len = config.len /\ local'[c].bit = local[c].bit
    BY <1>3, <2>1 DEF Locals
  <2>3. Reads(c, n)' /\ Marks(c, n)'
    BY <1>4, <2>1, <2>2 DEF Reads, Marks
  <2>4. QED
    BY <1>1, <2>1, <2>3, ExactStay
<1>10. CASE CreateFill(c)
  <2>1. /\ UNCHANGED <<config, trashMap, local>> /\ pc[c] = "fill"
        /\ pc'[c] = "getnum" /\ name'[c] = name[c]
        /\ fileMap' = [fileMap EXCEPT ![name[c]] = DefaultSize]
    BY <1>1, <1>10 DEF CreateFill, Put
  <2>2. /\ fileMap'[name[c]] = DefaultSize
        /\ \A f \in Listed : f # name[c] => fileMap'[f] = fileMap[f]
    BY <1>3, <2>1
  <2>3. ~In(name[c], n)
    BY <2>1 DEF Rows, Between, Busy, Creating
  <2>4. trashMap[name[c]] = Absent
    BY <1>3, <1>4, <2>3 DEF Follows
  <2>5. \A j \in 1..n : config.rows[j].name # name[c]
    BY <2>3 DEF In
  <2>6. \A f : f = name[c] => Written(f)'
    BY <2>1 DEF Written
  <2>7. Follows(n)'
    BY <1>1, <1>4, <2>1, <2>2, <2>4, <2>5, <2>6, RowTypes, FollowsFrame
  <2>8. Steps(c, n)'
    BY <1>4, <2>1 DEF Steps, Reads, Clears, Marks
  <2>9. ASSUME NEW d \in Conns, d # c
        PROVE  Steps(d, n)'
    <3>1. Steps(d, n)
      BY DEF Exact
    <3>2. pc[d] \in Clearing \cup Marking => In(name[d], n) /\ name[d] # name[c]
      BY <2>3, <3>1 DEF Steps, Clears, Marks
    <3>3. pc[d] \in Clearing => \A f : f = name[d] => In(f, n)'
      BY <2>1, <3>2 DEF In
    <3>4. pc[d] \in Clearing \cup Marking =>
            fileMap'[name[d]] = fileMap[name[d]] /\ trashMap'[name[d]] = trashMap[name[d]]
      BY <1>3, <2>1, <2>2, <3>2
    <3>5. QED
      BY <1>1, <2>1, <2>9, <3>1, <3>3, <3>4, StepsFrame
  <2>10. (\A d \in Conns : pc'[d] \notin Counted) => config'.num = n
    <3>1. (\A d \in Conns : pc'[d] \notin Counted) => \A d \in Conns : pc[d] \notin Counted
      BY <1>1, <2>1 DEF Others
    <3>2. QED
      BY <1>4, <2>1, <3>1
  <2>11. QED
    BY <1>4, <2>1, <2>7, <2>8, <2>9, <2>10 DEF Exact
<1>11. ASSUME pc[c] \in Changing, pc'[c] \in Counted, name'[c] = name[c], UNCHANGED <<maps, local>>,
              pc[c] \in Filled, config'.len = config.len, Reads(c, n)',
              \A j \in 1..n : config'.rows[j] = config.rows[j]
       PROVE  Exact(n)'
  <2>1. fileMap' = fileMap /\ trashMap' = trashMap
    BY <1>11 DEF maps
  <2>2. \A f : In(f, n)' <=> In(f, n)
    BY <1>11 DEF In
  <2>3. \A f : (Idle(f)' <=> Idle(f)) /\ (Written(f)' <=> Written(f))
    BY <1>1, <1>11 DEF Idle, Written, Others
  <2>4. Follows(n)'
    BY <1>4, <1>11, <2>1, <2>2, <2>3 DEF Follows, Says
  <2>5. Steps(c, n)'
    BY <1>11 DEF Steps, Clears, Marks
  <2>6. ASSUME NEW d \in Conns, d # c
        PROVE  Steps(d, n)'
    <3>1. Steps(d, n) /\ pc[d] \notin Changing
      BY <1>5, <1>11, <2>6 DEF Exact, Changing
    <3>2. pc[d] \in Clearing => \A f : f = name[d] => In(f, n)'
      BY <2>2, <3>1 DEF Steps, Clears
    <3>3. pc[c] \notin Clearing /\ pc'[c] \notin Clearing
      BY <1>11
    <3>4. QED
      BY <1>1, <1>11, <2>1, <2>6, <3>1, <3>2, <3>3, StepsFrame
  <2>7. QED
    BY <1>4, <1>11, <2>4, <2>5, <2>6 DEF Exact
<1>12. CASE CreateSetNum(c)
  <2>1. /\ UNCHANGED <<maps, local>> /\ pc[c] = "setnum"
        /\ pc'[c] = "getlen" /\ name'[c] = name[c]
        /\ config' = [config EXCEPT !.num = local[c].num + 1]
    BY <1>1, <1>12 DEF CreateSetNum
  <2>2. config'.rows = config.rows /\ config'.len = config.len /\ config'.num = local[c].num + 1
    BY <1>3, <2>1 DEF ConfigType
  <2>3. Reads(c, n)'
    BY <1>4, <2>1, <2>2 DEF Reads
  <2>4. QED
    BY <1>11, <2>1, <2>2, <2>3 DEF Changing
<1>13. CASE CreateRow(c)
  <2>1. UNCHANGED <<maps, local>> /\ pc[c] = "row"
    BY <1>13 DEF CreateRow
  <2>2. local[c].len = n /\ n <= Len(config.rows)
    BY <1>4, <2>1, RowTypes DEF Reads
  <2>3. /\ pc'[c] = "setlen" /\ name'[c] = name[c]
        /\ config'.num = config.num /\ config'.len = config.len
        /\ \A j \in 1..n : config'.rows[j] = config.rows[j]
        /\ config'.rows[n + 1] = [name |-> name[c], valid |-> TRUE]
    BY <1>0, <1>13, <2>2, RowIs
  <2>4. config'.rows[n + 1].valid = TRUE
    BY <2>3
  <2>5. Reads(c, n)'
    BY <1>4, <2>1, <2>3, <2>4 DEF Reads
  <2>6. QED
    BY <1>11, <2>1, <2>3, <2>5 DEF Changing
<1>14. QED
  BY <1>6, <1>7, <1>8, <1>9, <1>10, <1>12, <1>13

\* moveToTrash and recoverFile take a document over to the other map.
LEMMA MoveExact ==
  ASSUME Base, Base', NEW n \in Nat, Rows(n), Exact(n), NEW c \in Conns, Others(c),
         UNCHANGED <<up, config>>, up, name[c] \in Listed,
         pc[c] \notin Counted \cup Filled \cup Marking \cup Clearing,
         pc'[c] = "bitlen", name'[c] = name[c],
         In(name[c], n), Idle(name[c]), Says(name[c], local[c].bit)',
         \A f \in Listed : f # name[c] => fileMap'[f] = fileMap[f] /\ trashMap'[f] = trashMap[f]
  PROVE  Exact(n)'
<1>1. \A f, l : In(f, l)' <=> In(f, l)
  BY DEF In
<1> USE DEF Appending, Marking, Rewriting, Clearing, Filled, Counted
<1>2. \A f : f = name[c] => ~Idle(f)'
  BY DEF Idle
<1>3. Follows(n)'
  <2>1. \A j \in 1..n : config.rows[j].name = name[c] => ~Idle(config.rows[j].name)'
    BY <1>2
  <2>2. Follows(n)
    BY DEF Exact
  <2>3. QED
    BY <2>1, <2>2, RowTypes, FollowsFrame
<1>4. Steps(c, n)'
  BY <1>1 DEF Steps, Reads, Clears, Marks
<1>5. ASSUME NEW d \in Conns, d # c
      PROVE  Steps(d, n)'
  <2>1. Steps(d, n)
    BY DEF Exact
  <2>2. pc[d] \in Clearing => \A f : f = name[d] => In(f, n)'
    BY <1>1, <2>1 DEF Steps, Clears
  <2>3. pc[d] \in Clearing \cup Marking => name[d] # name[c] /\ name[d] \in Listed
    BY DEF Idle, Base, TypeOK
  <2>4. QED
    BY <1>5, <2>1, <2>2, <2>3, StepsFrame
<1>6. (\A d \in Conns : pc'[d] \notin Counted) => config'.num = n
  BY DEF Exact, Others
<1>7. QED
  BY <1>3, <1>4, <1>5, <1>6 DEF Exact

\* of moveToTrash, recoverFile and changeValidBit,
LEMMA MarkExact ==
  ASSUME Base, Base', NEW n \in Nat, Rows(n), Rows(n)', Exact(n), Pure',
         "inside" \notin misplaced', NEW c \in Conns,
         \/ TrashCheck(c) \/ Trash(c) \/ Recover(c)
         \/ BitLen(c) \/ BitFind(c) \/ BitSet(c)
  PROVE  Exact(n)'
<1>0. TypeOK /\ Down /\ Apart' /\ Apart
  BY DEF Base, Beside
<1>1. /\ Others(c) /\ up' = up /\ pc[c] # "idle" /\ clash \subseteq clash'
      /\ \A s : Goto(c, s) /\ s \in Places => pc'[c] = s /\ name'[c] = name[c]
      /\ Done(c) => pc'[c] = "idle" /\ local' = [local EXCEPT ![c] = NoLocal]
  <2>1. Handler(c)
    BY DEF Handler
  <2>2. QED
    BY <1>0, <2>1, HandlerIs, GotoIs, DoneIs
<1>2. /\ up /\ "bits" \notin clash' /\ "bits" \notin clash
  BY <1>0, <1>1 DEF Down, Pure
<1>3. /\ local[c] \in Locals /\ local \in [Conns -> Locals]
      /\ local[c].pos \in Nat /\ local[c].bit \in BOOLEAN
      /\ config.num \in Nat /\ config \in ConfigType
      /\ fileMap \in [Listed -> {Absent, 0, DefaultSize}]
      /\ trashMap \in [Listed -> {Absent, 0, DefaultSize}] /\ name \in [Conns -> Listed]
  BY <1>0 DEF TypeOK, ConfigType, Locals
<1>4. /\ Reads(c, n) /\ Marks(c, n) /\ config.len = n /\ Follows(n)
  BY <1>2 DEF Exact, Steps
<1>5. /\ config.rows \in Seq(Row) /\ Len(config.rows) \in Nat /\ n <= Len(config.rows)
  BY RowTypes
<1> USE DEF Places, AllRequests, Appending, Marking, Rewriting, Clearing, Filled, Counted
<1>6. CASE TrashCheck(c)
  <2>1. /\ UNCHANGED <<config, maps>> /\ pc[c] = "mtt"
        /\ pc'[c] = "idle" \/ (pc'[c] = "trash" /\ name'[c] = name[c])
        /\ local'[c].bit = FALSE
    BY <1>1, <1>3, <1>4, <1>6 DEF TrashCheck, server, NoLocal, Reads
  <2>2. Reads(c, n)' /\ Marks(c, n)'
    BY <2>1 DEF Reads, Marks
  <2>3. QED
    BY <1>1, <2>1, <2>2, ExactStay
<1>7. CASE Trash(c)
  <2>1. /\ UNCHANGED <<config, local>> /\ pc[c] = "trash"
        /\ pc'[c] = "bitlen" /\ name'[c] = name[c]
        /\ trashMap' = [trashMap EXCEPT ![name[c]] = Get(fileMap, name[c])]
        /\ fileMap' = [fileMap EXCEPT ![name[c]] = Absent]
        /\ fileMap[name[c]] # Absent
    BY <1>1, <1>7 DEF Trash, Put, Pure
  <2>2. \A d \in Conns : pc[d] \in Marking \cup Filled => name[d] # name[c]
    BY <1>0, <1>1, <1>2, <2>1 DEF Apart, Others
  <2>3. In(name[c], n)
    BY <1>3, <1>4, <2>1, <2>2 DEF Follows, Written
  <2>4. Idle(name[c]) /\ (Says(name[c], TRUE) \/ Says(name[c], FALSE))
    BY <1>2, <1>3, <2>1, <2>2, <2>3, SaysIs DEF Present
  <2>5. fileMap[name[c]] = DefaultSize
    BY <2>1, <2>4 DEF Says
  <2>6. Get(fileMap, name[c]) = DefaultSize
    BY <2>5 DEF Get, DefaultSize, Absent
  <2>7. /\ trashMap'[name[c]] = DefaultSize /\ fileMap'[name[c]] = Absent
        /\ \A f \in Listed : f # name[c] => fileMap'[f] = fileMap[f] /\ trashMap'[f] = trashMap[f]
    BY <1>3, <2>1, <2>6
  <2>8. local[c].bit = FALSE
    BY <1>4, <2>1 DEF Reads
  <2>9. Says(name[c], local[c].bit)'
    BY <2>1, <2>7, <2>8 DEF Says
  <2>10. QED
    BY <1>1, <1>2, <1>3, <2>1, <2>3, <2>4, <2>7, <2>9, MoveExact
<1>8. CASE Recover(c)
  <2>1. /\ UNCHANGED config /\ pc[c] = "recover"
        /\ pc'[c] = "bitlen" /\ name'[c] = name[c]
        /\ fileMap' = [fileMap EXCEPT ![name[c]] = Get(trashMap, name[c])]
        /\ trashMap' = [trashMap EXCEPT ![name[c]] = Absent]
        /\ trashMap[name[c]] # Absent
        /\ local' = [local EXCEPT ![c] = [local[c] EXCEPT !.bit = TRUE]]
    BY <1>1, <1>8 DEF Recover, With, Put, Pure
  <2>2. \A d \in Conns : pc[d] \in Marking => name[d] # name[c]
    BY <1>0, <1>1, <1>2, <2>1 DEF Apart, Others
  <2>3. In(name[c], n)
    BY <1>3, <1>4, <2>1 DEF Follows
  <2>4. Idle(name[c]) /\ (Says(name[c], TRUE) \/ Says(name[c], FALSE))
    BY <1>2, <1>3, <2>1, <2>2, <2>3, SaysIs DEF Present
  <2>5. trashMap[name[c]] = DefaultSize
    BY <2>1, <2>4 DEF Says
  <2>6. Get(trashMap, name[c]) = DefaultSize
    BY <2>5 DEF Get, DefaultSize, Absent
  <2>7. /\ fileMap'[name[c]] = DefaultSize /\ trashMap'[name[c]] = Absent
        /\ \A f \in Listed : f # name[c] => fileMap'[f] = fileMap[f] /\ trashMap'[f] = trashMap[f]
    BY <1>3, <2>1, <2>6
  <2>8. local'[c].bit = TRUE
    BY <1>3, <2>1 DEF Locals
  <2>9. Says(name[c], local[c].bit)'
    BY <2>1, <2>7, <2>8 DEF Says
  <2>10. QED
    BY <1>1, <1>2, <1>3, <2>1, <2>3, <2>4, <2>7, <2>9, MoveExact
<1>9. ASSUME pc[c] \in Marking, pc'[c] \in {"find", "mark"}, name'[c] = name[c],
             UNCHANGED <<config, maps>>, local'[c].bit = local[c].bit,
             pc'[c] = "find" => local'[c].len = n,
             pc'[c] = "mark" =>
               /\ local'[c].pos \in 1..n
               /\ local'[c].own => config.rows[local'[c].pos].name = name[c]
      PROVE  Exact(n)'
  <2>1. /\ In(name[c], n)
        /\ (\A d \in Conns : pc[d] \in Clearing => name[d] # name[c])
             => Says(name[c], local[c].bit)
    BY <1>4, <1>9 DEF Marks
  <2>2. \A f, l : In(f, l)' <=> In(f, l)
    BY <1>9 DEF In
  <2>3. (\A d \in Conns : pc'[d] \in Clearing => name'[d] # name[c])
          => Says(name[c], local[c].bit)'
    <3>1. SUFFICES ASSUME \A d \in Conns : pc'[d] \in Clearing => name'[d] # name[c]
                   PROVE  Says(name[c], local[c].bit)'
      OBVIOUS
    <3>2. \A d \in Conns : pc[d] \in Clearing => name[d] # name[c]
      BY <1>1, <1>9, <3>1 DEF Others
    <3>3. QED
      BY <1>9, <2>1, <3>2 DEF Says, maps
  <2>4. pc'[c] = "find" => local'[c].len \in 0..n /\ In(name[c], local[c].len)'
    BY <1>9, <2>1, <2>2
  <2>5. Marks(c, n)'
    BY <1>9, <2>1, <2>2, <2>3, <2>4 DEF Marks
  <2>6. Reads(c, n)'
    BY <1>9 DEF Reads
  <2>7. QED
    BY <1>1, <1>9, <2>5, <2>6, ExactStay
<1>10. CASE BitLen(c)
  <2>1. /\ UNCHANGED <<config, maps>> /\ pc[c] = "bitlen"
        /\ pc'[c] = "find" /\ name'[c] = name[c]
        /\ local' = [local EXCEPT ![c] = [local[c] EXCEPT !.len = config.len]]
    BY <1>1, <1>10 DEF BitLen, With, server
  <2>2. local'[c].len = n /\ local'[c].bit = local[c].bit
    BY <1>3, <1>4, <2>1 DEF Locals
  <2>3. QED
    BY <1>9, <2>1, <2>2
<1>11. CASE BitFind(c)
  <2> DEFINE rows == Within(local[c].len)
             i == Find(rows, name[c])
             o == Own(rows, i, name[c])
  <2>1. /\ UNCHANGED <<config, maps>> /\ pc[c] = "find"
        /\ pc'[c] = "mark" /\ name'[c] = name[c]
        /\ local' = [local EXCEPT ![c] = [local[c] EXCEPT !.pos = i, !.own = o]]
    BY <1>1, <1>11 DEF BitFind, With, server
  <2>2. local[c].len \in 0..n /\ In(name[c], local[c].len)
    BY <1>4, <2>1 DEF Marks
  <2>3. local[c].len \in Nat /\ local[c].len \in Length /\ local[c].len <= Len(config.rows)
    BY <1>5, <2>2 DEF Length
  <2>4. /\ rows \in Seq(Row) /\ Len(rows) = local[c].len
        /\ \A j \in 1..Len(rows) : rows[j] = config.rows[j]
    BY <1>3, <2>3, WithinIs
  <2>5. /\ i \in 0..Len(rows)
        /\ i = 0 => \A j \in 1..Len(rows) : rows[j].name # name[c]
        /\ i # 0 /\ o => rows[i].name = name[c]
    BY <2>4, FindIs
  <2> HIDE DEF rows, i, o
  <2>6. local'[c].pos = i /\ local'[c].own = o /\ local'[c].bit = local[c].bit
    BY <1>3, <2>1 DEF Locals
  <2>7. i # 0
    BY <2>2, <2>4, <2>5 DEF In
  <2>8. i \in 1..n /\ (o => config.rows[i].name = name[c])
    BY <2>2, <2>3, <2>4, <2>5, <2>7
  <2>9. QED
    BY <1>9, <2>1, <2>6, <2>8
<1>12. CASE BitSet(c)
  <2> DEFINE p == local[c].pos
  <2>1. UNCHANGED maps /\ pc[c] = "mark" /\ pc'[c] = "idle" /\ local'[c].bit = FALSE
    BY <1>1, <1>3, <1>12 DEF BitSet, NoLocal
  <2>2. local[c].own /\ p \in 1..n /\ config.rows[p].name = name[c]
    <3>1. local[c].own
      <4>1. misplaced' = misplaced \cup Astray(local[c], name[c])
        BY <1>12 DEF BitSet
      <4>2. QED
        BY <4>1 DEF Astray
    <3>2. QED
      BY <1>4, <2>1, <3>1 DEF Marks
  <2>3. config' = [config EXCEPT !.rows[local[c].pos].valid = local[c].bit]
    BY <1>12, <2>2 DEF BitSet, Astray
  <2>4. /\ config'.num = config.num /\ config'.len = config.len
        /\ \A j \in 1..Len(config.rows) :
             /\ config'.rows[j].name = config.rows[j].name
             /\ config'.rows[j].valid = IF j = p THEN local[c].bit ELSE config.rows[j].valid
    BY <1>3, <2>3, MarkIs
  <2> HIDE DEF p
  <2>5. \A d \in Conns : d # c => /\ pc[d] \notin Rewriting
                                  /\ name[d] = name[c] => pc[d] \notin Marking \cup Filled
    BY <1>0, <1>2, <2>1 DEF Apart
  <2>6. fileMap' = fileMap /\ trashMap' = trashMap
    BY <2>1 DEF maps
  <2>7. \A j \in 1..n : j \in 1..Len(config.rows)
    BY <1>5
  <2>8. /\ \A j \in 1..n : config'.rows[j].name = config.rows[j].name
        /\ \A j \in 1..n : config.rows[j].name # name[c]
             => config'.rows[j].valid = config.rows[j].valid
        /\ config'.rows[p].valid = local[c].bit
    BY <2>2, <2>4, <2>7
  <2>9. Follows(n)'
    <3>1. ASSUME NEW j \in 1..n, config.rows[j].name = name[c], Idle(config.rows[j].name)'
          PROVE  Says(config.rows[j].name, config.rows[j].valid)'
      <4>1. j = p
        BY <2>2, <3>1, RowTypes
      <4>2. \A d \in Conns : pc'[d] \in Clearing => name'[d] # name[c]
        BY <2>8, <3>1 DEF Idle
      <4>3. \A d \in Conns : pc[d] \in Clearing => name[d] # name[c]
        BY <1>1, <2>1, <4>2 DEF Others
      <4>4. Says(name[c], local[c].bit)
        BY <1>4, <2>1, <4>3 DEF Marks
      <4>5. config'.rows[j].valid = local[c].bit /\ config'.rows[j].name = name[c]
        BY <2>8, <3>1, <4>1
      <4>6. QED
        BY <2>6, <4>4, <4>5 DEF Says
    <3>2. In(name[c], n)
      BY <1>4, <2>1 DEF Marks
    <3>3. QED
      BY <1>1, <1>4, <2>1, <2>6, <2>8, <3>1, <3>2, RowTypes, FollowsFrame
  <2>10. Steps(c, n)'
    BY <2>1 DEF Steps, Reads, Clears, Marks
  <2>11. ASSUME NEW d \in Conns, d # c
         PROVE  Steps(d, n)'
    <3>1. Steps(d, n) /\ pc'[d] = pc[d] /\ name'[d] = name[d] /\ local'[d] = local[d]
      BY <1>1, <2>11 DEF Exact, Others
    <3>2. \A f : In(f, n) => In(f, n)'
      BY <2>8 DEF In
    <3>3. CASE pc[d] \in Appending
      <4>1. pc[d] = "setlen" => config'.rows[n + 1].valid = config.rows[n + 1].valid
        <5>1. pc[d] = "setlen" => n + 1 \in 1..Len(config.rows)
          BY <1>5 DEF Rows, Knows
        <5>2. n + 1 # p
          BY <2>2
        <5>3. QED
          BY <2>4, <5>1, <5>2
      <4>2. Reads(d, n)'
        BY <2>4, <3>1, <3>3, <4>1 DEF Steps, Reads
      <4>3. QED
        BY <3>1, <3>3, <4>2 DEF Steps, Clears, Marks
    <3>4. CASE pc[d] \notin Appending
      <4>1. pc[d] \notin Changing
        BY <2>5, <2>11, <3>4 DEF Changing
      <4>2. pc[d] \in Clearing => \A f : f = name[d] => In(f, n)'
        BY <3>1, <3>2 DEF Steps, Clears
      <4>3. QED
        BY <1>1, <2>1, <2>6, <2>8, <2>11, <3>1, <4>1, <4>2, StepsFrame
    <3>5. QED
      BY <3>3, <3>4
  <2>12. (\A d \in Conns : pc'[d] \notin Counted) => config'.num = n
    BY <1>1, <2>1, <2>4 DEF Exact, Others
  <2>13. QED
    BY <1>4, <2>4, <2>9, <2>10, <2>11, <2>12 DEF Exact
<1>13. QED
  BY <1>6, <1>7, <1>8, <1>10, <1>11, <1>12

\* of clearTrash beside its write,
LEMMA ClearExact ==
  ASSUME Base, Base', NEW n \in Nat, Rows(n), Exact(n), Pure', NEW c \in Conns,
         Clear(c) \/ ClearLen(c) \/ ClearRead(c) \/ ClearDelete(c)
  PROVE  Exact(n)'
<1>0. TypeOK /\ Down /\ Sole
  BY DEF Base, Beside
<1>1. /\ Others(c) /\ up' = up /\ pc[c] # "idle" /\ clash \subseteq clash'
      /\ \A s : Goto(c, s) /\ s \in Places => pc'[c] = s /\ name'[c] = name[c]
      /\ Done(c) => pc'[c] = "idle" /\ local' = [local EXCEPT ![c] = NoLocal]
  <2>1. Handler(c)
    BY DEF Handler
  <2>2. QED
    BY <1>0, <2>1, HandlerIs, GotoIs, DoneIs
<1>2. up /\ "rows" \notin clash
  BY <1>0, <1>1 DEF Down, Pure
<1>3. /\ local[c] \in Locals /\ local \in [Conns -> Locals]
      /\ config.num \in Nat /\ config \in ConfigType
      /\ trashMap \in [Listed -> {Absent, 0, DefaultSize}] /\ name \in [Conns -> Listed]
  BY <1>0 DEF TypeOK, ConfigType, Locals
<1>4. /\ Steps(c, n) /\ config.len = n /\ Follows(n)
      /\ (\A d \in Conns : pc[d] \notin Counted) => config.num = n
  BY <1>2 DEF Exact
<1> USE DEF Places, AllRequests, Appending, Marking, Rewriting, Clearing, Filled, Counted
<1>5. CASE Clear(c)
  <2>1. UNCHANGED <<config, fileMap>> /\ pc[c] = "ct"
    BY <1>5 DEF Clear
  <2>2. CASE Done(c) /\ UNCHANGED trashMap
    <3>1. pc'[c] = "idle" /\ local'[c].bit = FALSE
      BY <1>1, <1>3, <2>2 DEF NoLocal
    <3>2. Reads(c, n)' /\ Marks(c, n)'
      BY <3>1 DEF Reads, Marks
    <3>3. QED
      BY <1>1, <2>1, <2>2, <3>1, <3>2, ExactStay DEF maps
  <2>3. CASE /\ trashMap[name[c]] # Absent /\ Goto(c, "ctlen") /\ UNCHANGED local
             /\ trashMap' = Put(trashMap, name[c], Absent)
    <3>1. pc'[c] = "ctlen" /\ name'[c] = name[c]
      BY <1>1, <2>3
    <3>2. /\ trashMap'[name[c]] = Absent
          /\ \A f \in Listed : f # name[c] => trashMap'[f] = trashMap[f]
      BY <1>3, <2>3 DEF Put
    <3>3. In(name[c], n)
      BY <1>3, <1>4, <2>3 DEF Follows
    <3>4. \A d \in Conns : pc[d] \in Clearing => name[d] # name[c]
      BY <2>3 DEF Exact, Steps, Clears
    <3>5. fileMap[name[c]] = Absent
      <4>1. CASE \E d \in Conns : pc[d] \in Marking /\ name[d] = name[c]
        <5>1. PICK d \in Conns : pc[d] \in Marking /\ name[d] = name[c]
          BY <4>1
        <5>2. Marks(d, n)
          BY DEF Exact, Steps
        <5>3. Says(name[d], local[d].bit)
          BY <3>4, <5>1, <5>2 DEF Marks
        <5>4. QED
          BY <2>3, <5>1, <5>3 DEF Says
      <4>2. CASE \A d \in Conns : pc[d] \in Marking => name[d] # name[c]
        <5>1. Says(name[c], TRUE) \/ Says(name[c], FALSE)
          BY <1>2, <1>3, <2>3, <3>3, <4>2, SaysIs DEF Present
        <5>2. QED
          BY <2>3, <5>1 DEF Says
      <4>3. QED
        BY <4>1, <4>2
    <3>6. \A f : In(f, n)' <=> In(f, n)
      BY <2>1 DEF In
    <3>7. Follows(n)'
      <4>1. \A f : f = name[c] => ~Idle(f)'
        BY <3>1 DEF Idle
      <4>2. \A j \in 1..n : config.rows[j].name = name[c] => ~Idle(config.rows[j].name)'
        BY <2>1, <4>1
      <4>3. QED
        BY <1>1, <1>4, <2>1, <3>1, <3>2, <3>3, <4>2, RowTypes, FollowsFrame
    <3>8. Steps(c, n)'
      <4>1. Reads(c, n)' /\ Marks(c, n)'
        BY <1>4, <2>1, <2>3, <3>1 DEF Steps, Reads, Marks
      <4>2. \A d \in Conns : pc'[d] \in Clearing /\ name'[d] = name'[c] => d = c
        BY <1>1, <3>1, <3>4 DEF Others
      <4>3. Clears(c, n)'
        BY <2>1, <3>1, <3>2, <3>3, <3>5, <3>6, <4>2 DEF Clears
      <4>4. QED
        BY <4>1, <4>3 DEF Steps
    <3>9. ASSUME NEW d \in Conns, d # c
          PROVE  Steps(d, n)'
      <4>1. Steps(d, n) /\ name[d] \in Listed
        BY <1>3 DEF Exact
      <4>2. pc[d] \in Clearing => \A f : f = name[d] => In(f, n)'
        BY <3>6, <4>1 DEF Steps, Clears
      <4>3. pc[d] \in Clearing => name[d] # name[c]
        BY <3>4
      <4>4. pc[d] \in Clearing \cup Marking =>
              \/ fileMap'[name[d]] = fileMap[name[d]] /\ trashMap'[name[d]] = trashMap[name[d]]
              \/ pc[d] \in Marking /\ pc'[c] \in Clearing /\ name'[c] = name[d]
        BY <2>1, <3>1, <3>2, <4>1, <4>3
      <4>5. pc[c] \notin Clearing
        BY <2>1
      <4>6. QED
        BY <1>1, <2>1, <3>1, <3>9, <4>1, <4>2, <4>3, <4>4, <4>5, StepsFrame
    <3>10. (\A d \in Conns : pc'[d] \notin Counted) => config'.num = n
      BY <1>1, <1>4, <2>1 DEF Others
    <3>11. QED
      BY <1>4, <2>1, <3>7, <3>8, <3>9, <3>10 DEF Exact
  <2>4. QED
    BY <1>5, <2>2, <2>3 DEF Clear
<1>6. CASE ClearLen(c)
  <2>1. /\ UNCHANGED <<config, maps>> /\ pc[c] = "ctlen"
        /\ pc'[c] = "whole" /\ name'[c] = name[c]
        /\ local' = [local EXCEPT ![c] = [local[c] EXCEPT !.len = config.len]]
    BY <1>1, <1>6 DEF ClearLen, With, server
  <2>2. local'[c].len = n /\ local'[c].bit = local[c].bit
    BY <1>3, <1>4, <2>1 DEF Locals
  <2>3. Reads(c, n)' /\ Marks(c, n)'
    BY <1>4, <2>1, <2>2 DEF Steps, Reads, Marks
  <2>4. QED
    BY <1>1, <2>1, <2>3, ExactStay
<1>7. CASE ClearRead(c)
  <2>1. UNCHANGED <<config, maps>> /\ pc[c] = "whole"
    BY <1>7 DEF ClearRead, server
  <2>2. local[c].len = n /\ In(name[c], n) /\ n <= Len(config.rows) /\ local[c].bit = FALSE
    BY <1>4, <2>1, RowTypes DEF Steps, Reads, Clears
  <2>3. config.num = n
    BY <1>0, <1>2, <1>4, <2>1 DEF Sole, Changing
  <2>4. n > 0
    BY <2>2 DEF In
  <2>5. /\ pc'[c] = "rewrite" /\ name' = name
        /\ local'[c].bit = local[c].bit
        /\ local'[c].snap.num = IF config.num = 0 THEN 0 ELSE config.num - 1
        /\ local'[c].snap.len = n - 1
        /\ local'[c].own =>
             \E k \in 1..n : /\ config.rows[k].name = name[c]
                             /\ \A j \in 1..(n - 1) :
                                  local'[c].snap.rows[j] = config.rows[Shift(j, k)]
    BY <1>0, <1>4, <1>7, <2>2, ReadIs
  <2>6. local'[c].bit = FALSE
    BY <2>2, <2>5
  <2>7. local'[c].own => CutOff(local[c].snap, name[c], n)'
    BY <2>1, <2>3, <2>4, <2>5 DEF CutOff
  <2>8. Reads(c, n)' /\ Marks(c, n)'
    BY <2>4, <2>5, <2>6, <2>7 DEF Reads, Marks
  <2>9. QED
    BY <1>1, <2>1, <2>5, <2>8, ExactStay
<1>8. CASE ClearDelete(c)
  <2>1. /\ UNCHANGED <<config, maps>> /\ pc[c] = "unlink" /\ pc'[c] = "idle"
        /\ local'[c].bit = FALSE
    BY <1>1, <1>3, <1>8 DEF ClearDelete, NoLocal
  <2>2. Reads(c, n)' /\ Marks(c, n)'
    BY <2>1 DEF Reads, Marks
  <2>3. QED
    BY <1>1, <2>1, <2>2, ExactStay
<1>9. QED
  BY <1>5, <1>6, <1>7, <1>8

\* the two steps that change the number of rows,
LEMMA SetLenExact ==
  ASSUME Base, Base', NEW n \in Nat, Rows(n), Exact(n), Pure', NEW c \in Conns, CreateSetLen(c)
  PROVE  Exact(n + 1)'
<1>0. TypeOK /\ Down /\ Sole
  BY DEF Base, Beside
<1>1. /\ Others(c) /\ up' = up /\ clash \subseteq clash'
      /\ UNCHANGED maps /\ pc[c] = "setlen" /\ pc'[c] = "idle"
      /\ local' = [local EXCEPT ![c] = NoLocal]
      /\ config' = [config EXCEPT !.len = local[c].len + 1]
  <2>1. Handler(c)
    BY DEF Handler
  <2>2. QED
    BY <1>0, <2>1, HandlerIs, DoneIs DEF CreateSetLen
<1>2. /\ up /\ "rows" \notin clash /\ name \in [Conns -> Listed]
      /\ fileMap' = fileMap /\ trashMap' = trashMap
  BY <1>0, <1>1 DEF Down, Pure, maps, TypeOK
<1>3. config'.rows = config.rows /\ config'.num = config.num /\ config'.len = local[c].len + 1
  BY <1>0, <1>1 DEF TypeOK, ConfigType
<1>4. local[c].len = n /\ config.rows[n + 1].name = name[c] /\ ~In(name[c], n)
  BY <1>1 DEF Rows, Knows, Between, Busy, Creating, Filled, Appending
<1>5. config.rows[n + 1].valid = TRUE /\ config.num = n + 1 /\ Follows(n)
  BY <1>1, <1>2 DEF Exact, Steps, Reads, Counted
<1>6. 1..(n + 1) = 1..n \cup {n + 1}
  OBVIOUS
<1>7. \A f : In(f, n + 1)' <=> (In(f, n) \/ f = name[c])
  BY <1>3, <1>4, <1>6 DEF In
<1> USE DEF Appending, Marking, Rewriting, Clearing, Filled, Counted
<1>8. \A f : Idle(f)' => Idle(f)
  BY <1>1 DEF Idle, Others
<1>9. Follows(n + 1)'
  <2>1. ASSUME NEW i \in 1..(n + 1), Idle(config.rows[i].name)'
        PROVE  Says(config.rows[i].name, config.rows[i].valid)'
    <3>1. CASE i \in 1..n
      <4>1. Idle(config.rows[i].name)
        BY <1>3, <1>8, <2>1
      <4>2. Says(config.rows[i].name, config.rows[i].valid)
        BY <1>5, <3>1, <4>1 DEF Follows
      <4>3. QED
        BY <1>2, <1>3, <4>2 DEF Says
    <3>2. CASE i = n + 1
      <4>1. Written(name[c])
        BY <1>1 DEF Written
      <4>2. trashMap[name[c]] = Absent /\ fileMap[name[c]] = DefaultSize
        BY <1>2, <1>4, <1>5, <4>1 DEF Follows
      <4>3. QED
        BY <1>2, <1>3, <1>4, <1>5, <3>2, <4>2 DEF Says
    <3>3. QED
      BY <1>6, <2>1, <3>1, <3>2
  <2>2. ASSUME NEW f \in Listed, ~In(f, n + 1)'
        PROVE  /\ trashMap'[f] = Absent
               /\ fileMap'[f] = IF Written(f)' THEN DefaultSize ELSE Absent
    <3>1. ~In(f, n) /\ f # name[c]
      BY <1>7, <2>2
    <3>2. Written(f)' <=> Written(f)
      BY <1>1, <3>1 DEF Written, Others
    <3>3. QED
      BY <1>2, <1>5, <3>1, <3>2 DEF Follows
  <2>3. QED
    BY <2>1, <2>2 DEF Follows
<1>10. Steps(c, n + 1)'
  <2>1. local'[c].bit = FALSE
    BY <1>0, <1>1 DEF TypeOK, NoLocal
  <2>2. QED
    BY <1>1, <2>1 DEF Steps, Reads, Clears, Marks
<1>11. ASSUME NEW d \in Conns, d # c
       PROVE  Steps(d, n + 1)'
  <2> DEFINE m == n + 1
  <2>1. m \in Nat /\ n <= m
    OBVIOUS
  <2>2. Steps(d, n) /\ pc[d] \notin Changing
    BY <1>0, <1>1, <1>2, <1>11 DEF Exact, Sole, Changing
  <2>3. pc[d] \in Clearing => \A f : f = name[d] => In(f, m)'
    BY <1>7, <2>2 DEF Steps, Clears
  <2> HIDE DEF m
  <2>4. Steps(d, m)'
    BY <1>1, <1>2, <1>3, <1>11, <2>1, <2>2, <2>3, StepsFrame
  <2>5. QED
    BY <2>4 DEF m
<1>12. config'.len = n + 1 /\ config'.num = n + 1
  BY <1>3, <1>4, <1>5
<1>13. QED
  BY <1>9, <1>10, <1>11, <1>12 DEF Exact

LEMMA ClearWriteExact ==
  ASSUME Base, Base', NEW n \in Nat, Rows(n), Exact(n), Pure', NEW c \in Conns, ClearWrite(c),
         local[c].own, NEW m \in Nat, m = n - 1, config'.len = m, config'.num = local[c].snap.num,
         \A j \in 1..m : config'.rows[j] = local[c].snap.rows[j],
         \A f : In(f, m)' <=> (In(f, n) /\ f # name[c])
  PROVE  Exact(m)'
<1>0. TypeOK /\ Down /\ Sole /\ Apart
  BY DEF Base, Beside
<1>1. /\ Others(c) /\ up' = up /\ clash \subseteq clash'
      /\ UNCHANGED <<maps, local>> /\ pc[c] = "rewrite"
      /\ pc'[c] = "unlink" /\ name'[c] = name[c]
  <2>1. Handler(c)
    BY DEF Handler
  <2>2. QED
    BY <1>0, <2>1, HandlerIs, GotoIs DEF ClearWrite, Places
<1> USE DEF Appending, Marking, Rewriting, Clearing, Filled, Counted
<1>2. /\ up /\ clash \subseteq {"open"} /\ name \in [Conns -> Listed]
      /\ fileMap' = fileMap /\ trashMap' = trashMap
  BY <1>0, <1>1 DEF Down, Pure, maps, TypeOK
<1>3. /\ CutOff(local[c].snap, name[c], n) /\ Follows(n) /\ local[c].bit = FALSE
      /\ In(name[c], n) /\ fileMap[name[c]] = Absent /\ trashMap[name[c]] = Absent
      /\ \A d \in Conns : pc[d] \in Clearing /\ name[d] = name[c] => d = c
  BY <1>1, <1>2 DEF Exact, Steps, Reads, Clears
<1>4. PICK k \in 1..n : /\ config.rows[k].name = name[c]
                        /\ \A j \in 1..m : local[c].snap.rows[j] = config.rows[Shift(j, k)]
  BY <1>3 DEF CutOff
<1>5. \A j \in 1..m : config'.rows[j] = config.rows[Shift(j, k)] /\ Shift(j, k) \in 1..n
                      /\ Shift(j, k) # k
  BY <1>4 DEF Shift
<1>6. ASSUME NEW d \in Conns, d # c
      PROVE  pc[d] \notin Changing /\ pc[d] \notin Marking
  BY <1>0, <1>1, <1>2, <1>6 DEF Sole, Apart, Changing
<1>7. Follows(m)'
  <2>1. ASSUME NEW j \in 1..m, Idle(config.rows[j].name)'
        PROVE  Says(config.rows[j].name, config.rows[j].valid)'
    <3> DEFINE i == Shift(j, k)
    <3>1. i \in 1..n /\ i # k /\ config'.rows[j] = config.rows[i]
      BY <1>5
    <3> HIDE DEF i
    <3>2. config.rows[i].name # name[c]
      BY <1>4, <3>1, RowTypes
    <3>3. Idle(config.rows[i].name)
      <4>1. \A d \in Conns : pc'[d] \in Marking \cup Clearing => name'[d] # config.rows[i].name
        BY <2>1, <3>1 DEF Idle
      <4>2. QED
        BY <1>1, <3>2, <4>1 DEF Idle, Others
    <3>4. Says(config.rows[i].name, config.rows[i].valid)
      BY <1>3, <3>1, <3>3 DEF Follows
    <3>5. QED
      BY <1>2, <3>1, <3>4 DEF Says
  <2>2. ASSUME NEW f \in Listed, ~In(f, m)'
        PROVE  /\ trashMap'[f] = Absent
               /\ fileMap'[f] = IF Written(f)' THEN DefaultSize ELSE Absent
    <3>1. Written(f)' <=> Written(f)
      BY <1>1 DEF Written, Others
    <3>2. CASE f = name[c]
      <4>1. ~Written(f)
        BY <1>3, <3>2 DEF Written, Rows, Between, Busy, Creating
      <4>2. QED
        BY <1>2, <1>3, <3>1, <3>2, <4>1
    <3>3. CASE ~In(f, n)
      BY <1>2, <1>3, <3>1, <3>3 DEF Follows
    <3>4. QED
      BY <2>2, <3>2, <3>3
  <2>3. QED
    BY <2>1, <2>2 DEF Follows
<1>8. Steps(c, m)'
  BY <1>1, <1>3 DEF Steps, Reads, Clears, Marks
<1>9. ASSUME NEW d \in Conns, d # c
      PROVE  Steps(d, m)'
  <2>1. Steps(d, n) /\ pc[d] \notin Changing /\ pc[d] \notin Marking
    BY <1>6, <1>9 DEF Exact
  <2>2. pc[d] \in Clearing => \A f : f = name[d] => In(f, m)'
    BY <1>3, <1>9, <2>1 DEF Steps, Clears
  <2>3. pc'[c] \notin Clearing
    BY <1>1
  <2>4. QED
    BY <1>1, <1>2, <1>9, <2>1, <2>2, <2>3, StepsFrame
<1>10. config'.num = m
  BY <1>3 DEF CutOff
<1>11. QED
  BY <1>7, <1>8, <1>9, <1>10 DEF Exact

\* What main() finds when the count is that of the rows.
LEMMA FoundExact ==
  ASSUME Base, NEW n \in Nat, Rows(n), config.num = n, NEW v, NEW f
  PROVE  f \in Found(v) <=> \E i \in 1..n : config.rows[i].name = f /\ config.rows[i].valid = v
<1>1. DOMAIN config.rows = 1..Len(config.rows) /\ n <= Len(config.rows) /\ Len(config.rows) \in Nat
  BY RowTypes
<1>2. \A i \in 1..n : RowAt(i) = config.rows[i]
  BY <1>1 DEF RowAt
<1>3. QED
  BY <1>2 DEF Found

\* The maps main() builds follow the rows.
LEMMA BuiltFollows ==
  ASSUME Base, NEW n \in Nat, Rows(n), config.num = n
  PROVE  /\ \A i \in 1..n : \A v \in BOOLEAN :
              Built(v)[config.rows[i].name]
                = IF v = config.rows[i].valid THEN DefaultSize ELSE Absent
         /\ \A f \in Listed : ~In(f, n) => \A v : Built(v)[f] = Absent
<1>1. ASSUME NEW i \in 1..n, NEW v \in BOOLEAN
      PROVE  Built(v)[config.rows[i].name]
               = IF v = config.rows[i].valid THEN DefaultSize ELSE Absent
  <2> DEFINE g == config.rows[i].name
  <2>1. g \in Listed /\ \A j \in 1..n : config.rows[j].name = g => j = i
    BY RowTypes
  <2>2. g \in Found(v) <=> \E j \in 1..n : config.rows[j].name = g /\ config.rows[j].valid = v
    <3> HIDE DEF g
    <3>1. QED
      BY FoundExact
  <2>3. g \in Found(v) <=> config.rows[i].valid = v
    BY <2>1, <2>2
  <2> HIDE DEF g
  <2>4. Built(v)[g] = IF g \in Found(v) THEN DefaultSize ELSE Absent
    BY <2>1, BuiltIs
  <2>5. QED
    BY <2>3, <2>4 DEF g
<1>2. ASSUME NEW f \in Listed, ~In(f, n), NEW v
      PROVE  Built(v)[f] = Absent
  <2>1. f \notin Found(v)
    BY <1>2, FoundExact DEF In
  <2>2. QED
    BY <2>1, BuiltIs
<1>3. QED
  BY <1>1, <1>2

\* and all others.
LEMMA OtherExact ==
  ASSUME Base, Base', NEW n \in Nat, Rows(n), Exact(n), Pure', ~torn',
         \/ \E c \in Conns, r \in Requests, f \in Listed : Request(c, r, f)
         \/ \E c \in Conns : Open(c) \/ Lookup(c) \/ Close(c) \/ Leave(c)
         \/ Crash
         \/ Restart
         \/ UNCHANGED vars
  PROVE  Exact(n)'
<1>0. TypeOK /\ Down /\ local \in [Conns -> Locals]
  BY DEF Base, Beside, TypeOK, Locals
<1> USE DEF Places, AllRequests, Appending, Marking, Rewriting, Clearing, Filled, Counted
<1>1. ASSUME NEW c \in Conns, Others(c), UNCHANGED <<up, config, maps>>,
             pc[c] \notin Filled \cup Marking \cup Clearing,
             pc'[c] \notin Filled \cup Marking \cup Clearing \cup {"stuck"},
             local'[c].bit = local[c].bit \/ local'[c].bit = FALSE
      PROVE  Exact(n)'
  <2>1. Reads(c, n)
    BY DEF Exact, Steps
  <2>2. Reads(c, n)' /\ Marks(c, n)'
    BY <1>1, <2>1 DEF Reads, Marks
  <2>3. QED
    BY <1>1, <2>2, ExactStay
<1>2. ASSUME NEW c \in Conns, NEW r \in Requests, NEW f \in Listed, Request(c, r, f)
      PROVE  Exact(n)'
  <2>1. Others(c) /\ pc'[c] \in AllRequests /\ pc[c] = "idle"
        /\ UNCHANGED <<up, config, maps, local>>
    BY <1>0, <1>2, RequestIs DEF server, Request
  <2>2. QED
    BY <1>1, <2>1
<1>3. ASSUME NEW c \in Conns, Open(c) \/ Lookup(c)
      PROVE  Exact(n)'
  <2>1. Handler(c)
    BY <1>3 DEF Handler
  <2>2. Others(c) /\ up' = up
    BY <1>0, <2>1, HandlerIs
  <2>3. /\ pc[c] \in {"open", "lookup"} /\ pc'[c] \in {"lookup", "idle"}
        /\ UNCHANGED <<config, maps>>
        /\ local' = local \/ local' = [local EXCEPT ![c] = NoLocal]
    BY <1>0, <1>3, GotoIs, DoneIs DEF Open, Lookup, server
  <2>4. local'[c].bit = local[c].bit \/ local'[c].bit = FALSE
    BY <1>0, <2>3 DEF NoLocal
  <2>5. QED
    BY <1>1, <2>2, <2>3, <2>4
<1>4. ASSUME NEW c \in Conns, Close(c) \/ Leave(c)
      PROVE  Exact(n)'
  <2>1. Others(c) /\ pc[c] = "idle" /\ UNCHANGED <<pc, local, up, config, maps>>
    BY <1>4 DEF Close, Leave, Others
  <2>2. QED
    BY <1>1, <2>1
<1>5. CASE Crash
  <2>1. /\ up' = FALSE /\ UNCHANGED config
        /\ pc' = [c \in Conns |-> "idle"] /\ local' = [c \in Conns |-> NoLocal]
        /\ \A c \in Conns : pc[c] \notin Counted
    BY <1>5 DEF Crash
  <2>2. config'.len = n /\ config'.num = n
    BY <2>1 DEF Exact
  <2>3. \A c \in Conns : pc'[c] = "idle" /\ local'[c].bit = FALSE
    BY <2>1 DEF NoLocal
  <2>4. \A c \in Conns : Steps(c, n)'
    BY <2>3 DEF Steps, Reads, Clears, Marks
  <2>5. QED
    BY <2>1, <2>2, <2>4 DEF Exact
<1>6. CASE Restart
  <2>1. /\ ~up /\ UNCHANGED <<config, pc, local>>
        /\ fileMap' = Built(TRUE) /\ trashMap' = Built(FALSE)
    BY <1>6 DEF Restart
  <2>2. \A c \in Conns : pc[c] = "idle"
    BY <1>0, <2>1 DEF Down
  <2>3. config.len = n /\ config.num = n /\ \A c \in Conns : Reads(c, n)
    BY <2>2 DEF Exact, Steps
  <2>4. \A c \in Conns : Steps(c, n)'
    BY <2>1, <2>2, <2>3 DEF Steps, Reads, Clears, Marks
  <2>5. ASSUME NEW i \in 1..n
        PROVE  Says(config.rows[i].name, config.rows[i].valid)'
    <3>1. config.rows[i].valid \in BOOLEAN
      BY RowTypes
    <3>2. \A v \in BOOLEAN : Built(v)[config.rows[i].name]
                               = IF v = config.rows[i].valid THEN DefaultSize ELSE Absent
      BY <2>3, BuiltFollows
    <3>3. CASE config.rows[i].valid = TRUE
      BY <2>1, <3>2, <3>3 DEF Says
    <3>4. CASE config.rows[i].valid = FALSE
      BY <2>1, <3>2, <3>4 DEF Says
    <3>5. QED
      BY <3>1, <3>3, <3>4
  <2>6. ASSUME NEW f \in Listed, ~In(f, n)'
        PROVE  /\ trashMap'[f] = Absent
               /\ fileMap'[f] = IF Written(f)' THEN DefaultSize ELSE Absent
    <3>1. ~In(f, n) /\ ~Written(f)'
      BY <2>1, <2>2, <2>6 DEF In, Written
    <3>2. QED
      BY <2>1, <2>3, <3>1, BuiltFollows
  <2>7. QED
    BY <2>1, <2>3, <2>4, <2>5, <2>6 DEF Exact, Follows
<1>7. CASE UNCHANGED vars
  <2>1. UNCHANGED <<config, fileMap, trashMap, pc, name, local, up>>
    BY <1>7 DEF vars, server, maps
  <2>2. QED
    BY <2>1 DEF Exact, Steps, Reads, Clears, Marks, CutOff, In, Says, Follows, Idle, Written
<1>8. QED
  BY <1>2, <1>3, <1>4, <1>5, <1>6, <1>7

\* main() died before it wrote the header: no row is ever written, and no create
\* ends.
Headless ==
  /\ torn /\ created = {}
  /\ config.len = Under /\ config.rows = <<>>
  /\ \A c \in Conns : /\ pc[c] \notin {"setlen", "rewrite", "unlink", "stuck"}
                      /\ pc[c] \in {"row", "whole"} => local[c].len = Under
  /\ \A f \in stored \ orphans : \E c \in Conns : pc[c] \in Creating /\ name[c] = f

LEMMA HeadlessStays ==
  ASSUME Base, Headless, [Next]_vars
  PROVE  Headless'
<1>0. TypeOK
  BY DEF Base
<1>1. config \in ConfigType /\ local \in [Conns -> Locals] /\ name \in [Conns -> Listed]
  BY <1>0 DEF TypeOK, Locals
<1> USE DEF Places, AllRequests, Appending, Rewriting, Marking, Filled, Creating
<1>2. ASSUME NEW c \in Conns, Others(c), torn' = torn, created' = created, orphans' = orphans,
             config'.len = Under, config'.rows = <<>>,
             pc'[c] \notin {"setlen", "rewrite", "unlink", "stuck"},
             pc'[c] \in {"row", "whole"} => local'[c].len = Under,
             \A f \in stored' : f \in stored \/ (f = name'[c] /\ pc'[c] \in Creating),
             pc[c] \in Creating => pc'[c] \in Creating /\ name'[c] = name[c]
      PROVE  Headless'
  <2>1. \A f \in stored' \ orphans' : \E d \in Conns : pc'[d] \in Creating /\ name'[d] = f
    <3> TAKE f \in stored' \ orphans'
    <3>1. CASE f \in stored
      <4>1. PICK d \in Conns : pc[d] \in Creating /\ name[d] = f
        BY <1>2, <3>1 DEF Headless
      <4>2. pc'[d] \in Creating /\ name'[d] = f
        BY <1>2, <4>1 DEF Others
      <4>3. QED
        BY <4>2
    <3>2. CASE f = name'[c] /\ pc'[c] \in Creating
      BY <3>2
    <3>3. QED
      BY <1>2, <3>1, <3>2
  <2>2. QED
    BY <1>2, <2>1 DEF Headless, Others
<1>3. ASSUME NEW c \in Conns, Handler(c)
      PROVE  Headless'
  <2>1. /\ Others(c) /\ torn' = torn /\ orphans' = orphans
        /\ \A s : Goto(c, s) /\ s \in Places => pc'[c] = s /\ name'[c] = name[c]
        /\ Done(c) => pc'[c] = "idle"
    BY <1>0, <1>3, HandlerIs, GotoIs, DoneIs
  <2>2. /\ config.len = Under /\ config.rows = <<>>
        /\ pc[c] \notin {"setlen", "rewrite", "unlink", "stuck"}
        /\ pc[c] \in {"row", "whole"} => local[c].len = Under
    BY DEF Headless
  <2>3. CASE CreateFile(c)
    <3>1. config' = config /\ created' = created /\ pc[c] = "mkfile"
      BY <2>3 DEF CreateFile, ghosts
    <3>2. \/ pc'[c] = "idle" /\ stored' = stored
          \/ pc'[c] = "fill" /\ name'[c] = name[c] /\ stored' = stored \cup {name[c]}
      BY <2>1, <2>3 DEF CreateFile
    <3>3. QED
      BY <1>2, <2>1, <2>2, <3>1, <3>2
  <2>4. CASE \/ CreateCheck(c) \/ CreateFill(c) \/ CreateGetNum(c)
             \/ TrashCheck(c) \/ Trash(c) \/ Recover(c) \/ BitLen(c) \/ BitFind(c)
             \/ Clear(c) \/ Open(c) \/ Lookup(c)
    <3>1. /\ UNCHANGED <<config, created, stored>>
          /\ pc[c] \in Creating => pc[c] \in {"fill", "getnum"}
      BY <2>4 DEF CreateCheck, CreateFill, CreateGetNum, TrashCheck, Trash, Recover, BitLen,
         BitFind, Clear, Open, Lookup, server, ghosts
    <3>2. pc'[c] \in {"idle", "recover", "mkfile", "getnum", "setnum", "trash", "bitlen", "find",
                      "mark", "ctlen", "lookup"}
      BY <2>1, <2>4 DEF CreateCheck, CreateFill, CreateGetNum, TrashCheck, Trash, Recover, BitLen,
         BitFind, Clear, Open, Lookup, With
    <3>3. pc[c] \in Creating => pc'[c] \in Creating /\ name'[c] = name[c]
      BY <2>1, <2>4 DEF CreateCheck, CreateFill, CreateGetNum, TrashCheck, Trash, Recover, BitLen,
         BitFind, Clear, Open, Lookup, With
    <3>4. QED
      BY <1>2, <2>1, <2>2, <3>1, <3>2, <3>3
  <2>5. CASE CreateSetNum(c)
    <3>1. /\ UNCHANGED <<created, stored>> /\ pc'[c] = "getlen" /\ name'[c] = name[c]
          /\ config' = [config EXCEPT !.num = local[c].num + 1]
      BY <2>1, <2>5 DEF CreateSetNum, ghosts
    <3>2. config'.len = config.len /\ config'.rows = config.rows
      BY <1>1, <3>1 DEF ConfigType
    <3>3. QED
      BY <1>2, <2>1, <2>2, <3>1, <3>2
  <2>6. CASE CreateGetLen(c)
    <3>1. /\ UNCHANGED <<config, created, stored>> /\ pc'[c] = "row" /\ name'[c] = name[c]
          /\ local' = [local EXCEPT ![c] = [local[c] EXCEPT !.len = config.len]]
      BY <2>1, <2>6 DEF CreateGetLen, With, server, ghosts
    <3>2. local'[c].len = config.len
      BY <1>1, <3>1 DEF Locals
    <3>3. QED
      BY <1>2, <2>1, <2>2, <3>1, <3>2
  <2>7. CASE CreateRow(c) \/ CreateSetLen(c) \/ ClearWrite(c) \/ ClearDelete(c)
    BY <2>2, <2>7 DEF CreateRow, CreateSetLen, ClearWrite, ClearDelete
  <2>8. CASE BitSet(c)
    <3>1. /\ UNCHANGED <<created, stored>> /\ pc[c] = "mark" /\ pc'[c] = "idle"
          /\ local[c].pos \in Nat /\ local[c].bit \in BOOLEAN
      BY <1>0, <2>1, <2>8 DEF BitSet, TypeOK
    <3>2. config' = config \/ config' = [config EXCEPT !.rows[local[c].pos].valid = local[c].bit]
      BY <2>2, <2>8 DEF BitSet
    <3>3. config'.len = Under /\ Len(config'.rows) = 0 /\ config'.rows \in Seq(Row)
      <4>1. Len(config.rows) = 0
        BY <2>2
      <4>2. CASE config' = config
        BY <1>1, <2>2, <4>1, <4>2 DEF ConfigType
      <4>3. CASE config' = [config EXCEPT !.rows[local[c].pos].valid = local[c].bit]
        <5>1. config' \in ConfigType /\ config'.len = config.len
              /\ Len(config'.rows) = Len(config.rows)
          BY <1>1, <3>1, <4>3, MarkIs
        <5>2. QED
          BY <2>2, <4>1, <5>1 DEF ConfigType
      <4>4. QED
        BY <3>2, <4>2, <4>3
    <3>4. config'.rows = <<>>
      BY <3>3, EmptySeq
    <3>5. QED
      BY <1>2, <2>1, <3>1, <3>3, <3>4
  <2>9. CASE ClearLen(c)
    <3>1. /\ UNCHANGED <<config, created, stored>> /\ pc[c] = "ctlen" /\ pc'[c] = "whole"
          /\ local' = [local EXCEPT ![c] = [local[c] EXCEPT !.len = config.len]]
      BY <2>1, <2>9 DEF ClearLen, With, server, ghosts
    <3>2. local'[c].len = config.len
      BY <1>1, <3>1 DEF Locals
    <3>3. QED
      BY <1>2, <2>1, <2>2, <3>1, <3>2
  <2>10. CASE ClearRead(c)
    <3>1. /\ UNCHANGED <<config, created, stored>> /\ pc[c] = "whole"
      BY <2>10 DEF ClearRead, server, ghosts
    <3>2. Within(local[c].len) = <<>>
      BY <2>2, <3>1 DEF Within
    <3>3. Find(<<>>, name[c]) = 0
      <4>1. <<>> \in Seq(Row) /\ Len(<<>>) = 0
        OBVIOUS
      <4>2. Find(<<>>, name[c]) \in 0..Len(<<>>)
        BY <4>1, FindIs
      <4>3. QED
        BY <4>1, <4>2
    <3>4. Done(c)
      BY <2>10, <3>2, <3>3 DEF ClearRead
    <3>5. QED
      BY <1>2, <2>1, <2>2, <3>1, <3>4
  <2>11. QED
    BY <1>3, <2>3, <2>4, <2>5, <2>6, <2>7, <2>8, <2>9, <2>10 DEF Handler
<1>4. ASSUME NEW c \in Conns, NEW r \in Requests, NEW f \in Listed, Request(c, r, f)
      PROVE  Headless'
  <2>1. /\ Others(c) /\ pc'[c] \in AllRequests /\ pc[c] = "idle"
        /\ UNCHANGED <<config, stored, created, torn, orphans>>
    BY <1>0, <1>4, RequestIs DEF server, Request
  <2>2. QED
    BY <1>2, <2>1 DEF Headless
<1>5. ASSUME NEW c \in Conns, Close(c) \/ Leave(c)
      PROVE  Headless'
  <2>1. UNCHANGED <<config, stored, created, torn, orphans, pc, name, local>>
    BY <1>5 DEF Close, Leave, ghosts
  <2>2. QED
    BY <2>1 DEF Headless
<1>6. ASSUME Crash
      PROVE  Headless'
  <2>1. /\ UNCHANGED <<config, stored, created>> /\ pc' = [c \in Conns |-> "idle"]
        /\ torn' = (torn \/ \E c \in Conns : pc[c] \in Appending \ {"setnum"})
        /\ orphans' = orphans \cup {name[c] : c \in {d \in Conns :
                        pc[d] \in Appending \cup {"fill", "getnum", "unlink", "stuck"}}}
    BY <1>6 DEF Crash
  <2>2. stored' \ orphans' = {}
    BY <2>1 DEF Headless
  <2>3. QED
    BY <2>1, <2>2 DEF Headless
<1>7. ASSUME Restart \/ UNCHANGED vars
      PROVE  Headless'
  <2>1. UNCHANGED <<config, stored, created, torn, orphans, pc, name, local>>
    BY <1>7 DEF Restart, vars, server, ghosts
  <2>2. QED
    BY <2>1 DEF Headless
<1>8. QED
  BY <1>3, <1>4, <1>5, <1>6, <1>7 DEF Next

\* The invariant: the first n rows are those of the documents, every file is
\* listed, and the maps follow, each as long as nothing has put it out of step.
RowsInv ==
  "rows" \notin clash /\ "inside" \notin misplaced =>
    \/ Headless
    \/ Spoilt /\ ~(Pure /\ ~torn)
    \/ \E n \in Nat : /\ Rows(n)
                      /\ Pure => Listing(n)
                      /\ Pure /\ ~torn => Exact(n) /\ "absent" \notin misplaced

\* What has overlapped, gone stale, been misplaced or torn stays so, and only
\* changeValidBit misplaces a bit for a name it did not find.
LEMMA GhostsGrow ==
  ASSUME Base, Base', [Next]_vars
  PROVE  /\ clash \subseteq clash' /\ stale \subseteq stale' /\ (torn => torn')
         /\ misplaced \subseteq misplaced'
         /\ "absent" \in misplaced' =>
              "absent" \in misplaced \/ \E c \in Conns : BitSet(c) /\ misplaced' # misplaced
<1>0. TypeOK
  BY DEF Base
<1>1. ASSUME NEW c \in Conns, Handler(c)
      PROVE  clash \subseteq clash' /\ stale \subseteq stale' /\ (torn => torn')
  <2>1. clash \subseteq clash' /\ torn' = torn
    BY <1>0, <1>1, HandlerIs
  <2>2. stale \subseteq stale'
    BY <1>1 DEF Handler, CreateCheck, CreateFile, CreateFill, CreateGetNum, CreateSetNum,
       CreateGetLen, CreateRow, CreateSetLen, TrashCheck, Trash, Recover, BitLen, BitFind, BitSet,
       Clear, ClearLen, ClearRead, ClearWrite, ClearDelete, Open, Lookup, ghosts
  <2>3. QED
    BY <2>1, <2>2
<1>2. ASSUME NEW c \in Conns, Handler(c)
      PROVE  \/ misplaced' = misplaced
             \/ ClearWrite(c) /\ misplaced' = misplaced \cup {"inside"}
             \/ BitSet(c) /\ misplaced \subseteq misplaced'
  BY <1>2 DEF Handler, CreateCheck, CreateFile, CreateFill, CreateGetNum, CreateSetNum,
     CreateGetLen, CreateRow, CreateSetLen, TrashCheck, Trash, Recover, BitLen, BitFind, BitSet,
     Clear, ClearLen, ClearRead, ClearWrite, ClearDelete, Open, Lookup, ghosts
<1>3. ASSUME \/ \E c \in Conns, r \in Requests, f \in Listed : Request(c, r, f)
             \/ \E c \in Conns : Close(c) \/ Leave(c)
             \/ Restart \/ UNCHANGED vars
      PROVE  UNCHANGED <<clash, stale, torn, misplaced>>
  BY <1>3 DEF Request, Close, Leave, Restart, vars, ghosts
<1>4. ASSUME Crash
      PROVE  /\ clash \subseteq clash' /\ stale \subseteq stale' /\ (torn => torn')
             /\ misplaced' = misplaced
  <2>1. clash' = clash /\ stale' = stale /\ misplaced' = misplaced
    BY <1>4 DEF Crash
  <2>2. torn' = (torn \/ \E c \in Conns : pc[c] \in Appending \ {"setnum"})
    BY <1>4 DEF Crash
  <2>3. torn => torn'
    BY <2>2
  <2>4. QED
    BY <2>1, <2>3
<1>5. QED
  BY <1>1, <1>2, <1>3, <1>4 DEF Next

LEMMA RowsInit == Init => RowsInv
<1> SUFFICES ASSUME Init PROVE Headless \/ (Rows(0) /\ Listing(0) /\ Exact(0) /\ misplaced = {})
  BY DEF RowsInv
<1> USE DEF Appending, Marking, Rewriting, Clearing, Filled, Counted, Creating, Busy
<1>1. /\ stored = {} /\ created = {} /\ orphans = {} /\ misplaced = {} /\ up
      /\ pc = [c \in Conns |-> "idle"] /\ local = [c \in Conns |-> NoLocal]
      /\ fileMap = [f \in Listed |-> Absent] /\ trashMap = [f \in Listed |-> Absent]
  BY DEF Init
<1>2. /\ config.num = 0 /\ config.rows = <<>> /\ Len(config.rows) = 0
      /\ torn \in BOOLEAN /\ config.len = IF torn THEN Under ELSE 0
  BY DEF Init, Nothing
<1>3. CASE torn
  BY <1>1, <1>2, <1>3 DEF Headless
<1>4. CASE ~torn
  <2>1. Rows(0)
    BY <1>1, <1>2, <1>4 DEF Rows, Kept, Between, Knows, In
  <2>2. Listing(0)
    BY <1>1 DEF Listing
  <2>3. \A c \in Conns : Steps(c, 0)
    BY <1>1 DEF Steps, Reads, Clears, Marks, NoLocal
  <2>4. \A f : ~Written(f)
    BY <1>1 DEF Written
  <2>5. Follows(0)
    BY <1>1, <2>4 DEF Follows
  <2>6. QED
    BY <1>1, <1>2, <1>4, <2>1, <2>2, <2>3, <2>5 DEF Exact
<1>5. QED
  BY <1>2, <1>3, <1>4

LEMMA RowsStep ==
  ASSUME Base, Base', RowsInv, [Next]_vars
  PROVE  RowsInv'
<1>1. /\ clash \subseteq clash'
      /\ Pure' => Pure
      /\ ~torn' => ~torn
      /\ misplaced \subseteq misplaced'
      /\ "absent" \in misplaced' =>
           "absent" \in misplaced \/ \E c \in Conns : BitSet(c) /\ misplaced' # misplaced
  BY GhostsGrow DEF Pure
<1>2. SUFFICES ASSUME "rows" \notin clash', "inside" \notin misplaced' PROVE RowsInv'
  BY DEF RowsInv
<1>3. ASSUME NEW m \in Nat, Rows(m)', Pure' => Listing(m)',
             Pure' /\ ~torn' => Exact(m)' /\ "absent" \notin misplaced'
      PROVE  RowsInv'
  BY <1>3 DEF RowsInv
<1>0. CASE Headless
  BY <1>0, HeadlessStays DEF RowsInv
<1>4. CASE Spoilt /\ ~(Pure /\ ~torn)
  BY <1>1, <1>4, SpoiltStays DEF RowsInv
<1>5. CASE \E n \in Nat : /\ Rows(n)
                          /\ Pure => Listing(n)
                          /\ Pure /\ ~torn => Exact(n) /\ "absent" \notin misplaced
  <2>1. PICK n \in Nat : /\ Rows(n)
                         /\ Pure => Listing(n)
                         /\ Pure /\ ~torn => Exact(n) /\ "absent" \notin misplaced
    BY <1>5
  <2>0. ASSUME Pure', ~torn'
        PROVE  "absent" \notin misplaced'
    <3>1. Exact(n) /\ "absent" \notin misplaced
      BY <1>1, <2>0, <2>1
    <3>2. ASSUME NEW c \in Conns, BitSet(c) PROVE misplaced' = misplaced
      <4>1. /\ pc[c] = "mark"
            /\ misplaced' = misplaced \cup Astray(local[c], name[c])
        BY <3>2 DEF BitSet
      <4>2. local[c].pos \in 1..n
        BY <3>1, <4>1 DEF Exact, Steps, Marks, Marking
      <4>3. local[c].own
        BY <1>2, <4>1 DEF Astray
      <4>4. Astray(local[c], name[c]) = {}
        BY <4>2, <4>3 DEF Astray
      <4>5. QED
        BY <4>1, <4>4
    <3>3. QED
      BY <1>1, <3>1, <3>2
  <2>2. ASSUME NEW c \in Conns,
               \/ CreateCheck(c) \/ CreateFile(c) \/ CreateFill(c) \/ CreateGetNum(c)
               \/ CreateSetNum(c) \/ CreateGetLen(c) \/ CreateRow(c)
        PROVE  RowsInv'
    <3>1. Rows(n)'
      BY <1>2, <2>1, <2>2, CreateRows
    <3>2. Pure' => Listing(n)'
      BY <1>1, <2>1, <2>2, CreateListing
    <3>3. Pure' /\ ~torn' => Exact(n)'
      BY <1>1, <2>1, <2>2, <3>1, CreateExact
    <3>4. QED
      BY <1>3, <2>0, <3>1, <3>2, <3>3
  <2>3. ASSUME NEW c \in Conns,
               \/ TrashCheck(c) \/ Trash(c) \/ Recover(c)
               \/ BitLen(c) \/ BitFind(c) \/ BitSet(c)
        PROVE  RowsInv'
    <3>1. Rows(n)'
      BY <2>1, <2>3, MarkRows
    <3>2. Pure' => Listing(n)'
      BY <1>1, <2>1, <2>3, MarkListing
    <3>3. Pure' /\ ~torn' => Exact(n)'
      BY <1>1, <1>2, <2>1, <2>3, <3>1, MarkExact
    <3>4. QED
      BY <1>3, <2>0, <3>1, <3>2, <3>3
  <2>4. ASSUME NEW c \in Conns, Clear(c) \/ ClearLen(c) \/ ClearRead(c) \/ ClearDelete(c)
        PROVE  RowsInv'
    <3>1. Rows(n)'
      BY <1>2, <2>1, <2>4, ClearRows
    <3>2. Pure' => Listing(n)'
      BY <1>1, <2>1, <2>4, ClearListing
    <3>3. Pure' /\ ~torn' => Exact(n)'
      BY <1>1, <2>1, <2>4, ClearExact
    <3>4. QED
      BY <1>3, <2>0, <3>1, <3>2, <3>3
  <2>5. ASSUME NEW c \in Conns, CreateSetLen(c)
        PROVE  RowsInv'
    <3> DEFINE m == n + 1
    <3>1. m \in Nat
      OBVIOUS
    <3>2. Rows(m)'
      BY <1>2, <2>1, <2>5, SetLenRows
    <3>3. Pure' => Listing(m)'
      BY <1>1, <2>1, <2>5, SetLenListing
    <3>4. Pure' /\ ~torn' => Exact(m)'
      BY <1>1, <2>1, <2>5, SetLenExact
    <3> HIDE DEF m
    <3>5. QED
      BY <1>3, <2>0, <3>1, <3>2, <3>3, <3>4
  <2>6. ASSUME NEW c \in Conns, ClearWrite(c)
        PROVE  RowsInv'
    <3>0. local[c].own
      BY <1>2, <2>6 DEF ClearWrite
    <3>1. CASE Spoilt'
      <4>1. ASSUME Pure', ~torn' PROVE FALSE
        <5>1. pc[c] = "rewrite" /\ Exact(n)
          BY <1>1, <2>1, <2>6, <4>1 DEF ClearWrite
        <5>2. local[c].snap.len = n - 1 /\ n \in Nat /\ 0 < n
          BY <2>1, <5>1 DEF Exact, Steps, Reads
        <5>4. local[c].snap.len # Far
          BY <5>2 DEF Far
        <5>5. config'.len = local[c].snap.len
          BY <2>6, <3>0 DEF ClearWrite, Base, TypeOK, ConfigType
        <5>6. QED
          BY <3>1, <5>4, <5>5 DEF Spoilt
      <4>2. QED
        BY <3>1, <4>1 DEF RowsInv
    <3>2. CASE /\ n > 0 /\ Rows(n - 1)' /\ config'.len = n - 1
               /\ config'.num = local[c].snap.num
               /\ \A j \in 1..(n - 1) : config'.rows[j] = local[c].snap.rows[j]
               /\ \A f : In(f, n - 1)' <=> In(f, n) /\ f # name[c]
      <4> DEFINE m == n - 1
      <4>1. m \in Nat /\ m = n - 1
        BY <3>2
      <4>2. /\ Rows(m)' /\ config'.len = m /\ config'.num = local[c].snap.num
            /\ \A j \in 1..m : config'.rows[j] = local[c].snap.rows[j]
            /\ \A f : In(f, m)' <=> (In(f, n) /\ f # name[c])
        BY <3>2
      <4> HIDE DEF m
      <4>3. Pure' => Listing(m)'
        BY <1>1, <2>1, <2>6, <4>1, <4>2, ClearWriteListing
      <4>4. Pure' /\ ~torn' => Exact(m)'
        BY <1>1, <2>1, <2>6, <3>0, <4>1, <4>2, ClearWriteExact
      <4>5. QED
        BY <1>3, <2>0, <4>1, <4>2, <4>3, <4>4
    <3>3. QED
      BY <1>2, <2>1, <2>6, <3>1, <3>2, ClearWriteRows
  <2>7. ASSUME \/ \E c \in Conns, r \in Requests, f \in Listed : Request(c, r, f)
               \/ \E c \in Conns : Open(c) \/ Lookup(c) \/ Close(c) \/ Leave(c)
               \/ Crash
               \/ Restart
               \/ UNCHANGED vars
        PROVE  RowsInv'
    <3>1. Rows(n)'
      BY <2>1, <2>7, OtherRows
    <3>2. Pure' => Listing(n)'
      BY <1>1, <2>1, <2>7, OtherListing
    <3>3. Pure' /\ ~torn' => Exact(n)'
      BY <1>1, <2>1, <2>7, OtherExact
    <3>4. QED
      BY <1>3, <2>0, <3>1, <3>2, <3>3
  <2>8. QED
    BY <2>2, <2>3, <2>4, <2>5, <2>6, <2>7 DEF Next, Handler
<1>6. QED
  BY <1>0, <1>1, <1>2, <1>4, <1>5 DEF RowsInv

LEMMA RowsInvariant == Spec => [](Base /\ RowsInv)
<1>1. Base /\ Base' /\ RowsInv /\ [Next]_vars => RowsInv'
  BY RowsStep
<1>2. QED
  BY <1>1, RowsInit, BaseInvariant, PTL DEF Spec

\* A document whose creation was answered, and that was not cleared, keeps its
\* file and a row main() reads, whatever crashes, for any number of connections,
\* names and requests, and whatever names occur in the rows of others: as long as
\* no two handlers changed the number of rows together, the length in the header
\* of "config" is a length, and nothing was written into the row of another name
\* or, for a name that is not there and is longer than the header, into the
\* first row.
THEOREM NoDocumentLostHolds == Spec => []NoDocumentLost
<1>1. ASSUME Base, RowsInv
      PROVE  NoDocumentLost
  <2>1. SUFFICES ASSUME "rows" \notin clash, config.len # Far, misplaced = {}, NEW f \in created
                 PROVE  f \in stored \cap (Found(TRUE) \cup Found(FALSE))
    BY DEF NoDocumentLost
  <2>2. PICK n \in Nat : Rows(n)
    BY <1>1, <2>1 DEF RowsInv, Spoilt, Headless
  <2>3. PICK i \in 1..n : config.rows[i].name = f
    BY <2>2 DEF Rows, Kept, In
  <2>4. f \in stored /\ n <= config.num /\ n <= Len(config.rows) /\ config.num \in Nat
        /\ Len(config.rows) \in Nat /\ config \in ConfigType
    BY <1>1, <2>2, <2>3 DEF Rows, Kept, Base, TypeOK, ConfigType
  <2>5. i \in 1..config.num /\ i \in 1..Len(config.rows)
    BY <2>4
  <2>6. config.rows[i].name \in Found(TRUE) \cup Found(FALSE)
    BY <2>4, <2>5, FoundIs
  <2>7. QED
    BY <2>3, <2>4, <2>6
<1>2. QED
  BY <1>1, RowsInvariant, PTL

\* No handler of the web server waits for ever for a write of "config", and none
\* marks a bit in the first row, unless handlers overlapped on its rows, a request
\* came for a document that was not in the map the page saw it in, a crash tore a
\* create or the header, or a bit or a cut fell into the row of another name.
THEOREM NoHangHolds == Spec => []NoHang
<1>1. ASSUME Base, RowsInv
      PROVE  NoHang
  <2>1. SUFFICES ASSUME Pure, ~torn, "inside" \notin misplaced
                 PROVE  "absent" \notin misplaced /\ \A c \in Conns : pc[c] # "stuck"
    BY DEF NoHang, Pure
  <2>2. PICK n \in Nat : Exact(n) /\ "absent" \notin misplaced
    BY <1>1, <2>1 DEF RowsInv, Pure, Headless
  <2>3. QED
    BY <2>2 DEF Exact, Steps, Reads
<1>2. QED
  BY <1>1, RowsInvariant, PTL

\* Between requests every file is that of a document in a map, but for those a
\* crash left half created or half cleared, unless the length in the header was
\* overwritten; and a restart would build the maps the server has, unless a crash
\* tore a create or the header: for any number of connections, names, requests
\* and crashes, as long as no handlers overlapped in changing rows or bits, no
\* document was moved from a map it was not in and nothing was written out of
\* place.
THEOREM MapsAgreeHolds == Spec => []MapsAgree
<1>1. ASSUME Base, RowsInv
      PROVE  MapsAgree
  <2>1. SUFFICES ASSUME Quiet, Pure, misplaced = {}
                 PROVE  /\ config.len # Far =>
                             \A f \in stored \ orphans : fileMap[f] # Absent \/ trashMap[f] # Absent
                        /\ ~torn => /\ fileMap = Built(TRUE) /\ trashMap = Built(FALSE)
                                    /\ config.num = config.len
    BY DEF MapsAgree, Pure
  <2>2. "rows" \notin clash /\ up /\ \A c \in Conns : pc[c] = "idle"
    BY <2>1 DEF Pure, Quiet
  <2> USE DEF Appending, Marking, Rewriting, Clearing, Filled, Counted, Creating, Busy
  <2>3. ASSUME config.len # Far, NEW f \in stored \ orphans
        PROVE  fileMap[f] # Absent \/ trashMap[f] # Absent
    <3>1. CASE Headless
      BY <2>2, <2>3, <3>1 DEF Headless
    <3>2. CASE \E n \in Nat : Listing(n)
      BY <2>2, <2>3, <3>2 DEF Listing, Covered, Present
    <3>3. QED
      BY <1>1, <2>1, <2>2, <2>3, <3>1, <3>2 DEF RowsInv, Spoilt
  <2>4. ASSUME ~torn
        PROVE  /\ fileMap = Built(TRUE) /\ trashMap = Built(FALSE)
               /\ config.num = config.len
    <3>1. PICK n \in Nat : Rows(n) /\ Exact(n)
      BY <1>1, <2>1, <2>2, <2>4 DEF RowsInv, Headless
    <3>2. config.len = n /\ config.num = n /\ Follows(n)
      BY <2>2, <3>1 DEF Exact
    <3>3. ASSUME NEW f \in Listed
          PROVE  fileMap[f] = Built(TRUE)[f] /\ trashMap[f] = Built(FALSE)[f]
      <4>1. CASE In(f, n)
        <5>1. PICK i \in 1..n : config.rows[i].name = f
          BY <4>1 DEF In
        <5>2. Idle(f)
          BY <2>2 DEF Idle
        <5>3. Says(f, config.rows[i].valid) /\ config.rows[i].valid \in BOOLEAN
          BY <1>1, <3>1, <3>2, <5>1, <5>2, RowTypes DEF Follows
        <5>4. \A v \in BOOLEAN : Built(v)[f]
                                   = IF v = config.rows[i].valid THEN DefaultSize ELSE Absent
          BY <1>1, <3>1, <3>2, <5>1, BuiltFollows
        <5>5. CASE config.rows[i].valid = TRUE
          BY <5>3, <5>4, <5>5 DEF Says
        <5>6. CASE config.rows[i].valid = FALSE
          BY <5>3, <5>4, <5>6 DEF Says
        <5>7. QED
          BY <5>3, <5>5, <5>6
      <4>2. CASE ~In(f, n)
        <5>1. ~Written(f)
          BY <2>2 DEF Written
        <5>2. QED
          BY <1>1, <3>1, <3>2, <4>2, <5>1, BuiltFollows DEF Follows
      <4>3. QED
        BY <4>1, <4>2
    <3>4. /\ fileMap = [f \in Listed |-> fileMap[f]] /\ trashMap = [f \in Listed |-> trashMap[f]]
      BY <1>1 DEF Base, TypeOK
    <3>5. \A v : Built(v) = [f \in Listed |-> Built(v)[f]]
      BY DEF Built
    <3>6. QED
      BY <3>2, <3>3, <3>4, <3>5
  <2>5. QED
    BY <2>3, <2>4
<1>2. QED
  BY <1>1, RowsInvariant, PTL
=============================================================================
