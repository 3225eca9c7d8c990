--------------------------- MODULE GfsFileProofs ---------------------------
(***************************************************************************)
(* Proofs about the cutting of byte ranges in write() and read() for every *)
(* chunk size, every offset and length, and any number of clients.         *)
(***************************************************************************)
EXTENDS GfsFile, TLAPS

-----------------------------------------------------------------------------
(* Arithmetic of chunks                                                    *)

\* chunk_index and chunk_offset of a byte.
LEMMA DivMod ==
  ASSUME NEW n \in Nat
  PROVE  /\ n \div ChunkSize \in Nat
         /\ n % ChunkSize \in Nat /\ n % ChunkSize < ChunkSize
         /\ (n \div ChunkSize) * ChunkSize + (n % ChunkSize) = n
  BY SizeAssumption, Z3

\* The first byte of the next chunk.
LEMMA NextChunk ==
  ASSUME NEW i \in Nat
  PROVE  (i + 1) * ChunkSize = i * ChunkSize + ChunkSize /\ i * ChunkSize \in Nat
  BY SizeAssumption

\* A byte is in one chunk only.
LEMMA ChunkOf ==
  ASSUME NEW n \in Nat, NEW i \in Nat, NEW o \in Nat, o < ChunkSize,
         i * ChunkSize + o = n
  PROVE  n \div ChunkSize = i
  BY SizeAssumption, Z3

-----------------------------------------------------------------------------
(* The invariant                                                           *)

\* The next byte of the call is byte coff of chunk index.
AtByte(k) == /\ k \in Locals /\ k.op \in {"write", "read"} /\ k.size \in Sizes
             /\ k.coff < ChunkSize
             /\ k.index * ChunkSize + k.coff = k.offset + k.last

\* Before a piece is cut off: what a write has left is what it has not yet
\* written; a read has at least that left.
Ready(k) == /\ AtByte(k)
            /\ k.op = "write" => k.left = k.size - k.last
            /\ k.op = "read" => k.left <= k.size /\ k.last + k.left >= k.size

\* A read that found a chunk missing although it is past its range, or whose
\* chunks were not all there.
Past(k, f) == k.last >= k.size \/ ~k.whole \/ f # "live"

\* The piece that is under way.
Shape(k, f) ==
  /\ AtByte(k)
  /\ k.mode \in {"bulk", "tail", "single"}
  /\ k.mode = "bulk" => /\ k.new = ChunkSize - k.coff
                        /\ k.left = k.size - (IF k.op = "write" THEN k.last ELSE 0)
                                           - k.new
  /\ k.mode = "tail" /\ k.op = "write" => /\ k.left = k.size - k.last
                                          /\ k.coff + k.left < ChunkSize
  /\ k.mode = "tail" /\ k.op = "read" => \/ /\ k.last + k.left >= k.size
                                            /\ k.coff + k.left < ChunkSize
                                         \/ Past(k, f)
  /\ k.mode = "single" => k.last = 0 /\ k.coff + k.size < ChunkSize

\* The first n bytes of the call, in their places.
Prefix(k, n) == {<<k.offset + i, i>> : i \in 0..(n - 1)}

\* Bytes of the range that were read are in their places.
InPlace(k, mv) == \A b \in mv : b[2] < k.size => b[1] = k.offset + b[2]

\* A write has put its first n bytes in their places and nothing else; a read
\* has got at least its first n.
Done(k, mv, n, f) ==
  f = "live" =>
    /\ k.op = "write" => mv = Prefix(k, n)
    /\ k.op = "read" /\ k.whole =>
         \A i \in Nat : i < n /\ i < k.size => <<k.offset + i, i>> \in mv

\* A client at p with local variables k that has moved the bytes mv, when the
\* file is f and has the chunks ch.
Client(p, k, mv, f, ch) ==
  /\ p = "idle" => k = NoCall /\ mv = {}
  /\ p # "idle" => Shape(k, f) /\ mv \in SUBSET (Int \X Int)
  /\ p \in {"locate", "add", "move"} => Done(k, mv, k.last, f)
  /\ p = "done" => Done(k, mv, k.size, f)
  /\ f = "live" /\ k.whole =>
       /\ Touched(k.offset, k.size) \subseteq ch
       /\ k.op = "read" => InPlace(k, mv)
  /\ p \in {"locate", "add", "move"} /\ k.mode = "tail" => k.left > 0
  /\ p = "move" /\ f = "live" => k.index \in ch

Tiling == /\ file = "live" => chunks \subseteq stored /\ doomed = {}
          /\ \A c \in Clients : Client(pc[c], call[c], moved[c], file, chunks)

-----------------------------------------------------------------------------
(* Cutting off a piece, moving it                                          *)

\* A client that is not stepping is not disturbed: as long as the file lives,
\* chunks are only added.
LEMMA Undisturbed ==
  ASSUME NEW p, NEW k, NEW mv, NEW f, NEW ch, Client(p, k, mv, f, ch),
         NEW g, NEW dh, g = "live" => f = "live" /\ ch \subseteq dh
  PROVE  Client(p, k, mv, g, dh)
<1>1. Shape(k, f) => Shape(k, g)
  BY DEF Shape, Past, AtByte
<1>2. \A n : Done(k, mv, n, f) => Done(k, mv, n, g)
  BY DEF Done
<1>3. QED
  BY <1>1, <1>2 DEF Client

\* The head of the loop: the next piece fits.
LEMMA CutShape ==
  ASSUME NEW k, NEW f, Ready(k)
  PROVE  /\ Shape(Cut(k), f) /\ Cut(k).mode \in {"bulk", "tail"}
         /\ \A x \in {"op", "offset", "size", "index", "coff", "last", "whole"} :
              Cut(k)[x] = k[x]
<1> USE SizeAssumption, RangeAssumption
<1>1. CASE Reaches(k.coff, k.left)
  <2>1. Cut(k) = [k EXCEPT !.mode = "bulk", !.new = NewSize(k), !.left = LeftAfter(k)]
    BY <1>1 DEF Cut
  <2>2. NewSize(k) \in Nat /\ NewSize(k) = ChunkSize - k.coff
    BY DEF NewSize, Ready, AtByte, Locals
  <2>3. LeftAfter(k) \in Nat
        /\ LeftAfter(k) = k.size - (IF k.op = "write" THEN k.last ELSE 0) - NewSize(k)
    BY <1>1, <2>2 DEF LeftAfter, Ready, AtByte, Locals, Reaches
  <2>4. QED
    BY <2>1, <2>2, <2>3 DEF Ready, Shape, AtByte, Locals
<1>2. CASE ~Reaches(k.coff, k.left)
  BY <1>2 DEF Cut, Rest, Reaches, Ready, Shape, AtByte, Locals
<1>3. QED
  BY <1>1, <1>2

\* On to the next chunk.
LEMMA AdvanceReady ==
  ASSUME NEW k, NEW f, Shape(k, f), k.mode = "bulk"
  PROVE  /\ Ready(Advance(k)) /\ Advance(k).last = k.last + k.new
         /\ \A x \in {"op", "offset", "size", "whole"} : Advance(k)[x] = k[x]
<1> USE SizeAssumption, RangeAssumption
<1>1. (k.coff + k.new) % ChunkSize = 0
  BY DEF Shape, AtByte, Locals
<1>2. (k.index + 1) * ChunkSize = k.index * ChunkSize + ChunkSize
      /\ k.index * ChunkSize \in Nat
  BY NextChunk DEF Shape, AtByte, Locals
<1>3. Advance(k) = [k EXCEPT !.coff = 0, !.index = k.index + 1,
                             !.last = k.last + k.new]
  BY <1>1 DEF Advance
<1> DEFINE j == Advance(k)
<1>4. /\ j \in Locals /\ j.coff = 0 /\ j.index = k.index + 1
      /\ j.last = k.last + k.new /\ j.left = k.left /\ j.op = k.op
      /\ j.offset = k.offset /\ j.size = k.size /\ j.whole = k.whole
  <2>1. k \in Locals
    BY DEF Shape, AtByte
  <2>2. 0 \in Nat /\ k.index + 1 \in Nat /\ k.last + k.new \in Nat
    BY <2>1 DEF Locals
  <2>3. QED
    BY <1>3, <2>1, <2>2 DEF Locals
<1>5. j.index * ChunkSize + j.coff = j.offset + j.last
  BY <1>2, <1>4 DEF Shape, AtByte, Locals
<1>6. QED
  BY <1>4, <1>5 DEF Shape, Ready, AtByte, Locals

LEMMA InPrefix ==
  ASSUME NEW k, NEW n, NEW b
  PROVE  b \in Prefix(k, n) <=> \E i \in 0..(n - 1) : b = <<k.offset + i, i>>
  BY DEF Prefix

\* A write appends its piece to what it has written.
LEMMA WritePiece ==
  ASSUME NEW k, NEW f, Shape(k, f), k.op = "write"
  PROVE  Prefix(k, k.last) \cup Piece(k) = Prefix(k, k.last + Length(k))
<1> USE SizeAssumption, RangeAssumption
<1>1. k.offset \in Nat /\ k.last \in Nat /\ k.size \in Nat /\ k.left \in Nat
      /\ k.coff \in Nat /\ k.new \in Nat
  BY DEF Shape, AtByte, Locals
<1>2. From(k) = k.last
  BY <1>1 DEF From, Shape
<1>3. Length(k) \in Nat /\ k.coff + Length(k) <= ChunkSize
  BY <1>1 DEF Length, Shape, AtByte
<1>4. \A i \in 0..(Length(k) - 1) : Place(k, i) = k.offset + k.last + i
  BY <1>1, <1>3, NextChunk DEF Place, Shape, AtByte, Locals
<1>5. Piece(k) = {<<k.offset + k.last + i, k.last + i>> : i \in 0..(Length(k) - 1)}
  BY <1>2, <1>4 DEF Piece
<1> DEFINE L == Length(k)
<1>6. ASSUME NEW i \in 0..((k.last + L) - 1)
      PROVE  <<k.offset + i, i>> \in Prefix(k, k.last) \cup Piece(k)
  <2>1. CASE i < k.last
    BY <1>1, <1>3, <2>1 DEF Prefix
  <2>2. CASE i >= k.last
    <3>1. i - k.last \in 0..(L - 1)
      BY <1>1, <1>3, <2>2
    <3>2. k.offset + k.last + (i - k.last) = k.offset + i /\ k.last + (i - k.last) = i
      BY <1>1, <1>3
    <3>3. QED
      BY <1>5, <3>1, <3>2
  <2>3. QED
    BY <1>1, <1>3, <2>1, <2>2
<1>7. ASSUME NEW i \in 0..(L - 1)
      PROVE  <<k.offset + k.last + i, k.last + i>> \in Prefix(k, k.last + L)
  <2>1. k.last + i \in 0..((k.last + L) - 1)
        /\ k.offset + (k.last + i) = k.offset + k.last + i
    BY <1>1, <1>3
  <2>2. <<k.offset + (k.last + i), k.last + i>> \in Prefix(k, k.last + L)
    BY <2>1, InPrefix
  <2>3. QED
    BY <2>1, <2>2
<1>8. Prefix(k, k.last) \subseteq Prefix(k, k.last + L)
  BY <1>1, <1>3 DEF Prefix
<1>9. Piece(k) \subseteq Prefix(k, k.last + L)
  BY <1>5, <1>7
<1>10. Prefix(k, k.last + L) \subseteq Prefix(k, k.last) \cup Piece(k)
  <2>1. \A b \in Prefix(k, k.last + L) :
          \E i \in 0..((k.last + L) - 1) : b = <<k.offset + i, i>>
    BY InPrefix
  <2>2. QED
    BY <1>6, <2>1
<1>11. QED
  BY <1>8, <1>9, <1>10

\* A read gets its piece in place, as far as it was asked for.
LEMMA ReadPiece ==
  ASSUME NEW k, NEW f, Shape(k, f), k.op = "read", k.whole, f = "live"
  PROVE  /\ InPlace(k, Piece(k))
         /\ \A i \in Nat : k.last <= i /\ i < k.last + Length(k) /\ i < k.size
                           => <<k.offset + i, i>> \in Piece(k)
<1> USE SizeAssumption, RangeAssumption
<1>1. k.offset \in Nat /\ k.last \in Nat /\ k.size \in Nat /\ k.left \in Nat
      /\ k.coff \in Nat /\ k.new \in Nat
  BY DEF Shape, AtByte, Locals
<1>2. From(k) = k.last
  BY DEF From
<1>3. Length(k) \in Nat
  BY <1>1 DEF Length, Shape
<1>4. \A i \in 0..(Length(k) - 1) :
        k.last + i < k.size => Place(k, i) = k.offset + (k.last + i)
  <2>1. k.last < k.size => k.coff + Length(k) <= ChunkSize
    BY <1>1 DEF Length, Shape, AtByte, Past
  <2>2. QED
    BY <1>1, <1>3, <2>1, NextChunk DEF Place, Shape, AtByte, Locals
<1>5. Piece(k) = {<<Place(k, i), k.last + i>> : i \in 0..(Length(k) - 1)}
  BY <1>2 DEF Piece
<1>6. InPlace(k, Piece(k))
  BY <1>4, <1>5 DEF InPlace
<1>7. ASSUME NEW i \in Nat, k.last <= i, i < k.last + Length(k), i < k.size
      PROVE  <<k.offset + i, i>> \in Piece(k)
  <2>1. i - k.last \in 0..(Length(k) - 1) /\ k.last + (i - k.last) = i
    BY <1>1, <1>3, <1>7
  <2>2. QED
    BY <1>4, <1>5, <1>7, <2>1
<1>8. QED
  BY <1>6, <1>7

\* The bytes of a piece are pairs of numbers.
LEMMA PieceType ==
  ASSUME NEW k, NEW f, Shape(k, f)
  PROVE  Piece(k) \in SUBSET (Int \X Int)
<1> USE SizeAssumption, RangeAssumption
<1>1. From(k) \in Int /\ Length(k) \in Nat
  BY DEF From, Length, Shape, AtByte, Locals
<1>2. \A i \in 0..(Length(k) - 1) : Place(k, i) \in Int
  BY <1>1, NextChunk DEF Place, Padding, Shape, AtByte, Locals
<1>3. QED
  BY <1>1, <1>2 DEF Piece

\* A read whose chunk is missing although the chunks of its range are there
\* is past its range.
LEMMA MissingPast ==
  ASSUME NEW k, AtByte(k), NEW ch, Touched(k.offset, k.size) \subseteq ch,
         k.index \notin ch
  PROVE  k.last >= k.size
<1> USE SizeAssumption, RangeAssumption
<1>1. k.last \in Nat /\ k.size \in Nat /\ k.offset \in Nat /\ k.index \in Nat
      /\ k.coff \in Nat
  BY DEF AtByte, Locals
<1>2. (k.offset + k.last) \div ChunkSize = k.index
  <2>1. k.offset + k.last \in Nat /\ k.coff < ChunkSize
        /\ k.index * ChunkSize + k.coff = k.offset + k.last
    BY <1>1 DEF AtByte
  <2> DEFINE n == k.offset + k.last
  <2>2. n \in Nat /\ k.index * ChunkSize + k.coff = n
    BY <2>1
  <2> HIDE DEF n
  <2>3. n \div ChunkSize = k.index
    BY <1>1, <2>1, <2>2, ChunkOf
  <2>4. QED
    BY <2>3 DEF n
<1>3. k.last < k.size => k.last \in 0..(k.size - 1)
  BY <1>1
<1>4. k.last < k.size => k.index \in Touched(k.offset, k.size)
  BY <1>2, <1>3 DEF Touched
<1>5. QED
  BY <1>1, <1>4

\* Going on with a piece, or returning if nothing is left.
LEMMA GoingOn ==
  ASSUME NEW j, NEW mv \in SUBSET (Int \X Int), NEW f, NEW ch,
         Shape(j, f), j.mode \in {"bulk", "tail"}, Done(j, mv, j.last, f),
         f = "live" /\ j.whole => /\ Touched(j.offset, j.size) \subseteq ch
                                  /\ j.op = "read" => InPlace(j, mv)
  PROVE  Client(IF j.mode = "tail" /\ j.left = 0 THEN "done" ELSE "locate",
                j, mv, f, ch)
<1> USE RangeAssumption
<1>1. j.left \in Nat /\ j.last \in Nat /\ j.size \in Nat
  BY DEF Shape, AtByte, Locals
<1>2. ASSUME j.mode = "tail", j.left = 0 PROVE Done(j, mv, j.size, f)
  <2>1. CASE j.op = "write"
    <3>1. j.last = j.size
      BY <1>1, <1>2, <2>1 DEF Shape
    <3>2. QED
      BY <3>1
  <2>2. CASE j.op = "read"
    <3>1. f = "live" /\ j.whole => j.last >= j.size
      BY <1>1, <1>2, <2>2 DEF Shape, Past
    <3>2. QED
      BY <1>1, <2>2, <3>1 DEF Done
  <2>3. QED
    BY <2>1, <2>2 DEF Shape, AtByte
<1>3. CASE j.mode = "tail" /\ j.left = 0
  BY <1>2, <1>3 DEF Client
<1>4. CASE ~(j.mode = "tail" /\ j.left = 0)
  <2>1. Client("locate", j, mv, f, ch)
    BY <1>1, <1>4 DEF Client
  <2>2. QED
    BY <1>4, <2>1
<1>5. QED
  BY <1>3, <1>4

\* The bytes of a piece are added to what was moved before.
LEMMA Moving ==
  ASSUME NEW k, NEW mv, NEW f, NEW ch, Client("move", k, mv, f, ch)
  PROVE  /\ Done(k, mv \cup Piece(k), k.last + Length(k), f)
         /\ f = "live" /\ k.whole /\ k.op = "read" => InPlace(k, mv \cup Piece(k))
         /\ mv \cup Piece(k) \in SUBSET (Int \X Int)
<1> USE RangeAssumption
<1>1. Shape(k, f) /\ Done(k, mv, k.last, f) /\ mv \in SUBSET (Int \X Int)
  BY DEF Client
<1>2. k.last \in Nat /\ k.size \in Nat /\ Length(k) \in Nat
  BY <1>1 DEF Shape, AtByte, Locals, Length
<1>3. ASSUME f = "live", k.op = "write"
      PROVE  mv \cup Piece(k) = Prefix(k, k.last + Length(k))
  BY <1>1, <1>3, WritePiece DEF Done
<1>4. ASSUME f = "live", k.op = "read", k.whole
      PROVE  /\ InPlace(k, mv \cup Piece(k))
             /\ \A i \in Nat : i < k.last + Length(k) /\ i < k.size
                               => <<k.offset + i, i>> \in mv \cup Piece(k)
  <2>1. InPlace(k, mv)
    BY <1>4 DEF Client
  <2>2. InPlace(k, Piece(k))
    BY <1>1, <1>4, ReadPiece
  <2>3. ASSUME NEW i \in Nat, i < k.last + Length(k), i < k.size
        PROVE  <<k.offset + i, i>> \in mv \cup Piece(k)
    <3>1. CASE i < k.last
      BY <1>1, <1>4, <2>3, <3>1 DEF Done
    <3>2. CASE k.last <= i
      BY <1>1, <1>4, <2>3, <3>2, ReadPiece
    <3>3. QED
      BY <1>2, <3>1, <3>2
  <2>4. QED
    BY <2>1, <2>2, <2>3 DEF InPlace
<1>5. Done(k, mv \cup Piece(k), k.last + Length(k), f)
  BY <1>3, <1>4 DEF Done
<1>6. mv \cup Piece(k) \in SUBSET (Int \X Int)
  BY <1>1, PieceType
<1>7. QED
  BY <1>4, <1>5, <1>6

\* A step of one client.
LEMMA OneMoves ==
  ASSUME Tiling, NEW c \in Clients,
         \A d \in Clients \ {c} : /\ pc'[d] = pc[d] /\ call'[d] = call[d]
                                  /\ moved'[d] = moved[d],
         file' = "live" => file = "live" /\ chunks \subseteq chunks',
         file' = "live" => chunks' \subseteq stored' /\ doomed' = {},
         Client(pc'[c], call'[c], moved'[c], file', chunks')
  PROVE  Tiling'
<1>1. ASSUME NEW d \in Clients \ {c}
      PROVE  Client(pc'[d], call'[d], moved'[d], file', chunks')
  <2>1. Client(pc[d], call[d], moved[d], file, chunks)
    BY DEF Tiling
  <2>2. Client(pc[d], call[d], moved[d], file', chunks')
    BY <2>1, Undisturbed
  <2>3. QED
    BY <2>2
<1>2. QED
  BY <1>1 DEF Tiling

-----------------------------------------------------------------------------
(* The steps                                                               *)

\* A call begins with its first piece and nothing moved.
LEMMA CallKeeps ==
  ASSUME TypeOK, Tiling, NEW c \in Clients, NEW op \in {"write", "read"},
         NEW offset \in Offsets, NEW size \in Sizes, Call(c, op, offset, size)
  PROVE  Tiling'
<1> USE SizeAssumption, RangeAssumption
<1> DEFINE coff == offset % ChunkSize
           k == [op |-> op, mode |-> "single", offset |-> offset, size |-> size,
                 index |-> offset \div ChunkSize, coff |-> coff,
                 last |-> 0, left |-> size, new |-> size,
                 whole |-> file = "live" /\ Touched(offset, size) \subseteq chunks]
           j == IF Reaches(coff, size) THEN Cut(k) ELSE k
<1>1. /\ call' = [call EXCEPT ![c] = j]
      /\ pc' = [pc EXCEPT ![c] = IF j.mode = "tail" /\ j.left = 0 THEN "done"
                                 ELSE "locate"]
  BY DEF Call, Continue, Goto
<1>2. pc[c] = "idle" /\ UNCHANGED <<file, chunks, stored, doomed, moved>>
  BY DEF Call, catalog
<1>3. moved[c] = {}
  BY <1>2 DEF Tiling, Client
<1>4. offset \in Nat /\ size \in Nat
  OBVIOUS
<1>5. offset \div ChunkSize \in Nat /\ coff \in Nat /\ coff < ChunkSize
      /\ (offset \div ChunkSize) * ChunkSize + coff = offset
  BY <1>4, DivMod
<1>6. AtByte(k)
  BY <1>4, <1>5 DEF AtByte, Locals
<1>7. Ready(k)
  BY <1>4, <1>6 DEF Ready
<1>8. Done(k, {}, 0, file) /\ InPlace(k, {})
  <2>1. Prefix(k, 0) = {}
    BY DEF Prefix
  <2>2. QED
    BY <2>1 DEF Done, InPlace
<1>9. k.whole /\ file = "live" => Touched(k.offset, k.size) \subseteq chunks
  OBVIOUS
<1>10. Client(pc'[c], j, {}, file, chunks)
  <2>0. pc'[c] = IF j.mode = "tail" /\ j.left = 0 THEN "done" ELSE "locate"
    BY <1>1 DEF TypeOK
  <2>1. CASE Reaches(coff, size)
    <3>1. /\ Shape(j, file) /\ j.mode \in {"bulk", "tail"}
          /\ j.op = k.op /\ j.offset = k.offset /\ j.size = k.size
          /\ j.last = 0 /\ j.whole = k.whole
      BY <1>7, <2>1, CutShape
    <3> HIDE DEF j
    <3>2. Done(j, {}, j.last, file) /\ InPlace(j, {})
      BY <1>8, <3>1 DEF Done, Prefix, InPlace
    <3>3. file = "live" /\ j.whole => /\ Touched(j.offset, j.size) \subseteq chunks
                                      /\ j.op = "read" => InPlace(j, {})
      BY <1>9, <3>1, <3>2
    <3> HIDE DEF k
    <3>4. {} \in SUBSET (Int \X Int)
      OBVIOUS
    <3>5. Client(IF j.mode = "tail" /\ j.left = 0 THEN "done" ELSE "locate",
                 j, {}, file, chunks)
      BY <3>1, <3>2, <3>3, <3>4, GoingOn, Zenon
    <3>6. QED
      BY <2>0, <3>5
  <2>2. CASE ~Reaches(coff, size)
    <3>1. j = k /\ k.mode = "single"
      BY <2>2
    <3>2. Shape(k, file)
      BY <1>4, <1>5, <1>6, <2>2 DEF Shape, Reaches
    <3>3. k.last = 0
      OBVIOUS
    <3>4. pc'[c] = "locate"
      BY <2>0, <3>1
    <3> HIDE DEF k, j
    <3>5. QED
      BY <1>8, <1>9, <3>1, <3>2, <3>3, <3>4 DEF Client
  <2>3. QED
    BY <2>1, <2>2
<1>11. call'[c] = j /\ moved'[c] = {}
  BY <1>1, <1>2, <1>3 DEF TypeOK
<1>12. \A d \in Clients \ {c} : /\ pc'[d] = pc[d] /\ call'[d] = call[d]
                                /\ moved'[d] = moved[d]
  BY <1>1, <1>2 DEF TypeOK
<1> HIDE DEF j
<1>13. Client(pc'[c], call'[c], moved'[c], file', chunks')
  BY <1>2, <1>10, <1>11
<1>14. (file' = "live" => file = "live" /\ chunks \subseteq chunks')
       /\ (file' = "live" => chunks' \subseteq stored' /\ doomed' = {})
  BY <1>2 DEF Tiling
<1>15. QED
  BY <1>12, <1>13, <1>14, OneMoves

\* GetChunkLocation: found, not found, no file, or no leader.
LEMMA LocateKeeps ==
  ASSUME TypeOK, Tiling, NEW c \in Clients, Locate(c)
  PROVE  Tiling'
<1> DEFINE k == call[c]
           mv == moved[c]
<1>1. pc[c] = "locate" /\ UNCHANGED <<file, chunks, stored, doomed, moved>>
  BY DEF Locate, catalog
<1>2. Client("locate", k, mv, file, chunks)
  BY <1>1 DEF Tiling
<1>3. Shape(k, file) /\ Done(k, mv, k.last, file) /\ mv \in SUBSET (Int \X Int)
  BY <1>2 DEF Client
<1>4. Client("failed", k, mv, file, chunks) /\ Client("stuck", k, mv, file, chunks)
  BY <1>2 DEF Client
<1>5. ASSUME k.index \in chunks PROVE Client("move", k, mv, file, chunks)
  BY <1>2, <1>5 DEF Client
<1>6. Client("add", k, mv, file, chunks)
  BY <1>2 DEF Client
<1>7. ASSUME k.index \notin chunks, file = "live", k.whole PROVE k.last >= k.size
  BY <1>2, <1>3, <1>7, MissingPast DEF Client, Shape
<1>8. ASSUME k.index \notin chunks, k.op = "read"
      PROVE  Client("done", k, mv, file, chunks)
  <2>1. Done(k, mv, k.size, file)
    BY <1>3, <1>7, <1>8, RangeAssumption DEF Done, Shape, AtByte, Locals
  <2>2. QED
    BY <1>2, <2>1 DEF Client
<1>9. ASSUME k.index \notin chunks, k.op = "read", k.mode = "bulk", NEW j, j = Rest(k)
      PROVE  Client(IF j.mode = "tail" /\ j.left = 0 THEN "done" ELSE "locate",
                    j, mv, file, chunks)
  <2>1. /\ j.mode = "tail" /\ j \in Locals /\ j.op = k.op /\ j.offset = k.offset
        /\ j.size = k.size /\ j.index = k.index /\ j.coff = k.coff
        /\ j.last = k.last /\ j.left = k.left /\ j.whole = k.whole
    BY <1>3, <1>9 DEF Rest, Shape, AtByte, Locals
  <2>2. AtByte(j)
    BY <1>3, <2>1 DEF Shape, AtByte
  <2>3. Past(j, file)
    BY <1>7, <1>9, <2>1 DEF Past
  <2>4. Shape(j, file)
    BY <1>9, <2>1, <2>2, <2>3 DEF Shape
  <2>5. Done(j, mv, j.last, file)
    BY <1>3, <2>1 DEF Done, Prefix
  <2>6. file = "live" /\ j.whole => /\ Touched(j.offset, j.size) \subseteq chunks
                                    /\ j.op = "read" => InPlace(j, mv)
    BY <1>2, <2>1 DEF Client, InPlace
  <2>7. QED
    BY <1>3, <2>1, <2>4, <2>5, <2>6, GoingOn
<1>10. Client(pc'[c], call'[c], mv, file, chunks)
  <2>1. CASE UNCHANGED call /\ pc' = [pc EXCEPT ![c] = "failed"]
    BY <1>4, <2>1 DEF TypeOK
  <2>2. CASE UNCHANGED call /\ pc' = [pc EXCEPT ![c] = "stuck"]
    BY <1>4, <2>2 DEF TypeOK
  <2>3. CASE UNCHANGED call /\ pc' = [pc EXCEPT ![c] = "move"] /\ k.index \in chunks
    BY <1>5, <2>3 DEF TypeOK
  <2>4. CASE UNCHANGED call /\ pc' = [pc EXCEPT ![c] = "add"]
    BY <1>6, <2>4 DEF TypeOK
  <2>5. CASE /\ UNCHANGED call /\ pc' = [pc EXCEPT ![c] = "done"]
             /\ k.index \notin chunks /\ k.op = "read"
    BY <1>8, <2>5 DEF TypeOK
  <2>6. CASE /\ k.index \notin chunks /\ k.op = "read" /\ k.mode = "bulk"
             /\ Continue(c, Rest(k))
    BY <1>9, <2>6 DEF Continue, Goto, TypeOK
  <2>7. CASE k.index \notin chunks /\ Missing(c, k)
    <3>1. /\ k.op \in {"write", "read"} /\ k.mode \in {"bulk", "tail", "single"}
      BY <1>3 DEF Shape, AtByte
    <3>2. QED
      BY <2>2, <2>4, <2>5, <2>6, <2>7, <3>1 DEF Missing, Goto
  <2>8. QED
    BY <2>1, <2>2, <2>3, <2>7 DEF Locate, Goto
<1>11. \A d \in Clients \ {c} : /\ pc'[d] = pc[d] /\ call'[d] = call[d]
                                /\ moved'[d] = moved[d]
  <2>1. (\E p : Goto(c, p)) /\ (UNCHANGED call \/ \E j : call' = [call EXCEPT ![c] = j])
    <3>1. k.op \in {"write", "read"} /\ k.mode \in {"bulk", "tail", "single"}
      BY <1>3 DEF Shape, AtByte
    <3>2. CASE Missing(c, k)
      BY <3>1, <3>2 DEF Missing, Continue
    <3>3. QED
      BY <3>2 DEF Locate
  <2>2. QED
    BY <1>1, <2>1 DEF Goto, TypeOK
<1>12. (file' = "live" => file = "live" /\ chunks \subseteq chunks')
       /\ (file' = "live" => chunks' \subseteq stored' /\ doomed' = {})
  BY <1>1 DEF Tiling
<1>13. Client(pc'[c], call'[c], moved'[c], file', chunks')
  BY <1>1, <1>10
<1>14. QED
  BY <1>11, <1>12, <1>13, OneMoves

\* AddChunk: the chunk is listed and stored.
LEMMA AddKeeps ==
  ASSUME TypeOK, Tiling, NEW c \in Clients, AddChunk(c)
  PROVE  Tiling'
<1>1. pc[c] = "add" /\ UNCHANGED <<file, doomed, call, moved>>
  BY DEF AddChunk, catalog
<1>2. Client("add", call[c], moved[c], file, chunks)
  BY <1>1 DEF Tiling
<1>3. chunks \subseteq chunks' /\ (file = "live" => chunks' \subseteq stored')
  BY DEF AddChunk, Tiling, catalog
<1>4. Client("add", call[c], moved[c], file, chunks')
  BY <1>2, <1>3, Undisturbed
<1>5. \/ pc'[c] \in {"failed", "stuck"}
      \/ pc'[c] = "move" /\ call[c].index \in chunks'
  BY DEF AddChunk, Goto, TypeOK
<1>6. Client(pc'[c], call[c], moved[c], file, chunks')
  BY <1>4, <1>5 DEF Client
<1>7. \A d \in Clients \ {c} : pc'[d] = pc[d]
  BY DEF AddChunk, Goto, TypeOK
<1>8. (file' = "live" => file = "live" /\ chunks \subseteq chunks')
      /\ (file' = "live" => chunks' \subseteq stored' /\ doomed' = {})
  BY <1>1, <1>3 DEF Tiling
<1>9. Client(pc'[c], call'[c], moved'[c], file', chunks')
  BY <1>1, <1>6
<1>10. \A d \in Clients \ {c} : /\ pc'[d] = pc[d] /\ call'[d] = call[d]
                                /\ moved'[d] = moved[d]
  BY <1>1, <1>7
<1>11. QED
  BY <1>8, <1>9, <1>10, OneMoves

\* A piece is moved: on to the next one, or the call is done.
LEMMA MoveKeeps ==
  ASSUME TypeOK, Tiling, NEW c \in Clients, Move(c)
  PROVE  Tiling'
<1> USE RangeAssumption
<1> DEFINE k == call[c]
           mv == moved'[c]
<1>1. pc[c] = "move" /\ UNCHANGED <<file, chunks, stored, doomed>>
  BY DEF Move, catalog
<1>2. Client("move", k, moved[c], file, chunks)
  BY <1>1 DEF Tiling
<1>3. Shape(k, file) /\ moved[c] \in SUBSET (Int \X Int)
  BY <1>2 DEF Client
<1>4. mv = IF k.index \in stored THEN moved[c] \cup Piece(k) ELSE moved[c]
  BY DEF Move, TypeOK
<1>5. file = "live" => k.index \in stored
  BY <1>2 DEF Client, Tiling
<1>6. /\ Done(k, mv, k.last + Length(k), file)
      /\ file = "live" /\ k.whole /\ k.op = "read" => InPlace(k, mv)
      /\ mv \in SUBSET (Int \X Int)
  <2>1. CASE k.index \in stored
    <3>1. /\ Done(k, moved[c] \cup Piece(k), k.last + Length(k), file)
          /\ file = "live" /\ k.whole /\ k.op = "read"
               => InPlace(k, moved[c] \cup Piece(k))
          /\ moved[c] \cup Piece(k) \in SUBSET (Int \X Int)
      BY <1>2, Moving, Zenon
    <3>2. mv = moved[c] \cup Piece(k)
      BY <1>4, <2>1
    <3> HIDE DEF mv
    <3>3. QED
      BY <3>1, <3>2, Zenon
  <2>2. CASE k.index \notin stored
    BY <1>3, <1>4, <1>5, <2>2 DEF Done
  <2>3. QED
    BY <2>1, <2>2
<1>7. file = "live" /\ k.whole => Touched(k.offset, k.size) \subseteq chunks
  BY <1>2 DEF Client
<1> HIDE DEF mv
<1>8. ASSUME k.mode = "bulk", NEW j, j = Cut(Advance(k))
      PROVE  Client(IF j.mode = "tail" /\ j.left = 0 THEN "done" ELSE "locate",
                    j, mv, file, chunks)
  <2>1. Length(k) = k.new
    BY <1>8 DEF Length
  <2>2. /\ Ready(Advance(k)) /\ Advance(k).last = k.last + k.new
        /\ Advance(k).op = k.op /\ Advance(k).offset = k.offset
        /\ Advance(k).size = k.size /\ Advance(k).whole = k.whole
    BY <1>3, <1>8, AdvanceReady
  <2>3. /\ Shape(j, file) /\ j.mode \in {"bulk", "tail"}
        /\ j.op = k.op /\ j.offset = k.offset /\ j.size = k.size
        /\ j.whole = k.whole /\ j.last = k.last + Length(k)
    BY <1>8, <2>1, <2>2, CutShape
  <2>4. Done(j, mv, j.last, file)
    BY <1>6, <2>3 DEF Done, Prefix
  <2>5. file = "live" /\ j.whole => /\ Touched(j.offset, j.size) \subseteq chunks
                                    /\ j.op = "read" => InPlace(j, mv)
    BY <1>6, <1>7, <2>3 DEF InPlace
  <2>6. QED
    BY <1>6, <2>3, <2>4, <2>5, GoingOn, Zenon
<1>9. ASSUME k.mode # "bulk" PROVE Client("done", k, mv, file, chunks)
  <2>1. k.last \in Nat /\ k.size \in Nat /\ k.left \in Nat
    BY <1>3 DEF Shape, AtByte, Locals
  <2>2. k.op = "write" => k.last + Length(k) = k.size
    BY <1>3, <1>9, <2>1 DEF Shape, Length
  <2>3. file = "live" /\ k.whole /\ k.op = "read" => k.last + Length(k) >= k.size
    BY <1>3, <1>9, <2>1 DEF Shape, Length, Past
  <2>4. Length(k) \in Nat
    BY <1>3, <1>9, <2>1 DEF Shape, Length
  <2>5. Done(k, mv, k.size, file)
    BY <1>6, <2>1, <2>2, <2>3, <2>4 DEF Done
  <2>6. QED
    BY <1>3, <1>6, <1>7, <2>5 DEF Client
<1>10. Client(pc'[c], call'[c], mv, file, chunks)
  <2>1. CASE k.mode = "bulk"
    BY <1>8, <2>1 DEF Move, Continue, Goto, TypeOK
  <2>2. CASE k.mode # "bulk"
    BY <1>9, <2>2 DEF Move, Goto, TypeOK
  <2>3. QED
    BY <2>1, <2>2
<1>11. \A d \in Clients \ {c} : /\ pc'[d] = pc[d] /\ call'[d] = call[d]
                                /\ moved'[d] = moved[d]
  BY DEF Move, Continue, Goto, TypeOK
<1>12. (file' = "live" => file = "live" /\ chunks \subseteq chunks')
       /\ (file' = "live" => chunks' \subseteq stored' /\ doomed' = {})
  BY <1>1 DEF Tiling
<1>13. Client(pc'[c], call'[c], moved'[c], file', chunks')
  BY <1>1, <1>10 DEF mv
<1>14. QED
  BY <1>11, <1>12, <1>13, OneMoves

LEMMA ReturnKeeps ==
  ASSUME TypeOK, Tiling, NEW c \in Clients, Return(c)
  PROVE  Tiling'
<1>1. UNCHANGED <<file, chunks, stored, doomed>>
  BY DEF Return, catalog
<1>2. pc'[c] = "idle" /\ call'[c] = NoCall /\ moved'[c] = {}
  BY DEF Return, Goto, TypeOK
<1>3. Client("idle", NoCall, {}, file, chunks)
  BY DEF Client, NoCall
<1>4. \A d \in Clients \ {c} : /\ pc'[d] = pc[d] /\ call'[d] = call[d]
                               /\ moved'[d] = moved[d]
  BY DEF Return, Goto, TypeOK
<1>5. (file' = "live" => file = "live" /\ chunks \subseteq chunks')
      /\ (file' = "live" => chunks' \subseteq stored' /\ doomed' = {})
  BY <1>1 DEF Tiling
<1>6. Client(pc'[c], call'[c], moved'[c], file', chunks')
  BY <1>1, <1>2, <1>3
<1>7. QED
  BY <1>4, <1>5, <1>6, OneMoves

\* DeleteFileAndChunks moves no client, and after its start the file is not
\* alive any more.
LEMMA DeleteKeeps ==
  ASSUME TypeOK, Tiling, DeleteBegin \/ Forget \/ \E i \in doomed : DeleteChunk(i)
  PROVE  Tiling'
<1>1. UNCHANGED <<pc, call, moved>> /\ file' # "live"
  BY DEF DeleteBegin, Forget, DeleteChunk, Tiling
<1>2. ASSUME NEW d \in Clients
      PROVE  Client(pc[d], call[d], moved[d], file', chunks')
  <2>1. Client(pc[d], call[d], moved[d], file, chunks)
    BY DEF Tiling
  <2>2. QED
    BY <1>1, <2>1, Undisturbed
<1>3. QED
  BY <1>1, <1>2 DEF Tiling

-----------------------------------------------------------------------------
(* Theorems                                                                *)

\* Tiling says of every client that its local variables are typed.
LEMMA TilingTypes ==
  ASSUME Tiling, NEW c \in Clients
  PROVE  call[c] \in Locals /\ moved[c] \in SUBSET (Int \X Int)
<1>1. NoCall \in Locals
  BY DEF NoCall, Locals
<1>2. QED
  BY <1>1 DEF Tiling, Client, Shape, AtByte

LEMMA TilingInvariant == Spec => [](TypeOK /\ Tiling)
<1> USE SizeAssumption, RangeAssumption, FlagAssumption
<1>1. Init => TypeOK /\ Tiling
  <2> SUFFICES ASSUME Init PROVE TypeOK /\ Tiling
    OBVIOUS
  <2>1. TypeOK
    BY DEF Init, TypeOK, NoCall, Locals
  <2>2. Client("idle", NoCall, {}, file, chunks)
    BY DEF Client, NoCall
  <2>3. QED
    BY <2>1, <2>2 DEF Init, Tiling
<1>2. TypeOK /\ Tiling /\ [Next]_vars => TypeOK' /\ Tiling'
  <2> SUFFICES ASSUME TypeOK, Tiling, [Next]_vars PROVE TypeOK' /\ Tiling'
    OBVIOUS
  <2>1. CASE UNCHANGED vars
    BY <2>1 DEF vars, catalog, TypeOK, Tiling
  <2>2. CASE Next
    <3> DEFINE Catalog == /\ file' \in {"live", "dying", "gone"}
                          /\ chunks' \subseteq Nat /\ stored' \subseteq Nat
                          /\ doomed' \subseteq Nat /\ calls' \in 0..MaxCalls
               Places == pc' \in [Clients -> {"idle", "locate", "add", "move",
                                              "done", "failed", "stuck"}]
               Perclient == /\ call' = [c \in Clients |-> call'[c]]
                            /\ moved' = [c \in Clients |-> moved'[c]]
    <3>1. Tiling'
      BY <2>2, CallKeeps, LocateKeeps, AddKeeps, MoveKeeps, ReturnKeeps,
         DeleteKeeps DEF Next, Step
    <3>2. ASSUME NEW c \in Clients, Locate(c) PROVE Catalog /\ Places /\ Perclient
      <4>1. call[c].op \in {"write", "read"}
            /\ call[c].mode \in {"bulk", "tail", "single"}
        BY <3>2 DEF Locate, Tiling, Client, Shape, AtByte
      <4>2. Catalog
        BY <3>2 DEF Locate, catalog, TypeOK
      <4>3. Places
        BY <3>2, <4>1 DEF Locate, Missing, Continue, Goto, TypeOK
      <4>4. Perclient
        BY <3>2, <4>1 DEF Locate, Missing, Continue, Goto, TypeOK
      <4>5. QED
        BY <4>2, <4>3, <4>4
    <3>3. ASSUME NEW c \in Clients, AddChunk(c) PROVE Catalog /\ Places /\ Perclient
      <4>1. call[c].index \in Nat
        BY DEF TypeOK, Locals
      <4>2. QED
        BY <3>3, <4>1 DEF AddChunk, Goto, catalog, TypeOK
    <3>4. ASSUME NEW c \in Clients, Move(c) PROVE Catalog /\ Places /\ Perclient
      BY <3>4 DEF Move, Continue, Goto, catalog, TypeOK
    <3>5. ASSUME NEW c \in Clients, Return(c) PROVE Catalog /\ Places /\ Perclient
      BY <3>5 DEF Return, Goto, catalog, TypeOK
    <3>6. ASSUME NEW c \in Clients, NEW op, NEW offset, NEW size,
                 Call(c, op, offset, size)
          PROVE  Catalog /\ Places /\ Perclient
      <4>1. Catalog
        BY <3>6 DEF Call, catalog, TypeOK
      <4>2. Places
        BY <3>6 DEF Call, Continue, Goto, TypeOK
      <4>3. Perclient
        BY <3>6 DEF Call, Continue, TypeOK
      <4>4. QED
        BY <4>1, <4>2, <4>3
    <3>7. ASSUME DeleteBegin \/ Forget \/ \E i \in doomed : DeleteChunk(i)
          PROVE  Catalog /\ Places /\ Perclient
      BY <3>7 DEF DeleteBegin, Forget, DeleteChunk, TypeOK
    <3>8. Catalog /\ Places /\ Perclient
      BY <2>2, <3>2, <3>3, <3>4, <3>5, <3>6, <3>7 DEF Next, Step
    <3>9. \A c \in Clients : call'[c] \in Locals /\ moved'[c] \in SUBSET (Int \X Int)
      <4>1. NoCall \in Locals
        BY DEF NoCall, Locals
      <4>2. QED
        BY <3>1, <4>1 DEF Tiling, Client, Shape, AtByte
    <3>10. call' \in [Clients -> Locals]
           /\ moved' \in [Clients -> SUBSET (Int \X Int)]
      BY <3>8, <3>9
    <3>11. QED
      BY <3>1, <3>8, <3>10 DEF TypeOK
  <2>3. QED
    BY <2>1, <2>2
<1>3. QED
  BY <1>1, <1>2, PTL DEF Spec

\* Type correctness, with what it says of the arithmetic: newsize, lastsize and
\* len(leftdata) are never negative.
THEOREM TypeCorrect == Spec => []TypeOK
  BY TilingInvariant, PTL

\* For every chunk size and range, a write() that returns true has tiled its
\* range: each byte once, in its place, and no other.
THEOREM WriteTilesHolds == Spec => []WriteTiles
<1>1. TypeOK /\ Tiling => WriteTiles
  BY DEF Tiling, Client, Done, Prefix, WriteTiles, Asked
<1>2. QED
  BY <1>1, TilingInvariant, PTL

\* For every chunk size and range, a read() of chunks that are there returns
\* the bytes of its range in order, though its length may be wrong.
THEOREM ReadInOrderHolds == Spec => []ReadInOrder
<1> USE RangeAssumption
<1>1. TypeOK /\ Tiling => ReadInOrder
  <2> SUFFICES ASSUME TypeOK, Tiling, NEW c \in Clients, call[c].op = "read",
                      call[c].whole, file = "live"
               PROVE  /\ \A b \in moved[c] :
                           b[2] < call[c].size => b[1] = call[c].offset + b[2]
                      /\ pc[c] = "done" => Asked(call[c]) \subseteq moved[c]
    BY DEF ReadInOrder
  <2>1. Client(pc[c], call[c], moved[c], file, chunks)
    BY DEF Tiling
  <2>2. InPlace(call[c], moved[c])
    BY <2>1 DEF Client
  <2>3. ASSUME pc[c] = "done" PROVE Asked(call[c]) \subseteq moved[c]
    <3>1. call[c].size \in Nat
      BY DEF TypeOK, Locals
    <3>2. \A i \in Nat : i < call[c].size => <<call[c].offset + i, i>> \in moved[c]
      BY <2>1, <2>3 DEF Client, Done
    <3>3. QED
      BY <3>1, <3>2 DEF Asked
  <2>4. QED
    BY <2>2, <2>3 DEF InPlace
<1>2. QED
  BY <1>1, TilingInvariant, PTL

\* Without empty writes, no write() asks a chunkserver to go over the end of a
\* chunk, whatever the width of the machine's word.
THEOREM PieceFitsHolds ==
  ASSUME 0 \notin Sizes
  PROVE  Spec => []PieceFits
<1> USE SizeAssumption, RangeAssumption, WordAssumption
<1>1. TypeOK /\ Tiling => PieceFits
  <2> SUFFICES ASSUME TypeOK, Tiling, NEW c \in Clients, pc[c] = "move",
                      call[c].op = "write"
               PROVE  Byteend(call[c]) < ChunkSize
    BY DEF PieceFits
  <2> DEFINE k == call[c]
  <2>1. Client("move", k, moved[c], file, chunks)
    BY DEF Tiling
  <2>2. Shape(k, file) /\ (k.mode = "tail" => k.left > 0)
    BY <2>1 DEF Client
  <2>3. k.coff \in Nat /\ k.size \in Nat \ {0} /\ k.left \in Nat /\ k.new \in Nat
    BY <2>2 DEF Shape, AtByte, Locals
  <2>4. Length(k) \in Nat \ {0} /\ k.coff + Length(k) <= ChunkSize
    BY <2>2, <2>3 DEF Length, Shape, AtByte
  <2> DEFINE n == k.coff + Length(k) - 1
  <2>5. n \in Nat /\ n < ChunkSize /\ n < Word
    BY <2>3, <2>4
  <2> HIDE DEF n
  <2>6. n % Word = n
    BY <2>5, Z3
  <2>7. QED
    BY <2>5, <2>6 DEF Byteend, n
<1>2. QED
  BY <1>1, TilingInvariant, PTL
============================================================================
