---------------------------- MODULE DeflateProofs ----------------------------
(***************************************************************************)
(* Theorems about Deflate and the cache it reads through, for every source *)
(* length, block size, header size, cache capacity and set of clients, and *)
(* every compressor that packs a block into a bounded run.                 *)
(***************************************************************************)
EXTENDS Deflate, SequenceTheorems, TLAPS

\* Removing an element closes the gap.
LEMMA RemoveOne ==
  ASSUME NEW S, NEW s \in Seq(S), NEW i \in 1 .. Len(s)
  PROVE  /\ RemoveAt(s, i) \in Seq(S)
         /\ Len(RemoveAt(s, i)) = Len(s) - 1
         /\ \A j \in 1 .. Len(s) - 1 : RemoveAt(s, i)[j] = s[IF j < i THEN j ELSE j + 1]
<1> DEFINE p == SubSeq(s, 1, i - 1)
           q == SubSeq(s, i + 1, Len(s))
<1>1. p \in Seq(S) /\ Len(p) = i - 1 /\ \A j \in 1 .. i - 1 : p[j] = s[j]
  OBVIOUS
<1>2. q \in Seq(S) /\ Len(q) = Len(s) - i /\ \A j \in 1 .. Len(s) - i : q[j] = s[i + j]
  OBVIOUS
<1>3. RemoveAt(s, i) = p \o q
  BY DEF RemoveAt
<1> HIDE DEF p, q
<1>4. /\ p \o q \in Seq(S) /\ Len(p \o q) = Len(p) + Len(q)
      /\ \A j \in 1 .. Len(p) + Len(q) :
            (p \o q)[j] = IF j <= Len(p) THEN p[j] ELSE q[j - Len(p)]
  BY <1>1, <1>2, ConcatProperties
<1>5. i \in Nat /\ Len(s) \in Nat /\ i <= Len(s)
  OBVIOUS
<1>6. ASSUME NEW j \in 1 .. Len(s) - 1
      PROVE  (p \o q)[j] = s[IF j < i THEN j ELSE j + 1]
  <2>1. CASE j < i
    BY <1>1, <1>2, <1>4, <1>5, <2>1
  <2>2. CASE ~(j < i)
    <3>1. j - (i - 1) \in 1 .. Len(s) - i /\ i + (j - (i - 1)) = j + 1
      BY <1>5, <2>2
    <3>2. (p \o q)[j] = q[j - (i - 1)]
      BY <1>1, <1>2, <1>4, <1>5, <2>2
    <3>3. q[j - (i - 1)] = s[j + 1]
      BY <1>2, <3>1
    <3> QED
      BY <2>2, <3>2, <3>3
  <2> QED
    BY <2>1, <2>2
<1> QED
  BY <1>1, <1>2, <1>3, <1>4, <1>5, <1>6

-----------------------------------------------------------------------------
(* The LRU cache                                                           *)

\* No key has two entries.
Distinct(order) == \A e, f \in DOMAIN order : order[e].key = order[f].key => e = f

\* MoveToFront: the entry of the key comes first, the others keep their order.
LEMMA TouchedList ==
  ASSUME NEW E, NEW order \in Seq(E), NEW k \in Keys(order)
  PROVE  \E i \in 1 .. Len(order) :
           /\ order[i].key = k
           /\ Touched(order, k) \in Seq(E)
           /\ Len(Touched(order, k)) = Len(order)
           /\ Touched(order, k)[1] = order[i]
           /\ \A j \in 2 .. Len(order) :
                Touched(order, k)[j] = order[IF j <= i THEN j - 1 ELSE j]
<1> DEFINE i == EntryOf(order, k)
           rest == RemoveAt(order, i)
<1>1. i \in 1 .. Len(order) /\ order[i].key = k
  <2>1. \E j \in DOMAIN order : order[j].key = k
    BY DEF Keys
  <2>2. i \in DOMAIN order /\ order[i].key = k
    BY <2>1 DEF EntryOf
  <2> QED
    BY <2>2
<1>2. Touched(order, k) = <<order[i]>> \o rest
  BY DEF Touched
<1> HIDE DEF i
<1>3. /\ rest \in Seq(E) /\ Len(rest) = Len(order) - 1
      /\ \A j \in 1 .. Len(order) - 1 : rest[j] = order[IF j < i THEN j ELSE j + 1]
  BY <1>1, RemoveOne
<1> HIDE DEF rest
<1>4. order[i] \in E
  BY <1>1
<1>5. /\ <<order[i]>> \o rest \in Seq(E) /\ Len(<<order[i]>> \o rest) = 1 + Len(rest)
      /\ (<<order[i]>> \o rest)[1] = order[i]
      /\ \A j \in 2 .. 1 + Len(rest) : (<<order[i]>> \o rest)[j] = rest[j - 1]
  BY <1>3, <1>4
<1>6. ASSUME NEW j \in 2 .. Len(order)
      PROVE  (<<order[i]>> \o rest)[j] = order[IF j <= i THEN j - 1 ELSE j]
  <2>1. j - 1 \in 1 .. Len(order) - 1 /\ (j - 1 < i <=> j <= i) /\ (j - 1) + 1 = j
    BY <1>1
  <2>2. rest[j - 1] = order[IF j - 1 < i THEN j - 1 ELSE (j - 1) + 1]
    BY <1>3, <2>1
  <2> QED
    BY <1>3, <1>5, <2>1, <2>2
<1>7. Len(<<order[i]>> \o rest) = Len(order)
  BY <1>1, <1>3, <1>5
<1> USE <1>1
<1> WITNESS i \in 1 .. Len(order)
<1> QED
  BY <1>1, <1>2, <1>5, <1>6, <1>7

\* Get changes no entry, loses none and gives no key a second one; what it finds
\* is the first entry afterwards.
LEMMA GetKeeps ==
  ASSUME NEW E, NEW order \in Seq(E), Distinct(order), NEW k
  PROVE  /\ AfterGet(order, k) \in Seq(E)
         /\ Len(AfterGet(order, k)) = Len(order)
         /\ Distinct(AfterGet(order, k))
         /\ \A j \in DOMAIN AfterGet(order, k) :
              \E i \in DOMAIN order : AfterGet(order, k)[j] = order[i]
         /\ k \in Keys(order) => /\ AfterGet(order, k) # << >>
                                 /\ Head(AfterGet(order, k)).key = k
<1>1. CASE k \notin Keys(order)
  BY <1>1 DEF AfterGet
<1>2. CASE k \in Keys(order)
  <2> DEFINE t == Touched(order, k)
  <2>1. PICK i \in 1 .. Len(order) :
           /\ order[i].key = k
           /\ t \in Seq(E) /\ Len(t) = Len(order) /\ t[1] = order[i]
           /\ \A j \in 2 .. Len(order) : t[j] = order[IF j <= i THEN j - 1 ELSE j]
    BY <1>2, TouchedList
  <2>2. AfterGet(order, k) = t
    BY <1>2 DEF AfterGet
  <2> HIDE DEF t
  <2> DEFINE from(j) == IF j = 1 THEN i ELSE IF j <= i THEN j - 1 ELSE j
  <2>3. \A j \in 1 .. Len(order) : from(j) \in 1 .. Len(order) /\ t[j] = order[from(j)]
    BY <2>1
  <2>4. \A j, l \in 1 .. Len(order) : from(j) = from(l) => j = l
    BY <2>1
  <2>5. DOMAIN t = 1 .. Len(order) /\ DOMAIN order = 1 .. Len(order)
    BY <2>1
  <2> HIDE DEF from
  <2>6. Distinct(t)
    BY <2>3, <2>4, <2>5 DEF Distinct
  <2>7. \A j \in DOMAIN t : \E l \in DOMAIN order : t[j] = order[l]
    BY <2>3, <2>5
  <2>8. t # << >> /\ Head(t).key = k
    BY <2>1
  <2> QED
    BY <2>1, <2>2, <2>6, <2>7, <2>8
<1> QED
  BY <1>1, <1>2

\* Put adds the entry it is given and no other, gives no key a second one, and
\* keeps the bound.
LEMMA PutKeeps ==
  ASSUME NEW E, NEW order \in Seq(E), Distinct(order), NEW k, NEW v, NEW capacity \in Int,
         [key |-> k, value |-> v] \in E,
         Len(order) <= IF capacity > 0 THEN capacity ELSE 0
  PROVE  /\ AfterPut(order, k, v, capacity) \in Seq(E)
         /\ Len(AfterPut(order, k, v, capacity)) <= IF capacity > 0 THEN capacity ELSE 0
         /\ Distinct(AfterPut(order, k, v, capacity))
         /\ \A j \in DOMAIN AfterPut(order, k, v, capacity) :
              \/ AfterPut(order, k, v, capacity)[j] = [key |-> k, value |-> v]
              \/ \E i \in DOMAIN order : AfterPut(order, k, v, capacity)[j] = order[i]
<1> DEFINE entry == [key |-> k, value |-> v]
           new == AfterPut(order, k, v, capacity)
<1>0. Len(order) \in Nat /\ DOMAIN order = 1 .. Len(order) /\ entry.key = k
  OBVIOUS
\* What is put in front of a list of other entries.
<1>1. ASSUME NEW rest \in Seq(E), new = <<entry>> \o rest, Len(rest) < capacity,
             \A j \in 1 .. Len(rest) : rest[j].key # k,
             \A j \in 1 .. Len(rest) : \E i \in DOMAIN order : rest[j] = order[i],
             \A j, l \in 1 .. Len(rest) : rest[j].key = rest[l].key => j = l
      PROVE  /\ new \in Seq(E)
             /\ Len(new) <= IF capacity > 0 THEN capacity ELSE 0
             /\ Distinct(new)
             /\ \A j \in DOMAIN new : \/ new[j] = entry
                                      \/ \E i \in DOMAIN order : new[j] = order[i]
  <2> HIDE DEF entry, new
  <2>1. entry \in E
    BY DEF entry
  <2>2. /\ new \in Seq(E) /\ Len(new) = 1 + Len(rest) /\ new[1] = entry
        /\ \A j \in 2 .. 1 + Len(rest) : new[j] = rest[j - 1]
        /\ Len(rest) \in Nat /\ DOMAIN new = 1 .. Len(new)
    BY <1>1, <2>1
  <2>3. \A j \in DOMAIN new : j # 1 => j - 1 \in 1 .. Len(rest) /\ new[j] = rest[j - 1]
    BY <2>2
  <2>4. Distinct(new)
    <3> SUFFICES ASSUME NEW j \in DOMAIN new, NEW l \in DOMAIN new, new[j].key = new[l].key
                 PROVE  j = l
      BY DEF Distinct
    <3>1. CASE j = 1 /\ l = 1
      BY <3>1
    <3>2. CASE j = 1 /\ l # 1
      BY <1>0, <1>1, <2>2, <2>3, <3>2
    <3>3. CASE j # 1 /\ l = 1
      BY <1>0, <1>1, <2>2, <2>3, <3>3
    <3>4. CASE j # 1 /\ l # 1
      <4>1. /\ j - 1 \in 1 .. Len(rest) /\ l - 1 \in 1 .. Len(rest)
            /\ rest[j - 1].key = rest[l - 1].key
        BY <2>3, <3>4
      <4>2. j - 1 = l - 1
        BY <1>1, <4>1
      <4> QED
        BY <2>2, <4>2
    <3> QED
      BY <3>1, <3>2, <3>3, <3>4
  <2>5. \A j \in DOMAIN new : new[j] = entry \/ \E i \in DOMAIN order : new[j] = order[i]
    BY <1>1, <2>2, <2>3
  <2>6. Len(new) <= IF capacity > 0 THEN capacity ELSE 0
    BY <1>1, <2>2
  <2> QED
    BY <2>2, <2>4, <2>5, <2>6
<1>2. CASE capacity <= 0
  <2>1. Keys(order) = {} /\ Len(order) <= 0
    BY <1>0, <1>2 DEF Keys
  <2>2. new = order
    BY <1>2, <2>1 DEF AfterPut
  <2> QED
    BY <2>1, <2>2, <1>2
<1>3. CASE capacity > 0 /\ k \in Keys(order)
  <2> DEFINE t == Touched(order, k)
  <2>1. PICK i \in 1 .. Len(order) :
           /\ order[i].key = k
           /\ t \in Seq(E) /\ Len(t) = Len(order) /\ t[1] = order[i]
           /\ \A j \in 2 .. Len(order) : t[j] = order[IF j <= i THEN j - 1 ELSE j]
    BY <1>3, TouchedList
  <2>2. new = <<entry>> \o Tail(t)
    BY <1>3 DEF AfterPut
  <2> HIDE DEF t, new
  <2>3. /\ Tail(t) \in Seq(E) /\ Len(Tail(t)) = Len(order) - 1
        /\ \A j \in 1 .. Len(order) - 1 : Tail(t)[j] = t[j + 1]
    BY <2>1
  <2> DEFINE from(j) == IF j < i THEN j ELSE j + 1
  <2>4. ASSUME NEW j \in 1 .. Len(Tail(t))
        PROVE  from(j) \in 1 .. Len(order) /\ from(j) # i /\ Tail(t)[j] = order[from(j)]
    <3>0. i \in Nat /\ j \in Nat /\ j >= 1 /\ j <= Len(order) - 1
      BY <1>0, <2>3
    <3>1. j + 1 \in 2 .. Len(order) /\ (j + 1 <= i <=> j < i) /\ (j + 1) - 1 = j
      BY <1>0, <3>0
    <3>2. t[j + 1] = order[IF j + 1 <= i THEN (j + 1) - 1 ELSE j + 1]
      BY <2>1, <3>1
    <3>3. Tail(t)[j] = order[from(j)]
      BY <2>3, <3>0, <3>1, <3>2
    <3> QED
      BY <1>0, <3>0, <3>3
  <2>5. \A j, l \in 1 .. Len(Tail(t)) : from(j) = from(l) => j = l
    BY <1>0, <2>1, <2>3
  <2> HIDE DEF from
  <2>0. \A e, f \in 1 .. Len(order) : order[e].key = order[f].key => e = f
    BY <1>0 DEF Distinct
  <2>6. ASSUME NEW j \in 1 .. Len(Tail(t)) PROVE Tail(t)[j].key # k
    BY <2>0, <2>1, <2>4
  <2>7. ASSUME NEW j \in 1 .. Len(Tail(t)), NEW l \in 1 .. Len(Tail(t)),
               Tail(t)[j].key = Tail(t)[l].key
        PROVE  j = l
    <3>1. from(j) = from(l)
      BY <2>0, <2>4, <2>7
    <3> QED
      BY <2>5, <3>1
  <2>8. Len(Tail(t)) < capacity
    BY <1>0, <1>3, <2>3
  <2> QED
    BY <1>0, <1>1, <2>2, <2>3, <2>4, <2>6, <2>7, <2>8 DEF new
<1>4. CASE capacity > 0 /\ k \notin Keys(order)
  <2> DEFINE rest == IF Len(order) < capacity THEN order ELSE Front(order)
  <2>1. new = <<entry>> \o rest
    BY <1>4 DEF AfterPut
  <2>2. /\ rest \in Seq(E) /\ Len(rest) < capacity /\ Len(rest) <= Len(order)
        /\ \A j \in 1 .. Len(rest) : rest[j] = order[j]
    <3>1. CASE Len(order) < capacity
      BY <1>0, <3>1
    <3>2. CASE ~(Len(order) < capacity)
      <4>0. Len(order) <= capacity
        BY <1>4
      <4>6. Len(order) \in Int /\ Len(order) >= capacity
        BY <1>0, <3>2
      <4>1. Len(order) = capacity
        BY <4>0, <4>6
      <4>5. Len(order) - 1 \in Nat
        BY <1>0, <1>4, <4>1
      <4>2. rest = SubSeq(order, 1, Len(order) - 1)
        BY <3>2 DEF Front
      <4> QED
        BY <1>0, <4>1, <4>5, <4>2
    <3> QED
      BY <3>1, <3>2
  <2> HIDE DEF rest, new
  <2>3. \A j \in 1 .. Len(rest) : j \in DOMAIN order
    BY <1>0, <2>2
  <2>4. \A j \in 1 .. Len(rest) : rest[j].key # k
    BY <1>4, <2>2, <2>3 DEF Keys
  <2>5. \A j, l \in 1 .. Len(rest) : rest[j].key = rest[l].key => j = l
    BY <2>2, <2>3 DEF Distinct
  <2> QED
    BY <1>1, <2>1, <2>2, <2>3, <2>4, <2>5 DEF new
<1> QED
  BY <1>2, <1>3, <1>4

-----------------------------------------------------------------------------
(* The inductive invariant                                                 *)

Cell == {Hole, Caller} \cup [is : {"int"}, n : Nat]
        \cup [is : {"piece"}, block : 0 .. MaxBlocks - 1,
              part : 1 .. MaxPacked, of : 1 .. MaxPacked]

Block == 0 .. MaxBlocks - 1

\* The index entry of block j is the two cells behind this position.
EntryAt(j) == IndexStart + 2 * j

\* Block j can be read: its entry is written and spans all of its run.
StoredBlock(j) ==
    \E s \in 0 .. Len(out), n \in 1 .. MaxPacked :
        /\ EntryAt(j) + 2 <= Len(out)
        /\ out[EntryAt(j) + 1] = IntCell(s)
        /\ out[EntryAt(j) + 2] = IntCell(s + n)
        /\ BlockStart + s + n <= Len(out)
        /\ \A k \in 1 .. n : out[BlockStart + s + k] = Piece(j, k, n)

EndAt(j) == BlockStart + Number(out[EntryAt(j) + 2])

\* The end of block j is not written, so its entry spans nothing.
OpenEntry(j) == EntryAt(j) + 2 <= Len(out) => Number(out[EntryAt(j) + 2]) = 0

\* Where the data of the blocks before the current one ends.
DataEnd == IF writer.at \in {"start", "end"} THEN writer.pos ELSE writer.next

\* The end of an entry is written last. Until then the entry is open, whatever the
\* writer has done and wherever it died.
FileInv ==
    /\ \A j \in Block : StoredBlock(j) \/ OpenEntry(j)
    /\ writer.at = "fields" =>
         writer.i < 5 /\ writer.next = BlockStart /\ \A j \in Block : OpenEntry(j)
    /\ writer.at \in {"data", "start", "end"} =>
         /\ writer.i \in Block /\ BlockStart <= DataEnd
         /\ \A j \in Block : j < writer.i => StoredBlock(j) /\ EndAt(j) <= DataEnd
         /\ \A j \in Block : j >= writer.i => OpenEntry(j)
    /\ writer.at \in {"start", "end"} =>
         \E n \in 1 .. MaxPacked :
            /\ writer.next = writer.pos + n /\ writer.next <= Len(out)
            /\ \A k \in 1 .. n : out[writer.pos + k] = Piece(writer.i, k, n)
    /\ writer.at = "end" =>
         /\ EntryAt(writer.i) + 1 <= Len(out)
         /\ out[EntryAt(writer.i) + 1] = IntCell(writer.pos - BlockStart)
    /\ writer.at = "done" => \A j \in Block : StoredBlock(j)

\* The file only grows after the reader was opened, and not if it was finished.
ReaderInv ==
    rdr # None => /\ rdr.size <= Len(out)
                  /\ rdr.finished => writer.at = "done" /\ rdr.size = Len(out)

\* What a ReadAt has copied is what the source holds there, and it carries the
\* block it is about to put into the cache.
GoodRead(r) ==
    /\ \A k \in 1 .. Len(r.got) : r.got[k] = r.off + k
    /\ r.at \in {"get", "fetch", "put"} => r.off + r.want <= Length /\ Len(r.got) < r.want
    /\ r.at = "ok" => r.off + r.want <= Length /\ Len(r.got) = r.want
    /\ r.at = "put" => r.block = BlockData(BlockOf(r))

ReadInv ==
    \A c \in Client :
        /\ GoodRead(read[c])
        /\ read[c].at # "idle" => rdr # None
        /\ read[c].at = "error" => ~rdr.finished

IInv == TypeOK /\ FileInv /\ ReaderInv /\ ReadInv /\ CacheCoherent

-----------------------------------------------------------------------------
(* Positions                                                               *)

\* A product that need not be looked into.
LEMMA BlockBase ==
  ASSUME NEW i \in Nat
  PROVE  i * BlockSize \in Nat /\ (i + 1) * BlockSize = i * BlockSize + BlockSize
  BY DeflateAssumption

\* Position q lies in block q \div BlockSize.
LEMMA BlockOfPosition ==
  ASSUME NEW q \in Nat
  PROVE  /\ q \div BlockSize \in Nat
         /\ (q \div BlockSize) * BlockSize <= q
         /\ q < (q \div BlockSize) * BlockSize + BlockSize
<1>1. q \div BlockSize \in Nat
  BY DeflateAssumption
<1>2. (q \div BlockSize) * BlockSize <= q
  BY DeflateAssumption
<1>3. q < (q \div BlockSize + 1) * BlockSize
  BY DeflateAssumption
<1> QED
  BY <1>1, <1>2, <1>3, BlockBase

\* maxBlocks is rounded up, so all of them are used and the last may be empty.
LEMMA LayoutOfFile ==
  /\ MaxBlocks \in Nat \ {0} /\ UsedBlocks = MaxBlocks
  /\ IndexStart \in Nat /\ BlockStart \in Nat /\ BlockStart = IndexStart + 2 * MaxBlocks
  /\ FieldsAt \in Nat /\ FieldsAt + 5 <= IndexStart /\ HeaderSize <= IndexStart
  /\ MaxPacked \in Nat \ {0} /\ Length \in Nat /\ BlockSize \in Nat \ {0}
  /\ HeaderSize \in Nat
<1>1. /\ Length \div BlockSize \in Nat
      /\ Length < (Length \div BlockSize) * BlockSize + BlockSize
  BY DeflateAssumption, BlockOfPosition
<1>2. MaxBlocks \in Nat \ {0}
  BY <1>1 DEF MaxBlocks
<1>3. MaxBlocks * BlockSize # Length
  BY <1>1, BlockBase, DeflateAssumption DEF MaxBlocks
<1>4. UsedBlocks = MaxBlocks
  BY <1>3 DEF UsedBlocks
<1> QED
  BY <1>2, <1>4, DeflateAssumption DEF IndexStart, BlockStart

LEMMA BlockCount ==
  ASSUME NEW q \in Nat, q <= Length
  PROVE  q \div BlockSize \in Block
<1>1. q \div BlockSize <= Length \div BlockSize
  BY DeflateAssumption
<1> QED
  BY <1>1, BlockOfPosition, DeflateAssumption DEF MaxBlocks, Block

\* The cells of block i of the source.
LEMMA BlockDataOf ==
  ASSUME NEW i \in Block
  PROVE  /\ i * BlockSize \in Nat /\ i * BlockSize <= Length
         /\ BlockData(i) \in Seq(1 .. Length)
         /\ Len(BlockData(i)) = MinOf(BlockSize, Length - i * BlockSize)
         /\ \A k \in 1 .. Len(BlockData(i)) : BlockData(i)[k] = i * BlockSize + k
<1> DEFINE a == i * BlockSize
           b == MinOf(Length, (i + 1) * BlockSize)
<1>1. i \in Nat /\ i <= Length \div BlockSize /\ Length \div BlockSize \in Nat
  BY LayoutOfFile, BlockOfPosition DEF Block, MaxBlocks
<1>2. a \in Nat /\ (i + 1) * BlockSize = a + BlockSize
  BY <1>1, BlockBase
<1>3. a <= Length
  <2>1. a <= (Length \div BlockSize) * BlockSize
    BY <1>1, DeflateAssumption
  <2>2. (Length \div BlockSize) * BlockSize <= Length /\ (Length \div BlockSize) * BlockSize \in Nat
    BY <1>1, LayoutOfFile, BlockOfPosition, BlockBase
  <2> QED
    BY <1>2, <2>1, <2>2, LayoutOfFile
<1> HIDE DEF a
<1>4. /\ b \in Nat /\ a <= b /\ b <= Length
      /\ b - a = MinOf(BlockSize, Length - a)
  BY <1>2, <1>3, LayoutOfFile DEF MinOf
<1> HIDE DEF b
<1>5. \A k \in a + 1 .. b : Source[k] = k /\ k \in 1 .. Length
  BY <1>2, <1>4, LayoutOfFile DEF Source
<1>6. /\ SubSeq(Source, a + 1, b) \in Seq(1 .. Length)
      /\ Len(SubSeq(Source, a + 1, b)) = IF a + 1 <= b THEN b - (a + 1) + 1 ELSE 0
      /\ \A k \in 1 .. b - (a + 1) + 1 : SubSeq(Source, a + 1, b)[k] = Source[a + 1 + k - 1]
  <2>1. a + 1 \in Int /\ b \in Int /\ \A k \in a + 1 .. b : Source[k] \in 1 .. Length
    BY <1>2, <1>4, <1>5
  <2> QED
    BY <2>1, SubSeqProperties
<1>7. BlockData(i) = SubSeq(Source, a + 1, b)
  BY DEF BlockData, a, b
<1>8. Len(BlockData(i)) = b - a
  BY <1>2, <1>4, <1>6, <1>7
<1>9. ASSUME NEW k \in 1 .. b - a PROVE BlockData(i)[k] = a + k
  <2>1. k \in 1 .. b - (a + 1) + 1 /\ a + 1 + k - 1 = a + k /\ a + k \in a + 1 .. b
    BY <1>2, <1>4
  <2> QED
    BY <1>5, <1>6, <1>7, <2>1
<1> QED
  BY <1>2, <1>3, <1>4, <1>6, <1>7, <1>8, <1>9 DEF a

-----------------------------------------------------------------------------
(* Writing the file                                                        *)

\* WriteAt changes the cells it is given and no others, and fills a gap with holes.
LEMMA WriteCells ==
  ASSUME NEW f \in Seq(Cell), NEW at \in Nat, NEW cells \in Seq(Cell)
  PROVE  /\ Written(f, at, cells) \in Seq(Cell)
         /\ Len(f) <= Len(Written(f, at, cells))
         /\ at + Len(cells) <= Len(Written(f, at, cells))
         /\ \A k \in 1 .. Len(cells) : Written(f, at, cells)[at + k] = cells[k]
         /\ \A p \in 1 .. Len(Written(f, at, cells)) : p \notin at + 1 .. at + Len(cells) =>
              Written(f, at, cells)[p] = IF p <= Len(f) THEN f[p] ELSE Hole
         /\ \A p \in 1 .. Len(f) : p \notin at + 1 .. at + Len(cells) =>
              Written(f, at, cells)[p] = f[p]
<1> DEFINE w == Written(f, at, cells)
           n == IF at + Len(cells) > Len(f) THEN at + Len(cells) ELSE Len(f)
<1>1. Len(f) \in Nat /\ Len(cells) \in Nat /\ n \in Nat /\ Len(f) <= n /\ at + Len(cells) <= n
  OBVIOUS
<1>2. \A p \in 1 .. n : p \in at + 1 .. at + Len(cells) =>
        p - at \in 1 .. Len(cells) /\ cells[p - at] \in Cell
  BY <1>1
<1>3. \A p \in 1 .. n : p <= Len(f) => f[p] \in Cell
  BY <1>1
<1>4. Hole \in Cell
  BY DEF Cell
<1> DEFINE c(p) == CASE p \in at + 1 .. at + Len(cells) -> cells[p - at]
                     [] p \notin at + 1 .. at + Len(cells) /\ p <= Len(f) -> f[p]
                     [] OTHER -> Hole
<1>5. w = [p \in 1 .. n |-> c(p)]
  BY DEF Written
<1> HIDE DEF n, w
<1>6. /\ \A p \in 1 .. n : p \in at + 1 .. at + Len(cells) => c(p) = cells[p - at]
      /\ \A p \in 1 .. n : p \notin at + 1 .. at + Len(cells) =>
           c(p) = IF p <= Len(f) THEN f[p] ELSE Hole
  OBVIOUS
<1>7. \A p \in 1 .. n : c(p) \in Cell
  BY <1>2, <1>3, <1>4, <1>6
<1> HIDE DEF c
<1>8. w \in Seq(Cell) /\ Len(w) = n /\ \A p \in 1 .. n : w[p] = c(p)
  BY <1>1, <1>5, <1>7
<1>9. \A k \in 1 .. Len(cells) : w[at + k] = cells[k]
  <2> SUFFICES ASSUME NEW k \in 1 .. Len(cells) PROVE w[at + k] = cells[k]
    OBVIOUS
  <2>1. at + k \in 1 .. n /\ at + k \in at + 1 .. at + Len(cells) /\ at + k - at = k
    BY <1>1
  <2> QED
    BY <1>6, <1>8, <2>1
<1>10. \A p \in 1 .. n : p \notin at + 1 .. at + Len(cells) =>
         w[p] = IF p <= Len(f) THEN f[p] ELSE Hole
  BY <1>6, <1>8
<1>11. \A p \in 1 .. Len(f) : p \in 1 .. n /\ p <= Len(f)
  BY <1>1
<1>12. \A p \in 1 .. Len(f) : p \notin at + 1 .. at + Len(cells) => w[p] = f[p]
  BY <1>10, <1>11
<1> QED
  BY <1>1, <1>8, <1>9, <1>10, <1>12 DEF w

LEMMA NumberIsNat ==
  ASSUME NEW cell \in Cell
  PROVE  Number(cell) \in Nat
  BY DEF Cell, Number, Hole, Caller

\* A write away from the entry and the data of a stored block leaves it stored.
LEMMA KeepBlock ==
  ASSUME out \in Seq(Cell), NEW j \in Block, NEW at \in Nat, NEW cells \in Seq(Cell),
         out' = Written(out, at, cells), StoredBlock(j),
         EntryAt(j) + 1 \notin at + 1 .. at + Len(cells),
         EntryAt(j) + 2 \notin at + 1 .. at + Len(cells),
         at >= EndAt(j) \/ at + Len(cells) <= BlockStart
  PROVE  StoredBlock(j)' /\ EndAt(j)' = EndAt(j)
<1>1. PICK s \in 0 .. Len(out), n \in 1 .. MaxPacked :
        /\ EntryAt(j) + 2 <= Len(out)
        /\ out[EntryAt(j) + 1] = IntCell(s)
        /\ out[EntryAt(j) + 2] = IntCell(s + n)
        /\ BlockStart + s + n <= Len(out)
        /\ \A k \in 1 .. n : out[BlockStart + s + k] = Piece(j, k, n)
  BY DEF StoredBlock
<1>2. /\ EntryAt(j) \in Nat /\ BlockStart \in Nat /\ Len(out) \in Nat /\ Len(cells) \in Nat
      /\ s \in Nat /\ n \in Nat /\ n >= 1
  BY <1>1, LayoutOfFile DEF EntryAt, Block
<1>3. EndAt(j) = BlockStart + s + n
  BY <1>1, <1>2 DEF EndAt, Number, IntCell
<1>4. /\ Len(out) <= Len(out')
      /\ \A p \in 1 .. Len(out) : p \notin at + 1 .. at + Len(cells) => out'[p] = out[p]
  BY WriteCells, <1>2
<1>5. out'[EntryAt(j) + 1] = IntCell(s) /\ out'[EntryAt(j) + 2] = IntCell(s + n)
  <2>0. EntryAt(j) \in Nat /\ Len(out) \in Nat /\ EntryAt(j) + 2 <= Len(out)
    BY <1>1, <1>2
  <2>1. EntryAt(j) + 1 \in 1 .. Len(out) /\ EntryAt(j) + 2 \in 1 .. Len(out)
    BY <2>0
  <2>2. out'[EntryAt(j) + 1] = out[EntryAt(j) + 1]
    BY <1>4, <2>1
  <2>3. out'[EntryAt(j) + 2] = out[EntryAt(j) + 2]
    BY <1>4, <2>1
  <2> QED
    BY <1>1, <2>2, <2>3
<1>6. ASSUME NEW k \in 1 .. n PROVE out'[BlockStart + s + k] = Piece(j, k, n)
  <2>1. BlockStart + s + k \in 1 .. Len(out) /\ BlockStart + s + k \notin at + 1 .. at + Len(cells)
    BY <1>1, <1>2, <1>3
  <2> QED
    BY <1>1, <1>4, <2>1
<1>7. s \in 0 .. Len(out') /\ EntryAt(j) + 2 <= Len(out') /\ BlockStart + s + n <= Len(out')
  <2>1. Len(out') \in Nat
    BY WriteCells
  <2>2. /\ s \in 0 .. Len(out) /\ EntryAt(j) + 2 <= Len(out) /\ BlockStart + s + n <= Len(out)
        /\ Len(out) <= Len(out')
    BY <1>1, <1>4
  <2> QED
    BY <1>2, <2>1, <2>2
<1>8. StoredBlock(j)'
  BY <1>5, <1>6, <1>7 DEF StoredBlock
<1>9. EndAt(j)' = BlockStart + s + n
  BY <1>2, <1>5 DEF EndAt, Number, IntCell
<1> QED
  BY <1>3, <1>8, <1>9

\* A write away from the end of an open entry leaves it open.
LEMMA KeepOpen ==
  ASSUME out \in Seq(Cell), NEW j \in Block, NEW at \in Nat, NEW cells \in Seq(Cell),
         out' = Written(out, at, cells), OpenEntry(j),
         EntryAt(j) + 2 \notin at + 1 .. at + Len(cells)
  PROVE  OpenEntry(j)'
<1>1. EntryAt(j) \in Nat
  BY LayoutOfFile DEF EntryAt, Block
<1>2. /\ out' \in Seq(Cell)
      /\ \A p \in 1 .. Len(out') : p \notin at + 1 .. at + Len(cells) =>
           out'[p] = IF p <= Len(out) THEN out[p] ELSE Hole
  BY WriteCells
<1>3. Number(Hole) = 0
  BY DEF Number, Hole
<1> QED
  BY <1>1, <1>2, <1>3 DEF OpenEntry

\* Entries lie between the fields and the blocks, one behind the other.
LEMMA EntryPlace ==
  ASSUME NEW j \in Block
  PROVE  /\ j \in Nat /\ EntryAt(j) \in Nat /\ IndexStart <= EntryAt(j)
         /\ EntryAt(j) + 2 <= BlockStart
         /\ \A i \in Block : i < j => EntryAt(i) + 2 <= EntryAt(j)
  BY LayoutOfFile DEF EntryAt, Block

LEMMA EntriesApart ==
  ASSUME NEW i \in Block, NEW j \in Block, i # j, NEW a \in {1, 2}, NEW b \in {1, 2}
  PROVE  EntryAt(i) + a # EntryAt(j) + b
<1>1. i < j \/ j < i
  BY EntryPlace
<1>2. /\ EntryAt(i) \in Nat /\ EntryAt(j) \in Nat
      /\ EntryAt(i) + 2 <= EntryAt(j) \/ EntryAt(j) + 2 <= EntryAt(i)
  BY <1>1, EntryPlace
<1> QED
  BY <1>2

LEMMA FieldValues ==
  Len(Fields) = 5 /\ \A i \in 0 .. 4 : Fields[i + 1] \in Nat
<1>1. \A k \in 1 .. 5 : Fields[k] \in Nat
  BY LayoutOfFile DEF Fields
<1>2. \A i \in 0 .. 4 : i + 1 \in 1 .. 5
  OBVIOUS
<1>3. Len(Fields) = 5
  BY DEF Fields
<1> QED
  BY <1>1, <1>2, <1>3

LEMMA TypeOfState ==
  ASSUME TypeOK
  PROVE  /\ out \in Seq(Cell)
         /\ writer \in [at : Steps, i : Nat, pos : Nat, next : Nat]
         /\ writer.i \in Nat /\ writer.pos \in Nat /\ writer.next \in Nat
  BY DEF TypeOK, Cell

LEMMA WriteFieldFile == TypeOK /\ FileInv /\ WriteField => FileInv' /\ out' \in Seq(Cell) /\ Len(out) <= Len(out')
<1> SUFFICES ASSUME TypeOK, FileInv, WriteField
             PROVE  FileInv' /\ out' \in Seq(Cell) /\ Len(out) <= Len(out')
  OBVIOUS
<1> USE LayoutOfFile, TypeOfState
<1> DEFINE at == FieldsAt + writer.i
           cells == <<IntCell(Fields[writer.i + 1])>>
<1>1. writer.i \in 0 .. 4 /\ writer.next = BlockStart /\ writer.at = "fields"
  <2>1. writer.at = "fields"
    BY DEF WriteField
  <2>2. writer.i < 5 /\ writer.next = BlockStart
    BY <2>1 DEF FileInv
  <2> QED
    BY <2>1, <2>2
<1>2. Fields[writer.i + 1] \in Nat /\ Len(Fields) = 5
  BY <1>1, FieldValues
<1>3. cells \in Seq(Cell) /\ Len(cells) = 1 /\ at \in Nat
  BY <1>1, <1>2 DEF IntCell, Cell
<1>4. out' = Written(out, at, cells)
  BY DEF WriteField
<1>5. ASSUME NEW j \in Block PROVE OpenEntry(j)'
  <2>3. EntryAt(j) \in Nat /\ IndexStart <= EntryAt(j) /\ FieldsAt + 5 <= IndexStart
    BY EntryPlace
  <2>5. at <= FieldsAt + 4
    BY <1>1
  <2> HIDE DEF at, cells
  <2>4. at + Len(cells) < EntryAt(j) + 2
    BY <1>3, <2>3, <2>5
  <2>1. EntryAt(j) + 2 \notin at + 1 .. at + Len(cells)
    BY <1>3, <2>3, <2>4
  <2>2. OpenEntry(j)
    BY <1>1 DEF FileInv
  <2> HIDE DEF at, cells
  <2> QED
    BY <1>3, <1>4, <2>1, <2>2, KeepOpen
<1>6. /\ writer'.next = BlockStart
      /\ \/ writer'.at = "fields" /\ writer'.i = writer.i + 1 /\ writer'.i < 5
         \/ writer'.at = "data" /\ writer'.i = 0
  <2>1. CASE writer.i + 1 < 5
    <3>1. writer' = [writer EXCEPT !.i = @ + 1]
      BY <1>2, <2>1 DEF WriteField
    <3> QED
      BY <1>1, <2>1, <3>1
  <2>2. CASE ~(writer.i + 1 < 5)
    <3>1. writer' = [writer EXCEPT !.i = 0, !.at = "data"]
      BY <1>2, <2>2 DEF WriteField
    <3> QED
      BY <1>1, <3>1
  <2> QED
    BY <2>1, <2>2
<1>7. 0 \in Block /\ \A j \in Block : ~(j < 0)
  BY DEF Block
<1>8. FileInv'
  <2>1. (\A j \in Block : StoredBlock(j) \/ OpenEntry(j))'
    BY <1>5
  <2>2. CASE writer'.at = "fields"
    BY <1>5, <1>6, <2>1, <2>2 DEF FileInv
  <2>3. CASE writer'.at = "data"
    <3>1. writer'.i = 0 /\ DataEnd' = BlockStart
      BY <1>6, <2>3 DEF DataEnd
    <3>2. /\ (writer.i \in Block /\ BlockStart <= DataEnd)'
          /\ (\A j \in Block : j < writer.i => StoredBlock(j) /\ EndAt(j) <= DataEnd)'
          /\ (\A j \in Block : j >= writer.i => OpenEntry(j))'
      BY <1>5, <1>7, <3>1
    <3> QED
      BY <2>1, <2>3, <3>2 DEF FileInv
  <2> QED
    BY <1>6, <2>2, <2>3
<1> HIDE DEF at, cells
<1> QED
  BY <1>3, <1>4, <1>8, WriteCells

LEMMA WriteDataFile == TypeOK /\ FileInv /\ WriteData => FileInv' /\ out' \in Seq(Cell) /\ Len(out) <= Len(out')
<1> SUFFICES ASSUME TypeOK, FileInv, WriteData
             PROVE  FileInv' /\ out' \in Seq(Cell) /\ Len(out) <= Len(out')
  OBVIOUS
<1> USE LayoutOfFile, TypeOfState
<1>1. PICK n \in 1 .. MaxPacked :
        /\ out' = Written(out, writer.next, [k \in 1 .. n |-> Piece(writer.i, k, n)])
        /\ writer' = [writer EXCEPT !.at = "start", !.pos = writer.next, !.next = @ + n]
  BY DEF WriteData
<1> DEFINE at == writer.next
           cells == [k \in 1 .. n |-> Piece(writer.i, k, n)]
<1>2. writer.at = "data" /\ writer.i \in Block /\ BlockStart <= at /\ DataEnd = at
  BY DEF WriteData, FileInv, DataEnd
<1>3. cells \in Seq(Cell) /\ Len(cells) = n /\ at \in Nat
  <2>1. \A k \in 1 .. n : Piece(writer.i, k, n) \in Cell
    BY <1>2 DEF Piece, Cell, Block
  <2> QED
    BY <2>1
<1>4. out' = Written(out, at, cells)
  BY <1>1
<1>5. /\ out' \in Seq(Cell) /\ Len(out) <= Len(out') /\ at + n <= Len(out')
      /\ \A k \in 1 .. n : out'[at + k] = Piece(writer.i, k, n)
  <2>1. \A k \in 1 .. n : cells[k] = Piece(writer.i, k, n)
    OBVIOUS
  <2> HIDE DEF cells, at
  <2>2. /\ Written(out, at, cells) \in Seq(Cell)
        /\ Len(out) <= Len(Written(out, at, cells))
        /\ at + Len(cells) <= Len(Written(out, at, cells))
        /\ \A k \in 1 .. Len(cells) : Written(out, at, cells)[at + k] = cells[k]
    BY <1>3, WriteCells
  <2> QED
    BY <1>3, <1>4, <2>1, <2>2
<1>6. /\ writer'.at = "start" /\ writer'.pos = at /\ writer'.next = at + n
      /\ writer'.i = writer.i /\ DataEnd' = at
  BY <1>1 DEF DataEnd
<1> HIDE DEF at, cells
<1>7. ASSUME NEW j \in Block
      PROVE  /\ j < writer.i => StoredBlock(j)' /\ EndAt(j)' <= at
             /\ j >= writer.i => OpenEntry(j)'
  <2>1. /\ EntryAt(j) + 1 \notin at + 1 .. at + Len(cells)
        /\ EntryAt(j) + 2 \notin at + 1 .. at + Len(cells)
    <3>1. EntryAt(j) \in Nat /\ EntryAt(j) + 2 <= BlockStart
      BY EntryPlace
    <3>2. BlockStart <= at /\ at \in Nat /\ Len(cells) \in Nat
      BY <1>2, <1>3
    <3> QED
      BY <3>1, <3>2
  <2>2. CASE j < writer.i
    <3>1. StoredBlock(j) /\ EndAt(j) <= at
      BY <1>2, <2>2 DEF FileInv
    <3>2. at >= EndAt(j)
      <4>1. EndAt(j) \in Nat
        <5>1. EntryAt(j) + 2 <= Len(out)
          BY <3>1 DEF StoredBlock
        <5>2. EntryAt(j) \in Nat
          BY EntryPlace
        <5>3. EntryAt(j) + 2 \in 1 .. Len(out)
          BY <5>1, <5>2
        <5> QED
          BY <5>3, NumberIsNat DEF EndAt
      <4> QED
        BY <1>3, <3>1, <4>1
    <3> QED
      BY <1>2, <1>3, <1>4, <2>1, <2>2, <3>1, <3>2, KeepBlock DEF Block
  <2>3. CASE j >= writer.i
    <3>1. OpenEntry(j)
      BY <1>2, <2>3 DEF FileInv
    <3> QED
      BY <1>2, <1>3, <1>4, <2>1, <2>3, <3>1, KeepOpen DEF Block
  <2> QED
    BY <2>2, <2>3
<1>8. \A j \in Block : j < writer.i \/ j >= writer.i
  BY <1>2 DEF Block
<1>9. FileInv'
  BY <1>2, <1>5, <1>6, <1>7, <1>8 DEF FileInv
<1> QED
  BY <1>5, <1>9

\* The two writes of an index entry: both keep the other blocks and the data.
LEMMA WriteEntry ==
  ASSUME TypeOK, FileInv, writer.at \in {"start", "end"}, NEW half \in {0, 1}, NEW m \in Nat,
         out' = Written(out, EntryAt(writer.i) + half, <<IntCell(m)>>)
  PROVE  /\ out' \in Seq(Cell) /\ Len(out) <= Len(out')
         /\ EntryAt(writer.i) + half + 1 <= Len(out')
         /\ out'[EntryAt(writer.i) + half + 1] = IntCell(m)
         /\ \A p \in 1 .. Len(out) : p # EntryAt(writer.i) + half + 1 => out'[p] = out[p]
         /\ \A j \in Block : j < writer.i => StoredBlock(j)' /\ EndAt(j)' <= DataEnd
         /\ \A j \in Block : j > writer.i => OpenEntry(j)'
         /\ half = 0 => \A j \in Block : j = writer.i => OpenEntry(j)'
<1> USE LayoutOfFile, TypeOfState
<1> DEFINE at == EntryAt(writer.i) + half
           cells == <<IntCell(m)>>
<1>1. writer.i \in Block /\ BlockStart <= DataEnd /\ DataEnd \in Nat
  BY DEF FileInv, DataEnd
<1>2. cells \in Seq(Cell) /\ Len(cells) = 1 /\ cells[1] = IntCell(m)
  BY DEF IntCell, Cell
<1>3. /\ at \in Nat /\ at + 1 <= BlockStart
      /\ at + 1 .. at + Len(cells) = {at + 1}
  BY <1>1, <1>2, EntryPlace
<1>4. out' = Written(out, at, cells)
  OBVIOUS
<1> HIDE DEF cells
<1>5. /\ out' \in Seq(Cell) /\ Len(out) <= Len(out') /\ at + 1 <= Len(out')
      /\ out'[at + 1] = IntCell(m)
      /\ \A p \in 1 .. Len(out) : p # at + 1 => out'[p] = out[p]
  <2> HIDE DEF at
  <2>1. /\ Written(out, at, cells) \in Seq(Cell)
        /\ Len(out) <= Len(Written(out, at, cells))
        /\ at + Len(cells) <= Len(Written(out, at, cells))
        /\ \A k \in 1 .. Len(cells) : Written(out, at, cells)[at + k] = cells[k]
        /\ \A p \in 1 .. Len(out) : p \notin at + 1 .. at + Len(cells) =>
             Written(out, at, cells)[p] = out[p]
    BY <1>2, <1>3, WriteCells
  <2>2. /\ out' \in Seq(Cell) /\ Len(out) <= Len(out')
        /\ at + Len(cells) <= Len(out')
        /\ \A k \in 1 .. Len(cells) : out'[at + k] = cells[k]
        /\ \A p \in 1 .. Len(out) : p \notin at + 1 .. at + Len(cells) => out'[p] = out[p]
    BY <1>4, <2>1
  <2>3. \A p \in 1 .. Len(out) : p # at + 1 => p \notin at + 1 .. at + Len(cells)
    BY <1>2, <1>3
  <2>4. 1 \in 1 .. Len(cells)
    BY <1>2
  <2>5. out'[at + 1] = IntCell(m)
    BY <1>2, <2>2, <2>4
  <2> QED
    BY <1>2, <2>2, <2>3, <2>5
<1>6. ASSUME NEW j \in Block, j < writer.i
      PROVE  StoredBlock(j)' /\ EndAt(j)' <= DataEnd
  <2>1. StoredBlock(j) /\ EndAt(j) <= DataEnd
    BY <1>6 DEF FileInv
  <2>2. EntryAt(j) + 1 # at + 1 /\ EntryAt(j) + 2 # at + 1
    <3>1. EntryAt(writer.i) \in Nat /\ at + 1 = EntryAt(writer.i) + (half + 1) /\ half + 1 \in {1, 2}
      BY <1>1, EntryPlace
    <3>2. j # writer.i
      BY <1>1, <1>6 DEF Block
    <3> QED
      BY <1>1, <3>1, <3>2, EntriesApart
  <2>3. StoredBlock(j)' /\ EndAt(j)' = EndAt(j)
    BY <1>2, <1>3, <1>4, <2>1, <2>2, KeepBlock
  <2> QED
    BY <2>1, <2>3
<1>7. ASSUME NEW j \in Block, j > writer.i \/ (j = writer.i /\ half = 0)
      PROVE  OpenEntry(j)'
  <2>1. OpenEntry(j)
    BY <1>1, <1>7 DEF FileInv, Block
  <2>2. EntryAt(j) + 2 # at + 1
    <3>1. EntryAt(writer.i) \in Nat /\ at + 1 = EntryAt(writer.i) + (half + 1) /\ half + 1 \in {1, 2}
      BY <1>1, EntryPlace
    <3>2. CASE j # writer.i
      BY <1>1, <3>1, <3>2, EntriesApart
    <3>3. CASE j = writer.i
      <4>1. half = 0
        BY <1>1, <1>7, <3>3 DEF Block
      <4> QED
        BY <3>1, <3>3, <4>1
    <3> QED
      BY <3>2, <3>3
  <2> QED
    BY <1>2, <1>3, <1>4, <2>1, <2>2, KeepOpen
<1>8. half = 0 => \A j \in Block : j = writer.i => OpenEntry(j)'
  BY <1>7
<1>9. \A j \in Block : j < writer.i => StoredBlock(j)' /\ EndAt(j)' <= DataEnd
  BY <1>6
<1>10. \A j \in Block : j > writer.i => OpenEntry(j)'
  BY <1>7
<1> QED
  BY <1>5, <1>8, <1>9, <1>10

\* The compressed block that waits for its entry lies behind every entry.
LEMMA RunKept ==
  ASSUME TypeOK, FileInv, writer.at \in {"start", "end"}, NEW half \in {0, 1}, NEW m \in Nat,
         out' = Written(out, EntryAt(writer.i) + half, <<IntCell(m)>>)
  PROVE  \E n \in 1 .. MaxPacked :
            /\ writer.next = writer.pos + n /\ writer.next <= Len(out')
            /\ \A k \in 1 .. n : out'[writer.pos + k] = Piece(writer.i, k, n)
<1> USE LayoutOfFile, TypeOfState
<1>1. PICK n \in 1 .. MaxPacked :
        /\ writer.next = writer.pos + n /\ writer.next <= Len(out)
        /\ \A k \in 1 .. n : out[writer.pos + k] = Piece(writer.i, k, n)
  BY DEF FileInv
<1>2. writer.i \in Block /\ BlockStart <= writer.pos
  BY DEF FileInv, DataEnd
<1>3. /\ Len(out) <= Len(out') /\ Len(out) \in Nat /\ Len(out') \in Nat
      /\ \A p \in 1 .. Len(out) : p # EntryAt(writer.i) + half + 1 => out'[p] = out[p]
  <2>1. /\ out' \in Seq(Cell) /\ Len(out) <= Len(out')
        /\ \A p \in 1 .. Len(out) : p # EntryAt(writer.i) + half + 1 => out'[p] = out[p]
    BY WriteEntry
  <2>2. out \in Seq(Cell)
    BY TypeOfState
  <2> QED
    BY <2>1, <2>2
<1>4. ASSUME NEW k \in 1 .. n PROVE out'[writer.pos + k] = Piece(writer.i, k, n)
  <2>2. EntryAt(writer.i) \in Nat /\ EntryAt(writer.i) + 2 <= BlockStart
    BY <1>2, EntryPlace
  <2>3. writer.pos \in Nat /\ k \in Nat /\ k >= 1 /\ k <= n /\ n \in Nat
    BY TypeOfState
  <2>4. writer.pos + k \in 1 .. Len(out)
    BY <1>1, <1>3, <2>3
  <2>5. writer.pos + k > EntryAt(writer.i) + 2
    BY <1>2, <2>2, <2>3
  <2>1. writer.pos + k \in 1 .. Len(out) /\ writer.pos + k # EntryAt(writer.i) + half + 1
    BY <2>2, <2>4, <2>5
  <2> QED
    BY <1>1, <1>3, <2>1
<1>5. writer.next <= Len(out')
  BY <1>1, <1>3
<1> QED
  BY <1>1, <1>4, <1>5

LEMMA WriteStartFile ==
  TypeOK /\ FileInv /\ WriteStart => FileInv' /\ out' \in Seq(Cell) /\ Len(out) <= Len(out')
<1> SUFFICES ASSUME TypeOK, FileInv, WriteStart
             PROVE  FileInv' /\ out' \in Seq(Cell) /\ Len(out) <= Len(out')
  OBVIOUS
<1> USE LayoutOfFile, TypeOfState
<1> DEFINE m == writer.pos - BlockStart
<1>1. writer.at = "start" /\ writer.i \in Block /\ BlockStart <= writer.pos /\ DataEnd = writer.pos
  <2>1. writer.at = "start"
    BY DEF WriteStart
  <2> QED
    BY <2>1 DEF FileInv, DataEnd
<1>2. m \in Nat
  BY <1>1
<1>3. out' = Written(out, EntryAt(writer.i) + 0, <<IntCell(m)>>)
  <2>1. EntryAt(writer.i) + 0 = IndexStart + 2 * writer.i
    BY DEF EntryAt
  <2> QED
    BY <2>1 DEF WriteStart
<1> HIDE DEF m
<1>4. /\ out' \in Seq(Cell) /\ Len(out) <= Len(out')
      /\ EntryAt(writer.i) + 0 + 1 <= Len(out')
      /\ out'[EntryAt(writer.i) + 0 + 1] = IntCell(m)
      /\ \A j \in Block : j < writer.i => StoredBlock(j)' /\ EndAt(j)' <= DataEnd
      /\ \A j \in Block : j > writer.i => OpenEntry(j)'
      /\ \A j \in Block : j = writer.i => OpenEntry(j)'
  BY <1>1, <1>2, <1>3, WriteEntry
<1>5. PICK n \in 1 .. MaxPacked :
            /\ writer.next = writer.pos + n /\ writer.next <= Len(out')
            /\ \A k \in 1 .. n : out'[writer.pos + k] = Piece(writer.i, k, n)
  BY <1>1, <1>2, <1>3, RunKept
<1>6. /\ writer'.at = "end" /\ writer'.i = writer.i /\ writer'.pos = writer.pos
      /\ writer'.next = writer.next /\ DataEnd' = writer.pos
  BY DEF WriteStart, DataEnd
<1>7. EntryAt(writer.i) + 0 + 1 = EntryAt(writer.i) + 1
  BY <1>1, EntryPlace
<1>8. \A j \in Block : j < writer.i \/ j = writer.i \/ j > writer.i
  BY <1>1 DEF Block
<1>9. (\A j \in Block : j >= writer.i => OpenEntry(j))'
  BY <1>1, <1>4, <1>6, <1>8 DEF Block
<1>10. (\A j \in Block : StoredBlock(j) \/ OpenEntry(j))'
  BY <1>4, <1>8
<1>11. (EntryAt(writer.i) + 1 <= Len(out)
        /\ out[EntryAt(writer.i) + 1] = IntCell(writer.pos - BlockStart))'
  BY <1>4, <1>6, <1>7 DEF m, EntryAt
<1>12. (/\ writer.i \in Block /\ BlockStart <= DataEnd
        /\ \A j \in Block : j < writer.i => StoredBlock(j) /\ EndAt(j) <= DataEnd)'
  BY <1>1, <1>4, <1>6
<1>13. (\E l \in 1 .. MaxPacked :
            /\ writer.next = writer.pos + l /\ writer.next <= Len(out)
            /\ \A k \in 1 .. l : out[writer.pos + k] = Piece(writer.i, k, l))'
  BY <1>5, <1>6
<1>14. FileInv'
  BY <1>6, <1>9, <1>10, <1>11, <1>12, <1>13 DEF FileInv
<1> QED
  BY <1>4, <1>14

LEMMA WriteEndFile ==
  TypeOK /\ FileInv /\ WriteEnd => FileInv' /\ out' \in Seq(Cell) /\ Len(out) <= Len(out')
<1> SUFFICES ASSUME TypeOK, FileInv, WriteEnd
             PROVE  FileInv' /\ out' \in Seq(Cell) /\ Len(out) <= Len(out')
  OBVIOUS
<1> USE LayoutOfFile, TypeOfState
<1> DEFINE i == writer.i
           s == writer.pos - BlockStart
           m == writer.next - BlockStart
<1>1. writer.at = "end" /\ i \in Block /\ BlockStart <= writer.pos /\ DataEnd = writer.pos
  <2>1. writer.at = "end"
    BY DEF WriteEnd
  <2> QED
    BY <2>1 DEF FileInv, DataEnd
<1>2. PICK n \in 1 .. MaxPacked :
            /\ writer.next = writer.pos + n
            /\ writer.next <= Len(out)
  BY <1>1 DEF FileInv
<1>3. m \in Nat /\ s \in Nat /\ m = s + n /\ BlockStart + s = writer.pos
  BY <1>1, <1>2
<1>4. out' = Written(out, EntryAt(i) + 1, <<IntCell(m)>>)
  <2>1. EntryAt(i) + 1 = IndexStart + 2 * writer.i + 1
    BY DEF EntryAt
  <2> QED
    BY <2>1 DEF WriteEnd
<1>5. EntryAt(i) + 1 <= Len(out) /\ out[EntryAt(i) + 1] = IntCell(s)
  BY <1>1 DEF FileInv
<1> HIDE DEF m, s
<1>6. /\ out' \in Seq(Cell) /\ Len(out) <= Len(out')
      /\ EntryAt(i) + 1 + 1 <= Len(out')
      /\ out'[EntryAt(i) + 1 + 1] = IntCell(m)
      /\ \A p \in 1 .. Len(out) : p # EntryAt(i) + 1 + 1 => out'[p] = out[p]
      /\ \A j \in Block : j < i => StoredBlock(j)' /\ EndAt(j)' <= DataEnd
      /\ \A j \in Block : j > i => OpenEntry(j)'
  BY <1>1, <1>3, <1>4, WriteEntry
<1>7. PICK l \in 1 .. MaxPacked :
            /\ writer.next = writer.pos + l /\ writer.next <= Len(out')
            /\ \A k \in 1 .. l : out'[writer.pos + k] = Piece(writer.i, k, l)
  BY <1>1, <1>3, <1>4, RunKept
<1>8. l = n
  BY <1>2, <1>7
<1>9. EntryAt(i) \in Nat /\ EntryAt(i) + 1 + 1 = EntryAt(i) + 2 /\ Len(out) \in Nat /\ Len(out') \in Nat
  BY <1>1, <1>6, EntryPlace
<1>10. ASSUME NEW j \in Block, j = i
       PROVE  StoredBlock(j)' /\ EndAt(j)' = writer.next
  <2>0. EntryAt(i) + 1 \in 1 .. Len(out) /\ EntryAt(i) + 1 # EntryAt(i) + 1 + 1
    BY <1>5, <1>9
  <2>1. out'[EntryAt(j) + 1] = IntCell(s)
    BY <1>5, <1>6, <1>10, <2>0
  <2>2. out'[EntryAt(j) + 2] = IntCell(s + n) /\ EntryAt(j) + 2 <= Len(out')
    BY <1>3, <1>6, <1>9, <1>10
  <2>3. s \in 0 .. Len(out') /\ BlockStart + s + n <= Len(out')
    BY <1>2, <1>3, <1>6, <1>9
  <2>4. \A k \in 1 .. n : out'[BlockStart + s + k] = Piece(j, k, n)
    BY <1>3, <1>7, <1>8, <1>10
  <2>5. StoredBlock(j)'
    BY <2>1, <2>2, <2>3, <2>4 DEF StoredBlock
  <2>6. EndAt(j)' = writer.next
    BY <1>2, <1>3, <2>2 DEF EndAt, Number, IntCell
  <2> QED
    BY <2>5, <2>6
<1> HIDE DEF i
<1>11. \A j \in Block : j < i \/ j = i \/ j > i
  BY <1>1 DEF Block
<1>12. (\A j \in Block : StoredBlock(j) \/ OpenEntry(j))'
  BY <1>6, <1>10, <1>11
<1>13. /\ writer'.i = i + 1 /\ writer'.next = writer.next
       /\ writer'.at = IF i + 1 = MaxBlocks THEN "done" ELSE "data"
  BY DEF WriteEnd, i
<1>14. CASE i + 1 = MaxBlocks
  <2>1. \A j \in Block : ~(j > i)
    BY <1>1, <1>14 DEF Block
  <2>2. (\A j \in Block : StoredBlock(j))'
    BY <1>6, <1>10, <1>11, <2>1
  <2>3. writer'.at = "done"
    BY <1>13, <1>14
  <2>4. FileInv'
    BY <1>12, <2>2, <2>3 DEF FileInv
  <2> QED
    BY <1>6, <2>4
<1>15. CASE i + 1 # MaxBlocks
  <2>1. i + 1 \in Block
    BY <1>1, <1>15 DEF Block
  <2>2. writer'.at = "data" /\ DataEnd' = writer.next
    BY <1>13, <1>15 DEF DataEnd
  <2>3. ASSUME NEW j \in Block, j < i + 1
        PROVE  StoredBlock(j)' /\ EndAt(j)' <= writer.next
    <3>1. CASE j = i
      BY <1>10, <3>1
    <3>2. CASE j < i
      <4>1. StoredBlock(j)' /\ EndAt(j)' <= writer.pos
        BY <1>1, <1>6, <3>2
      <4>2. EndAt(j)' \in Nat
        <5>3. EntryAt(j) + 2 <= Len(out')
          BY <4>1 DEF StoredBlock
        <5>4. EntryAt(j) \in Nat
          BY EntryPlace
        <5>1. EntryAt(j) + 2 \in 1 .. Len(out')
          BY <1>9, <5>3, <5>4
        <5>2. Number(out'[EntryAt(j) + 2]) \in Nat
          BY <1>6, <5>1, NumberIsNat
        <5> QED
          BY <5>2 DEF EndAt
      <4> QED
        BY <1>2, <4>1, <4>2
    <3> QED
      BY <1>1, <2>3, <3>1, <3>2 DEF Block
  <2>4. (\A j \in Block : j < writer.i => StoredBlock(j) /\ EndAt(j) <= DataEnd)'
    BY <1>13, <2>2, <2>3
  <2>9. \A j \in Block : j >= i + 1 => j > i
    BY <1>1 DEF Block
  <2>10. \A j \in Block : j > i => OpenEntry(j)'
    BY <1>6
  <2>5. (\A j \in Block : j >= writer.i => OpenEntry(j))'
    BY <1>13, <2>9, <2>10
  <2>8. BlockStart <= writer.next
    BY <1>1, <1>2
  <2>6. (writer.i \in Block /\ BlockStart <= DataEnd)'
    BY <1>13, <2>1, <2>2, <2>8
  <2>7. FileInv'
    BY <1>12, <2>2, <2>4, <2>5, <2>6 DEF FileInv
  <2> QED
    BY <1>6, <2>7
<1> QED
  BY <1>14, <1>15

LEMMA FileUnchanged == FileInv /\ UNCHANGED <<out, writer>> => FileInv'
<1> SUFFICES ASSUME FileInv, out' = out, writer' = writer PROVE FileInv'
  OBVIOUS
<1>1. /\ \A j \in Block : StoredBlock(j)' <=> StoredBlock(j)
      /\ \A j \in Block : OpenEntry(j)' <=> OpenEntry(j)
      /\ \A j \in Block : EndAt(j)' = EndAt(j)
      /\ DataEnd' = DataEnd
  BY DEF StoredBlock, OpenEntry, EndAt, DataEnd
<1> QED
  BY <1>1 DEF FileInv

\* Where the writer dies the file is as good as it was.
LEMMA DieFile == FileInv /\ Die => FileInv'
<1> SUFFICES ASSUME FileInv, Die PROVE FileInv'
  OBVIOUS
<1>1. writer'.at = "dead" \/ writer' = [writer EXCEPT !.at = "dead"]
  BY DEF Die
<1>2. out' = out
  BY DEF Die
<1> QED
  BY DEF FileInv, Die, StoredBlock, OpenEntry

-----------------------------------------------------------------------------
(* Reading it                                                              *)

ReadAtState == [at : Places, off : 0 .. Length, want : 0 .. Length,
                got : Seq(1 .. Length), block : Seq(1 .. Length)]

LEMMA OpenIsNotStored ==
  ASSUME TypeOK, NEW j \in Block, OpenEntry(j)
  PROVE  ~StoredBlock(j)
<1> SUFFICES ASSUME StoredBlock(j) PROVE FALSE
  OBVIOUS
<1>1. PICK s \in 0 .. Len(out), n \in 1 .. MaxPacked :
        EntryAt(j) + 2 <= Len(out) /\ out[EntryAt(j) + 2] = IntCell(s + n)
  BY DEF StoredBlock
<1>2. Number(out[EntryAt(j) + 2]) = s + n
  BY <1>1 DEF Number, IntCell
<1>3. s \in Nat /\ n \in Nat /\ n >= 1
  BY TypeOfState, LayoutOfFile
<1> QED
  BY <1>1, <1>2, <1>3 DEF OpenEntry

\* The entry of a block leads to the whole of its data or to nothing, also while
\* the block is being written.
LEMMA FetchedBlock ==
  ASSUME TypeOK, FileInv, rdr # None, NEW i \in Block
  PROVE  /\ Fetched(i) = << >> \/ Fetched(i) = <<BlockData(i)>>
         /\ StoredBlock(i) /\ EndAt(i) <= rdr.size => Fetched(i) = <<BlockData(i)>>
<1> USE LayoutOfFile
<1> DEFINE at == IndexStart + 2 * i
           start == IF at + 1 <= Len(out) THEN BlockStart + Number(out[at + 1]) ELSE BlockStart
           end == IF at + 2 <= Len(out) THEN BlockStart + Number(out[at + 2]) ELSE BlockStart
           data == Inflate(Region(out, start, end))
           good == /\ start <= end /\ end <= rdr.size /\ data # << >>
                   /\ Len(data[1]) = MinOf(BlockSize, Length - i * BlockSize)
<1>1. Fetched(i) = IF good THEN data ELSE << >>
  BY DEF Fetched
<1>2. out \in Seq(Cell) /\ at = EntryAt(i) /\ at \in Nat /\ Len(out) \in Nat
  BY TypeOfState, EntryPlace DEF EntryAt
<1>3. start \in Nat /\ BlockStart <= start
  <2>1. CASE at + 1 <= Len(out)
    <3>1. Number(out[at + 1]) \in Nat
      BY <1>2, <2>1, NumberIsNat
    <3> HIDE DEF at
    <3> QED
      BY <2>1, <3>1
  <2>2. CASE ~(at + 1 <= Len(out))
    BY <2>2
  <2> QED
    BY <2>1, <2>2
<1>4. CASE OpenEntry(i)
  <2>1. end = BlockStart
    BY <1>2, <1>4 DEF OpenEntry
  <2> HIDE DEF at, start
  <2>2. CASE start <= end
    <3>1. start = end /\ start = BlockStart
      BY <1>3, <2>1, <2>2
    <3>2. Region(out, start, end) = << >>
      BY <1>2, <1>3, <3>1 DEF Region
    <3>3. data = << >>
      BY <3>2 DEF Inflate
    <3>4. Fetched(i) = << >>
      BY <1>1, <3>3
    <3>5. ~StoredBlock(i)
      BY <1>4, OpenIsNotStored
    <3> QED
      BY <3>4, <3>5
  <2>3. CASE ~(start <= end)
    <3>1. Fetched(i) = << >>
      BY <1>1, <2>3
    <3>2. ~StoredBlock(i)
      BY <1>4, OpenIsNotStored
    <3> QED
      BY <3>1, <3>2
  <2> QED
    BY <2>2, <2>3
<1>5. CASE StoredBlock(i)
  <2>1. PICK s \in 0 .. Len(out), n \in 1 .. MaxPacked :
        /\ EntryAt(i) + 2 <= Len(out)
        /\ out[EntryAt(i) + 1] = IntCell(s)
        /\ out[EntryAt(i) + 2] = IntCell(s + n)
        /\ BlockStart + s + n <= Len(out)
        /\ \A k \in 1 .. n : out[BlockStart + s + k] = Piece(i, k, n)
    BY <1>5 DEF StoredBlock
  <2>2. start = BlockStart + s /\ end = BlockStart + (s + n) /\ EndAt(i) = end
    BY <1>2, <2>1 DEF Number, IntCell, EndAt
  <2> HIDE DEF at, start, end
  <2> DEFINE cells == Region(out, start, end)
  <2>3. Len(cells) = n /\ \A k \in 1 .. n : cells[k] = out[BlockStart + s + k]
    <3>1. \A p \in start + 1 .. end : out[p] \in Cell
      BY <1>2, <2>1, <2>2
    <3>2. /\ Len(SubSeq(out, start + 1, end)) = IF start + 1 <= end THEN end - (start + 1) + 1 ELSE 0
          /\ \A k \in 1 .. end - (start + 1) + 1 :
               SubSeq(out, start + 1, end)[k] = out[start + 1 + k - 1]
      BY <1>2, <2>1, <2>2, <3>1, SubSeqProperties
    <3>3. n \in Nat /\ n >= 1 /\ s \in Nat /\ end - (start + 1) + 1 = n /\ start + 1 <= end
      BY <2>1, <2>2
    <3>4. \A k \in 1 .. n : start + 1 + k - 1 = BlockStart + s + k
      BY <2>2, <3>3
    <3> QED
      BY <3>2, <3>3, <3>4 DEF Region
  <2>4. DOMAIN cells = 1 .. n
    <3>1. cells \in Seq(Cell)
      <4>1. \A p \in start + 1 .. end : out[p] \in Cell
        BY <1>2, <2>1, <2>2
      <4>2. SubSeq(out, start + 1, end) \in Seq(Cell)
        BY <1>2, <2>1, <2>2, <4>1, SubSeqProperties
      <4> QED
        BY <4>2 DEF Region
    <3> QED
      BY <2>3, <3>1
  <2> HIDE DEF cells
  <2>5. \A k \in 1 .. n : cells[k] = Piece(i, k, n)
    BY <2>1, <2>3
  <2>6. data = <<BlockData(i)>>
    <3>1. 1 \in 1 .. n /\ cells # << >>
      BY <2>3
    <3>2. cells[1].block = i /\ \A k \in 1 .. n : cells[k].is = "piece"
      <4>1. \A k \in 1 .. n : Piece(i, k, n).is = "piece" /\ Piece(i, k, n).block = i
        BY DEF Piece
      <4> QED
        BY <2>5, <3>1, <4>1
    <3>3. Inflate(cells) = <<BlockData(cells[1].block)>>
      BY <2>3, <2>4, <2>5, <3>1, <3>2 DEF Inflate
    <3> QED
      BY <3>2, <3>3 DEF cells
  <2> HIDE DEF data
  <2>7. Fetched(i) = << >> \/ Fetched(i) = <<BlockData(i)>>
    BY <1>1, <2>6
  <2>8. ASSUME EndAt(i) <= rdr.size PROVE Fetched(i) = <<BlockData(i)>>
    <3>1. start <= end /\ end <= rdr.size
      BY <2>1, <2>2, <2>8
    <3>2. data # << >> /\ data[1] = BlockData(i)
      BY <2>6
    <3>3. Len(data[1]) = MinOf(BlockSize, Length - i * BlockSize)
      BY <3>2, BlockDataOf
    <3> QED
      BY <1>1, <2>6, <3>1, <3>2, <3>3
  <2> QED
    BY <2>7, <2>8
<1> QED
  BY <1>4, <1>5 DEF FileInv

\* A running ReadAt wants a cell of a block that exists.
LEMMA WantedBlock ==
  ASSUME NEW r \in ReadAtState, GoodRead(r), r.at \in {"get", "fetch", "put"}
  PROVE  /\ r.off + Len(r.got) \in Nat /\ r.off + Len(r.got) < Length
         /\ BlockOf(r) \in Block /\ BlockOf(r) < UsedBlocks
<1>1. r.off \in Nat /\ r.want \in Nat /\ Len(r.got) \in Nat
  BY LayoutOfFile DEF ReadAtState
<1>2. r.off + r.want <= Length /\ Len(r.got) < r.want
  BY DEF GoodRead
<1>3. r.off + Len(r.got) \in Nat /\ r.off + Len(r.got) < Length
  BY <1>1, <1>2, LayoutOfFile
<1>4. BlockOf(r) \in Block
  BY <1>3, BlockCount, LayoutOfFile DEF BlockOf
<1> QED
  BY <1>3, <1>4, LayoutOfFile DEF Block

\* With the data of its block a ReadAt copies at least one cell, and the right ones.
LEMMA CopiedRead ==
  ASSUME NEW r \in ReadAtState, GoodRead(r), r.at \in {"get", "put"}
  PROVE  /\ Copied(r, BlockData(BlockOf(r))) \in ReadAtState
         /\ GoodRead(Copied(r, BlockData(BlockOf(r))))
         /\ Copied(r, BlockData(BlockOf(r))).at \in {"ok", "get"}
         /\ Copied(r, BlockData(BlockOf(r))).want = r.want
         /\ Len(Copied(r, BlockData(BlockOf(r))).got) > Len(r.got)
<1> DEFINE i == BlockOf(r)
           q == r.off + Len(r.got)
           data == BlockData(i)
           local == q - i * BlockSize
           n == MinOf(r.want - Len(r.got), Len(data) - local)
           part == SubSeq(data, local + 1, local + n)
           got == r.got \o part
           done == [r EXCEPT !.got = got, !.block = << >>,
                             !.at = IF Len(r.got) + n = r.want THEN "ok" ELSE "get"]
<1>1. r.off \in Nat /\ r.want \in Nat /\ r.got \in Seq(1 .. Length) /\ Len(r.got) \in Nat
  BY LayoutOfFile DEF ReadAtState
<1>2. r.off + r.want <= Length /\ Len(r.got) < r.want
  BY DEF GoodRead
<1>3. q \in Nat /\ q < Length /\ i \in Block /\ i = q \div BlockSize
  BY WantedBlock DEF BlockOf
<1>4. i * BlockSize \in Nat /\ i * BlockSize <= q /\ q < i * BlockSize + BlockSize
  <2>1. i \in Nat
    BY <1>3, LayoutOfFile DEF Block
  <2> HIDE DEF q, i
  <2> QED
    BY <1>3, <2>1, BlockBase, BlockOfPosition
<1>5. /\ data \in Seq(1 .. Length)
      /\ Len(data) = MinOf(BlockSize, Length - i * BlockSize)
      /\ \A k \in 1 .. Len(data) : data[k] = i * BlockSize + k
  <2> HIDE DEF i
  <2> QED
    BY <1>3, BlockDataOf
<1> HIDE DEF q, i, data
<1>6. local \in Nat /\ local < Len(data) /\ Len(data) \in Nat
  BY <1>3, <1>4, <1>5, LayoutOfFile DEF MinOf
<1>15. q = i * BlockSize + local
  BY <1>3, <1>4
<1> DEFINE base == i * BlockSize
           first == local + 1
           last == local + n
<1> HIDE DEF local, base
<1>7. n \in Nat /\ n >= 1 /\ Len(r.got) + n <= r.want /\ local + n <= Len(data)
  BY <1>1, <1>2, <1>6 DEF MinOf
<1>8. Copied(r, data) = done
  <2>1. ~(n <= 0)
    BY <1>7
  <2> QED
    BY <2>1 DEF Copied, q, i, local
<1> HIDE DEF n
<1>9. part \in Seq(1 .. Length) /\ Len(part) = n /\ \A k \in 1 .. n : part[k] = q + k
  <2>1. ASSUME NEW p \in first .. last PROVE data[p] \in 1 .. Length
    <3>1. p \in 1 .. Len(data)
      BY <1>6, <1>7
    <3>2. data \in Seq(1 .. Length)
      BY <1>5
    <3> QED
      BY <3>1, <3>2, ElementOfSeq
  <2>2. first \in Nat /\ last \in Nat /\ last - first + 1 = n /\ first <= last
    BY <1>6, <1>7
  <2>3. part = SubSeq(data, first, last)
    OBVIOUS
  <2> HIDE DEF part
  <2>4. ASSUME NEW k \in 1 .. n
        PROVE  first + k - 1 = local + k /\ local + k \in 1 .. Len(data)
    BY <1>6, <1>7
  <2> HIDE DEF first, last
  <2>5. /\ SubSeq(data, first, last) \in Seq(1 .. Length)
        /\ Len(SubSeq(data, first, last)) = IF first <= last THEN last - first + 1 ELSE 0
        /\ \A k \in 1 .. last - first + 1 : SubSeq(data, first, last)[k] = data[first + k - 1]
    BY <2>1, <2>2, SubSeqProperties
  <2>6. part \in Seq(1 .. Length) /\ Len(part) = n /\ \A k \in 1 .. n : part[k] = data[first + k - 1]
    BY <2>2, <2>3, <2>5
  <2>7. ASSUME NEW k \in 1 .. n PROVE part[k] = q + k
    <3>1. part[k] = data[local + k]
      BY <2>4, <2>6
    <3>2. data[local + k] = base + (local + k)
      BY <1>5, <2>4 DEF base
    <3>3. base \in Nat /\ q = base + local
      BY <1>4, <1>15 DEF base
    <3> QED
      BY <1>6, <1>7, <3>1, <3>2, <3>3
  <2> QED
    BY <2>6, <2>7
<1> HIDE DEF part
<1>10. /\ got \in Seq(1 .. Length) /\ Len(got) = Len(r.got) + n
       /\ \A k \in 1 .. Len(r.got) + n :
            got[k] = IF k <= Len(r.got) THEN r.got[k] ELSE part[k - Len(r.got)]
  BY <1>1, <1>9, ConcatProperties
<1>11. ASSUME NEW k \in 1 .. Len(got) PROVE got[k] = r.off + k
  <2>1. CASE k <= Len(r.got)
    <3>1. k \in 1 .. Len(r.got)
      BY <1>10, <2>1
    <3> QED
      BY <1>10, <2>1, <3>1 DEF GoodRead
  <2>2. CASE ~(k <= Len(r.got))
    <3>1. k - Len(r.got) \in 1 .. n /\ k \in 1 .. Len(r.got) + n /\ k \in Nat
      BY <1>1, <1>7, <1>10, <2>2
    <3>2. got[k] = q + (k - Len(r.got))
      BY <1>9, <1>10, <2>2, <3>1
    <3> QED
      BY <1>1, <3>1, <3>2 DEF q
  <2> QED
    BY <2>1, <2>2
<1> HIDE DEF got
<1>12. /\ done \in ReadAtState /\ done.got = got /\ done.want = r.want /\ done.off = r.off
       /\ done.at = IF Len(r.got) + n = r.want THEN "ok" ELSE "get"
  <2>1. << >> \in Seq(1 .. Length)
    OBVIOUS
  <2> QED
    BY <1>10, <2>1 DEF ReadAtState, Places
<1> HIDE DEF done
<1>13. GoodRead(done)
  <2>1. \A k \in 1 .. Len(done.got) : done.got[k] = done.off + k
    BY <1>11, <1>12
  <2>2. CASE Len(r.got) + n = r.want
    <3>1. done.at = "ok" /\ Len(done.got) = done.want /\ done.off + done.want <= Length
      BY <1>2, <1>10, <1>12, <2>2
    <3> QED
      BY <2>1, <3>1 DEF GoodRead
  <2>3. CASE Len(r.got) + n # r.want
    <3>1. Len(r.got) + n < r.want
      BY <1>1, <1>7, <2>3
    <3>2. done.at = "get" /\ Len(done.got) < done.want /\ done.off + done.want <= Length
      BY <1>2, <1>10, <1>12, <2>3, <3>1
    <3> QED
      BY <2>1, <3>2 DEF GoodRead
  <2> QED
    BY <2>2, <2>3
<1>14. Len(done.got) > Len(r.got) /\ done.at \in {"ok", "get"}
  BY <1>1, <1>7, <1>10, <1>12
<1> QED
  BY <1>8, <1>12, <1>13, <1>14 DEF data, i

-----------------------------------------------------------------------------
(* Every step keeps the invariant                                          *)

CacheEntry == [key : Block, value : Seq(1 .. Length)]

LEMMA NoReadIsGood == NoRead \in ReadAtState /\ GoodRead(NoRead) /\ NoRead.at = "idle"
<1>1. << >> \in Seq(1 .. Length) /\ Len(<< >>) = 0 /\ 0 \in 0 .. Length
  BY LayoutOfFile
<1>2. NoRead \in ReadAtState
  BY <1>1 DEF NoRead, ReadAtState, Places
<1>3. \A k \in 1 .. Len(NoRead.got) : NoRead.got[k] = NoRead.off + k
  BY DEF NoRead
<1> QED
  BY <1>2, <1>3 DEF NoRead, GoodRead

LEMMA InitHolds == Init => IInv
<1> SUFFICES ASSUME Init PROVE IInv
  OBVIOUS
<1> USE LayoutOfFile
<1>1. out \in Seq(Cell)
  <2>1. << >> \in Seq(Cell) /\ Caller \in Cell
    BY DEF Cell
  <2>2. [p \in 1 .. HeaderSize |-> Caller] \in Seq(Cell)
    BY <2>1
  <2> QED
    BY <2>1, <2>2 DEF Init
<1>2. /\ writer \in [at : Steps, i : Nat, pos : Nat, next : Nat]
      /\ writer.at = "fields" /\ writer.i = 0 /\ writer.next = BlockStart
  BY DEF Init, Steps
<1>3. NoRead \in ReadAtState /\ GoodRead(NoRead) /\ NoRead.at = "idle"
  BY NoReadIsGood
<1>4. TypeOK
  <2>1. read \in [Client -> ReadAtState]
    BY <1>3 DEF Init
  <2> QED
    BY <1>1, <1>2, <2>1 DEF Init, TypeOK, Cell, ReadAtState
<1>5. ASSUME NEW j \in Block PROVE OpenEntry(j)
  <2>1. ~(EntryAt(j) + 2 <= Len(out))
    <3>1. Len(out) <= HeaderSize /\ Len(out) \in Nat
      BY <1>1 DEF Init
    <3>2. EntryAt(j) \in Nat /\ HeaderSize <= EntryAt(j)
      BY EntryPlace
    <3> QED
      BY <3>1, <3>2
  <2> QED
    BY <2>1 DEF OpenEntry
<1>6. FileInv
  BY <1>2, <1>5 DEF FileInv
<1>7. ReaderInv
  BY DEF Init, ReaderInv
<1>8. ReadInv
  BY <1>3 DEF Init, ReadInv
<1>9. CacheCoherent
  <2>1. cache = << >> /\ Len(cache) = 0 /\ DOMAIN cache = {}
    BY DEF Init
  <2> QED
    BY <2>1, DeflateAssumption DEF CacheCoherent
<1> QED
  BY <1>4, <1>6, <1>7, <1>8, <1>9 DEF IInv

\* A write keeps what the reader and the clients rely on: the file is not finished.
LEMMA WriterStep == IInv /\ (Write \/ Die) => IInv'
<1> SUFFICES ASSUME IInv, Write \/ Die PROVE IInv'
  OBVIOUS
<1>1. TypeOK /\ FileInv /\ ReaderInv /\ ReadInv /\ CacheCoherent
  BY DEF IInv
<1>2. UNCHANGED <<rdr, cache, read>>
  BY DEF Write, WriteField, WriteData, WriteStart, WriteEnd, Die
<1>3. writer.at # "done"
  BY DEF Write, WriteField, WriteData, WriteStart, WriteEnd, Die
<1>4. FileInv' /\ out' \in Seq(Cell) /\ Len(out) <= Len(out')
  <2>1. CASE Die
    BY <1>1, <2>1, DieFile, TypeOfState DEF Die
  <2>2. CASE Write
    BY <1>1, <2>2, WriteFieldFile, WriteDataFile, WriteStartFile, WriteEndFile DEF Write
  <2> QED
    BY <2>1, <2>2
<1>5. writer' \in [at : Steps, i : Nat, pos : Nat, next : Nat]
  <2> USE <1>1, TypeOfState
  <2>1. CASE WriteField
    <3>1. PICK i \in {0, writer.i + 1}, a \in {"fields", "data"} :
             writer' = [writer EXCEPT !.i = i, !.at = a]
      <4>1. writer.at = "fields" /\ [writer EXCEPT !.i = writer.i + 1]
               = [writer EXCEPT !.i = writer.i + 1, !.at = "fields"]
        BY <2>1 DEF WriteField
      <4> QED
        BY <2>1, <4>1 DEF WriteField
    <3>2. i \in Nat /\ a \in Steps
      BY DEF Steps
    <3> QED
      BY <3>1, <3>2
  <2>2. CASE WriteData
    <3>1. PICK n \in 1 .. MaxPacked :
            writer' = [writer EXCEPT !.at = "start", !.pos = writer.next, !.next = @ + n]
      BY <2>2 DEF WriteData
    <3>2. writer.next + n \in Nat
      BY LayoutOfFile
    <3> QED
      BY <3>1, <3>2 DEF Steps
  <2>3. CASE WriteStart
    BY <2>3 DEF WriteStart, Steps
  <2>4. CASE WriteEnd
    <3>1. \E a \in {"done", "data"} :
             writer' = [writer EXCEPT !.i = writer.i + 1, !.at = a]
      BY <2>4 DEF WriteEnd
    <3>2. writer.i + 1 \in Nat
      OBVIOUS
    <3> QED
      BY <3>1, <3>2 DEF Steps
  <2>5. CASE Die
    BY <2>5 DEF Die, Steps
  <2> QED
    BY <2>1, <2>2, <2>3, <2>4, <2>5 DEF Write
<1>6. TypeOK'
  BY <1>1, <1>2, <1>4, <1>5 DEF TypeOK, Cell
<1>7. ReaderInv'
  <2>1. rdr # None => rdr.size \in Nat
    BY <1>1 DEF TypeOK
  <2>2. Len(out) \in Nat /\ Len(out') \in Nat
    BY <1>1, <1>4, TypeOfState
  <2> QED
    BY <1>1, <1>2, <1>3, <1>4, <2>1, <2>2 DEF ReaderInv
<1>8. ReadInv' /\ CacheCoherent'
  BY <1>1, <1>2 DEF ReadInv, CacheCoherent
<1> QED
  BY <1>4, <1>6, <1>7, <1>8 DEF IInv

LEMMA OpenStep == IInv /\ Open => IInv'
<1> SUFFICES ASSUME IInv, Open PROVE IInv'
  OBVIOUS
<1>1. TypeOK /\ FileInv /\ ReaderInv /\ ReadInv /\ CacheCoherent
  BY DEF IInv
<1>2. /\ UNCHANGED <<out, writer, cache, read>> /\ rdr = None
      /\ rdr' = [size |-> Len(out), finished |-> writer.at = "done"]
  BY DEF Open
<1>3. Len(out) \in Nat
  BY <1>1, TypeOfState
<1>4. rdr' \in [size : Nat, finished : BOOLEAN]
  BY <1>2, <1>3
<1>5. TypeOK'
  BY <1>1, <1>2, <1>4 DEF TypeOK
<1>6. FileInv' /\ CacheCoherent'
  BY <1>1, <1>2, FileUnchanged DEF CacheCoherent
<1>7. ReaderInv'
  <2>1. rdr'.size = Len(out) /\ (rdr'.finished <=> writer.at = "done")
    BY <1>2
  <2>2. Len(out') = Len(out) /\ writer' = writer
    BY <1>2
  <2> QED
    BY <1>3, <2>1, <2>2 DEF ReaderInv
<1>8. ReadInv'
  <2>1. \A c \in Client : read[c].at = "idle"
    BY <1>1, <1>2 DEF ReadInv
  <2> QED
    BY <1>1, <1>2, <2>1 DEF ReadInv
<1> QED
  BY <1>5, <1>6, <1>7, <1>8 DEF IInv

\* A step of one client: what has to be shown of its ReadAt and of the cache.
LEMMA ClientStep ==
  ASSUME IInv, NEW c \in Client, NEW r \in ReadAtState, GoodRead(r),
         rdr # None, r.at = "error" => ~rdr.finished,
         read' = [read EXCEPT ![c] = r], UNCHANGED <<out, writer, rdr>>,
         cache' \in Seq(CacheEntry), CacheCoherent'
  PROVE  IInv'
<1>1. TypeOK /\ FileInv /\ ReaderInv /\ ReadInv
  BY DEF IInv
<1>2. TypeOK'
  <2>1. read' \in [Client -> ReadAtState]
    BY <1>1 DEF TypeOK, ReadAtState
  <2> QED
    BY <1>1, <2>1 DEF TypeOK, ReadAtState, CacheEntry, Block
<1>3. FileInv' /\ ReaderInv'
  BY <1>1, FileUnchanged DEF ReaderInv
<1>4. ReadInv'
  <2> SUFFICES ASSUME NEW d \in Client
               PROVE  /\ GoodRead(read'[d])
                      /\ read'[d].at # "idle" => rdr' # None
                      /\ read'[d].at = "error" => ~rdr'.finished
    BY DEF ReadInv
  <2>1. read'[d] = IF d = c THEN r ELSE read[d]
    BY <1>1 DEF TypeOK
  <2> QED
    BY <1>1, <2>1 DEF ReadInv
<1> QED
  BY <1>2, <1>3, <1>4 DEF IInv

\* CacheCoherent, of any cache.
Coherent(order) ==
    /\ \A e \in DOMAIN order : order[e].value = BlockData(order[e].key)
    /\ Distinct(order)
    /\ Len(order) <= IF Capacity > 0 THEN Capacity ELSE 0

\* What a lookup finds is the block, and a lookup keeps the cache coherent.
LEMMA CacheAfterGet ==
  ASSUME NEW order \in Seq(CacheEntry), Coherent(order), NEW i \in Block
  PROVE  /\ AfterGet(order, i) \in Seq(CacheEntry) /\ Coherent(AfterGet(order, i))
         /\ i \in Keys(order) => Head(AfterGet(order, i)).value = BlockData(i)
<1> DEFINE new == AfterGet(order, i)
<1>1. /\ new \in Seq(CacheEntry) /\ Len(new) = Len(order) /\ Distinct(new)
      /\ \A j \in DOMAIN new : \E l \in DOMAIN order : new[j] = order[l]
      /\ i \in Keys(order) => new # << >> /\ Head(new).key = i
  BY GetKeeps DEF Coherent
<1> HIDE DEF new
<1>2. \A j \in DOMAIN new : new[j].value = BlockData(new[j].key)
  BY <1>1 DEF Coherent
<1>3. Coherent(new)
  BY <1>1, <1>2 DEF Coherent
<1>4. i \in Keys(order) => Head(new).value = BlockData(i)
  <2> SUFFICES ASSUME i \in Keys(order) PROVE Head(new).value = BlockData(i)
    OBVIOUS
  <2>1. new # << >> /\ Head(new).key = i
    BY <1>1
  <2>2. 1 \in DOMAIN new /\ Head(new) = new[1]
    BY <1>1, <2>1
  <2> QED
    BY <1>2, <2>1, <2>2
<1> QED
  BY <1>1, <1>3, <1>4 DEF new

\* Putting the data of a block keeps the cache coherent, also when another client
\* has put the same block meanwhile.
LEMMA CacheAfterPut ==
  ASSUME NEW order \in Seq(CacheEntry), Coherent(order), NEW i \in Block
  PROVE  /\ AfterPut(order, i, BlockData(i), Capacity) \in Seq(CacheEntry)
         /\ Coherent(AfterPut(order, i, BlockData(i), Capacity))
<1> DEFINE entry == [key |-> i, value |-> BlockData(i)]
           new == AfterPut(order, i, BlockData(i), Capacity)
<1>1. entry \in CacheEntry
  BY BlockDataOf DEF CacheEntry
<1>2. /\ Distinct(order) /\ Len(order) <= IF Capacity > 0 THEN Capacity ELSE 0
      /\ Capacity \in Int
  BY DeflateAssumption DEF Coherent
<1>3. /\ new \in Seq(CacheEntry) /\ Distinct(new)
      /\ Len(new) <= IF Capacity > 0 THEN Capacity ELSE 0
      /\ \A j \in DOMAIN new : new[j] = entry \/ \E l \in DOMAIN order : new[j] = order[l]
  BY <1>1, <1>2, PutKeeps
<1> HIDE DEF new
<1>4. \A j \in DOMAIN new : new[j].value = BlockData(new[j].key)
  BY <1>3 DEF Coherent
<1> QED
  BY <1>3, <1>4 DEF Coherent, new

LEMMA CopyAdvances ==
  ASSUME NEW r \in ReadAtState, GoodRead(r), r.at \in {"get", "put"}
  PROVE  Remaining(Copied(r, BlockData(BlockOf(r)))) < Remaining(r)
<1> DEFINE new == Copied(r, BlockData(BlockOf(r)))
<1>1. /\ new \in ReadAtState /\ GoodRead(new) /\ new.at \in {"ok", "get"}
      /\ new.want = r.want /\ Len(new.got) > Len(r.got)
  BY CopiedRead
<1> HIDE DEF new
<1>2. r.want \in Nat /\ Len(r.got) \in Nat /\ Len(new.got) \in Nat /\ Len(r.got) < r.want
  BY <1>1, LayoutOfFile DEF ReadAtState, GoodRead
<1>3. /\ Remaining(r) \in Int /\ Remaining(r) >= 4 * (r.want - Len(r.got)) + 1
      /\ Len(new.got) >= Len(r.got) + 1
  BY <1>1, <1>2 DEF Remaining
<1>4. CASE new.at = "ok"
  BY <1>2, <1>3, <1>4 DEF Remaining, new
<1>5. CASE new.at = "get"
  <2>1. Remaining(new) = 4 * (r.want - Len(new.got)) + 3
    BY <1>1, <1>5 DEF Remaining
  <2>3. \A w, a, b \in Nat : b >= a + 1 =>
          4 * (w - b) + 3 \in Int /\ 4 * (w - b) + 3 < 4 * (w - a) + 1
    OBVIOUS
  <2>4. Remaining(new) \in Int /\ Remaining(new) < 4 * (r.want - Len(r.got)) + 1
    BY <1>2, <1>3, <2>1, <2>3
  <2>5. 4 * (r.want - Len(r.got)) + 1 \in Int
    BY <1>2
  <2>6. \A x, y, z \in Int : x < y /\ y <= z => x < z
    OBVIOUS
  <2>2. Remaining(new) < Remaining(r)
    BY <1>3, <2>4, <2>5, <2>6
  <2> QED
    BY <2>2 DEF new
<1> QED
  BY <1>1, <1>4, <1>5

\* What the invariant says of one client and of the cache.
LEMMA ClientState ==
  ASSUME IInv, NEW c \in Client
  PROVE  /\ read[c] \in ReadAtState /\ GoodRead(read[c])
         /\ read[c].at # "idle" => rdr # None
         /\ cache \in Seq(CacheEntry) /\ Coherent(cache)
         /\ TypeOK /\ FileInv
  BY DEF IInv, TypeOK, ReadInv, ReadAtState, CacheEntry, Block, CacheCoherent, Coherent, Distinct

\* A step of a client ends its ReadAt or brings it nearer to its end.
Nearer(c) ==
    \/ read[c].at \in {"idle", "ok", "error"}
    \/ Remaining(read'[c]) < Remaining(read[c])

LEMMA StartStep ==
  ASSUME IInv, NEW c \in Client, Start(c)
  PROVE  IInv' /\ read[c].at = "idle"
<1>1. PICK off \in 0 .. Length - 1, n \in 1 .. Length :
        read' = [read EXCEPT ![c] = [NoRead EXCEPT !.at = "get", !.off = off,
                                                   !.want = MinOf(n, Length - off)]]
  BY DEF Start
<1> DEFINE r == [NoRead EXCEPT !.at = "get", !.off = off, !.want = MinOf(n, Length - off)]
<1>2. read[c].at = "idle" /\ rdr # None /\ UNCHANGED <<out, writer, rdr, cache>>
  BY DEF Start
<1>3. NoRead \in ReadAtState /\ NoRead.got = << >>
  <2>1. NoRead \in ReadAtState
    BY NoReadIsGood
  <2> QED
    BY <2>1 DEF NoRead
<1>4. /\ off \in 0 .. Length /\ MinOf(n, Length - off) \in 0 .. Length
      /\ MinOf(n, Length - off) > 0 /\ off + MinOf(n, Length - off) <= Length
  BY LayoutOfFile DEF MinOf
<1>5. << >> \in Seq(1 .. Length) /\ Len(<< >>) = 0
  OBVIOUS
<1>6. /\ r \in ReadAtState /\ r.at = "get" /\ r.off = off /\ r.got = << >>
      /\ r.want = MinOf(n, Length - off)
  BY <1>3, <1>4 DEF ReadAtState, Places
<1> HIDE DEF r
<1>7. GoodRead(r)
  <2>1. /\ Len(r.got) = 0 /\ 0 < r.want /\ r.off + r.want <= Length
        /\ \A k \in 1 .. Len(r.got) : r.got[k] = r.off + k
    BY <1>4, <1>5, <1>6
  <2> QED
    BY <1>6, <2>1 DEF GoodRead
<1>8. cache' \in Seq(CacheEntry) /\ CacheCoherent'
  BY <1>2, ClientState DEF IInv, CacheCoherent
<1>9. read' = [read EXCEPT ![c] = r]
  BY <1>1 DEF r
<1> QED
  BY <1>2, <1>6, <1>7, <1>8, <1>9, ClientStep

LEMMA GetStep ==
  ASSUME IInv, NEW c \in Client, GetBlock(c)
  PROVE  IInv' /\ Nearer(c)
<1> DEFINE i == BlockOf(read[c])
<1>1. /\ read[c] \in ReadAtState /\ GoodRead(read[c]) /\ rdr # None /\ read[c].at = "get"
      /\ cache \in Seq(CacheEntry) /\ Coherent(cache)
      /\ cache' = AfterGet(cache, i) /\ UNCHANGED <<out, writer, rdr>>
  BY ClientState DEF GetBlock
<1>2. i \in Block /\ i < UsedBlocks
  BY <1>1, WantedBlock
<1>3. /\ cache' \in Seq(CacheEntry) /\ Coherent(cache')
      /\ i \in Keys(cache) => Head(cache').value = BlockData(i)
  BY <1>1, <1>2, CacheAfterGet
<1>4. CacheCoherent'
  BY <1>3 DEF Coherent, CacheCoherent, Distinct
<1>5. ~(i >= UsedBlocks)
  BY <1>2, LayoutOfFile DEF Block
<1>6. read' = [read EXCEPT ![c] = IF i \in Keys(cache) THEN Copied(read[c], Head(cache').value)
                                  ELSE [read[c] EXCEPT !.at = "fetch"]]
  BY <1>2, <1>5 DEF GetBlock
<1>7. c \in DOMAIN read
  BY DEF IInv, TypeOK
<1>8. CASE i \in Keys(cache)
  <2> DEFINE r == Copied(read[c], BlockData(i))
  <2>1. read' = [read EXCEPT ![c] = r]
    BY <1>3, <1>6, <1>8
  <2>2. r \in ReadAtState /\ GoodRead(r) /\ r.at \in {"ok", "get"}
    BY <1>1, CopiedRead
  <2>3. Remaining(r) < Remaining(read[c])
    BY <1>1, CopyAdvances
  <2> HIDE DEF r
  <2>4. IInv'
    BY <1>1, <1>3, <1>4, <2>1, <2>2, ClientStep
  <2>5. read'[c] = r
    BY <1>7, <2>1
  <2> QED
    BY <2>3, <2>4, <2>5 DEF Nearer
<1>9. CASE i \notin Keys(cache)
  <2> DEFINE r == [read[c] EXCEPT !.at = "fetch"]
  <2>1. read' = [read EXCEPT ![c] = r]
    BY <1>6, <1>9
  <2>2. /\ r \in ReadAtState /\ r.at = "fetch" /\ r.off = read[c].off /\ r.got = read[c].got
        /\ r.want = read[c].want
    BY <1>1 DEF ReadAtState, Places
  <2> HIDE DEF r
  <2>3. GoodRead(r)
    BY <1>1, <2>2 DEF GoodRead
  <2>4. Remaining(r) < Remaining(read[c])
    <3>1. read[c].want \in Nat /\ Len(read[c].got) \in Nat
      BY <1>1, LayoutOfFile DEF ReadAtState
    <3> QED
      BY <1>1, <2>2, <3>1 DEF Remaining
  <2>5. IInv'
    BY <1>1, <1>3, <1>4, <2>1, <2>2, <2>3, ClientStep
  <2>6. read'[c] = r
    BY <1>7, <2>1
  <2> QED
    BY <2>4, <2>5, <2>6 DEF Nearer
<1> QED
  BY <1>8, <1>9

\* On a finished file every block is found.
LEMMA FetchStep ==
  ASSUME IInv, NEW c \in Client, FetchBlock(c)
  PROVE  IInv' /\ Nearer(c)
<1> DEFINE i == BlockOf(read[c])
           data == Fetched(i)
<1>1. /\ read[c] \in ReadAtState /\ GoodRead(read[c]) /\ rdr # None /\ read[c].at = "fetch"
      /\ cache \in Seq(CacheEntry) /\ TypeOK /\ FileInv
      /\ UNCHANGED <<out, writer, rdr, cache>>
      /\ read' = [read EXCEPT ![c] =
           IF data = << >> THEN [read[c] EXCEPT !.at = "error"]
           ELSE [read[c] EXCEPT !.at = "put", !.block = data[1]]]
  BY ClientState DEF FetchBlock
<1>2. i \in Block
  BY <1>1, WantedBlock
<1>3. /\ data = << >> \/ data = <<BlockData(i)>>
      /\ StoredBlock(i) /\ EndAt(i) <= rdr.size => data = <<BlockData(i)>>
  <2> HIDE DEF i
  <2> QED
    BY <1>1, <1>2, FetchedBlock
<1>4. cache' \in Seq(CacheEntry) /\ CacheCoherent'
  BY <1>1 DEF IInv, CacheCoherent
<1>5. c \in DOMAIN read
  BY DEF IInv, TypeOK
<1>6. read[c].want \in Nat /\ Len(read[c].got) \in Nat /\ Len(read[c].got) < read[c].want
  <2>1. read[c] \in ReadAtState /\ GoodRead(read[c]) /\ read[c].at = "fetch"
    BY <1>1
  <2>2. Len(read[c].got) < read[c].want
    BY <2>1 DEF GoodRead
  <2> QED
    BY <2>1, <2>2, LayoutOfFile DEF ReadAtState
<1>7. CASE data = << >>
  <2> DEFINE r == [read[c] EXCEPT !.at = "error"]
  <2>1. read' = [read EXCEPT ![c] = r]
    BY <1>1, <1>7
  <2>2. r \in ReadAtState /\ r.at = "error" /\ r.off = read[c].off /\ r.got = read[c].got
    BY <1>1 DEF ReadAtState, Places
  <2> HIDE DEF r
  <2>3. GoodRead(r)
    BY <1>1, <2>2 DEF GoodRead
  <2>4. ~rdr.finished
    <3> SUFFICES ASSUME rdr.finished PROVE FALSE
      OBVIOUS
    <3>1. rdr.size = Len(out) /\ StoredBlock(i)
      BY <1>1, <1>2 DEF IInv, ReaderInv, FileInv
    <3>2. PICK s \in 0 .. Len(out), n \in 1 .. MaxPacked :
            out[EntryAt(i) + 2] = IntCell(s + n) /\ BlockStart + s + n <= Len(out)
      BY <3>1 DEF StoredBlock
    <3>3. EndAt(i) = BlockStart + (s + n)
      BY <3>2 DEF EndAt, Number, IntCell
    <3>4. s \in Nat /\ n \in Nat /\ BlockStart \in Nat
      BY <1>1, TypeOfState, LayoutOfFile
    <3>5. EndAt(i) <= rdr.size
      BY <3>1, <3>2, <3>3, <3>4
    <3>6. data = <<BlockData(i)>>
      BY <1>3, <3>1, <3>5
    <3>7. <<BlockData(i)>> # << >>
      OBVIOUS
    <3> HIDE DEF data
    <3> QED
      BY <1>7, <3>6, <3>7
  <2>5. IInv'
    BY <1>1, <1>4, <2>1, <2>2, <2>3, <2>4, ClientStep
  <2>6. Remaining(r) < Remaining(read[c])
    BY <1>1, <1>6, <2>2 DEF Remaining
  <2>7. read'[c] = r
    BY <1>5, <2>1
  <2> QED
    BY <2>5, <2>6, <2>7 DEF Nearer
<1>8. CASE data # << >>
  <2> DEFINE r == [read[c] EXCEPT !.at = "put", !.block = BlockData(i)]
  <2>1. data[1] = BlockData(i)
    BY <1>3, <1>8
  <2>2. read' = [read EXCEPT ![c] = r]
    BY <1>1, <1>8, <2>1
  <2>3. BlockData(i) \in Seq(1 .. Length)
    BY <1>2, BlockDataOf
  <2>4. /\ r \in ReadAtState /\ r.at = "put" /\ r.off = read[c].off /\ r.got = read[c].got
        /\ r.want = read[c].want /\ r.block = BlockData(i)
    BY <1>1, <2>3 DEF ReadAtState, Places
  <2> HIDE DEF r
  <2>5. GoodRead(r)
    <3>1. BlockOf(r) = i
      BY <2>4 DEF BlockOf
    <3> QED
      BY <1>1, <2>4, <3>1 DEF GoodRead
  <2>6. IInv'
    BY <1>1, <1>4, <2>2, <2>4, <2>5, ClientStep
  <2>7. Remaining(r) < Remaining(read[c])
    BY <1>1, <1>6, <2>4 DEF Remaining
  <2>8. read'[c] = r
    BY <1>5, <2>2
  <2> QED
    BY <2>6, <2>7, <2>8 DEF Nearer
<1> QED
  BY <1>7, <1>8

LEMMA PutStep ==
  ASSUME IInv, NEW c \in Client, PutBlock(c)
  PROVE  IInv' /\ Nearer(c)
<1> DEFINE i == BlockOf(read[c])
           r == Copied(read[c], BlockData(i))
<1>1. /\ read[c] \in ReadAtState /\ GoodRead(read[c]) /\ rdr # None /\ read[c].at = "put"
      /\ cache \in Seq(CacheEntry) /\ Coherent(cache)
      /\ UNCHANGED <<out, writer, rdr>>
  BY ClientState DEF PutBlock
<1>2. read[c].block = BlockData(i)
  BY <1>1 DEF GoodRead
<1>3. /\ cache' = AfterPut(cache, i, BlockData(i), Capacity)
      /\ read' = [read EXCEPT ![c] = r]
  BY <1>2 DEF PutBlock
<1>4. i \in Block
  BY <1>1, WantedBlock
<1>5. cache' \in Seq(CacheEntry) /\ Coherent(cache')
  BY <1>1, <1>3, <1>4, CacheAfterPut
<1>6. CacheCoherent'
  BY <1>5 DEF Coherent, CacheCoherent, Distinct
<1>7. r \in ReadAtState /\ GoodRead(r) /\ r.at \in {"ok", "get"}
  BY <1>1, CopiedRead
<1>8. Remaining(r) < Remaining(read[c])
  BY <1>1, CopyAdvances
<1> HIDE DEF r
<1>9. IInv'
  BY <1>1, <1>3, <1>5, <1>6, <1>7, ClientStep
<1>10. read'[c] = r
  BY <1>3 DEF IInv, TypeOK
<1> QED
  BY <1>8, <1>9, <1>10 DEF Nearer

LEMMA ReturnStep ==
  ASSUME IInv, NEW c \in Client, Return(c)
  PROVE  IInv' /\ Nearer(c)
<1>1. /\ read[c].at \in {"ok", "error"} /\ UNCHANGED <<out, writer, rdr, cache>>
      /\ read' = [read EXCEPT ![c] = NoRead]
  BY DEF Return
<1>2. NoRead \in ReadAtState /\ GoodRead(NoRead) /\ NoRead.at = "idle"
  BY NoReadIsGood
<1>3. rdr # None /\ cache' \in Seq(CacheEntry) /\ CacheCoherent'
  BY <1>1, ClientState DEF IInv, CacheCoherent
<1>4. IInv'
  BY <1>1, <1>2, <1>3, ClientStep
<1> QED
  BY <1>1, <1>4 DEF Nearer

LEMMA NextKeeps == IInv /\ [Next]_vars => IInv'
<1> SUFFICES ASSUME IInv, [Next]_vars PROVE IInv'
  OBVIOUS
<1>1. CASE Write \/ Die
  BY <1>1, WriterStep
<1>2. CASE Open
  BY <1>2, OpenStep
<1>3. ASSUME NEW c \in Client, Start(c) \/ Reading(c) PROVE IInv'
  BY <1>3, StartStep, GetStep, FetchStep, PutStep, ReturnStep DEF Reading
<1>4. CASE UNCHANGED vars
  <2>1. TypeOK' /\ FileInv'
    BY <1>4, FileUnchanged DEF vars, IInv, TypeOK
  <2>2. ReaderInv' /\ ReadInv' /\ CacheCoherent'
    BY <1>4 DEF vars, IInv, ReaderInv, ReadInv, CacheCoherent
  <2> QED
    BY <2>1, <2>2 DEF IInv
<1> QED
  BY <1>1, <1>2, <1>3, <1>4 DEF Next

-----------------------------------------------------------------------------
(* Theorems                                                                *)

\* The invariant holds in every reachable state.
THEOREM Inductive == Spec => []IInv
  BY InitHolds, NextKeeps, PTL DEF Spec

\* Every reachable state has the types that TypeOK gives it.
THEOREM TypeCorrect == Spec => []TypeOK
<1>1. IInv => TypeOK
  BY DEF IInv
<1> QED
  BY <1>1, Inductive, PTL

\* ReadAt (deflate.go:222): what it returns without an error is what the source
\* holds there, at whatever moment of the writing the file was opened.
THEOREM ReadsAreExact == Spec => []ReadsExact
<1>1. IInv => ReadsExact
  <2> SUFFICES ASSUME IInv, NEW c \in Client, read[c].at = "ok"
               PROVE  read[c].got = SubSeq(Source, read[c].off + 1, read[c].off + read[c].want)
    BY DEF ReadsExact
  <2> DEFINE r == read[c]
             first == r.off + 1
             last == r.off + r.want
             part == SubSeq(Source, first, last)
  <2>1. r \in ReadAtState /\ GoodRead(r) /\ r.at = "ok"
    BY ClientState
  <2> HIDE DEF r
  <2>2. /\ r.off \in Nat /\ r.want \in Nat /\ r.got \in Seq(1 .. Length) /\ last <= Length
        /\ Len(r.got) = r.want /\ \A k \in 1 .. Len(r.got) : r.got[k] = r.off + k
    BY <2>1, LayoutOfFile DEF ReadAtState, GoodRead
  <2>3. ASSUME NEW p \in first .. last PROVE Source[p] = p /\ Source[p] \in 1 .. Length
    <3>1. p \in 1 .. Length
      BY <2>2, LayoutOfFile
    <3> QED
      BY <3>1 DEF Source
  <2>4. ASSUME NEW k \in 1 .. r.want
        PROVE  first + k - 1 = r.off + k /\ first + k - 1 \in first .. last
    BY <2>2
  <2>5. first \in Int /\ last \in Int /\ last - first + 1 = r.want
    <3>1. r.off \in Nat /\ r.want \in Nat
      BY <2>2
    <3> QED
      BY <3>1
  <2> HIDE DEF first, last
  <2>6. /\ part \in Seq(1 .. Length)
        /\ Len(part) = IF first <= last THEN last - first + 1 ELSE 0
        /\ \A k \in 1 .. last - first + 1 : part[k] = Source[first + k - 1]
    BY <2>3, <2>5, SubSeqProperties
  <2> HIDE DEF part
  <2>7. Len(part) = r.want
    BY <2>2, <2>5, <2>6
  <2>8. \A k \in 1 .. r.want : part[k] = r.got[k]
    BY <2>2, <2>3, <2>4, <2>5, <2>6
  <2>9. part = r.got
    BY <2>2, <2>6, <2>7, <2>8, SeqEqual
  <2> QED
    BY <2>9 DEF r, part, first, last
<1> QED
  BY <1>1, Inductive, PTL

\* DeflateReader and lru.LruCache: a cached block is the block of the source it
\* stands for, is cached once, and the cache keeps its bound.
THEOREM CacheIsCoherent == Spec => []CacheCoherent
<1>1. IInv => CacheCoherent
  BY DEF IInv
<1> QED
  BY <1>1, Inductive, PTL

\* Opened on a finished file, a reader finds every block (deflate.go:222).
THEOREM FinishedIsReadable == Spec => []FinishedReadable
<1>1. IInv => FinishedReadable
  BY DEF IInv, ReadInv, FinishedReadable
<1> QED
  BY <1>1, Inductive, PTL

\* The loop of ReadAt (deflate.go:222) comes nearer to its return with every step,
\* whatever the file holds and whatever other clients do to the cache.
THEOREM ReadAtAdvances == Spec => ReadsAdvance
<1>1. ASSUME IInv, [Next]_vars, NEW c \in Client, read[c].at # "idle", read'[c] # read[c]
      PROVE  read[c].at \in {"ok", "error"} \/ Remaining(read'[c]) < Remaining(read[c])
  <2>1. CASE Write \/ Die \/ Open
    BY <1>1, <2>1 DEF Write, WriteField, WriteData, WriteStart, WriteEnd, Die, Open
  <2>2. ASSUME NEW d \in Client, Start(d) \/ Reading(d)
        PROVE  read[c].at \in {"ok", "error"} \/ Remaining(read'[c]) < Remaining(read[c])
    <3>1. CASE d = c
      <4>1. Nearer(c)
        BY <1>1, <2>2, <3>1, StartStep, GetStep, FetchStep, PutStep, ReturnStep DEF Reading
      <4> QED
        BY <1>1, <4>1 DEF Nearer
    <3>2. CASE d # c
      <4>1. \E r : read' = [read EXCEPT ![d] = r]
        BY <2>2 DEF Start, Reading, GetBlock, FetchBlock, PutBlock, Return
      <4>2. c \in DOMAIN read
        BY <1>1 DEF IInv, TypeOK
      <4> QED
        BY <1>1, <3>2, <4>1, <4>2
    <3> QED
      BY <3>1, <3>2
  <2>3. CASE UNCHANGED vars
    BY <1>1, <2>3 DEF vars
  <2> QED
    BY <1>1, <2>1, <2>2, <2>3 DEF Next
<1>2. IInv /\ [Next]_vars =>
        [\A c \in Client : read[c].at # "idle" /\ read'[c] # read[c] =>
           \/ read[c].at \in {"ok", "error"}
           \/ Remaining(read'[c]) < Remaining(read[c])]_vars
  BY <1>1
<1> QED
  BY <1>2, Inductive, PTL DEF Spec, ReadsAdvance

\* "Bytes [0,headerSize) are left untouched" (deflate.go:39) is true of every byte that is
\* not in one of the five fields Deflate writes at fixed places (deflate.go:75-89), and so
\* of the whole header of a caller that ends before them.
THEOREM CallerIsKept == Spec => /\ CallerCellsKept
                                /\ HeaderSize <= FieldsAt => HeaderUntouched
<1> USE LayoutOfFile
<1>1. ASSUME TypeOK, NEW at \in Nat, NEW cells \in Seq(Cell),
             out' = Written(out, at, cells), NEW p \in 1 .. HeaderSize, p <= Len(out),
             p \notin at + 1 .. at + Len(cells)
      PROVE  out'[p] = out[p]
  <2>1. out \in Seq(Cell) /\ p \in 1 .. Len(out)
    BY <1>1, TypeOfState
  <2> QED
    BY <1>1, <2>1, WriteCells
<1>2. ASSUME IInv, [Next]_vars, NEW p \in CallerCells, p <= Len(out)
      PROVE  out'[p] = out[p]
  <2>p. p \in 1 .. HeaderSize /\ p \notin FieldsAt + 1 .. FieldsAt + 5
    BY DEF CallerCells
  <2>0. TypeOK /\ FileInv
    BY <1>2 DEF IInv
  <2> USE <2>0, TypeOfState
  <2>1. CASE WriteField
    <3> DEFINE at == FieldsAt + writer.i
               cells == <<IntCell(Fields[writer.i + 1])>>
    <3>0. writer.at = "fields"
      BY <2>1 DEF WriteField
    <3>1. writer.i \in 0 .. 4
      <4>1. writer.i < 5
        BY <3>0 DEF FileInv
      <4> QED
        BY <4>1
    <3>2. Fields[writer.i + 1] \in Nat
      BY <3>1, FieldValues
    <3>3. at \in Nat /\ cells \in Seq(Cell) /\ Len(cells) = 1
      BY <3>1, <3>2 DEF IntCell, Cell
    <3>5. p # at + 1
      BY <2>p, <3>1
    <3>4. out' = Written(out, at, cells)
      BY <2>1 DEF WriteField
    <3> HIDE DEF at, cells
    <3>6. p \notin at + 1 .. at + Len(cells)
      BY <2>p, <3>3, <3>5
    <3> QED
      BY <1>1, <1>2, <2>p, <3>3, <3>4, <3>6
  <2>2. CASE WriteData
    <3>1. PICK n \in 1 .. MaxPacked :
            out' = Written(out, writer.next, [k \in 1 .. n |-> Piece(writer.i, k, n)])
      BY <2>2 DEF WriteData
    <3> DEFINE cells == [k \in 1 .. n |-> Piece(writer.i, k, n)]
    <3>2. writer.i \in Block /\ BlockStart <= writer.next
      BY <2>2 DEF WriteData, FileInv, DataEnd
    <3>3. cells \in Seq(Cell)
      <4>1. \A k \in 1 .. n : Piece(writer.i, k, n) \in Cell
        BY <3>2 DEF Piece, Cell, Block
      <4> QED
        BY <4>1
    <3>4. p \notin writer.next + 1 .. writer.next + Len(cells) /\ writer.next \in Nat
      BY <2>p, <3>2
    <3>5. out' = Written(out, writer.next, cells)
      BY <3>1
    <3> HIDE DEF cells
    <3> QED
      BY <1>1, <1>2, <2>p, <3>3, <3>4, <3>5
  <2>3. CASE WriteStart \/ WriteEnd
    <3>1. PICK half \in {0, 1}, m \in Nat :
            out' = Written(out, EntryAt(writer.i) + half, <<IntCell(m)>>)
      <4>1. CASE WriteStart
        <5>0. writer.at = "start"
          BY <4>1 DEF WriteStart
        <5>3. BlockStart <= writer.pos
          BY <5>0 DEF FileInv, DataEnd
        <5>1. writer.pos - BlockStart \in Nat
          BY <5>3
        <5>4. EntryAt(writer.i) + 0 = IndexStart + 2 * writer.i
          BY DEF EntryAt
        <5>2. out' = Written(out, EntryAt(writer.i) + 0, <<IntCell(writer.pos - BlockStart)>>)
          BY <4>1, <5>4 DEF WriteStart
        <5> QED
          BY <5>1, <5>2
      <4>2. CASE WriteEnd
        <5>0. writer.at = "end"
          BY <4>2 DEF WriteEnd
        <5>3. BlockStart <= writer.pos /\ \E n \in 1 .. MaxPacked : writer.next = writer.pos + n
          BY <5>0 DEF FileInv, DataEnd
        <5>1. writer.next - BlockStart \in Nat
          BY <5>3
        <5>2. out' = Written(out, EntryAt(writer.i) + 1, <<IntCell(writer.next - BlockStart)>>)
          BY <4>2 DEF WriteEnd, EntryAt
        <5> QED
          BY <5>1, <5>2
      <4> QED
        BY <2>3, <4>1, <4>2
    <3>2. writer.i \in Block
      BY <2>3 DEF WriteStart, WriteEnd, FileInv
    <3>3. EntryAt(writer.i) \in Nat /\ IndexStart <= EntryAt(writer.i)
      BY <3>2, EntryPlace
    <3> DEFINE at == EntryAt(writer.i) + half
               cells == <<IntCell(m)>>
    <3>4. at \in Nat /\ p # at + 1
      BY <2>p, <3>3
    <3>5. cells \in Seq(Cell) /\ Len(cells) = 1
      BY DEF IntCell, Cell
    <3>6. out' = Written(out, at, cells)
      BY <3>1
    <3> HIDE DEF at, cells
    <3>7. p \notin at + 1 .. at + Len(cells)
      BY <2>p, <3>4, <3>5
    <3> QED
      BY <1>1, <1>2, <2>p, <3>4, <3>5, <3>6, <3>7
  <2>4. CASE out' = out
    BY <2>4
  <2> QED
    BY <1>2, <2>1, <2>2, <2>3, <2>4
       DEF Next, Write, Die, Open, Start, Reading, GetBlock, FetchBlock, PutBlock, Return, vars
<1>3. IInv /\ [Next]_vars => [\A p \in CallerCells : Kept(p)]_vars
  BY <1>2 DEF Kept
<1>4. IInv /\ [Next]_vars /\ HeaderSize <= FieldsAt => [\A p \in 1 .. HeaderSize : Kept(p)]_vars
  <2>1. HeaderSize <= FieldsAt => CallerCells = 1 .. HeaderSize
    BY DEF CallerCells
  <2> QED
    BY <1>3, <2>1
<1>5. Spec => CallerCellsKept
  BY <1>3, Inductive, PTL DEF Spec, CallerCellsKept
<1>6. ASSUME HeaderSize <= FieldsAt PROVE Spec => HeaderUntouched
  <2>1. IInv /\ [Next]_vars => [\A p \in 1 .. HeaderSize : Kept(p)]_vars
    BY <1>4, <1>6
  <2> QED
    BY <2>1, Inductive, PTL DEF Spec, HeaderUntouched
<1> QED
  BY <1>5, <1>6
=============================================================================
