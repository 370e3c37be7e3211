---------------------------- MODULE StreamsProofs ----------------------------
(***************************************************************************)
(* Theorems about the streams, for every size of a block, of a chunk and   *)
(* of the array, all bytes, offsets, objects and copies.                   *)
(***************************************************************************)
EXTENDS Streams, SequenceTheorems, TLAPS

\* A function on 1 .. n is a sequence of length n.
LEMMA FunctionIsSequence ==
  ASSUME NEW S, NEW n \in Nat, NEW s \in [1 .. n -> S]
  PROVE  s \in Seq(S) /\ Len(s) = n
  OBVIOUS

-----------------------------------------------------------------------------
(* The inductive invariant                                                 *)

\* The blocks hold the length and not one block more than that needs, and behind the
\* length they are zero, so that growing shows zeros.
Whole(a) ==
    /\ a \in [blocks : Seq([1 .. BlockSize -> Byte]), length : Nat]
    /\ Len(a.blocks) = BlocksFor(a.length)
    /\ \A i \in DOMAIN a.blocks, j \in 1 .. BlockSize :
          (i - 1) * BlockSize + j > a.length => a.blocks[i][j] = Zero

\* For any number of streams that write to one store.
IInv == TypeOK /\ Whole(auto)

\* The number of streams that write to the store, as SizeExact has it.
OneWriter == \A v, w \in Writer : v = w

\* What the streams over the store remember.
FileSizes == kind = "file" =>
    \A o \in OpenObjects :
        IF o \in Writer THEN /\ known[o] >= Len(store)
                             /\ o \notin odd => known[o] = Len(store)
                        ELSE known[o] <= Len(store)

ArraySizes == kind # "file" =>
    /\ odd = {}
    /\ \A o \in OpenObjects : /\ o \in Writer /\ known[o] <= Capacity
                              /\ \A p \in known[o] + 1 .. Capacity : store[p] = Zero

\* How far a copy is, and that its lengths are inside its source and its target.
CopyPlace ==
    /\ Copying => copy.by \in Writer
    /\ copy.how = "CopyAt" => copy.moved + Len(copy.buf) <= copy.size
    /\ copy.how = "CopyAt" /\ copy.is = "done" => copy.moved = copy.size
    /\ copy.moved + Len(copy.buf) > 0 =>
          copy.from + copy.moved + Len(copy.buf) <= auto.length
    /\ copy.moved > 0 => copy.to + copy.moved <= Len(store)

\* What was moved is in the target, and what was read is in the buffer.
MovedTrue ==
    /\ \A k \in 1 .. copy.moved : store[copy.to + k] = ToBytes(auto)[copy.from + k]
    /\ \A k \in 1 .. Len(copy.buf) : copy.buf[k] = ToBytes(auto)[copy.from + copy.moved + k]

CopyTrue == ~copy.torn => MovedTrue

StoreType ==
    /\ kind \in {"file", "array", "fixed"}
    /\ store \in Seq(Byte)
    /\ kind # "file" => Len(store) = Capacity
    /\ known \in [Object -> Nat \cup {Closed}]
    /\ odd \subseteq OpenObjects

CopyType ==
    /\ copy \in [is : {"none", "read", "write", "done", "failed"}, how : {"CopyAt", "io.Copy"},
                by : Object \cup {Closed}, from : Nat, to : Nat, size : Nat, moved : Nat,
                buf : Seq(Byte), last : BOOLEAN, torn : BOOLEAN]
    /\ Copying => copy.by \in OpenObjects
    /\ Len(copy.buf) <= ChunkSize
    /\ copy.buf # << >> => copy.is = "write"

\* With one writer.
WInv == IInv /\ FileSizes /\ ArraySizes /\ CopyPlace /\ CopyTrue

-----------------------------------------------------------------------------
(* Lemmas about blocks                                                     *)

LEMMA Parameters ==
  /\ BlockSize \in Nat /\ BlockSize > 0 /\ ChunkSize \in Nat /\ ChunkSize > 0
  /\ Zero \in Byte /\ Zero = 0 /\ Capacity \in Nat /\ MaxLength \in Nat
  /\ Positions \subseteq Nat /\ Sizes \subseteq Nat
  /\ Closed \notin Nat /\ Writer \subseteq Object
  BY StreamsAssumption DEF Zero, Positions

\* n bytes are n \div B blocks of B and n % B bytes.
LEMMA Division ==
  ASSUME NEW B \in Nat, B > 0, NEW n \in Nat
  PROVE  /\ n \div B \in Nat /\ n % B \in 0 .. B - 1
         /\ n = (n \div B) * B + (n % B)
  OBVIOUS

\* A byte has one place.
LEMMA OnePlace ==
  ASSUME NEW B \in Nat, NEW i \in Int, NEW k \in Int, NEW j \in 1 .. B, NEW l \in 1 .. B,
         i * B + j = k * B + l
  PROVE  i = k /\ j = l
  OBVIOUS

LEMMA BlocksMono ==
  ASSUME NEW B \in Nat, NEW i \in Int, NEW k \in Int, i <= k
  PROVE  i * B <= k * B /\ i * B \in Int /\ k * B \in Int
  OBVIOUS

LEMMA MaxIs ==
  ASSUME NEW a \in Int, NEW b \in Int
  PROVE  /\ MaxOf(a, b) \in Int /\ MaxOf(a, b) >= a /\ MaxOf(a, b) >= b
         /\ a <= b => MaxOf(a, b) = b
         /\ b <= a => MaxOf(a, b) = a
  BY DEF MaxOf

LEMMA MinIs ==
  ASSUME NEW a \in Int, NEW b \in Int
  PROVE  /\ MinOf(a, b) \in Int /\ MinOf(a, b) <= a /\ MinOf(a, b) <= b
         /\ a <= b => MinOf(a, b) = a
         /\ b <= a => MinOf(a, b) = b
  BY DEF MinOf

\* n bytes fit into BlocksFor(n) blocks, and into no fewer.
LEMMA BlocksForIs ==
  ASSUME NEW n \in Nat
  PROVE  /\ BlocksFor(n) \in Nat
         /\ n <= BlocksFor(n) * BlockSize
         /\ n > 0 => (BlocksFor(n) - 1) * BlockSize < n
         /\ n = 0 => BlocksFor(n) = 0
<1>1. BlockSize \in Nat /\ BlockSize > 0
  BY Parameters
<1>2. CASE n = 0
  BY <1>1, <1>2 DEF BlocksFor
<1>3. CASE n > 0
  <2> DEFINE q == (n - 1) \div BlockSize
             r == (n - 1) % BlockSize
  <2>1. q \in Nat /\ r \in 0 .. BlockSize - 1 /\ n - 1 = q * BlockSize + r
    BY <1>1, <1>3, Division
  <2>2. BlocksFor(n) = q + 1
    BY <1>3 DEF BlocksFor
  <2> HIDE DEF q, r
  <2>3. (q + 1) * BlockSize = q * BlockSize + BlockSize /\ q * BlockSize \in Nat
    BY <1>1, <2>1
  <2>4. (BlocksFor(n) - 1) * BlockSize = q * BlockSize
    BY <2>1, <2>2
  <2> QED
    BY <1>1, <1>3, <2>1, <2>2, <2>3, <2>4
<1> QED
  BY <1>2, <1>3

LEMMA BlocksForRises ==
  ASSUME NEW n \in Nat, NEW m \in Nat, n <= m
  PROVE  BlocksFor(n) <= BlocksFor(m)
<1>1. /\ BlockSize \in Nat /\ BlockSize > 0 /\ BlocksFor(n) \in Nat /\ BlocksFor(m) \in Nat
      /\ m <= BlocksFor(m) * BlockSize
      /\ n > 0 => (BlocksFor(n) - 1) * BlockSize < n
      /\ n = 0 => BlocksFor(n) = 0
  BY Parameters, BlocksForIs
<1>2. SUFFICES ASSUME n > 0, BlocksFor(m) < BlocksFor(n) PROVE FALSE
  BY <1>1
<1> DEFINE j == BlocksFor(m)
           k == BlocksFor(n) - 1
<1>3. j \in Int /\ k \in Int /\ j <= k /\ m <= j * BlockSize /\ k * BlockSize < n
  BY <1>1, <1>2
<1> HIDE DEF j, k
<1>4. j * BlockSize <= k * BlockSize
  BY <1>1, <1>3
<1> QED
  BY <1>1, <1>3, <1>4

\* Every byte of the stream is in a block.
LEMMA PlaceIs ==
  ASSUME NEW n \in Nat, NEW p \in Nat, p < n
  PROVE  /\ (p \div BlockSize) + 1 \in 1 .. BlocksFor(n)
         /\ (p % BlockSize) + 1 \in 1 .. BlockSize
         /\ (((p \div BlockSize) + 1) - 1) * BlockSize + ((p % BlockSize) + 1) = p + 1
<1> DEFINE q == p \div BlockSize
           r == p % BlockSize
<1>1. /\ BlockSize \in Nat /\ BlockSize > 0 /\ BlocksFor(n) \in Nat
      /\ n <= BlocksFor(n) * BlockSize
  BY Parameters, BlocksForIs
<1>2. q \in Nat /\ r \in 0 .. BlockSize - 1 /\ p = q * BlockSize + r
  BY <1>1, Division
<1> HIDE DEF q, r
<1>3. q < BlocksFor(n)
  <2> SUFFICES ASSUME BlocksFor(n) <= q PROVE FALSE
    BY <1>1, <1>2
  <2>1. BlocksFor(n) * BlockSize <= q * BlockSize
    BY <1>1, <1>2, BlocksMono
  <2> QED
    BY <1>1, <1>2, <2>1
<1>4. q + 1 \in 1 .. BlocksFor(n) /\ r + 1 \in 1 .. BlockSize /\ (q + 1) - 1 = q
  BY <1>1, <1>2, <1>3
<1>5. ((q + 1) - 1) * BlockSize + (r + 1) = p + 1
  BY <1>1, <1>2, <1>4
<1> QED
  BY <1>4, <1>5 DEF q, r

LEMMA PlaceOf ==
  ASSUME NEW n \in Nat, NEW p \in 1 .. n
  PROVE  \E i \in 1 .. BlocksFor(n), j \in 1 .. BlockSize : (i - 1) * BlockSize + j = p
<1>1. p - 1 \in Nat /\ p - 1 < n /\ (p - 1) + 1 = p
  OBVIOUS
<1> QED
  BY <1>1, PlaceIs

LEMMA WholeType ==
  ASSUME NEW a, Whole(a)
  PROVE  /\ a.length \in Nat /\ a.blocks \in Seq([1 .. BlockSize -> Byte])
         /\ DOMAIN a.blocks = 1 .. BlocksFor(a.length) /\ BlocksFor(a.length) \in Nat
         /\ Len(a.blocks) = BlocksFor(a.length)
         /\ \A i \in DOMAIN a.blocks : a.blocks[i] \in [1 .. BlockSize -> Byte]
         /\ a = [blocks |-> a.blocks, length |-> a.length]
<1>1. a.length \in Nat /\ a.blocks \in Seq([1 .. BlockSize -> Byte])
      /\ Len(a.blocks) = BlocksFor(a.length) /\ a = [blocks |-> a.blocks, length |-> a.length]
  BY DEF Whole
<1> QED
  BY <1>1, BlocksForIs

\* The byte at a place is the byte of the stream, or zero behind the length.
LEMMA ByteAt ==
  ASSUME NEW a, Whole(a), NEW i \in DOMAIN a.blocks, NEW j \in 1 .. BlockSize
  PROVE  /\ (i - 1) * BlockSize + j \in Nat /\ (i - 1) * BlockSize + j > 0
         /\ a.blocks[i][j] = IF (i - 1) * BlockSize + j <= a.length
                             THEN ToBytes(a)[(i - 1) * BlockSize + j] ELSE Zero
<1> DEFINE p == (i - 1) * BlockSize + j
<1>1. /\ BlockSize \in Nat /\ BlockSize > 0 /\ a.length \in Nat /\ i \in Nat /\ i - 1 \in Nat
      /\ DOMAIN a.blocks \subseteq Nat
  BY Parameters, WholeType
<1>2. p \in Nat /\ p > 0
  <2>1. (i - 1) * BlockSize \in Nat
    BY <1>1
  <2> QED
    BY <1>1, <2>1
<1>3. ASSUME p <= a.length PROVE ToBytes(a)[p] = a.blocks[i][j]
  <2> DEFINE At(c) == (c[1] - 1) * BlockSize + c[2] = p
             places == (DOMAIN a.blocks) \X (1 .. BlockSize)
             c == CHOOSE c \in places : At(c)
  <2>1. <<i, j>> \in places /\ At(<<i, j>>)
    OBVIOUS
  <2>2. c \in places /\ At(c)
    <3> HIDE DEF places, At
    <3> QED
      BY <2>1
  <2>3. c[1] \in DOMAIN a.blocks /\ c[2] \in 1 .. BlockSize /\ (c[1] - 1) * BlockSize + c[2] = p
    BY <2>2
  <2>4. ToBytes(a)[p] = a.blocks[c[1]][c[2]]
    <3>1. p \in 1 .. a.length
      BY <1>1, <1>2, <1>3
    <3> QED
      BY <3>1, Zenon DEF ToBytes
  <2> HIDE DEF c
  <2>5. c[1] - 1 \in Int /\ i - 1 \in Int /\ c[1] \in Nat
    <3>1. c[1] \in Nat /\ i \in Nat
      BY <1>1, <2>3, Zenon
    <3> QED
      BY <3>1
  <2>6. c[1] - 1 = i - 1 /\ c[2] = j
    <3> DEFINE u == c[1] - 1
               v == c[2]
               t == i - 1
    <3>1. /\ u * BlockSize + v = t * BlockSize + j /\ u \in Int /\ t \in Int
          /\ BlockSize \in Nat /\ v \in 1 .. BlockSize /\ j \in 1 .. BlockSize
      BY <1>1, <2>3, <2>5
    <3>2. u = t /\ v = j
      <4> HIDE DEF u, v, t
      <4> QED
        BY <3>1, OnePlace
    <3> QED
      BY <3>2
  <2> QED
    BY <1>1, <2>4, <2>5, <2>6
<1>4. p > a.length => a.blocks[i][j] = Zero
  BY DEF Whole
<1> QED
  BY <1>1, <1>2, <1>3, <1>4

LEMMA ToBytesType ==
  ASSUME NEW a, Whole(a)
  PROVE  ToBytes(a) \in Seq(Byte) /\ Len(ToBytes(a)) = a.length /\ a.length \in Nat
<1>1. a.length \in Nat
  BY WholeType
<1>2. ASSUME NEW p \in 1 .. a.length PROVE ToBytes(a)[p] \in Byte
  <2>1. PICK i \in 1 .. BlocksFor(a.length), j \in 1 .. BlockSize : (i - 1) * BlockSize + j = p
    BY <1>1, PlaceOf
  <2>2. i \in DOMAIN a.blocks /\ a.blocks[i] \in [1 .. BlockSize -> Byte]
    BY WholeType
  <2>3. a.blocks[i][j] \in Byte
    BY <2>2
  <2>4. p <= a.length
    BY <1>1
  <2> QED
    BY <2>1, <2>2, <2>3, <2>4, ByteAt
<1>3. ToBytes(a) = [p \in 1 .. a.length |-> ToBytes(a)[p]]
  BY DEF ToBytes
<1>4. ToBytes(a) \in [1 .. a.length -> Byte]
  BY <1>2, <1>3
<1> QED
  BY <1>1, <1>4

\* A part of a sequence: n elements from off on, or what there is of them.
LEMMA PartIs ==
  ASSUME NEW S, NEW s \in Seq(S), NEW off \in Nat, NEW n \in Int
  PROVE  /\ Part(s, off, n) \in Seq(S)
         /\ Len(Part(s, off, n)) \in Nat
         /\ Len(Part(s, off, n)) = MaxOf(MinOf(n, Len(s) - off), 0)
         /\ Len(Part(s, off, n)) > 0 => off + Len(Part(s, off, n)) <= Len(s)
         /\ \A k \in 1 .. Len(Part(s, off, n)) : Part(s, off, n)[k] = s[off + k]
<1> DEFINE e == MinOf(off + n, Len(s))
<1>1. Len(s) \in Nat /\ \A i \in 1 .. Len(s) : s[i] \in S
  OBVIOUS
<1>2. e \in Int /\ e <= Len(s) /\ e <= off + n /\ (e = Len(s) \/ e = off + n)
  BY <1>1 DEF MinOf
<1>3. Part(s, off, n) = SubSeq(s, off + 1, e)
  BY DEF Part
<1> HIDE DEF e
<1>4. \A i \in off + 1 .. e : s[i] \in S
  BY <1>1, <1>2
<1>5. /\ SubSeq(s, off + 1, e) \in Seq(S)
      /\ Len(SubSeq(s, off + 1, e)) = IF off + 1 <= e THEN e - (off + 1) + 1 ELSE 0
      /\ \A i \in 1 .. e - (off + 1) + 1 : SubSeq(s, off + 1, e)[i] = s[(off + 1) + i - 1]
  BY <1>2, <1>4, SubSeqProperties
<1>6. Len(Part(s, off, n)) = MaxOf(MinOf(n, Len(s) - off), 0)
  <2>1. e - (off + 1) + 1 = e - off /\ (off + 1 <= e <=> e - off > 0)
    BY <1>2
  <2>2. MinOf(n, Len(s) - off) = e - off
    BY <1>1, <1>2 DEF MinOf
  <2> QED
    BY <1>2, <1>3, <1>5, <2>1, <2>2 DEF MaxOf
<1>7. Len(Part(s, off, n)) = IF off + 1 <= e THEN e - off ELSE 0
  BY <1>2, <1>3, <1>5
<1>8. ASSUME NEW k \in 1 .. Len(Part(s, off, n)) PROVE Part(s, off, n)[k] = s[off + k]
  <2>1. k \in 1 .. e - (off + 1) + 1 /\ (off + 1) + k - 1 = off + k
    BY <1>2, <1>7
  <2> QED
    BY <1>3, <1>5, <2>1
<1> QED
  BY <1>1, <1>2, <1>3, <1>5, <1>6, <1>7, <1>8

\* ReadAt gives what ToBytes has there.
LEMMA AutoReads ==
  ASSUME NEW a, Whole(a), NEW off \in Nat, NEW n \in Int
  PROVE  AutoReadAt(a, off, n) = Outcome(Part(ToBytes(a), off, n), n)
<1> DEFINE m == MaxOf(MinOf(n, a.length - off), 0)
           f == [k \in 1 .. m |->
                   a.blocks[((off + k - 1) \div BlockSize) + 1][((off + k - 1) % BlockSize) + 1]]
           g == Part(ToBytes(a), off, n)
<1>1. /\ a.length \in Nat /\ ToBytes(a) \in Seq(Byte) /\ Len(ToBytes(a)) = a.length
  BY ToBytesType
<1>2. m \in Nat /\ (m > 0 => off + m <= a.length)
  BY <1>1 DEF MaxOf, MinOf
<1>3. /\ g \in Seq(Byte) /\ Len(g) = m
      /\ \A k \in 1 .. m : g[k] = ToBytes(a)[off + k]
  <2>1. Len(ToBytes(a)) - off = a.length - off
    BY <1>1
  <2>2. /\ g \in Seq(Byte) /\ Len(g) = MaxOf(MinOf(n, Len(ToBytes(a)) - off), 0)
        /\ \A k \in 1 .. Len(g) : g[k] = ToBytes(a)[off + k]
    BY <1>1, PartIs
  <2>3. Len(g) = m
    BY <2>1, <2>2
  <2> HIDE DEF g, m
  <2> QED
    BY <2>2, <2>3
<1>4. AutoReadAt(a, off, n) = Outcome(f, n)
  BY DEF AutoReadAt
<1>5. ASSUME NEW k \in 1 .. m PROVE f[k] = ToBytes(a)[off + k]
  <2> DEFINE p == off + k - 1
             i == (p \div BlockSize) + 1
             j == (p % BlockSize) + 1
  <2>1. f[k] = a.blocks[i][j]
    OBVIOUS
  <2> HIDE DEF m, f
  <2>2. p \in Nat /\ p < a.length /\ p + 1 = off + k
    BY <1>1, <1>2
  <2> HIDE DEF p
  <2>3. i \in DOMAIN a.blocks /\ j \in 1 .. BlockSize /\ (i - 1) * BlockSize + j = p + 1
    BY <1>1, <2>2, PlaceIs, WholeType
  <2> HIDE DEF i, j
  <2>4. a.blocks[i][j] = ToBytes(a)[p + 1]
    BY <1>1, <2>2, <2>3, ByteAt
  <2> QED
    BY <2>1, <2>2, <2>4
<1>6. f = [k \in 1 .. m |-> f[k]]
  OBVIOUS
<1> HIDE DEF f, g, m
<1>7. f = g
  <2>1. \A k \in 1 .. m : f[k] = g[k]
    BY <1>3, <1>5
  <2>2. g = [k \in 1 .. m |-> g[k]]
    BY <1>2, <1>3
  <2> QED
    BY <1>6, <2>1, <2>2
<1> QED
  BY <1>4, <1>7 DEF g

\* Appended blocks are zero, and so is what a stream shows of them when it grows.
LEMMA ExtendedBlocks ==
  ASSUME NEW a, Whole(a), NEW n \in Nat
  PROVE  LET e == Extended(a.blocks, n) IN
         /\ e \in Seq([1 .. BlockSize -> Byte])
         /\ Len(e) = BlocksFor(MaxOf(a.length, n)) /\ Len(e) \in Nat
         /\ \A i \in 1 .. Len(e), j \in 1 .. BlockSize :
              e[i][j] = IF (i - 1) * BlockSize + j <= a.length
                        THEN ToBytes(a)[(i - 1) * BlockSize + j] ELSE Zero
<1> DEFINE e == Extended(a.blocks, n)
           more == MaxOf(BlocksFor(n) - Len(a.blocks), 0)
           z == [i \in 1 .. more |-> Zeros(BlockSize)]
<1>1. /\ a.length \in Nat /\ a.blocks \in Seq([1 .. BlockSize -> Byte])
      /\ Len(a.blocks) = BlocksFor(a.length) /\ BlocksFor(a.length) \in Nat
      /\ BlocksFor(n) \in Nat /\ BlockSize \in Nat /\ BlockSize > 0 /\ Zero \in Byte
      /\ a.length <= BlocksFor(a.length) * BlockSize
  BY WholeType, BlocksForIs, Parameters
<1>2. more \in Nat /\ MaxOf(a.length, n) \in Nat
      /\ Len(a.blocks) + more = BlocksFor(MaxOf(a.length, n))
  <2>1. CASE a.length < n
    <3>1. BlocksFor(a.length) <= BlocksFor(n)
      BY <1>1, <2>1, BlocksForRises
    <3>2. BlocksFor(n) - Len(a.blocks) \in Int /\ 0 <= BlocksFor(n) - Len(a.blocks)
      <4>1. BlocksFor(n) \in Nat /\ Len(a.blocks) \in Nat /\ Len(a.blocks) = BlocksFor(a.length)
        BY <1>1
      <4> QED
        BY <3>1, <4>1
    <3>3. more = BlocksFor(n) - Len(a.blocks)
      BY <3>2, MaxIs
    <3>4. MaxOf(a.length, n) = n
      BY <2>1 DEF MaxOf
    <3>5. n \in Nat /\ BlocksFor(n) \in Nat /\ Len(a.blocks) \in Nat /\ Len(a.blocks) = BlocksFor(a.length)
      BY <1>1
    <3> HIDE DEF more
    <3> QED
      BY <3>1, <3>3, <3>4, <3>5
  <2>2. CASE n <= a.length
    <3>1. BlocksFor(n) <= BlocksFor(a.length)
      BY <1>1, <2>2, BlocksForRises
    <3>2. BlocksFor(n) - Len(a.blocks) \in Int /\ BlocksFor(n) - Len(a.blocks) <= 0
      BY <1>1, <3>1
    <3>3. more = 0
      BY <3>2, MaxIs
    <3>4. MaxOf(a.length, n) = a.length
      <4>1. a.length \in Nat
        BY <1>1
      <4> QED
        BY <4>1, <2>2 DEF MaxOf
    <3> HIDE DEF more
    <3> QED
      BY <1>1, <3>3, <3>4
  <2> QED
    BY <1>1, <2>1, <2>2
<1>3. Zeros(BlockSize) \in [1 .. BlockSize -> Byte] /\ \A j \in 1 .. BlockSize : Zeros(BlockSize)[j] = Zero
  BY <1>1 DEF Zeros, MaxOf
<1>4. z \in Seq([1 .. BlockSize -> Byte]) /\ Len(z) = more
  <2> HIDE DEF more
  <2>1. z \in [1 .. more -> [1 .. BlockSize -> Byte]]
    BY <1>3
  <2> QED
    BY <1>2, <2>1
<1>5. e = a.blocks \o z
  BY DEF Extended
<1>6. e \in Seq([1 .. BlockSize -> Byte]) /\ Len(e) = Len(a.blocks) + more
  <2> HIDE DEF e, z, more
  <2> QED
    BY <1>1, <1>2, <1>4, <1>5, ConcatProperties
<1>7. ASSUME NEW i \in 1 .. Len(e), NEW j \in 1 .. BlockSize
      PROVE  e[i][j] = IF (i - 1) * BlockSize + j <= a.length
                        THEN ToBytes(a)[(i - 1) * BlockSize + j] ELSE Zero
  <2>0. Len(a.blocks) \in Nat /\ DOMAIN a.blocks = 1 .. Len(a.blocks) /\ a.blocks \in Seq([1 .. BlockSize -> Byte])
    BY <1>1
  <2>1. CASE i <= Len(a.blocks)
    <3>1. i \in DOMAIN a.blocks
      BY <2>0, <2>1
    <3>2. e[i] = a.blocks[i]
      <4> HIDE DEF e, z, more
      <4> QED
        BY <1>4, <1>5, <2>0, <2>1
    <3> HIDE DEF e
    <3> QED
      BY <3>1, <3>2, ByteAt
  <2>2. CASE i > Len(a.blocks)
    <3> HIDE DEF e, more
    <3>1. i - Len(a.blocks) \in 1 .. more /\ i \in Nat
      <4>1. more \in Nat /\ Len(e) = Len(a.blocks) + more
        BY <1>2, <1>6
      <4> QED
        BY <2>0, <2>2, <4>1
    <3>2. e[i] = z[i - Len(a.blocks)]
      <4> HIDE DEF z
      <4>1. more \in Nat /\ Len(e) = Len(a.blocks) + more
        BY <1>2, <1>6
      <4> QED
        BY <1>4, <1>5, <2>0, <2>2, <4>1
    <3>3. e[i][j] = Zero
      BY <1>3, <3>1, <3>2
    <3>4. Len(a.blocks) * BlockSize <= (i - 1) * BlockSize /\ (i - 1) * BlockSize \in Int
      <4>1. Len(a.blocks) \in Int /\ i - 1 \in Int /\ Len(a.blocks) <= i - 1
        BY <1>1, <2>2, <3>1
      <4> QED
        BY <1>1, <4>1, BlocksMono
    <3>5. (i - 1) * BlockSize + j > a.length
      BY <1>1, <3>4
    <3>6. ~((i - 1) * BlockSize + j <= a.length)
      BY <1>1, <3>4, <3>5
    <3> QED
      BY <3>3, <3>6
  <2> QED
    BY <1>1, <1>2, <1>6, <2>1, <2>2
<1> HIDE DEF e
<1>8. Len(e) \in Nat
  BY <1>1, <1>2, <1>6
<1> QED
  BY <1>2, <1>6, <1>7, <1>8 DEF e

\* Blocks e hold the bytes b, zero behind n.
Hold(e, n, b) ==
    /\ e \in Seq([1 .. BlockSize -> Byte]) /\ n \in Nat /\ Len(e) = BlocksFor(n)
    /\ b \in [Nat -> Byte]
    /\ \A i \in 1 .. Len(e), j \in 1 .. BlockSize : e[i][j] = b[(i - 1) * BlockSize + j]
    /\ \A p \in Nat : p > n => b[p] = Zero

\* They are a stream of the first n of these bytes.
LEMMA FromBlocks ==
  ASSUME NEW e, NEW n, NEW b, Hold(e, n, b)
  PROVE  /\ Whole([blocks |-> e, length |-> n])
         /\ \A p \in 1 .. n : ToBytes([blocks |-> e, length |-> n])[p] = b[p]
<1> USE DEF Hold
<1> DEFINE a == [blocks |-> e, length |-> n]
<1>1. a.blocks = e /\ a.length = n /\ a \in [blocks : Seq([1 .. BlockSize -> Byte]), length : Nat]
  OBVIOUS
<1>2. /\ BlockSize \in Nat /\ BlockSize > 0 /\ BlocksFor(n) \in Nat /\ Len(e) \in Nat
      /\ DOMAIN e = 1 .. Len(e)
  BY Parameters, BlocksForIs
<1> HIDE DEF a
<1>3. ASSUME NEW i \in 1 .. Len(e), NEW j \in 1 .. BlockSize, (i - 1) * BlockSize + j > n
      PROVE  e[i][j] = Zero
  <2>1. i - 1 \in Nat
    BY <1>2
  <2>2. (i - 1) * BlockSize \in Nat
    BY <1>2, <2>1
  <2>3. (i - 1) * BlockSize + j \in Nat
    BY <1>2, <2>2
  <2> QED
    BY <1>3, <2>3
<1>4. Whole(a)
  BY <1>1, <1>2, <1>3 DEF Whole
<1>5. ASSUME NEW p \in 1 .. n PROVE ToBytes(a)[p] = b[p]
  <2>1. PICK i \in 1 .. BlocksFor(n), j \in 1 .. BlockSize : (i - 1) * BlockSize + j = p
    BY PlaceOf
  <2>2. i \in DOMAIN a.blocks /\ p <= a.length
    BY <1>1, <1>2
  <2>3. a.blocks[i][j] = ToBytes(a)[p]
    BY <1>4, <2>1, <2>2, ByteAt
  <2>4. a.blocks[i][j] = b[p]
    BY <1>1, <2>1
  <2> QED
    BY <2>3, <2>4
<1> QED
  BY <1>4, <1>5 DEF a

\* The bytes of a stream, with zeros behind it.
Padded(a) == [p \in Nat |-> IF p \in 1 .. a.length THEN ToBytes(a)[p] ELSE Zero]

LEMMA PaddedIs ==
  ASSUME NEW a, Whole(a)
  PROVE  /\ Padded(a) \in [Nat -> Byte] /\ a.length \in Nat
         /\ \A p \in Nat : p > a.length => Padded(a)[p] = Zero
         /\ \A p \in 1 .. a.length : Padded(a)[p] = ToBytes(a)[p]
<1>1. a.length \in Nat /\ ToBytes(a) \in Seq(Byte) /\ Len(ToBytes(a)) = a.length /\ Zero \in Byte
  BY ToBytesType, Parameters
<1>2. \A p \in 1 .. a.length : ToBytes(a)[p] \in Byte
  BY <1>1
<1> QED
  BY <1>1, <1>2 DEF Padded

\* A stream that grows shows zeros behind what it had.
LEMMA GrownIs ==
  ASSUME NEW a, Whole(a), NEW n \in Nat
  PROVE  /\ Whole(AutoGrown(a, n))
         /\ AutoGrown(a, n).length = MaxOf(a.length, n)
         /\ \A p \in 1 .. MaxOf(a.length, n) : ToBytes(AutoGrown(a, n))[p] = Padded(a)[p]
<1> DEFINE e == Extended(a.blocks, n)
           m == MaxOf(a.length, n)
<1>1. a.length \in Nat /\ BlockSize \in Nat /\ BlockSize > 0
  BY WholeType, Parameters
<1>2. m \in Nat /\ m >= a.length
  BY <1>1 DEF MaxOf
<1>3. /\ e \in Seq([1 .. BlockSize -> Byte]) /\ Len(e) = BlocksFor(m) /\ Len(e) \in Nat
      /\ \A i \in 1 .. Len(e), j \in 1 .. BlockSize :
           e[i][j] = IF (i - 1) * BlockSize + j <= a.length
                     THEN ToBytes(a)[(i - 1) * BlockSize + j] ELSE Zero
  BY ExtendedBlocks
<1> HIDE DEF e, m
<1>4. ASSUME NEW i \in 1 .. Len(e), NEW j \in 1 .. BlockSize
      PROVE  e[i][j] = Padded(a)[(i - 1) * BlockSize + j]
  <2> DEFINE p == (i - 1) * BlockSize + j
  <2>1. i - 1 \in Nat
    BY <1>3
  <2>2. (i - 1) * BlockSize \in Nat
    BY <1>1, <2>1
  <2>3. p \in Nat /\ p > 0
    BY <1>1, <2>2
  <2>4. e[i][j] = IF p <= a.length THEN ToBytes(a)[p] ELSE Zero
    BY <1>3
  <2> HIDE DEF p
  <2>5. e[i][j] = Padded(a)[p]
    BY <1>1, <2>3, <2>4 DEF Padded
  <2> QED
    BY <2>5 DEF p
<1>5. Padded(a) \in [Nat -> Byte] /\ \A p \in Nat : p > m => Padded(a)[p] = Zero
  BY <1>1, <1>2, PaddedIs
<1>6. AutoGrown(a, n) = [blocks |-> e, length |-> m]
  BY DEF AutoGrown, e, m
<1>7. Hold(e, m, Padded(a))
  BY <1>2, <1>3, <1>4, <1>5 DEF Hold
<1>8. Whole(AutoGrown(a, n)) /\ \A p \in 1 .. m : ToBytes(AutoGrown(a, n))[p] = Padded(a)[p]
  BY <1>6, <1>7, FromBlocks
<1> QED
  BY <1>6, <1>8 DEF m

\* A write changes the bytes it is for, and shows zeros between the old end and them.
LEMMA WrittenIs ==
  ASSUME NEW a, Whole(a), NEW at \in Nat, NEW d \in Seq(Byte), d # << >>
  PROVE  /\ Whole(AutoWritten(a, at, d))
         /\ AutoWritten(a, at, d).length = MaxOf(a.length, at + Len(d))
         /\ \A p \in 1 .. MaxOf(a.length, at + Len(d)) :
              ToBytes(AutoWritten(a, at, d))[p] =
                  IF p \in at + 1 .. at + Len(d) THEN d[p - at] ELSE Padded(a)[p]
<1> DEFINE x == Extended(a.blocks, at + Len(d))
           m == MaxOf(a.length, at + Len(d))
           b == [p \in Nat |-> IF p \in at + 1 .. at + Len(d) THEN d[p - at] ELSE Padded(a)[p]]
           e == [i \in DOMAIN x |-> [j \in 1 .. BlockSize |->
                   LET p == (i - 1) * BlockSize + j - at IN
                   IF p \in DOMAIN d THEN d[p] ELSE x[i][j]]]
<1>1. /\ a.length \in Nat /\ BlockSize \in Nat /\ BlockSize > 0
      /\ Len(d) \in Nat /\ DOMAIN d = 1 .. Len(d) /\ at + Len(d) \in Nat
      /\ \A q \in 1 .. Len(d) : d[q] \in Byte
  BY WholeType, Parameters
<1>2. m \in Nat /\ m >= a.length /\ m >= at + Len(d)
  BY <1>1 DEF MaxOf
<1>3. /\ x \in Seq([1 .. BlockSize -> Byte]) /\ Len(x) = BlocksFor(m) /\ Len(x) \in Nat
      /\ \A i \in 1 .. Len(x), j \in 1 .. BlockSize :
           x[i][j] = IF (i - 1) * BlockSize + j <= a.length
                     THEN ToBytes(a)[(i - 1) * BlockSize + j] ELSE Zero
  BY <1>1, ExtendedBlocks
<1>4. AutoWritten(a, at, d) = [blocks |-> e, length |-> m]
  BY DEF AutoWritten
<1> HIDE DEF x, m
<1>5. /\ DOMAIN x = 1 .. Len(x)
      /\ \A i \in 1 .. Len(x) : x[i] \in [1 .. BlockSize -> Byte]
  BY <1>3
<1>6. ASSUME NEW i \in 1 .. Len(x), NEW j \in 1 .. BlockSize
      PROVE  e[i][j] = b[(i - 1) * BlockSize + j] /\ e[i][j] \in Byte
  <2> DEFINE p == (i - 1) * BlockSize + j
  <2>1. i - 1 \in Nat
    BY <1>3
  <2>2. (i - 1) * BlockSize \in Nat
    BY <1>1, <2>1
  <2>3. p \in Nat /\ p > 0
    BY <1>1, <2>2
  <2>4. x[i][j] = IF p <= a.length THEN ToBytes(a)[p] ELSE Zero
    BY <1>3
  <2>5. e[i][j] = IF p - at \in 1 .. Len(d) THEN d[p - at] ELSE x[i][j]
    BY <1>1, <1>5
  <2> HIDE DEF p, e
  <2>6. x[i][j] = Padded(a)[p]
    BY <1>1, <2>3, <2>4 DEF Padded
  <2>7. p - at \in 1 .. Len(d) <=> p \in at + 1 .. at + Len(d)
    BY <1>1, <2>3
  <2>8. e[i][j] = b[p]
    BY <2>3, <2>5, <2>6, <2>7
  <2>9. x[i][j] \in Byte
    BY <1>5
  <2>10. e[i][j] \in Byte
    BY <1>1, <2>5, <2>9
  <2> QED
    BY <2>8, <2>10 DEF p
<1>7. e \in Seq([1 .. BlockSize -> Byte]) /\ Len(e) = BlocksFor(m)
  <2> DEFINE row(i) == [j \in 1 .. BlockSize |->
                          LET p == (i - 1) * BlockSize + j - at IN
                          IF p \in DOMAIN d THEN d[p] ELSE x[i][j]]
  <2>1. \A i \in 1 .. Len(x) : e[i] = row(i) /\ row(i) = [j \in 1 .. BlockSize |-> row(i)[j]]
    BY <1>5
  <2>2. DOMAIN e = 1 .. Len(x) /\ e = [i \in 1 .. Len(x) |-> e[i]]
    BY <1>5
  <2> HIDE DEF e, row
  <2>3. \A i \in 1 .. Len(x) : e[i] \in [1 .. BlockSize -> Byte]
    BY <1>6, <2>1
  <2>4. e \in [1 .. Len(x) -> [1 .. BlockSize -> Byte]]
    BY <2>2, <2>3
  <2>5. Len(x) \in Nat /\ Len(x) = BlocksFor(m)
    BY <1>3
  <2> QED
    BY <2>4, <2>5, FunctionIsSequence
<1>8. b \in [Nat -> Byte]
  <2>1. \A p \in Nat : p \in at + 1 .. at + Len(d) => p - at \in 1 .. Len(d)
    BY <1>1
  <2> QED
    BY <1>1, <2>1, PaddedIs
<1>9. \A p \in Nat : p > m => b[p] = Zero
  <2>1. \A p \in Nat : p > m => p \notin at + 1 .. at + Len(d) /\ p > a.length
    BY <1>1, <1>2
  <2> QED
    BY <2>1, PaddedIs
<1>10. \A p \in 1 .. m : b[p] = IF p \in at + 1 .. at + Len(d) THEN d[p - at] ELSE Padded(a)[p]
  BY <1>2
<1> HIDE DEF e, b
<1>11. \A i \in 1 .. Len(e), j \in 1 .. BlockSize : e[i][j] = b[(i - 1) * BlockSize + j]
  BY <1>3, <1>6, <1>7
<1>12. Hold(e, m, b)
  BY <1>2, <1>7, <1>8, <1>9, <1>11 DEF Hold
<1>13. Whole(AutoWritten(a, at, d)) /\ \A p \in 1 .. m : ToBytes(AutoWritten(a, at, d))[p] = b[p]
  BY <1>4, <1>12, FromBlocks
<1> QED
  BY <1>4, <1>10, <1>13 DEF m

LEMMA DataIs ==
  ASSUME NEW d \in Data
  PROVE  d \in Seq(Byte) /\ d # << >> /\ Len(d) \in {1, 2}
<1>1. PICK n \in {1, 2}, b \in Byte : d = [p \in 1 .. n |-> b]
  BY DEF Data
<1>2. d \in [1 .. n -> Byte] /\ n \in Nat
  BY <1>1
<1>3. d \in Seq(Byte) /\ Len(d) = n
  BY <1>2, FunctionIsSequence
<1> QED
  BY <1>3

-----------------------------------------------------------------------------
(* The blocks of an AutoSizeStream are one sequence of bytes               *)

LEMMA WholeInit == Init => Whole(auto) /\ ToBytes(auto) = << >>
<1> SUFFICES ASSUME Init PROVE Whole(auto) /\ ToBytes(auto) = << >>
  OBVIOUS
<1>1. auto = [blocks |-> << >>, length |-> 0]
  BY DEF Init
<1>2. auto.blocks = << >> /\ auto.length = 0
  BY <1>1
<1>3. auto \in [blocks : Seq([1 .. BlockSize -> Byte]), length : Nat]
  BY <1>1
<1>4. Whole(auto)
  BY <1>2, <1>3 DEF Whole, BlocksFor
<1>5. ToBytes(auto) \in Seq(Byte) /\ Len(ToBytes(auto)) = 0
  BY <1>2, <1>4, ToBytesType
<1> QED
  BY <1>4, <1>5

\* What a sequence of bytes becomes when it is lengthened.
LEMMA LengthenedIs ==
  ASSUME NEW a, Whole(a), NEW n \in Nat
  PROVE  /\ BS!Lengthened(ToBytes(a), n) \in Seq(Byte)
         /\ Len(BS!Lengthened(ToBytes(a), n)) = MaxOf(a.length, n)
         /\ MaxOf(a.length, n) \in Nat
         /\ \A p \in 1 .. MaxOf(a.length, n) : BS!Lengthened(ToBytes(a), n)[p] = Padded(a)[p]
<1> DEFINE s == ToBytes(a)
           more == IF n > Len(s) THEN n - Len(s) ELSE 0
           z == [p \in 1 .. more |-> Zero]
<1>1. a.length \in Nat /\ s \in Seq(Byte) /\ Len(s) = a.length /\ Zero \in Byte
  BY ToBytesType, Parameters
<1>2. more \in Nat /\ Len(s) + more = MaxOf(a.length, n)
  BY <1>1 DEF MaxOf
<1>3. BS!Lengthened(ToBytes(a), n) = s \o z
  BY DEF BS!Lengthened
<1> HIDE DEF s, more
<1>4. z \in [1 .. more -> Byte] /\ \A p \in 1 .. more : z[p] = Zero
  BY <1>1
<1> HIDE DEF z
<1>5. z \in Seq(Byte) /\ Len(z) = more
  BY <1>2, <1>4, FunctionIsSequence
<1>6. /\ s \o z \in Seq(Byte) /\ Len(s \o z) = Len(s) + Len(z)
      /\ \A p \in 1 .. Len(s) + Len(z) :
            (s \o z)[p] = IF p <= Len(s) THEN s[p] ELSE z[p - Len(s)]
  BY <1>1, <1>5, ConcatProperties
<1>7. ASSUME NEW p \in 1 .. Len(s) + more PROVE (s \o z)[p] = Padded(a)[p]
  <2>1. CASE p <= Len(s)
    <3>1. (s \o z)[p] = s[p] /\ p \in 1 .. a.length
      BY <1>1, <1>2, <1>5, <1>6, <2>1
    <3> QED
      BY <3>1, PaddedIs DEF s
  <2>2. CASE p > Len(s)
    <3>1. p - Len(s) \in 1 .. more /\ p \in Nat /\ p > a.length /\ ~(p <= Len(s))
      BY <1>1, <1>2, <2>2
    <3>2. (s \o z)[p] = Zero
      BY <1>4, <1>5, <1>6, <3>1
    <3> QED
      BY <3>1, <3>2, PaddedIs
  <2>3. p <= Len(s) \/ p > Len(s)
    BY <1>1
  <2> QED
    BY <2>1, <2>2, <2>3
<1> QED
  BY <1>1, <1>2, <1>3, <1>5, <1>6, <1>7

LEMMA GrowIsGrow ==
  ASSUME Whole(auto), NEW n \in Positions, AutoGrow(n)
  PROVE  Whole(auto)' /\ BS!Grow(n)
<1>1. n \in Nat /\ auto' = AutoGrown(auto, n)
  BY Parameters DEF AutoGrow
<1> DEFINE m == MaxOf(auto.length, n)
           new == BS!Lengthened(ToBytes(auto), n)
<1>2. /\ Whole(auto') /\ auto'.length = m
      /\ \A p \in 1 .. m : ToBytes(auto')[p] = Padded(auto)[p]
  BY <1>1, GrownIs
<1>3. /\ ToBytes(auto') \in Seq(Byte) /\ Len(ToBytes(auto')) = m
  BY <1>2, ToBytesType
<1>4. /\ new \in Seq(Byte) /\ Len(new) = m
      /\ \A p \in 1 .. m : new[p] = Padded(auto)[p]
  BY <1>1, LengthenedIs
<1> HIDE DEF m, new
<1>5. ToBytes(auto') = new
  BY <1>2, <1>3, <1>4, SeqEqual
<1> QED
  BY <1>2, <1>5 DEF BS!Grow, new

LEMMA WriteIsWrite ==
  ASSUME Whole(auto), NEW at \in Positions, NEW d \in Data, AutoWrite(at, d)
  PROVE  Whole(auto)' /\ BS!WriteAt(at, d)
<1>1. /\ at \in Nat /\ d \in Seq(Byte) /\ d # << >> /\ Len(d) \in Nat /\ at + Len(d) \in Nat
      /\ auto' = AutoWritten(auto, at, d) /\ auto.length \in Nat
  BY Parameters, DataIs, WholeType DEF AutoWrite
<1> DEFINE m == MaxOf(auto.length, at + Len(d))
           long == BS!Lengthened(ToBytes(auto), at + Len(d))
           short == BS!Lengthened(ToBytes(auto), at)
           new == [p \in DOMAIN long |-> IF p \in at + 1 .. at + Len(d) THEN d[p - at] ELSE short[p]]
<1>2. /\ Whole(auto') /\ auto'.length = m
      /\ \A p \in 1 .. m : ToBytes(auto')[p] =
            IF p \in at + 1 .. at + Len(d) THEN d[p - at] ELSE Padded(auto)[p]
  <2>1. /\ Whole(AutoWritten(auto, at, d)) /\ AutoWritten(auto, at, d).length = m
        /\ \A p \in 1 .. m : ToBytes(AutoWritten(auto, at, d))[p] =
              IF p \in at + 1 .. at + Len(d) THEN d[p - at] ELSE Padded(auto)[p]
    <3> HIDE DEF long, short, new
    <3>1. at \in Nat /\ d \in Seq(Byte) /\ d # << >>
      BY <1>1
    <3> QED
      BY <3>1, WrittenIs, ZenonT(60)
  <2> HIDE DEF long, short, new, m
  <2> QED
    BY <1>1, <2>1
<1>3. ToBytes(auto') = [p \in 1 .. m |-> ToBytes(auto')[p]]
  BY <1>2 DEF ToBytes
<1>4. long \in Seq(Byte) /\ Len(long) = m /\ m \in Nat
  <2> HIDE DEF new
  <2> QED
    BY <1>1, LengthenedIs
<1>5. DOMAIN long = 1 .. m
  BY <1>4
<1>6. \A p \in 1 .. MaxOf(auto.length, at) : short[p] = Padded(auto)[p]
  BY <1>1, LengthenedIs
<1>7. ASSUME NEW p \in 1 .. m, p \notin at + 1 .. at + Len(d) PROVE p \in 1 .. MaxOf(auto.length, at)
  <2>1. p \in Nat /\ p > 0 /\ (p <= auto.length \/ p <= at + Len(d))
    BY <1>1, <1>4 DEF MaxOf
  <2>2. p <= auto.length \/ p <= at
    BY <1>1, <1>7, <2>1
  <2> QED
    BY <1>1, <2>1, <2>2 DEF MaxOf
<1> HIDE DEF m, long, short
<1>8. ToBytes(auto') = new
  <2>1. \A p \in 1 .. m : ToBytes(auto')[p] = IF p \in at + 1 .. at + Len(d) THEN d[p - at] ELSE short[p]
    BY <1>2, <1>6, <1>7
  <2> QED
    BY <1>3, <1>5, <2>1
<1> QED
  BY <1>2, <1>8 DEF BS!WriteAt, long, short

\* A step that is not a write or a Grow of the AutoSizeStream leaves it alone.
LEMMA OthersLeaveIt ==
  ASSUME [Next]_vars
  PROVE  \/ auto' = auto
         \/ \E n \in Positions : AutoGrow(n)
         \/ \E at \in Positions, d \in Data : at + Len(d) <= MaxLength /\ AutoWrite(at, d)
  BY DEF Next, vars, StoreWrite, Create, StoreGrow, Open, Close, CopyBegin, CopyRead, PumpRead,
         CopyWrite

LEMMA WholeStep ==
  Whole(auto) /\ [Next]_vars => Whole(auto)' /\ [BS!BytesNext]_(ToBytes(auto))
<1> SUFFICES ASSUME Whole(auto), [Next]_vars
             PROVE  Whole(auto)' /\ [BS!BytesNext]_(ToBytes(auto))
  OBVIOUS
<1>1. CASE auto' = auto
  BY <1>1 DEF Whole
<1>2. CASE \E n \in Positions : AutoGrow(n)
  BY <1>2, GrowIsGrow DEF BS!BytesNext
<1>3. CASE \E at \in Positions, d \in Data : at + Len(d) <= MaxLength /\ AutoWrite(at, d)
  BY <1>3, WriteIsWrite DEF BS!BytesNext
<1> QED
  BY <1>1, <1>2, <1>3, OthersLeaveIt

\* Whatever is written and grown, in whatever order and beside whatever copies, the
\* blocks of an AutoSizeStream are one sequence of bytes, in which a byte changes by a
\* write to it only.
THEOREM ImplementsBytes == Spec => RefinesBytes
<1>1. Init => BS!BytesInit
  BY WholeInit DEF BS!BytesInit
<1>2. Spec => []Whole(auto)
  BY WholeInit, WholeStep, PTL DEF Spec
<1>3. Whole(auto) /\ [Next]_vars => [BS!BytesNext]_(ToBytes(auto))
  BY WholeStep
<1> QED
  BY <1>1, <1>2, <1>3, PTL DEF Spec, RefinesBytes, BS!Spec

-----------------------------------------------------------------------------
(* The store                                                               *)

LEMMA Types == TypeOK /\ Whole(auto) <=> StoreType /\ CopyType /\ Whole(auto)
  BY DEF TypeOK, StoreType, CopyType, Whole, Copying

LEMMA ZerosIs ==
  ASSUME NEW n \in Int
  PROVE  /\ Zeros(n) \in Seq(Byte) /\ Len(Zeros(n)) = MaxOf(n, 0) /\ MaxOf(n, 0) \in Nat
         /\ \A p \in 1 .. MaxOf(n, 0) : Zeros(n)[p] = Zero
<1>1. MaxOf(n, 0) \in Nat /\ Zero \in Byte
  BY Parameters DEF MaxOf
<1>2. Zeros(n) \in [1 .. MaxOf(n, 0) -> Byte] /\ \A p \in 1 .. MaxOf(n, 0) : Zeros(n)[p] = Zero
  BY <1>1 DEF Zeros
<1> QED
  BY <1>1, <1>2, FunctionIsSequence

\* A sequence with zeros behind it.
LEMMA LongIs ==
  ASSUME NEW s \in Seq(Byte), NEW n \in Int
  PROVE  /\ s \o Zeros(n) \in Seq(Byte)
         /\ Len(s \o Zeros(n)) = Len(s) + MaxOf(n, 0)
         /\ Len(s) + MaxOf(n, 0) \in Nat
         /\ \A p \in 1 .. Len(s) + MaxOf(n, 0) :
               (s \o Zeros(n))[p] = IF p <= Len(s) THEN s[p] ELSE Zero
<1> DEFINE z == Zeros(n)
<1>1. /\ z \in Seq(Byte) /\ Len(z) = MaxOf(n, 0) /\ MaxOf(n, 0) \in Nat
      /\ \A p \in 1 .. MaxOf(n, 0) : z[p] = Zero
  BY ZerosIs
<1> HIDE DEF z
<1>2. /\ s \o z \in Seq(Byte) /\ Len(s \o z) = Len(s) + Len(z)
      /\ \A p \in 1 .. Len(s) + Len(z) :
            (s \o z)[p] = IF p <= Len(s) THEN s[p] ELSE z[p - Len(s)]
  BY <1>1, ConcatProperties
<1>3. Len(s) \in Nat
  OBVIOUS
<1>4. ASSUME NEW p \in 1 .. Len(s) + MaxOf(n, 0), ~(p <= Len(s)) PROVE (s \o z)[p] = Zero
  <2>1. p - Len(s) \in 1 .. MaxOf(n, 0)
    BY <1>1, <1>3, <1>4
  <2> QED
    BY <1>1, <1>2, <1>4, <2>1
<1> QED
  BY <1>1, <1>2, <1>3, <1>4 DEF z

\* What a write leaves of a store.
LEMMA OverIs ==
  ASSUME NEW s \in Seq(Byte), NEW at \in Nat, NEW d \in Seq(Byte)
  PROVE  /\ Over(s, at, d) \in Seq(Byte)
         /\ Len(Over(s, at, d)) = IF d = << >> THEN Len(s) ELSE MaxOf(Len(s), at + Len(d))
         /\ Len(Over(s, at, d)) \in Nat
         /\ \A p \in 1 .. Len(Over(s, at, d)) :
              Over(s, at, d)[p] = IF p - at \in 1 .. Len(d) THEN d[p - at]
                                  ELSE IF p <= Len(s) THEN s[p] ELSE Zero
<1> DEFINE n == at + Len(d) - Len(s)
           long == s \o Zeros(n)
           o == [p \in DOMAIN long |-> IF p - at \in DOMAIN d THEN d[p - at] ELSE long[p]]
<1>1. /\ Len(s) \in Nat /\ Len(d) \in Nat /\ DOMAIN d = 1 .. Len(d) /\ n \in Int
      /\ \A q \in 1 .. Len(d) : d[q] \in Byte
      /\ \A q \in 1 .. Len(s) : s[q] \in Byte
  OBVIOUS
<1>2. CASE d = << >>
  <2>1. Over(s, at, d) = s /\ Len(d) = 0
    BY <1>2 DEF Over
  <2>2. \A p \in 1 .. Len(s) : ~(p - at \in 1 .. Len(d)) /\ p <= Len(s)
    BY <1>1, <2>1
  <2> QED
    BY <1>1, <1>2, <2>1, <2>2
<1>3. CASE d # << >>
  <2>1. Len(s) + MaxOf(n, 0) = MaxOf(Len(s), at + Len(d)) /\ MaxOf(Len(s), at + Len(d)) \in Nat
    BY <1>1 DEF MaxOf
  <2> DEFINE m == MaxOf(Len(s), at + Len(d))
  <2>2. /\ long \in Seq(Byte) /\ Len(long) = m
        /\ \A p \in 1 .. m : long[p] = IF p <= Len(s) THEN s[p] ELSE Zero
    BY <1>1, <2>1, LongIs
  <2>3. Over(s, at, d) = o
    BY <1>3 DEF Over
  <2> HIDE DEF long, n, m
  <2>4. DOMAIN long = 1 .. m
    BY <2>2
  <2>5. \A p \in 1 .. m : o[p] = IF p - at \in 1 .. Len(d) THEN d[p - at] ELSE long[p]
    BY <1>1, <2>4
  <2>6. \A p \in 1 .. m : o[p] \in Byte
    BY <1>1, <2>2, <2>5
  <2>7. DOMAIN o = 1 .. m /\ o = [p \in 1 .. m |-> o[p]]
    BY <2>4
  <2> HIDE DEF o
  <2>8. o \in [1 .. m -> Byte] /\ m \in Nat
    BY <2>1, <2>6, <2>7 DEF m
  <2>9. o \in Seq(Byte) /\ Len(o) = m
    BY <2>8, FunctionIsSequence
  <2>10. \A p \in 1 .. m : o[p] = IF p - at \in 1 .. Len(d) THEN d[p - at]
                                  ELSE IF p <= Len(s) THEN s[p] ELSE Zero
    BY <2>2, <2>5
  <2> QED
    BY <1>3, <2>3, <2>8, <2>9, <2>10 DEF m
<1> QED
  BY <1>2, <1>3

LEMMA AcceptedIs ==
  ASSUME StoreType, NEW at \in Nat, NEW d \in Seq(Byte), Takes(at), NEW k \in Accepted(at, d)
  PROVE  k \in 0 .. Len(d) /\ (kind # "file" => at + k <= Capacity)
<1>1. Len(d) \in Nat /\ Capacity \in Nat
  BY Parameters
<1>2. CASE kind = "file"
  BY <1>1, <1>2 DEF Accepted
<1>3. CASE kind # "file"
  BY <1>1, <1>3 DEF Accepted, Takes, MinOf
<1> QED
  BY <1>2, <1>3

\* What k bytes that get through at offset at change, whoever writes them.
Wrote(w, at, d, k) ==
    /\ k \in 0 .. Len(d) /\ at \in Nat /\ w \in OpenObjects /\ known[w] \in Nat
    /\ kind # "file" => at + k <= Capacity
    /\ kind' = kind
    /\ store' \in Seq(Byte)
    /\ Len(store') = IF k = 0 THEN Len(store) ELSE MaxOf(Len(store), at + k)
    /\ \A p \in 1 .. Len(store') :
         store'[p] = IF p - at \in 1 .. k THEN d[p - at]
                     ELSE IF p <= Len(store) THEN store[p] ELSE Zero
    /\ known' = [known EXCEPT ![w] = MaxOf(known[w], at + k)]
    /\ odd' = IF kind = "file" /\ k = 0 /\ at > known[w] THEN odd \cup {w} ELSE odd

LEMMA PutIs ==
  ASSUME StoreType, NEW w \in OpenObjects, NEW at \in Nat, NEW d \in Seq(Byte), Takes(at),
         NEW k \in Accepted(at, d), Put(w, at, d, k), kind' = kind
  PROVE  Wrote(w, at, d, k)
<1>1. k \in 0 .. Len(d) /\ (kind # "file" => at + k <= Capacity) /\ Len(d) \in Nat
  BY AcceptedIs
<1>2. known[w] \in Nat
  BY DEF StoreType, OpenObjects
<1> DEFINE e == SubSeq(d, 1, k)
<1>3. /\ e \in Seq(Byte) /\ Len(e) = k /\ (e = << >> <=> k = 0)
      /\ \A q \in 1 .. k : e[q] = d[q]
  <2>1. /\ e \in Seq(Byte) /\ Len(e) = k /\ \A q \in 1 .. k : e[q] = d[q]
    BY <1>1
  <2> HIDE DEF e
  <2> QED
    BY <2>1
<1>4. store' = Over(store, at, e) /\ store \in Seq(Byte)
  BY DEF Put, StoreType
<1>5. known' = [known EXCEPT ![w] = MaxOf(known[w], at + k)]
      /\ odd' = IF kind = "file" /\ k = 0 /\ at > known[w] THEN odd \cup {w} ELSE odd
  BY DEF Put, SizeAfter
<1> HIDE DEF e
<1> DEFINE o == Over(store, at, e)
<1>6. /\ o \in Seq(Byte)
      /\ Len(o) = IF e = << >> THEN Len(store) ELSE MaxOf(Len(store), at + Len(e))
      /\ \A p \in 1 .. Len(o) :
              o[p] = IF p - at \in 1 .. Len(e) THEN e[p - at]
                     ELSE IF p <= Len(store) THEN store[p] ELSE Zero
  <2>1. e \in Seq(Byte) /\ store \in Seq(Byte) /\ at \in Nat
    BY <1>3, <1>4
  <2> QED
    BY <2>1, OverIs, ZenonT(60)
<1>7. store' = o
  BY <1>4
<1> HIDE DEF o
<1>8. /\ store' \in Seq(Byte)
      /\ Len(store') = IF k = 0 THEN Len(store) ELSE MaxOf(Len(store), at + k)
  BY <1>3, <1>6, <1>7
<1>9. \A p \in 1 .. Len(store') :
        store'[p] = IF p - at \in 1 .. k THEN d[p - at]
                    ELSE IF p <= Len(store) THEN store[p] ELSE Zero
  BY <1>1, <1>3, <1>6, <1>7
<1> QED
  BY <1>1, <1>2, <1>3, <1>5, <1>8, <1>9 DEF Wrote

LEMMA WroteTypes ==
  ASSUME StoreType, NEW w \in Object, NEW at, NEW d \in Seq(Byte), NEW k, Wrote(w, at, d, k)
  PROVE  StoreType'
<1>1. /\ k \in Int /\ at \in Nat /\ known[w] \in Nat /\ at + k \in Int
      /\ kind' = kind /\ Len(store) \in Nat
  BY DEF Wrote, StoreType
<1>2. known' = [known EXCEPT ![w] = MaxOf(known[w], at + k)] /\ MaxOf(known[w], at + k) \in Nat
  <2>1. k >= 0
    BY DEF Wrote
  <2>2. MaxOf(known[w], at + k) \in Nat
    BY <1>1, <2>1 DEF MaxOf
  <2> QED
    BY <2>2 DEF Wrote
<1>3. store' \in Seq(Byte) /\ known' \in [Object -> Nat \cup {Closed}]
  BY <1>2 DEF Wrote, StoreType
<1>4. kind' # "file" => Len(store') = Capacity
  <2>1. kind # "file" => at + k <= Capacity /\ Len(store) = Capacity
    BY DEF Wrote, StoreType
  <2>2. Len(store') = IF k = 0 THEN Len(store) ELSE MaxOf(Len(store), at + k)
    BY DEF Wrote
  <2>3. Capacity \in Int
    BY Parameters
  <2> QED
    BY <1>1, <2>1, <2>2, <2>3, MaxIs
<1>5. OpenObjects \subseteq OpenObjects' /\ w \in OpenObjects'
  BY <1>2, <1>3, Parameters DEF OpenObjects, StoreType
<1>6. odd' \subseteq OpenObjects'
  BY <1>5 DEF Wrote, StoreType
<1> QED
  BY <1>1, <1>3, <1>4, <1>6 DEF StoreType

LEMMA OpenTypes ==
  ASSUME StoreType, NEW o \in Object, Open(o)
  PROVE  StoreType'
<1>1. Len(store) \in Nat
  BY DEF StoreType
<1>2. known' \in [Object -> Nat \cup {Closed}]
  BY <1>1 DEF StoreType, Open
<1>3. OpenObjects \subseteq OpenObjects'
  BY <1>1, Parameters DEF OpenObjects, StoreType, Open
<1> QED
  BY <1>2, <1>3 DEF StoreType, Open

LEMMA CreateTypes ==
  ASSUME StoreType, NEW w \in Writer, NEW n \in Positions, Create(w, n)
  PROVE  StoreType'
<1>1. n \in Nat /\ w \in Object
  BY Parameters
<1>2. store' \in Seq(Byte)
  BY <1>1, ZerosIs DEF Create
<1>3. known' \in [Object -> Nat \cup {Closed}]
  BY <1>1 DEF StoreType, Create
<1>4. odd' \subseteq OpenObjects'
  BY DEF StoreType, Create
<1> QED
  BY <1>2, <1>3, <1>4 DEF StoreType, Create

LEMMA CloseTypes ==
  ASSUME StoreType, NEW o \in Object, Close(o)
  PROVE  StoreType'
<1>1. known' \in [Object -> Nat \cup {Closed}]
  BY DEF StoreType, Close
<1>2. odd' \subseteq OpenObjects'
  BY DEF StoreType, Close, OpenObjects
<1> QED
  BY <1>1, <1>2 DEF StoreType, Close

\* Grow of a file makes it n bytes long, and keeps what stays.
LEMMA StoreGrowIs ==
  ASSUME StoreType, NEW w \in Writer, NEW n \in Positions, StoreGrow(w, n)
  PROVE  /\ store' \in Seq(Byte)
         /\ kind = "file" => /\ Len(store') = n
                             /\ \A p \in 1 .. n : p <= Len(store) => store'[p] = store[p]
         /\ kind # "file" => store' = store /\ n <= Capacity
<1>1. n \in Nat /\ store \in Seq(Byte) /\ Len(store) \in Nat /\ n - Len(store) \in Int
  BY Parameters DEF StoreType
<1>2. CASE kind # "file"
  BY <1>1, <1>2 DEF StoreGrow
<1>3. CASE kind = "file"
  <2> DEFINE long == store \o Zeros(n - Len(store))
             e == MinOf(0 + n, Len(long))
  <2>1. /\ long \in Seq(Byte) /\ Len(long) = Len(store) + MaxOf(n - Len(store), 0)
        /\ Len(store) + MaxOf(n - Len(store), 0) \in Nat
        /\ \A p \in 1 .. Len(store) + MaxOf(n - Len(store), 0) :
              long[p] = IF p <= Len(store) THEN store[p] ELSE Zero
    BY <1>1, LongIs
  <2>2. store' = Part(long, 0, n)
    BY <1>3 DEF StoreGrow
  <2>3. Len(store) + MaxOf(n - Len(store), 0) >= n
    BY <1>1 DEF MaxOf
  <2> HIDE DEF long
  <2> DEFINE r == Part(long, 0, n)
  <2>4. /\ r \in Seq(Byte) /\ Len(r) = MaxOf(MinOf(n, Len(long) - 0), 0)
        /\ \A p \in 1 .. Len(r) : r[p] = long[0 + p]
    <3>1. long \in Seq(Byte) /\ 0 \in Nat /\ n \in Int
      BY <1>1, <2>1
    <3> QED
      BY <3>1, PartIs, ZenonT(60)
  <2>5. Len(r) = n
    <3>1. Len(long) \in Nat /\ Len(long) >= n
      BY <2>1, <2>3
    <3> HIDE DEF r
    <3> QED
      BY <1>1, <2>4, <3>1 DEF MaxOf, MinOf
  <2> HIDE DEF r
  <2>6. \A p \in 1 .. n : r[p] = long[p]
    BY <1>1, <2>4, <2>5
  <2>7. \A p \in 1 .. n : p <= Len(store) => r[p] = store[p]
    BY <1>1, <2>1, <2>3, <2>6
  <2>8. store' = r
    BY <2>2 DEF r
  <2> QED
    BY <1>3, <2>4, <2>5, <2>7, <2>8
<1> QED
  BY <1>2, <1>3

LEMMA StoreGrowTypes ==
  ASSUME StoreType, NEW w \in Writer, NEW n \in Positions, StoreGrow(w, n)
  PROVE  StoreType'
<1>1. n \in Nat /\ w \in Object
  BY Parameters
<1>2. known' \in [Object -> Nat \cup {Closed}]
  BY <1>1 DEF StoreType, StoreGrow
<1>3. OpenObjects \subseteq OpenObjects'
  BY <1>1, Parameters DEF OpenObjects, StoreType, StoreGrow
<1> QED
  BY <1>2, <1>3, StoreGrowIs DEF StoreType, StoreGrow

\* The steps as they are for the store.
LEMMA StoreSteps ==
  ASSUME StoreType, CopyType, Whole(auto), [Next]_vars
  PROVE  \/ UNCHANGED <<kind, store, known, odd>>
         \/ \E o \in Object : Open(o) \/ Close(o)
         \/ \E w \in Writer, n \in Positions : Create(w, n) \/ StoreGrow(w, n)
         \/ \E w \in Writer, at \in Nat, d \in Seq(Byte), k \in Nat : Wrote(w, at, d, k)
         \/ \E k \in Nat : Copying /\ Wrote(copy.by, copy.to + copy.moved, copy.buf, k)
<1>1. ASSUME NEW w \in Writer, NEW at \in Positions, NEW d \in Data, StoreWrite(w, at, d)
      PROVE  \E at_1 \in Nat, d_1 \in Seq(Byte), k \in Nat : Wrote(w, at_1, d_1, k)
  <2>1. w \in OpenObjects /\ at \in Nat /\ d \in Seq(Byte) /\ Takes(at) /\ kind' = kind
    BY <1>1, Parameters, DataIs DEF StoreWrite, OpenObjects
  <2>2. PICK k \in Accepted(at, d) : Put(w, at, d, k)
    BY <1>1 DEF StoreWrite
  <2>3. Wrote(w, at, d, k)
    BY <2>1, <2>2, PutIs
  <2>4. k \in Nat
    BY <2>1, <2>2, AcceptedIs
  <2> QED
    BY <2>1, <2>3, <2>4
<1>2. ASSUME CopyWrite
      PROVE  \/ UNCHANGED <<kind, store, known, odd>>
             \/ \E k \in Nat : Copying /\ Wrote(copy.by, copy.to + copy.moved, copy.buf, k)
  <2>1. Copying /\ kind' = kind
    BY <1>2 DEF CopyWrite, Copying
  <2>2. /\ copy.by \in OpenObjects /\ copy.to + copy.moved \in Nat /\ copy.buf \in Seq(Byte)
        /\ Target = copy.to + copy.moved
    BY <2>1 DEF CopyType, Target
  <2>3. CASE ~Takes(Target)
    BY <1>2, <2>3 DEF CopyWrite
  <2>4. CASE Takes(Target)
    <3>1. PICK k \in Accepted(Target, copy.buf) : Put(copy.by, Target, copy.buf, k)
      BY <1>2, <2>4 DEF CopyWrite
    <3>2. Wrote(copy.by, Target, copy.buf, k)
      BY <2>1, <2>2, <2>4, <3>1, PutIs
    <3>3. k \in Nat
      BY <2>2, <2>4, <3>1, AcceptedIs
    <3> QED
      BY <2>1, <2>2, <3>2, <3>3
  <2> QED
    BY <2>3, <2>4
<1>3. CASE Next
  BY <1>1, <1>2, <1>3
     DEF Next, AutoWrite, AutoGrow, CopyBegin, CopyRead, PumpRead
<1>4. CASE UNCHANGED vars
  BY <1>4 DEF vars
<1> QED
  BY <1>3, <1>4

LEMMA StoreTypeStep ==
  ASSUME StoreType, CopyType, Whole(auto), [Next]_vars
  PROVE  StoreType'
<1>1. CASE UNCHANGED <<kind, store, known, odd>>
  BY <1>1 DEF StoreType, OpenObjects
<1>2. CASE \E o \in Object : Open(o) \/ Close(o)
  BY <1>2, OpenTypes, CloseTypes
<1>3. CASE \E w \in Writer, n \in Positions : Create(w, n) \/ StoreGrow(w, n)
  BY <1>3, CreateTypes, StoreGrowTypes
<1>4. CASE \E w \in Writer, at \in Nat, d \in Seq(Byte), k \in Nat : Wrote(w, at, d, k)
  BY <1>4, WroteTypes, Parameters
<1>5. CASE \E k \in Nat : Copying /\ Wrote(copy.by, copy.to + copy.moved, copy.buf, k)
  <2>1. copy.buf \in Seq(Byte) /\ copy.to + copy.moved \in Nat
    BY DEF CopyType
  <2>2. copy.by \in Object
    BY <1>5 DEF CopyType, OpenObjects
  <2> QED
    BY <1>5, <2>1, <2>2, WroteTypes
<1> QED
  BY <1>1, <1>2, <1>3, <1>4, <1>5, StoreSteps

\* A stream is open as long as a copy writes to it.
LEMMA CopyHasStream ==
  ASSUME StoreType, CopyType, Whole(auto), [Next]_vars, Copying
  PROVE  copy.by \in OpenObjects'
<1>1. copy.by \in Object /\ known[copy.by] # Closed /\ known \in [Object -> Nat \cup {Closed}]
  BY DEF CopyType, OpenObjects, StoreType
<1>2. CASE UNCHANGED <<kind, store, known, odd>>
  BY <1>1, <1>2 DEF OpenObjects
<1>3. ASSUME NEW o \in Object, Open(o) PROVE copy.by \in OpenObjects'
  BY <1>1, <1>3, Parameters DEF OpenObjects, Open, StoreType
<1>4. ASSUME NEW o \in Object, Close(o) PROVE copy.by \in OpenObjects'
  BY <1>1, <1>4, Parameters DEF OpenObjects, Close
<1>5. ASSUME NEW w \in Writer, NEW n \in Positions, Create(w, n) PROVE FALSE
  BY <1>1, <1>5 DEF OpenObjects, Create
<1>6. ASSUME NEW w \in Writer, NEW n \in Positions, StoreGrow(w, n) PROVE copy.by \in OpenObjects'
  BY <1>1, <1>6, Parameters DEF OpenObjects, StoreGrow
<1>7. ASSUME NEW w \in Object, NEW at \in Nat, NEW d \in Seq(Byte), NEW k \in Nat, Wrote(w, at, d, k)
      PROVE  copy.by \in OpenObjects'
  <2>1. known' = [known EXCEPT ![w] = MaxOf(known[w], at + k)] /\ known[w] \in Nat
    BY <1>7 DEF Wrote
  <2>2. MaxOf(known[w], at + k) \in Nat
    BY <2>1 DEF MaxOf
  <2> QED
    BY <1>1, <2>1, <2>2, Parameters DEF OpenObjects
<1>8. copy.buf \in Seq(Byte) /\ copy.to + copy.moved \in Nat
  BY DEF CopyType
<1> QED
  BY <1>1, <1>2, <1>3, <1>4, <1>5, <1>6, <1>7, <1>8, StoreSteps, Parameters

-----------------------------------------------------------------------------
(* The copy                                                                *)

\* What ReadAt of an AutoSizeStream returns.
LEMMA ReadIs ==
  ASSUME Whole(auto), NEW off \in Nat, NEW n \in Int
  PROVE  /\ AutoReadAt(auto, off, n).data \in Seq(Byte)
         /\ Len(AutoReadAt(auto, off, n).data) \in Nat
         /\ Len(AutoReadAt(auto, off, n).data) = MaxOf(MinOf(n, auto.length - off), 0)
         /\ Len(AutoReadAt(auto, off, n).data) > 0 =>
               off + Len(AutoReadAt(auto, off, n).data) <= auto.length
         /\ \A k \in 1 .. Len(AutoReadAt(auto, off, n).data) :
               AutoReadAt(auto, off, n).data[k] = ToBytes(auto)[off + k]
         /\ AutoReadAt(auto, off, n).eof \in BOOLEAN
         /\ AutoReadAt(auto, off, n).eof <=> Len(AutoReadAt(auto, off, n).data) < n
<1> DEFINE part == Part(ToBytes(auto), off, n)
           r == AutoReadAt(auto, off, n)
<1>1. r = Outcome(part, n)
  BY AutoReads
<1>2. ToBytes(auto) \in Seq(Byte) /\ Len(ToBytes(auto)) = auto.length
  BY ToBytesType
<1>3. /\ part \in Seq(Byte) /\ Len(part) \in Nat
      /\ Len(part) = MaxOf(MinOf(n, Len(ToBytes(auto)) - off), 0)
      /\ Len(part) > 0 => off + Len(part) <= Len(ToBytes(auto))
      /\ \A k \in 1 .. Len(part) : part[k] = ToBytes(auto)[off + k]
  BY <1>2, PartIs, ZenonT(60)
<1> HIDE DEF part, r
<1>4. r.data = part /\ r.eof = (Len(part) < n)
  BY <1>1 DEF Outcome
<1>5. r.eof \in BOOLEAN /\ (r.eof <=> Len(part) < n)
  <2>1. r.eof \in BOOLEAN
    BY <1>4, SMT
  <2>2. r.eof <=> Len(part) < n
    BY <1>4, Zenon
  <2> QED
    BY <2>1, <2>2, Zenon
<1>6. /\ r.data \in Seq(Byte) /\ Len(r.data) \in Nat
      /\ Len(r.data) = MaxOf(MinOf(n, auto.length - off), 0)
      /\ Len(r.data) > 0 => off + Len(r.data) <= auto.length
      /\ \A k \in 1 .. Len(r.data) : r.data[k] = ToBytes(auto)[off + k]
  BY <1>2, <1>3, <1>4
<1>7. r.eof <=> Len(r.data) < n
  BY <1>4, <1>5
<1> QED
  BY <1>5, <1>6, <1>7 DEF r

\* A copy that is over, or has not begun.
LEMMA Idle ==
  /\ NoCopy \in [is : {"none", "read", "write", "done", "failed"}, how : {"CopyAt", "io.Copy"},
                by : Object \cup {Closed}, from : Nat, to : Nat, size : Nat, moved : Nat,
                buf : Seq(Byte), last : BOOLEAN, torn : BOOLEAN]
  /\ Len(NoCopy.buf) <= ChunkSize /\ NoCopy.buf = << >>
  /\ NoCopy.is = "none" /\ NoCopy.moved = 0 /\ Len(NoCopy.buf) = 0
<1>1. << >> \in Seq(Byte) /\ Len(<< >>) = 0 /\ ChunkSize \in Nat
  BY Parameters
<1> QED
  BY <1>1 DEF NoCopy

\* A write beside a copy.
LEMMA DisturbedTypes ==
  ASSUME StoreType, CopyType, NEW at, NEW d, NEW lo, NEW n, copy' = Disturbed(at, d, lo, n),
         Copying => copy.by \in OpenObjects'
  PROVE  CopyType'
<1>1. \/ copy' = copy \/ copy' = NoCopy
      \/ Copying /\ copy' = [copy EXCEPT !.torn = TRUE]
  <2> DEFINE over == at < lo + n /\ at + Len(d) > lo
             r == [copy EXCEPT !.torn = TRUE]
  <2>1. copy' = IF ~over THEN copy ELSE IF Copying THEN r ELSE NoCopy
    BY DEF Disturbed
  <2>2. CASE ~over
    <3> HIDE DEF over, r
    <3> QED BY <2>1, <2>2, Zenon
  <2>3. CASE over /\ Copying
    <3>1. copy' = r
      <4> HIDE DEF over, r
      <4> QED BY <2>1, <2>3, Zenon
    <3> QED BY <3>1, <2>3
  <2>4. CASE over /\ ~Copying
    <3> HIDE DEF over, r
    <3> QED BY <2>1, <2>4
  <2> QED
    BY <2>2, <2>3, <2>4
<1>2. CASE copy' = copy
  BY <1>2 DEF CopyType, Copying
<1>3. CASE copy' = NoCopy
  BY <1>3, Idle DEF CopyType, Copying
<1>4. CASE Copying /\ copy' = [copy EXCEPT !.torn = TRUE]
  BY <1>4 DEF CopyType, Copying
<1> QED
  BY <1>1, <1>2, <1>3, <1>4

LEMMA EndTypes ==
  ASSUME CopyType, NEW how \in {"done", "failed"}, CopyEnds(how)
  PROVE  CopyType'
<1>1. << >> \in Seq(Byte) /\ Len(<< >>) = 0 /\ ChunkSize \in Nat /\ ChunkSize >= 0
  BY Parameters
<1>2. copy' = [copy EXCEPT !.is = how, !.buf = << >>]
  BY DEF CopyEnds
<1>3. copy' \in [is : {"none", "read", "write", "done", "failed"}, how : {"CopyAt", "io.Copy"},
                by : Object \cup {Closed}, from : Nat, to : Nat, size : Nat, moved : Nat,
                buf : Seq(Byte), last : BOOLEAN, torn : BOOLEAN]
  BY <1>1, <1>2 DEF CopyType
<1>4. copy'.is = how /\ copy'.buf = << >>
  BY <1>2 DEF CopyType
<1> QED
  BY <1>1, <1>3, <1>4 DEF CopyType, Copying

LEMMA CopyReadTypes ==
  ASSUME StoreType, CopyType, Whole(auto), CopyRead
  PROVE  CopyType'
<1> DEFINE chunk == MinOf(ChunkSize, copy.size - copy.moved)
           r == AutoReadAt(auto, copy.from + copy.moved, chunk)
<1>1. /\ copy.from + copy.moved \in Nat /\ copy.size - copy.moved \in Int /\ ChunkSize \in Nat
  BY Parameters DEF CopyType
<1>2. chunk \in Int /\ chunk <= ChunkSize
  BY <1>1 DEF MinOf
<1> HIDE DEF chunk
<1>3. r.data \in Seq(Byte) /\ Len(r.data) = MaxOf(MinOf(chunk, auto.length - (copy.from + copy.moved)), 0)
  BY <1>1, <1>2, ReadIs
<1> HIDE DEF r
<1>4. Len(r.data) <= ChunkSize
  <2>1. auto.length - (copy.from + copy.moved) \in Int
    BY <1>1, WholeType
  <2> QED
    BY <1>1, <1>2, <1>3, <2>1 DEF MaxOf, MinOf
<1>5. \/ CopyEnds("done") \/ CopyEnds("failed")
      \/ copy.is = "read" /\ copy' = [copy EXCEPT !.is = "write", !.buf = r.data]
  BY DEF CopyRead, chunk, r
<1>6. OpenObjects' = OpenObjects
  BY DEF CopyRead, OpenObjects
<1>7. CASE copy.is = "read" /\ copy' = [copy EXCEPT !.is = "write", !.buf = r.data]
  BY <1>3, <1>4, <1>6, <1>7 DEF CopyType, Copying
<1> QED
  BY <1>5, <1>7, EndTypes

LEMMA PumpReadTypes ==
  ASSUME StoreType, CopyType, Whole(auto), PumpRead
  PROVE  CopyType'
<1> DEFINE r == AutoReadAt(auto, copy.from + copy.moved, ChunkSize)
<1>1. /\ copy.from + copy.moved \in Nat /\ ChunkSize \in Nat /\ ChunkSize \in Int
  BY Parameters DEF CopyType
<1>2. /\ r.data \in Seq(Byte)
      /\ Len(r.data) = MaxOf(MinOf(ChunkSize, auto.length - (copy.from + copy.moved)), 0)
      /\ r.eof \in BOOLEAN
  BY <1>1, ReadIs
<1> HIDE DEF r
<1>3. Len(r.data) <= ChunkSize
  <2>1. auto.length - (copy.from + copy.moved) \in Int
    BY <1>1, WholeType
  <2> QED
    BY <1>1, <1>2, <2>1 DEF MaxOf, MinOf
<1>4. \/ CopyEnds("done")
      \/ copy.is = "read" /\ copy' = [copy EXCEPT !.is = "write", !.buf = r.data, !.last = r.eof]
  BY DEF PumpRead, r
<1>5. OpenObjects' = OpenObjects
  BY DEF PumpRead, OpenObjects
<1>6. CASE copy.is = "read" /\ copy' = [copy EXCEPT !.is = "write", !.buf = r.data, !.last = r.eof]
  <2>1. copy' \in [is : {"none", "read", "write", "done", "failed"}, how : {"CopyAt", "io.Copy"},
                by : Object \cup {Closed}, from : Nat, to : Nat, size : Nat, moved : Nat,
                buf : Seq(Byte), last : BOOLEAN, torn : BOOLEAN]
    BY <1>2, <1>6 DEF CopyType
  <2>2. copy'.is = "write" /\ copy'.buf = r.data /\ copy'.by = copy.by
    BY <1>6 DEF CopyType
  <2> QED
    BY <1>3, <1>5, <1>6, <2>1, <2>2 DEF CopyType, Copying
<1> QED
  BY <1>4, <1>6, EndTypes

LEMMA CopyWriteTypes ==
  ASSUME StoreType, CopyType, Whole(auto), CopyWrite
  PROVE  CopyType'
<1>1. Copying
  BY DEF Copying, CopyWrite
<1>2. copy.by \in OpenObjects'
  <2>1. Next
    BY DEF Next
  <2> QED
    BY <1>1, <2>1, CopyHasStream
<1>3. /\ Target \in Nat /\ copy.buf \in Seq(Byte) /\ Len(copy.buf) \in Nat
      /\ << >> \in Seq(Byte) /\ Len(<< >>) = 0 /\ ChunkSize \in Nat /\ ChunkSize >= 0
  BY Parameters DEF CopyType, Target
<1>4. CASE Takes(Target)
  <2>1. PICK k \in Accepted(Target, copy.buf) :
          copy' = [copy EXCEPT !.is = IF k = Len(copy.buf) THEN "read" ELSE "failed",
                               !.moved = @ + k, !.buf = << >>]
    BY <1>4 DEF CopyWrite
  <2>2. k \in Nat
    BY <1>3, <1>4, AcceptedIs
  <2> DEFINE how == IF k = Len(copy.buf) THEN "read" ELSE "failed"
  <2>3. how \in {"read", "failed"}
    OBVIOUS
  <2>4. copy' = [copy EXCEPT !.is = how, !.moved = copy.moved + k, !.buf = << >>]
    BY <2>1
  <2> HIDE DEF how
  <2>5. copy.moved + k \in Nat
    BY <2>2 DEF CopyType
  <2>6. copy' \in [is : {"none", "read", "write", "done", "failed"}, how : {"CopyAt", "io.Copy"},
                by : Object \cup {Closed}, from : Nat, to : Nat, size : Nat, moved : Nat,
                buf : Seq(Byte), last : BOOLEAN, torn : BOOLEAN]
    BY <1>3, <2>3, <2>4, <2>5 DEF CopyType
  <2>7. copy'.is \in {"read", "failed"} /\ copy'.buf = << >> /\ copy'.by = copy.by
    BY <2>3, <2>4 DEF CopyType
  <2> QED
    BY <1>2, <1>3, <2>6, <2>7 DEF CopyType, Copying
<1>5. CASE ~Takes(Target)
  BY <1>5, EndTypes DEF CopyWrite
<1> QED
  BY <1>4, <1>5

LEMMA CopyBeginTypes ==
  ASSUME StoreType, CopyType, NEW w \in Writer, NEW how \in {"CopyAt", "io.Copy"},
         NEW from \in Nat, NEW to \in Nat, NEW n \in Nat, CopyBegin(w, how, from, to, n)
  PROVE  CopyType'
<1>1. copy' = [NoCopy EXCEPT !.is = "read", !.how = how, !.by = w, !.from = from,
                             !.to = to, !.size = n]
  BY DEF CopyBegin
<1>2. w \in Object /\ w \in OpenObjects'
  BY Parameters DEF CopyBegin, OpenObjects
<1>3. copy' \in [is : {"none", "read", "write", "done", "failed"}, how : {"CopyAt", "io.Copy"},
                by : Object \cup {Closed}, from : Nat, to : Nat, size : Nat, moved : Nat,
                buf : Seq(Byte), last : BOOLEAN, torn : BOOLEAN]
  BY <1>1, <1>2, Idle
<1>4. copy'.is = "read" /\ copy'.by = w /\ copy'.buf = NoCopy.buf
  BY <1>1 DEF NoCopy
<1> QED
  BY <1>2, <1>3, <1>4, Idle DEF CopyType, Copying

LEMMA CopyTypeStep ==
  ASSUME StoreType, CopyType, Whole(auto), [Next]_vars
  PROVE  CopyType'
<1>1. Copying => copy.by \in OpenObjects'
  BY CopyHasStream
<1>2. CASE copy' = copy
  <2>1. copy'.by = copy.by /\ (Copying' <=> Copying)
    BY <1>2 DEF Copying
  <2> QED
    BY <1>1, <1>2, <2>1 DEF CopyType
<1>3. ASSUME NEW at \in Positions, NEW d \in Data, AutoWrite(at, d) PROVE CopyType'
  BY <1>1, <1>3, DisturbedTypes DEF AutoWrite
<1>4. ASSUME NEW w \in Writer, NEW at \in Positions, NEW d \in Data, StoreWrite(w, at, d)
      PROVE  CopyType'
  <2>1. PICK k : copy' = Disturbed(at, SubSeq(d, 1, k), copy.to, copy.moved)
    BY <1>4 DEF StoreWrite
  <2> QED
    BY <1>1, <2>1, DisturbedTypes
<1>5. ASSUME NEW w \in Writer, NEW n \in Positions, Create(w, n) PROVE CopyType'
  <2>1. copy' = NoCopy
    BY <1>5 DEF Create
  <2> QED
    BY <2>1, Idle DEF CopyType, Copying
<1>6. ASSUME NEW w \in Writer, NEW to \in {0, 1}, NEW n \in Sizes, CopyBegin(w, "CopyAt", 1, to, n)
      PROVE  CopyType'
  BY <1>6, CopyBeginTypes, Parameters
<1>7. ASSUME NEW w \in Writer, NEW to \in {0, 1}, CopyBegin(w, "io.Copy", 0, to, 0)
      PROVE  CopyType'
  BY <1>7, CopyBeginTypes
<1>8. CASE Next
  BY <1>2, <1>3, <1>4, <1>5, <1>6, <1>7, <1>8, CopyReadTypes, PumpReadTypes, CopyWriteTypes
     DEF Next, AutoGrow, Open, Close, StoreGrow
<1> QED
  BY <1>2, <1>8 DEF vars

LEMMA TypeInit == Init => StoreType /\ CopyType
<1> SUFFICES ASSUME Init
             PROVE  StoreType /\ CopyType
  OBVIOUS
<1>1. StoreType
  <2>1. CASE kind = "file" /\ store = << >> /\ known = [o \in Object |-> Closed]
    <3>1. << >> \in Seq(Byte)
      OBVIOUS
    <3> QED
      BY <2>1, <3>1 DEF Init, StoreType
  <2>2. ASSUME NEW w \in Writer, kind \in {"array", "fixed"}, store = Zeros(Capacity),
               known = [o \in Object |-> IF o = w THEN 0 ELSE Closed]
        PROVE  StoreType
    <3>1. store \in Seq(Byte) /\ Len(store) = Capacity
      BY <2>2, ZerosIs, MaxIs, Parameters
    <3>2. known \in [Object -> Nat \cup {Closed}]
      BY <2>2
    <3> QED
      BY <2>2, <3>1, <3>2 DEF Init, StoreType
  <2> QED
    BY <2>1, <2>2 DEF Init
<1>2. CopyType
  BY Idle DEF Init, CopyType, Copying
<1> QED
  BY <1>1, <1>2

\* The state of the streams has its types, with the bytes behind the length of an
\* AutoSizeStream zero: this much needs no more than itself.
THEOREM Inductive ==
  /\ Init => IInv
  /\ IInv /\ [Next]_vars => IInv'
<1>1. Init => IInv
  BY TypeInit, WholeInit, Types DEF IInv
<1>2. IInv /\ [Next]_vars => IInv'
  <2> SUFFICES ASSUME IInv, [Next]_vars
               PROVE  IInv'
    OBVIOUS
  <2>1. StoreType /\ CopyType /\ Whole(auto)
    BY Types DEF IInv
  <2>2. StoreType' /\ CopyType' /\ Whole(auto)'
    BY <2>1, StoreTypeStep, CopyTypeStep, WholeStep
  <2> QED
    BY <2>2 DEF IInv, TypeOK, StoreType, CopyType, Whole, Copying
<1> QED
  BY <1>1, <1>2

\* Whatever is read, written, grown, opened, closed and copied, the state has its types.
THEOREM TypeCorrect == Spec => []TypeOK
<1>1. IInv => TypeOK
  BY DEF IInv
<1> QED
  BY <1>1, Inductive, PTL DEF Spec

-----------------------------------------------------------------------------
(* Sizes                                                                   *)

LEMMA OpenIs ==
  ASSUME StoreType, NEW o \in Object
  PROVE  (o \in OpenObjects <=> known[o] # Closed) /\ (o \in OpenObjects => known[o] \in Nat)
  BY DEF StoreType, OpenObjects

\* A write, or part of one, by the only writer.
LEMMA WroteSizes ==
  ASSUME OneWriter, StoreType, StoreType', FileSizes, ArraySizes,
         NEW w \in Writer, NEW at \in Nat, NEW d \in Seq(Byte), NEW k \in Nat, Wrote(w, at, d, k)
  PROVE  FileSizes' /\ ArraySizes'
<1>1. /\ w \in Object /\ w \in OpenObjects /\ known[w] \in Nat /\ at + k \in Nat
      /\ Len(store) \in Nat /\ Len(store') \in Nat /\ kind' = kind /\ Capacity \in Nat
      /\ known' = [known EXCEPT ![w] = MaxOf(known[w], at + k)]
      /\ Len(store') = IF k = 0 THEN Len(store) ELSE MaxOf(Len(store), at + k)
      /\ odd' = IF kind = "file" /\ k = 0 /\ at > known[w] THEN odd \cup {w} ELSE odd
      /\ kind # "file" => at + k <= Capacity
  BY Parameters DEF Wrote, StoreType
<1>2. known'[w] = MaxOf(known[w], at + k) /\ \A o \in Object : o # w => known'[o] = known[o]
  BY <1>1 DEF StoreType
<1>3. MaxOf(known[w], at + k) \in Nat
  BY <1>1 DEF MaxOf
<1>4. OpenObjects' = OpenObjects
  BY <1>1, <1>2, <1>3, Parameters DEF OpenObjects
<1>5. ASSUME kind = "file", NEW o \in OpenObjects, o = w
      PROVE  known'[o] >= Len(store') /\ (o \notin odd' => known'[o] = Len(store'))
  <2>1. known[w] >= Len(store) /\ (w \notin odd => known[w] = Len(store))
    BY <1>1, <1>5 DEF FileSizes
  <2>2. w \notin odd' => w \notin odd /\ (k = 0 => at <= known[w])
    BY <1>1, <1>5
  <2> QED
    BY <1>1, <1>2, <1>5, <2>1, <2>2 DEF MaxOf
<1>6. ASSUME kind = "file", NEW o \in OpenObjects, o \notin Writer
      PROVE  known'[o] <= Len(store')
  <2>1. known[o] <= Len(store) /\ o # w /\ o \in Object /\ known[o] \in Nat
    BY <1>6, OpenIs DEF FileSizes, OpenObjects
  <2> QED
    BY <1>1, <1>2, <2>1 DEF MaxOf
<1>7. FileSizes'
  BY <1>1, <1>4, <1>5, <1>6 DEF FileSizes, OneWriter
<1>8. ASSUME kind # "file" PROVE ArraySizes'
  <2>1. \A o \in OpenObjects : o = w
    BY <1>8 DEF ArraySizes, OneWriter
  <2>2. /\ odd = {} /\ known[w] <= Capacity
        /\ \A p \in known[w] + 1 .. Capacity : store[p] = Zero
    BY <1>1, <1>8 DEF ArraySizes
  <2>3. odd' = {} /\ known'[w] <= Capacity
    BY <1>1, <1>2, <1>8, <2>2 DEF MaxOf
  <2>4. Len(store) = Capacity /\ Len(store') = Capacity
    BY <1>1, <1>8 DEF StoreType
  <2>5. ASSUME NEW p \in known'[w] + 1 .. Capacity PROVE store'[p] = Zero
    <3>1. p \in Int /\ p > known[w] /\ p > at + k /\ p <= Capacity /\ p > 0
      BY <1>1, <1>2, <1>3 DEF MaxOf
    <3>2. ~(p - at \in 1 .. k) /\ p \in 1 .. Len(store') /\ p <= Len(store)
      BY <1>1, <2>4, <3>1
    <3>3. store'[p] = IF p - at \in 1 .. k THEN d[p - at]
                      ELSE IF p <= Len(store) THEN store[p] ELSE Zero
      BY <3>2 DEF Wrote
    <3>4. store[p] = Zero
      BY <1>1, <2>2, <3>1
    <3> QED
      BY <3>2, <3>3, <3>4
  <2> QED
    BY <1>1, <1>4, <2>1, <2>3, <2>5 DEF ArraySizes
<1> QED
  BY <1>1, <1>7, <1>8 DEF ArraySizes

LEMMA GrownSizes ==
  ASSUME OneWriter, StoreType, StoreType', FileSizes, ArraySizes,
         NEW w \in Writer, NEW n \in Positions, StoreGrow(w, n)
  PROVE  FileSizes' /\ ArraySizes'
<1>1. /\ w \in Object /\ n \in Nat /\ w \in OpenObjects /\ known[w] \in Nat /\ n > known[w]
      /\ kind' = kind /\ odd' = odd /\ known' = [known EXCEPT ![w] = n] /\ Len(store) \in Nat
      /\ Capacity \in Nat
  BY Parameters DEF StoreGrow, OpenObjects, StoreType
<1>2. known'[w] = n /\ \A o \in Object : o # w => known'[o] = known[o]
  BY <1>1 DEF StoreType
<1>3. OpenObjects' = OpenObjects
  BY <1>1, <1>2, Parameters DEF OpenObjects
<1>4. ASSUME kind = "file" PROVE FileSizes'
  <2>1. Len(store') = n
    BY <1>4, StoreGrowIs
  <2>2. known[w] >= Len(store)
    BY <1>1, <1>4 DEF FileSizes
  <2>3. ASSUME NEW o \in OpenObjects, o \notin Writer PROVE known'[o] <= Len(store')
    <3>1. known[o] <= Len(store) /\ o # w /\ o \in Object /\ known[o] \in Nat
      BY <1>4, <2>3, OpenIs DEF FileSizes, OpenObjects
    <3> QED
      BY <1>1, <1>2, <2>1, <2>2, <3>1
  <2>4. \A o \in OpenObjects : o \in Writer => known'[o] = Len(store')
    BY <1>2, <2>1 DEF OneWriter
  <2>5. Len(store') >= Len(store')
    BY <1>1, <2>1
  <2> QED
    BY <1>3, <2>3, <2>4, <2>5 DEF FileSizes
<1>5. ASSUME kind # "file" PROVE ArraySizes'
  <2>1. store' = store /\ n <= Capacity
    BY <1>5, StoreGrowIs
  <2>2. \A o \in OpenObjects : o = w
    BY <1>5 DEF ArraySizes, OneWriter
  <2>3. odd = {} /\ \A p \in known[w] + 1 .. Capacity : store[p] = Zero
    BY <1>1, <1>5 DEF ArraySizes
  <2>4. \A p \in n + 1 .. Capacity : p \in known[w] + 1 .. Capacity
    BY <1>1
  <2>5. \A p \in known'[w] + 1 .. Capacity : store'[p] = Zero
    BY <1>2, <2>1, <2>3, <2>4
  <2> QED
    BY <1>1, <1>2, <1>3, <2>1, <2>2, <2>3, <2>5 DEF ArraySizes
<1> QED
  BY <1>1, <1>4, <1>5 DEF FileSizes, ArraySizes

LEMMA OpenedSizes ==
  ASSUME StoreType, FileSizes, ArraySizes, NEW o \in Object, Open(o)
  PROVE  FileSizes' /\ ArraySizes'
<1>1. /\ kind = "file" /\ kind' = "file" /\ store' = store /\ odd' = odd /\ Len(store) \in Nat
      /\ known' = [known EXCEPT ![o] = Len(store)]
  BY DEF Open, StoreType
<1>2. ASSUME NEW x \in OpenObjects'
      PROVE  IF x \in Writer THEN /\ known'[x] >= Len(store)
                                  /\ x \notin odd => known'[x] = Len(store)
                             ELSE known'[x] <= Len(store)
  <2>1. CASE x = o
    BY <1>1, <2>1 DEF StoreType
  <2>2. CASE x # o
    <3>1. x \in OpenObjects /\ known'[x] = known[x]
      BY <1>1, <2>2 DEF OpenObjects, StoreType
    <3> QED
      BY <1>1, <3>1 DEF FileSizes
  <2> QED
    BY <2>1, <2>2
<1> QED
  BY <1>1, <1>2 DEF FileSizes, ArraySizes

LEMMA CreatedSizes ==
  ASSUME StoreType, FileSizes, ArraySizes, NEW w \in Writer, NEW n \in Positions, Create(w, n)
  PROVE  FileSizes' /\ ArraySizes'
<1>1. /\ kind = "file" /\ kind' = "file" /\ store' = Zeros(n) /\ n \in Nat
      /\ OpenObjects = {} /\ known' = [known EXCEPT ![w] = n]
  BY Parameters DEF Create
<1>2. Len(store') = n
  BY <1>1, ZerosIs DEF MaxOf
<1>3. \A x \in OpenObjects' : x = w /\ known'[x] = n
  BY <1>1 DEF OpenObjects, StoreType
<1> QED
  BY <1>1, <1>2, <1>3 DEF FileSizes, ArraySizes

LEMMA ClosedSizes ==
  ASSUME StoreType, FileSizes, ArraySizes, NEW o \in Object, Close(o)
  PROVE  FileSizes' /\ ArraySizes'
<1>1. /\ kind = "file" /\ kind' = "file" /\ store' = store /\ odd' = odd \ {o}
      /\ known' = [known EXCEPT ![o] = Closed]
  BY DEF Close
<1>2. \A x \in OpenObjects' : x \in OpenObjects /\ x # o /\ known'[x] = known[x]
  BY <1>1 DEF OpenObjects, StoreType
<1> QED
  BY <1>1, <1>2 DEF FileSizes, ArraySizes

LEMMA SizesStep ==
  ASSUME OneWriter, StoreType, CopyType, Whole(auto), FileSizes, ArraySizes,
         Copying => copy.by \in Writer, [Next]_vars
  PROVE  FileSizes' /\ ArraySizes'
<1>1. StoreType'
  BY StoreTypeStep
<1>2. CASE UNCHANGED <<kind, store, known, odd>>
  BY <1>2 DEF FileSizes, ArraySizes, OpenObjects
<1>3. CASE \E o \in Object : Open(o) \/ Close(o)
  BY <1>3, OpenedSizes, ClosedSizes
<1>4. CASE \E w \in Writer, n \in Positions : Create(w, n) \/ StoreGrow(w, n)
  BY <1>1, <1>4, CreatedSizes, GrownSizes
<1>5. CASE \E w \in Writer, at \in Nat, d \in Seq(Byte), k \in Nat : Wrote(w, at, d, k)
  BY <1>1, <1>5, WroteSizes
<1>6. CASE \E k \in Nat : Copying /\ Wrote(copy.by, copy.to + copy.moved, copy.buf, k)
  <2>1. copy.buf \in Seq(Byte) /\ copy.to + copy.moved \in Nat
    BY DEF CopyType
  <2> QED
    BY <1>1, <1>6, <2>1, WroteSizes
<1> QED
  BY <1>2, <1>3, <1>4, <1>5, <1>6, StoreSteps

LEMMA SizesInit == Init => FileSizes /\ ArraySizes
<1> SUFFICES ASSUME Init
             PROVE  FileSizes /\ ArraySizes
  OBVIOUS
<1>1. CASE kind = "file"
  <2>1. \A o \in Object : known[o] = Closed
    BY <1>1 DEF Init
  <2> QED
    BY <1>1, <2>1 DEF FileSizes, ArraySizes, OpenObjects
<1>2. ASSUME NEW w \in Writer, kind # "file", store = Zeros(Capacity), odd = {},
             known = [o \in Object |-> IF o = w THEN 0 ELSE Closed]
      PROVE  ArraySizes
  <2>1. Capacity \in Nat /\ MaxOf(Capacity, 0) = Capacity
    BY Parameters, MaxIs
  <2>2. \A p \in 1 .. Capacity : store[p] = Zero
    <3>1. \A p \in 1 .. MaxOf(Capacity, 0) : Zeros(Capacity)[p] = Zero
      <4>1. Capacity \in Int
        BY <2>1
      <4> QED
        BY <4>1, ZerosIs
    <3> QED
      BY <1>2, <2>1, <3>1
  <2>3. \A o \in OpenObjects : o = w /\ known[o] = 0
    BY <1>2 DEF OpenObjects
  <2> QED
    BY <1>2, <2>1, <2>2, <2>3 DEF ArraySizes
<1> QED
  BY <1>1, <1>2 DEF Init, FileSizes

-----------------------------------------------------------------------------
(* What a copy has moved                                                   *)

\* Growing keeps all bytes, writing those it does not write.
LEMMA AutoKeeps ==
  ASSUME Whole(auto), NEW at \in Nat, NEW d \in Seq(Byte), NEW n \in Nat,
         \/ auto' = AutoGrown(auto, n) /\ d = << >>
         \/ auto' = AutoWritten(auto, at, d) /\ d # << >>
  PROVE  /\ auto'.length \in Nat /\ auto'.length >= auto.length
         /\ \A p \in 1 .. auto.length :
              ~(p \in at + 1 .. at + Len(d)) => ToBytes(auto')[p] = ToBytes(auto)[p]
<1>1. /\ auto.length \in Nat /\ Len(d) \in Nat /\ at + Len(d) \in Nat
  BY WholeType
<1>2. \A p \in 1 .. auto.length : Padded(auto)[p] = ToBytes(auto)[p]
  BY <1>1, PaddedIs
<1>3. CASE auto' = AutoGrown(auto, n) /\ d = << >>
  <2>1. /\ auto'.length = MaxOf(auto.length, n)
        /\ \A p \in 1 .. MaxOf(auto.length, n) : ToBytes(auto')[p] = Padded(auto)[p]
    BY <1>3, GrownIs
  <2>2. MaxOf(auto.length, n) \in Nat /\ MaxOf(auto.length, n) >= auto.length
    BY <1>1 DEF MaxOf
  <2> QED
    BY <1>1, <1>2, <2>1, <2>2
<1>4. CASE auto' = AutoWritten(auto, at, d) /\ d # << >>
  <2> DEFINE m == MaxOf(auto.length, at + Len(d))
  <2>1. /\ auto'.length = m
        /\ \A p \in 1 .. m : ToBytes(auto')[p] =
              IF p \in at + 1 .. at + Len(d) THEN d[p - at] ELSE Padded(auto)[p]
    <3>1. d \in Seq(Byte) /\ at \in Nat /\ d # << >>
      BY <1>4
    <3> QED
      BY <1>4, <3>1, WrittenIs, ZenonT(60)
  <2>2. m \in Nat /\ m >= auto.length
    BY <1>1 DEF MaxOf
  <2> HIDE DEF m
  <2> QED
    BY <1>1, <1>2, <2>1, <2>2
<1> QED
  BY <1>3, <1>4

\* The parts of its source and target a copy has dealt with stay as they are.
Stays ==
    /\ \A p \in copy.from + 1 .. copy.from + copy.moved + Len(copy.buf) :
         ToBytes(auto')[p] = ToBytes(auto)[p]
    /\ \A p \in copy.to + 1 .. copy.to + copy.moved : store'[p] = store[p]

LEMMA Within ==
  ASSUME NEW from \in Nat, NEW n \in Nat, NEW m \in Nat, NEW k \in 1 .. n
  PROVE  from + k \in from + 1 .. from + n /\ from + k \in from + 1 .. from + n + m
  OBVIOUS

\* And a place in the second half of a part.
LEMMA Beyond ==
  ASSUME NEW from \in Nat, NEW n \in Nat, NEW m \in Nat, NEW k \in 1 .. m
  PROVE  from + n + k \in from + 1 .. from + n + m
  OBVIOUS

\* A place within a part of a sequence is a place of the sequence.
LEMMA InRange ==
  ASSUME NEW from \in Nat, NEW n \in Nat, NEW m \in Nat, NEW len \in Nat, NEW p \in Int,
         p >= from + 1, p <= from + n + m, from + n + m <= len
  PROVE  p \in 1 .. len /\ p \in from + 1 .. from + (n + m)
  OBVIOUS

LEMMA CopyKept ==
  ASSUME StoreType, CopyType, Whole(auto), CopyPlace, CopyTrue,
         auto'.length \in Nat, auto'.length >= auto.length,
         Len(store') \in Nat, Len(store') >= Len(store),
         \/ copy' = copy /\ (copy.torn \/ Stays)
         \/ Copying /\ copy' = [copy EXCEPT !.torn = TRUE]
  PROVE  CopyPlace' /\ CopyTrue'
<1>1. /\ copy.from \in Nat /\ copy.to \in Nat /\ copy.moved \in Nat /\ Len(copy.buf) \in Nat
      /\ auto.length \in Nat /\ Len(store) \in Nat
  BY WholeType DEF CopyType, StoreType
<1>2. /\ copy'.from = copy.from /\ copy'.to = copy.to /\ copy'.moved = copy.moved
      /\ copy'.buf = copy.buf /\ copy'.is = copy.is /\ copy'.how = copy.how
      /\ copy'.size = copy.size /\ copy'.by = copy.by
  BY DEF CopyType
<1>3. CopyPlace'
  BY <1>1, <1>2, SMTT(30) DEF CopyPlace, Copying
<1>4. ASSUME MovedTrue, Stays PROVE MovedTrue'
  <2>1. \A k \in 1 .. copy.moved :
          /\ store[copy.to + k] = ToBytes(auto)[copy.from + k]
          /\ copy.to + k \in copy.to + 1 .. copy.to + copy.moved
          /\ copy.from + k \in copy.from + 1 .. copy.from + copy.moved + Len(copy.buf)
    <3>1. \A k \in 1 .. copy.moved : store[copy.to + k] = ToBytes(auto)[copy.from + k]
      BY <1>4 DEF MovedTrue
    <3>2. \A k \in 1 .. copy.moved :
            /\ copy.to + k \in copy.to + 1 .. copy.to + copy.moved
            /\ copy.from + k \in copy.from + 1 .. copy.from + copy.moved + Len(copy.buf)
      BY <1>1, Within
    <3> QED
      BY <3>1, <3>2
  <2>2. \A k \in 1 .. Len(copy.buf) :
          /\ copy.buf[k] = ToBytes(auto)[copy.from + copy.moved + k]
          /\ copy.from + copy.moved + k \in copy.from + 1 .. copy.from + copy.moved + Len(copy.buf)
    <3>1. \A k \in 1 .. Len(copy.buf) : copy.buf[k] = ToBytes(auto)[copy.from + copy.moved + k]
      BY <1>4 DEF MovedTrue
    <3>2. \A k \in 1 .. Len(copy.buf) :
            copy.from + copy.moved + k \in copy.from + 1 .. copy.from + copy.moved + Len(copy.buf)
      BY <1>1, Beyond, ZenonT(60)
    <3> QED
      BY <3>1, <3>2
  <2>3. \A k \in 1 .. copy.moved : store'[copy.to + k] = ToBytes(auto')[copy.from + k]
    BY <1>4, <2>1 DEF Stays
  <2>4. \A k \in 1 .. Len(copy.buf) : copy.buf[k] = ToBytes(auto')[copy.from + copy.moved + k]
    BY <1>4, <2>2 DEF Stays
  <2> QED
    BY <1>2, <2>3, <2>4 DEF MovedTrue
<1>5. ASSUME copy' = copy, copy.torn \/ Stays PROVE CopyTrue'
  <2>1. copy'.torn = copy.torn
    BY <1>5
  <2> QED
    BY <1>4, <1>5, <2>1, Zenon DEF CopyTrue
<1>6. ASSUME copy' = [copy EXCEPT !.torn = TRUE] PROVE CopyTrue'
  <2>1. copy'.torn = TRUE
    BY <1>6 DEF CopyType
  <2> QED
    BY <2>1, Zenon DEF CopyTrue
<1> QED
  BY <1>3, <1>5, <1>6

LEMMA NoCopyKept ==
  ASSUME copy' = NoCopy
  PROVE  CopyPlace' /\ CopyTrue'
<1>1. /\ copy'.is = "none" /\ copy'.moved = 0 /\ Len(copy'.buf) = 0 /\ copy'.size = 0
      /\ copy'.moved + Len(copy'.buf) = 0
  BY Idle DEF NoCopy
<1>2. CopyPlace'
  BY <1>1 DEF CopyPlace, Copying
<1>3. MovedTrue'
  BY <1>1 DEF MovedTrue
<1> QED
  BY <1>2, <1>3, Zenon DEF CopyTrue

\* A write the copy is told of.
LEMMA DisturbedIs ==
  ASSUME NEW at \in Nat, NEW d \in Seq(Byte), NEW lo \in Nat, NEW n \in Nat,
         copy' = Disturbed(at, d, lo, n)
  PROVE  \/ copy' = NoCopy
         \/ Copying /\ copy' = [copy EXCEPT !.torn = TRUE]
         \/ copy' = copy /\ \A p \in lo + 1 .. lo + n : ~(p \in at + 1 .. at + Len(d))
<1> DEFINE over == at < lo + n /\ at + Len(d) > lo
           r == [copy EXCEPT !.torn = TRUE]
<1>1. copy' = IF ~over THEN copy ELSE IF Copying THEN r ELSE NoCopy
  BY DEF Disturbed
<1>2. ~over => \A p \in lo + 1 .. lo + n : ~(p \in at + 1 .. at + Len(d))
  OBVIOUS
<1> HIDE DEF over
<1> QED
  BY <1>1, <1>2

\* Writing and growing the source.
LEMMA SourceKeepsCopy ==
  ASSUME StoreType, CopyType, Whole(auto), CopyPlace, CopyTrue,
         \/ \E n \in Positions : AutoGrow(n)
         \/ \E at \in Positions, d \in Data : AutoWrite(at, d)
  PROVE  CopyPlace' /\ CopyTrue'
<1>1. /\ copy.from \in Nat /\ copy.moved \in Nat /\ Len(copy.buf) \in Nat
      /\ copy.moved + Len(copy.buf) \in Nat /\ auto.length \in Nat /\ Len(store) \in Nat
      /\ Len(store) >= Len(store)
  BY WholeType DEF CopyType, StoreType
<1>2. ASSUME NEW p \in copy.from + 1 .. copy.from + copy.moved + Len(copy.buf)
      PROVE  p \in 1 .. auto.length /\ p \in copy.from + 1 .. copy.from + (copy.moved + Len(copy.buf))
  <2>1. /\ p \in Int /\ p >= copy.from + 1 /\ p <= copy.from + copy.moved + Len(copy.buf)
        /\ copy.moved + Len(copy.buf) > 0
    BY <1>1
  <2>2. copy.from + copy.moved + Len(copy.buf) <= auto.length
    BY <2>1 DEF CopyPlace
  <2> QED
    BY <1>1, <2>1, <2>2, InRange
<1>3. ASSUME NEW n \in Positions, AutoGrow(n) PROVE CopyPlace' /\ CopyTrue'
  <2>1. /\ n \in Nat /\ 0 \in Nat /\ << >> \in Seq(Byte) /\ Len(<< >>) = 0
        /\ auto' = AutoGrown(auto, n) /\ copy' = copy /\ store' = store
    BY <1>3, Parameters DEF AutoGrow
  <2>2. /\ auto'.length \in Nat /\ auto'.length >= auto.length
        /\ \A p \in 1 .. auto.length :
             ~(p \in 0 + 1 .. 0 + Len(<< >>)) => ToBytes(auto')[p] = ToBytes(auto)[p]
    BY <2>1, AutoKeeps
  <2>3. \A p \in 1 .. auto.length : ToBytes(auto')[p] = ToBytes(auto)[p]
    BY <2>1, <2>2
  <2>4. Stays
    BY <1>2, <2>1, <2>3 DEF Stays
  <2> QED
    BY <1>1, <2>1, <2>2, <2>4, CopyKept
<1>4. ASSUME NEW at \in Positions, NEW d \in Data, AutoWrite(at, d) PROVE CopyPlace' /\ CopyTrue'
  <2>1. /\ at \in Nat /\ 0 \in Nat /\ d \in Seq(Byte) /\ d # << >> /\ store' = store
        /\ auto' = AutoWritten(auto, at, d)
        /\ copy' = Disturbed(at, d, copy.from, copy.moved + Len(copy.buf))
    BY <1>4, Parameters, DataIs DEF AutoWrite
  <2>2. /\ auto'.length \in Nat /\ auto'.length >= auto.length
        /\ \A p \in 1 .. auto.length :
             ~(p \in at + 1 .. at + Len(d)) => ToBytes(auto')[p] = ToBytes(auto)[p]
    BY <2>1, AutoKeeps
  <2>3. \/ copy' = NoCopy
        \/ Copying /\ copy' = [copy EXCEPT !.torn = TRUE]
        \/ /\ copy' = copy
           /\ \A p \in copy.from + 1 .. copy.from + (copy.moved + Len(copy.buf)) :
                ~(p \in at + 1 .. at + Len(d))
    BY <1>1, <2>1, DisturbedIs
  <2>4. (\A p \in copy.from + 1 .. copy.from + (copy.moved + Len(copy.buf)) :
                ~(p \in at + 1 .. at + Len(d))) => Stays
    BY <1>2, <2>1, <2>2 DEF Stays
  <2> QED
    BY <1>1, <2>1, <2>2, <2>3, <2>4, CopyKept, NoCopyKept
<1> QED
  BY <1>3, <1>4

\* Writing to the target beside the copy.
LEMMA TargetKeepsCopy ==
  ASSUME StoreType, CopyType, Whole(auto), CopyPlace, CopyTrue,
         NEW w \in Writer, NEW at \in Positions, NEW d \in Data, StoreWrite(w, at, d)
  PROVE  CopyPlace' /\ CopyTrue'
<1>1. /\ copy.to \in Nat /\ copy.moved \in Nat /\ auto.length \in Nat /\ Len(store) \in Nat
      /\ auto.length >= auto.length
  BY WholeType DEF CopyType, StoreType
<1>2. /\ w \in OpenObjects /\ at \in Nat /\ d \in Seq(Byte) /\ Takes(at)
      /\ kind' = kind /\ auto' = auto
  BY Parameters, DataIs DEF StoreWrite, OpenObjects
<1>3. PICK k \in Accepted(at, d) :
        Put(w, at, d, k) /\ copy' = Disturbed(at, SubSeq(d, 1, k), copy.to, copy.moved)
  BY DEF StoreWrite
<1>4. Wrote(w, at, d, k) /\ k \in 0 .. Len(d)
  BY <1>2, <1>3, PutIs, AcceptedIs
<1>5. /\ store' \in Seq(Byte)
      /\ Len(store') = IF k = 0 THEN Len(store) ELSE MaxOf(Len(store), at + k)
      /\ \A p \in 1 .. Len(store') :
           store'[p] = IF p - at \in 1 .. k THEN d[p - at]
                       ELSE IF p <= Len(store) THEN store[p] ELSE Zero
  BY <1>4 DEF Wrote
<1>6. Len(store') \in Nat /\ Len(store') >= Len(store) /\ k \in Nat
  BY <1>1, <1>2, <1>4, <1>5 DEF MaxOf
<1> DEFINE e == SubSeq(d, 1, k)
<1>7. e \in Seq(Byte) /\ Len(e) = k
  BY <1>2, <1>4
<1>8. copy' = Disturbed(at, e, copy.to, copy.moved)
  BY <1>3
<1> HIDE DEF e
<1>9. \/ copy' = NoCopy
      \/ Copying /\ copy' = [copy EXCEPT !.torn = TRUE]
      \/ /\ copy' = copy
         /\ \A p \in copy.to + 1 .. copy.to + copy.moved : ~(p \in at + 1 .. at + Len(e))
  BY <1>1, <1>2, <1>7, <1>8, DisturbedIs
<1>10. ASSUME \A p \in copy.to + 1 .. copy.to + copy.moved : ~(p \in at + 1 .. at + Len(e))
       PROVE  Stays
  <2>1. ASSUME NEW p \in copy.to + 1 .. copy.to + copy.moved
        PROVE  store'[p] = store[p]
    <3>1. p \in Int /\ p > 0 /\ copy.moved > 0 /\ p <= copy.to + copy.moved
      BY <1>1
    <3>2. p <= Len(store)
      BY <1>1, <3>1 DEF CopyPlace
    <3>3. p \in 1 .. Len(store') /\ ~(p - at \in 1 .. k)
      BY <1>1, <1>2, <1>6, <1>7, <1>10, <3>1, <3>2
    <3> QED
      BY <1>5, <3>2, <3>3
  <2> QED
    BY <1>2, <2>1 DEF Stays
<1> QED
  <2>1. /\ auto'.length \in Nat /\ auto'.length >= auto.length
        /\ Len(store') \in Nat /\ Len(store') >= Len(store)
    BY <1>1, <1>2, <1>6
  <2>2. \/ copy' = NoCopy
        \/ Copying /\ copy' = [copy EXCEPT !.torn = TRUE]
        \/ copy' = copy /\ Stays
    BY <1>9, <1>10, Zenon
  <2> QED
    BY <2>1, <2>2, CopyKept, NoCopyKept

\* Growing the target.
LEMMA GrowKeepsCopy ==
  ASSUME StoreType, CopyType, Whole(auto), FileSizes, CopyPlace, CopyTrue,
         NEW w \in Writer, NEW n \in Positions, StoreGrow(w, n)
  PROVE  CopyPlace' /\ CopyTrue'
<1>1. /\ copy.to \in Nat /\ copy.moved \in Nat /\ auto.length \in Nat /\ Len(store) \in Nat
      /\ auto.length >= auto.length /\ n \in Nat /\ auto' = auto /\ copy' = copy
      /\ w \in OpenObjects /\ known[w] \in Nat /\ n > known[w]
  BY WholeType, Parameters, SMTT(30) DEF CopyType, StoreType, StoreGrow, OpenObjects
<1>2. Len(store') \in Nat /\ Len(store') >= Len(store)
      /\ \A p \in 1 .. Len(store) : store'[p] = store[p]
  <2>1. CASE kind = "file"
    <3>1. known[w] >= Len(store)
      BY <1>1, <2>1 DEF FileSizes
    <3>2. Len(store') = n /\ \A p \in 1 .. n : p <= Len(store) => store'[p] = store[p]
      BY <2>1, StoreGrowIs
    <3> QED
      BY <1>1, <3>1, <3>2
  <2>2. CASE kind # "file"
    BY <1>1, <2>2, StoreGrowIs
  <2> QED
    BY <2>1, <2>2
<1>3. ASSUME NEW p \in copy.to + 1 .. copy.to + copy.moved PROVE p \in 1 .. Len(store)
  <2>1. copy.moved > 0 /\ p \in Int /\ p > 0 /\ p <= copy.to + copy.moved
    BY <1>1
  <2> QED
    BY <1>1, <2>1 DEF CopyPlace
<1>4. Stays
  BY <1>1, <1>2, <1>3 DEF Stays
<1> QED
  BY <1>1, <1>2, <1>4, CopyKept

\* A copy that is over leaves what it moved.
LEMMA EndKeepsCopy ==
  ASSUME StoreType, CopyType, Whole(auto), CopyPlace, CopyTrue,
         NEW how \in {"done", "failed"}, CopyEnds(how), auto' = auto, store' = store,
         how = "done" /\ copy.how = "CopyAt" => copy.moved = copy.size
  PROVE  CopyPlace' /\ CopyTrue'
<1>1. /\ copy.from \in Nat /\ copy.to \in Nat /\ copy.moved \in Nat /\ Len(copy.buf) \in Nat
      /\ copy.size \in Nat /\ auto.length \in Nat /\ Len(store) \in Nat
  BY WholeType DEF CopyType, StoreType
<1>2. copy' = [copy EXCEPT !.is = how, !.buf = << >>]
  BY DEF CopyEnds
<1>3. /\ copy'.from = copy.from /\ copy'.to = copy.to /\ copy'.moved = copy.moved
      /\ copy'.buf = << >> /\ Len(copy'.buf) = 0 /\ copy'.is = how /\ copy'.how = copy.how
      /\ copy'.size = copy.size /\ copy'.by = copy.by
  BY <1>2 DEF CopyType
<1>4. copy'.torn = copy.torn
  BY <1>2 DEF CopyType
<1>5. CopyPlace'
  BY <1>1, <1>3 DEF CopyPlace, Copying
<1>6. MovedTrue => MovedTrue'
  BY <1>3 DEF MovedTrue
<1>7. CopyTrue'
  BY <1>4, <1>6, Zenon DEF CopyTrue
<1> QED
  BY <1>5, <1>7

\* A chunk that was read is what the source has behind what was moved.
LEMMA ChunkKeepsCopy ==
  ASSUME StoreType, CopyType, Whole(auto), CopyPlace, CopyTrue, NEW r,
         copy.is = "read", copy'.is = "write", copy'.buf = r.data,
         copy'.from = copy.from, copy'.to = copy.to, copy'.moved = copy.moved,
         copy'.how = copy.how, copy'.size = copy.size, copy'.by = copy.by,
         copy'.torn = copy.torn, auto' = auto, store' = store,
         r.data \in Seq(Byte),
         Len(r.data) > 0 => copy.from + copy.moved + Len(r.data) <= auto.length,
         \A k \in 1 .. Len(r.data) : r.data[k] = ToBytes(auto)[copy.from + copy.moved + k],
         copy.how = "CopyAt" => copy.moved + Len(r.data) <= copy.size
  PROVE  CopyPlace' /\ CopyTrue'
<1>1. /\ copy.from \in Nat /\ copy.to \in Nat /\ copy.moved \in Nat
      /\ copy.size \in Nat /\ auto.length \in Nat /\ Len(store) \in Nat
      /\ Len(copy.buf) \in Nat /\ Len(r.data) \in Nat
  BY WholeType DEF CopyType, StoreType
<1>2. Copying
  BY DEF Copying
<1>3. CopyPlace'
  <2>1. copy.by \in Writer
    BY <1>2 DEF CopyPlace
  <2>2. Len(r.data) = 0 /\ copy.moved > 0 => copy.from + copy.moved + Len(r.data) <= auto.length
    BY <1>1 DEF CopyPlace
  <2>3. copy.moved > 0 => copy.to + copy.moved <= Len(store)
    BY DEF CopyPlace
  <2> QED
    BY <1>1, <2>1, <2>2, <2>3 DEF CopyPlace, Copying
<1>4. MovedTrue => MovedTrue'
  BY DEF MovedTrue
<1>5. CopyTrue'
  BY <1>4, Zenon DEF CopyTrue
<1> QED
  BY <1>3, <1>5

LEMMA CopyReadKeeps ==
  ASSUME StoreType, CopyType, Whole(auto), CopyPlace, CopyTrue, CopyRead
  PROVE  CopyPlace' /\ CopyTrue'
<1> DEFINE chunk == MinOf(ChunkSize, copy.size - copy.moved)
           off == copy.from + copy.moved
           r == AutoReadAt(auto, off, chunk)
<1>1. /\ copy.from \in Nat /\ copy.moved \in Nat /\ copy.size \in Nat /\ off \in Nat
      /\ ChunkSize \in Nat /\ ChunkSize > 0 /\ Len(copy.buf) \in Nat /\ auto.length \in Nat
      /\ auto' = auto /\ store' = store
  BY Parameters, WholeType DEF CopyType, CopyRead
<1>2. copy.how = "CopyAt" /\ copy.is = "read" /\ copy.moved <= copy.size
  BY <1>1 DEF CopyRead, CopyPlace
<1>3. /\ chunk \in Nat /\ chunk \in Int /\ copy.moved + chunk <= copy.size
      /\ chunk = 0 => copy.moved = copy.size
  BY <1>1, <1>2 DEF MinOf
<1>4. \/ chunk = 0 /\ CopyEnds("done")
      \/ CopyEnds("failed")
      \/ ~r.eof /\ copy' = [copy EXCEPT !.is = "write", !.buf = r.data]
  BY DEF CopyRead
<1> HIDE DEF chunk
<1>5. /\ r.data \in Seq(Byte) /\ Len(r.data) \in Nat
      /\ Len(r.data) = MaxOf(MinOf(chunk, auto.length - off), 0)
      /\ Len(r.data) > 0 => off + Len(r.data) <= auto.length
      /\ \A k \in 1 .. Len(r.data) : r.data[k] = ToBytes(auto)[off + k]
  BY <1>1, <1>3, ReadIs
<1> HIDE DEF r
<1>6. copy.moved + Len(r.data) <= copy.size
  <2>1. auto.length - off \in Int
    BY <1>1
  <2>2. Len(r.data) <= chunk
    BY <1>3, <1>5, <2>1 DEF MaxOf, MinOf
  <2> QED
    BY <1>1, <1>3, <1>5, <2>2
<1>7. CASE copy' = [copy EXCEPT !.is = "write", !.buf = r.data]
  <2>1. /\ copy'.is = "write" /\ copy'.buf = r.data
        /\ copy'.from = copy.from /\ copy'.to = copy.to /\ copy'.moved = copy.moved
        /\ copy'.how = copy.how /\ copy'.size = copy.size /\ copy'.by = copy.by
    BY <1>7 DEF CopyType
  <2>2. copy'.torn = copy.torn
    BY <1>7 DEF CopyType
  <2> QED
    BY <1>1, <1>2, <1>5, <1>6, <2>1, <2>2, ChunkKeepsCopy
<1> QED
  BY <1>1, <1>2, <1>3, <1>4, <1>7, EndKeepsCopy

LEMMA PumpReadKeeps ==
  ASSUME StoreType, CopyType, Whole(auto), CopyPlace, CopyTrue, PumpRead
  PROVE  CopyPlace' /\ CopyTrue'
<1> DEFINE off == copy.from + copy.moved
           r == AutoReadAt(auto, off, ChunkSize)
<1>1. /\ off \in Nat /\ ChunkSize \in Int /\ auto' = auto /\ store' = store
      /\ copy.how = "io.Copy" /\ copy.is = "read"
  BY Parameters DEF CopyType, PumpRead
<1>2. \/ CopyEnds("done")
      \/ copy' = [copy EXCEPT !.is = "write", !.buf = r.data, !.last = r.eof]
  BY DEF PumpRead
<1>3. /\ r.data \in Seq(Byte)
      /\ Len(r.data) > 0 => off + Len(r.data) <= auto.length
      /\ \A k \in 1 .. Len(r.data) : r.data[k] = ToBytes(auto)[off + k]
  BY <1>1, ReadIs
<1> HIDE DEF r
<1>4. CASE copy' = [copy EXCEPT !.is = "write", !.buf = r.data, !.last = r.eof]
  <2>1. /\ copy'.is = "write" /\ copy'.buf = r.data
        /\ copy'.from = copy.from /\ copy'.to = copy.to /\ copy'.moved = copy.moved
        /\ copy'.how = copy.how /\ copy'.size = copy.size /\ copy'.by = copy.by
    BY <1>4 DEF CopyType
  <2>2. copy'.torn = copy.torn
    BY <1>4 DEF CopyType
  <2> QED
    BY <1>1, <1>3, <2>1, <2>2, ChunkKeepsCopy
<1> QED
  BY <1>1, <1>2, <1>4, EndKeepsCopy

LEMMA CopyBeginKeeps ==
  ASSUME NEW w \in Writer, NEW how, NEW from, NEW to, NEW n \in Nat,
         CopyBegin(w, how, from, to, n)
  PROVE  CopyPlace' /\ CopyTrue'
<1>1. copy' = [NoCopy EXCEPT !.is = "read", !.how = how, !.by = w, !.from = from,
                             !.to = to, !.size = n]
  BY DEF CopyBegin
<1>2. /\ copy'.is = "read" /\ copy'.by = w /\ copy'.moved = 0 /\ copy'.buf = << >>
      /\ Len(copy'.buf) = 0 /\ copy'.size = n /\ copy'.moved + Len(copy'.buf) = 0
  BY <1>1 DEF NoCopy
<1>3. CopyPlace'
  BY <1>2 DEF CopyPlace, Copying
<1>4. MovedTrue'
  BY <1>2 DEF MovedTrue
<1> QED
  BY <1>3, <1>4, Zenon DEF CopyTrue

\* The place of a byte in what was moved before k more bytes, and after.
MovedAt(from, to, m, k, q, l, n) ==
    /\ q \in Nat
    /\ q <= m /\ to + m <= l => /\ to + q \in 1 .. n /\ to + q <= l
                               /\ ~(to + q - (to + m) \in 1 .. k) /\ q \in 1 .. m
    /\ q > m => /\ q - m \in 1 .. k /\ to + q \in 1 .. n /\ to + q - (to + m) = q - m
                /\ from + m + (q - m) = from + q

LEMMA MovedPlace ==
  ASSUME NEW from \in Nat, NEW to \in Nat, NEW m \in Nat, NEW k \in Nat, NEW q \in 1 .. m + k,
         NEW l \in Nat, NEW n \in Nat, n >= l, k > 0 => n >= to + m + k
  PROVE  MovedAt(from, to, m, k, q, l, n)
  BY DEF MovedAt

LEMMA CopyWriteKeeps ==
  ASSUME StoreType, CopyType, Whole(auto), CopyPlace, CopyTrue, CopyWrite
  PROVE  CopyPlace' /\ CopyTrue'
<1>1. /\ copy.from \in Nat /\ copy.to \in Nat /\ copy.moved \in Nat /\ copy.size \in Nat
      /\ copy.buf \in Seq(Byte) /\ Len(copy.buf) \in Nat /\ auto.length \in Nat
      /\ Len(store) \in Nat /\ Target = copy.to + copy.moved /\ Target \in Nat
      /\ auto' = auto /\ kind' = kind /\ copy.is = "write"
  <2>1. auto' = auto /\ kind' = kind /\ copy.is = "write"
    BY DEF CopyWrite
  <2> QED
    BY <2>1, WholeType DEF CopyType, StoreType, Target
<1>2. copy.by \in Writer /\ copy.by \in OpenObjects
  BY <1>1 DEF CopyPlace, CopyType, Copying
<1>3. CASE ~Takes(Target)
  <2>1. CopyEnds("failed") /\ store' = store
    BY <1>3 DEF CopyWrite
  <2> QED
    BY <1>1, <2>1, EndKeepsCopy
<1>4. CASE Takes(Target)
  <2>1. PICK k \in Accepted(Target, copy.buf) :
          /\ Put(copy.by, Target, copy.buf, k)
          /\ copy' = [copy EXCEPT !.is = IF k = Len(copy.buf) THEN "read" ELSE "failed",
                                  !.moved = @ + k, !.buf = << >>]
    BY <1>4 DEF CopyWrite
  <2>2. Wrote(copy.by, Target, copy.buf, k) /\ k \in 0 .. Len(copy.buf)
    BY <1>1, <1>2, <1>4, <2>1, PutIs, AcceptedIs
  <2>3. /\ store' \in Seq(Byte)
        /\ Len(store') = IF k = 0 THEN Len(store) ELSE MaxOf(Len(store), Target + k)
        /\ \A p \in 1 .. Len(store') :
             store'[p] = IF p - Target \in 1 .. k THEN copy.buf[p - Target]
                         ELSE IF p <= Len(store) THEN store[p] ELSE Zero
    BY <2>2 DEF Wrote
  <2>4. k \in Nat /\ Len(store') \in Nat /\ Len(store') >= Len(store)
        /\ (k > 0 => Len(store') >= Target + k)
    BY <1>1, <2>2, <2>3 DEF MaxOf
  <2> DEFINE how == IF k = Len(copy.buf) THEN "read" ELSE "failed"
  <2>5. copy' = [copy EXCEPT !.is = how, !.moved = copy.moved + k, !.buf = << >>]
    BY <2>1
  <2>6. how \in {"read", "failed"}
    OBVIOUS
  <2> HIDE DEF how
  <2>7. /\ copy'.from = copy.from /\ copy'.to = copy.to /\ copy'.moved = copy.moved + k
        /\ copy'.buf = << >> /\ Len(copy'.buf) = 0 /\ copy'.is = how /\ copy'.how = copy.how
        /\ copy'.size = copy.size /\ copy'.by = copy.by
    BY <2>5 DEF CopyType
  <2>8. copy'.torn = copy.torn
    BY <2>5 DEF CopyType
  <2>9. CopyPlace'
    <3>1. copy.how = "CopyAt" => copy.moved + k <= copy.size
      BY <1>1, <2>2 DEF CopyPlace
    <3>2. copy.moved + k > 0 => copy.from + copy.moved + k <= auto.length
      BY <1>1, <2>2, SMTT(30) DEF CopyPlace
    <3>3. copy.moved + k > 0 => copy.to + (copy.moved + k) <= Len(store')
      <4>1. copy.moved > 0 => copy.to + copy.moved <= Len(store)
        BY DEF CopyPlace
      <4> QED
        BY <1>1, <2>4, <4>1
    <3>4. copy'.moved + Len(copy'.buf) = copy.moved + k
      BY <1>1, <2>4, <2>7
    <3>5. copy'.from + copy'.moved + Len(copy'.buf) = copy.from + copy.moved + k
      BY <1>1, <2>4, <2>7
    <3> QED
      BY <1>1, <1>2, <2>6, <2>7, <3>1, <3>2, <3>3, <3>4, <3>5 DEF CopyPlace, Copying
  <2>10. ASSUME MovedTrue PROVE MovedTrue'
    <3>1. ASSUME NEW q \in 1 .. copy.moved + k
          PROVE  store'[copy.to + q] = ToBytes(auto)[copy.from + q]
      <4> DEFINE p == copy.to + q
      <4>1. /\ q \in Nat
            /\ q <= copy.moved /\ copy.to + copy.moved <= Len(store) =>
                 /\ p \in 1 .. Len(store') /\ p <= Len(store)
                 /\ ~(p - Target \in 1 .. k) /\ q \in 1 .. copy.moved
            /\ q > copy.moved =>
                 /\ q - copy.moved \in 1 .. k /\ p \in 1 .. Len(store') /\ p - Target = q - copy.moved
                 /\ copy.from + copy.moved + (q - copy.moved) = copy.from + q
        <5>1. k > 0 => Len(store') >= copy.to + copy.moved + k
          BY <1>1, <2>4
        <5>2. /\ copy.from \in Nat /\ copy.to \in Nat /\ copy.moved \in Nat /\ k \in Nat
              /\ q \in 1 .. copy.moved + k /\ Len(store) \in Nat /\ Len(store') \in Nat
              /\ Len(store') >= Len(store)
          BY <1>1, <2>4
        <5>3. MovedAt(copy.from, copy.to, copy.moved, k, q, Len(store), Len(store'))
          BY <5>1, <5>2, MovedPlace
        <5>4. Target = copy.to + copy.moved
          BY <1>1
        <5>5. p - Target = copy.to + q - (copy.to + copy.moved)
          BY <1>1 DEF p
        <5>6. q \in Nat
          BY <5>3, Zenon DEF MovedAt
        <5>7. ASSUME q <= copy.moved, copy.to + copy.moved <= Len(store)
              PROVE  /\ p \in 1 .. Len(store') /\ p <= Len(store)
                     /\ ~(p - Target \in 1 .. k) /\ q \in 1 .. copy.moved
          BY <5>3, <5>5, <5>7, Zenon DEF MovedAt, p
        <5>8. ASSUME q > copy.moved
              PROVE  /\ q - copy.moved \in 1 .. k /\ p \in 1 .. Len(store')
                     /\ p - Target = q - copy.moved
                     /\ copy.from + copy.moved + (q - copy.moved) = copy.from + q
          BY <5>3, <5>5, <5>8, Zenon DEF MovedAt, p
        <5> QED
          BY <5>6, <5>7, <5>8, Zenon
      <4> HIDE DEF p
      <4>2. CASE q <= copy.moved
        <5>1. copy.moved > 0
          BY <1>1, <4>2
        <5>2. copy.to + copy.moved <= Len(store)
          BY <5>1 DEF CopyPlace
        <5>3. store'[p] = store[p]
          BY <2>3, <4>1, <4>2, <5>2
        <5>4. store[p] = ToBytes(auto)[copy.from + q]
          BY <2>10, <4>1, <4>2, <5>2 DEF MovedTrue, p
        <5> QED
          BY <5>3, <5>4 DEF p
      <4>3. CASE q > copy.moved
        <5>1. store'[p] = copy.buf[q - copy.moved]
          BY <2>3, <4>1, <4>3
        <5>2. q - copy.moved \in 1 .. Len(copy.buf)
          <6> DEFINE j == q - copy.moved
          <6>1. j \in 1 .. k
            BY <4>1, <4>3
          <6> HIDE DEF j
          <6>2. j \in 1 .. Len(copy.buf)
            BY <1>1, <2>2, <6>1
          <6> QED
            BY <6>2 DEF j
        <5>3. copy.buf[q - copy.moved] = ToBytes(auto)[copy.from + copy.moved + (q - copy.moved)]
          BY <2>10, <5>2 DEF MovedTrue
        <5> QED
          BY <4>1, <4>3, <5>1, <5>3 DEF p
      <4> QED
        BY <1>1, <4>1, <4>2, <4>3
    <3> QED
      BY <1>1, <2>7, <3>1 DEF MovedTrue
  <2>11. CopyTrue'
    BY <2>8, <2>10, Zenon DEF CopyTrue
  <2> QED
    BY <2>9, <2>11
<1> QED
  BY <1>3, <1>4

LEMMA CopyStep ==
  ASSUME StoreType, CopyType, Whole(auto), FileSizes, CopyPlace, CopyTrue, [Next]_vars
  PROVE  CopyPlace' /\ CopyTrue'
<1>1. CASE UNCHANGED <<auto, store, copy>>
  BY <1>1 DEF CopyPlace, CopyTrue, MovedTrue, Copying
<1>2. ASSUME NEW w \in Writer, NEW n \in Positions, Create(w, n) PROVE CopyPlace' /\ CopyTrue'
  BY <1>2, NoCopyKept DEF Create
<1>3. ASSUME NEW w \in Writer, NEW to \in {0, 1}, NEW n \in Sizes, CopyBegin(w, "CopyAt", 1, to, n)
      PROVE  CopyPlace' /\ CopyTrue'
  BY <1>3, CopyBeginKeeps, Parameters
<1>4. ASSUME NEW w \in Writer, NEW to \in {0, 1}, CopyBegin(w, "io.Copy", 0, to, 0)
      PROVE  CopyPlace' /\ CopyTrue'
  BY <1>4, CopyBeginKeeps
<1>5. CASE Next
  BY <1>1, <1>2, <1>3, <1>4, <1>5, SourceKeepsCopy, TargetKeepsCopy, GrowKeepsCopy,
     CopyReadKeeps, PumpReadKeeps, CopyWriteKeeps
     DEF Next, Open, Close
<1> QED
  BY <1>1, <1>5 DEF vars

\* What is remembered of the store and what was moved is right from one state to the
\* next when one stream writes to the store.
LEMMA WritersInductive ==
  ASSUME OneWriter
  PROVE  /\ Init => WInv
         /\ WInv /\ [Next]_vars => WInv'
<1>1. Init => WInv
  <2>1. Init => CopyPlace /\ MovedTrue
    BY Idle DEF Init, CopyPlace, MovedTrue, Copying, NoCopy
  <2>2. Init => CopyPlace /\ CopyTrue
    BY <2>1, Zenon DEF CopyTrue
  <2> QED
    BY <2>2, Inductive, SizesInit DEF WInv
<1>2. WInv /\ [Next]_vars => WInv'
  <2> SUFFICES ASSUME WInv, [Next]_vars
               PROVE  WInv'
    OBVIOUS
  <2>1. StoreType /\ CopyType /\ Whole(auto)
    BY Types DEF WInv, IInv
  <2>2. FileSizes /\ ArraySizes /\ CopyPlace /\ CopyTrue
    BY DEF WInv
  <2>3. IInv'
    BY Inductive DEF WInv
  <2>4. Copying => copy.by \in Writer
    BY <2>2 DEF CopyPlace
  <2>5. FileSizes' /\ ArraySizes'
    BY <2>1, <2>2, <2>4, SizesStep
  <2>6. CopyPlace' /\ CopyTrue'
    BY <2>1, <2>2, CopyStep
  <2> QED
    BY <2>3, <2>5, <2>6 DEF WInv
<1> QED
  BY <1>1, <1>2

LEMMA SizesFollow == WInv => SizeExact
<1> SUFFICES ASSUME WInv, NEW o \in OpenObjects \ odd
             PROVE  /\ known[o] <= Len(store)
                    /\ kind = "file" /\ o \in Writer => known[o] = Len(store)
                    /\ kind # "file" => \A p \in known[o] + 1 .. Capacity : store[p] = Zero
  BY DEF SizeExact
<1>1. StoreType /\ FileSizes /\ ArraySizes
  BY Types DEF WInv, IInv
<1>2. Len(store) \in Nat /\ known[o] \in Nat
  BY <1>1, OpenIs DEF StoreType, OpenObjects
<1>3. CASE kind = "file"
  <2>1. IF o \in Writer THEN known[o] = Len(store) ELSE known[o] <= Len(store)
    BY <1>1, <1>3 DEF FileSizes
  <2> QED
    BY <1>2, <1>3, <2>1
<1>4. CASE kind # "file"
  BY <1>1, <1>4 DEF ArraySizes, StoreType
<1> QED
  BY <1>3, <1>4

LEMMA FullLength ==
  ASSUME NEW n \in Nat, NEW off \in Nat, NEW l \in Nat, off + n <= l
  PROVE  MaxOf(MinOf(n, l - off), 0) = n
  BY DEF MaxOf, MinOf

LEMMA CopiesFollow == WInv => CopyExact
<1> SUFFICES ASSUME WInv
             PROVE  CopyExact
  OBVIOUS
<1>1. StoreType /\ CopyType /\ Whole(auto) /\ CopyPlace /\ CopyTrue
  BY Types DEF WInv, IInv
<1>2. /\ copy.from \in Nat /\ copy.to \in Nat /\ copy.moved \in Nat /\ copy.moved \in Int
      /\ Len(copy.buf) \in Nat /\ auto.length \in Nat /\ Len(store) \in Nat /\ store \in Seq(Byte)
  BY <1>1, WholeType DEF CopyType, StoreType
<1>3. copy.moved > 0 => /\ copy.from + copy.moved <= auto.length
                        /\ copy.to + copy.moved <= Len(store)
  BY <1>1, <1>2 DEF CopyPlace
<1>4. copy.is = "done" /\ copy.how = "CopyAt" => copy.moved = copy.size
  BY <1>1 DEF CopyPlace
<1>5. ASSUME MovedTrue, copy.moved > 0
      PROVE  Part(store, copy.to, copy.moved) = Part(ToBytes(auto), copy.from, copy.moved)
  <2> DEFINE a == Part(store, copy.to, copy.moved)
             b == Part(ToBytes(auto), copy.from, copy.moved)
  <2>1. ToBytes(auto) \in Seq(Byte) /\ Len(ToBytes(auto)) = auto.length
    BY <1>1, ToBytesType
  <2>2. /\ a \in Seq(Byte) /\ Len(a) = MaxOf(MinOf(copy.moved, Len(store) - copy.to), 0)
        /\ \A k \in 1 .. Len(a) : a[k] = store[copy.to + k]
    <3>1. store \in Seq(Byte) /\ copy.to \in Nat /\ copy.moved \in Int
      BY <1>2
    <3> QED
      BY <3>1, PartIs, ZenonT(60)
  <2>3. /\ b \in Seq(Byte)
        /\ Len(b) = MaxOf(MinOf(copy.moved, Len(ToBytes(auto)) - copy.from), 0)
        /\ \A k \in 1 .. Len(b) : b[k] = ToBytes(auto)[copy.from + k]
    <3>1. ToBytes(auto) \in Seq(Byte) /\ copy.from \in Nat /\ copy.moved \in Int
      BY <1>2, <2>1
    <3> QED
      BY <3>1, PartIs, ZenonT(60)
  <2> HIDE DEF a, b
  <2>4. Len(a) = copy.moved /\ Len(b) = copy.moved
    <3>1. copy.from + copy.moved <= Len(ToBytes(auto)) /\ copy.to + copy.moved <= Len(store)
      BY <1>3, <1>5, <2>1
    <3>2. Len(ToBytes(auto)) \in Nat
      BY <1>2, <2>1
    <3>3. MaxOf(MinOf(copy.moved, Len(store) - copy.to), 0) = copy.moved
      BY <1>2, <3>1, FullLength
    <3>4. MaxOf(MinOf(copy.moved, Len(ToBytes(auto)) - copy.from), 0) = copy.moved
      BY <1>2, <3>1, <3>2, FullLength
    <3> QED
      BY <2>2, <2>3, <3>3, <3>4
  <2>5. \A k \in 1 .. copy.moved : store[copy.to + k] = ToBytes(auto)[copy.from + k]
    BY <1>5 DEF MovedTrue
  <2>6. \A k \in 1 .. Len(a) : a[k] = b[k]
    BY <2>2, <2>3, <2>4, <2>5
  <2>7. a = b
    BY <2>2, <2>3, <2>4, <2>6, SeqEqual
  <2> QED
    BY <2>7 DEF a, b
<1>6. ~copy.torn => MovedTrue
  BY <1>1, Zenon DEF CopyTrue
<1> QED
  BY <1>3, <1>4, <1>5, <1>6, Zenon DEF CopyExact

\* With one stream that writes to a store, the size it remembers is the store's
\* whatever writes failed half way, and a stream for reading never remembers more
\* bytes than there are. Two that write truncate one another's files (file.go:141).
THEOREM SizesAreExact == OneWriter => (Spec => []SizeExact)
<1> SUFFICES ASSUME OneWriter
             PROVE  Spec => []SizeExact
  OBVIOUS
<1>1. Init => WInv
  BY WritersInductive
<1>2. WInv /\ [Next]_vars => WInv'
  BY WritersInductive
<1> QED
  BY <1>1, <1>2, SizesFollow, PTL DEF Spec

\* Whatever other goroutines write, grow, open and close, what a copy has moved,
\* finished or failed, is in its target as it is in its source.
THEOREM CopiesAreExact == OneWriter => (Spec => []CopyExact)
<1> SUFFICES ASSUME OneWriter
             PROVE  Spec => []CopyExact
  OBVIOUS
<1>1. Init => WInv
  BY WritersInductive
<1>2. WInv /\ [Next]_vars => WInv'
  BY WritersInductive
<1> QED
  BY <1>1, <1>2, CopiesFollow, PTL DEF Spec

-----------------------------------------------------------------------------
(* Windows and joined streams                                              *)

\* Both ways to cut l bytes leave the same number.
SameEnds(l, a, m, b, n) ==
    MaxOf(MinOf(n, MaxOf(MinOf(m, l - a), 0) - b), 0) =
      MaxOf(MinOf(MinOf(n, m - b), l - (a + b)), 0)

LEMMA SameLength ==
  ASSUME NEW l \in Nat, NEW a \in Nat, NEW m \in Nat, NEW b \in Nat, NEW n \in Nat
  PROVE  SameEnds(l, a, m, b, n)
  BY DEF MaxOf, MinOf, SameEnds

\* A part of a part is a part.
LEMMA PartOfPart ==
  ASSUME NEW S, NEW s \in Seq(S), NEW a \in Nat, NEW m \in Nat, NEW b \in Nat, NEW n \in Nat
  PROVE  Part(Part(s, a, m), b, n) = Part(s, a + b, MinOf(n, m - b))
<1> DEFINE e == MinOf(n, m - b)
           p == Part(s, a, m)
           q == Part(p, b, n)
           r == Part(s, a + b, e)
<1>1. Len(s) \in Nat /\ e \in Int /\ a + b \in Nat
  BY DEF MinOf
<1> HIDE DEF e
<1>2. /\ p \in Seq(S) /\ Len(p) \in Nat /\ Len(p) = MaxOf(MinOf(m, Len(s) - a), 0)
      /\ \A k \in 1 .. Len(p) : p[k] = s[a + k]
  <2>1. m \in Int
    OBVIOUS
  <2> QED
    BY <2>1, PartIs, ZenonT(60)
<1> HIDE DEF p
<1>3. /\ q \in Seq(S) /\ Len(q) \in Nat /\ Len(q) = MaxOf(MinOf(n, Len(p) - b), 0)
      /\ Len(q) > 0 => b + Len(q) <= Len(p)
      /\ \A k \in 1 .. Len(q) : q[k] = p[b + k]
  <2>1. n \in Int
    OBVIOUS
  <2>2. p \in Seq(S)
    BY <1>2
  <2> QED
    BY <2>1, <2>2, PartIs, ZenonT(60)
<1>4. /\ r \in Seq(S) /\ Len(r) \in Nat /\ Len(r) = MaxOf(MinOf(e, Len(s) - (a + b)), 0)
      /\ \A k \in 1 .. Len(r) : r[k] = s[a + b + k]
  BY <1>1, PartIs, ZenonT(60)
<1> HIDE DEF q, r
<1>5. Len(q) = Len(r)
  <2>1. MaxOf(MinOf(n, MaxOf(MinOf(m, Len(s) - a), 0) - b), 0) =
           MaxOf(MinOf(MinOf(n, m - b), Len(s) - (a + b)), 0)
    <3>1. Len(s) \in Nat
      BY <1>1
    <3>2. SameEnds(Len(s), a, m, b, n)
      BY <3>1, SameLength
    <3> QED
      BY <3>2 DEF SameEnds
  <2> QED
    BY <1>2, <1>3, <1>4, <2>1 DEF e
<1>6. ASSUME NEW k \in 1 .. Len(q) PROVE q[k] = r[k]
  <2>1. k \in Nat /\ k >= 1 /\ k <= Len(q) /\ b + k \in 1 .. Len(p) /\ a + (b + k) = a + b + k
    BY <1>2, <1>3
  <2> QED
    BY <1>2, <1>3, <1>4, <1>5, <2>1
<1>7. q = r
  BY <1>3, <1>4, <1>5, <1>6, SeqEqual
<1> QED
  BY <1>7 DEF q, r, e, p

\* Nothing of a sequence, and all that is asked for and there.
LEMMA PartEmpty ==
  ASSUME NEW S, NEW s \in Seq(S), NEW off \in Nat, NEW n \in Int, n <= 0 \/ off >= Len(s)
  PROVE  Part(s, off, n) = << >>
<1> DEFINE p == Part(s, off, n)
<1>1. p \in Seq(S) /\ Len(p) = MaxOf(MinOf(n, Len(s) - off), 0)
  BY PartIs, ZenonT(60)
<1>2. Len(s) \in Nat
  OBVIOUS
<1>3. MaxOf(MinOf(n, Len(s) - off), 0) = 0
  BY <1>2 DEF MaxOf, MinOf
<1> HIDE DEF p
<1>4. p = << >>
  BY <1>1, <1>3
<1> QED
  BY <1>4 DEF p

\* A window shows its part.
LEMMA WindowIs ==
  ASSUME Whole(auto), NEW w, NEW start \in Nat, NEW l \in Nat,
         w = [start |-> start, length |-> l], NEW off \in Nat, NEW n \in Nat
  PROVE  SubReadAt(auto, w, off, n) = Outcome(Part(Part(ToBytes(auto), start, l), off, n), n)
<1> DEFINE e == MinOf(n, l - off)
           b == ToBytes(auto)
<1>1. b \in Seq(Byte) /\ Len(b) \in Nat /\ start + off \in Nat /\ e \in Int
      /\ w.start = start /\ w.length = l
  BY ToBytesType DEF MinOf
<1>2. Part(Part(b, start, l), off, n) = Part(b, start + off, e)
  BY <1>1, PartOfPart
<1> HIDE DEF b, e
<1>3. CASE off >= l
  <2>1. e <= 0
    BY <1>3 DEF e, MinOf
  <2>2. Part(b, start + off, e) = << >>
    BY <1>1, <2>1, PartEmpty
  <2> QED
    BY <1>1, <1>2, <1>3, <2>2 DEF SubReadAt, b
<1>4. CASE ~(off >= l)
  <2>1. SubReadAt(auto, w, off, n) = Outcome(AutoReadAt(auto, start + off, e).data, n)
    BY <1>1, <1>4 DEF SubReadAt, e
  <2>2. AutoReadAt(auto, start + off, e) = Outcome(Part(b, start + off, e), e)
    BY <1>1, AutoReads DEF b
  <2>3. AutoReadAt(auto, start + off, e).data = Part(b, start + off, e)
    BY <2>2 DEF Outcome
  <2> QED
    BY <1>2, <2>1, <2>3 DEF b
<1> QED
  BY <1>3, <1>4

LEMMA WindowsFollow == Whole(auto) => SubReadersExact
<1> DEFINE b == ToBytes(auto)
<1> SUFFICES ASSUME Whole(auto), NEW start \in Positions, NEW end \in start .. MaxLength,
                    NEW off \in Positions, NEW n \in Positions
             PROVE  LET w     == NewSubReader(start, end)
                        shown == Part(Part(b, 0, end), start, w.length)
                    IN /\ SubReadAt(auto, w, off, n) = Outcome(Part(shown, off, n), n)
                       /\ off + n <= w.length =>
                            LET v == Nested(w, off, off + n) IN
                            \A i \in 0 .. n : SubReadAt(auto, v, i, n) =
                                              Outcome(Part(Part(shown, off, n), i, n), n)
  BY DEF SubReadersExact
<1> DEFINE w == NewSubReader(start, end)
           l == end - start
           shown == Part(Part(b, 0, end), start, w.length)
<1>1. /\ start \in Nat /\ end \in Nat /\ l \in Nat /\ off \in Nat /\ n \in Nat /\ b \in Seq(Byte)
      /\ 0 \in Nat
  BY Parameters, ToBytesType DEF Positions
<1>2. w = [start |-> start, length |-> l] /\ w.start = start /\ w.length = l
  BY DEF NewSubReader
<1>3. shown = Part(b, start, l)
  <2>1. Part(Part(b, 0, end), start, l) = Part(b, 0 + start, MinOf(l, end - start))
    BY <1>1, PartOfPart
  <2>2. 0 + start = start /\ MinOf(l, end - start) = l
    BY <1>1 DEF MinOf
  <2> QED
    BY <1>2, <2>1, <2>2
<1> HIDE DEF w, shown
<1>4. SubReadAt(auto, w, off, n) = Outcome(Part(shown, off, n), n)
  BY <1>1, <1>2, <1>3, WindowIs
<1>5. ASSUME off + n <= l, NEW i \in 0 .. n
      PROVE  SubReadAt(auto, Nested(w, off, off + n), i, n) =
               Outcome(Part(Part(shown, off, n), i, n), n)
  <2> DEFINE v == Nested(w, off, off + n)
  <2>1. v = [start |-> start + off, length |-> n] /\ start + off \in Nat /\ i \in Nat
    BY <1>1, <1>2 DEF Nested
  <2> HIDE DEF v
  <2>2. SubReadAt(auto, v, i, n) = Outcome(Part(Part(b, start + off, n), i, n), n)
    BY <1>1, <2>1, WindowIs
  <2>3. Part(Part(b, start, l), off, n) = Part(b, start + off, MinOf(n, l - off))
    BY <1>1, PartOfPart
  <2>4. MinOf(n, l - off) = n
    BY <1>1, <1>5 DEF MinOf
  <2> QED
    BY <1>3, <2>2, <2>3, <2>4 DEF v
<1> QED
  BY <1>2, <1>4, <1>5 DEF w, shown

\* A part asks for no more than there is.
LEMMA PartClipped ==
  ASSUME NEW S, NEW s \in Seq(S), NEW off \in Nat, NEW n \in Int
  PROVE  Part(s, off, MinOf(n, Len(s) - off)) = Part(s, off, n)
<1>1. Len(s) \in Nat
  OBVIOUS
<1>2. MinOf(off + MinOf(n, Len(s) - off), Len(s)) = MinOf(off + n, Len(s))
  BY <1>1 DEF MinOf
<1> QED
  BY <1>2 DEF Part

\* How many bytes two sequences of l and m give from offset off on.
AcrossIs(l, m, off, n) ==
    LET a == MaxOf(MinOf(n, l - off), 0)
        b == MaxOf(MinOf(n - a, m - 0), 0)
    IN /\ MaxOf(MinOf(n, l + m - off), 0) = a + b
       /\ off + a <= l
       /\ \A k \in 1 .. a + b : k > a => a = l - off /\ k - a \in 1 .. b

LEMMA AcrossLength ==
  ASSUME NEW l \in Nat, NEW m \in Nat, NEW off \in Nat, NEW n \in Nat, off <= l
  PROVE  AcrossIs(l, m, off, n)
  BY DEF AcrossIs, MaxOf, MinOf

\* A part of two sequences joined, from the second one and from the first.
LEMMA PartBehind ==
  ASSUME NEW S, NEW s \in Seq(S), NEW t \in Seq(S), NEW off \in Nat, NEW n \in Nat,
         off >= Len(s)
  PROVE  Part(s \o t, off, n) = Part(t, off - Len(s), n)
<1> DEFINE j == s \o t
           pos == off - Len(s)
           q == Part(j, off, n)
           r == Part(t, pos, n)
<1>1. /\ Len(s) \in Nat /\ Len(t) \in Nat /\ j \in Seq(S) /\ Len(j) = Len(s) + Len(t)
      /\ pos \in Nat /\ n \in Int
      /\ \A k \in 1 .. Len(s) + Len(t) : j[k] = IF k <= Len(s) THEN s[k] ELSE t[k - Len(s)]
  BY ConcatProperties
<1> HIDE DEF j, pos
<1>2. /\ q \in Seq(S) /\ Len(q) \in Nat /\ Len(q) = MaxOf(MinOf(n, Len(j) - off), 0)
      /\ Len(q) > 0 => off + Len(q) <= Len(j)
      /\ \A k \in 1 .. Len(q) : q[k] = j[off + k]
  <2>1. j \in Seq(S) /\ n \in Int
    BY <1>1
  <2> QED
    BY <2>1, PartIs, ZenonT(60)
<1>3. /\ r \in Seq(S) /\ Len(r) \in Nat /\ Len(r) = MaxOf(MinOf(n, Len(t) - pos), 0)
      /\ \A k \in 1 .. Len(r) : r[k] = t[pos + k]
  <2>1. pos \in Nat /\ n \in Int
    BY <1>1
  <2> QED
    BY <2>1, PartIs, ZenonT(60)
<1> HIDE DEF q, r
<1>4. Len(q) = Len(r)
  BY <1>1, <1>2, <1>3 DEF pos
<1>5. ASSUME NEW k \in 1 .. Len(q) PROVE q[k] = r[k]
  <2>1. /\ off + k \in 1 .. Len(s) + Len(t) /\ ~(off + k <= Len(s))
        /\ off + k - Len(s) = pos + k
    BY <1>1, <1>2 DEF pos
  <2>2. j[off + k] = t[pos + k]
    BY <1>1, <2>1
  <2> QED
    BY <1>2, <1>3, <1>4, <2>2
<1>6. q = r
  BY <1>2, <1>3, <1>4, <1>5, SeqEqual
<1> QED
  BY <1>6 DEF q, r, j, pos

LEMMA PartAcross ==
  ASSUME NEW S, NEW s \in Seq(S), NEW t \in Seq(S), NEW off \in Nat, NEW n \in Nat,
         off <= Len(s)
  PROVE  Part(s \o t, off, n) = Part(s, off, n) \o Part(t, 0, n - Len(Part(s, off, n)))
<1> DEFINE j == s \o t
           q == Part(j, off, n)
           a == Part(s, off, n)
           m == n - Len(a)
           b == Part(t, 0, m)
           r == a \o b
<1>1. /\ Len(s) \in Nat /\ Len(t) \in Nat /\ j \in Seq(S) /\ Len(j) = Len(s) + Len(t)
      /\ n \in Int /\ 0 \in Nat
      /\ \A k \in 1 .. Len(s) + Len(t) : j[k] = IF k <= Len(s) THEN s[k] ELSE t[k - Len(s)]
  BY ConcatProperties
<1> HIDE DEF j
<1>2. /\ q \in Seq(S) /\ Len(q) \in Nat /\ Len(q) = MaxOf(MinOf(n, Len(j) - off), 0)
      /\ Len(q) > 0 => off + Len(q) <= Len(j)
      /\ \A k \in 1 .. Len(q) : q[k] = j[off + k]
  <2>1. j \in Seq(S) /\ n \in Int
    BY <1>1
  <2> QED
    BY <2>1, PartIs, ZenonT(60)
<1>3. /\ a \in Seq(S) /\ Len(a) \in Nat /\ Len(a) = MaxOf(MinOf(n, Len(s) - off), 0)
      /\ \A k \in 1 .. Len(a) : a[k] = s[off + k]
  <2>1. n \in Int
    BY <1>1
  <2> QED
    BY <2>1, PartIs, ZenonT(60)
<1> HIDE DEF q, a
<1>4. m \in Int
  BY <1>1, <1>3
<1>5. /\ b \in Seq(S) /\ Len(b) \in Nat /\ Len(b) = MaxOf(MinOf(m, Len(t) - 0), 0)
      /\ \A k \in 1 .. Len(b) : b[k] = t[0 + k]
  <2>1. m \in Int /\ 0 \in Nat
    BY <1>4
  <2> HIDE DEF m
  <2> QED
    BY <2>1, PartIs, ZenonT(60)
<1> HIDE DEF b
<1>6. /\ r \in Seq(S) /\ Len(r) = Len(a) + Len(b)
      /\ \A k \in 1 .. Len(a) + Len(b) : r[k] = IF k <= Len(a) THEN a[k] ELSE b[k - Len(a)]
  BY <1>3, <1>5, ConcatProperties
<1> HIDE DEF r
<1>7. /\ Len(q) = Len(a) + Len(b) /\ off + Len(a) <= Len(s)
      /\ \A k \in 1 .. Len(a) + Len(b) : k > Len(a) => /\ Len(a) = Len(s) - off
                                                      /\ k - Len(a) \in 1 .. Len(b)
  <2>1. AcrossIs(Len(s), Len(t), off, n)
    BY <1>1, AcrossLength
  <2>2. /\ Len(q) = MaxOf(MinOf(n, Len(s) + Len(t) - off), 0)
        /\ Len(a) = MaxOf(MinOf(n, Len(s) - off), 0)
        /\ Len(b) = MaxOf(MinOf(n - Len(a), Len(t) - 0), 0)
    BY <1>1, <1>2, <1>3, <1>5
  <2> QED
    BY <2>1, <2>2 DEF AcrossIs
<1>8. ASSUME NEW k \in 1 .. Len(q) PROVE q[k] = r[k]
  <2>1. k \in Nat /\ k >= 1 /\ k <= Len(q) /\ off + k \in 1 .. Len(s) + Len(t)
    BY <1>1, <1>2
  <2>2. CASE k <= Len(a)
    <3>1. off + k <= Len(s) /\ k \in 1 .. Len(a)
      BY <1>1, <1>3, <1>7, <2>1, <2>2, SMTT(30)
    <3>2. q[k] = s[off + k]
      BY <1>1, <1>2, <2>1, <3>1
    <3> QED
      BY <1>3, <1>6, <1>7, <2>2, <3>1, <3>2
  <2>3. CASE ~(k <= Len(a))
    <3>1. /\ Len(a) = Len(s) - off /\ ~(off + k <= Len(s))
          /\ off + k - Len(s) = 0 + (k - Len(a)) /\ k - Len(a) \in 1 .. Len(b)
      <4>1. k \in 1 .. Len(a) + Len(b) /\ k > Len(a)
        BY <1>3, <1>5, <1>7, <2>1, <2>3, SMTT(30)
      <4>2. Len(a) = Len(s) - off /\ k - Len(a) \in 1 .. Len(b)
        BY <1>7, <4>1
      <4> QED
        BY <1>1, <1>3, <2>1, <2>3, <4>2, SMTT(30)
    <3>2. q[k] = t[0 + (k - Len(a))]
      <4>1. q[k] = j[off + k]
        BY <1>2
      <4>2. j[off + k] = t[off + k - Len(s)]
        BY <1>1, <2>1, <3>1
      <4> QED
        BY <3>1, <4>1, <4>2
    <3>3. r[k] = b[k - Len(a)]
      BY <1>6, <1>7, <2>3
    <3> QED
      BY <1>5, <3>1, <3>2, <3>3
  <2> QED
    BY <2>2, <2>3
<1>9. q = r
  BY <1>2, <1>6, <1>7, <1>8, SeqEqual
<1> QED
  BY <1>9 DEF q, r, a, b, m, j

\* What JoinedReadAt does with part i.
Turned(o, ends, off, n, r, i) ==
    LET first == FirstPart(ends, off)
        pos   == IF i > first THEN 0 ELSE IF i = 1 THEN off ELSE off - ends[1]
        want  == MinOf(n - Len(r.data), PartSize(o, i) - pos)
        got   == PartReadAt(o, i, pos, want).data
    IN IF i < first \/ r.short \/ want <= 0 THEN r
       ELSE [data |-> r.data \o got, short |-> Len(got) < want]

LEMMA JoinedTurns ==
  ASSUME NEW o, NEW ends, NEW off, NEW n
  PROVE  JoinedReadAt(o, ends, off, n) =
           IF off >= ends[2] THEN Outcome(<< >>, n)
           ELSE Outcome(Turned(o, ends, off, n,
                          Turned(o, ends, off, n, [data |-> << >>, short |-> FALSE], 1), 2).data, n)
  BY DEF JoinedReadAt, Turned

\* Part i gives the bytes s from pos on, and no fewer than its size.
TurnOf(o, ends, off, r, i, s, pos, size) ==
    /\ s \in Seq(Byte) /\ pos \in Nat /\ size \in Nat /\ r.data \in Seq(Byte)
    /\ ~(i < FirstPart(ends, off))
    /\ pos = IF i > FirstPart(ends, off) THEN 0 ELSE IF i = 1 THEN off ELSE off - ends[1]
    /\ PartSize(o, i) = size /\ pos <= size /\ size <= Len(s)
    /\ \A e \in Int : PartReadAt(o, i, pos, e).data = Part(s, pos, e)

\* A part that is not shorter than it says gives what is wanted of it.
LEMMA TurnReads ==
  ASSUME NEW o, NEW ends, NEW off, NEW n \in Nat, NEW r, NEW i,
         NEW s, NEW pos, NEW size, ~r.short,
         TurnOf(o, ends, off, r, i, s, pos, size)
  PROVE  /\ Turned(o, ends, off, n, r, i).data =
              r.data \o Part(s, pos, MinOf(n - Len(r.data), size - pos))
         /\ ~Turned(o, ends, off, n, r, i).short
<1> DEFINE want == MinOf(n - Len(r.data), size - pos)
           got == Part(s, pos, want)
           t == Turned(o, ends, off, n, r, i)
           short == Len(got) < want
<1>0. /\ s \in Seq(Byte) /\ pos \in Nat /\ size \in Nat /\ r.data \in Seq(Byte)
      /\ pos <= size /\ size <= Len(s)
  BY DEF TurnOf
<1>1. Len(r.data) \in Nat /\ Len(s) \in Nat /\ want \in Int /\ want <= size - pos
  BY <1>0 DEF MinOf
<1>2. PartReadAt(o, i, pos, want).data = got
  BY <1>1 DEF TurnOf
<1>3. t = IF i < FirstPart(ends, off) \/ r.short \/ want <= 0 THEN r
          ELSE [data |-> r.data \o got, short |-> short]
  BY <1>2 DEF Turned, TurnOf
<1>4. got \in Seq(Byte) /\ Len(got) = MaxOf(MinOf(want, Len(s) - pos), 0)
  <2>1. want \in Int /\ s \in Seq(Byte) /\ pos \in Nat
    BY <1>0, <1>1
  <2> HIDE DEF want
  <2> QED
    BY <2>1, PartIs, ZenonT(60)
<1>5. CASE want <= 0
  <2>1. t = r
    <3> HIDE DEF want, t, short, got
    <3> QED
      BY <1>3, <1>5, Zenon
  <2>2. got = << >>
    <3> HIDE DEF want
    <3> QED
      BY <1>0, <1>1, <1>5, PartEmpty
  <2> HIDE DEF want, t, short, got
  <2>3. r.data \o got = r.data
    BY <1>0, <2>2
  <2> QED
    BY <2>1, <2>3 DEF want, t, got
<1>6. CASE ~(want <= 0)
  <2>1. ~(i < FirstPart(ends, off)) /\ ~r.short
    BY DEF TurnOf
  <2>2. t = [data |-> r.data \o got, short |-> short]
    <3> HIDE DEF want, t, short, got
    <3> QED
      BY <1>3, <1>6, <2>1, Zenon
  <2>3. Len(got) = want
    <3> HIDE DEF want, got
    <3> QED
      BY <1>0, <1>1, <1>4, <1>6 DEF MaxOf, MinOf
  <2>4. ~(Len(got) < want)
    <3> HIDE DEF want, got
    <3> QED
      BY <1>1, <2>3
  <2>5. t.data = r.data \o got /\ t.short = short
    <3> HIDE DEF t, got, short
    <3> QED
      BY <2>2
  <2>6. ~t.short
    <3> HIDE DEF t, got, want
    <3> QED
      BY <2>4, <2>5, Zenon
  <2> HIDE DEF want, t, got
  <2> QED
    BY <2>5, <2>6 DEF want, t, got
<1> QED
  BY <1>5, <1>6

\* What a stream over the store has and says it has.
LEMMA ReadableIs ==
  ASSUME WInv, NEW o \in OpenObjects \ odd
  PROVE  /\ Readable(o) \in Seq(Byte) /\ Size(o) \in Nat /\ Size(o) <= Len(Readable(o))
         /\ \A off \in Nat, n \in Nat : off + n <= Size(o) =>
              Part(Readable(o), off, n) = Part(store, off, n)
<1>1. StoreType /\ SizeExact /\ ArraySizes
  BY Types, SizesFollow DEF WInv, IInv
<1>2. /\ known[o] \in Nat /\ known[o] <= Len(store) /\ Capacity \in Nat
      /\ store \in Seq(Byte) /\ Len(store) \in Nat /\ (kind # "file" => Len(store) = Capacity)
  BY <1>1, OpenIs, Parameters DEF SizeExact, StoreType, OpenObjects
<1>3. Size(o) \in Nat /\ Size(o) <= Len(store)
  BY <1>2 DEF Size
<1>4. CASE kind = "file"
  BY <1>2, <1>3, <1>4 DEF Readable
<1>5. CASE kind # "file"
  <2>1. Readable(o) = Part(store, 0, Size(o))
    BY <1>5 DEF Readable
  <2> DEFINE m == Size(o)
             r == Part(store, 0, m)
  <2>2. m \in Nat /\ m <= Len(store)
    BY <1>3
  <2> HIDE DEF m
  <2>3. r \in Seq(Byte) /\ Len(r) = MaxOf(MinOf(m, Len(store) - 0), 0)
    <3>1. m \in Int /\ 0 \in Nat /\ store \in Seq(Byte)
      BY <1>2, <2>2
    <3> QED
      BY <3>1, PartIs, ZenonT(60)
  <2>4. ASSUME NEW off \in Nat, NEW n \in Nat, off + n <= m
        PROVE  Part(r, off, n) = Part(store, off, n)
    <3>1. Part(r, off, n) = Part(store, 0 + off, MinOf(n, m - off))
      BY <1>2, <2>2, PartOfPart
    <3>2. 0 + off = off /\ MinOf(n, m - off) = n
      BY <2>2, <2>4 DEF MinOf
    <3> QED
      BY <3>1, <3>2
  <2> HIDE DEF r
  <2>5. Len(r) = m
    BY <1>2, <2>2, <2>3 DEF MaxOf, MinOf
  <2>6. Readable(o) = r
    BY <2>1 DEF r, m
  <2> QED
    BY <2>2, <2>3, <2>4, <2>5, <2>6 DEF m
<1> QED
  BY <1>4, <1>5

LEMMA PartReads ==
  ASSUME Whole(auto), NEW o, NEW pos \in Nat
  PROVE  /\ PartSize(o, 1) = auto.length /\ PartSize(o, 2) = Size(o)
         /\ \A e \in Int : PartReadAt(o, 1, pos, e).data = Part(ToBytes(auto), pos, e)
         /\ \A e \in Int : PartReadAt(o, 2, pos, e).data = Part(Readable(o), pos, e)
<1>1. ASSUME NEW e \in Int PROVE PartReadAt(o, 1, pos, e).data = Part(ToBytes(auto), pos, e)
  <2>1. AutoReadAt(auto, pos, e) = Outcome(Part(ToBytes(auto), pos, e), e)
    BY AutoReads
  <2> QED
    BY <2>1 DEF PartReadAt, Outcome
<1>2. ASSUME NEW e \in Int PROVE PartReadAt(o, 2, pos, e).data = Part(Readable(o), pos, e)
  BY DEF PartReadAt, StoreReadAt, Outcome
<1>3. PartSize(o, 1) = auto.length /\ PartSize(o, 2) = Size(o)
  BY DEF PartSize
<1> QED
  BY <1>1, <1>2, <1>3

\* A read that begins in the second part.
LEMMA FromSecond ==
  ASSUME WInv, NEW o \in OpenObjects \ odd, NEW ends, NEW off \in Nat, NEW n \in Nat,
         ends[1] \in Nat, ends[2] \in Nat, off < ends[2], off >= ends[1],
         off - ends[1] <= Size(o)
  PROVE  JoinedReadAt(o, ends, off, n) =
           Outcome(Part(Readable(o), off - ends[1], MinOf(n, Size(o) - (off - ends[1]))), n)
<1> DEFINE r0 == [data |-> << >>, short |-> FALSE]
           t1 == Turned(o, ends, off, n, r0, 1)
           t2 == Turned(o, ends, off, n, t1, 2)
           pos == off - ends[1]
           want == MinOf(n, Size(o) - pos)
           got == Part(Readable(o), pos, want)
<1>1. /\ Readable(o) \in Seq(Byte) /\ Size(o) \in Nat /\ Size(o) <= Len(Readable(o))
      /\ Whole(auto) /\ pos \in Nat
  BY ReadableIs DEF WInv, IInv
<1>2. JoinedReadAt(o, ends, off, n) = Outcome(t2.data, n)
  BY JoinedTurns
<1>3. FirstPart(ends, off) = 2
  BY DEF FirstPart
<1>4. t1 = r0
  BY <1>3 DEF Turned
<1>5. /\ r0.data = << >> /\ r0.data \in Seq(Byte) /\ ~r0.short /\ Len(r0.data) = 0
  OBVIOUS
<1> HIDE DEF t1, t2, r0, pos
<1>6. /\ PartSize(o, 2) = Size(o)
      /\ \A e \in Int : PartReadAt(o, 2, pos, e).data = Part(Readable(o), pos, e)
  BY <1>1, PartReads
<1>7. /\ ~(2 < FirstPart(ends, off)) /\ pos <= Size(o)
      /\ pos = IF 2 > FirstPart(ends, off) THEN 0 ELSE IF 2 = 1 THEN off ELSE off - ends[1]
  BY <1>3 DEF pos
<1>8. /\ Turned(o, ends, off, n, r0, 2).data =
           r0.data \o Part(Readable(o), pos, MinOf(n - Len(r0.data), Size(o) - pos))
      /\ ~Turned(o, ends, off, n, r0, 2).short
  <2>1. TurnOf(o, ends, off, r0, 2, Readable(o), pos, Size(o))
    BY <1>1, <1>5, <1>6, <1>7 DEF TurnOf
  <2>2. ~r0.short
    BY <1>5, Zenon
  <2> QED
    BY <2>1, <2>2, TurnReads, Zenon
<1>9. n - Len(r0.data) = n
  BY <1>5
<1>10. t2.data = r0.data \o got
  BY <1>4, <1>8, <1>9 DEF t2
<1>11. got \in Seq(Byte)
  <2>1. want \in Int
    BY <1>1 DEF MinOf
  <2> HIDE DEF want
  <2> QED
    BY <1>1, <2>1, PartIs
<1> HIDE DEF got
<1>12. t2.data = got
  BY <1>5, <1>10, <1>11
<1> QED
  BY <1>2, <1>12 DEF got, pos

\* One that begins in the first part.
LEMMA FromFirst ==
  ASSUME WInv, NEW o \in OpenObjects \ odd, NEW ends, NEW off \in Nat, NEW n \in Nat,
         ends[1] \in Nat, ends[2] \in Nat, off < ends[2], off < ends[1], off <= auto.length
  PROVE  JoinedReadAt(o, ends, off, n) =
           Outcome(Part(ToBytes(auto), off, n) \o
                   Part(Readable(o), 0, MinOf(n - Len(Part(ToBytes(auto), off, n)), Size(o) - 0)), n)
<1> DEFINE r0 == [data |-> << >>, short |-> FALSE]
           t1 == Turned(o, ends, off, n, r0, 1)
           t2 == Turned(o, ends, off, n, t1, 2)
           got == Part(ToBytes(auto), off, n)
<1>1. /\ Readable(o) \in Seq(Byte) /\ Size(o) \in Nat /\ Size(o) <= Len(Readable(o))
      /\ Whole(auto) /\ 0 \in Nat /\ 0 <= Size(o)
  BY ReadableIs DEF WInv, IInv
<1>2. /\ ToBytes(auto) \in Seq(Byte) /\ Len(ToBytes(auto)) = auto.length /\ auto.length \in Nat
      /\ auto.length <= Len(ToBytes(auto))
  BY <1>1, ToBytesType
<1>3. JoinedReadAt(o, ends, off, n) = Outcome(t2.data, n)
  BY JoinedTurns
<1>4. FirstPart(ends, off) = 1
  BY DEF FirstPart
<1>5. /\ r0.data = << >> /\ r0.data \in Seq(Byte) /\ ~r0.short /\ Len(r0.data) = 0
  OBVIOUS
<1> HIDE DEF t1, t2, r0
<1>6. /\ PartSize(o, 1) = auto.length /\ PartSize(o, 2) = Size(o)
      /\ \A e \in Int : PartReadAt(o, 1, off, e).data = Part(ToBytes(auto), off, e)
      /\ \A e \in Int : PartReadAt(o, 2, 0, e).data = Part(Readable(o), 0, e)
  BY <1>1, PartReads
<1>7. /\ ~(1 < FirstPart(ends, off)) /\ ~(2 < FirstPart(ends, off))
      /\ off = IF 1 > FirstPart(ends, off) THEN 0 ELSE IF 1 = 1 THEN off ELSE off - ends[1]
      /\ 0 = IF 2 > FirstPart(ends, off) THEN 0 ELSE IF 2 = 1 THEN off ELSE off - ends[1]
  BY <1>4
<1>8. /\ Turned(o, ends, off, n, r0, 1).data =
           r0.data \o Part(ToBytes(auto), off, MinOf(n - Len(r0.data), auto.length - off))
      /\ ~Turned(o, ends, off, n, r0, 1).short
  <2>1. TurnOf(o, ends, off, r0, 1, ToBytes(auto), off, auto.length)
    BY <1>2, <1>5, <1>6, <1>7 DEF TurnOf
  <2>2. ~r0.short
    BY <1>5, Zenon
  <2> QED
    BY <2>1, <2>2, TurnReads, Zenon
<1>9. got \in Seq(Byte) /\ got = Part(ToBytes(auto), off, MinOf(n - Len(r0.data), auto.length - off))
  <2>1. n \in Int /\ n - Len(r0.data) = n
    BY <1>5
  <2>2. got \in Seq(Byte)
    BY <1>2, <2>1, PartIs
  <2>3. Part(ToBytes(auto), off, MinOf(n, Len(ToBytes(auto)) - off)) = got
    BY <1>2, <2>1, PartClipped
  <2> QED
    BY <1>2, <2>1, <2>2, <2>3
<1> HIDE DEF got
<1>10. t1.data = got /\ ~t1.short
  <2>1. r0.data \o got = got
    BY <1>5, <1>9
  <2>2. t1.data = r0.data \o got
    BY <1>8, <1>9 DEF t1
  <2>3. ~t1.short
    BY <1>8, Zenon DEF t1
  <2> QED
    BY <2>1, <2>2, <2>3, Zenon
<1>11. t1.data \in Seq(Byte)
  BY <1>9, <1>10
<1>12. /\ Turned(o, ends, off, n, t1, 2).data =
            t1.data \o Part(Readable(o), 0, MinOf(n - Len(t1.data), Size(o) - 0))
       /\ ~Turned(o, ends, off, n, t1, 2).short
  <2>1. TurnOf(o, ends, off, t1, 2, Readable(o), 0, Size(o))
    BY <1>1, <1>6, <1>7, <1>11 DEF TurnOf
  <2>2. ~t1.short
    BY <1>10, Zenon
  <2> QED
    BY <2>1, <2>2, TurnReads, Zenon
<1>13. t1.data = got
  BY <1>10
<1> QED
  BY <1>3, <1>12, <1>13 DEF got, t2

LEMMA JoinedFollow == WInv => JoinedExact
<1> DEFINE b == ToBytes(auto)
<1> SUFFICES ASSUME WInv, NEW o \in OpenObjects \ odd, NEW size1 \in 0 .. auto.length,
                    NEW size2 \in 0 .. Size(o), NEW off \in 0 .. NewJoinedReader(size1, size2)[2],
                    NEW n \in 0 .. MaxLength + 1
             PROVE  LET ends == NewJoinedReader(size1, size2)
                        all  == b \o Part(Readable(o), 0, Size(o))
                        r    == JoinedReadAt(o, ends, off, n)
                    IN /\ ends = NewJoinedReader(auto.length, Size(o)) =>
                            r = Outcome(Part(all, off, n), n)
                       /\ off + n <= size1 => r.data = Part(b, off, n)
                       /\ off >= size1 /\ off + n <= ends[2] => r.data = Part(store, off - size1, n)
  BY DEF JoinedExact
<1> DEFINE ends == NewJoinedReader(size1, size2)
           s == Readable(o)
           l == Size(o)
           t == Part(s, 0, l)
           r == JoinedReadAt(o, ends, off, n)
<1>1. /\ s \in Seq(Byte) /\ l \in Nat /\ l <= Len(s) /\ Len(s) \in Nat
      /\ store \in Seq(Byte) /\ Whole(auto) /\ b \in Seq(Byte) /\ Len(b) = auto.length
      /\ auto.length \in Nat
  BY ReadableIs, ToBytesType, Types DEF WInv, IInv, StoreType
<1>2. /\ size1 \in Nat /\ size1 <= auto.length /\ size2 \in Nat /\ size2 <= l
      /\ ends[1] = size1 /\ ends[2] = size1 + size2 /\ ends = <<size1, size1 + size2>>
      /\ ends[1] \in Nat /\ ends[2] \in Nat
  BY <1>1 DEF NewJoinedReader
<1>3. off \in Nat /\ off <= size1 + size2 /\ n \in Nat /\ n \in Int
  BY <1>2, Parameters DEF NewJoinedReader
<1>4. ends = NewJoinedReader(auto.length, Size(o)) => size1 = auto.length /\ size2 = l
  BY <1>1, <1>2 DEF NewJoinedReader
<1>5. t \in Seq(Byte) /\ Len(t) = l /\ \A k, m \in Nat : Part(t, k, m) = Part(s, k, MinOf(m, l - k))
  <2>1. l \in Int /\ 0 \in Nat
    BY <1>1
  <2> HIDE DEF l, s
  <2>2. t \in Seq(Byte) /\ Len(t) = MaxOf(MinOf(l, Len(s) - 0), 0)
    BY <1>1, <2>1, PartIs, ZenonT(60)
  <2>3. MaxOf(MinOf(l, Len(s) - 0), 0) = l
    BY <1>1 DEF MaxOf, MinOf
  <2>4. ASSUME NEW k \in Nat, NEW m \in Nat PROVE Part(t, k, m) = Part(s, k, MinOf(m, l - k))
    <3>1. Part(t, k, m) = Part(s, 0 + k, MinOf(m, l - k))
      BY <1>1, PartOfPart
    <3>2. 0 + k = k
      OBVIOUS
    <3> QED
      BY <3>1, <3>2
  <2> QED
    BY <2>2, <2>3, <2>4
<1>6. off >= size1 => Part(store, off - size1, 0) = << >>
  BY <1>1, <1>2, <1>3, PartEmpty
<1>7. Part(b, off, 0) = << >>
  BY <1>1, <1>3, PartEmpty
<1> HIDE DEF ends, s, l, t, r, b
\* Behind the end.
<1>8. ASSUME off >= ends[2]
      PROVE  /\ size1 = auto.length /\ size2 = l => r = Outcome(Part(b \o t, off, n), n)
             /\ off + n <= size1 => r.data = Part(b, off, n)
             /\ off >= size1 /\ off + n <= ends[2] => r.data = Part(store, off - size1, n)
  <2>1. r = Outcome(<< >>, n)
    BY <1>8, JoinedTurns DEF r
  <2>2. r.data = << >>
    BY <2>1 DEF Outcome
  <2>3. size1 = auto.length /\ size2 = l => Part(b \o t, off, n) = << >>
    <3> SUFFICES ASSUME size1 = auto.length, size2 = l
                 PROVE  Part(b \o t, off, n) = << >>
      OBVIOUS
    <3>1. b \o t \in Seq(Byte) /\ Len(b \o t) = Len(b) + Len(t)
      BY <1>1, <1>5, ConcatProperties
    <3>2. off >= Len(b \o t)
      BY <1>1, <1>2, <1>5, <1>8, <3>1
    <3> QED
      BY <1>3, <3>1, <3>2, PartEmpty
  <2>4. off + n <= size1 => n = 0
    BY <1>2, <1>3, <1>8
  <2>5. off + n <= ends[2] => n = 0
    BY <1>2, <1>3, <1>8
  <2> QED
    BY <1>6, <1>7, <2>1, <2>2, <2>3, <2>4, <2>5
\* In the second part.
<1>9. ASSUME ~(off >= ends[2]), off >= size1
      PROVE  /\ size1 = auto.length /\ size2 = l => r = Outcome(Part(b \o t, off, n), n)
             /\ off + n <= size1 => r.data = Part(b, off, n)
             /\ off >= size1 /\ off + n <= ends[2] => r.data = Part(store, off - size1, n)
  <2> DEFINE pos == off - size1
             want == MinOf(n, l - pos)
  <2>1. pos \in Nat /\ pos <= l /\ off < ends[2] /\ off >= ends[1] /\ pos = off - ends[1]
    BY <1>1, <1>2, <1>3, <1>9
  <2>2. r = Outcome(Part(s, pos, want), n)
    <3>1. off - ends[1] <= Size(o)
      BY <2>1 DEF l
    <3>2. r = Outcome(Part(Readable(o), off - ends[1],
                           MinOf(n, Size(o) - (off - ends[1]))), n)
      BY <1>2, <1>3, <2>1, <3>1, FromSecond DEF r
    <3> QED
      BY <1>2, <3>2 DEF l, s
  <2>3. r.data = Part(s, pos, want)
    BY <2>2 DEF Outcome
  <2>4. size1 = auto.length /\ size2 = l => Part(b \o t, off, n) = Part(s, pos, want)
    <3> SUFFICES ASSUME size1 = auto.length
                 PROVE  Part(b \o t, off, n) = Part(s, pos, want)
      OBVIOUS
    <3>1. off >= Len(b) /\ off - Len(b) = pos
      BY <1>1, <1>9
    <3>2. Part(b \o t, off, n) = Part(t, off - Len(b), n)
      <4>1. /\ b \in Seq(Byte) /\ t \in Seq(Byte) /\ off \in Nat /\ n \in Nat
            /\ off >= Len(b)
        BY <1>1, <1>3, <1>5, <3>1
      <4> QED
        BY <4>1, PartBehind, Zenon
    <3>3. Part(t, pos, n) = Part(s, pos, want)
      BY <1>3, <1>5, <2>1
    <3> QED
      BY <3>1, <3>2, <3>3
  <2>5. off + n <= size1 => r.data = Part(b, off, n)
    <3> SUFFICES ASSUME off + n <= size1
                 PROVE  r.data = Part(b, off, n)
      OBVIOUS
    <3>1. n = 0 /\ want \in Int /\ want <= 0
      BY <1>1, <1>2, <1>3, <1>9, <2>1 DEF MinOf
    <3>2. Part(s, pos, want) = << >>
      <4> HIDE DEF want, pos
      <4> QED
        BY <1>1, <2>1, <3>1, PartEmpty
    <3> QED
      BY <1>7, <2>3, <3>1, <3>2
  <2>6. off + n <= ends[2] => r.data = Part(store, pos, n)
    <3> SUFFICES ASSUME off + n <= ends[2]
                 PROVE  r.data = Part(store, pos, n)
      OBVIOUS
    <3>1. want = n /\ pos + n <= l
      BY <1>1, <1>2, <1>3, <1>9, <2>1 DEF MinOf
    <3>2. Part(s, pos, n) = Part(store, pos, n)
      <4>1. pos + n <= Size(o)
        BY <3>1 DEF l
      <4> HIDE DEF pos
      <4> QED
        BY <1>3, <2>1, <4>1, ReadableIs DEF s
    <3> QED
      BY <2>3, <3>1, <3>2
  <2> QED
    BY <2>2, <2>4, <2>5, <2>6
\* In the first part.
<1>10. ASSUME ~(off >= ends[2]), ~(off >= size1)
       PROVE  /\ size1 = auto.length /\ size2 = l => r = Outcome(Part(b \o t, off, n), n)
              /\ off + n <= size1 => r.data = Part(b, off, n)
              /\ off >= size1 /\ off + n <= ends[2] => r.data = Part(store, off - size1, n)
  <2> DEFINE got == Part(b, off, n)
             m == n - Len(got)
             more == Part(s, 0, MinOf(m, l - 0))
  <2>1. off <= auto.length /\ off < ends[1] /\ off < ends[2]
    BY <1>1, <1>2, <1>3, <1>10
  <2>2. r = Outcome(got \o more, n)
    BY <1>2, <1>3, <2>1, FromFirst DEF r, s, l, b
  <2>3. /\ got \in Seq(Byte) /\ Len(got) \in Nat
        /\ Len(got) = MaxOf(MinOf(n, Len(b) - off), 0)
    <3>1. b \in Seq(Byte)
      BY <1>1
    <3> QED
      BY <1>3, <3>1, PartIs, ZenonT(60)
  <2> HIDE DEF got
  <2>4. m \in Nat
    BY <1>1, <1>3, <2>1, <2>3 DEF MaxOf, MinOf
  <2>5. size1 = auto.length /\ size2 = l => Part(b \o t, off, n) = got \o more
    <3>1. Part(b \o t, off, n) = got \o Part(t, 0, m)
      <4>1. /\ b \in Seq(Byte) /\ t \in Seq(Byte) /\ off \in Nat /\ n \in Nat
            /\ off <= Len(b)
        BY <1>1, <1>3, <1>5, <2>1
      <4>2. Part(b \o t, off, n) = Part(b, off, n) \o Part(t, 0, n - Len(Part(b, off, n)))
        BY <4>1, PartAcross
      <4> QED
        BY <4>2 DEF got
    <3>2. Part(t, 0, m) = more
      BY <1>5, <2>4
    <3> QED
      BY <3>1, <3>2
  <2>6. off + n <= size1 => got \o more = got
    <3> SUFFICES ASSUME off + n <= size1
                 PROVE  got \o more = got
      OBVIOUS
    <3>1. m = 0
      <4>1. Len(b) \in Nat /\ off + n <= Len(b)
        BY <1>1, <1>2, <1>3
      <4>2. MaxOf(MinOf(n, Len(b) - off), 0) = n
        BY <1>3, <4>1, FullLength
      <4> QED
        BY <1>3, <2>3, <4>2
    <3>2. MinOf(m, l - 0) <= 0 /\ MinOf(m, l - 0) \in Int
      BY <1>1, <3>1 DEF MinOf
    <3>3. more = << >>
      BY <1>1, <3>2, PartEmpty
    <3> QED
      BY <2>3, <3>3
  <2>7. r.data = got \o more
    BY <2>2 DEF Outcome
  <2> QED
    BY <1>10, <2>2, <2>5, <2>6, <2>7 DEF got
<1> QED
  BY <1>4, <1>8, <1>9, <1>10 DEF ends, t, s, l, r, b

\* A window shows its part of the source and a joined stream its parts one behind the
\* other, also when the source has grown since: with one stream that writes to the
\* store, so that no part is shorter than it says.
THEOREM WindowsAreExact == OneWriter => (Spec => []WindowExact)
<1> SUFFICES ASSUME OneWriter
             PROVE  Spec => []WindowExact
  OBVIOUS
<1>1. Init => WInv
  BY WritersInductive
<1>2. WInv /\ [Next]_vars => WInv'
  BY WritersInductive
<1>3. WInv => WindowExact
  BY WindowsFollow, JoinedFollow DEF WindowExact, WInv, IInv
<1> QED
  BY <1>1, <1>2, <1>3, PTL DEF Spec
=============================================================================
