------------------------------ MODULE Streams -------------------------------
(***************************************************************************)
(* The streams every other part stands on (binarytable/stream.go, file.go, *)
(* bytearray.go, subreader.go, ioadapter.go), and a copy from one to       *)
(* another while other goroutines use both.                                *)
(*                                                                         *)
(* The source of the copy is an AutoSizeStream, which keeps its bytes in   *)
(* blocks. Its target is a store behind objects that remember a size: a    *)
(* file behind FileStreams, several of which can be open, or an array      *)
(* behind a ByteArrayStream, whose size is the array's ("fixed") or what   *)
(* was written of it ("array"). Every method is one step, as it runs under    *)
(* the lock of its object; a copy is a step per call. Negative offsets and *)
(* ends beyond 2^63 are refused without effect and left out.               *)
(***************************************************************************)
EXTENDS Integers, Sequences

CONSTANTS
    Byte,       \* values of a byte, with 0
    BlockSize,  \* of the AutoSizeStream
    ChunkSize,  \* of a copy: 32 * 1024 in the code
    Object,     \* streams over the store
    Writer,     \* those opened for reading and writing
    Capacity,   \* length of the array
    Sizes,      \* of a CopyAt
    Faults,     \* "write" if writes to a file may fail
    MaxLength,  \* bound: nothing is written beyond this offset
    Closed      \* no stream

ASSUME StreamsAssumption ==
    /\ 0 \in Byte
    /\ BlockSize \in Nat \ {0} /\ ChunkSize \in Nat \ {0}
    /\ Sizes \subseteq 0 .. MaxLength
    /\ Writer \subseteq Object /\ Writer # {}
    /\ Capacity \in 0 .. MaxLength /\ MaxLength \in Nat
    /\ Faults \subseteq {"write"}
    /\ Closed \notin Nat

VARIABLES
    auto,   \* the AutoSizeStream: its blocks and its length
    kind,   \* the store: "file", "array" or "fixed"
    store,  \* its bytes
    known,  \* the size each stream over the store remembers, or Closed
    odd,    \* history: streams a write failed on, behind the end of the file and
            \* before its first byte
    copy    \* the copy under way, or the last one

vars == <<auto, kind, store, known, odd, copy>>

Zero == 0
MinOf(a, b) == IF a < b THEN a ELSE b
MaxOf(a, b) == IF a < b THEN b ELSE a
Zeros(n) == [p \in 1 .. MaxOf(n, 0) |-> Zero]
Part(s, off, n) == SubSeq(s, off + 1, MinOf(off + n, Len(s)))
\* What is written: one byte, or the same byte twice.
Data == {[p \in 1 .. n |-> b] : n \in {1, 2}, b \in Byte}
Positions == 0 .. MaxLength
OpenObjects == {o \in Object : known[o] # Closed}

\* The outcome of a ReadAt of n bytes: what was read, and io.EOF if it is less.
Outcome(data, n) == [data |-> data, eof |-> Len(data) < n]

-----------------------------------------------------------------------------
(* AutoSizeStream                                                          *)

BlocksFor(n) == IF n = 0 THEN 0 ELSE ((n - 1) \div BlockSize) + 1

\* Blocks are appended until byte n has one.
Extended(blocks, n) ==
    blocks \o [i \in 1 .. MaxOf(BlocksFor(n) - Len(blocks), 0) |-> Zeros(BlockSize)]

\* ReadAt, block by block, up to the length.
AutoReadAt(a, off, n) ==
    Outcome([k \in 1 .. MaxOf(MinOf(n, a.length - off), 0) |->
               a.blocks[((off + k - 1) \div BlockSize) + 1][((off + k - 1) % BlockSize) + 1]], n)

\* ToBytes: the blocks one behind the other, cut at the length.
ToBytes(a) ==
    [p \in 1 .. a.length |->
        LET c == CHOOSE c \in (DOMAIN a.blocks) \X (1 .. BlockSize) : (c[1] - 1) * BlockSize + c[2] = p
        IN a.blocks[c[1]][c[2]]]

\* Mutant: the blocks touched are written whole.
AutoWritten_WholeBlocks(a, at, d) ==
    LET blocks == Extended(a.blocks, at + Len(d)) IN
    [blocks |-> [i \in DOMAIN blocks |-> [j \in 1 .. BlockSize |->
        LET p == (i - 1) * BlockSize + j - at IN
        IF p \in DOMAIN d THEN d[p]
        ELSE IF i - 1 = at \div BlockSize THEN Zero ELSE blocks[i][j]]],
     length |-> MaxOf(a.length, at + Len(d))]

\* The stream after a WriteAt of something.
AutoWritten(a, at, d) ==
    LET blocks == Extended(a.blocks, at + Len(d)) IN
    [blocks |-> [i \in DOMAIN blocks |-> [j \in 1 .. BlockSize |->
        LET p == (i - 1) * BlockSize + j - at IN
        IF p \in DOMAIN d THEN d[p] ELSE blocks[i][j]]],
     length |-> MaxOf(a.length, at + Len(d))]

\* The stream after Grow.
AutoGrown(a, n) == [blocks |-> Extended(a.blocks, n), length |-> MaxOf(a.length, n)]

-----------------------------------------------------------------------------
(* FileStream and ByteArrayStream                                          *)

Size(o) == IF kind = "fixed" THEN Capacity ELSE known[o]

\* What the store has for a reading stream: a file all its bytes, an array those up
\* to its size.
Readable(o) == IF kind = "file" THEN store ELSE Part(store, 0, Size(o))

StoreReadAt(o, off, n) == Outcome(Part(Readable(o), off, n), n)

\* The bytes s with d at offset at.
Over(s, at, d) ==
    LET long == s \o Zeros(at + Len(d) - Len(s)) IN
    IF d = << >> THEN s
    ELSE [p \in DOMAIN long |-> IF p - at \in DOMAIN d THEN d[p - at] ELSE long[p]]

\* Mutant: the size is that of a write that succeeds.
SizeAfter_Whole(o, at, k, d) == MaxOf(known[o], at + Len(d))

\* What stream o remembers after a WriteAt of which k bytes got through.
SizeAfter(o, at, k, d) == MaxOf(known[o], at + k)

\* How many bytes of d the store takes, and what it is all called.
Accepted(at, d) ==
    IF kind # "file" THEN {MinOf(Len(d), Capacity - at)}
    ELSE {Len(d)} \cup (IF "write" \in Faults THEN 0 .. Len(d) - 1 ELSE {})

\* A WriteAt that an array does not refuse outright.
Takes(at) == kind # "file" => at <= Capacity

\* k bytes of d get through.
Put(o, at, d, k) ==
    /\ store' = Over(store, at, SubSeq(d, 1, k))
    /\ known' = [known EXCEPT ![o] = SizeAfter(o, at, k, d)]
    /\ odd' = IF kind = "file" /\ k = 0 /\ at > known[o] THEN odd \cup {o} ELSE odd

-----------------------------------------------------------------------------
(* Views of streams                                                        *)

\* A SubReader is a start and a length. Its ends may lie behind that of the source.
NewSubReader(start, end) == [start |-> start, length |-> end - start]

Nested(w, start, end) == [start |-> w.start + start, length |-> end - start]

\* Mutant: the window does not bound the read.
SubReadAt_Unbounded(a, w, off, n) ==
    IF off >= w.length THEN Outcome(<< >>, n) ELSE AutoReadAt(a, w.start + off, n)

\* ReadAt of a SubReader on an AutoSizeStream.
SubReadAt(a, w, off, n) ==
    IF off >= w.length THEN Outcome(<< >>, n)
    ELSE Outcome(AutoReadAt(a, w.start + off, MinOf(n, w.length - off)).data, n)

\* The AutoSizeStream and stream o joined: the ends are computed when they are.
NewJoinedReader(size1, size2) == <<size1, size1 + size2>>

PartSize(o, i) == IF i = 1 THEN auto.length ELSE Size(o)
PartReadAt(o, i, off, n) == IF i = 1 THEN AutoReadAt(auto, off, n) ELSE StoreReadAt(o, off, n)

FirstPart(ends, off) == IF off >= ends[1] THEN 2 ELSE 1

\* ReadAt: the rest of the part that holds off, then the parts behind it from their
\* start, each as long as it is now, until one gives less than was asked of it.
JoinedReadAt(o, ends, off, n) ==
    LET first == FirstPart(ends, off)
        Turn(r, i) ==
            LET pos  == IF i > first THEN 0 ELSE IF i = 1 THEN off ELSE off - ends[1]
                want == MinOf(n - Len(r.data), PartSize(o, i) - pos)
                got  == PartReadAt(o, i, pos, want).data
            IN IF i < first \/ r.short \/ want <= 0 THEN r
               ELSE [data |-> r.data \o got, short |-> Len(got) < want]
    IN IF off >= ends[2] THEN Outcome(<< >>, n)
       ELSE Outcome(Turn(Turn([data |-> << >>, short |-> FALSE], 1), 2).data, n)

-----------------------------------------------------------------------------
NoCopy == [is |-> "none", how |-> "CopyAt", by |-> Closed, from |-> 0, to |-> 0,
           size |-> 0, moved |-> 0, buf |-> << >>, last |-> FALSE, torn |-> FALSE]

TypeOK ==
    /\ auto \in [blocks : Seq([1 .. BlockSize -> Byte]), length : Nat]
    /\ Len(auto.blocks) = BlocksFor(auto.length)
    /\ kind \in {"file", "array", "fixed"}
    /\ store \in Seq(Byte)
    /\ kind # "file" => Len(store) = Capacity
    /\ known \in [Object -> Nat \cup {Closed}]
    /\ odd \subseteq OpenObjects
    /\ copy \in [is : {"none", "read", "write", "done", "failed"}, how : {"CopyAt", "io.Copy"},
                by : Object \cup {Closed}, from : Nat, to : Nat, size : Nat, moved : Nat,
                buf : Seq(Byte), last : BOOLEAN, torn : BOOLEAN]
    /\ copy.is \in {"read", "write"} => copy.by \in OpenObjects
    /\ Len(copy.buf) <= ChunkSize /\ (copy.buf # << >> => copy.is = "write")

\* An empty AutoSizeStream; no file yet opened, or an array with its stream.
Init ==
    /\ auto = [blocks |-> << >>, length |-> 0]
    /\ \/ kind = "file" /\ store = << >> /\ known = [o \in Object |-> Closed]
       \/ /\ kind \in {"array", "fixed"} /\ store = Zeros(Capacity)
          /\ \E w \in Writer : known = [o \in Object |-> IF o = w THEN 0 ELSE Closed]
    /\ odd = {}
    /\ copy = NoCopy

Copying == copy.is \in {"read", "write"}

\* What becomes of copy, which has dealt with n bytes from offset lo on, when another
\* goroutine writes d there at offset at. A copy that is over is forgotten then.
Disturbed(at, d, lo, n) ==
    IF ~(at < lo + n /\ at + Len(d) > lo) THEN copy
    ELSE IF Copying THEN [copy EXCEPT !.torn = TRUE] ELSE NoCopy

-----------------------------------------------------------------------------
(* The streams in use                                                      *)

AutoWrite(at, d) ==
    /\ auto' = AutoWritten(auto, at, d)
    /\ copy' = Disturbed(at, d, copy.from, copy.moved + Len(copy.buf))
    /\ UNCHANGED <<kind, store, known, odd>>

AutoGrow(n) ==
    /\ auto' = AutoGrown(auto, n)
    /\ UNCHANGED <<kind, store, known, odd, copy>>

\* OpenFileStream, OpenOrCreateFileStream
Open(o) ==
    /\ kind = "file" /\ known[o] = Closed
    /\ known' = [known EXCEPT ![o] = Len(store)]
    /\ UNCHANGED <<auto, kind, store, odd, copy>>

\* CreateFileStream; no other stream is open on the file.
Create(w, n) ==
    /\ kind = "file" /\ OpenObjects = {}
    /\ store' = Zeros(n)
    /\ known' = [known EXCEPT ![w] = n]
    /\ copy' = NoCopy
    /\ UNCHANGED <<auto, kind, odd>>

\* A stream is not closed by its user in the middle of a copy to it.
Close(o) ==
    /\ kind = "file" /\ known[o] # Closed
    /\ ~(Copying /\ copy.by = o)
    /\ known' = [known EXCEPT ![o] = Closed]
    /\ odd' = odd \ {o}
    /\ UNCHANGED <<auto, kind, store, copy>>

\* WriteAt; streams opened for reading refuse it.
StoreWrite(w, at, d) ==
    /\ known[w] # Closed /\ Takes(at)
    /\ \E k \in Accepted(at, d) :
         /\ Put(w, at, d, k)
         /\ copy' = Disturbed(at, SubSeq(d, 1, k), copy.to, copy.moved)
    /\ UNCHANGED <<auto, kind>>

\* Grow truncates the file to a size above the one remembered; an array has its
\* bytes already and refuses more. A Truncate that fails changes nothing.
StoreGrow(w, n) ==
    /\ known[w] # Closed /\ n > known[w]
    /\ IF kind = "file" THEN store' = Part(store \o Zeros(n - Len(store)), 0, n)
                        ELSE n <= Capacity /\ store' = store
    /\ known' = [known EXCEPT ![w] = n]
    /\ UNCHANGED <<auto, kind, odd, copy>>

-----------------------------------------------------------------------------
(* Copies: CopyAt, and io.Copy between NewIOReader and NewIOWriter         *)

CopyBegin(w, how, from, to, n) ==
    /\ ~Copying /\ known[w] # Closed
    /\ copy' = [NoCopy EXCEPT !.is = "read", !.how = how, !.by = w, !.from = from,
                              !.to = to, !.size = n]
    /\ UNCHANGED <<auto, kind, store, known, odd>>

CopyEnds(how) == copy' = [copy EXCEPT !.is = how, !.buf = << >>]

\* ReadAtFull of the next chunk: all of it or an error.
CopyRead ==
    /\ copy.is = "read" /\ copy.how = "CopyAt"
    /\ LET chunk == MinOf(ChunkSize, copy.size - copy.moved)
           r     == AutoReadAt(auto, copy.from + copy.moved, chunk)
       IN IF chunk = 0 THEN CopyEnds("done")
          ELSE IF r.eof THEN CopyEnds("failed")
          ELSE copy' = [copy EXCEPT !.is = "write", !.buf = r.data]
    /\ UNCHANGED <<auto, kind, store, known, odd>>

\* ioReader.Read, and io.Copy's test of what it returns: bytes that come with an
\* io.EOF are the last.
PumpRead ==
    /\ copy.is = "read" /\ copy.how = "io.Copy"
    /\ LET r == AutoReadAt(auto, copy.from + copy.moved, ChunkSize)
       IN IF copy.last \/ r.data = << >> THEN CopyEnds("done")
          ELSE copy' = [copy EXCEPT !.is = "write", !.buf = r.data, !.last = r.eof]
    /\ UNCHANGED <<auto, kind, store, known, odd>>

\* Mutant: the offset in the target is not moved.
Target_Fixed == copy.to
Target == copy.to + copy.moved

\* WriteAtFull and ioWriter.Write: fewer bytes than asked for come with an error.
CopyWrite ==
    /\ copy.is = "write"
    /\ IF Takes(Target)
       THEN \E k \in Accepted(Target, copy.buf) :
              /\ Put(copy.by, Target, copy.buf, k)
              /\ copy' = [copy EXCEPT !.is = IF k = Len(copy.buf) THEN "read" ELSE "failed",
                                      !.moved = @ + k, !.buf = << >>]
       ELSE CopyEnds("failed") /\ UNCHANGED <<store, known, odd>>
    /\ UNCHANGED <<auto, kind>>

-----------------------------------------------------------------------------
Next ==
    \/ \E at \in Positions, d \in Data : at + Len(d) <= MaxLength /\
         \/ AutoWrite(at, d)
         \/ \E w \in Writer : StoreWrite(w, at, d)
    \/ \E n \in Positions : AutoGrow(n) \/ \E w \in Writer : Create(w, n) \/ StoreGrow(w, n)
    \/ \E o \in Object : Open(o) \/ Close(o)
    \/ \E w \in Writer, to \in {0, 1} :
         \/ \E n \in Sizes : CopyBegin(w, "CopyAt", 1, to, n)
         \/ CopyBegin(w, "io.Copy", 0, to, 0)
    \/ CopyRead \/ PumpRead
    \/ CopyWrite

Spec == Init /\ [][Next]_vars

-----------------------------------------------------------------------------
(* Properties                                                              *)

BS == INSTANCE ByteSequence WITH bytes <- ToBytes(auto)

\* The blocks of an AutoSizeStream are one growing sequence of bytes: whatever is
\* written or grown in whatever order, a byte changes by a write to it only, and
\* bytes between the writes are zero.
RefinesBytes == BS!Spec

\* A window, and a window in it, show their part of the source as it is now and
\* nothing else, also when they were made before the source grew to its length:
\* ReadAt gives what ToBytes has there, and io.EOF when that is less than asked for.
\* (Windows do not depend on copies, so states without one tell everything.)
SubReadersExact == copy = NoCopy =>
    \A start \in Positions : \A end \in start .. MaxLength :
        LET w == NewSubReader(start, end)
            shown == Part(Part(ToBytes(auto), 0, end), start, w.length)
        IN \A off, n \in Positions :
             /\ SubReadAt(auto, w, off, n) = Outcome(Part(shown, off, n), n)
             /\ off + n <= w.length =>
                  LET v == Nested(w, off, off + n) IN
                  \A i \in 0 .. n : SubReadAt(auto, v, i, n) = Outcome(Part(Part(shown, off, n), i, n), n)

\* A JoinedReader reads the concatenation of its parts as long as none has grown
\* since they were joined, and later still gives the right bytes to every read that
\* stays inside one of them.
JoinedExact == copy = NoCopy =>
    \A o \in OpenObjects \ odd : \A size1 \in 0 .. auto.length, size2 \in 0 .. Size(o) :
        LET ends == NewJoinedReader(size1, size2)
            all  == ToBytes(auto) \o Part(Readable(o), 0, Size(o))
        IN \A off \in 0 .. ends[2] : \A n \in 0 .. MaxLength + 1 :
             LET r == JoinedReadAt(o, ends, off, n) IN
             /\ ends = NewJoinedReader(auto.length, Size(o)) => r = Outcome(Part(all, off, n), n)
             /\ off + n <= size1 => r.data = Part(ToBytes(auto), off, n)
             /\ off >= size1 /\ off + n <= ends[2] => r.data = Part(store, off - size1, n)

\* Both kinds of views show what they are views of.
WindowExact == SubReadersExact /\ JoinedExact

\* The size a stream remembers is that of its store if it alone writes there, and
\* never more than that, so that reading a stream up to its size succeeds; failed
\* writes are counted byte by byte. Excepted is a write that fails behind the end
\* without writing anything.
SizeExact ==
    \A o \in OpenObjects \ odd :
        /\ known[o] <= Len(store)
        /\ kind = "file" /\ o \in Writer => known[o] = Len(store)
        /\ kind # "file" => \A p \in known[o] + 1 .. Capacity : store[p] = Zero

\* What a copy has moved, finished or failed, is in the target as it is in the
\* source, unless someone wrote to the part that was already read or written; a
\* copy that finished has moved all it was to move.
CopyExact ==
    /\ ~copy.torn /\ copy.moved > 0 =>
         /\ copy.from + copy.moved <= auto.length
         /\ copy.to + copy.moved <= Len(store)
         /\ Part(store, copy.to, copy.moved) =
              Part(ToBytes(auto), copy.from, copy.moved)
    /\ copy.is = "done" /\ copy.how = "CopyAt" => copy.moved = copy.size

=============================================================================
