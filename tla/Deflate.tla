------------------------------ MODULE Deflate -------------------------------
(***************************************************************************)
(* The block-compressed format of binarytable/deflate.go: Deflate writes a *)
(* file write by write, and goroutines read through one DeflateReader with *)
(* its cache. The reader may have been opened while the file was still     *)
(* being written, or on what a writer that died has left.                  *)
(*                                                                         *)
(* Distances are scaled down: an int32 or int64 is one cell, FieldsAt      *)
(* stands for DeflatePosBlockSize (100) and Reserve for                    *)
(* DeflateIndexReserve (512). The compressor is external: it turns a block *)
(* into a run of 1 .. MaxPacked cells, and only the complete run of a      *)
(* block inflates, because zlib data carries its end and a checksum.       *)
(***************************************************************************)
EXTENDS CacheOps, Integers

CONSTANTS
    Length,     \* cells of the source
    BlockSize,
    HeaderSize, \* cells at the front that belong to the caller
    FieldsAt,   \* position of the five header fields
    Reserve,    \* gap between the caller's cells and the index
    MaxPacked,  \* longest compressed block
    Capacity,   \* of the cache
    Client,     \* goroutines that read
    None

ASSUME DeflateAssumption ==
    /\ Length \in Nat /\ BlockSize \in Nat \ {0} /\ HeaderSize \in Nat
    /\ FieldsAt \in Nat /\ Reserve \in Nat /\ FieldsAt + 5 <= Reserve
    /\ MaxPacked \in Nat \ {0} /\ Capacity \in Int

VARIABLES
    out,     \* the file, as the sequence of its cells
    writer,  \* Deflate: where it is, the field or block it is at, the start of the
             \* data of that block and of the next
    rdr,     \* the DeflateReader: None, or the size its source had when it was
             \* opened; history: whether the file was finished then
    cache,   \* its cache
    read     \* the ReadAt that each client runs

vars == <<out, writer, rdr, cache, read>>

\* Cells of the file.
Hole == [is |-> "hole"]
IntCell(n) == [is |-> "int", n |-> n]
Caller == [is |-> "caller"]
Piece(i, part, of) == [is |-> "piece", block |-> i, part |-> part, of |-> of]

\* Source cells are told apart by their position; block i begins at i * BlockSize.
Source == [p \in 1 .. Length |-> p]
MinOf(a, b) == IF a < b THEN a ELSE b
BlockData(i) == SubSeq(Source, i * BlockSize + 1, MinOf(Length, (i + 1) * BlockSize))

MaxBlocks == Length \div BlockSize + 1

\* As computed; the difference never arises, because maxBlocks is rounded up.
UsedBlocks == IF MaxBlocks * BlockSize = Length THEN MaxBlocks - 1 ELSE MaxBlocks

IndexStart == HeaderSize + Reserve
BlockStart == IndexStart + 2 * MaxBlocks

Fields == <<BlockSize, HeaderSize, MaxBlocks, UsedBlocks, Length>>

\* WriteAt of cells at position at; a gap before it is a hole.
Written(file, at, cells) ==
    [p \in 1 .. (IF at + Len(cells) > Len(file) THEN at + Len(cells) ELSE Len(file)) |->
        CASE p \in at + 1 .. at + Len(cells) -> cells[p - at]
          [] p \notin at + 1 .. at + Len(cells) /\ p <= Len(file) -> file[p]
          [] OTHER -> Hole]

Region(file, start, end) == SubSeq(file, start + 1, end)

\* DecodeInt64: a hole reads as zero. Data in place of a number cannot occur where
\* the model reads numbers.
Number(cell) == IF cell.is = "int" THEN cell.n ELSE 0

Steps == {"fields", "data", "start", "end", "done", "dead"}
Places == {"idle", "get", "fetch", "put", "ok", "error"}

TypeOK ==
    /\ out \in Seq({Hole, Caller} \cup [is : {"int"}, n : Nat]
                   \cup [is : {"piece"}, block : 0 .. MaxBlocks - 1,
                         part : 1 .. MaxPacked, of : 1 .. MaxPacked])
    /\ writer \in [at : Steps, i : Nat, pos : Nat, next : Nat]
    /\ rdr \in [size : Nat, finished : BOOLEAN] \cup {None}
    /\ cache \in Seq([key : 0 .. MaxBlocks - 1, value : Seq(1 .. Length)])
    /\ read \in [Client -> [at : Places, off : 0 .. Length, want : 0 .. Length,
                            got : Seq(1 .. Length), block : Seq(1 .. Length)]]

NoRead == [at |-> "idle", off |-> 0, want |-> 0, got |-> << >>, block |-> << >>]

\* The caller may have put its own header there before.
Init ==
    /\ out \in {<< >>, [p \in 1 .. HeaderSize |-> Caller]}
    /\ writer = [at |-> "fields", i |-> 0, pos |-> BlockStart, next |-> BlockStart]
    /\ rdr = None
    /\ cache = << >>
    /\ read = [c \in Client |-> NoRead]

-----------------------------------------------------------------------------
(* Deflate                                                                 *)

\* Mutant: the fields begin one cell early.
WriteField_Shifted ==
    /\ writer.at = "fields"
    /\ out' = Written(out, FieldsAt + writer.i - 1, <<IntCell(Fields[writer.i + 1])>>)
    /\ writer' = IF writer.i + 1 < Len(Fields)
                 THEN [writer EXCEPT !.i = @ + 1]
                 ELSE [writer EXCEPT !.i = 0, !.at = "data"]
    /\ UNCHANGED <<rdr, cache, read>>

\* One header field after the other; i counts them.
WriteField ==
    /\ writer.at = "fields"
    /\ out' = Written(out, FieldsAt + writer.i, <<IntCell(Fields[writer.i + 1])>>)
    /\ writer' = IF writer.i + 1 < Len(Fields)
                 THEN [writer EXCEPT !.i = @ + 1]
                 ELSE [writer EXCEPT !.i = 0, !.at = "data"]
    /\ UNCHANGED <<rdr, cache, read>>

\* The compressed block goes behind the one before.
WriteData ==
    /\ writer.at = "data"
    /\ \E n \in 1 .. MaxPacked :
           /\ out' = Written(out, writer.next, [k \in 1 .. n |-> Piece(writer.i, k, n)])
           /\ writer' = [writer EXCEPT !.at = "start", !.pos = writer.next, !.next = @ + n]
    /\ UNCHANGED <<rdr, cache, read>>

WriteStart ==
    /\ writer.at = "start"
    /\ out' = Written(out, IndexStart + 2 * writer.i, <<IntCell(writer.pos - BlockStart)>>)
    /\ writer' = [writer EXCEPT !.at = "end"]
    /\ UNCHANGED <<rdr, cache, read>>

\* Mutant: the entry holds the length of the block instead of its end.
WriteEnd_Length ==
    /\ writer.at = "end"
    /\ out' = Written(out, IndexStart + 2 * writer.i + 1, <<IntCell(writer.next - writer.pos)>>)
    /\ writer' = [writer EXCEPT !.i = @ + 1,
                                !.at = IF writer.i + 1 = UsedBlocks THEN "done" ELSE "data"]
    /\ UNCHANGED <<rdr, cache, read>>

WriteEnd ==
    /\ writer.at = "end"
    /\ out' = Written(out, IndexStart + 2 * writer.i + 1, <<IntCell(writer.next - BlockStart)>>)
    /\ writer' = [writer EXCEPT !.i = @ + 1,
                                !.at = IF writer.i + 1 = UsedBlocks THEN "done" ELSE "data"]
    /\ UNCHANGED <<rdr, cache, read>>

\* The process dies, or a write fails, and the file stays as it is: the command
\* line tool does not remove it.
Die ==
    /\ writer.at \notin {"done", "dead"}
    /\ writer' = [writer EXCEPT !.at = "dead"]
    /\ UNCHANGED <<out, rdr, cache, read>>

-----------------------------------------------------------------------------
(* DeflateReader                                                           *)

\* NewDeflateReader: the header must be complete and the block area begin inside
\* the source, whose size is known from when it was opened.
Open ==
    /\ rdr = None
    /\ Len(out) >= FieldsAt + 5
    /\ \A f \in 1 .. 5 : out[FieldsAt + f] = IntCell(Fields[f])
    /\ BlockStart <= Len(out)
    /\ rdr' = [size |-> Len(out), finished |-> writer.at = "done"]
    /\ UNCHANGED <<out, writer, cache, read>>

\* ReadAt(p, off) with len(p) = n; at or behind the end it is io.EOF at once.
Start(c) ==
    /\ read[c].at = "idle" /\ rdr # None
    /\ \E off \in 0 .. Length - 1, n \in 1 .. Length :
           read' = [read EXCEPT ![c] = [NoRead EXCEPT !.at = "get", !.off = off,
                                        !.want = MinOf(n, Length - off)]]
    /\ UNCHANGED <<out, writer, rdr, cache>>

\* The block that holds the next cell of a ReadAt.
BlockOf(r) == (r.off + Len(r.got)) \div BlockSize

\* Mutant: the copy starts at the front of the block.
Copied_FromFront(r, data) ==
    LET n == MinOf(r.want - Len(r.got), Len(data)) IN
    IF n <= 0 THEN [r EXCEPT !.at = "error"]
    ELSE [r EXCEPT !.got = @ \o SubSeq(data, 1, n), !.block = << >>,
                   !.at = IF Len(r.got) + n = r.want THEN "ok" ELSE "get"]

\* copy(p[total:want], block.data[local:]), and back to the loop's test.
Copied(r, data) ==
    LET local == (r.off + Len(r.got)) - BlockOf(r) * BlockSize
        n == MinOf(r.want - Len(r.got), Len(data) - local) IN
    IF n <= 0 THEN [r EXCEPT !.at = "error"]
    ELSE [r EXCEPT !.got = @ \o SubSeq(data, local + 1, local + n), !.block = << >>,
                   !.at = IF Len(r.got) + n = r.want THEN "ok" ELSE "get"]

\* cache.Get of the block.
GetBlock(c) ==
    LET i == BlockOf(read[c]) IN
    /\ read[c].at = "get"
    /\ cache' = AfterGet(cache, i)
    /\ read' = [read EXCEPT ![c] =
           CASE i >= UsedBlocks    -> [@ EXCEPT !.at = "error"]
             [] i < UsedBlocks /\ i \in Keys(cache) -> Copied(@, Head(cache').value)
             [] OTHER              -> [@ EXCEPT !.at = "fetch"]]
    /\ UNCHANGED <<out, writer, rdr>>

\* The uncompressed data of a run of cells, or None.
Inflate(cells) ==
    IF /\ cells # << >> /\ \A k \in DOMAIN cells : cells[k].is = "piece"
       /\ \A k \in DOMAIN cells : cells[k] = Piece(cells[1].block, k, Len(cells))
    THEN <<BlockData(cells[1].block)>>
    ELSE << >>

\* Reading the index entry and the data of block i: << >> when that is an error.
Fetched(i) ==
    LET at == IndexStart + 2 * i
        start == IF at + 1 <= Len(out) THEN BlockStart + Number(out[at + 1]) ELSE BlockStart
        end == IF at + 2 <= Len(out) THEN BlockStart + Number(out[at + 2]) ELSE BlockStart
        data == Inflate(Region(out, start, end)) IN
    IF /\ start <= end /\ end <= rdr.size /\ data # << >>
       /\ Len(data[1]) = MinOf(BlockSize, Length - i * BlockSize)
    THEN data ELSE << >>

\* Mutant: a block that cannot be read is tried again.
FetchBlock_Retries(c) ==
    LET data == Fetched(BlockOf(read[c])) IN
    /\ read[c].at = "fetch"
    /\ read' = [read EXCEPT ![c] = IF data = << >> THEN [@ EXCEPT !.at = "get"]
                                   ELSE [@ EXCEPT !.at = "put", !.block = data[1]]]
    /\ UNCHANGED <<out, writer, rdr, cache>>

FetchBlock(c) ==
    LET data == Fetched(BlockOf(read[c])) IN
    /\ read[c].at = "fetch"
    /\ read' = [read EXCEPT ![c] = IF data = << >> THEN [@ EXCEPT !.at = "error"]
                                   ELSE [@ EXCEPT !.at = "put", !.block = data[1]]]
    /\ UNCHANGED <<out, writer, rdr, cache>>

\* cache.Put: another client may have put the block meanwhile.
PutBlock(c) ==
    /\ read[c].at = "put"
    /\ cache' = AfterPut(cache, BlockOf(read[c]), read[c].block, Capacity)
    /\ read' = [read EXCEPT ![c] = Copied(@, read[c].block)]
    /\ UNCHANGED <<out, writer, rdr>>

Return(c) ==
    /\ read[c].at \in {"ok", "error"}
    /\ read' = [read EXCEPT ![c] = NoRead]
    /\ UNCHANGED <<out, writer, rdr, cache>>

Write == WriteField \/ WriteData \/ WriteStart \/ WriteEnd
Reading(c) == GetBlock(c) \/ FetchBlock(c) \/ PutBlock(c) \/ Return(c)

Next ==
    \/ Write \/ Die \/ Open
    \/ \E c \in Client : Start(c) \/ Reading(c)

Spec == Init /\ [][Next]_vars

-----------------------------------------------------------------------------
(* Properties                                                              *)

\* What a ReadAt returns without an error is what the source holds there, also
\* when the file is still being written or was never finished.
ReadsExact ==
    \A c \in Client : LET r == read[c] IN
        r.at = "ok" => r.got = SubSeq(Source, r.off + 1, r.off + r.want)

\* A cached block is the block of the source it stands for, has one entry, and the
\* cache keeps its bound, although clients look up and put in separate steps.
CacheCoherent ==
    /\ \A e \in DOMAIN cache : cache[e].value = BlockData(cache[e].key)
    /\ \A e, f \in DOMAIN cache : cache[e].key = cache[f].key => e = f
    /\ Len(cache) <= IF Capacity > 0 THEN Capacity ELSE 0

\* A reader opened on a finished file finds every block.
FinishedReadable ==
    rdr # None /\ rdr.finished => \A c \in Client : read[c].at # "error"

Kept(p) == p <= Len(out) /\ out[p] = Caller => out'[p] = Caller

\* "Bytes [0,headerSize) are left untouched for caller data", as the comment of Deflate
\* says (deflate.go:39). It is true only of a header that ends before the fields, whose
\* places are fixed; with the longer one of the run the first write refutes it.
HeaderUntouched == [][\A p \in 1 .. HeaderSize : Kept(p)]_vars

\* What of the caller's header is left alone, however long it is: all that is not at the
\* place of a field. No block and no entry of the index is written into it.
CallerCells == 1 .. HeaderSize \ (FieldsAt + 1 .. FieldsAt + 5)
CallerCellsKept == [][\A p \in CallerCells : Kept(p)]_vars

\* What is left of a ReadAt: the cells it still has to copy, then the steps to the
\* next of them.
Remaining(r) ==
    IF r.at \in {"ok", "error"} THEN 0
    ELSE 4 * (r.want - Len(r.got))
         + (CASE r.at = "get" -> 3 [] r.at = "fetch" -> 2 [] r.at = "put" -> 1)

\* The loop of ReadAt ends: every step brings it nearer to its return, whatever
\* the file holds and whatever the other clients do to the cache.
ReadsAdvance ==
    [][\A c \in Client : read[c].at # "idle" /\ read'[c] # read[c] =>
           \/ read[c].at \in {"ok", "error"}
           \/ Remaining(read'[c]) < Remaining(read[c])]_vars
=============================================================================
