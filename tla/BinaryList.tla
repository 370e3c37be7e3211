----------------------------- MODULE BinaryList -----------------------------
(***************************************************************************)
(* The append-only blob list of binarytable/binarylist.go on one stream.   *)
(*                                                                         *)
(*    [ count | reserved | index: one offset per slot | payload ... ]      *)
(*    0       4          SchemaSize                   DataStart            *)
(*                                                                         *)
(* Every method runs under l.mu, so at most one of them is under way; its  *)
(* program counter is pc and pc = "idle" means that l.mu is free. The      *)
(* stream writes it performs are separate steps, because each of them can  *)
(* fail, because the process can die between any two, and because readers  *)
(* returned by Reader read the stream without l.mu.                        *)
(*                                                                         *)
(* Bytes are abstract values; offsets are those of the file. The two       *)
(* integer fields of the layout (count and slot) are written whole.        *)
(***************************************************************************)
EXTENDS Integers, Sequences

CONSTANTS
    Byte,        \* payload bytes
    Blobs,       \* the blobs callers add
    MaxSize,     \* maxSize, the capacity the list is opened with
    SchemaSize,  \* DefaultBinaryListSchemaSize, 100 in the code
    MaxOffset,   \* math.MaxInt32
    Readers,     \* goroutines that hold a SubReader
    NoBlob       \* no blob acknowledged

EntrySize == 4
DataStart == SchemaSize + EntrySize * MaxSize

Slots == 0 .. MaxSize - 1

\* NewBinaryList refuses a capacity whose index would not fit 32-bit offsets.
ASSUME ListAssumption ==
    /\ MaxSize \in Nat \ {0}
    /\ SchemaSize \in Nat /\ SchemaSize >= EntrySize
    /\ MaxOffset \in Nat /\ DataStart <= MaxOffset
    /\ Blobs \subseteq Seq(Byte)
    /\ NoBlob \notin Blobs

VARIABLES
    \* the file
    size,      \* stream.Size()
    count,     \* the integer at offset 0
    index,     \* the index slots
    payload,   \* the bytes from DataStart on
    \* the BinaryList
    realSize,  \* l.realSize, Closed when no process has the list open
    pc,        \* where the holder of l.mu is
    blob,      \* the blob being added
    start,     \* where its payload starts
    \* the callers
    views,     \* the SubReader each reader holds
    acked      \* history: what the successful Add of each index stored

file == <<size, count, index, payload>>
vars == <<size, count, index, payload, realSize, pc, blob, start, views, acked>>

Closed == -1
NoView == [slot |-> -1, lo |-> 0, hi |-> 0]
View   == [slot : Slots, lo : Nat, hi : Nat]

Steps == {"idle", "reserve", "copy", "grow", "index", "count"}

TypeOK ==
    /\ size \in Nat
    /\ count \in 0 .. MaxSize
    /\ index \in [Slots -> Nat]
    /\ payload \in Seq(Byte)
    /\ realSize \in {Closed} \cup 0 .. MaxSize
    /\ pc \in Steps
    /\ blob \in Blobs \cup {NoBlob}
    /\ start \in Nat
    /\ views \in [Readers -> View \cup {NoView}]
    /\ acked \in [Slots -> Blobs \cup {NoBlob}]

\* A file just created by OpenOrCreate, opened by no one.
Init ==
    /\ size = 0
    /\ count = 0
    /\ index = [s \in Slots |-> 0]
    /\ payload = << >>
    /\ realSize = Closed
    /\ pc = "idle"
    /\ blob = NoBlob
    /\ start = 0
    /\ views = [r \in Readers |-> NoView]
    /\ acked = [s \in Slots |-> NoBlob]

Open == realSize # Closed
Free == Open /\ pc = "idle"

-----------------------------------------------------------------------------
(* Opening                                                                 *)

\* Mutant: the count of an existing file is not read.
NewBinaryList_IgnoresCount ==
    /\ ~Open
    /\ realSize' = 0
    /\ UNCHANGED <<file, pc, blob, start, views, acked>>

\* NewBinaryList: the count is believed when the stream holds one, and a count
\* above the capacity is refused.
NewBinaryList ==
    /\ ~Open
    /\ (size >= EntrySize => count <= MaxSize)
    /\ realSize' = IF size >= EntrySize THEN count ELSE 0
    /\ UNCHANGED <<file, pc, blob, start, views, acked>>

\* Initialize writes the count of a stream too short to hold one ...
Initialize ==
    /\ Free
    /\ size < DataStart
    /\ IF size < EntrySize
         THEN size' = EntrySize /\ count' = realSize
         ELSE UNCHANGED <<size, count>>
    /\ pc' = "reserve"
    /\ UNCHANGED <<index, payload, realSize, blob, start, views, acked>>

\* ... and grows it to cover the index.
Reserve ==
    /\ pc = "reserve"
    /\ size' = DataStart
    /\ pc' = "idle"
    /\ UNCHANGED <<count, index, payload, realSize, blob, start, views, acked>>

-----------------------------------------------------------------------------
(* Add, AddReader, AddFunc: addReaderLocked                                *)

\* Mutant: the capacity is not tested.
AddBegin_NoFullTest(b) ==
    /\ Free
    /\ start' = IF size < DataStart THEN DataStart ELSE size
    /\ start' <= MaxOffset
    /\ blob' = b
    /\ pc' = "copy"
    /\ UNCHANGED <<file, realSize, views, acked>>

\* Not full, and the end of the stream (or of the index) is a 32-bit offset.
AddBegin(b) ==
    /\ Free
    /\ realSize < MaxSize
    /\ LET s == IF size < DataStart THEN DataStart ELSE size IN
       /\ s <= MaxOffset
       /\ start' = s
    /\ blob' = b
    /\ pc' = "copy"
    /\ UNCHANGED <<file, realSize, views, acked>>

\* io.Copy moves the next bytes; the first write past a short stream extends it
\* with zeros up to start.
CopyBytes ==
    /\ pc = "copy"
    /\ Len(payload) < start - DataStart + Len(blob)
    /\ payload' = Append(payload, blob[Len(payload) - (start - DataStart) + 1])
    /\ size' = DataStart + Len(payload')
    /\ UNCHANGED <<count, index, realSize, pc, blob, start, views, acked>>

\* Mutants: no Grow for an empty first blob; no test of the 32-bit limit; a
\* short copy taken for a whole one.
CopyDone_NoGrow ==
    /\ pc = "copy"
    /\ Len(payload) = start - DataStart + Len(blob)
    /\ Len(blob) <= MaxOffset - start
    /\ pc' = "index"
    /\ UNCHANGED <<file, realSize, blob, start, views, acked>>

CopyDone_NoLimitTest ==
    /\ pc = "copy"
    /\ Len(payload) = start - DataStart + Len(blob)
    /\ pc' = IF size < start THEN "grow" ELSE "index"
    /\ UNCHANGED <<file, realSize, blob, start, views, acked>>

CopyDone_Short ==
    /\ pc = "copy"
    /\ Len(blob) <= MaxOffset - start
    /\ pc' = IF size < start THEN "grow" ELSE "index"
    /\ UNCHANGED <<file, realSize, blob, start, views, acked>>

\* The copy is complete. Only now is the length held against the 32-bit limit.
CopyDone ==
    /\ pc = "copy"
    /\ Len(payload) = start - DataStart + Len(blob)
    /\ Len(blob) <= MaxOffset - start
    /\ pc' = IF size < start THEN "grow" ELSE "index"
    /\ UNCHANGED <<file, realSize, blob, start, views, acked>>

\* An empty first blob has extended nothing: reserve the index for it.
GrowToStart ==
    /\ pc = "grow"
    /\ size' = start
    /\ pc' = "index"
    /\ UNCHANGED <<count, index, payload, realSize, blob, start, views, acked>>

WriteIndex ==
    /\ pc = "index"
    /\ index' = [index EXCEPT ![realSize] = start]
    /\ realSize' = realSize + 1
    /\ pc' = "count"
    /\ UNCHANGED <<size, count, payload, blob, start, views, acked>>

\* The write that publishes the blob; Add returns its index.
WriteCount ==
    /\ pc = "count"
    /\ count' = realSize
    /\ acked' = [acked EXCEPT ![realSize - 1] = blob]
    /\ pc' = "idle"
    /\ blob' = NoBlob
    /\ UNCHANGED <<size, index, payload, realSize, start, views>>

\* Mutant: a clean-up of the tail starts at the last published offset instead of at
\* the offset of the failed Add.
Fail_WipesTail ==
    /\ pc # "idle"
    /\ LET from == IF count = 0 THEN 0 ELSE index[count - 1] - DataStart IN
       payload' = [k \in 1 .. Len(payload) |->
                     IF k > from THEN CHOOSE x \in Byte : TRUE ELSE payload[k]]
    /\ realSize' = IF pc = "count" THEN realSize - 1 ELSE realSize
    /\ pc' = "idle"
    /\ blob' = NoBlob
    /\ UNCHANGED <<size, count, index, start, views, acked>>

\* The source, a write or Grow fails: the error is returned, an entry already
\* counted is taken back, and the bytes written stay where they are.
Fail ==
    /\ pc # "idle"
    /\ realSize' = IF pc = "count" THEN realSize - 1 ELSE realSize
    /\ pc' = "idle"
    /\ blob' = NoBlob
    /\ UNCHANGED <<file, start, views, acked>>

\* Mutant: the early return forgets l.mu.
TooLong_KeepsLock ==
    /\ pc = "copy"
    /\ Len(payload) = start - DataStart + Len(blob)
    /\ Len(blob) > MaxOffset - start
    /\ UNCHANGED vars

\* The copy is complete and reaches beyond the 32-bit limit: an error, too late.
TooLong ==
    /\ pc = "copy"
    /\ Len(payload) = start - DataStart + Len(blob)
    /\ Len(blob) > MaxOffset - start
    /\ pc' = "idle"
    /\ blob' = NoBlob
    /\ UNCHANGED <<file, realSize, start, views, acked>>

-----------------------------------------------------------------------------
(* Reader                                                                  *)

\* Where blob i starts and ends, as Reader reads it from the index.
StartOf(i) == index[i]
EndOf(i) == IF i + 1 < realSize /\ index[i + 1] > 0 THEN index[i + 1] ELSE size

\* The views Reader refuses as ErrCorrupt.
Corrupt(i) == StartOf(i) <= 0 \/ EndOf(i) < StartOf(i)

\* Mutant: Reader does not take l.mu.
OpenReader_NoLock(r, i) ==
    /\ Open
    /\ i < realSize
    /\ ~Corrupt(i)
    /\ views' = [views EXCEPT ![r] = [slot |-> i, lo |-> StartOf(i), hi |-> EndOf(i)]]
    /\ UNCHANGED <<file, realSize, pc, blob, start, acked>>

OpenReader(r, i) ==
    /\ Free
    /\ i < realSize
    /\ ~Corrupt(i)
    /\ views' = [views EXCEPT ![r] = [slot |-> i, lo |-> StartOf(i), hi |-> EndOf(i)]]
    /\ UNCHANGED <<file, realSize, pc, blob, start, acked>>

DropReader(r) ==
    /\ views[r] # NoView
    /\ views' = [views EXCEPT ![r] = NoView]
    /\ UNCHANGED <<file, realSize, pc, blob, start, acked>>

-----------------------------------------------------------------------------
\* The process ends at any point, or closes the file: what was written stays.
Crash ==
    /\ Open
    /\ realSize' = Closed
    /\ pc' = "idle"
    /\ blob' = NoBlob
    /\ start' = 0
    /\ views' = [r \in Readers |-> NoView]
    /\ UNCHANGED <<file, acked>>

AddStep == CopyBytes \/ CopyDone \/ GrowToStart \/ WriteIndex \/ WriteCount

Next ==
    \/ NewBinaryList \/ Initialize \/ Reserve
    \/ \E b \in Blobs : AddBegin(b)
    \/ AddStep \/ TooLong \/ Fail
    \/ \E r \in Readers : DropReader(r) \/ \E i \in Slots : OpenReader(r, i)
    \/ Crash

\* A method that has started runs to one of its returns.
Fairness == WF_vars(Reserve \/ AddStep \/ TooLong)

Spec == Init /\ [][Next]_vars /\ Fairness

-----------------------------------------------------------------------------
(* Properties                                                              *)

\* Every published blob lies behind the index area and inside the stream, and
\* the offsets rise with the index, also after failed writes and crashes. This
\* is what makes the two ErrCorrupt tests of Reader unreachable.
OffsetsOrdered ==
    /\ \A i \in 0 .. count - 1 : index[i] >= DataStart /\ index[i] <= size
    /\ \A j \in 0 .. count - 1 : \A i \in 0 .. j : index[i] <= index[j]

\* No acknowledged blob starts or ends beyond the 32-bit limit, although its
\* length is only tested after it has been written.
OffsetsFit ==
    \A i \in Slots : acked[i] # NoBlob => index[i] + Len(acked[i]) <= MaxOffset

Holds(at, b) ==
    \A k \in 1 .. Len(b) : /\ at - DataStart + k <= Len(payload)
                           /\ payload[at - DataStart + k] = b[k]

\* An Add that returned is never undone: its blob is found, whole, where the
\* index says, through later failed Adds, crashes and reopens.
AckedDurable ==
    \A i \in Slots : acked[i] # NoBlob =>
        i < count /\ Holds(index[i], acked[i])

\* A published blob ends exactly where the next one starts, unless an Add failed
\* in between; in no case does it end before its own last byte.
NoOverlap ==
    \A i \in Slots : i + 1 < count /\ acked[i] # NoBlob =>
        index[i] + Len(acked[i]) <= index[i + 1]

\* A SubReader in use shows the blob it was opened for, whole, while other
\* goroutines add blobs.
ViewsShowBlob ==
    \A r \in Readers : LET v == views[r] IN
        v # NoView /\ acked[v.slot] # NoBlob =>
            /\ v.lo + Len(acked[v.slot]) <= v.hi
            /\ Holds(v.lo, acked[v.slot])

\* A SubReader never shows a byte of another blob: neither of those that were
\* there when it was opened nor of any added afterwards, although the last blob
\* has no end but that of a growing stream.
ViewsApart ==
    \A r \in Readers : views[r] # NoView =>
        \A j \in Slots : j > views[r].slot /\ acked[j] # NoBlob =>
            views[r].hi <= index[j]

\* Both together: a SubReader shows its blob, whole, and at most the tail that a
\* failed Add has left behind it.
ViewsExact == ViewsShowBlob /\ ViewsApart

\* No step changes a byte that an open SubReader can see: reading outside l.mu
\* is safe against every Add.
ViewsStable ==
    [][\A r \in Readers : views[r] # NoView =>
         \A k \in views[r].lo - DataStart + 1 .. views[r].hi - DataStart :
             payload'[k] = payload[k]]_vars

\* Whoever holds l.mu gives it back.
LockReleased == pc # "idle" ~> pc = "idle"

-----------------------------------------------------------------------------
(* The inductive invariant                                                 *)

Adding == pc \in {"copy", "grow", "index", "count"}

\* The payload is what the stream holds from DataStart on.
Layout ==
    /\ size >= DataStart => Len(payload) = size - DataStart
    /\ size < DataStart => payload = << >> /\ count = 0

\* What the fields of an Add under way say of the file.
AddInv ==
    /\ pc # "idle" => Open
    /\ Open /\ pc # "count" => realSize = count
    /\ pc = "count" => realSize = count + 1 /\ index[count] = start
    /\ Adding =>
         /\ blob \in Blobs /\ count < MaxSize
         /\ start >= DataStart /\ start <= MaxOffset
         /\ start - DataStart <= Len(payload)
         /\ Len(payload) <= start - DataStart + Len(blob)
         /\ \A i \in 0 .. count - 1 : index[i] <= start
         /\ \A k \in 1 .. Len(payload) - (start - DataStart) :
                payload[start - DataStart + k] = blob[k]
         /\ \A i \in Slots : acked[i] # NoBlob =>
                index[i] - DataStart + Len(acked[i]) <= start - DataStart
    /\ pc \in {"grow", "index", "count"} =>
         /\ Len(payload) = start - DataStart + Len(blob)
         /\ start + Len(blob) <= MaxOffset
    /\ pc \in {"index", "count"} => size >= start
    /\ pc = "grow" => size < start
    /\ pc = "reserve" => size < DataStart

\* A view lies in the part of the payload that is written.
ViewsInside ==
    \A r \in Readers : views[r] # NoView =>
        DataStart <= views[r].lo /\ views[r].lo <= views[r].hi /\ views[r].hi <= size

IInv ==
    /\ TypeOK /\ Layout /\ AddInv /\ ViewsInside
    /\ OffsetsOrdered /\ OffsetsFit /\ AckedDurable /\ NoOverlap

\* What a view says of the file, on top of IInv: it starts where its blob does,
\* covers it, and ends before whatever is added after it was opened.
ViewInv ==
    /\ \A r \in Readers : views[r] # NoView =>
         LET v == views[r] IN
         /\ v.slot < count /\ v.lo = index[v.slot]
         /\ acked[v.slot] # NoBlob => v.lo + Len(acked[v.slot]) <= v.hi
         /\ Adding => v.hi <= start
    /\ ViewsApart

-----------------------------------------------------------------------------
(* Refinement of BlobLog                                                   *)

\* The end of the last published blob. Bytes of an Add under way belong to it
\* only once that Add has failed; nobody can call Reader before.
TailEnd ==
    CASE size < DataStart -> 0
      [] Adding -> start - DataStart
      [] OTHER -> size - DataStart

Stored(i) ==
    SubSeq(payload, index[i] - DataStart + 1,
           IF i + 1 < count THEN index[i + 1] - DataStart ELSE TailEnd)

BL == INSTANCE BlobLog WITH
        Capacity <- MaxSize,
        log <- [n \in 1 .. count |-> Stored(n - 1)]

\* A list, whatever fails and whenever the process dies, is a log of blobs whose
\* last one may gain a tail.
RefinesLog == BL!Spec
=============================================================================
