---------------------------- MODULE ListCapacity ----------------------------
(***************************************************************************)
(* The capacity of a blob list, which its file does not store.             *)
(*                                                                         *)
(* A list reserves SchemaSize + 4 * capacity bytes before its payload.     *)
(* GuessListCapacity infers the capacity from where the payload starts, or *)
(* from the size of an empty file; the callers (gui/list_service.go and    *)
(* internal/cli/list.go) fall back to DefaultCapacity, or pass a capacity  *)
(* the user named. BinaryList.tla keeps one capacity for ever; here a file *)
(* is opened again and again, each time with the capacity the code derives *)
(* for it, and index slots and payload share one address space, so that a  *)
(* wrong capacity can write a slot into a blob.                            *)
(***************************************************************************)
EXTENDS CapacityLayout

vars == <<size, first, cap, made, over, beyond, damaged, spilled>>

TypeOK ==
    /\ size \in Nat
    /\ first \in Seq(Nat)
    /\ cap \in Nat /\ made \in Nat
    /\ over \in BOOLEAN /\ beyond \in BOOLEAN /\ damaged \in BOOLEAN /\ spilled \in BOOLEAN
    /\ cap > 0 => count <= cap

\* No file yet.
Init ==
    /\ size = 0 /\ first = << >>
    /\ cap = 0 /\ made = 0
    /\ over = FALSE /\ beyond = FALSE /\ damaged = FALSE /\ spilled = FALSE

-----------------------------------------------------------------------------
\* Mutant: a list with entries is opened with the default capacity.
Recovered_Default == IF count > 0 THEN DefaultCapacity ELSE GuessListCapacity

Recovered == IF GuessListCapacity = 0 THEN DefaultCapacity ELSE GuessListCapacity

\* CreateList, list create: a new file, or an old one truncated, and Initialize.
Create(m) ==
    /\ size' = DataStart(m)
    /\ first' = << >>
    /\ cap' = m /\ made' = m
    /\ over' = FALSE /\ beyond' = FALSE /\ damaged' = FALSE /\ spilled' = FALSE

\* A list opened with capacity m; NewBinaryList refuses too small a capacity.
OpenWith(m) ==
    /\ count <= m
    /\ cap' = m
    /\ made' = IF size' # size \/ size = 0 THEN m ELSE made
    /\ UNCHANGED <<first, beyond, damaged, spilled>>

\* OpenList with capacity 0, list info and list add without -max.
OpenRecovered ==
    /\ UNCHANGED size
    /\ OpenWith(Recovered)
    /\ over' = FALSE

\* list add -max m
OpenNamed(m) ==
    /\ UNCHANGED size
    /\ OpenWith(m)
    /\ over' = (m > made')

\* OpenList(path, m): an empty list is also initialized for the named capacity,
\* unless it is open with this capacity already.
OpenListNamed(m) ==
    /\ cap # m
    /\ size' = IF count = 0 /\ size < DataStart(m) THEN DataStart(m) ELSE size
    /\ OpenWith(m)
    /\ over' = (m > made')

Close ==
    /\ cap > 0
    /\ cap' = 0
    /\ over' = FALSE
    /\ UNCHANGED <<size, first, made, beyond, damaged, spilled>>

-----------------------------------------------------------------------------
\* Where the next blob goes.
StartOfNext == IF size < DataStart(cap) THEN DataStart(cap) ELSE size

\* Blob i of offsets f in a file of n bytes reaches from f[i] to this offset.
EndOf(f, i, n) == IF i < Len(f) THEN f[i + 1] ELSE n

\* Slot k (from 0) shares a byte with a blob.
SlotHitsBlob(k, f, n) ==
    LET lo == SchemaSize + EntrySize * k IN
    \E i \in 1 .. Len(f) : f[i] < lo + EntrySize /\ lo < EndOf(f, i, n)

\* The capacity the file is laid out for once it reaches to the next blob.
LaidOutFor == IF count = 0 /\ size < DataStart(cap) THEN cap ELSE made

Add(n) ==
    /\ cap > 0 /\ count < cap
    /\ first' = Append(first, StartOfNext)
    /\ size' = StartOfNext + n
    /\ damaged' = (damaged \/ SlotHitsBlob(count, first', size'))
    /\ made' = LaidOutFor
    /\ over' = (over /\ made' < cap)
    /\ beyond' = (beyond \/ (over' /\ count >= made'))
    /\ UNCHANGED <<cap, spilled>>

\* An Add that leaves n bytes, and perhaps its slot, and no blob: the copy of the
\* payload, the write of the slot or that of the count fails, or the process dies there
\* (which is to fail and to close).
AddFails(n, slot) ==
    /\ cap > 0 /\ count < cap
    /\ StartOfNext <= MaxFile
    /\ size' = StartOfNext + n
    /\ damaged' = (damaged \/ (slot /\ SlotHitsBlob(count, first, size')))
    /\ made' = LaidOutFor
    /\ over' = (over /\ made' < cap)
    /\ beyond' = (beyond \/ (slot /\ over' /\ count >= made'))
    /\ spilled' = (spilled \/ (count = 0 /\ n > 0))
    /\ UNCHANGED <<first, cap>>

\* Blob i as its reader has it, what a failed Add left behind the last one included.
LengthOf(i) == EndOf(first, i, size) - first[i]

\* The list is written again, by Adds to a new list of the open capacity: blobs that
\* followed each other from first[1] on, with these starts and this end, follow each
\* other from DataStart(cap) on. The new list is not initialized, so an empty one has
\* an empty file.
Rebuilt(starts, end) ==
    /\ first' = [j \in DOMAIN starts |-> starts[j] - first[1] + DataStart(cap)]
    /\ size' = IF starts = << >> THEN 0 ELSE end - first[1] + DataStart(cap)
    /\ made' = cap
    /\ over' = FALSE
    /\ UNCHANGED <<cap, beyond, damaged, spilled>>

\* Without blob i those behind it move up.
DeleteBlob(i) ==
    /\ cap > 0 /\ i \in 1 .. count
    /\ Rebuilt([j \in 1 .. count - 1 |->
                    IF j < i THEN first[j] ELSE first[j + 1] - LengthOf(i)],
               size - LengthOf(i))

ReplaceBlob(i, n) ==
    /\ cap > 0 /\ i \in 1 .. count
    /\ Rebuilt([j \in 1 .. count |->
                    IF j <= i THEN first[j] ELSE first[j] + n - LengthOf(i)],
               size + n - LengthOf(i))

Next ==
    \/ \E m \in Capacities : Create(m)
    \/ OpenRecovered
    \/ \E m \in Named : OpenNamed(m) \/ OpenListNamed(m)
    \/ Close
    \/ \E n \in Lengths : Add(n)
    \/ \E n \in Partial : AddFails(n, FALSE)
    \/ \E n \in Lengths, slot \in BOOLEAN : AddFails(n, slot)
    \/ \E i \in 1 .. count : DeleteBlob(i) \/ \E n \in Lengths : ReplaceBlob(i, n)

Spec == Init /\ [][Next]_vars

=============================================================================
