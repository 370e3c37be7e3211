--------------------------- MODULE CapacityLayout ---------------------------
(***************************************************************************)
(* A list file as ListCapacity sees it: its constants and variables, where *)
(* the payload starts, and what is read back from it.                      *)
(***************************************************************************)
EXTENDS Integers, Sequences

CONSTANTS
    Capacities,       \* capacities lists are created with
    Named,            \* capacities named when a list is opened; {} for none
    DefaultCapacity,  \* 1000 in the code
    SchemaSize,       \* 100 in the code
    Lengths,          \* lengths of blobs
    Partial,          \* bytes of a blob whose copy fails that are left behind
    MaxFile           \* bound: an Add only fails when it starts below this offset

EntrySize == 4

ASSUME CapacityAssumption ==
    /\ Capacities \subseteq Nat \ {0} /\ Named \subseteq Nat \ {0}
    /\ DefaultCapacity \in Nat \ {0}
    /\ SchemaSize \in Nat /\ SchemaSize >= EntrySize
    /\ Lengths \subseteq Nat /\ Partial \subseteq Nat \ {0} /\ MaxFile \in Nat

VARIABLES
    size,     \* bytes in the file
    first,    \* start offset of each blob in the file, as its index has it
    cap,      \* maxSize of the open list, 0 when none is open
    made,     \* history: the capacity the file was laid out for, 0 for no file
    over,     \* history: the open list has a named capacity that is larger than made
    beyond,   \* history: an Add to such a list got to a slot that it was not made for
    damaged,  \* history: an index write hit the payload of a blob
    spilled   \* history: an Add to this file left bytes in it before it had a blob

count == Len(first)
DataStart(m) == SchemaSize + EntrySize * m

-----------------------------------------------------------------------------
\* Whole entries between the schema and offset n; 0 when n does not end on one.
EntriesUpTo(n) ==
    IF n >= SchemaSize /\ (n - SchemaSize) % EntrySize = 0
      THEN (n - SchemaSize) \div EntrySize ELSE 0

\* Mutant: the size of the file is taken even when the list has entries.
GuessListCapacity_FromSize == IF size < EntrySize THEN 0 ELSE EntriesUpTo(size)

\* From the first offset, or from the reserved prefix of an empty list; 0 when
\* neither tells.
GuessListCapacity ==
    CASE size < EntrySize                            -> 0
      [] count > 0 /\ size >= SchemaSize + EntrySize -> EntriesUpTo(first[1])
      [] count = 0                                   -> EntriesUpTo(size)
      [] OTHER                                       -> 0

-----------------------------------------------------------------------------
(* Properties                                                              *)

\* No index write ever lands in a stored blob, over any history of opens, rewrites and
\* Adds that fail at any write: the index of an open list ends before its first blob,
\* whichever caller opened it, unless an Add left bytes before the first blob, or the
\* user named a larger capacity than the list was made for; and that does no harm before
\* an Add gets to a slot behind those it was made for, whether or not that Add fails.
DataBehindIndex == ~spilled =>
    /\ damaged => beyond
    /\ cap > 0 /\ count > 0 /\ ~over => first[1] >= DataStart(cap)

\* Whatever was added, deleted, replaced or left behind by failed Adds, the
\* capacity a file was laid out for is read back from it, unless the file is
\* empty or an Add left bytes in it before the first blob.
CapacityRecovered == ~spilled /\ size > 0 => GuessListCapacity = made

\* The index ends before the first blob also when an Add failed before it, as the
\* comment of BinaryList has it: "data always starts at max(stream size,
\* 100 + maxListSize*4)".
DataAlwaysBehindIndex == cap > 0 /\ count > 0 => first[1] >= DataStart(cap)
=============================================================================
