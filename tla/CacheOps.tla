------------------------------ MODULE CacheOps ------------------------------
(***************************************************************************)
(* The operations of binarytable/cache.go, an LRU cache, as operators on   *)
(* its recency list: a sequence of entries, the most recent first. The map *)
(* from keys to list elements has no content of its own.                   *)
(***************************************************************************)
EXTENDS Naturals, Sequences, SequencesExt

Keys(order) == {order[i].key : i \in DOMAIN order}

EntryOf(order, k) == CHOOSE i \in DOMAIN order : order[i].key = k

\* MoveToFront.
Touched(order, k) ==
    LET i == EntryOf(order, k) IN <<order[i]>> \o RemoveAt(order, i)

\* Get moves an entry it finds to the front.
AfterGet(order, k) == IF k \in Keys(order) THEN Touched(order, k) ELSE order

\* Mutant: nothing is evicted.
AfterPut_NoEviction(order, k, v, capacity) ==
    LET entry == [key |-> k, value |-> v] IN
    CASE capacity <= 0     -> order
      [] k \in Keys(order) -> <<entry>> \o Tail(Touched(order, k))
      [] OTHER             -> <<entry>> \o order

\* Put replaces the value of a key that is there and evicts from the back
\* otherwise; without capacity it does nothing.
AfterPut(order, k, v, capacity) ==
    LET entry == [key |-> k, value |-> v] IN
    CASE capacity <= 0     -> order
      [] k \in Keys(order) -> <<entry>> \o Tail(Touched(order, k))
      [] OTHER             -> <<entry>> \o IF Len(order) < capacity THEN order ELSE Front(order)
=============================================================================
