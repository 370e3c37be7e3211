------------------------------ MODULE BlobLog ------------------------------
(***************************************************************************)
(* What a BinaryList promises its callers, free of offsets, index slots    *)
(* and locks: a log of blobs to which blobs are appended and of which      *)
(* nothing is ever taken away or changed.                                  *)
(*                                                                         *)
(* A BinaryList stores no blob lengths: the last blob reaches to the end   *)
(* of the stream. An append that stops half-way therefore leaves its bytes *)
(* behind the last blob, which is the one licence Spill gives.             *)
(***************************************************************************)
EXTENDS Sequences, Naturals

CONSTANTS Byte,      \* what a payload is made of
          Blobs,     \* the blobs callers add
          Capacity   \* maxSize of the list

VARIABLE log         \* the stored blobs, oldest first

LogTypeOK == log \in Seq(Seq(Byte)) /\ Len(log) <= Capacity

LogInit == log = << >>

\* A new blob becomes visible, whole, behind the others.
AppendBlob ==
    /\ Len(log) < Capacity
    /\ Len(log') = Len(log) + 1
    /\ \A i \in 1..Len(log) : log'[i] = log[i]
    /\ log'[Len(log')] \in Blobs

\* The bytes of an append that failed become the tail of the last blob: every
\* other blob is as before and the last one still starts with what it held.
Spill ==
    /\ log # << >>
    /\ Len(log') = Len(log)
    /\ \A i \in 1..(Len(log) - 1) : log'[i] = log[i]
    /\ LET last == Len(log) IN
       /\ Len(log'[last]) > Len(log[last])
       /\ \A k \in 1..Len(log[last]) : log'[last][k] = log[last][k]

Spec == LogInit /\ [][AppendBlob \/ Spill]_log
=============================================================================
