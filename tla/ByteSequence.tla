---------------------------- MODULE ByteSequence ----------------------------
(***************************************************************************)
(* What a growable stream promises (the interfaces of                      *)
(* binarytable/stream.go): one sequence of bytes, which a write overwrites *)
(* and lengthens, and Grow only lengthens. Bytes nobody wrote are zero.    *)
(***************************************************************************)
EXTENDS Integers, Sequences

CONSTANTS
    Zero,      \* the byte that fills gaps
    Data,      \* what is written
    Positions  \* where

VARIABLE bytes

Lengthened(s, n) == s \o [p \in 1 .. (IF n > Len(s) THEN n - Len(s) ELSE 0) |-> Zero]

BytesInit == bytes = << >>

WriteAt(at, d) ==
    bytes' = [p \in DOMAIN Lengthened(bytes, at + Len(d)) |->
                IF p \in at + 1 .. at + Len(d) THEN d[p - at] ELSE Lengthened(bytes, at)[p]]

Grow(n) == bytes' = Lengthened(bytes, n)

BytesNext == \E at \in Positions : Grow(at) \/ \E d \in Data : WriteAt(at, d)

Spec == BytesInit /\ [][BytesNext]_bytes

=============================================================================
