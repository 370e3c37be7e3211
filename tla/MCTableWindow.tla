--------------------------- MODULE MCTableWindow ----------------------------
(* TableWindow with two files, of two rows and of one; which is which does  *)
(* not matter.                                                             *)
EXTENDS TableWindow

TwoAndOne == {f \in [Path -> {1, 2}] : \A n \in {1, 2} : \E p \in Path : f[p] = n}

WindowSymmetry == Permutations(Path) \cup Permutations(Slot)
=============================================================================
