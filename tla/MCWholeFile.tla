---------------------------- MODULE MCWholeFile -----------------------------
(* WholeFile with two names: two files, two links to one, or a single file. *)
EXTENDS WholeFile, TLC

Links == {l \in [Name -> {1, 2, None}] : \E n \in Name : l[n] = 1}

ProcSymmetry == Permutations(Proc) \cup Permutations(Name)
=============================================================================
