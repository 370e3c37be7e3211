---------------------------- MODULE MCListWindow ----------------------------
(* ListWindow with one list of two blobs and a file that is not there. *)
EXTENDS ListWindow

OneList == {f \in [Path -> {None} \cup {<<a, b>> : a, b \in Blob}] :
                /\ \E p \in Path : f[p] = None
                /\ \E p \in Path : f[p] # None /\ f[p][1] # f[p][2]}

WindowSymmetry == Permutations(Path) \cup Permutations(Slot) \cup Permutations(Blob)
=============================================================================
