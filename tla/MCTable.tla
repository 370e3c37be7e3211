------------------------------ MODULE MCTable -------------------------------
(* Table with layouts of two and of one column, in two rows.                *)
EXTENDS Table, TLC

Two == [rows |-> 2, columns |-> <<[name |-> "a", length |-> 1, type |-> "INT"],
                                  [name |-> "b", length |-> 2, type |-> "STRING"]>>]
One == [rows |-> 2, columns |-> <<[name |-> "c", length |-> 2, type |-> "RAW"]>>]
BothLayouts == {Two, One}

UserSymmetry == Permutations(User)
=============================================================================
