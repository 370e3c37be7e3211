----------------------------- MODULE CellStore ------------------------------
(***************************************************************************)
(* What a table file promises: a layout, fixed when the table is created,  *)
(* and for every row and column of it a cell that only a write to this     *)
(* cell changes. A creation that is interrupted leaves no table.           *)
(***************************************************************************)
EXTENDS Naturals, Sequences

CONSTANTS Layouts, Byte, NoTable

VARIABLE table  \* [layout, cells], or NoTable

CellsOf(l) == (0 .. l.rows - 1) \X DOMAIN l.columns

Blank(l) == [layout |-> l,
             cells |-> [rc \in CellsOf(l) |-> [k \in 1 .. l.columns[rc[2]].length |-> 0]]]

CellInit == table = NoTable

\* A table without a written cell comes into being.
Created(new) == new \in {Blank(l) : l \in Layouts}

\* One cell gets a value that fits it.
Set(old, new) ==
    /\ new.layout = old.layout
    /\ \E rc \in CellsOf(old.layout) :
           /\ new.cells[rc] \in [1 .. old.layout.columns[rc[2]].length -> Byte]
           /\ new.cells = [old.cells EXCEPT ![rc] = new.cells[rc]]

CellNext ==
    \E old \in {table}, new \in {table'} :
        \/ new = NoTable
        \/ old = NoTable /\ Created(new)
        \/ old # NoTable /\ new # NoTable /\ Set(old, new)

Spec == CellInit /\ [][CellNext]_table
=============================================================================
