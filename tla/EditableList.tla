---------------------------- MODULE EditableList ----------------------------
(***************************************************************************)
(* What the editor promises of a blob list file: blobs are appended,       *)
(* deleted and replaced, each edit at once or not at all.                  *)
(***************************************************************************)
EXTENDS Sequences, Naturals, SequencesExt

CONSTANTS Blob, MaxLength

VARIABLE list

ListInit == list = << >>

Append1(b) == Len(list) < MaxLength /\ list' = Append(list, b)

Delete(i) == list' = RemoveAt(list, i)

Replace(i, b) == list' = [list EXCEPT ![i] = b]

ListNext ==
    \/ \E b \in Blob : Append1(b)
    \/ \E i \in DOMAIN list : Delete(i) \/ \E b \in Blob : Replace(i, b)

Spec == ListInit /\ [][ListNext]_list
=============================================================================
