----------------------------- MODULE OrderedList -----------------------------
(***************************************************************************)
(* What the user of a board or a checklist is promised of its order: a list *)
(* to whose end rows are added, out of which any row is taken, and in which *)
(* one row moves and leaves the order of the others as it was.              *)
(***************************************************************************)
EXTENDS Sequences, SequencesExt

CONSTANTS Row, Initial
VARIABLE list

Init == list = Initial

\* The lists that a list l may become.
Adding(l) == {Append(l, x) : x \in Row \ Range(l)}
Taking(l) == {RemoveAt(l, i) : i \in DOMAIN l}
Moving(l) == {InsertAt(RemoveAt(l, i), j, l[i]) : i, j \in DOMAIN l}

Next == list' \in Adding(list) \cup Taking(list) \cup Moving(list)

Spec == Init /\ [][Next]_list
=============================================================================
