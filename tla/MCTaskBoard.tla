----------------------------- MODULE MCTaskBoard -----------------------------
(* Instances of TaskBoard for TLC. *)
EXTENDS TaskBoard, TLC

CONSTANTS todo, done, elsewhere, home, away

\* A board with two columns, and a second project with a column of its own.
MCProjectOf == [c \in Column |-> IF c = elsewhere THEN away ELSE home]

\* One client after another: all that touches boards, where the column of the
\* second project is there to move tasks to and is not edited.
EditsAtHome == columns'[elsewhere] = columns[elsewhere]

\* Overlapping requests: those that save or remove rows, those that recount.
SavingKinds == {"create", "update", "softDelete", "permanentDelete"}
CountingKinds == {"create", "softDelete", "move", "projectUpdate", "projectDelete"}
OverlappingKinds == SavingKinds \cup CountingKinds
\* For the disagreements with the documents.
TrashKinds == {"create", "softDelete", "restore"}

Symmetric == Permutations(Task) \cup Permutations(Request)
=============================================================================
