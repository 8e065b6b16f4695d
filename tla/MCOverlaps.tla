----------------------------- MODULE MCOverlaps -----------------------------
(* Two overlapping requests on a board: in one half of the behaviours they   *)
(* save and remove one task and may die, in the other they recount a board   *)
(* of two.                                                                   *)
EXTENDS MCTaskBoard

VARIABLE mix

Touched == {t \in Task : Exists(tasks[t]) \/ tasks[t].row = "removed"}

InMix(q) == q.kind = "none" \/ q.kind \in (IF mix = "saves" THEN SavingKinds ELSE CountingKinds)

\* Next without Abort.
Undisturbed ==
    \/ \E r \in Request : TaskStep(r) \/ RecountStep(r) \/ ColumnStep(r) \/ ProjectStep(r)
    \/ CleanupOldTrash
    \/ \E t \in Task : Expire(t)

MCNext ==
    /\ UNCHANGED mix
    /\ \/ mix = "saves" /\ Next
       \/ mix = "counts" /\ Undisturbed
    /\ \A r \in Request : InMix(requests'[r])
    /\ mix = "saves" => Cardinality(Touched') <= 1

MCInit == Init /\ mix \in {"saves", "counts"}

MCSpec == MCInit /\ [][MCNext]_<<vars, mix>>
=============================================================================
