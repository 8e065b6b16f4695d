--------------------------- MODULE MCTimeTracking ---------------------------
(* Small instances of TimeTracking for TLC. *)
EXTENDS TimeTracking, TLC

Symmetry == Permutations(Entry) \cup Permutations(Task)
                \cup Permutations(User) \cup Permutations(Request)
=============================================================================
