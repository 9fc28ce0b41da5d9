---------------------------- MODULE MCTaskSlots ----------------------------
(* TLC instance of TaskSlots. *)
EXTENDS TaskSlots, TLC

ThreadSymmetry == Permutations(Handlers) \cup Permutations(Tasks)

=============================================================================
