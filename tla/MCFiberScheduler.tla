------------------------- MODULE MCFiberScheduler -------------------------
(* TLC instance of FiberScheduler. *)
EXTENDS FiberScheduler, TLC

FiberSymmetry == Permutations(Fibers) \cup Permutations(Workers)

=============================================================================
