--------------------------- MODULE MCDbTransaction ---------------------------
(* TLC instance of DbTransaction. *)
EXTENDS DbTransaction, TLC

WriteSymmetry == Permutations(Writes)

=============================================================================
