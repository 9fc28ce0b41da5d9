---------------------------- MODULE MCSqliteGate ----------------------------
(* TLC instance of SqliteGate. *)
EXTENDS SqliteGate, TLC

ConnSymmetry == Permutations(Conns)

=============================================================================
