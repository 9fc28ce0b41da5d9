---------------------------- MODULE MCJobWorkers ----------------------------
(***************************************************************************)
(* TLC instance of JobWorkers.                                             *)
(***************************************************************************)
EXTENDS JobWorkers

=============================================================================
