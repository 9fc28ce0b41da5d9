--------------------------- MODULE MCAppDispatch ---------------------------
(***************************************************************************)
(* TLC instances of AppDispatch: two requests share a worker.              *)
(***************************************************************************)
EXTENDS AppDispatch

CONSTANTS r1, r2, r3, w1, w2

TwoWorkers == [r \in Requests |-> IF r = r3 THEN w2 ELSE w1]
AllKinds == {"vm", "pinned", "interp", "direct", "broken"}
AllEnvironments == [entry : {"http", "fcgi"}, fiber : BOOLEAN]

=============================================================================
