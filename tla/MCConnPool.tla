----------------------------- MODULE MCConnPool -----------------------------
(***************************************************************************)
(* TLC instances of ConnPool: who runs where, and who wants what.          *)
(***************************************************************************)
EXTENDS ConnPool

CONSTANTS f3, s1, s2

\* The last fiber is on a second worker.
TwoScheds == [f \in Fibers |-> IF f = f3 THEN s2 ELSE s1]

\* Every client may use every pool, of which the runs have one.
WantAll == [c \in Clients |-> Pools]

=============================================================================
