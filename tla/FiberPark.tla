------------------------------ MODULE FiberPark ------------------------------
(***************************************************************************)
(* What suspending and resuming a fiber promises to the code that uses it, *)
(* whatever scheduler the fiber belongs to.  Before or while it parks, a   *)
(* fiber hands out one waker (an epoll registration, an offload job, an    *)
(* entry in a waiter list).  The waker is used once: it makes a parked     *)
(* fiber active, or is kept as a permit that the fiber's next park         *)
(* consumes.  Nothing else makes a parked fiber run, and a fiber ends with *)
(* neither waker nor permit outstanding.                                   *)
(*                                                                         *)
(* FiberScheduler implements this specification; ConnPool uses it.         *)
(***************************************************************************)
CONSTANT Fibers

VARIABLES
    status,   \* "new", "active", "parked" or "finished"
    permit,   \* a resume is stored for an active fiber
    waker     \* somebody will resume the fiber

parkVars == <<status, permit, waker>>

ParkInit ==
    /\ status = [f \in Fibers |-> "new"]
    /\ permit = [f \in Fibers |-> FALSE]
    /\ waker  = [f \in Fibers |-> FALSE]

Start(f) ==
    /\ status[f] = "new"
    /\ status' = [status EXCEPT ![f] = "active"]
    /\ UNCHANGED <<permit, waker>>

Idle(f) == status[f] = "active" /\ ~permit[f] /\ ~waker[f]

Arm(f) ==
    /\ Idle(f)
    /\ waker' = [waker EXCEPT ![f] = TRUE]
    /\ UNCHANGED <<status, permit>>

Park(f) ==
    /\ status[f] = "active" /\ (permit[f] \/ waker[f])
    /\ status' = [status EXCEPT ![f] = IF permit[f] THEN "active" ELSE "parked"]
    /\ permit' = [permit EXCEPT ![f] = FALSE]
    /\ UNCHANGED waker

ArmAndPark(f) ==
    /\ Idle(f)
    /\ waker' = [waker EXCEPT ![f] = TRUE]
    /\ status' = [status EXCEPT ![f] = "parked"]
    /\ UNCHANGED permit

Unpark(f) ==
    /\ waker[f]
    /\ waker' = [waker EXCEPT ![f] = FALSE]
    /\ status' = [status EXCEPT ![f] = "active"]
    /\ permit' = [permit EXCEPT ![f] = (status[f] = "active")]

End(f) ==
    /\ Idle(f)
    /\ status' = [status EXCEPT ![f] = "finished"]
    /\ UNCHANGED <<permit, waker>>

ParkNext ==
    \E f \in Fibers :
        Start(f) \/ Arm(f) \/ Park(f) \/ ArmAndPark(f) \/ Unpark(f) \/ End(f)

ParkSpec == ParkInit /\ [][ParkNext]_parkVars

=============================================================================
