----------------------------- MODULE JobWorkers -----------------------------
(***************************************************************************)
(* Processes that work off one job table: command-line workers, whose main *)
(* thread is in jobs::run(n) until they are killed, and processes that     *)
(* call jobs::run(0) from a timer.  Composes Jobs and Timers.              *)
(*                                                                         *)
(* A process may be killed at any step.  It is started again by whoever    *)
(* supervises it and calls jobs::recover first, as the comment of recover  *)
(* asks for.                                                               *)
(***************************************************************************)
EXTENDS Jobs, Timers

CONSTANTS
    PassTimer,   \* the timer whose callback calls jobs::run(0)
    RecoverAll,  \* what recover is called with: TRUE for 0, FALSE for a minimum age
    MaxKills     \* bound on the number of kills

Loopers == JobProcs \ Procs

ASSUME WorkerAssumption ==
    /\ Procs \subseteq JobProcs
    /\ PassTimer \in Repeating
    /\ RecoverAll \subseteq BOOLEAN /\ RecoverAll # {}
    /\ MaxKills \in Nat

VARIABLES
    proc,    \* "up", "stopping" (the main thread is in exit), "closed" (so it is, and
             \* the JobStore is destroyed), "exited", "killed"
    kills

vars == <<jobVars, timerVars, proc, kills>>

Init ==
    /\ JobInit /\ TimerInit
    /\ proc = [p \in JobProcs |-> "up"]
    /\ kills = 0

-----------------------------------------------------------------------------
(***************************************************************************)
(* The script, the table and the clock.                                    *)
(***************************************************************************)
Script ==
    /\ \/ \E m \in MaxRetries, delayed \in BOOLEAN : Push(m, delayed)
       \/ \E j \in JobIds : RunAfterPasses(j) \/ Ages(j) \/ Retry(j)
       \/ \E s \in {"pending", "processing", "done", "failed"} : Purge(s)
    /\ UNCHANGED <<timerVars, proc, kills>>

SetTimers(p) ==
    /\ proc[p] = "up"
    /\ \E i \in TimerIds : Add(p, i) \/ Cancel(p, i)
    /\ UNCHANGED <<jobVars, proc, kills>>

Clock(p) ==
    /\ \E i \in TimerIds : TimePasses(p, i)
    /\ UNCHANGED <<jobVars, proc, kills>>

\* The main thread returns.  Statics are destroyed in the reverse order of
\* their construction: if the script used timer:: before jobs::, the JobStore
\* goes first and closes the table under a pass of the timer thread.
CloseStore(p) ==
    /\ proc[p] = "up"
    /\ proc' = [proc EXCEPT ![p] = "closed"]
    /\ UNCHANGED <<jobVars, timerVars, kills>>

\* The destructor of the timer manager stops its thread.
BeginExit(p) ==
    /\ proc[p] \in {"up", "closed"}
    /\ Shutdown(p)
    /\ proc' = [proc EXCEPT ![p] = IF @ = "up" THEN "stopping" ELSE @]
    /\ UNCHANGED <<jobVars, kills>>

\* Variant: exit does not wait for the timer thread.
EndExitNoJoin(p) ==
    /\ proc[p] = "stopping"
    /\ proc' = [proc EXCEPT ![p] = "exited"]
    /\ worker' = [worker EXCEPT ![p] = "idle"]
    /\ held' = [held EXCEPT ![p] = NoJob]
    /\ TimerReset(p)
    /\ UNCHANGED <<rows, read, starts, retried, rescued, grace, robbed, orphan, busy, kills>>

\* thread_.join() has returned.
EndExit(p) ==
    /\ proc[p] \in {"stopping", "closed"} /\ place[p] = "gone"
    /\ proc' = [proc EXCEPT ![p] = "exited"]
    /\ TimerReset(p)
    /\ UNCHANGED <<jobVars, kills>>

-----------------------------------------------------------------------------
(***************************************************************************)
(* The threads that run jobs.                                              *)
(***************************************************************************)
Alive(p) == proc[p] \in {"up", "stopping", "closed"}

TimerThread(p) ==
    /\ Alive(p)
    /\ \/ Test(p) /\ UNCHANGED jobVars
       \/ Sleep(p) /\ UNCHANGED jobVars
       \/ Wake(p) /\ UNCHANGED jobVars
       \/ BatchDone(p) /\ UNCHANGED jobVars
       \/ /\ StartCallback(p)
          /\ IF Head(batch[p]) = PassTimer
             THEN Moves(p, "claim") /\ UNCHANGED <<rows, held, read, starts, retried,
                                                   rescued, grace, robbed, orphan, busy>>
             ELSE UNCHANGED jobVars
       \/ worker[p] = "idle" /\ EndCallback(p) /\ UNCHANGED jobVars
    /\ UNCHANGED <<proc, kills>>

\* A command-line worker has slept its interval.
LoopPass(p) ==
    /\ p \in Loopers /\ proc[p] = "up" /\ worker[p] = "idle"
    /\ Moves(p, "claim")
    /\ UNCHANGED <<rows, held, read, starts, retried, rescued, grace, robbed, orphan, busy,
                   timerVars, proc, kills>>

PassStep(p) ==
    /\ \/ /\ proc[p] \in {"up", "stopping"}
          /\ Claim(p) \/ Done(p) \/ FailRead(p) \/ FailWrite(p)
       \/ Alive(p) /\ \E ok \in BOOLEAN : HandlerEnds(p, ok)
    /\ UNCHANGED <<timerVars, proc, kills>>

\* A statement fails; on a closed table prepare() always throws.
PassBusy(p) ==
    /\ \/ proc[p] \in {"up", "stopping"} /\ Busy(p)
       \/ proc[p] = "closed" /\ PrepareThrows(p) /\ UNCHANGED busy
    /\ UNCHANGED <<timerVars, proc, kills>>

-----------------------------------------------------------------------------
Kill(p) ==
    /\ kills < MaxKills /\ Alive(p)
    /\ kills' = kills + 1
    /\ proc' = [proc EXCEPT ![p] = "killed"]
    /\ Lose(p)
    /\ IF p \in Procs THEN TimerReset(p) ELSE UNCHANGED timerVars
    /\ UNCHANGED <<rows, starts, retried, rescued, grace, robbed, busy>>

Restart(p) ==
    /\ proc[p] = "killed"
    /\ proc' = [proc EXCEPT ![p] = "up"]
    /\ \E all \in RecoverAll : Recover(all)
    /\ UNCHANGED <<worker, held, read, starts, retried, grace, busy, timerVars, kills>>

Next ==
    \/ Script
    \/ \E p \in Procs : \/ SetTimers(p) \/ Clock(p) \/ TimerThread(p)
                       \/ CloseStore(p) \/ BeginExit(p) \/ EndExit(p)
    \/ \E p \in JobProcs : LoopPass(p) \/ PassStep(p) \/ PassBusy(p) \/ Kill(p) \/ Restart(p)

Spec == Init /\ [][Next]_vars

TypeOK ==
    /\ JobsTypeOK /\ TimersTypeOK
    /\ proc \in [JobProcs -> {"up", "stopping", "closed", "exited", "killed"}]
    /\ kills \in Nat

=============================================================================
