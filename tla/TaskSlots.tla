----------------------------- MODULE TaskSlots -----------------------------
(***************************************************************************)
(* parallel(): the slots of detached tasks (cpp/src/parallel_runtime.cpp)  *)
(* and their callers: the spawn paths of the two engines                   *)
(* (cpp/src/interpreter.cpp and the PARALLEL_CALL opcode of                *)
(* cpp/src/vm.cpp), parallel::wait and the drain of main().                *)
(*                                                                         *)
(* A call is split at every access to the atomic s_count and at every      *)
(* operation on s_mtx and s_cv.  Only THROW, the mode both engines use, is *)
(* modelled: no code calls task_acquire with WAIT or TRY.                  *)
(***************************************************************************)
EXTENDS Integers, FiniteSets

CONSTANTS
    Handlers,   \* threads that run script code and own no slot
    Tasks,      \* the threads parallel() may create; a bound on their number
    Limit,      \* task_limit()
    MayFail,    \* engines whose spawn may throw after task_acquire
    CommandLine \* TRUE: one script, whose thread drains and exits

ASSUME SlotAssumption == /\ IsFiniteSet(Handlers) /\ IsFiniteSet(Tasks)
                         /\ Handlers \cap Tasks = {}
                         /\ Limit \in Nat \ {0}
                         /\ MayFail \subseteq {"interpreter", "vm"}
                         /\ CommandLine \in BOOLEAN

Threads == Handlers \cup Tasks
Engines == {"interpreter", "vm"}

VARIABLES
    s_count,   \* the atomic counter
    pc,        \* where each thread is
    val,       \* the thread's local: prev of task_acquire, remaining of task_release
    back,      \* where the thread's task_release returns to
    drained    \* what the thread's last task_wait answered

slotVars == <<s_count, pc, val, back, drained>>

\* A task thread is unborn, or has ended; a thread runs script code ("body"),
\* has done its fetch_add ("added"), has a slot and builds the task thread
\* ("building"), calls task_release ("releasing"), has done the fetch_sub
\* ("subbed") and may still have to notify all ("notify"), is in task_wait
\* before or after sleeping ("waiting"), has found tasks running ("checked",
\* s_mtx held), sleeps, or has left main().
Places == {"unborn", "body", "added", "building", "releasing", "subbed",
           "notify", "waiting", "checked", "asleep", "ended", "exited"}

InitSlots ==
    /\ s_count = 0
    /\ pc = [t \in Threads |-> IF t \in Handlers THEN "body" ELSE "unborn"]
    /\ val = [t \in Threads |-> 0]
    /\ back = [t \in Threads |-> "body"]
    /\ drained = [t \in Threads |-> FALSE]

Goto(t, p) == pc' = [pc EXCEPT ![t] = p]

-----------------------------------------------------------------------------
(***************************************************************************)
(* parallel(fn).                                                           *)
(***************************************************************************)

\* The bound on task threads: one is left for every call under way.
RoomForTask == Cardinality({u \in Threads : pc[u] \in {"added", "building"}})
                 < Cardinality({k \in Tasks : pc[k] = "unborn"})

\* task_acquire: fetch_add first, look at the old value afterwards.
FetchAdd(t) ==
    /\ pc[t] = "body" /\ RoomForTask
    /\ s_count' = s_count + 1
    /\ val' = [val EXCEPT ![t] = s_count]
    /\ Goto(t, "added")
    /\ UNCHANGED <<back, drained>>

\* Variant: one task more than the limit.
WithinOffByOne(t) == val[t] <= Limit
Within(t) == val[t] < Limit

Acquired(t) ==
    /\ pc[t] = "added" /\ Within(t)
    /\ Goto(t, "building")
    /\ UNCHANGED <<s_count, val, back, drained>>

\* Over the limit: fetch_sub and throw.  The script catches it or ends.
Refused(t) ==
    /\ pc[t] = "added" /\ ~Within(t)
    /\ s_count' = s_count - 1
    /\ Goto(t, "body")
    /\ UNCHANGED <<val, back, drained>>

\* Variant: the spawning thread gives the slot back as well.
StartThenRelease(t, k) ==
    /\ pc[t] = "building"
    /\ pc[k] = "unborn"
    /\ pc' = [pc EXCEPT ![t] = "releasing", ![k] = "body"]
    /\ back' = [back EXCEPT ![t] = "body"]
    /\ UNCHANGED <<s_count, val, drained>>

\* The engine copies its state and starts the detached thread, which owns
\* the slot from here on.
Start(t, k) ==
    /\ pc[t] = "building"
    /\ pc[k] = "unborn"
    /\ pc' = [pc EXCEPT ![t] = "body", ![k] = "body"]
    /\ UNCHANGED <<s_count, val, back, drained>>

\* Variant: neither engine has the catch.
BuildFailsNoCatch(t) ==
    /\ pc[t] = "building"
    /\ Goto(t, "body")
    /\ UNCHANGED <<s_count, val, back, drained>>

\* The copy or the thread construction throws.  The interpreter's catch
\* calls task_release; PARALLEL_CALL has no such catch.
BuildFails(t) ==
    /\ pc[t] = "building"
    /\ \E e \in MayFail : Goto(t, IF e = "interpreter" THEN "releasing" ELSE "body")
    /\ back' = [back EXCEPT ![t] = "body"]
    /\ UNCHANGED <<s_count, val, drained>>

\* The task's function returns or throws; TaskGuard is destroyed last.
BodyEnds(t) ==
    /\ t \in Tasks
    /\ pc[t] = "body"
    /\ Goto(t, "releasing")
    /\ back' = [back EXCEPT ![t] = "ended"]
    /\ UNCHANGED <<s_count, val, drained>>

-----------------------------------------------------------------------------
(***************************************************************************)
(* task_release.                                                           *)
(***************************************************************************)
FetchSub(t) ==
    /\ pc[t] = "releasing"
    /\ s_count' = s_count - 1
    /\ val' = [val EXCEPT ![t] = s_count - 1]
    /\ Goto(t, "subbed")
    /\ UNCHANGED <<back, drained>>

Asleep == {t \in Threads : pc[t] = "asleep"}

\* notify_one, without s_mtx: it may wake a thread or find none asleep.
Woken(S, t, p) == [u \in Threads |-> IF u \in S THEN "waiting"
                                     ELSE IF u = t THEN p ELSE pc[u]]
NotifyOne(t) ==
    /\ pc[t] = "subbed"
    /\ LET next == IF val[t] <= 0 THEN "notify" ELSE back[t]
       IN  IF val[t] < Limit /\ Asleep # {}
           THEN \E u \in Asleep : pc' = Woken({u}, t, next)
           ELSE Goto(t, next)
    /\ UNCHANGED <<s_count, val, back, drained>>

\* Variant: notify_all without s_mtx.
NotifyAllUnlocked(t) ==
    /\ pc[t] = "notify"
    /\ pc' = Woken(Asleep, t, back[t])
    /\ UNCHANGED <<s_count, val, back, drained>>

\* notify_all under s_mtx, which only a thread between its check and its
\* sleep keeps.
MutexFree == \A u \in Threads : pc[u] # "checked"

NotifyAll(t) ==
    /\ pc[t] = "notify" /\ MutexFree
    /\ pc' = Woken(Asleep, t, back[t])
    /\ UNCHANGED <<s_count, val, back, drained>>

-----------------------------------------------------------------------------
(***************************************************************************)
(* task_wait: parallel::wait, and main() when its script has ended.        *)
(***************************************************************************)
WaitCall(t) ==
    /\ pc[t] = "body"
    /\ Goto(t, "waiting")
    /\ UNCHANGED <<s_count, val, back, drained>>

AfterWait(t) == IF CommandLine /\ t \in Handlers THEN "exited" ELSE "body"

\* The predicate, evaluated with s_mtx held, says that nothing runs.
WaitDone(t) ==
    /\ pc[t] = "waiting" /\ MutexFree
    /\ s_count <= 0
    /\ drained' = [drained EXCEPT ![t] = TRUE]
    /\ Goto(t, AfterWait(t))
    /\ UNCHANGED <<s_count, val, back>>

WaitCheck(t) ==
    /\ pc[t] = "waiting" /\ MutexFree
    /\ s_count > 0
    /\ Goto(t, "checked")
    /\ UNCHANGED <<s_count, val, back, drained>>

\* The condition variable gives s_mtx back and sleeps.
WaitSleep(t) ==
    /\ pc[t] = "checked"
    /\ Goto(t, "asleep")
    /\ UNCHANGED <<s_count, val, back, drained>>

\* timeout_ms has passed: wait_for answers with the predicate.
WaitTimeout(t) ==
    /\ pc[t] = "asleep" /\ MutexFree
    /\ drained' = [drained EXCEPT ![t] = (s_count <= 0)]
    /\ Goto(t, AfterWait(t))
    /\ UNCHANGED <<s_count, val, back>>

-----------------------------------------------------------------------------
Spawn(t) == \/ FetchAdd(t) \/ Acquired(t) \/ Refused(t)
            \/ \E k \in Tasks : Start(t, k)
            \/ BuildFails(t)
ReleaseSlot(t) == FetchSub(t) \/ NotifyOne(t) \/ NotifyAll(t)
Wait(t) == WaitCall(t) \/ WaitDone(t) \/ WaitCheck(t) \/ WaitSleep(t)

NextSlots == \E t \in Threads : \/ Spawn(t) \/ BodyEnds(t) \/ ReleaseSlot(t)
                           \/ Wait(t) \/ WaitTimeout(t)

SpecSlots == InitSlots /\ [][NextSlots]_slotVars

-----------------------------------------------------------------------------
(***************************************************************************)
(* Properties.                                                             *)
(***************************************************************************)

\* Every variable keeps its type; no release is without its acquire, so the
\* counter is never negative.
SlotsTypeOK ==
    /\ s_count \in Nat
    /\ pc \in [Threads -> Places]
    /\ val \in [Threads -> Int]
    /\ back \in [Threads -> {"body", "ended"}]
    /\ drained \in [Threads -> BOOLEAN]

\* The tasks that own a slot: from the start of their thread to the
\* fetch_sub of their TaskGuard.
Running == {t \in Tasks : /\ pc[t] \notin {"unborn", "ended"}
                          /\ ~(pc[t] \in {"subbed", "notify"} /\ back[t] = "ended")}

\* The threads that have counted a task which has no thread yet, or never
\* will have one.
Ahead == {t \in Threads : \/ pc[t] \in {"added", "building"}
                          \/ pc[t] = "releasing" /\ back[t] = "body"}

\* The counter is exact at every step, whatever the interleaving of callers
\* that win, callers that are refused and undo their fetch_add, tasks that
\* spawn tasks and spawns that fail: every task_release has its task_acquire
\* and every task_acquire its task_release (parallel_runtime.h, "Always pair
\* with a successful acquire").
SlotsAccounted == s_count = Cardinality(Running) + Cardinality(Ahead)

\* Callers whose fetch_add found a free slot.
Winners == {t \in Ahead : pc[t] = "added" => Within(t)}

\* Never more than task_limit() tasks, although the counter itself passes
\* the limit whenever a refused caller is between fetch_add and fetch_sub.
WithinLimit == Cardinality(Running) + Cardinality(Winners) <= Limit

\* When the drain of main() answers true no task runs script code any more,
\* nor ever will, tasks started by tasks included: the static state main
\* destroys on its way out is not in use.
DrainComplete ==
    \A h \in Handlers : pc[h] = "exited" /\ drained[h] => Running = {} /\ Ahead = {}

\* A thread sleeps in task_wait only while there is a task to wait for or a
\* notify_all on its way: task_wait does "block until all tasks finish", not
\* longer.
NoOversleep ==
    \A t \in Asleep : \/ s_count > 0
                      \/ \E u \in Threads : pc[u] \in {"subbed", "notify"} /\ val[u] <= 0

=============================================================================
