------------------------------- MODULE Timers -------------------------------
(***************************************************************************)
(* The timer manager (cpp/src/timer_stdlib.cpp): one thread per process    *)
(* that sleeps until the earliest timer, collects what is due under mtx_   *)
(* and runs the callbacks after it has let go of it.                       *)
(*                                                                         *)
(* Time is the step that makes an armed timer due; the thread's deadline   *)
(* is the set of timers it was computed from.  JobWorkers puts one manager *)
(* in each process.                                                        *)
(***************************************************************************)
EXTENDS Naturals, Sequences, FiniteSets

CONSTANTS
    Procs,       \* the processes
    TimerIds,    \* the timers a process may set up
    Repeating    \* those made by timer::every

ASSUME TimerAssumption ==
    /\ IsFiniteSet(TimerIds) /\ TimerIds \subseteq Nat
    /\ Repeating \subseteq TimerIds

VARIABLES
    entries,    \* what has become of each timer
    running,    \* running_
    dirty,      \* dirty_
    notified,   \* the sleeping thread has been signalled
    place,      \* where the thread is
    deadline,   \* the timers its time-out was computed from
    batch,      \* callbacks collected, not yet run; the first is being run
    cancelled,  \* timers for which cancel() has returned
    after       \* how many of their callbacks have started since

timerVars == <<entries, running, dirty, notified, place, deadline, batch, cancelled,
               after>>

ThreadPlaces == {"top", "tested", "sleep", "batch", "callback", "gone"}
EntryStates == {"unused", "armed", "due", "erased"}

\* The timers in entries_.
Listed(p) == {i \in TimerIds : entries[p][i] \in {"armed", "due"}}
Due(p) == {i \in TimerIds : entries[p][i] = "due"}

TimerInit ==
    /\ entries = [p \in Procs |-> [i \in TimerIds |-> "unused"]]
    /\ running = [p \in Procs |-> TRUE]
    /\ dirty = [p \in Procs |-> FALSE]
    /\ notified = [p \in Procs |-> FALSE]
    /\ place = [p \in Procs |-> "top"]
    /\ deadline = [p \in Procs |-> {}]
    /\ batch = [p \in Procs |-> <<>>]
    /\ cancelled = [p \in Procs |-> {}]
    /\ after = [p \in Procs |-> [i \in TimerIds |-> 0]]

\* A new process: nothing is left of the manager of the old one.
TimerReset(p) ==
    /\ entries' = [entries EXCEPT ![p] = [i \in TimerIds |-> "unused"]]
    /\ running' = [running EXCEPT ![p] = TRUE]
    /\ dirty' = [dirty EXCEPT ![p] = FALSE]
    /\ notified' = [notified EXCEPT ![p] = FALSE]
    /\ place' = [place EXCEPT ![p] = "top"]
    /\ deadline' = [deadline EXCEPT ![p] = {}]
    /\ batch' = [batch EXCEPT ![p] = <<>>]
    /\ cancelled' = [cancelled EXCEPT ![p] = {}]
    /\ after' = [after EXCEPT ![p] = [i \in TimerIds |-> 0]]

\* Between its test and its sleep the thread holds mtx_.
MtxFree(p) == place[p] # "tested"

\* cv_.notify_one: lost unless the thread sleeps.
Notify(p) == notified' = [notified EXCEPT ![p] = @ \/ place[p] = "sleep"]

\* timer::after, timer::every.
Add(p, i) ==
    /\ entries[p][i] = "unused" /\ MtxFree(p)
    /\ entries' = [entries EXCEPT ![p][i] = "armed"]
    /\ dirty' = [dirty EXCEPT ![p] = TRUE]
    /\ Notify(p)
    /\ UNCHANGED <<running, place, deadline, batch, cancelled, after>>

\* Variant: an entry that is due is left to the thread.
CancelNotDue(p, i) ==
    /\ entries[p][i] # "unused" /\ i \notin cancelled[p] /\ MtxFree(p)
    /\ entries' = [entries EXCEPT ![p][i] = IF @ = "due" THEN @ ELSE "erased"]
    /\ cancelled' = [cancelled EXCEPT ![p] = @ \cup {i}]
    /\ dirty' = [dirty EXCEPT ![p] = TRUE]
    /\ Notify(p)
    /\ UNCHANGED <<running, place, deadline, batch, after>>

\* timer::cancel, by the script or by a callback; also of a timer that has
\* fired and left the map.
Cancel(p, i) ==
    /\ entries[p][i] # "unused" /\ i \notin cancelled[p] /\ MtxFree(p)
    /\ entries' = [entries EXCEPT ![p][i] = "erased"]
    /\ cancelled' = [cancelled EXCEPT ![p] = @ \cup {i}]
    /\ dirty' = [dirty EXCEPT ![p] = TRUE]
    /\ Notify(p)
    /\ UNCHANGED <<running, place, deadline, batch, after>>

\* Variant: the flag written without mtx_.
ShutdownUnlocked(p) ==
    /\ running[p]
    /\ running' = [running EXCEPT ![p] = FALSE]
    /\ Notify(p)
    /\ UNCHANGED <<entries, dirty, place, deadline, batch, cancelled, after>>

\* TimerManager::shutdown up to the join, which waits for place = "gone".
Shutdown(p) ==
    /\ running[p] /\ MtxFree(p)
    /\ running' = [running EXCEPT ![p] = FALSE]
    /\ Notify(p)
    /\ UNCHANGED <<entries, dirty, place, deadline, batch, cancelled, after>>

\* The clock reaches a timer's next_fire.
TimePasses(p, i) ==
    /\ entries[p][i] = "armed"
    /\ entries' = [entries EXCEPT ![p][i] = "due"]
    /\ UNCHANGED <<running, dirty, notified, place, deadline, batch, cancelled, after>>

-----------------------------------------------------------------------------
(***************************************************************************)
(* TimerManager::run.                                                      *)
(***************************************************************************)

\* A set of timers in the order of the identifiers, the order of entries_.
InOrder(S) == {s \in [1 .. Cardinality(S) -> S] : \A m, n \in DOMAIN s : m < n => s[m] < s[n]}

\* Under mtx_: callbacks of what is due, in that order; repeating timers are
\* armed again, the others leave the map.
Collect(p) ==
    /\ \E s \in InOrder(Due(p)) : batch' = [batch EXCEPT ![p] = s]
    /\ entries' = [entries EXCEPT ![p] = [i \in TimerIds |->
                      IF i \notin Due(p) THEN @[i]
                      ELSE IF i \in Repeating THEN "armed" ELSE "erased"]]
    /\ place' = [place EXCEPT ![p] = "batch"]

\* The top of the loop: the deadline, dirty_ cleared, and wait_until's first
\* look at its predicate.
Test(p) ==
    /\ place[p] = "top"
    /\ dirty' = [dirty EXCEPT ![p] = FALSE]
    /\ \/ /\ ~running[p]
          /\ place' = [place EXCEPT ![p] = "gone"]
          /\ UNCHANGED <<entries, batch, deadline>>
       \/ /\ running[p] /\ Due(p) # {}
          /\ Collect(p)
          /\ UNCHANGED deadline
       \/ /\ running[p] /\ Due(p) = {}
          /\ deadline' = [deadline EXCEPT ![p] = Listed(p)]
          /\ place' = [place EXCEPT ![p] = "tested"]
          /\ UNCHANGED <<entries, batch>>
    /\ UNCHANGED <<running, notified, cancelled, after>>

Sleep(p) ==
    /\ place[p] = "tested"
    /\ place' = [place EXCEPT ![p] = "sleep"]
    /\ notified' = [notified EXCEPT ![p] = FALSE]
    /\ UNCHANGED <<entries, running, dirty, deadline, batch, cancelled, after>>

\* wait_until returns when it was signalled and its predicate holds, or at
\* its deadline, at most 30 seconds away.  A signal without the predicate
\* sends the thread back to sleep with the deadline it has.
Wake(p) ==
    /\ place[p] = "sleep"
    /\ notified' = [notified EXCEPT ![p] = FALSE]
    /\ \/ /\ ~running[p]
          /\ place' = [place EXCEPT ![p] = "gone"]
          /\ UNCHANGED <<entries, batch, deadline>>
       \/ /\ running[p]
          /\ Collect(p)
          /\ deadline' = [deadline EXCEPT ![p] = {}]
       \/ /\ notified[p] /\ running[p] /\ ~dirty[p] /\ Due(p) = {}
          /\ UNCHANGED <<entries, batch, deadline, place>>
    /\ UNCHANGED <<running, dirty, cancelled, after>>

StartCallback(p) ==
    /\ place[p] = "batch" /\ batch[p] # <<>>
    /\ place' = [place EXCEPT ![p] = "callback"]
    /\ after' = [after EXCEPT ![p][Head(batch[p])] =
                    IF Head(batch[p]) \in cancelled[p] THEN @ + 1 ELSE @]
    /\ UNCHANGED <<entries, running, dirty, notified, deadline, batch, cancelled>>

EndCallback(p) ==
    /\ place[p] = "callback"
    /\ batch' = [batch EXCEPT ![p] = Tail(@)]
    /\ place' = [place EXCEPT ![p] = "batch"]
    /\ UNCHANGED <<entries, running, dirty, notified, deadline, cancelled, after>>

BatchDone(p) ==
    /\ place[p] = "batch" /\ batch[p] = <<>>
    /\ place' = [place EXCEPT ![p] = "top"]
    /\ UNCHANGED <<entries, running, dirty, notified, deadline, batch, cancelled, after>>

-----------------------------------------------------------------------------
TimersTypeOK ==
    /\ entries \in [Procs -> [TimerIds -> EntryStates]]
    /\ running \in [Procs -> BOOLEAN]
    /\ dirty \in [Procs -> BOOLEAN]
    /\ notified \in [Procs -> BOOLEAN]
    /\ place \in [Procs -> ThreadPlaces]
    /\ deadline \in [Procs -> SUBSET TimerIds]
    /\ batch \in [Procs -> Seq(TimerIds)]
    /\ cancelled \in [Procs -> SUBSET TimerIds]
    /\ after \in [Procs -> [TimerIds -> Nat]]

\* A timer set while the manager sleeps must not run up to 30 seconds late,
\* and an exit must not hang that long: a thread that sleeps without having
\* been signalled has a deadline that reckons with every timer in the map,
\* and nobody has told it to stop.
SleepCovers ==
    \A p \in Procs : place[p] = "sleep" /\ ~notified[p] =>
        running[p] /\ Listed(p) \subseteq deadline[p]

\* A callback is copied and runs without the lock: a cancel() that has
\* returned may be followed by one run of it, and never by a second.
CancelHolds == \A p \in Procs, i \in TimerIds : after[p][i] <= 1

=============================================================================
