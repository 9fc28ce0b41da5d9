--------------------------- MODULE FiberScheduler ---------------------------
(***************************************************************************)
(* The cooperative fiber scheduler of one HTTP worker thread               *)
(* (cpp/src/fiber_posix.cpp): run_one, run_until_complete, resume_fiber,   *)
(* suspend_current, wait_readable_tmo, and the shared thread pool behind   *)
(* fiber_offload.                                                          *)
(*                                                                         *)
(* One thread runs the scheduler and, inside run_one, the fibers.  The     *)
(* other actors are the offload threads, the peers that make sockets       *)
(* readable and the clock.  An action is one critical section of mtx_ (or  *)
(* of the offload pool's mutex) together with the thread-local work around *)
(* it: whatever another thread may do between two critical sections is an  *)
(* interleaving here.                                                      *)
(*                                                                         *)
(* A fiber waits on its own socket, so a key of fd_to_fiber_ and           *)
(* fd_deadline_ is <<"fd", f>>, or <<"timer", f>> for the synthetic keys   *)
(* of pure timers.  The eventfd counter is abstracted to zero / non-zero.  *)
(***************************************************************************)
EXTENDS Naturals, Sequences, FiniteSets

CONSTANTS
    Fibers,    \* the Fiber objects, each spawned at most once
    Workers,   \* the threads of the offload pool
    NoFiber    \* the null shared_ptr<Fiber>

EvFd == "evfd"   \* the eventfd as an entry of events[]

ASSUME FiberAssumption == /\ NoFiber \notin Fibers
                          /\ EvFd \notin Fibers
                          /\ NoFiber # EvFd

VARIABLES
    \* FiberScheduler
    ready,           \* ready_: FIFO of fibers
    waiting,         \* waiting_: number of entries of each fiber
    fd_to_fiber,     \* keys registered in fd_to_fiber_
    fd_deadline,     \* fd_deadline_: "none", "armed" or "due" (deadline <= now)
    interest,        \* fds armed (EPOLLONESHOT) in epfd_
    evfd,            \* eventfd counter # 0
    \* the scheduler thread
    pc,              \* where in run_until_complete / run_one it is
    cur,             \* the fiber resumed by run_one
    block,           \* epoll_wait was called with timeout_ms > 0
    events,          \* events[] still to be handled in this round
    resuming,        \* local f between its two critical sections
    expired,         \* keys of the local vector expired
    \* Fiber
    sched_state, pending_resume, done, io_timed_out,
    \* the code running in the fiber
    op,              \* the blocking call it is in
    result,          \* what its last wait_readable_tmo returned
    readable,        \* its socket has data
    job_done,        \* the local flag done of fiber_offload_run
    \* OffloadPool
    jobs,            \* q: FIFO of posted jobs, named by their fiber
    job,             \* the job a worker is running
    job_ran          \* that job has stored done = true

schedVars  == <<ready, waiting, fd_to_fiber, fd_deadline, interest, evfd>>
threadVars == <<pc, cur, block, events, resuming, expired>>
fiberVars  == <<sched_state, pending_resume, done, io_timed_out>>
codeVars   == <<op, result, readable, job_done>>
poolVars   == <<jobs, job, job_ran>>
vars == <<schedVars, threadVars, fiberVars, codeVars, poolVars>>

Keys == {"fd", "timer"} \X Fibers
SchedStates == {"NEW", "READY", "RUNNING", "SUSPENDING", "WAITING", "DONE"}
Ops == {"compute", "fd", "timer", "posted", "offload"}
Locations == {"idle", "pick", "run", "ret", "slice", "check", "poll", "epoll",
              "events", "resume", "sweep", "expire"}

Init ==
    /\ ready = <<>>
    /\ waiting = [f \in Fibers |-> 0]
    /\ fd_to_fiber = {}
    /\ fd_deadline = [k \in Keys |-> "none"]
    /\ interest = {}
    /\ evfd = FALSE
    /\ pc = "idle" /\ cur = NoFiber /\ block = FALSE
    /\ events = {} /\ resuming = NoFiber /\ expired = {}
    /\ sched_state = [f \in Fibers |-> "NEW"]
    /\ pending_resume = [f \in Fibers |-> FALSE]
    /\ done = [f \in Fibers |-> FALSE]
    /\ io_timed_out = [f \in Fibers |-> FALSE]
    /\ op = [f \in Fibers |-> "compute"]
    /\ result = [f \in Fibers |-> "none"]
    /\ readable = [f \in Fibers |-> FALSE]
    /\ job_done = [f \in Fibers |-> FALSE]
    /\ jobs = <<>>
    /\ job = [w \in Workers |-> NoFiber]
    /\ job_ran = [w \in Workers |-> FALSE]

-----------------------------------------------------------------------------
(***************************************************************************)
(* resume_fiber: the only way another thread touches a fiber.  A fiber     *)
(* whose suspension run_one has settled (WAITING) moves to ready_; in any  *)
(* other state only pending_resume_ is left behind.  Both wake the thread. *)
(***************************************************************************)
EraseOne(n) == IF n > 0 THEN n - 1 ELSE 0

MovableSuspending(f) == sched_state[f] \in {"WAITING", "SUSPENDING"}
Movable(f) == sched_state[f] = "WAITING"

MoveToReady(f) ==
    /\ waiting' = [waiting EXCEPT ![f] = EraseOne(@)]
    /\ IF done[f]
       THEN UNCHANGED <<sched_state, ready>>
       ELSE /\ sched_state' = [sched_state EXCEPT ![f] = "READY"]
            /\ ready' = Append(ready, f)
    /\ UNCHANGED pending_resume

LeaveNoFlag(f) == UNCHANGED <<pending_resume, waiting, sched_state, ready>>
LeaveFlag(f) ==
    /\ pending_resume' = [pending_resume EXCEPT ![f] = TRUE]
    /\ UNCHANGED <<waiting, sched_state, ready>>

WakeNobody == UNCHANGED evfd
Wake == evfd' = TRUE

ResumeFiber(f) ==
    /\ \/ Movable(f) /\ MoveToReady(f)
       \/ ~Movable(f) /\ LeaveFlag(f)
    /\ Wake

-----------------------------------------------------------------------------
(***************************************************************************)
(* The scheduler thread.                                                   *)
(***************************************************************************)

\* spawn() creates the fiber and queues it; it does not wake the thread,
\* because it is called on it: by the worker before it runs the scheduler
\* (the acceptor) or by a running fiber (one per accepted connection).
Spawn(f) ==
    /\ sched_state[f] = "NEW"
    /\ sched_state' = [sched_state EXCEPT ![f] = "READY"]
    /\ ready' = Append(ready, f)
    /\ UNCHANGED <<waiting, fd_to_fiber, fd_deadline, interest, evfd, pending_resume,
                   done, io_timed_out, codeVars, poolVars>>

StartWorker(f) ==
    /\ pc = "idle"
    /\ pc' = "pick"
    /\ Spawn(f)
    /\ UNCHANGED <<cur, block, events, resuming, expired>>

AcceptSpawn(f) ==
    /\ pc = "run" /\ op[cur] = "compute"
    /\ Spawn(f)
    /\ UNCHANGED threadVars

\* First half of run_one: take the oldest ready fiber and switch to it.
RunOne ==
    /\ pc = "pick" /\ ready # <<>>
    /\ cur' = Head(ready)
    /\ ready' = Tail(ready)
    /\ sched_state' = [sched_state EXCEPT ![Head(ready)] = "RUNNING"]
    /\ pc' = "run"
    /\ UNCHANGED <<waiting, fd_to_fiber, fd_deadline, interest, evfd, block, events,
                   resuming, expired, pending_resume, done, io_timed_out,
                   codeVars, poolVars>>

RunOneEmpty ==
    /\ pc = "pick" /\ ready = <<>>
    /\ pc' = "check"
    /\ UNCHANGED <<schedVars, cur, block, events, resuming, expired, fiberVars,
                   codeVars, poolVars>>

\* Second half of run_one, after the switch back: the only place that
\* decides where the fiber goes.
SettleDone ==
    /\ done[cur]
    /\ sched_state' = [sched_state EXCEPT ![cur] = "DONE"]
    /\ waiting' = [waiting EXCEPT ![cur] = EraseOne(@)]
    /\ pending_resume' = [pending_resume EXCEPT ![cur] = FALSE]
    /\ UNCHANGED ready

SettleWoken ==
    /\ ~done[cur] /\ sched_state[cur] = "SUSPENDING" /\ pending_resume[cur]
    /\ pending_resume' = [pending_resume EXCEPT ![cur] = FALSE]
    /\ waiting' = [waiting EXCEPT ![cur] = EraseOne(@)]
    /\ sched_state' = [sched_state EXCEPT ![cur] = "READY"]
    /\ ready' = Append(ready, cur)

SettleWaiting ==
    /\ ~done[cur] /\ sched_state[cur] = "SUSPENDING" /\ ~pending_resume[cur]
    /\ sched_state' = [sched_state EXCEPT ![cur] = "WAITING"]
    /\ UNCHANGED <<pending_resume, waiting, ready>>

SettleYield ==
    /\ ~done[cur] /\ sched_state[cur] # "SUSPENDING"
    /\ pending_resume' = [pending_resume EXCEPT ![cur] = FALSE]
    /\ sched_state' = [sched_state EXCEPT ![cur] = "READY"]
    /\ ready' = Append(ready, cur)
    /\ UNCHANGED waiting

Settle ==
    /\ pc = "ret"
    /\ SettleDone \/ SettleWoken \/ SettleWaiting \/ SettleYield
    /\ pc' = "slice"
    /\ cur' = NoFiber
    /\ UNCHANGED <<fd_to_fiber, fd_deadline, interest, evfd, block, events, resuming,
                   expired, done, io_timed_out, codeVars, poolVars>>

\* The inner loop of run_until_complete runs for at most 1 ms.
SliceMore ==
    /\ pc = "slice"
    /\ pc' = "pick"
    /\ UNCHANGED <<schedVars, cur, block, events, resuming, expired, fiberVars,
                   codeVars, poolVars>>

SliceOverWhenIdle ==
    /\ pc = "slice" /\ ready = <<>>
    /\ pc' = "check"
    /\ UNCHANGED <<schedVars, cur, block, events, resuming, expired, fiberVars,
                   codeVars, poolVars>>

SliceOver ==
    /\ pc = "slice"
    /\ pc' = "check"
    /\ UNCHANGED <<schedVars, cur, block, events, resuming, expired, fiberVars,
                   codeVars, poolVars>>

NothingLeft == ready = <<>> /\ \A f \in Fibers : waiting[f] = 0

CheckComplete ==
    /\ pc = "check"
    /\ pc' = IF NothingLeft THEN "idle" ELSE "poll"
    /\ UNCHANGED <<schedVars, cur, block, events, resuming, expired, fiberVars,
                   codeVars, poolVars>>

\* epoll_wait may sleep only when nothing is ready and no deadline is past.
ChooseTimeout ==
    /\ pc = "poll"
    /\ block' = (ready = <<>> /\ \A k \in Keys : fd_deadline[k] # "due")
    /\ pc' = "epoll"
    /\ UNCHANGED <<schedVars, cur, events, resuming, expired, fiberVars,
                   codeVars, poolVars>>

Deliverable == {f \in interest : readable[f]} \cup (IF evfd THEN {EvFd} ELSE {})

\* epoll_wait returns what is deliverable, or nothing once its time is up.
EpollWait ==
    /\ pc = "epoll"
    /\ events' = Deliverable
    /\ pc' = "events"
    /\ UNCHANGED <<schedVars, cur, block, resuming, expired, fiberVars,
                   codeVars, poolVars>>

DrainWakeup ==
    /\ pc = "events" /\ EvFd \in events
    /\ events' = events \ {EvFd}
    /\ evfd' = FALSE
    /\ UNCHANGED <<ready, waiting, fd_to_fiber, fd_deadline, interest, pc, cur, block,
                   resuming, expired, fiberVars, codeVars, poolVars>>

\* An fd event: its registration and its deadline go in one critical section.
FdEvent(f) ==
    /\ pc = "events" /\ f \in events
    /\ events' = events \ {f}
    /\ interest' = interest \ {f}
    /\ fd_to_fiber' = fd_to_fiber \ {<<"fd", f>>}
    /\ fd_deadline' = [fd_deadline EXCEPT ![<<"fd", f>>] = "none"]
    /\ IF <<"fd", f>> \in fd_to_fiber
       THEN resuming' = f /\ pc' = "resume"
       ELSE UNCHANGED <<resuming, pc>>
    /\ UNCHANGED <<ready, waiting, evfd, cur, block, expired, fiberVars, codeVars, poolVars>>

ResumeEvent ==
    /\ pc = "resume"
    /\ ResumeFiber(resuming)
    /\ resuming' = NoFiber
    /\ pc' = "events"
    /\ UNCHANGED <<fd_to_fiber, fd_deadline, interest, cur, block, events, expired,
                   done, io_timed_out, codeVars, poolVars>>

EventsDone ==
    /\ pc = "events" /\ events = {}
    /\ pc' = "sweep"
    /\ UNCHANGED <<schedVars, cur, block, events, resuming, expired, fiberVars,
                   codeVars, poolVars>>

\* Deadline sweep: past deadlines are erased with their registrations...
Sweep ==
    /\ pc = "sweep"
    /\ expired' = {k \in fd_to_fiber : fd_deadline[k] = "due"}
    /\ fd_to_fiber' = {k \in fd_to_fiber : fd_deadline[k] # "due"}
    /\ fd_deadline' = [k \in Keys |-> IF fd_deadline[k] = "due" THEN "none"
                                                                ELSE fd_deadline[k]]
    /\ pc' = "expire"
    /\ UNCHANGED <<ready, waiting, interest, evfd, cur, block, events, resuming,
                   fiberVars, codeVars, poolVars>>

\* ... and then their fibers are resumed one by one, marked as timed out.
Expire(k) ==
    /\ pc = "expire" /\ k \in expired
    /\ expired' = expired \ {k}
    /\ interest' = IF k[1] = "fd" THEN interest \ {k[2]} ELSE interest
    /\ io_timed_out' = [io_timed_out EXCEPT ![k[2]] = TRUE]
    /\ ResumeFiber(k[2])
    /\ UNCHANGED <<fd_to_fiber, fd_deadline, pc, cur, block, events, resuming, done,
                   codeVars, poolVars>>

ExpireDone ==
    /\ pc = "expire" /\ expired = {}
    /\ pc' = "pick"
    /\ UNCHANGED <<schedVars, cur, block, events, resuming, expired, fiberVars,
                   codeVars, poolVars>>

-----------------------------------------------------------------------------
(***************************************************************************)
(* The code inside the running fiber.                                      *)
(***************************************************************************)
Computing == pc = "run" /\ op[cur] = "compute"

\* Fiber::yield without a suspend call: preempt_slow, SqliteClient::on_progress.
Yield ==
    /\ Computing
    /\ pc' = "ret"
    /\ result' = [result EXCEPT ![cur] = "none"]
    /\ UNCHANGED <<schedVars, cur, block, events, resuming, expired, fiberVars,
                   op, readable, job_done, poolVars>>

\* The fiber's function returns (or panics): fiber_trampoline sets done_.
Finish ==
    /\ Computing
    /\ done' = [done EXCEPT ![cur] = TRUE]
    /\ result' = [result EXCEPT ![cur] = "none"]
    /\ pc' = "ret"
    /\ UNCHANGED <<schedVars, cur, block, events, resuming, expired, sched_state,
                   pending_resume, io_timed_out, op, readable, job_done, poolVars>>

\* The fiber empties its socket after wait_readable_tmo returned 1.
Recv ==
    /\ Computing /\ result[cur] = "readable"
    /\ readable' = [readable EXCEPT ![cur] = FALSE]
    /\ result' = [result EXCEPT ![cur] = "none"]
    /\ UNCHANGED <<schedVars, threadVars, fiberVars, op, job_done, poolVars>>

\* wait_readable_tmo up to its yield: register, set the deadline (tmo), join
\* waiting_ and become SUSPENDING in one critical section, then arm epoll.
\* A pure timer has no fd and always has a deadline.
WaitReadableTmo(kind, tmo) ==
    /\ Computing
    /\ kind = "timer" => tmo
    /\ fd_to_fiber' = fd_to_fiber \cup {<<kind, cur>>}
    /\ fd_deadline' = IF tmo THEN [fd_deadline EXCEPT ![<<kind, cur>>] = "armed"]
                             ELSE fd_deadline
    /\ waiting' = [waiting EXCEPT ![cur] = @ + 1]
    /\ sched_state' = [sched_state EXCEPT ![cur] = "SUSPENDING"]
    /\ interest' = IF kind = "fd" THEN interest \cup {cur} ELSE interest
    /\ op' = [op EXCEPT ![cur] = kind]
    /\ result' = [result EXCEPT ![cur] = "none"]
    /\ pc' = "ret"
    /\ UNCHANGED <<ready, evfd, cur, block, events, resuming, expired, pending_resume,
                   done, io_timed_out, readable, job_done, poolVars>>

\* wait_readable_tmo after its yield: 0 when it was resumed by its deadline.
WaitReturn ==
    /\ pc = "run" /\ op[cur] \in {"fd", "timer"}
    /\ result' = [result EXCEPT ![cur] =
                    IF io_timed_out[cur] THEN "timeout" ELSE "readable"]
    /\ io_timed_out' = [io_timed_out EXCEPT ![cur] = FALSE]
    /\ op' = [op EXCEPT ![cur] = "compute"]
    /\ UNCHANGED <<schedVars, threadVars, sched_state, pending_resume, done, readable,
                   job_done, poolVars>>

\* suspend_current
SuspendCurrent ==
    /\ waiting' = [waiting EXCEPT ![cur] = @ + 1]
    /\ sched_state' = [sched_state EXCEPT ![cur] = "SUSPENDING"]
    /\ pc' = "ret"
    /\ UNCHANGED <<ready, fd_to_fiber, fd_deadline, interest, evfd, cur, block, events,
                   resuming, expired, pending_resume, done, io_timed_out, readable,
                   job_done, poolVars>>

\* fiber_offload_run: post the job, then suspend at least once ...
OffloadPost ==
    /\ Computing
    /\ jobs' = Append(jobs, cur)
    /\ job_done' = [job_done EXCEPT ![cur] = FALSE]
    /\ op' = [op EXCEPT ![cur] = "posted"]
    /\ result' = [result EXCEPT ![cur] = "none"]
    /\ UNCHANGED <<schedVars, threadVars, fiberVars, readable, job, job_ran>>

OffloadTestFirst ==
    /\ pc = "run" /\ op[cur] = "posted"
    /\ \/ ~job_done[cur] /\ op' = [op EXCEPT ![cur] = "offload"] /\ SuspendCurrent
       \/ /\ job_done[cur] /\ op' = [op EXCEPT ![cur] = "compute"]
          /\ UNCHANGED <<schedVars, threadVars, fiberVars, readable, job_done, poolVars>>
    /\ UNCHANGED result

OffloadSuspend ==
    /\ pc = "run" /\ op[cur] = "posted"
    /\ op' = [op EXCEPT ![cur] = "offload"]
    /\ SuspendCurrent
    /\ UNCHANGED result

\* ... and again for as long as the job has not set done.
OffloadTest ==
    /\ pc = "run" /\ op[cur] = "offload"
    /\ IF job_done[cur]
       THEN /\ op' = [op EXCEPT ![cur] = "compute"]
            /\ UNCHANGED <<schedVars, threadVars, fiberVars, readable, job_done, poolVars>>
       ELSE SuspendCurrent /\ UNCHANGED op
    /\ UNCHANGED result

-----------------------------------------------------------------------------
(***************************************************************************)
(* The offload threads, the peers and the clock.                           *)
(***************************************************************************)
OffloadTake(w) ==
    /\ job[w] = NoFiber /\ jobs # <<>>
    /\ job' = [job EXCEPT ![w] = Head(jobs)]
    /\ jobs' = Tail(jobs)
    /\ UNCHANGED <<schedVars, threadVars, fiberVars, codeVars, job_ran>>

\* The job ran (or threw into err) and stores done = true.
OffloadStore(w) ==
    /\ job[w] # NoFiber /\ ~job_ran[w]
    /\ job_done' = [job_done EXCEPT ![job[w]] = TRUE]
    /\ job_ran' = [job_ran EXCEPT ![w] = TRUE]
    /\ UNCHANGED <<schedVars, threadVars, fiberVars, op, result, readable, jobs, job>>

OffloadResume(w) ==
    /\ job[w] # NoFiber /\ job_ran[w]
    /\ ResumeFiber(job[w])
    /\ job' = [job EXCEPT ![w] = NoFiber]
    /\ job_ran' = [job_ran EXCEPT ![w] = FALSE]
    /\ UNCHANGED <<fd_to_fiber, fd_deadline, interest, threadVars, done, io_timed_out,
                   codeVars, jobs>>

DataArrives(f) ==
    /\ sched_state[f] \notin {"NEW", "DONE"} /\ ~readable[f]
    /\ readable' = [readable EXCEPT ![f] = TRUE]
    /\ UNCHANGED <<schedVars, threadVars, fiberVars, op, result, job_done, poolVars>>

DeadlinePasses(k) ==
    /\ fd_deadline[k] = "armed"
    /\ fd_deadline' = [fd_deadline EXCEPT ![k] = "due"]
    /\ UNCHANGED <<ready, waiting, fd_to_fiber, interest, evfd, threadVars, fiberVars,
                   codeVars, poolVars>>

-----------------------------------------------------------------------------
Loop ==
    \/ RunOne \/ RunOneEmpty \/ Settle \/ CheckComplete \/ ChooseTimeout
    \/ EpollWait \/ DrainWakeup \/ ResumeEvent \/ EventsDone \/ Sweep \/ ExpireDone
    \/ \E f \in Fibers : FdEvent(f)
    \/ \E k \in Keys : Expire(k)

Slice == SliceMore \/ SliceOver

Code ==
    \/ Yield \/ Finish \/ Recv \/ WaitReturn
    \/ OffloadPost \/ OffloadSuspend \/ OffloadTest
    \/ \E kind \in {"fd", "timer"}, tmo \in BOOLEAN : WaitReadableTmo(kind, tmo)
    \/ \E f \in Fibers : AcceptSpawn(f)

Worker(w) == OffloadTake(w) \/ OffloadStore(w) \/ OffloadResume(w)

Environment ==
    \/ \E f \in Fibers : DataArrives(f)
    \/ \E k \in Keys : DeadlinePasses(k)

Next ==
    \/ \E f \in Fibers : StartWorker(f)
    \/ Loop \/ Slice \/ Code
    \/ \E w \in Workers : Worker(w)
    \/ Environment

Spec == Init /\ [][Next]_vars

-----------------------------------------------------------------------------
(***************************************************************************)
(* Properties.                                                             *)
(***************************************************************************)

\* The type of every variable.
TypeOK ==
    /\ ready \in Seq(Fibers)
    /\ waiting \in [Fibers -> Nat]
    /\ fd_to_fiber \subseteq Keys
    /\ fd_deadline \in [Keys -> {"none", "armed", "due"}]
    /\ interest \subseteq Fibers
    /\ evfd \in BOOLEAN
    /\ pc \in Locations
    /\ cur \in Fibers \cup {NoFiber}
    /\ block \in BOOLEAN
    /\ events \subseteq Fibers \cup {EvFd}
    /\ resuming \in Fibers \cup {NoFiber}
    /\ expired \subseteq Keys
    /\ sched_state \in [Fibers -> SchedStates]
    /\ pending_resume \in [Fibers -> BOOLEAN]
    /\ done \in [Fibers -> BOOLEAN]
    /\ io_timed_out \in [Fibers -> BOOLEAN]
    /\ op \in [Fibers -> Ops]
    /\ result \in [Fibers -> {"none", "readable", "timeout"}]
    /\ readable \in [Fibers -> BOOLEAN]
    /\ job_done \in [Fibers -> BOOLEAN]
    /\ jobs \in Seq(Fibers)
    /\ job \in [Workers -> Fibers \cup {NoFiber}]
    /\ job_ran \in [Workers -> BOOLEAN]

InReady(f) == \E i \in DOMAIN ready : ready[i] = f

\* Somebody still holds a resume_fiber(f) it has not made yet: a registration
\* in fd_to_fiber_, the event or expiry being handled, or an offload job.
Queued(f)   == \E i \in DOMAIN jobs : jobs[i] = f
Offloaded(f) == \E w \in Workers : job[w] = f
HasWaker(f) ==
    \/ \E kind \in {"fd", "timer"} : <<kind, f>> \in fd_to_fiber \cup expired
    \/ resuming = f
    \/ Queued(f)
    \/ Offloaded(f)

Suspended(f) == sched_state[f] \in {"SUSPENDING", "WAITING"}

\* A fiber is queued for running at most once, never while it is suspended,
\* running or finished, and has one entry in waiting_ exactly while it is
\* suspended (fiber.h: entering ready_ twice is "structurally impossible").
ReadyOnce ==
    /\ \A i, j \in DOMAIN ready : ready[i] = ready[j] => i = j
    /\ \A f \in Fibers :
        /\ InReady(f) <=> sched_state[f] = "READY"
        /\ waiting[f] = IF Suspended(f) THEN 1 ELSE 0

\* A suspended fiber that has not been woken will be: no suspension can miss
\* its wake-up, whichever thread called resume_fiber and however early.
NoStrandedFiber ==
    \A f \in Fibers : Suspended(f) /\ ~pending_resume[f] => HasWaker(f)

\* Together: whatever thread resumes it and however early, a fiber is in one
\* place only, and never in one it cannot get out of.
FiberInOnePlace == ReadyOnce /\ NoStrandedFiber

\* A fiber that is back in its own code leaves nothing behind that could wake
\* a later, unrelated wait, or write to the frame of a call it has left: no
\* flag, registration, deadline or epoll interest, and no offload job.
NoStaleWake ==
    \A f \in Fibers : op[f] = "compute" =>
        /\ ~pending_resume[f] /\ ~io_timed_out[f]
        /\ ~HasWaker(f)
        /\ f \notin interest
        /\ \A kind \in {"fd", "timer"} : fd_deadline[<<kind, f>>] = "none"

\* wait_readable_tmo returns 1 only with data to read, and a pure timer or an
\* idle wait is released by its deadline alone (fiber.h: 1 = readable, 0 =
\* timed out, fd not readable when the deadline resumed it).
WaitHonest ==
    \A f \in Fibers :
        /\ result[f] = "readable" => readable[f]
        /\ op[f] \in {"fd", "timer"} /\ sched_state[f] \in {"READY", "RUNNING"} =>
              io_timed_out[f] \/ (op[f] = "fd" /\ readable[f])

\* Together: a fiber is woken by its own wait's event, deadline or job, and
\* by nothing that was meant for a wait it has left.
OwnWakeOnly == NoStaleWake /\ WaitHonest

\* The thread never sleeps in epoll_wait on a non-empty ready_ without the
\* eventfd being about to wake it.
NoLostWakeup == pc = "epoll" /\ block /\ ready # <<>> => evfd

-----------------------------------------------------------------------------
(***************************************************************************)
(* Liveness.  The thread and the offload threads are scheduled by the OS,  *)
(* fiber code reaches a yield (preempt_point), the 1 ms slice ends because *)
(* the clock advances, and so do deadlines.  Peers owe nothing.            *)
(***************************************************************************)
Fairness ==
    /\ WF_vars(Loop) /\ WF_vars(Slice) /\ WF_vars(Code)
    /\ SF_vars(SliceOver)
    /\ \A w \in Workers : WF_vars(Worker(w))
    /\ \A k \in Keys : WF_vars(DeadlinePasses(k))

FairSpec == Spec /\ Fairness

\* Every wait that has a reason to end ends: a readable socket, a deadline and
\* an offload job each give the fiber back its turn, even while other fibers
\* keep yielding and re-entering ready_.
WaitEnds ==
    \A f \in Fibers :
        (/\ op[f] # "compute"
         /\ op[f] = "fd" => readable[f] \/ fd_deadline[<<"fd", f>>] # "none")
        ~> op[f] = "compute"

-----------------------------------------------------------------------------
(***************************************************************************)
(* Implementation of FiberPark.  A fiber is parked while it is suspended   *)
(* and no resume has reached it; pending_resume_ of a running fiber is its *)
(* permit.                                                                 *)
(***************************************************************************)
ParkStatus(f) ==
    CASE sched_state[f] = "NEW"                 -> "new"
      [] done[f]                                -> "finished"
      [] Suspended(f) /\ ~pending_resume[f]     -> "parked"
      [] OTHER                                  -> "active"

Abstract == INSTANCE FiberPark WITH
    status <- [f \in Fibers |-> ParkStatus(f)],
    permit <- [f \in Fibers |-> sched_state[f] = "RUNNING" /\ pending_resume[f]],
    waker  <- [f \in Fibers |-> HasWaker(f)]

\* The scheduler implements the park contract: every waker handed out resumes
\* its fiber exactly once, whichever state resume_fiber finds it in, and a
\* fiber runs again for no other reason.
ImplementsPark == Abstract!ParkSpec

=============================================================================
