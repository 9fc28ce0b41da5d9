# LOOK: a TLA+ verification of the runtime

LOOK is a scripting language with its own server: an interpreter and a bytecode
virtual machine, a multi-threaded HTTP server with fibers, database clients for
SQLite, MySQL and PostgreSQL behind connection pools, mail servers, background
jobs, sessions and a standard library. The code is C++ under `cpp/src` and
`cpp/include/look`; all source paths below are relative to the repository's root.

This directory holds TLA+ modules translated from that code, TLC
configurations that check them on small instances, and TLAPS proofs of some of
their properties for every instance. `PROJECT.json` is the index: it names the
source lines of every definition, the runs, a mutation of the code model for every
checked property, the hazards of the code and the theorems.

    tlc -workers 2 -config SqliteGate.cfg MCSqliteGate    # one run
    tlapm AdmissionProofs.tla                             # the proofs of one module

## 1. Inventory

| component | state | operations | talks to | hard part |
|---|---|---|---|---|
| Fiber scheduler (`fiber_posix.cpp`, `fiber.h`) | per worker thread: `ready_`, `waiting_`, fd and deadline tables, eventfd; per fiber: `sched_state_`, `pending_resume_` | `spawn`, `run_one`, `run_until_complete`, `wait_readable_tmo`, `suspend_current`, `resume_fiber`, `wake`; offload pool | server, pools, SQLite client (suspend / resume), kernel (epoll) | resumes from other threads while a fiber is switching out; deadlines against events; starvation |
| SQLite client (`sqlite_client.cpp`) | per file: ticket gate `next_`, `serving_`, `abandoned_`; per connection: `gate_held_`, own thread | `gate_before`, `gate_after`, `query`, `execute`, `close` | SQLite, fiber offload | fair queue with timeouts; the gate must be held for a transaction and never longer |
| Connection pools (`web_stdlib.cpp`) | `available`, `cv`, `g_fiber_waiters`, `g_pools`, per-request `active_conns()` | `get_conn`, `acquire`, `release`, `notify_fiber_waiters`, `release_thread_connections`, removal | fibers, database clients | a test under one lock, the registration under another |
| Transactions and clients (`web_stdlib.cpp`, `mysql_client.cpp`, `postgres_client.cpp`) | `tx_depth`, `in_txn_`, `sock_`; the server's session | `db::transaction`, `begin`, `commit`, `rollback`, `exec`; probe, reconnect, resend | pools, database server | a link lost between any two steps; nesting; errors of the closing statement |
| Parallel tasks (`parallel_runtime.cpp`, both engines, `main.cpp`) | `s_count`, `s_mtx`, `s_cv` | `task_acquire`, `task_release`, `task_wait`; `parallel()`, `parallel::wait`, the drain of `main` | interpreter, VM | counter changed before it is tested; failures after the slot; lost notifications |
| HTTP server (`http_server.cpp`) | worker threads, per-address slots, WebSocket and SSE tables | accept, keep-alive loop, upgrade, close | fibers, event loop, dispatch | hand-over of a descriptor between threads |
| Event loop (`event_loop.cpp`) | descriptor table, posted tasks, write buffers, idle watch | `add_client`, `async_read`, `async_write`, `close_fd`, `detach_fd`, `post` | WebSocket, SSE, SMTP | descriptor numbers are reused |
| Dispatch and hot reload (`http_main.cpp`) | application generation, readiness, per-thread copies, token buckets | set-up, reload, dispatch, rate limit | engines, server | readers and a writer; lock-free counters |
| Channels (`interpreter.cpp`) | queue, `recv_gen`, `closed` | `send_val`, `recv_val`, `close_chan` | parallel tasks | rendezvous, timeouts, close |
| Jobs (`jobs_stdlib.cpp`) | a table in SQLite: status, retry count | push, `next`, `done`, `fail`, `recover`, `jobs::run` | several processes | crashes, stale workers |
| Sessions (`session_files.h`, `web_stdlib.cpp`) | one file per session | get, set, regenerate, destroy, sweep | several processes | read-modify-write of whole files |
| Cache, queue, timers | maps under one mutex; the timer thread | set/get/evict; push/pop; add/cancel/fire | all requests | timers: sleep against add, cancel, shutdown |
| SMTP server (`smtp_server.cpp`) | sessions, connection counts, worker queue | accept, commands, delivery, idle limit, close | event loop, worker threads | pipelining, late replies, accounting |
| IMAP server (`imap_server.cpp`) | snapshot of the selected mailbox; Maildir | SELECT, FETCH, STORE, EXPUNGE, IDLE | other sessions through the file system | stale snapshots |
| Engines (`interpreter.cpp`, `compiler.cpp`, `vm.cpp`) | scopes, frames, handlers | statements, calls, try/catch | all | two implementations of one language |
| FastCGI, CGI, HTTP client, Redis, mail, parsers, templates, dates, files, installer, REPL, test runner, logger | mostly per call | I/O and formatting | | sequential |

`PROJECT.json` lists every component with its status. What makes each
correct, in one line:

- fibers: no fiber is lost, run twice or resumed out of the wrong wait; every wait that has a reason to end ends;
- gate: every ticket has one owner; nobody at work inside the process makes another connection busy; writers get their turn;
- pools: a connection is in one place; nobody waits beside a free connection; every request ends;
- transactions: all or nothing, also when the link breaks at the worst moment; the nesting counter is exact;
- tasks: never more than the limit, no slot lost, and a process exits only when no task is alive;
- server and event loop: a descriptor is closed once, by the one who owns it, and nothing is delivered to another connection;
- reload: a request sees one generation of the application;
- channels: a value is received once, and the sender is told the truth about it;
- jobs: a job is done at least once, and by one worker at a time unless its worker was declared dead;
- sessions: a concurrent request's write is not lost; a fresh session is not swept;
- mail: replies go to the session that asked; counters return to zero; sequence numbers are stable;
- engines: both give the same result for the same program.

## 2. Modules

| module | models | notes |
|---|---|---|
| `FiberPark` | abstract: what suspending and resuming a fiber promises | one waker per wait, used once; a resume that comes early is kept as a permit |
| `FiberScheduler` | `fiber_posix.cpp` | implements `FiberPark` (`ImplementsPark`) |
| `FiberSchedulerProofs` | | the scheduler's invariants and the refinement of `FiberPark` |
| `SqliteGate` | `sqlite_client.cpp` | |
| `ConnPool` | the pools of `web_stdlib.cpp` | uses `FiberPark` instead of a scheduler |
| `ConnPoolProofs` | | connections, waiters and signals |
| `TaskSlots` | `parallel_runtime.cpp` and its callers | |
| `AdmissionProofs` | | the gate's turns; the tasks' limit, exact counter, drain and sleep |
| `DbTransaction` | `db::transaction` and the database clients, server external | |
| `DbTransactionProofs` | | at most once, what is open, all or nothing |
| `HttpConnections` | connections of `http_server.cpp`, the epoll loop of `event_loop.cpp`, `websocket.cpp`, `sse.cpp` | kernel and clients external |
| `HttpConnectionsProofs` | | numbers and their owners, slots, events, messages and the close callback |
| `AppDispatch` | set-up, hot reload and dispatch of `http_main.cpp`, entered by HTTP or by FastCGI | |
| `AppDispatchProofs` | | set-up, copies, contexts and handlers |
| `Jobs` | the job table and `jobs::run` (`jobs_stdlib.cpp`, `interpreter.cpp`) | |
| `Timers` | `timer_stdlib.cpp` | |
| `JobWorkers` | processes that work off one job table, from their main thread or from a timer | composes `Jobs` and `Timers`; kills and restarts |
| `JobWorkersProofs` | | claims, attempts, the timer's sleep and cancel |
| `Engines` | the statements that move control, in the interpreter and in the compiler with its machine | the interpreter is the reference; recursive operators, so not for proofs |
| `Smtp` | `smtp_server.cpp` on the event loop, with its workers | |
| `SmtpProofs` | | the stages of a session, the client that waits, the counts |
| `MC...` | instances for TLC: symmetry sets, who runs where | |

### FiberScheduler

One worker's scheduler, its fibers and the offload threads. The loop of
`run_until_complete` is a program counter `pc` over `run_one` (pick, run, settle),
the 1 ms slice, the completion test, the choice of the timeout, `epoll_wait`, the
events and the deadline sweep; each mutex-protected section of the code is one
action, and code between two sections is another. Fiber code is `op[f]`: it
computes, waits for a socket or a timer with or without deadline
(`WaitReadableTmo`), suspends itself (`SuspendCurrent`), or offloads a job (post,
suspend, test of the result). `resume_fiber` may come from any thread and finds the
fiber waiting (moved to `ready_`), on its way out (flag left for `run_one`), or
running (flag kept): `ResumeFiber` is those three branches. `waiting_` is a
multiset, kept as a count per fiber, since it is a vector in the code and a double
entry would matter. Time is abstract: a deadline is none, armed or due.

The refinement maps a suspended fiber without `pending_resume_` to parked, and
`pending_resume_` of a running fiber to the permit.

### SqliteGate

The ticket gate of one database file and its connections. A call is at the gate,
queued, posted to the connection's own thread (a fiber that finds the gate busy),
in `sqlite3_step`, or in `gate_after`. A statement is one of read, write, begin,
immediate, savepoint, commit, which is all the gate asks of it. SQLite is external:
a write lock that belongs to a connection, to another program or to nobody.
`close()` is two steps, because it releases the gate before SQLite rolls back.

### ConnPool

Requests served by fibers of several workers or by threads, and pools of `Size`
connections. `acquire` is split between the test of `available`, the entry in
`g_fiber_waiters` and the suspension, `release` between the push, the notification
of fibers and the signal to threads. Fibers of one worker interleave only where
they yield (`running`).

### TaskSlots

Every access to the atomic `s_count` and every operation on `s_mtx` and `s_cv` is a
step. Both engines' spawn paths: acquire, copy the closure, start the thread; either
engine's copy may fail after the slot (`MayFail`). Tasks spawn tasks.

### DbTransaction

A connection from the script down to the server. The wrapper `db::transaction` is a
stack of frames; a statement goes through probe, send, server, reply, and the link
may break between any two. `probe` decides between refusing (inside a transaction)
and reconnecting; a failed send is repeated or not according to the driver. The server
keeps a stack of savepoint levels with their writes, and an error of SQLite or MySQL may roll all of
them back (disk full, `OR ROLLBACK`, a deadlock). A body may catch the error of a statement and go
on (`Catching`); `adrift` is history and says that one has done so after losing its transaction. A write is an element of a set
and issued once, so that "twice" and "never" can be told.

`Intact` (the depth is exact and no body is adrift) is the condition under which the wrapper keeps its promises, and
`AllOrNothing` and `NoEarlyCommit` name it; `RollbackOnThrow`, `CommitOnSuccess` and `NestedBySavepoint` are
the same promises without it, as the documentation makes them, and section 5 says how each fails.

### HttpConnections

The life of a connection: accepted, given an address slot, served by its worker
(`pc[c]` over `handle_connection`, `handle_ws_upgrade` and `handle_sse_upgrade`),
upgraded, handed to the epoll loop (`lp`, one record for the loop thread), used by
script threads (`act`) and closed by whoever comes first. Connections are told apart
from descriptor numbers: `num[c]` is the number `c` was given, `Owner(fd)` the
connection whose socket has the number now, and every map of the code
(`clients`, `reg`, `buf`, `table`, `tasks`) is keyed by numbers as in the code, so that
a number reused at a bad moment is a behaviour of the model. A step is the code between
two points another thread can see. Frames are kinds (`text`, first, middle and last
fragment, `ping`, `close`, `bad`, and `huge` for one above `WS_MAX_FRAME`); a read takes any number of those that have arrived. A
write may fail wherever the code writes, the pong and the answer to a close frame included; the
close frame of `close_conn` is written with no test of `closed`, and one that reaches another connection is a `stray` of kind "bye".
Epoll is edge-triggered: `edge` is the event still to be reported, `EPOLL_CTL_ADD` and
`async_read` report again what is readable. `cause`, `stray`, `fired`, `delivered` and `raced` are history,
read by the properties only. `raced` is set when a connection is entered in the server's maps under a number that a posted
`close_sse` or the event under way still carries for its predecessor; what then goes wrong is in section 5.

### AppDispatch

A request of a worker looks at the script's modification time, may set the application up
again under the exclusive lock, and is dispatched to the VM, to the interpreter because its
route is pinned there, or to an interpreter copy because there is no VM. What set-up makes of
a script is its `kind`; an edit changes version and kind at any moment. The interpreter
copies each worker keeps (`tl_copy`, `tl_icopy`), and the table of built-ins it caches for the VM where requests are not fibers, carry the generation they are of, the request they are bound
to and the requests that have assigned their globals. With fiber dispatch a worker goes on with another
request whenever user code is suspended. Which mode and which entry the process was started with is
chosen in `Init`. The rate limiter and the health path answer by a free choice.

### Jobs, Timers, JobWorkers

The table is a row per job; every SQL statement is one step, so `fail()`, a SELECT and an
UPDATE, is two. A statement may fail (`MaxBusy` times): `StepFails` is an unsuccessful `sqlite3_step` (the claim ends as on an empty
queue, the UPDATE of `done()` or `fail()` is lost, the SELECT of `fail()` leaves its defaults 0 and 3 and so begins the count
again), `PrepareThrows` an exception of `prepare()`. A process exits in either order of its static destructors, so that the
table may be closed under a pass of the timer thread (`CloseStore`). A process is killed at any step and
started again, and then calls `jobs::recover`, as the comment of `recover` asks. A timer is armed or
due; the timer thread's sleep remembers from which timers its deadline was computed, which is
what `SleepCovers` compares with the map. `retried`, `rescued`, `grace` (tries a failed SELECT of `fail()` gives), `robbed`, `orphan`, `starts` and
`after` are history.

### Engines

A program is a syntax tree: print, if, while, for, foreach, switch, try/catch/finally, throw,
return, break, continue, a call of the function `f` and a call of `f` through `db::transaction`.
`Exec` evaluates it as `execute_statement` does, with C++ exceptions as signals and the
catch and foreach variables defined in the environment the code defines them in: `try` opens no
scope for its catch variable, a block, a loop and a call do. `CompStmt`
emits instructions as `compile_stmt` does, with the loop contexts, the scopes of names and the pending finally
blocks of `compiler.h`, and the actions are the instructions of `VM::run`: frames, registers, handler stack
with its floors, and the bridge that carries a thrown value through a built-in. Conditions are
inputs, chosen while the machine runs and replayed to the interpreter when it has stopped.

### Smtp

The loop thread accepts, reads until there is nothing more, writes, runs posted tasks and sweeps idle connections, one
callback after the other; the step of a callback includes everything it calls (`pump` through all
buffered lines that need no reply). Epoll is edge-triggered for reading; `async_write` asks for
`EPOLLOUT` alone. Workers take complete messages from the queue and post the verdict with the descriptor
number, as in the code. A client sends the lines of its script at any pace. `Alone` plays the same
script line by line, and is what `SessionInOrder` compares with.

## 3. Runs

| run | instance | shows |
|---|---|---|
| `fiber` | 2 fibers, 2 offload threads | `FiberInOnePlace`, `OwnWakeOnly`, `NoLostWakeup`; refinement of `FiberPark`; every wait with a reason to end ends, however others yield |
| `gate` | 2 connections, 5 tickets | tickets, gate and lock agree; nobody busy-waits for a working connection of its own process; queued writers get their turn |
| `pool` | 3 fibers on 2 workers, 2 threads, 2 connections, pool removable | a connection is in one place; waiter list exact; threads told; a sleeping thread gets a connection whatever the fibers take |
| `pool_requeue` | 2 workers with one fiber each, 1 connection | **violation**, finding 2 |
| `slots_script` | a script's main thread, 4 tasks, limit 2 | exact counter, limit, drain, no oversleep |
| `tx_atomic` | SQLite and PostgreSQL, 2 writes, 3 calls, depth 3, 2 losses, errors caught or not | while intact: all or nothing and no early commit; exact depth, no write twice, nothing left open |
| `http` | 2 connections, 2 numbers, 1 script thread, limits 2 and 1 | until a number is raced for: address slots and tables exact, no data sent to and nothing closed for another connection, no readable socket forgotten, messages whole and in order, close reported once |
| `app` | 3 requests on 2 workers, 2 edits, every kind of script, both entries, with and without fibers | no request sees another's context or globals; a handler starts once; no copy of an older script under the current generation; every edit set up, once |
| `jobs` | a worker and a process with a timer pass and a second timer, 1 job, 1 kill, 1 failed statement, 1 `jobs::retry`, both orders of exit | one worker per job, attempts bounded, no claim left behind by an orderly way; the timer thread never sleeps past a timer or an exit; at most one run after `cancel` |
| `engines` | functions nested three deep, four main programs, 4 inputs | both engines print and end alike; every handler belongs to a live try. Jumps that leave a try block or a finally block, and a try in a catch block that has its catch variable, are left out |
| `engines_jump` | the same with those jumps, 3 inputs | **violation**, finding 1 |
| `smtp` | 3 clients on 2 descriptors, 2 connections at most, 1 per address | counts exact; replies and messages those of a client that waits; nothing forgotten |

Where `CHECK_DEADLOCK FALSE` is set the instance really ends: all fibers, requests,
tickets, tasks, writes or scripts are used up and nothing is left to do. That nobody is stuck before
that is stated as a property (`FiberInOnePlace`, `ThreadsServed`, `TurnComes`, `NoOversleep`,
`NothingStuck`). `app`, `jobs` and `engines` are checked for deadlock.

`FiberScheduler`, `SqliteGate`, `ConnPool`, `TaskSlots`, `DbTransaction`, `AppDispatch` and
`JobWorkers` state a type invariant, `TypeOK` (`SlotsTypeOK` in `TaskSlots`). TLC finds it true on the instances of their runs;
the proofs establish them for every instance, and state and prove one of their own for
`HttpConnections` and `Smtp`. No run lists them, because the other properties say more. `Engines`
gives the ranges of its variables in comments only.

### Bounds and why they are enough

- Fibers: the hazards are between one fiber and one waker, and between the loop and
  one other thread; a second fiber brings competition for `ready_`, a second offload
  thread two resumes at once. `SchedOf`, waits and jobs are unbounded in number.
- Tickets: 5 among 2 connections give holder, waiter, abandoned tickets in a row and a
  waiter behind them. More is covered by the proofs.
- Pools: the pool sized by the code has 2 connections at least (`pool_requeue` has one, which the setting allows); one client more than
  connections makes waiting happen, two schedulers make `acquire` and `release` truly parallel.
- Tasks: limit 2 and 4 tasks give refused callers, nested spawns and a full counter at
  once. The proofs cover any limit.
- Transactions: depth 3 is the first at which a savepoint has savepoints on both
  sides; 2 losses give a second loss during the recovery from the first. The properties speak of one write at a
  time; with two, one can be before and one after whatever goes wrong.
- Connections: two may follow each other on one number or race for the last place of a
  registry; one client talks, in conversations that hold every kind of frame and every rule of
  fragmentation kept and broken. One script thread is enough: it may be before, inside or after
  any step of the loop and of both workers.

- Dispatch: two requests share a worker and its copies, the third is on another worker. Two edits give a
  reload during a reload, and a failed set-up followed by a good one.
- Jobs: one job is enough for two processes to collide; with one kill the second process
  recovers a job that is dead, or that is not. `max_retries` is 2; 0, which counts as one
  attempt, and all other values are left to the proofs. Two timers, one of them repeating, make a batch of two.
- Engines: three levels are the first at which a finally block is pending outside a loop inside
  another try. Four inputs go through a loop twice with a throw in the second round.
- SMTP: the first client logs in and pipelines a message that is too large and one that is
  not; its number is taken over by the third client while its message is with a worker. `MaxPending`
  of 2 lines makes the overflow of a waiting session happen.

Where a run could not include an action that makes it fail, the constant that leaves
it out is named in its cfg: `MayFail` in `slots_script` leaves out the VM's failing
spawn (section 5, 4); `FailOps` in `tx_atomic` leaves out a failing COMMIT (10) and
`Drivers` MySQL (13); `DirectFibers` in `app` leaves out scripts without routes under fiber dispatch (15); `AllJumps` in
`engines` leaves out the jumps of finding 1 and `AllNames` the nested catch variables of finding 3; `StallAtBanner` in `smtp` leaves out a client that takes no
byte of the greeting for the whole idle limit (16).

Other exceptions are inside the properties, named, and the events themselves are in the runs:
`raced` in those of `HttpConnections` (5), close frames in `DataToOwn` (6), clients a failed send had marked in `CloseReported` (7), `grace`
and `robbed` in those of `Jobs` (9 and the remarks), `Intact` in those of `DbTransaction` (11, 12). `ThreadsServed` excepts
a thread whose pool is removed while it sleeps, and is about clients that use one pool each; what it says of threads is not true
of fibers (2).

### Fairness

- `FiberScheduler`: weak fairness of the loop, of fiber code (it reaches a
  preemption point), of the offload threads and of deadlines: threads are scheduled
  and the clock advances. Strong fairness of `SliceOver`: the slice ends by the clock, and
  the clock cannot be found short for ever at the tests the loop makes. Peers owe nothing: a socket wait
  without a deadline and without data may last for ever.
- `SqliteGate`: weak fairness of the steps of a call; SQLite's statements end (5 s of
  `on_busy` at most). Nothing is assumed of the 10 s limit, and `TurnComes` is
  conditional on transactions ending, which is the script's business.
- `ConnPool`: strong fairness of a client's own progress (a request does not only
  yield) and weak fairness of dispatch (`ready_` is FIFO).
- `AppDispatch`, `Jobs`, `Timers`, `Engines`, `Smtp`: none. `SleepCovers` and `NothingStuck` are safety forms of "it goes on":
  whoever waits has somebody who will come back to him.
- `HttpConnections`: none. `Noticed` is the safety form of "a client that left is
  noticed": what is to be read is always on its way to the loop.

## 4. Proofs

All theorems are about the same specifications that TLC runs, for every value of
the constants that satisfies the named assumption of the module. A theorem that needs
more says so in its own hypothesis, and that hypothesis holds in the cfg of a run.
The inductive invariants were checked with TLC before they were proved.

**FiberSchedulerProofs** (`FiberAssumption`; any fibers and offload threads):
`TypeCorrect`, `FiberStaysInOnePlace`, `WokenByOwnWait`, `WakeupNeverLost` and
`SchedulerImplementsPark`. The inductive invariant is

    Inv == TypeOK /\ CurInv /\ ResumingInv /\ WakeInv

`CurInv` and `ResumingInv` say that the loop's current fiber, and the one an event is about to
resume, are fibers wherever they are used. `WakeInv` ties the queues to the fibers: `ready_` has
no fiber twice, and for each fiber (`FiberInv`) what it waits for (`OpInv`), its registration
with the event loop and its deadline (`EventInv`, `KeyInv`) and its job in the pool (`JobInv`)
agree, so that a suspended fiber has exactly one wake-up outstanding. `FiberInOnePlace` alone is
not inductive: to see that an event does not requeue a fiber a second time one has to know that
the first wake-up took its registration away. The refinement rests on it: `ResumeFiber`
is `Unpark` in each of its three branches, a settling fiber with `pending_resume_` set consumes a permit, and no
other step changes what `FiberPark` sees (`AllSeen`).

**AdmissionProofs**, first part (`SqliteGate`, `GateAssumption`; any connections, any number of tickets):
`GateTypeCorrect`, `GateTurnsAccounted`, `GateAndLock`, `GateBusyOnlyForOthers`.
The inductive invariant is

    GateInv == TypeOK /\ TurnsAccounted /\ StageHolds /\ GateHeldForTransaction /\ LockUnderGate

`StageHolds` says what is known at each stage: a queued or closing connection does
not hold the gate, a statement that wants the lock does, and the lock belongs to an
open transaction. The heart is `ReleaseServes`: `release()` skips the abandoned
tickets and stops at a ticket somebody owns, or at `next`; `LeaveGateTurns`,
`DrawTurns` and `AbandonTurns` are the three ways the ownership of tickets changes.
`BusyOnlyForOthers` follows: two connections with the gate would both own the ticket
being served.

**AdmissionProofs**, second part (`TaskSlots`, `SlotAssumption`; any limit, any finite sets of threads and
tasks): `SlotTypeCorrect`, `LimitKept`, `SlotsExact`, `DrainSafe`, `NobodyOversleeps`.
The inductive invariant is

    SlotInv == SlotsTypeOK /\ OnlyTasksEnd /\ SlotsCovered /\ (NoLeak => SlotsAccounted) /\ WithinLimit

`SlotsCovered` (tasks and steps ahead never exceed the counter) survives leaks, which
is why `LimitKept` needs no assumption about failures, while `SlotsExact` assumes that
the VM's spawn does not fail. `WithinLimit` counts the callers whose `fetch_add`
found a free slot with the tasks they will start. `DrainSafe` assumes a script, that
is one thread that is not a task: once that thread has read zero nobody is left who could spawn.
`NobodyOversleeps` assumes a script too: from its test of the counter until it wakes, a task is
left or a `notify_all` is on its way (`SleepInv`). Without that assumption it is false: see "A refused
`task_acquire`" in section 5.

**AppDispatchProofs** (`AppAssumption`; any requests, workers, edits and kinds of script):
`AppTypeCorrect`, `EditsSetUpOnce`, `HandlerRunsOnce`, `NoCopyIsStale`, `ContextIsOwn`. Each has its own strengthening.
`EditInv` orders the versions of the file, of the application and of what a request in set-up has read,
and says that this request is the one with the exclusive lock; `RanInv` says by a request's place whether its handler has run; `AllCopyInv` bounds the
generation of every worker's copy by that of the application; `AllViaInv` says that a copy, or a table of built-ins, that a request
works through is its own worker's and is bound to it. That one needs the dispatch discipline: where requests run as
fibers none goes through what a worker keeps, and elsewhere a request keeps its worker until its response.

**JobWorkersProofs** (`JobAssumption`, `TimerAssumption`, `WorkerAssumption`; any processes,
jobs, timers and kills): `WorkersTypeCorrect`, `ClaimsAreExclusive`, `AttemptsAreBounded`,
`ClaimsAreExplained`, `SleepAlwaysCovers`, `CancelAlwaysHolds`. The conjuncts of `WorkersInv` are `HandsInv` (a process
holds a job exactly while a pass has one in its hands, inside a callback when it is a timer's), for
each job `OwnerInv` (nobody else has it, and its row still says what `fail()` read, or the read has failed) and `BudgetInv`
(starts are at most the counted attempts, the open claim and `Extra`, the tries that `jobs::retry`, rescues and failed reads
give; and they leave room for the attempt a pending job may still have), and for each timer manager `SleepInv`, `BatchInv`
(a batch has a timer once) and `CancelInv`. The jobs `recover()` took from a live process are
excepted (`robbed`), as in the properties.

**ConnPoolProofs** (`PoolAssumption`; any clients, schedulers, pools and size):
`PoolTypeCorrect`, `ConnInOnePlace`, `WaiterListExact`, `ThreadsAreTold`, from

    PoolInv == TypeOK /\ PlaceInv /\ SleeperInv /\ ConnInv /\ ToldInv /\ FiberInv /\ ListInv

(quantified over clients, pools, fibers). `ToldInv` compares the free connections of a pool with the threads
woken and the signals under way; it is a count, so every step that touches either side is accounted for with
the cardinality lemmas.

**DbTransactionProofs** (`TxAssumption`; any writes, nesting, number of calls and of lost connections).
`TxTypeCorrect` and `RunAtMostOnce` (no write is executed twice) hold for all three databases. `OpenIsKnown`, `CallsAreAtomic` and
`CommitIsLast` assume `Dependable`: SQLite or PostgreSQL, and a server that refuses COMMIT, ROLLBACK, RELEASE or ROLLBACK TO only for want
of the transaction or savepoint, as after a lost connection or an error that rolled everything back. Findings 10 and 13 are the cases it excludes.
Bodies may catch any error. The invariants are built in three layers:

    CallInv   == TypeOK, StmtInv, DepthInv, StackInv, OnceInv
    OpenInv   == CallInv /\ LinkInv /\ BaseInv /\ (Intact => LevelsInv) /\ DepthMatches
    AtomicInv == OpenInv /\ \A w \in Writes : FateInv(w)

`StmtInv` says which statement is under way by the place that issued it. `LinkInv` is what the client believes of the link and of its
transaction, which may be out of date in one direction only. `LevelsInv` is the correspondence the whole wrapper rests on: the server's
savepoint i is that of the call at depth i, unless the server has none any more. It holds while the connection is `Intact`; a depth gone wrong
stays wrong and a body once adrift stays so, hence the properties may assume `Intact` in the last state only. `FateInv` (`PendInv`, and while intact `PlacedInv` and `KeptInv`) follows a write: it is pending only while its outermost call
is under way (`PendInv`); on level j it was issued in call j, and each of its calls has returned or is one of the first j (`PrefixInv`, `HeldInv`); what
ROLLBACK TO has undone is not there for RELEASE to keep (`EmptyInv`); it is permanent only when all its calls have returned or the outermost is about to (`CommitInv`);
and one the script was told of is permanent, pending, inside a call that threw, or inside the outermost call when the server has nothing open any more (`Gone`), which then can only throw (`KeptInv`).

**HttpConnectionsProofs** (`HttpAssumption`; any connections, descriptor numbers, script
threads, limits and conversations): `HttpInvariant`, `SendsReachTheirOwn`, `NumbersClosedByOwner`, `EventsNoticed`, `TablesAgree`,
`ScriptsHearRight`. The inductive invariant is `raced \/ (TypeOK /\ ConnInv)`: nothing is assumed of the loop's pace, and nothing is said after a number was raced for. The conjuncts of `ConnInv` answer who may be found under a number:

- `SocketInv`: open sockets have different numbers; `PlaceInv`: what a connection has at each place of its worker;
- `TableInv`, `ClientsInv`, `RegInv`: an entry of the loop's table, of the server's maps and of the registries is an open connection, under its own number;
- `CarryInv`: a number in a posted `close_sse`, or of the event under way, belongs to the connection it was meant for, or to one that is
  not in the maps yet. It breaks exactly in the step that sets `raced` (`MapInsertKeeps`), finding 5;
- `SendInv`, `MutexInv`: a script thread that is past its test of `closed` has the write mutex of a connection that is still in the maps, or that the
  loop waits for in `close_ws` or `close_sse`; `DrainInv`: that one's socket is still open. Together they give `DataToOwn`, with `Strays` for the close frames, which nothing stops;
- `CauseInv`, `LoopInv`, `EntryInv`: why a connection was closed, the loop's own fields, and the connection of its event by the loop's place.

None of the properties is inductive alone: that a late close hits nobody is known only from where every copy of the number is.
`EventsNoticed` adds `NoticeInv` (something to read has an event, is in the batch or is being read). `TablesAgree` counts the slots (`HasSlot`) step by step.
`ScriptsHearRight` adds `FiredInv` for the close callback, and `ReadInv` for the messages: what is in the socket, in the buffer and in the
fragments is, in order, what was sent (`InboxInv`, `BufInv`), and what was handed to the script is made of it (`Message`, `Assembled`); the lemmas about `Assembled`
say that frames sent later change nothing about the messages complete so far. `HttpAssumption` says since then that the connections are finite in number and that a message has
room for one fragment.

**SmtpProofs** (`SmtpAssumption`; any clients, scripts, addresses, limits, descriptors and workers): `SmtpInvariant`, `SmtpSessionInOrder`,
`SmtpNothingStuck`, `SmtpCountsExact`. The inductive invariant is `TypeOK /\ SmtpInv`, with

    SmtpInv == OwnInv /\ (\A fd \in Fds : EntryInv(fd)) /\ UniqueInv /\ \A k \in Conns : OneInv(k)

`OwnInv` and `EntryInv` say whose an open number is, and that the loop expects nothing of a free one. `UniqueInv`: a connection has one
message with the workers or one verdict posted, never two. `OneInv` is about one connection, and its heart is `StageInv`: an open
connection is being greeted (`Greeting`), has answered all it has read (`Listening`), is being told the answer to a line (`Replying`) or has a
message with the workers (`Judged`), and in each stage its session, its replies and its mail are those of the reference `Play(k)` after a line
that the stage determines. `WorkInv` says the same of a message or verdict under way, which may outlive its connection: it carries the
number, and only `closed` tells whether that number is still the right one. `SessionInOrder` is not inductive without it, nor `NothingStuck` without
the stages. A step of the loop for one connection leaves the others alone (`Frame`, `StayOpen`), so what each action has to show is about one;
`PumpKeeps` and `Leaves` do it for every caller of `pump()` and every way to close.

`Play`, `Before` and `Pumped` are recursive functions over the lines. What they compute for every script is proved from the least
line at which it would be otherwise (`Least`, from the library's well-foundedness of the naturals): `PlayIs` and `BeforeIs` are their equations, `PlayGrows`
says that later lines only add replies and mail, and `PumpedIs` that `pump()`, which takes many lines in a row, stops where the client that waits would have had its next
answer. `SmtpCountsExact` assumes `~StallAtBanner` (finding 16 shows that it must); the other theorems do not. It adds `CountInv` (the
table has no session of a closed connection) and counts along the two steps that change the table (`TableStep`, `CountStep`). `SmtpAssumption` says since then that connections and
descriptors are finite sets and that a script is a sequence of lines.

Only model-checked:

- liveness and the refinement's fairness: `WF_`, `SF_` and `ENABLED` are out of the prover's reach;
- `Engines`: its reference and its compiler are recursive operators, which cost the prover its SMT backend, and what
  they compute for every program needs induction over syntax trees.

## 5. Findings

With a run that shows it (`PROJECT.json`, "findings"):

1. `engines_jump`: a `return`, `break` or `continue` out of a try block emits the pending
   finally blocks but no `TRY_POP`, and `RETURN` leaves the handlers of its frame on the stack. A later
   throw of the caller lands in the code of the function that has returned, or is
   swallowed; the interpreter reports it.

2. `pool_requeue`: `acquire()` tests `available` and registers as a
   waiter in two critical sections (`web_stdlib.cpp:973`, `:993`), without a second test; a `release()` from another worker
   between them wakes nobody, and the fiber stays parked beside a free connection until some later release. The comment at
   953-961 says it is re-queued when a connection becomes free, across schedulers. With two
   pools it happens on one worker too: all pools share one waiter list and a release resumes its first
   entry, whatever pool that one waits for; and a thread beside one fiber is enough, since it releases at any moment.

Found with these modules, and reproduced by changing a constant or adding a property to a cfg as said:

3. `Engines`, `AllNames = TRUE` and `EnginesAgree`: the interpreter defines the catch variable in the environment the try statement
   stands in (`interpreter.cpp:975`, `:987`), the compiler in a scope of the catch block (`compiler.cpp:808-827`). After a
   try inside a catch block that has the same variable, the outer block reads the inner value in one
   engine and the outer value in the other; `differential_test.sh:2` and `README.md:279` say the engines agree.
4. `TaskSlots`, `MayFail = {"vm"}` and `SlotsAccounted`: `PARALLEL_CALL` (`vm.cpp:1022`) keeps its slot when
   copying or thread start throws.
5. `HttpConnections`, PROPERTY `OnlyOwnersClosed`: at the end of a stream the callback closes the
   descriptor and the loop closes the same number again (`event_loop.cpp:315`); a connection accepted, upgraded and
   registered in between is closed in place of the old one, which the comment at `event_loop.cpp:174-176` means to rule out. A posted `close_sse` that
   comes late does the same. That close waits for no write mutex, so with three connections on one number a script's data for the
   second may go to the third.
6. `HttpConnections`, INVARIANT `WritesToOwn`: `WsConnection::close_conn` sets `closed` and then writes its close frame
   with no further test (`websocket.cpp:238`); the frame may go to the number's next owner. `http_server.cpp:916-920`
   says no write starts once `closed` is set.
7. `HttpConnections`, INVARIANT `LeaversReported`: a failed send, also that of a pong (`websocket.cpp:213`), sets `closed`, and
   the close callback then does not run when the client leaves (`http_server.cpp:767`, `:804`); `docs.html:2250` and
   `ws_close_callback_test.sh:9` say it does.
8. `HttpConnections`, INVARIANT `OversizedRefused`: a frame above `WS_MAX_FRAME` is reported as incomplete
   (`websocket.cpp:171`) where the comment at 169 says it is refused: the connection stays open and its buffer grows.
9. `JobWorkers`, INVARIANT `AttemptsWithinMax`: when the SELECT of `fail()` (`jobs_stdlib.cpp:267`) does not return its row, the
   defaults 0 and 3 are used and the UPDATE begins the count again; `llms-full.txt:2904` calls `max_retries` the
   "Maximum number of attempts".
10. `DbTransaction`, `Drivers = {"sqlite"}`, `FailOps = {"commit"}`, `Catching = {}`, `MaxLosses = 0` and INVARIANT `NestedBySavepoint`: a failing
    COMMIT lowers `tx_depth` twice (`web_stdlib.cpp:1634`, `:1642`); the pooled connection goes back with -1, and a nested
    `db::transaction` on it sends BEGIN instead of the SAVEPOINT of `README.md:256`.
11. `DbTransaction`, `Drivers = {"sqlite"}`, `FailOps = {"write"}`, `Catching = {"sqlite"}` and INVARIANT `RollbackOnThrow`: after an error that
    rolled the whole transaction back, a body that catches it goes on in autocommit, COMMIT then fails and
    `db::transaction` throws with later writes kept (`web_stdlib.cpp:1633`); `docs.html:1775` says "rollback on exception".
12. `DbTransaction`, `Drivers = {"postgres"}`, `FailOps = {"write"}`, `Catching = {"postgres"}`, `MaxLosses = 0` and INVARIANT `CommitOnSuccess`: PostgreSQL
    answers the COMMIT of an aborted transaction with ROLLBACK and no error (`postgres_client.cpp:909`); a body that catches the failed statement's
    error has its `db::transaction` return normally although nothing was kept.
13. `DbTransaction`, `Drivers = {"mysql"}`, `FailOps = {}`, `Catching = {}`, `MaxLosses = 1` and INVARIANT `CommitOnSuccess`: `MySQLClient::query`
    (`mysql_client.cpp:726`) reconnects and resends COMMIT inside a transaction, against the comment at 296-297; an empty transaction is
    committed and success reported.
14. `AppDispatch` (by reading): a request on the VM runs raw `Closure` pointers it took under the lock
   (`http_main.cpp:1168`) while another one replaces the application they belong to, although the comment at
   1153 calls them safe within a generation; `LookFunction.body` (`interpreter.h:362`) is a raw pointer of the same kind.
15. `AppDispatch`, `DirectFibers = TRUE`: a script without routes runs under the shared lock; suspended as a fiber it
   keeps it, and a request of the same worker that wants to reload blocks the thread that would resume it. TLC reports the
   deadlock.
16. `Smtp`, `StallAtBanner = TRUE` and `CountsExact`: the idle sweep finds a connection whose greeting is
   still unwritten, which has no reader yet: the descriptor is closed, the session and both counts stay.

Noticed while modelling:

- Reload: the modification time is recorded after the text was read, so an edit during a set-up may
  never be noticed (the exception in `EditNoticed`); `clear_db_pools` runs first, so a failed reload leaves the old
  version without pools; `vm_before_routes` and `vm_route_disabled` are read without the lock by requests under way;
  `before_route` functions run twice for a pinned route; a script without routes may run with a newer program on an older copy;
  `reset_globals_from` (`http_main.cpp:1472`) and `vm_setup_globals` are read outside the lock while a set-up may replace them; when
  `last_write_time` throws at 875 the program and interpreter are already the new ones and the generation is not.
- `TokenBucket::refill` loads and stores while `consume` takes by compare-and-swap: a consumption between the two is
  undone; the first request of an address is not charged.
- Jobs: after `recover()` has taken a job from a live worker, that worker's `done()` or `fail()` names the job by id
  and overwrites the second claim; `fail()` may turn a failed job into a pending one and exceed `max_retries`.
  `robbed` excepts these jobs. `done()` and `fail()` ignore a failed statement; an exception of `prepare()` leaves the job in processing until `recover()`. If
  `timer::` was used before `jobs::`, the JobStore is destroyed before the timer thread is joined, and a pass under way loses its job the same way. `timer::every(0)` fires once.
- Engines: a jump out of a finally block is compiled with the loop context of the place it is copied to
  (`compiler.cpp:578`);
  `&&` and `||` give a boolean in one engine and an operand in the other; the recursion limits differ (256, 500).
- SMTP: `SmtpWorkerPool::shutdown` sets `stop` without the mutex (a worker between its test and its sleep is not woken and
  `join` hangs); the "line too long" reply does not set `waiting`, so that a later piece of the same read may replace it; a refused
  connection leaves an entry in the loop's map until the number is used again; after 552 the rest of the body is
  read as commands; RSET before EHLO leads to READY; events of one `epoll_wait` batch are looked up by number after the idle sweep has closed some of them.
- `SqliteClient::close()` releases the gate before SQLite rolls back the open transaction, so
  that the next writer may meet the lock: the exception in `BusyOnlyForOthers`.
- A refused `task_acquire` undoes its `fetch_add` without a notification; in a server
  `parallel::wait` may then sleep to its limit although no task is left (`TaskSlots` with two handlers and limit 1: the first
  starts a task and sleeps, the second's `fetch_add` keeps the counter above zero when the task leaves, and its
  `fetch_sub` brings it to zero in silence). Two callers that
  overshoot together may both be refused although one slot is free.
- Only the first statement after a lost connection is refused (`ready_to_send` and
  `ensure_connected` clear `in_txn_` with the error they throw): a body that catches that error
  goes on in autocommit on a new connection.
- A posted `close_sse(fd)` may find the number's next owner: that one is closed, and if its
  worker has not come to `held_ip` yet its address slot is lost.
- The close callback does not run after `sse::close` (`fire_cb = !closed.exchange(true)`); it may run after `ws::close` when
  the client's close frame is being processed at that moment.
- Removing a pool drops its connections and tells nobody: fibers and threads that wait for it are left
  waiting, a fiber until some other pool's release resumes it, a thread for ever (`cv.wait` has no limit).
- `sse::close` inside the handler, before `add_client`, finds nothing in the loop's table:
  the descriptor stays open until the client leaves.
- Messages of one WebSocket are submitted to the worker pool one by one and may run out of order;
  `Reassembled` is about the order in which they are submitted.

## 6. Not modelled, and why

- In the modelled components: the allocation of stacks and the context switch
  itself; `suspend_current_for_pool` and `notify_pool_waiter`, and the WAIT and TRY modes of
  `task_acquire`, which have no callers; two spellings of one SQLite path (two gates);
  rows, handshakes, TLS and `last_insert_id`; `db::begin` inside the body of
  `db::transaction`; the framing of HTTP requests and the bytes of WebSocket frames;
  `detach_fd` of the loop, STARTTLS (`do_starttls` has no caller) and over-long lines of SMTP; the token buckets,
  the two set-up passes inside one reload and the FastCGI records; expressions, closures and parameters of the engines, and the
  compiler's free list of registers (a register not in use stands for whichever it would give); the IOCP loop.
- Of the environment: the script file is always there (`last_write_time` does not throw in `Stat` and `Setup`); the unlocked reads in `Fallback`
  (section 5) are single steps; SMTP has no certificate, hence no 530 replies; an event of an `epoll_wait` batch is taken
  when it is handled, so an event left over for a number that was closed and reused within one batch is not shown in `Smtp` (it is in `HttpConnections`).
- Components listed as `not_modelled` in `PROJECT.json`, with the reason: either
  planned below, or sequential I/O and formatting without shared state, or Windows variants
  of modelled code, or third-party code.

## 7. Plan

In the order of importance:

1. `Channel` (`interpreter.cpp:400-480`) against an abstract rendezvous, together with the tasks that use it.
2. `Sessions` over files and Redis; `ImapMailbox`; the FastCGI record loop; integer overflow with a small word width.

Related invariants of a module are checked as one named conjunction, and components that share state share a run.
