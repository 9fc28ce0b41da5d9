------------------------------ MODULE ConnPool ------------------------------
(***************************************************************************)
(* The database connection pools (cpp/src/web_stdlib.cpp): get_conn,       *)
(* ConnPool::acquire, ConnPool::release, notify_fiber_waiters,             *)
(* release_thread_connections and the removal of a pool (db::close,        *)
(* clear_db_pools).                                                        *)
(*                                                                         *)
(* A client is one request, served by a fiber of one of the schedulers or  *)
(* by a thread of its own.  Suspending and resuming a fiber is FiberPark,  *)
(* the contract FiberScheduler implements.  Fibers of one scheduler run    *)
(* one at a time and switch only where they yield; everything else         *)
(* interleaves between the critical sections of mtx, g_fiber_waiters_mtx   *)
(* and g_pools_mtx.                                                        *)
(***************************************************************************)
EXTENDS Naturals, Sequences, FiniteSets

CONSTANTS
    Fibers, Threads,   \* the clients
    Scheds,            \* the FiberSchedulers, one per worker thread
    SchedOf,           \* the scheduler of each fiber
    Pools,             \* keys of g_pools
    Size,              \* connections per pool
    Wants,             \* the pools each client may ask for
    Closable,          \* the pools that may be removed while requests run
    Nobody

Clients == Fibers \cup Threads
NoConn == <<>>
ConnsOf(p) == {<<p, i>> : i \in 1 .. Size}
Conns == UNION {ConnsOf(p) : p \in Pools}

ASSUME PoolAssumption ==
    /\ IsFiniteSet(Fibers) /\ IsFiniteSet(Threads)
    /\ Fibers \cap Threads = {} /\ Nobody \notin Clients /\ Nobody \notin Pools
    /\ SchedOf \in [Fibers -> Scheds]
    /\ Size \in Nat
    /\ Wants \in [Clients -> SUBSET Pools]
    /\ Closable \subseteq Pools

VARIABLES
    available,     \* ConnPool::available
    cv,            \* threads asleep in ConnPool::cv
    waiters,       \* g_fiber_waiters
    registered,    \* keys of g_pools
    pools_mtx,     \* who holds g_pools_mtx from one action to the next
    conns,         \* active_conns() of each client
    at, target,    \* where the client is, and the pool it is dealing with
    running,       \* the fiber each scheduler is running
    status, permit, waker   \* FiberPark

parkVars == <<status, permit, waker>>
vars == <<available, cv, waiters, registered, pools_mtx, conns, at, target, running,
          parkVars>>

Park == INSTANCE FiberPark

Places == {"new", "work", "acquire", "miss", "queued", "retry", "asleep", "woken",
           "finish", "release", "notify", "signal", "end"}

Init ==
    /\ available = [p \in Pools |-> [i \in 1 .. Size |-> <<p, i>>]]
    /\ cv = [p \in Pools |-> {}]
    /\ waiters = <<>>
    /\ registered = Pools
    /\ pools_mtx = Nobody
    /\ conns = [c \in Clients |-> [p \in Pools |-> NoConn]]
    /\ at = [c \in Clients |-> "new"]
    /\ target = [c \in Clients |-> Nobody]
    /\ running = [s \in Scheds |-> Nobody]
    /\ Park!ParkInit

-----------------------------------------------------------------------------
\* A client executes: a thread always, a fiber while its scheduler runs it.
Executes(c) == c \in Fibers => running[SchedOf[c]] = c

GoTo(c, place) == at' = [at EXCEPT ![c] = place]
SwitchOut(c) ==
    running' = IF c \in Fibers THEN [running EXCEPT ![SchedOf[c]] = Nobody] ELSE running

Begin(c) ==
    /\ at[c] = "new"
    /\ GoTo(c, "work")
    /\ IF c \in Fibers THEN Park!Start(c) ELSE UNCHANGED parkVars
    /\ UNCHANGED <<available, cv, waiters, registered, pools_mtx, conns, target, running>>

\* run_one resumes a fiber that is not parked.
Dispatch(f) ==
    /\ running[SchedOf[f]] = Nobody
    /\ status[f] = "active"
    /\ running' = [running EXCEPT ![SchedOf[f]] = f]
    /\ UNCHANGED <<available, cv, waiters, registered, pools_mtx, conns, at, target, parkVars>>

\* Between two database calls the fiber gives up its turn (I/O, preempt_point).
Yield(f) ==
    /\ at[f] = "work" /\ Executes(f)
    /\ SwitchOut(f)
    /\ UNCHANGED <<available, cv, waiters, registered, pools_mtx, conns, at, target, parkVars>>

-----------------------------------------------------------------------------
(***************************************************************************)
(* get_conn and acquire.                                                   *)
(***************************************************************************)

\* get_conn: the client has no connection of p yet and looks the pool up; an
\* unknown handle is an error that ends the request.
GetConn(c, p) ==
    /\ at[c] = "work" /\ Executes(c)
    /\ p \in Wants[c] /\ conns[c][p] = NoConn
    /\ pools_mtx = Nobody
    /\ IF p \in registered THEN GoTo(c, "acquire") /\ target' = [target EXCEPT ![c] = p]
                           ELSE GoTo(c, "finish") /\ UNCHANGED target
    /\ UNCHANGED <<available, cv, waiters, registered, pools_mtx, conns, running, parkVars>>

\* available.back(), pop_back() in one critical section of mtx.
Take(c) ==
    LET p == target[c]
        n == Len(available[p])
    IN  /\ n > 0
        /\ conns' = [conns EXCEPT ![c][p] = available[p][n]]
        /\ available' = [available EXCEPT ![p] = SubSeq(@, 1, n - 1)]
        /\ GoTo(c, "work")
        /\ target' = [target EXCEPT ![c] = Nobody]

Exhausted(c) == available[target[c]] = <<>> /\ UNCHANGED <<available, conns, target>>

AcquireFast(c) ==
    /\ at[c] = "acquire" /\ Executes(c)
    /\ Take(c) \/ (Exhausted(c) /\ GoTo(c, "miss"))
    /\ UNCHANGED <<cv, waiters, registered, pools_mtx, running, parkVars>>

\* Fiber: join g_fiber_waiters, ...
JoinWaiters(f) ==
    /\ at[f] = "miss" /\ Executes(f)
    /\ waiters' = Append(waiters, [client |-> f, pool |-> target[f]])
    /\ Park!Arm(f)
    /\ GoTo(f, "queued")
    /\ UNCHANGED <<available, cv, registered, pools_mtx, conns, target, running>>

\* ... suspend_current, ...
Suspend(f) ==
    /\ at[f] = "queued" /\ Executes(f)
    /\ Park!Park(f)
    /\ GoTo(f, "retry")
    /\ SwitchOut(f)
    /\ UNCHANGED <<available, cv, waiters, registered, pools_mtx, conns, target>>

\* ... and try again once resumed.
Retry(f) ==
    /\ at[f] = "retry" /\ Executes(f)
    /\ Take(f) \/ (Exhausted(f) /\ GoTo(f, "miss"))
    /\ UNCHANGED <<cv, waiters, registered, pools_mtx, running, parkVars>>

\* Thread: cv.wait tests its predicate under mtx, also after each wake-up.
ThreadWait(t) ==
    /\ at[t] \in {"miss", "woken"}
    /\ \/ Take(t) /\ UNCHANGED cv
       \/ /\ Exhausted(t)
          /\ cv' = [cv EXCEPT ![target[t]] = @ \cup {t}]
          /\ GoTo(t, "asleep")
    /\ UNCHANGED <<waiters, registered, pools_mtx, running, parkVars>>

-----------------------------------------------------------------------------
(***************************************************************************)
(* release_thread_connections: under g_pools_mtx, release() of every       *)
(* connection whose pool is still registered; the others are dropped.      *)
(***************************************************************************)
Held(c) == {p \in Pools : conns[c][p] # NoConn}

Finish(c) ==
    /\ at[c] = "work" /\ Executes(c)
    /\ GoTo(c, "finish")
    /\ UNCHANGED <<available, cv, waiters, registered, pools_mtx, conns, target, running,
                   parkVars>>

ReleaseLock(c) ==
    /\ at[c] = "finish" /\ Executes(c)
    /\ pools_mtx = Nobody
    /\ pools_mtx' = c
    /\ GoTo(c, "release")
    /\ UNCHANGED <<available, cv, waiters, registered, conns, target, running, parkVars>>

ReleasePushKeep(c, p) ==
    /\ at[c] = "release" /\ p \in Held(c)
    /\ available' = [available EXCEPT ![p] = Append(@, conns[c][p])]
    /\ target' = [target EXCEPT ![c] = p]
    /\ GoTo(c, "notify")
    /\ UNCHANGED <<cv, waiters, registered, pools_mtx, conns, running, parkVars>>

ReleasePush(c, p) ==
    /\ at[c] = "release" /\ p \in Held(c)
    /\ conns' = [conns EXCEPT ![c][p] = NoConn]
    /\ IF p \in registered
       THEN /\ available' = [available EXCEPT ![p] = Append(@, conns[c][p])]
            /\ target' = [target EXCEPT ![c] = p]
            /\ GoTo(c, "notify")
       ELSE UNCHANGED <<available, target, at>>
    /\ UNCHANGED <<cv, waiters, registered, pools_mtx, running, parkVars>>

\* notify_fiber_waiters: resume the first waiter, whatever pool it waits for.
WakeOnlyPeek ==
    /\ waiters # <<>>
    /\ Park!Unpark(Head(waiters).client)
    /\ UNCHANGED waiters

WakeFirst ==
    /\ waiters # <<>>
    /\ Park!Unpark(Head(waiters).client)
    /\ waiters' = Tail(waiters)

ReleaseNotify(c) ==
    /\ at[c] = "notify"
    /\ WakeFirst \/ (waiters = <<>> /\ UNCHANGED <<waiters, parkVars>>)
    /\ GoTo(c, "signal")
    /\ UNCHANGED <<available, cv, registered, pools_mtx, conns, target, running>>

\* cv.notify_one: some thread asleep on this pool, if there is one.
ReleaseSignalNone(c) ==
    /\ at[c] = "signal"
    /\ at' = [at EXCEPT ![c] = "release"]
    /\ target' = [target EXCEPT ![c] = Nobody]
    /\ UNCHANGED <<available, cv, waiters, registered, pools_mtx, conns, running, parkVars>>

ReleaseSignal(c) ==
    /\ at[c] = "signal"
    /\ \/ /\ cv[target[c]] = {}
          /\ at' = [at EXCEPT ![c] = "release"]
          /\ UNCHANGED cv
       \/ \E t \in cv[target[c]] :
            /\ cv' = [cv EXCEPT ![target[c]] = @ \ {t}]
            /\ at' = [at EXCEPT ![c] = "release", ![t] = "woken"]
    /\ target' = [target EXCEPT ![c] = Nobody]
    /\ UNCHANGED <<available, waiters, registered, pools_mtx, conns, running, parkVars>>

ReleaseDone(c) ==
    /\ at[c] = "release" /\ Held(c) = {}
    /\ pools_mtx' = Nobody
    /\ GoTo(c, "end")
    /\ SwitchOut(c)
    /\ IF c \in Fibers THEN Park!End(c) ELSE UNCHANGED parkVars
    /\ UNCHANGED <<available, cv, waiters, registered, conns, target>>

\* db::close, clear_db_pools: the key goes; borrowed connections stay with
\* their requests.
RemovePool(p) ==
    /\ p \in Closable /\ p \in registered
    /\ pools_mtx = Nobody
    /\ registered' = registered \ {p}
    /\ UNCHANGED <<available, cv, waiters, pools_mtx, conns, at, target, running, parkVars>>

-----------------------------------------------------------------------------
FiberStep(f) == Dispatch(f) \/ Yield(f) \/ JoinWaiters(f) \/ Suspend(f) \/ Retry(f)

ClientStep(c) ==
    \/ Begin(c) \/ AcquireFast(c) \/ Finish(c) \/ ReleaseLock(c)
    \/ ReleaseNotify(c) \/ ReleaseSignal(c) \/ ReleaseDone(c)
    \/ \E p \in Pools : GetConn(c, p) \/ ReleasePush(c, p)

Next ==
    \/ \E c \in Clients : ClientStep(c)
    \/ \E f \in Fibers : FiberStep(f)
    \/ \E t \in Threads : ThreadWait(t)
    \/ \E p \in Pools : RemovePool(p)

Spec == Init /\ [][Next]_vars

-----------------------------------------------------------------------------
\* The type of every variable.
TypeOK ==
    /\ available \in [Pools -> Seq(Conns)]
    /\ \A p \in Pools : \A i \in DOMAIN available[p] : available[p][i] \in ConnsOf(p)
    /\ cv \in [Pools -> SUBSET Threads]
    /\ waiters \in Seq([client : Fibers, pool : Pools])
    /\ registered \subseteq Pools
    /\ pools_mtx \in Clients \cup {Nobody}
    /\ conns \in [Clients -> [Pools -> Conns \cup {NoConn}]]
    /\ \A c \in Clients, p \in Pools : conns[c][p] \in ConnsOf(p) \cup {NoConn}
    /\ at \in [Clients -> Places]
    /\ target \in [Clients -> Pools \cup {Nobody}]
    /\ running \in [Scheds -> Fibers \cup {Nobody}]
    /\ status \in [Fibers -> {"new", "active", "parked", "finished"}]
    /\ permit \in [Fibers -> BOOLEAN] /\ waker \in [Fibers -> BOOLEAN]

\* How often a connection is in its pool's vector, and who has borrowed it.
Free(p, k) == {i \in DOMAIN available[p] : available[p][i] = k}
Borrowers(p, k) == {c \in Clients : conns[c][p] = k}

\* A connection is in one place: free once, or borrowed by one request; it is
\* lost only with a pool that has been removed (a connection used by two
\* requests would mix their transactions, one that leaks shrinks the pool).
ConnExclusive ==
    \A p \in Pools : \A k \in ConnsOf(p) :
        LET n == Cardinality(Free(p, k)) + Cardinality(Borrowers(p, k))
        IN  n <= 1 /\ (p \in registered => n = 1)

\* A fiber is in g_fiber_waiters exactly as long as it waits there, and once:
\* a second entry would later resume it out of a wait of another kind.
Listed(f) == {i \in DOMAIN waiters : waiters[i].client = f}
WaitersExact ==
    \A f \in Fibers :
        /\ Cardinality(Listed(f)) = IF waker[f] THEN 1 ELSE 0
        /\ waker[f] => /\ at[f] = "queued" \/ status[f] = "parked"
                       /\ \A i \in Listed(f) : waiters[i].pool = target[f]
        /\ status[f] = "parked" => at[f] = "retry" /\ waker[f]

\* No thread sleeps in cv while a connection is free that nobody has been
\* told of: release() signals after it has left mtx, and fibers may take the
\* connection first.
Told(p) == {t \in Threads : at[t] = "woken" /\ target[t] = p}
Telling(p) == {c \in Clients : at[c] \in {"notify", "signal"} /\ target[c] = p}
ThreadsTold ==
    \A p \in Pools : cv[p] # {} =>
        Len(available[p]) <= Cardinality(Told(p)) + Cardinality(Telling(p))

-----------------------------------------------------------------------------
(***************************************************************************)
(* Liveness: the threads run, the ready queues are FIFO (a fiber that is   *)
(* not parked gets its turn), and requests do not just yield for ever.     *)
(***************************************************************************)
Advance ==
    \/ \E c \in Clients : ClientStep(c)
    \/ \E f \in Fibers : JoinWaiters(f) \/ Suspend(f) \/ Retry(f)
    \/ \E t \in Threads : ThreadWait(t)

FairSpec == Spec /\ SF_vars(Advance) /\ WF_vars(\E f \in Fibers : Dispatch(f))

\* A thread that sleeps in acquire() gets a connection, whatever fibers of
\* all workers take before it, unless its pool is removed while it waits
\* (connections of a removed pool are dropped, and nobody signals cv).  Clients
\* use one pool each: a fiber that waits for ever holds nothing then.
ThreadsServed ==
    \A t \in Threads : at[t] = "asleep" ~> at[t] = "work" \/ target[t] \notin registered

\* web_stdlib.cpp:953: a fiber that finds the pool exhausted is "re-queued on
\* ITS OWN scheduler by notify_fiber_waiters() when a slot becomes free", also
\* across schedulers: no fiber stays parked beside a free connection of its
\* pool for ever.
RequeuedWhenFree ==
    \A f \in Fibers :
        (status[f] = "parked" /\ available[target[f]] # <<>>)
            ~> (status[f] # "parked" \/ available[target[f]] = <<>>)

=============================================================================
