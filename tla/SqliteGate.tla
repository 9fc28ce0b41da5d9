----------------------------- MODULE SqliteGate -----------------------------
(***************************************************************************)
(* The write gate of one SQLite database file and the connections that     *)
(* pass it (cpp/src/sqlite_client.cpp): SqliteWriteGate, gate_before,      *)
(* gate_after, run, on_own_thread, query_here, execute_here and close.     *)
(*                                                                         *)
(* A call is split where another connection can act: the gate's critical   *)
(* sections, the statement itself (sqlite3_step, which sleeps in on_busy   *)
(* and yields in on_progress), and the two halves of close().  SQLite's    *)
(* write lock is lock: one connection, Other (another program) or Nobody.  *)
(***************************************************************************)
EXTENDS Integers, FiniteSets

CONSTANTS
    Conns,       \* the SqliteClient objects open on the file
    Other,       \* another program that writes the same file
    Nobody,
    MaxTickets   \* bound: tickets handed out in a behaviour

ASSUME GateAssumption == /\ Other \notin Conns /\ Nobody \notin Conns
                         /\ Other # Nobody
                         /\ MaxTickets \in Nat

VARIABLES
    \* SqliteWriteGate
    next, serving, abandoned,
    \* SqliteClient
    gate_held,   \* gate_held_
    in_fiber,    \* in_fiber_
    tx,          \* ~sqlite3_get_autocommit(db_)
    stmt,        \* the statement of the call under way
    stage,       \* where the call is
    ticket,      \* local t of acquire
    \* SQLite
    lock

gateVars == <<next, serving, abandoned>>
connVars == <<gate_held, in_fiber, tx, stmt, stage, ticket>>
vars == <<gateVars, connVars, lock>>

\* What sqlite3_prepare_v2 says of a statement, as far as the gate asks.
\* BEGIN IMMEDIATE is what db::begin and db::transaction send; a plain BEGIN
\* counts as read-only and takes SQLite's lock only with its first write.
Statements == {"read", "write", "begin", "immediate", "savepoint", "commit"}
ReadOnly(s)    == s \notin {"write", "immediate"}     \* sqlite3_stmt_readonly
StartsBegin(s) == s \in {"begin", "immediate"}        \* sqlite_starts_begin

\* A call is at the gate, waits in acquire (on its thread, or on the
\* connection's own thread for a fiber), runs its statement, ends it, or is
\* not under way; close() releases the gate before it closes the database.
Stages == {"idle", "gate", "posted", "queued", "step", "after", "closing", "closed"}

Init ==
    /\ next = 0 /\ serving = 0 /\ abandoned = {}
    /\ gate_held = [c \in Conns |-> FALSE]
    /\ in_fiber = [c \in Conns |-> FALSE]
    /\ tx = [c \in Conns |-> FALSE]
    /\ stmt = [c \in Conns |-> "none"]
    /\ stage = [c \in Conns |-> "idle"]
    /\ ticket = [c \in Conns |-> 0]
    /\ lock = Nobody

-----------------------------------------------------------------------------
(***************************************************************************)
(* SqliteWriteGate.                                                        *)
(***************************************************************************)

\* acquire: draw a ticket; wait until it is served or the limit has passed.
DrawTicket(c) ==
    /\ next < MaxTickets
    /\ ticket' = [ticket EXCEPT ![c] = next]
    /\ next' = next + 1
    /\ UNCHANGED <<serving, abandoned>>

Abandon(c) ==
    /\ serving # ticket[c]
    /\ abandoned' = abandoned \cup {ticket[c]}
    /\ ticket' = [ticket EXCEPT ![c] = 0]
    /\ UNCHANGED <<next, serving>>

\* try_acquire: only when nobody holds the gate and nobody waits for it.
TryAcquireBarging(c) ==
    /\ \A d \in Conns : ~gate_held[d]
    /\ next < MaxTickets
    /\ next' = next + 1
    /\ ticket' = [ticket EXCEPT ![c] = next]
    /\ UNCHANGED <<serving, abandoned>>

TryAcquire(c) ==
    /\ serving = next
    /\ DrawTicket(c)

\* release: serve the next ticket that nobody has given up.
ReleaseNoSkip ==
    /\ serving' = serving + 1
    /\ abandoned' = abandoned \ {serving + 1}
    /\ UNCHANGED next

\* The tickets that ++serving passes over: the run of abandoned ones.
Passed(s) == \A t \in (serving + 1) .. (s - 1) : t \in abandoned

Release ==
    \E s \in (serving + 1) .. (next + 1) :
        /\ Passed(s) /\ s \notin abandoned
        /\ serving' = s
        /\ abandoned' = abandoned \ ((serving + 1) .. (s - 1))
        /\ UNCHANGED next

-----------------------------------------------------------------------------
(***************************************************************************)
(* A call: query or execute.                                               *)
(***************************************************************************)

\* run(): the call starts on the caller's thread, in_fiber_ when that thread
\* is running a fiber; the statement is prepared.
Call(c, s, fiber) ==
    /\ stage[c] = "idle"
    /\ stage' = [stage EXCEPT ![c] = "gate"]
    /\ stmt' = [stmt EXCEPT ![c] = s]
    /\ in_fiber' = [in_fiber EXCEPT ![c] = fiber]
    /\ UNCHANGED <<gateVars, gate_held, tx, ticket, lock>>

\* gate_before: who passes without asking.
NeedsGateWritesOnly(c) == ~gate_held[c] /\ ~ReadOnly(stmt[c])  /\ ~StartsBegin(stmt[c])
NeedsGate(c) == ~gate_held[c] /\ (~ReadOnly(stmt[c]) \/ StartsBegin(stmt[c]))

PassFree(c) ==
    /\ stage[c] = "gate" /\ ~NeedsGate(c)
    /\ stage' = [stage EXCEPT ![c] = "step"]
    /\ UNCHANGED <<gateVars, gate_held, in_fiber, tx, stmt, ticket, lock>>

\* In a fiber the gate is only tried ...
PassFiber(c) ==
    /\ stage[c] = "gate" /\ NeedsGate(c) /\ in_fiber[c]
    /\ TryAcquire(c)
    /\ gate_held' = [gate_held EXCEPT ![c] = TRUE]
    /\ stage' = [stage EXCEPT ![c] = "step"]
    /\ UNCHANGED <<in_fiber, tx, stmt, lock>>

\* ... and SqliteGateBusy sends the call to the connection's own thread,
\* where the whole call runs again, no longer in the fiber.
GateBusy(c) ==
    /\ stage[c] = "gate" /\ NeedsGate(c) /\ in_fiber[c]
    /\ serving # next
    /\ in_fiber' = [in_fiber EXCEPT ![c] = FALSE]
    /\ stage' = [stage EXCEPT ![c] = "posted"]
    /\ UNCHANGED <<gateVars, gate_held, tx, stmt, ticket, lock>>

\* SqliteRunner::loop takes the job: query_here from its start.
RunnerStart(c) ==
    /\ stage[c] = "posted"
    /\ stage' = [stage EXCEPT ![c] = "gate"]
    /\ UNCHANGED <<gateVars, gate_held, in_fiber, tx, stmt, ticket, lock>>

\* Outside a fiber acquire waits for its turn, at most SQLITE_GATE_LIMIT.
Queue(c) ==
    /\ stage[c] = "gate" /\ NeedsGate(c) /\ ~in_fiber[c]
    /\ DrawTicket(c)
    /\ stage' = [stage EXCEPT ![c] = "queued"]
    /\ UNCHANGED <<gate_held, in_fiber, tx, stmt, lock>>

PassQueue(c) ==
    /\ stage[c] = "queued" /\ serving = ticket[c]
    /\ gate_held' = [gate_held EXCEPT ![c] = TRUE]
    /\ stage' = [stage EXCEPT ![c] = "step"]
    /\ UNCHANGED <<gateVars, in_fiber, tx, stmt, ticket, lock>>

GateTimeout(c) ==
    /\ stage[c] = "queued"
    /\ Abandon(c)
    /\ stage' = [stage EXCEPT ![c] = "idle"]
    /\ stmt' = [stmt EXCEPT ![c] = "none"]
    /\ UNCHANGED <<gate_held, in_fiber, tx, lock>>

\* sqlite3_step.  A write or BEGIN IMMEDIATE needs SQLite's write lock; while
\* another holder has it on_busy waits, and fails the statement after 5 s.
WantsLock(c) == stmt[c] \in {"write", "immediate"}
Busy(c) == stage[c] = "step" /\ WantsLock(c) /\ lock \notin {Nobody, c}

StepRead(c) ==
    /\ stage[c] = "step" /\ stmt[c] \in {"read", "begin", "savepoint"}
    /\ tx' = [tx EXCEPT ![c] = @ \/ stmt[c] # "read"]
    /\ UNCHANGED lock

StepWrite(c) ==
    /\ stage[c] = "step" /\ WantsLock(c) /\ ~Busy(c)
    /\ tx' = [tx EXCEPT ![c] = @ \/ stmt[c] = "immediate"]
    /\ lock' = IF tx'[c] THEN c ELSE lock

StepCommit(c) ==
    /\ stage[c] = "step" /\ stmt[c] = "commit"
    /\ tx' = [tx EXCEPT ![c] = FALSE]
    /\ lock' = IF lock = c THEN Nobody ELSE lock

\* An error leaves the transaction as it was, or rolls all of it back.
StepError(c) ==
    /\ stage[c] = "step"
    /\ \/ UNCHANGED <<tx, lock>>
       \/ /\ tx' = [tx EXCEPT ![c] = FALSE]
          /\ lock' = IF lock = c THEN Nobody ELSE lock

Step(c) ==
    /\ StepRead(c) \/ StepWrite(c) \/ StepCommit(c) \/ StepError(c)
    /\ stage' = [stage EXCEPT ![c] = "after"]
    /\ UNCHANGED <<gateVars, gate_held, in_fiber, stmt, ticket>>

\* gate_after, on every way out: an open transaction keeps the gate.
EndsGateOnCommit(c) == gate_held[c] /\ stmt[c] = "commit"
EndsGate(c) == gate_held[c] /\ ~tx[c]

LeaveGate(c) ==
    /\ Release
    /\ gate_held' = [gate_held EXCEPT ![c] = FALSE]
    /\ ticket' = [ticket EXCEPT ![c] = 0]

After(c) ==
    /\ stage[c] = "after"
    /\ IF EndsGate(c) THEN LeaveGate(c) ELSE UNCHANGED <<gateVars, gate_held, ticket>>
    /\ stage' = [stage EXCEPT ![c] = "idle"]
    /\ stmt' = [stmt EXCEPT ![c] = "none"]
    /\ in_fiber' = [in_fiber EXCEPT ![c] = FALSE]
    /\ UNCHANGED <<tx, lock>>

\* close(): the gate first, then sqlite3_close rolls the transaction back.
CloseRelease(c) ==
    /\ stage[c] = "idle"
    /\ IF gate_held[c] THEN LeaveGate(c) ELSE UNCHANGED <<gateVars, gate_held, ticket>>
    /\ stage' = [stage EXCEPT ![c] = "closing"]
    /\ UNCHANGED <<in_fiber, tx, stmt, lock>>

CloseDb(c) ==
    /\ stage[c] = "closing"
    /\ stage' = [stage EXCEPT ![c] = "closed"]
    /\ tx' = [tx EXCEPT ![c] = FALSE]
    /\ lock' = IF lock = c THEN Nobody ELSE lock
    /\ UNCHANGED <<gateVars, gate_held, in_fiber, stmt, ticket>>

\* Another program takes and drops SQLite's write lock.
OtherProgram ==
    /\ \/ lock = Nobody /\ lock' = Other
       \/ lock = Other /\ lock' = Nobody
    /\ UNCHANGED <<gateVars, connVars>>

-----------------------------------------------------------------------------
Progress(c) ==
    \/ PassFree(c) \/ PassFiber(c) \/ GateBusy(c) \/ RunnerStart(c) \/ Queue(c)
    \/ PassQueue(c) \/ Step(c) \/ After(c) \/ CloseDb(c)

Next ==
    \/ \E c \in Conns :
        \/ Progress(c) \/ GateTimeout(c) \/ CloseRelease(c)
        \/ \E s \in Statements, fiber \in BOOLEAN : Call(c, s, fiber)
    \/ OtherProgram

Spec == Init /\ [][Next]_vars

-----------------------------------------------------------------------------
\* The type of every variable.
TypeOK ==
    /\ next \in Nat /\ serving \in 0 .. next /\ abandoned \subseteq Nat
    /\ gate_held \in [Conns -> BOOLEAN]
    /\ in_fiber \in [Conns -> BOOLEAN]
    /\ tx \in [Conns -> BOOLEAN]
    /\ stmt \in [Conns -> Statements \cup {"none"}]
    /\ stage \in [Conns -> Stages]
    /\ ticket \in [Conns -> Nat]
    /\ lock \in Conns \cup {Other, Nobody}

\* A connection owns a ticket while it waits for it or holds the gate with it.
Owns(c, t) == ticket[c] = t /\ (stage[c] = "queued" \/ gate_held[c])

\* No turn is lost and none is given twice: every ticket that has been drawn
\* and not yet served out belongs to exactly one writer or has been given up,
\* only the writer being served holds the gate, and the ticket being served
\* is never one that nobody will release (the writers behind it would fail
\* after 10 s for ever: release() must skip what acquire() abandoned).
TurnsAccounted ==
    /\ \A t \in abandoned : serving < t /\ t < next
    /\ \A t \in serving .. (next - 1) :
          (t \in abandoned) <=> (\A c \in Conns : ~Owns(c, t))
    /\ \A c, d \in Conns : Owns(c, ticket[c]) /\ Owns(d, ticket[c]) => c = d
    /\ \A c \in Conns :
          /\ Owns(c, ticket[c]) => serving <= ticket[c] /\ ticket[c] < next
          /\ gate_held[c] => ticket[c] = serving

\* A connection that is not inside a call holds the gate only for its open
\* transaction: every way out of a statement, the errors included, gives it
\* back.
GateHeldForTransaction ==
    \A c \in Conns : gate_held[c] /\ stage[c] \in {"idle", "closing", "closed"} => tx[c]

\* Whoever has SQLite's write lock from one statement to the next holds the
\* gate, up to the moment it is closed.
LockUnderGate ==
    \A c \in Conns : lock = c /\ stage[c] # "closing" => gate_held[c]

\* Together: between calls the gate and SQLite's write lock go together.
GateMatchesLock == GateHeldForTransaction /\ LockUnderGate

\* What the gate is for: on_busy is "yalnız BAŞKA bir programın" (only for
\* another program's writes).  A statement waits there for another program,
\* or for a connection of this process that is inside close(), between the
\* release of the gate and the rollback; never for one that is at work.
BusyOnlyForOthers ==
    \A c \in Conns : Busy(c) =>
        lock = Other \/ \E d \in Conns : lock = d /\ stage[d] = "closing"

-----------------------------------------------------------------------------
(***************************************************************************)
(* Liveness.  The threads run, and a statement ends (or its 5 s of on_busy *)
(* do).  Nothing is assumed of the 10 s limit: turns come without it.      *)
(***************************************************************************)
FairSpec == Spec /\ \A c \in Conns : WF_vars(Progress(c))

\* As long as no transaction keeps the gate for ever, every writer that
\* queues gets its turn (SECURITY.md: writers "queue in arrival order and
\* take their turn one after another").
TurnComes ==
    (\A c \in Conns : []<>(~gate_held[c]))
        => \A c \in Conns : stage[c] = "queued" ~> stage[c] # "queued"

=============================================================================
