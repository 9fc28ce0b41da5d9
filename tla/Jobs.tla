-------------------------------- MODULE Jobs --------------------------------
(***************************************************************************)
(* The persistent job queue (cpp/src/jobs_stdlib.cpp) and the pass of      *)
(* jobs::run over it (cpp/src/interpreter.cpp).                            *)
(*                                                                         *)
(* The table survives the processes.  Each SQL statement is atomic across  *)
(* processes; JobStore's mutex covers one process only, so a fail(), which *)
(* is a SELECT and an UPDATE, can be cut by another process.  Every id is  *)
(* used once (AUTOINCREMENT).                                              *)
(***************************************************************************)
EXTENDS Naturals, FiniteSets, FiniteSetsExt

CONSTANTS
    JobProcs,    \* processes that run jobs::run
    JobIds,      \* ids of the table, a bound on the number of pushes
    MaxRetries,  \* the max_retries values that are pushed
    MaxRetried,  \* bound on calls of jobs::retry per job
    MaxBusy,     \* bound on statements that fail (SQLITE_BUSY, I/O error)
    NoJob

ASSUME JobAssumption ==
    /\ IsFiniteSet(JobIds) /\ JobIds \subseteq Nat /\ NoJob \notin JobIds
    /\ MaxRetries \subseteq Nat
    /\ MaxRetried \in Nat /\ MaxBusy \in Nat

VARIABLES
    rows,       \* look_jobs: status, retry_count, max_retries, run_after, updated_at
    worker,     \* where the pass of each process is
    held,       \* the job it has claimed
    read,       \* what fail() has read
    starts,     \* how often each job's handler has started
    retried,    \* calls of jobs::retry that took effect
    rescued,    \* how often recover() has brought back an orphan
    grace,      \* further tries that failed reads of fail() may have given it
    robbed,     \* jobs recover() has taken back while a process ran them
    orphan,     \* jobs whose claim was lost in a crash or a failed statement
    busy        \* failed statements so far

jobVars == <<rows, worker, held, read, starts, retried, rescued, grace, robbed, orphan,
             busy>>

Statuses == {"absent", "purged", "pending", "processing", "done", "failed"}
WorkerPlaces == {"idle", "claim", "handler", "done", "fail", "failing"}

Rows == [status : Statuses, retry : Nat, max : Nat, ready : BOOLEAN, aged : BOOLEAN]
NoRow == [status |-> "absent", retry |-> 0, max |-> 0, ready |-> TRUE, aged |-> FALSE]
Exists(j) == rows[j].status \notin {"absent", "purged"}
Limit(j) == Max({1, rows[j].max})

JobInit ==
    /\ rows = [j \in JobIds |-> NoRow]
    /\ worker = [p \in JobProcs |-> "idle"]
    /\ held = [p \in JobProcs |-> NoJob]
    /\ read = [p \in JobProcs |-> NoRow]
    /\ starts = [j \in JobIds |-> 0]
    /\ retried = [j \in JobIds |-> 0]
    /\ rescued = [j \in JobIds |-> 0]
    /\ grace = [j \in JobIds |-> 0]
    /\ robbed = {} /\ orphan = {}
    /\ busy = 0

Moves(p, to) == worker' = [worker EXCEPT ![p] = to]

-----------------------------------------------------------------------------
(***************************************************************************)
(* Statements of the script.                                               *)
(***************************************************************************)

\* jobs::push: the next id; a delay makes run_after lie in the future.
Push(max, delayed) ==
    LET fresh == {j \in JobIds : rows[j].status = "absent"}
    IN  /\ fresh # {}
        /\ rows' = [rows EXCEPT ![Min(fresh)] =
                      [status |-> "pending", retry |-> 0, max |-> max,
                       ready |-> ~delayed, aged |-> FALSE]]
        /\ UNCHANGED <<worker, held, read, starts, retried, rescued, grace, robbed, orphan, busy>>

\* The clock passes run_after, or min_age_seconds after updated_at.
RunAfterPasses(j) ==
    /\ Exists(j) /\ ~rows[j].ready
    /\ rows' = [rows EXCEPT ![j].ready = TRUE]
    /\ UNCHANGED <<worker, held, read, starts, retried, rescued, grace, robbed, orphan, busy>>

Ages(j) ==
    /\ rows[j].status = "processing" /\ ~rows[j].aged
    /\ rows' = [rows EXCEPT ![j].aged = TRUE]
    /\ UNCHANGED <<worker, held, read, starts, retried, rescued, grace, robbed, orphan, busy>>

\* jobs::retry: only a failed job; retry_count stays.
Retry(j) ==
    /\ rows[j].status = "failed" /\ retried[j] < MaxRetried
    /\ rows' = [rows EXCEPT ![j].status = "pending"]
    /\ retried' = [retried EXCEPT ![j] = @ + 1]
    /\ UNCHANGED <<worker, held, read, starts, rescued, grace, robbed, orphan, busy>>

\* jobs::purge($queue, $status).
Purge(status) ==
    /\ \E j \in JobIds : rows[j].status = status
    /\ rows' = [j \in JobIds |-> IF rows[j].status = status
                                  THEN [NoRow EXCEPT !.status = "purged"] ELSE rows[j]]
    /\ orphan' = {j \in orphan : rows[j].status # status}
    /\ UNCHANGED <<worker, held, read, starts, retried, rescued, grace, robbed, busy>>

\* recover(0) takes every job that is being processed, recover(n) those
\* claimed n seconds ago or more.
Stuck(all) == {j \in JobIds : rows[j].status = "processing" /\ (all \/ rows[j].aged)}

Recover(all) ==
    /\ rows' = [j \in JobIds |->
                  IF j \in Stuck(all) THEN [rows[j] EXCEPT !.status = "pending", !.aged = FALSE]
                                      ELSE rows[j]]
    /\ robbed' = robbed \cup (Stuck(all) \cap {held[p] : p \in JobProcs})
    /\ rescued' = [j \in JobIds |-> IF j \in Stuck(all) THEN rescued[j] + 1 ELSE rescued[j]]
    /\ orphan' = orphan \ Stuck(all)

-----------------------------------------------------------------------------
(***************************************************************************)
(* The pass of jobs::run: next, handler, done or fail, until next() finds  *)
(* nothing.                                                                *)
(***************************************************************************)

Ready == {j \in JobIds : rows[j].status = "pending" /\ rows[j].ready}

\* Variant: the claim as it was, a SELECT and then an UPDATE by id, the row
\* having been claimed by another process in between.
MayClaimSeen(j) ==
    rows[j].ready /\ (rows[j].status = "pending" \/ \E p \in JobProcs : held[p] = j)
MayClaim(j) == j \in Ready /\ j = Min(Ready)

\* next(): one UPDATE ... RETURNING takes the lowest id that may run.
Claim(p) ==
    /\ worker[p] = "claim"
    /\ \/ \E j \in JobIds :
             /\ MayClaim(j)
             /\ rows' = [rows EXCEPT ![j].status = "processing", ![j].aged = FALSE]
             /\ held' = [held EXCEPT ![p] = j]
             /\ starts' = [starts EXCEPT ![j] = @ + 1]
             /\ Moves(p, "handler")
       \/ /\ Ready = {}
          /\ Moves(p, "idle")
          /\ UNCHANGED <<rows, held, starts>>
    /\ UNCHANGED <<read, retried, rescued, grace, robbed, orphan, busy>>

\* The handler returns true; or returns something else, or throws.
HandlerEnds(p, ok) ==
    /\ worker[p] = "handler"
    /\ Moves(p, IF ok THEN "done" ELSE "fail")
    /\ UNCHANGED <<rows, held, read, starts, retried, rescued, grace, robbed, orphan, busy>>

\* The process forgets its job and asks for the next one.
LetGo(p) ==
    /\ held' = [held EXCEPT ![p] = NoJob]
    /\ read' = [read EXCEPT ![p] = NoRow]
    /\ Moves(p, "claim")

\* done($id): by the id alone, whatever the row's status has become.
Done(p) ==
    /\ worker[p] = "done"
    /\ rows' = [rows EXCEPT ![held[p]].status = IF Exists(held[p]) THEN "done" ELSE @,
                            ![held[p]].aged = FALSE]
    /\ LetGo(p)
    /\ UNCHANGED <<starts, retried, rescued, grace, robbed, orphan, busy>>

\* fail($id), first statement; 0 and 3 when the row is gone.
FailRead(p) ==
    /\ worker[p] = "fail"
    /\ read' = [read EXCEPT ![p] = 
                      IF Exists(held[p])
                      THEN [NoRow EXCEPT !.retry = rows[held[p]].retry, !.max = rows[held[p]].max]
                      ELSE [NoRow EXCEPT !.max = 3]]
    /\ Moves(p, "failing")
    /\ UNCHANGED <<rows, held, starts, retried, rescued, grace, robbed, orphan, busy>>

\* Variant: the limit is passed by one.
NewStatusLate(count, max) == IF count > max THEN "failed" ELSE "pending"
NewStatus(count, max) == IF count >= max THEN "failed" ELSE "pending"

\* fail($id), second statement: also by the id alone.
FailWrite(p) ==
    LET j == held[p]
        count == read[p].retry + 1
    IN  /\ worker[p] = "failing"
        /\ rows' = IF Exists(j)
                   THEN [rows EXCEPT ![j].status = NewStatus(count, read[p].max),
                                     ![j].retry = count, ![j].aged = FALSE]
                   ELSE rows
        /\ LetGo(p)
        /\ UNCHANGED <<starts, retried, rescued, grace, robbed, orphan, busy>>

\* The pass ends with its claim still in the table: the process dies, or an
\* exception leaves jobs::run.
Lose(p) ==
    /\ orphan' = IF held[p] = NoJob THEN orphan ELSE orphan \cup {held[p]}
    /\ worker' = [worker EXCEPT ![p] = "idle"]
    /\ held' = [held EXCEPT ![p] = NoJob]
    /\ read' = [read EXCEPT ![p] = NoRow]

\* sqlite3_step does not do what it was asked to.  next() answers as if the
\* queue were empty; done() and fail() do not look at the result, and the job
\* stays as it is in the table; the read of fail() leaves 0 and 3, the write
\* then starts the count again, and the job gets max_retries - 1 further
\* tries, or one.
StepFails(p) ==
    \/ /\ worker[p] = "claim"
       /\ Moves(p, "idle")
       /\ UNCHANGED <<held, read, grace, orphan>>
    \/ /\ worker[p] \in {"done", "failing"}
       /\ orphan' = orphan \cup {held[p]}
       /\ LetGo(p)
       /\ UNCHANGED grace
    \/ /\ worker[p] = "fail"
       /\ read' = [read EXCEPT ![p] = [NoRow EXCEPT !.max = 3]]
       /\ grace' = [grace EXCEPT ![held[p]] = @ + Max({1, Limit(held[p]) - 1})]
       /\ Moves(p, "failing")
       /\ UNCHANGED <<held, orphan>>

\* prepare() throws: the exception leaves the pass, and a timer's callback,
\* or the script around jobs::run, catches it.
PrepareThrows(p) ==
    /\ worker[p] \in {"claim", "done", "fail", "failing"}
    /\ Lose(p)
    /\ UNCHANGED <<rows, starts, retried, rescued, grace, robbed>>

\* A statement of this process fails.
Busy(p) ==
    /\ busy < MaxBusy
    /\ busy' = busy + 1
    /\ \/ StepFails(p) /\ UNCHANGED <<rows, starts, retried, rescued, robbed>>
       \/ PrepareThrows(p)

-----------------------------------------------------------------------------
JobsTypeOK ==
    /\ rows \in [JobIds -> Rows]
    /\ worker \in [JobProcs -> WorkerPlaces]
    /\ held \in [JobProcs -> JobIds \cup {NoJob}]
    /\ read \in [JobProcs -> Rows]
    /\ starts \in [JobIds -> Nat] /\ retried \in [JobIds -> Nat]
    /\ rescued \in [JobIds -> Nat] /\ grace \in [JobIds -> Nat]
    /\ robbed \subseteq JobIds /\ orphan \subseteq JobIds
    /\ busy \in 0 .. MaxBusy

\* The comment of next(): "the same e-mail goes out twice, the same payment
\* is taken twice".  Two processes run one job only after a recover() has
\* taken it back under one of them.
ClaimExclusive ==
    \A p, q \in JobProcs :
        p # q /\ held[p] # NoJob /\ held[p] = held[q] => held[p] \in robbed

\* A job that was never taken from a process that ran it is tried at most
\* max_retries times (once if that is 0), plus once for each jobs::retry and
\* each rescue after a crash or a failed statement, plus max_retries - 1 times
\* (once at least) for each failed read of fail(), whatever the order in which
\* processes claim, fail, crash and retry; and it is not tried again once it
\* is done.
Tries(j) == Limit(j) + retried[j] + rescued[j] + grace[j]
AttemptsBounded ==
    \A j \in JobIds : Exists(j) /\ j \notin robbed =>
        /\ starts[j] <= Tries(j)
        /\ rows[j].status = "done" => \A p \in JobProcs : held[p] # j

\* What the documentation says of max_retries, "Maximum number of attempts":
\* the same without the tries a failed read of fail() gives.
AttemptsWithinMax ==
    \A j \in JobIds : Exists(j) /\ j \notin robbed =>
        starts[j] <= Limit(j) + retried[j] + rescued[j]

\* A job in processing is in somebody's hands, or was lost by a crash, a
\* failed statement or an exit that closes the table under a pass, for
\* recover() to bring back: no other way through handler, cancel and exit
\* leaves one behind.
NoUnexplainedClaim ==
    \A j \in JobIds : rows[j].status = "processing" =>
        j \in orphan \/ \E p \in JobProcs : held[p] = j

=============================================================================
