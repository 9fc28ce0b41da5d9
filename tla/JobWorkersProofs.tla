-------------------------- MODULE JobWorkersProofs --------------------------
(***************************************************************************)
(* TLAPS proofs about JobWorkers: the job table (Jobs) and the timer       *)
(* manager (Timers), for any processes, jobs and timers.                   *)
(***************************************************************************)
EXTENDS JobWorkers, WellFoundedInduction, FiniteSetTheorems, TLAPS

\* A process has a job exactly while a pass has one in its hands, and a pass
\* of a timer process runs inside a callback.
InHand == {"handler", "done", "fail", "failing"}
HandsInv ==
    /\ \A p \in JobProcs : held[p] # NoJob <=> worker[p] \in InHand
    /\ \A p \in Procs : worker[p] # "idle" => place[p] = "callback"

\* Has the last claim of a job not been answered, or answered with success?
Begun(j) == IF rows[j].status \in {"processing", "done"} THEN 1 ELSE 0
\* May its handler be started again without a call of jobs::retry?
Open(j) == IF rows[j].status = "pending" THEN 1 ELSE 0
\* The tries beyond max_retries.
Extra(j) == retried[j] + rescued[j] + grace[j]

\* A job that recover() has not taken from a live process, in the hands of p:
\* nobody else has it, its row waits for p (or has been purged), and what
\* fail() has read is still what the row says, or the read has failed and the
\* tries that follow from that are paid for.
OwnerInv(j, p) ==
    held[p] = j =>
        /\ rows[j].status \in {"processing", "purged"}
        /\ \A q \in JobProcs : held[q] = j => q = p
        /\ worker[p] = "failing" /\ Exists(j) =>
             \/ read[p].retry = rows[j].retry /\ read[p].max = rows[j].max
             \/ /\ read[p].retry = 0 /\ read[p].max = 3
                /\ starts[j] <= 1 + Extra(j) /\ starts[j] + 1 <= Limit(j) + Extra(j)

\* The handler has started at most once for each attempt the row has counted,
\* once for the claim that is open or was the last, and as often as the extra
\* tries allow; what has started leaves room for what may still come.
BudgetInv(j) ==
    Exists(j) =>
        /\ starts[j] <= rows[j].retry + Begun(j) + Extra(j)
        /\ starts[j] + Open(j) <= Limit(j) + Extra(j)

JobInv(j) ==
    /\ j \notin robbed => BudgetInv(j) /\ \A p \in JobProcs : OwnerInv(j, p)
    /\ rows[j].status = "absent" => starts[j] = 0 /\ rescued[j] = 0
    /\ rows[j].status = "processing" => j \in orphan \/ \E p \in JobProcs : held[p] = j

\* The thread sleeps, or is about to, with a deadline that covers every timer
\* and no order to stop, unless whoever changed that has signalled it; then
\* the predicate of its wait holds.
SleepInv(p) ==
    place[p] \in {"tested", "sleep"} =>
        /\ \/ Listed(p) \subseteq deadline[p]
           \/ place[p] = "sleep" /\ notified[p] /\ dirty[p]
        /\ \/ running[p]
           \/ place[p] = "sleep" /\ notified[p]

\* Callbacks wait in a batch only between collection and the next round, and
\* each timer's once.
BatchInv(p) ==
    /\ place[p] \notin {"batch", "callback"} => batch[p] = <<>>
    /\ place[p] = "callback" => batch[p] # <<>>
    /\ \A m, n \in 1 .. Len(batch[p]) : batch[p][m] = batch[p][n] => m = n

\* The callback of i has been collected and not started.
Waiting(p, i) ==
    \E n \in 1 .. Len(batch[p]) : batch[p][n] = i /\ (place[p] = "callback" => n > 1)

\* A cancelled timer is never collected again, and what had been collected
\* runs once.
CancelInv(p, i) ==
    /\ i \in cancelled[p] => /\ entries[p][i] = "erased"
                             /\ after[p][i] = 0 \/ (after[p][i] = 1 /\ ~Waiting(p, i))
    /\ i \notin cancelled[p] => after[p][i] = 0

-----------------------------------------------------------------------------
(***************************************************************************)
(* The helpers of the model.                                               *)
(***************************************************************************)

LEMMA MaxOfOne ==
    ASSUME NEW n \in Nat
    PROVE  Max({1, n}) \in Nat /\ Max({1, n}) >= 1 /\ Max({1, n}) >= n
<1>1. \E x \in {1, n} : \A y \in {1, n} : x >= y
  <2>1. CASE n <= 1 BY <2>1
  <2>2. CASE n >= 1 BY <2>2
  <2> QED BY <2>1, <2>2
<1>2. Max({1, n}) \in {1, n} /\ \A y \in {1, n} : Max({1, n}) >= y
  BY <1>1 DEF Max
<1> QED BY <1>2

\* The id AUTOINCREMENT gives out is a free one.
LEMMA MinIsMember ==
    ASSUME NEW S \in SUBSET Nat, S # {}
    PROVE  Min(S) \in S
<1> DEFINE R == OpToRel(<, Nat)
<1>0. ASSUME NEW y \in Nat, NEW z \in Nat, y < z
      PROVE  <<y, z>> \in R
  <2>1. <<y, z>> \in Nat \X Nat OBVIOUS
  <2>2. <<y, z>>[1] < <<y, z>>[2] BY <1>0
  <2> QED BY <2>1, <2>2, Zenon DEF OpToRel
<1>1. PICK x \in S : \A y \in S : ~(<<y, x>> \in R)
  BY WFMin, NatLessThanWellFounded
<1> HIDE DEF R
<1>2. ASSUME NEW y \in S PROVE x <= y
  <2>1. x \in Nat /\ y \in Nat OBVIOUS
  <2>2. ~(y < x) BY <1>1, <1>0, <2>1, Zenon
  <2> QED BY <2>1, <2>2
<1>3. \E z \in S : \A y \in S : z <= y BY <1>2
<1> QED BY <1>3 DEF Min

-----------------------------------------------------------------------------
(***************************************************************************)
(* A step of the system is one step of the job table and one step of the   *)
(* timer managers.                                                         *)
(***************************************************************************)

\* A pass begins: from the timer's callback, or after the interval.
PassBegins(p) ==
    /\ worker[p] = "idle" /\ Moves(p, "claim")
    /\ UNCHANGED <<rows, held, read, starts, retried, rescued, grace, robbed, orphan, busy>>

Dies(p) == Lose(p) /\ UNCHANGED <<rows, starts, retried, rescued, grace, robbed, busy>>

TableAction ==
    \/ \E m \in MaxRetries, delayed \in BOOLEAN : Push(m, delayed)
    \/ \E j \in JobIds : RunAfterPasses(j) \/ Ages(j) \/ Retry(j)
    \/ \E s \in {"pending", "processing", "done", "failed"} : Purge(s)
    \/ \E all \in BOOLEAN : Recover(all) /\ UNCHANGED <<worker, held, read, starts, retried, grace, busy>>

PassAction(p) ==
    \/ PassBegins(p) \/ Claim(p) \/ Done(p) \/ FailRead(p) \/ FailWrite(p)
    \/ \E ok \in BOOLEAN : HandlerEnds(p, ok)
    \/ Busy(p) \/ Dies(p)
    \/ PrepareThrows(p) /\ UNCHANGED busy

JobAction ==
    TableAction \/ (\E p \in JobProcs : PassAction(p)) \/ UNCHANGED jobVars

ManagerAction(p) ==
    \/ \E i \in TimerIds : Add(p, i) \/ Cancel(p, i) \/ TimePasses(p, i)
    \/ Shutdown(p) \/ TimerReset(p)
    \/ Test(p) \/ Sleep(p) \/ Wake(p) \/ StartCallback(p) \/ EndCallback(p) \/ BatchDone(p)

TimerAction == (\E p \in Procs : ManagerAction(p)) \/ UNCHANGED timerVars

LEMMA StepsSplit ==
    ASSUME HandsInv, [Next]_vars
    PROVE  JobAction /\ TimerAction
<1>1. Procs \subseteq JobProcs BY WorkerAssumption
<1>2. CASE UNCHANGED vars BY <1>2 DEF vars, JobAction, TimerAction
<1>3. CASE Script
  BY <1>3 DEF Script, JobAction, TableAction, TimerAction
<1>4. ASSUME NEW p \in Procs,
             SetTimers(p) \/ Clock(p) \/ CloseStore(p) \/ BeginExit(p) \/ EndExit(p)
      PROVE  JobAction /\ TimerAction
  BY <1>4
     DEF SetTimers, Clock, CloseStore, BeginExit, EndExit, JobAction, TimerAction, ManagerAction
<1>5. ASSUME NEW p \in Procs, TimerThread(p)
      PROVE  JobAction /\ TimerAction
  <2>1. CASE Test(p) /\ UNCHANGED jobVars
    BY <2>1 DEF JobAction, TimerAction, ManagerAction
  <2>2. CASE Sleep(p) /\ UNCHANGED jobVars
    BY <2>2 DEF JobAction, TimerAction, ManagerAction
  <2>3. CASE Wake(p) /\ UNCHANGED jobVars
    BY <2>3 DEF JobAction, TimerAction, ManagerAction
  <2>4. CASE BatchDone(p) /\ UNCHANGED jobVars
    BY <2>4 DEF JobAction, TimerAction, ManagerAction
  <2>5. CASE EndCallback(p) /\ UNCHANGED jobVars
    BY <2>5 DEF JobAction, TimerAction, ManagerAction
  <2>6. CASE StartCallback(p) /\ UNCHANGED jobVars
    BY <2>6 DEF JobAction, TimerAction, ManagerAction
  <2>7. CASE /\ StartCallback(p) /\ Moves(p, "claim")
             /\ UNCHANGED <<rows, held, read, starts, retried, rescued, grace, robbed, orphan, busy>>
    <3>1. worker[p] = "idle" BY <2>7 DEF StartCallback, HandsInv
    <3>2. PassAction(p) BY <2>7, <3>1 DEF PassAction, PassBegins
    <3> QED BY <1>1, <2>7, <3>2 DEF JobAction, TimerAction, ManagerAction
  <2> QED BY <1>5, <2>1, <2>2, <2>3, <2>4, <2>5, <2>6, <2>7 DEF TimerThread
<1>6. ASSUME NEW p \in JobProcs, LoopPass(p) \/ PassStep(p) \/ PassBusy(p)
      PROVE  JobAction /\ TimerAction
  <2>1. PassAction(p) /\ UNCHANGED timerVars
    BY <1>6 DEF LoopPass, PassStep, PassBusy, PassAction, PassBegins
  <2> QED BY <2>1 DEF JobAction, TimerAction
<1>7. ASSUME NEW p \in JobProcs, Kill(p)
      PROVE  JobAction /\ TimerAction
  <2>1. PassAction(p) BY <1>7 DEF Kill, PassAction, Dies
  <2>2. TimerAction BY <1>7 DEF Kill, TimerAction, ManagerAction
  <2> QED BY <2>1, <2>2 DEF JobAction
<1>8. ASSUME NEW p \in JobProcs, Restart(p)
      PROVE  JobAction /\ TimerAction
  <2>1. TableAction BY <1>8, WorkerAssumption DEF Restart, TableAction
  <2> QED BY <1>8, <2>1 DEF Restart, JobAction, TimerAction
<1> QED BY <1>2, <1>3, <1>4, <1>5, <1>6, <1>7, <1>8 DEF Next

-----------------------------------------------------------------------------
(***************************************************************************)
(* Types.                                                                  *)
(***************************************************************************)

LEMMA RowTypes ==
    /\ NoRow \in Rows /\ [NoRow EXCEPT !.status = "purged"] \in Rows
    /\ [NoRow EXCEPT !.max = 3] \in Rows
BY DEF NoRow, Rows, Statuses

LEMMA TableTypes ==
    ASSUME JobsTypeOK, TableAction
    PROVE  JobsTypeOK'
<1> USE JobAssumption
<1>1. ASSUME NEW m \in MaxRetries, NEW delayed \in BOOLEAN, Push(m, delayed)
      PROVE  JobsTypeOK'
  <2>1. [status |-> "pending", retry |-> 0, max |-> m,
         ready |-> ~delayed, aged |-> FALSE] \in Rows
    BY DEF Rows, Statuses
  <2> QED BY <1>1, <2>1 DEF Push, JobsTypeOK
<1>2. ASSUME NEW j \in JobIds, RunAfterPasses(j) \/ Ages(j) \/ Retry(j)
      PROVE  JobsTypeOK'
  <2>1. rows[j] \in Rows BY DEF JobsTypeOK
  <2>2. [rows[j] EXCEPT !.ready = TRUE] \in Rows /\ [rows[j] EXCEPT !.aged = TRUE] \in Rows
        /\ [rows[j] EXCEPT !.status = "pending"] \in Rows
    BY <2>1 DEF Rows, Statuses
  <2>3. CASE RunAfterPasses(j) BY <2>2, <2>3 DEF RunAfterPasses, JobsTypeOK
  <2>4. CASE Ages(j) BY <2>2, <2>4 DEF Ages, JobsTypeOK
  <2>5. CASE Retry(j) BY <2>2, <2>5 DEF Retry, JobsTypeOK
  <2> QED BY <1>2, <2>3, <2>4, <2>5
<1>3. ASSUME NEW s \in {"pending", "processing", "done", "failed"}, Purge(s)
      PROVE  JobsTypeOK'
  BY <1>3, RowTypes DEF Purge, JobsTypeOK
<1>4. ASSUME NEW all \in BOOLEAN, Recover(all),
             UNCHANGED <<worker, held, read, starts, retried, grace, busy>>
      PROVE  JobsTypeOK'
  <2>1. ASSUME NEW j \in JobIds
        PROVE  [rows[j] EXCEPT !.status = "pending", !.aged = FALSE] \in Rows
    <3>1. rows[j] \in Rows BY DEF JobsTypeOK
    <3> QED BY <3>1 DEF Rows, Statuses
  <2>2. rows' \in [JobIds -> Rows] BY <1>4, <2>1 DEF Recover, JobsTypeOK
  <2>3. rescued' \in [JobIds -> Nat]
    <3>1. \A j \in JobIds : rescued[j] \in Nat /\ rescued[j] + 1 \in Nat
      BY
         DEF JobsTypeOK
    <3> QED BY <1>4, <3>1 DEF Recover
  <2>4. robbed' \subseteq JobIds /\ orphan' \subseteq JobIds
    BY <1>4 DEF Recover, JobsTypeOK, Stuck
  <2> QED BY <1>4, <2>2, <2>3, <2>4 DEF JobsTypeOK
<1> QED BY <1>1, <1>2, <1>3, <1>4 DEF TableAction

LEMMA PassTypes ==
    ASSUME JobsTypeOK, HandsInv, NEW p \in JobProcs, PassAction(p)
    PROVE  JobsTypeOK'
<1> USE JobAssumption
<1>1. CASE PassBegins(p)
  BY <1>1 DEF PassBegins, Moves, JobsTypeOK, WorkerPlaces
<1>2. CASE Claim(p)
  <2>1. ASSUME NEW j \in JobIds,
               rows' = [rows EXCEPT ![j].status = "processing", ![j].aged = FALSE],
               held' = [held EXCEPT ![p] = j],
               starts' = [starts EXCEPT ![j] = @ + 1],
               Moves(p, "handler"), UNCHANGED <<read, retried, rescued, grace, robbed, orphan, busy>>
        PROVE  JobsTypeOK'
    <3>0. rows[j] \in Rows BY DEF JobsTypeOK
    <3>1. [rows[j] EXCEPT !.status = "processing", !.aged = FALSE] \in Rows
      BY <3>0 DEF Rows, Statuses
    <3> QED BY <2>1, <3>1 DEF JobsTypeOK, Moves, WorkerPlaces
  <2>2. CASE UNCHANGED <<rows, held, starts>> /\ Moves(p, "idle")
    BY <1>2, <2>2 DEF Claim, JobsTypeOK, Moves, WorkerPlaces
  <2> QED BY <1>2, <2>1, <2>2 DEF Claim
<1>3. ASSUME LetGo(p), rows' \in [JobIds -> Rows], orphan' \subseteq JobIds, busy' \in 0 .. MaxBusy,
             UNCHANGED <<starts, retried, rescued, grace, robbed>>
      PROVE  JobsTypeOK'
  BY <1>3, RowTypes DEF LetGo, Moves, JobsTypeOK, WorkerPlaces
<1>4. CASE Done(p)
  <2>1. held[p] \in JobIds BY <1>4 DEF Done, HandsInv, InHand, JobsTypeOK
  <2>2. \A s \in Statuses : [rows[held[p]] EXCEPT !.status = s, !.aged = FALSE] \in Rows
    BY <2>1 DEF JobsTypeOK, Rows
  <2>3. rows[held[p]].status \in Statuses /\ "done" \in Statuses
    BY <2>1 DEF JobsTypeOK, Rows, Statuses
  <2>4. rows' \in [JobIds -> Rows]
    BY <1>4, <2>1, <2>2, <2>3 DEF Done, JobsTypeOK
  <2> QED BY <1>3, <1>4, <2>4 DEF Done, JobsTypeOK
<1>5. CASE FailRead(p)
  <2>1. held[p] \in JobIds BY <1>5 DEF FailRead, HandsInv, InHand, JobsTypeOK
  <2>2. \A m, n \in Nat : [NoRow EXCEPT !.retry = m, !.max = n] \in Rows
    BY RowTypes DEF Rows
  <2>3. rows[held[p]].retry \in Nat /\ rows[held[p]].max \in Nat BY <2>1 DEF JobsTypeOK, Rows
  <2> QED BY <1>5, <2>2, <2>3, RowTypes DEF FailRead, Moves, JobsTypeOK, WorkerPlaces
<1>6. CASE FailWrite(p)
  <2>1. held[p] \in JobIds BY <1>6 DEF FailWrite, HandsInv, InHand, JobsTypeOK
  <2>2. read[p].retry + 1 \in Nat BY DEF JobsTypeOK, Rows
  <2>3. NewStatus(read[p].retry + 1, read[p].max) \in Statuses
    BY
       DEF NewStatus, Statuses
  <2>4. \A s \in Statuses, n \in Nat :
           [rows[held[p]] EXCEPT !.status = s, !.retry = n, !.aged = FALSE] \in Rows
    BY <2>1 DEF JobsTypeOK, Rows
  <2>5. rows' \in [JobIds -> Rows]
    BY <1>6, <2>1, <2>2, <2>3, <2>4 DEF FailWrite, JobsTypeOK
  <2> QED BY <1>3, <1>6, <2>5 DEF FailWrite, JobsTypeOK
<1>7. ASSUME NEW ok \in BOOLEAN, HandlerEnds(p, ok)
      PROVE  JobsTypeOK'
  BY <1>7 DEF HandlerEnds, Moves, JobsTypeOK, WorkerPlaces
<1>8. ASSUME Lose(p), busy' \in 0 .. MaxBusy,
             UNCHANGED <<rows, starts, retried, rescued, grace, robbed>>
      PROVE  JobsTypeOK'
  BY <1>8, RowTypes DEF Lose, JobsTypeOK, WorkerPlaces
<1>9. CASE Busy(p)
  <2>1. busy' \in 0 .. MaxBusy BY <1>9 DEF Busy, JobsTypeOK
  <2>2. CASE PrepareThrows(p) BY <1>8, <2>1, <2>2 DEF PrepareThrows
  <2>3. CASE StepFails(p) /\ UNCHANGED <<rows, starts, retried, rescued, robbed>>
    <3>1. CASE worker[p] = "claim" /\ Moves(p, "idle") /\ UNCHANGED <<held, read, grace, orphan>>
      BY <2>1, <2>3, <3>1 DEF Moves, JobsTypeOK, WorkerPlaces
    <3>2. CASE /\ worker[p] \in {"done", "failing"} /\ orphan' = orphan \cup {held[p]}
               /\ LetGo(p) /\ UNCHANGED grace
      <4>1. held[p] \in JobIds BY <3>2 DEF HandsInv, InHand, JobsTypeOK
      <4>2. rows' \in [JobIds -> Rows] /\ orphan' \subseteq JobIds
        BY <2>3, <3>2, <4>1 DEF JobsTypeOK
      <4> QED BY <1>3, <2>1, <2>3, <3>2, <4>2
    <3>3. CASE /\ worker[p] = "fail" /\ Moves(p, "failing")
               /\ read' = [read EXCEPT ![p] = [NoRow EXCEPT !.max = 3]]
               /\ grace' = [grace EXCEPT ![held[p]] = @ + Max({1, Limit(held[p]) - 1})]
               /\ UNCHANGED <<held, orphan>>
      <4> DEFINE more == Max({1, Limit(held[p]) - 1})
      <4>1. held[p] \in JobIds BY <3>3 DEF HandsInv, InHand, JobsTypeOK
      <4>2. rows[held[p]].max \in Nat BY <4>1 DEF JobsTypeOK, Rows
      <4>3. Limit(held[p]) \in Nat /\ Limit(held[p]) >= 1 BY <4>2, MaxOfOne DEF Limit
      <4>4. more \in Nat BY <4>3, MaxOfOne
      <4> HIDE DEF more
      <4>5. grace' = [grace EXCEPT ![held[p]] = @ + more] BY <3>3 DEF more
      <4>6. grace' \in [JobIds -> Nat]
        <5>1. grace \in [JobIds -> Nat] BY DEF JobsTypeOK
        <5>2. grace[held[p]] \in Nat BY <4>1, <5>1
        <5>3. grace[held[p]] + more \in Nat BY <4>4, <5>2
        <5> QED BY <4>5, <5>1, <5>3
      <4> QED BY <2>1, <2>3, <3>3, <4>6, RowTypes DEF Moves, JobsTypeOK, WorkerPlaces
    <3> QED BY <2>3, <3>1, <3>2, <3>3 DEF StepFails
  <2> QED BY <1>9, <2>2, <2>3 DEF Busy
<1>10. CASE Dies(p) \/ (PrepareThrows(p) /\ UNCHANGED busy)
  BY <1>8, <1>10 DEF Dies, PrepareThrows, JobsTypeOK
<1> QED BY <1>1, <1>2, <1>4, <1>5, <1>6, <1>7, <1>9, <1>10 DEF PassAction

\* Collecting: a batch of timers that are due.
LEMMA InOrderType ==
    ASSUME NEW S \in SUBSET TimerIds, NEW s \in InOrder(S)
    PROVE  /\ s \in Seq(TimerIds)
           /\ \A n \in 1 .. Len(s) : s[n] \in S
           /\ \A m, n \in 1 .. Len(s) : s[m] = s[n] => m = n
<1>1. IsFiniteSet(S) BY TimerAssumption, FS_Subset
<1>2. Cardinality(S) \in Nat BY <1>1, FS_CardinalityType
<1>3. s \in [1 .. Cardinality(S) -> S] BY DEF InOrder
<1>4. s \in Seq(TimerIds) /\ Len(s) = Cardinality(S) BY <1>2, <1>3
<1>5. ASSUME NEW m \in 1 .. Len(s), NEW n \in 1 .. Len(s), s[m] = s[n]
      PROVE  m = n
  <2>1. DOMAIN s = 1 .. Len(s) /\ m \in Nat /\ n \in Nat BY <1>2, <1>3, <1>4
  <2>2. s[m] \in Nat /\ s[n] \in Nat BY <1>3, <1>4, TimerAssumption
  <2>3. m < n => s[m] < s[n] BY <2>1 DEF InOrder
  <2>4. n < m => s[n] < s[m] BY <2>1 DEF InOrder
  <2> QED BY <1>5, <2>1, <2>2, <2>3, <2>4
<1> QED BY <1>3, <1>4, <1>5

LEMMA ManagerTypes ==
    ASSUME TimersTypeOK, NEW p \in Procs, BatchInv(p), ManagerAction(p)
    PROVE  TimersTypeOK'
<1> USE DEF TimersTypeOK, ThreadPlaces, EntryStates
<1>1. ASSUME NEW i \in TimerIds, Add(p, i) \/ Cancel(p, i) \/ TimePasses(p, i)
      PROVE  TimersTypeOK'
  <2>1. \A s \in EntryStates : [entries[p] EXCEPT ![i] = s] \in [TimerIds -> EntryStates]
    OBVIOUS
  <2>2. CASE Add(p, i) BY <2>1, <2>2 DEF Add, Notify
  <2>3. CASE Cancel(p, i) BY <2>1, <2>3 DEF Cancel, Notify
  <2>4. CASE TimePasses(p, i) BY <2>1, <2>4 DEF TimePasses
  <2> QED BY <1>1, <2>2, <2>3, <2>4
<1>2. CASE Shutdown(p) BY <1>2 DEF Shutdown, Notify
<1>3. CASE TimerReset(p)
  <2>1. [i \in TimerIds |-> "unused"] \in [TimerIds -> EntryStates] OBVIOUS
  <2>2. [i \in TimerIds |-> 0] \in [TimerIds -> Nat] OBVIOUS
  <2>3. <<>> \in Seq(TimerIds) OBVIOUS
  <2> QED BY <1>3, <2>1, <2>2, <2>3 DEF TimerReset
<1>4. ASSUME Collect(p)
      PROVE  /\ batch' \in [Procs -> Seq(TimerIds)]
             /\ entries' \in [Procs -> [TimerIds -> EntryStates]]
             /\ place' \in [Procs -> ThreadPlaces]
  <2>1. PICK s \in InOrder(Due(p)) : batch' = [batch EXCEPT ![p] = s]
    BY <1>4
       DEF Collect
  <2>2. Due(p) \in SUBSET TimerIds BY DEF Due
  <2>3. s \in Seq(TimerIds) BY <2>2, InOrderType
  <2>4. batch' \in [Procs -> Seq(TimerIds)] BY <2>1, <2>3
  <2>5. [i \in TimerIds |-> IF i \notin Due(p) THEN entries[p][i]
                            ELSE IF i \in Repeating THEN "armed" ELSE "erased"]
          \in [TimerIds -> EntryStates]
    OBVIOUS
  <2>6. entries' \in [Procs -> [TimerIds -> EntryStates]] BY <1>4, <2>5 DEF Collect
  <2> QED BY <1>4, <2>4, <2>6 DEF Collect
<1>5. CASE Test(p)
  <2>1. dirty' \in [Procs -> BOOLEAN] BY <1>5 DEF Test
  <2>2. CASE /\ place' = [place EXCEPT ![p] = "gone"]
             /\ UNCHANGED <<entries, batch, deadline>>
    BY <1>5, <2>1, <2>2 DEF Test
  <2>3. CASE Collect(p) /\ UNCHANGED deadline BY <1>4, <1>5, <2>1, <2>3 DEF Test
  <2>4. CASE /\ deadline' = [deadline EXCEPT ![p] = Listed(p)]
             /\ place' = [place EXCEPT ![p] = "tested"]
             /\ UNCHANGED <<entries, batch>>
    <3>1. Listed(p) \in SUBSET TimerIds BY DEF Listed
    <3> QED BY <1>5, <2>1, <2>4, <3>1 DEF Test
  <2> QED BY <1>5, <2>2, <2>3, <2>4 DEF Test
<1>6. CASE Sleep(p) BY <1>6 DEF Sleep
<1>7. CASE Wake(p) BY <1>4, <1>7 DEF Wake
<1>8. CASE StartCallback(p)
  <2>1. Head(batch[p]) \in TimerIds BY <1>8 DEF StartCallback
  <2>2. \A n \in Nat : [after[p] EXCEPT ![Head(batch[p])] = n] \in [TimerIds -> Nat]
    OBVIOUS
  <2>3. after[p][Head(batch[p])] \in Nat BY <2>1
  <2>4. after' \in [Procs -> [TimerIds -> Nat]]
    BY <1>8, <2>1, <2>2, <2>3
       DEF StartCallback
  <2> QED BY <1>8, <2>4 DEF StartCallback
<1>9. CASE EndCallback(p)
  <2>1. batch[p] \in Seq(TimerIds) OBVIOUS
  <2>2. batch[p] # <<>> => Tail(batch[p]) \in Seq(TimerIds) BY <2>1
  <2> QED BY <1>9, <2>2 DEF EndCallback, BatchInv
<1>10. CASE BatchDone(p) BY <1>10 DEF BatchDone
<1> QED BY <1>1, <1>2, <1>3, <1>5, <1>6, <1>7, <1>8, <1>9, <1>10 DEF ManagerAction

-----------------------------------------------------------------------------
(***************************************************************************)
(* Passes, hands and callbacks.                                            *)
(***************************************************************************)

LEMMA HandsStep ==
    ASSUME TypeOK, HandsInv, [Next]_vars
    PROVE  HandsInv'
<1> USE JobAssumption, WorkerAssumption DEF TypeOK
<1>1. JobAction BY StepsSplit
<1>2. ASSUME NEW p \in JobProcs
      PROVE  (held'[p] # NoJob <=> worker'[p] \in InHand)
  <2>1. held[p] # NoJob <=> worker[p] \in InHand BY DEF HandsInv
  <2>2. CASE UNCHANGED <<held, worker>> BY <2>1, <2>2
  <2>3. ASSUME NEW q \in JobProcs, PassAction(q)
        PROVE  (held'[p] # NoJob <=> worker'[p] \in InHand)
    <3> USE DEF JobsTypeOK, InHand
    <3>1. held[q] # NoJob <=> worker[q] \in InHand BY DEF HandsInv
    <3>2. CASE PassBegins(q) BY <2>1, <3>1, <3>2 DEF PassBegins, Moves
    <3>3. CASE Claim(q)
      <4>1. ASSUME NEW j \in JobIds, held' = [held EXCEPT ![q] = j], Moves(q, "handler")
            PROVE  (held'[p] # NoJob <=> worker'[p] \in InHand)
        <5>1. j # NoJob OBVIOUS
        <5> QED BY <2>1, <4>1, <5>1 DEF Moves
      <4>2. CASE Moves(q, "idle") /\ UNCHANGED held
        BY <2>1, <3>1, <3>3, <4>2 DEF Claim, Moves
      <4> QED BY <3>3, <4>1, <4>2 DEF Claim
    <3>4. CASE LetGo(q) BY <2>1, <3>1, <3>4 DEF LetGo, Moves
    <3>5. CASE FailRead(q) BY <2>1, <3>1, <3>5 DEF FailRead, Moves
    <3>6. ASSUME NEW ok \in BOOLEAN, HandlerEnds(q, ok)
          PROVE  (held'[p] # NoJob <=> worker'[p] \in InHand)
      BY <2>1, <3>1, <3>6 DEF HandlerEnds, Moves
    <3>7. CASE Lose(q) BY <2>1, <3>1, <3>7 DEF Lose
    <3>8. CASE StepFails(q) BY <2>1, <3>1, <3>4, <3>8 DEF StepFails, Moves
    <3> QED BY <2>3, <3>2, <3>3, <3>4, <3>5, <3>6, <3>7, <3>8
            DEF PassAction, Done, FailWrite, Busy, PrepareThrows, Dies
  <2> QED BY <1>1, <2>2, <2>3 DEF JobAction, TableAction, jobVars, Push, RunAfterPasses,
                                  Ages, Retry, Purge
<1>3. ASSUME NEW p \in Procs, worker'[p] # "idle"
      PROVE  place'[p] = "callback"
  <2> USE DEF JobsTypeOK, TimersTypeOK
  <2>1. worker[p] # "idle" => place[p] = "callback" BY DEF HandsInv
  <2>2. p \in JobProcs OBVIOUS
  <2>3. CASE UNCHANGED <<worker, place>> BY <1>3, <2>1, <2>3
  <2>4. ASSUME NEW q \in Procs, SetTimers(q) \/ Clock(q) \/ CloseStore(q) \/ BeginExit(q)
        PROVE  place'[p] = "callback"
    BY <1>3, <2>1, <2>4
       DEF SetTimers, Add, Cancel, Clock, TimePasses, CloseStore, BeginExit, Shutdown,
           jobVars, timerVars
  <2>5. ASSUME NEW q \in Procs, EndExit(q)
        PROVE  place'[p] = "callback"
    BY <1>3, <2>1, <2>5 DEF EndExit, TimerReset, jobVars
  <2>6. ASSUME NEW q \in Procs, TimerThread(q)
        PROVE  place'[p] = "callback"
    <3>1. CASE UNCHANGED jobVars /\ (Test(q) \/ Sleep(q) \/ Wake(q) \/ BatchDone(q))
      BY <1>3, <2>1, <3>1 DEF jobVars, Test, Sleep, Wake, BatchDone, Collect
    <3>2. CASE StartCallback(q) /\ q = p
      BY <3>2 DEF StartCallback
    <3>3. CASE StartCallback(q) /\ q # p
      BY <1>3, <2>1, <2>2, <2>6, <3>3
         DEF StartCallback, TimerThread, Moves, jobVars, Test,
         Sleep, Wake, BatchDone, EndCallback
    <3>4. CASE worker[q] = "idle" /\ EndCallback(q) /\ UNCHANGED jobVars
      BY <1>3, <2>1, <3>4 DEF EndCallback, jobVars
    <3> QED BY <2>6, <3>1, <3>2, <3>3, <3>4 DEF TimerThread
  <2>7. ASSUME NEW q \in JobProcs, LoopPass(q) \/ PassStep(q) \/ PassBusy(q)
        PROVE  place'[p] = "callback"
    <3>1. place' = place BY <2>7 DEF LoopPass, PassStep, PassBusy, timerVars
    <3>2. CASE q # p
      BY <1>3, <2>1, <2>2, <2>7, <3>1, <3>2
         DEF LoopPass, PassStep, PassBusy, Moves, Claim, Done, FailRead, FailWrite, HandlerEnds,
             Busy, StepFails, PrepareThrows, Lose, LetGo
    <3>3. CASE q = p
      <4>1. worker[p] # "idle"
        BY <2>7, <3>3 DEF LoopPass, Loopers, PassStep, PassBusy, Claim, Done, FailRead,
           FailWrite, HandlerEnds, Busy, StepFails, PrepareThrows
      <4> QED BY <2>1, <3>1, <4>1
    <3> QED BY <3>2, <3>3
  <2>8. ASSUME NEW q \in JobProcs, Kill(q)
        PROVE  place'[p] = "callback"
    <3>1. CASE q = p BY <1>3, <2>2, <2>8, <3>1 DEF Kill, Lose
    <3>2. CASE q # p
      BY <1>3, <2>1, <2>2, <2>8, <3>2 DEF Kill, Lose, TimerReset, timerVars
    <3> QED BY <3>1, <3>2
  <2> QED BY <2>3, <2>4, <2>5, <2>6, <2>7, <2>8
          DEF Next, vars, jobVars, timerVars, Script, Restart, Push, RunAfterPasses, Ages,
              Retry, Purge
<1> QED BY <1>2, <1>3 DEF HandsInv

-----------------------------------------------------------------------------
(***************************************************************************)
(* The timer manager.                                                      *)
(***************************************************************************)

\* What another process's manager does changes nothing here.
LEMMA OtherManager ==
    ASSUME TimersTypeOK, NEW p \in Procs, NEW q \in Procs, p # q, ManagerAction(q)
    PROVE  /\ entries'[p] = entries[p] /\ running'[p] = running[p] /\ dirty'[p] = dirty[p]
           /\ notified'[p] = notified[p] /\ place'[p] = place[p]
           /\ deadline'[p] = deadline[p] /\ batch'[p] = batch[p]
           /\ cancelled'[p] = cancelled[p] /\ after'[p] = after[p]
<1> USE DEF TimersTypeOK
<1>1. ASSUME NEW i \in TimerIds, Add(q, i) \/ Cancel(q, i) \/ TimePasses(q, i)
      PROVE  /\ entries'[p] = entries[p] /\ running'[p] = running[p] /\ dirty'[p] = dirty[p]
             /\ notified'[p] = notified[p] /\ place'[p] = place[p]
             /\ deadline'[p] = deadline[p] /\ batch'[p] = batch[p]
             /\ cancelled'[p] = cancelled[p] /\ after'[p] = after[p]
  BY <1>1 DEF Add, Cancel, TimePasses, Notify
<1>2. CASE Shutdown(q) BY <1>2 DEF Shutdown, Notify
<1>3. CASE TimerReset(q) BY <1>3 DEF TimerReset
<1>4. CASE Test(q) BY <1>4 DEF Test, Collect
<1>5. CASE Sleep(q) BY <1>5 DEF Sleep
<1>6. CASE Wake(q) BY <1>6 DEF Wake, Collect
<1>7. CASE StartCallback(q) BY <1>7 DEF StartCallback
<1>8. CASE EndCallback(q) BY <1>8 DEF EndCallback
<1>9. CASE BatchDone(q) BY <1>9 DEF BatchDone
<1> QED BY <1>1, <1>2, <1>3, <1>4, <1>5, <1>6, <1>7, <1>8, <1>9 DEF ManagerAction

LEMMA SleepStep ==
    ASSUME TimersTypeOK, NEW p \in Procs, SleepInv(p), ManagerAction(p)
    PROVE  SleepInv(p)'
<1> USE DEF TimersTypeOK, SleepInv
<1>1. ASSUME NEW i \in TimerIds, Add(p, i) PROVE SleepInv(p)'
  BY <1>1 DEF Add, Notify, MtxFree
<1>2. ASSUME NEW i \in TimerIds, Cancel(p, i) PROVE SleepInv(p)'
  BY <1>2 DEF Cancel, Notify, MtxFree
<1>3. ASSUME NEW i \in TimerIds, TimePasses(p, i) PROVE SleepInv(p)'
  <2>1. Listed(p)' = Listed(p) BY <1>3 DEF TimePasses, Listed
  <2> QED BY <1>3, <2>1 DEF TimePasses
<1>4. CASE Shutdown(p)
  <2>1. Listed(p)' = Listed(p) BY <1>4 DEF Shutdown, Listed
  <2> QED BY <1>4, <2>1 DEF Shutdown, Notify, MtxFree
<1>5. CASE TimerReset(p) BY <1>5 DEF TimerReset
<1>6. CASE Test(p)
  <2>1. CASE place'[p] \in {"gone", "batch"} BY <2>1
  <2>2. CASE /\ running[p] /\ deadline' = [deadline EXCEPT ![p] = Listed(p)]
             /\ place' = [place EXCEPT ![p] = "tested"]
             /\ UNCHANGED <<entries, batch>>
    <3>1. Listed(p)' = Listed(p) BY <2>2 DEF Listed
    <3>2. deadline'[p] = Listed(p) BY <2>2
    <3> QED BY <1>6, <2>2, <3>1, <3>2 DEF Test
  <2> QED BY <1>6, <2>1, <2>2 DEF Test, Collect
<1>7. CASE Sleep(p)
  <2>1. Listed(p)' = Listed(p) BY <1>7 DEF Sleep, Listed
  <2> QED BY <1>7, <2>1 DEF Sleep
<1>8. CASE Wake(p)
  <2>1. CASE place'[p] \in {"gone", "batch"} BY <2>1
  <2>2. CASE /\ notified[p] /\ running[p] /\ ~dirty[p]
             /\ UNCHANGED <<entries, batch, deadline, place>>
    <3>1. Listed(p)' = Listed(p) BY <2>2 DEF Listed
    <3> QED BY <1>8, <2>2, <3>1 DEF Wake
  <2> QED BY <1>8, <2>1, <2>2 DEF Wake, Collect
<1>9. CASE StartCallback(p) \/ EndCallback(p) \/ BatchDone(p)
  <2>1. place'[p] \in {"callback", "batch", "top"}
    BY <1>9 DEF StartCallback, EndCallback, BatchDone
  <2> QED BY <2>1
<1> QED BY <1>1, <1>2, <1>3, <1>4, <1>5, <1>6, <1>7, <1>8, <1>9 DEF ManagerAction

LEMMA BatchStep ==
    ASSUME TimersTypeOK, NEW p \in Procs, BatchInv(p), ManagerAction(p)
    PROVE  BatchInv(p)'
<1> USE DEF TimersTypeOK, BatchInv
<1>0. ASSUME place'[p] = place[p], batch'[p] = batch[p] PROVE BatchInv(p)'
  BY <1>0
<1>1. ASSUME NEW i \in TimerIds, Add(p, i) \/ Cancel(p, i) \/ TimePasses(p, i)
      PROVE  BatchInv(p)'
  BY <1>0, <1>1 DEF Add, Cancel, TimePasses
<1>2. CASE Shutdown(p) BY <1>0, <1>2 DEF Shutdown
<1>3. CASE TimerReset(p) BY <1>3 DEF TimerReset
<1>4. ASSUME Collect(p) PROVE BatchInv(p)'
  <2>1. PICK s \in InOrder(Due(p)) : batch' = [batch EXCEPT ![p] = s]
    BY <1>4
       DEF Collect
  <2>2. Due(p) \in SUBSET TimerIds BY DEF Due
  <2>3. \A m, n \in 1 .. Len(s) : s[m] = s[n] => m = n BY <2>2, InOrderType
  <2>4. batch'[p] = s /\ place'[p] = "batch" BY <1>4, <2>1 DEF Collect
  <2> QED BY <2>3, <2>4
<1>5. CASE Test(p)
  <2>1. CASE Collect(p) BY <1>4, <2>1
  <2>2. CASE UNCHANGED batch /\ place'[p] \in {"gone", "tested"} BY <1>5, <2>2 DEF Test
  <2> QED BY <1>5, <2>1, <2>2 DEF Test
<1>6. CASE Sleep(p) BY <1>6 DEF Sleep
<1>7. CASE Wake(p)
  <2>1. CASE Collect(p) BY <1>4, <2>1
  <2>2. CASE UNCHANGED batch /\ place'[p] \in {"gone", "sleep"} BY <1>7, <2>2 DEF Wake
  <2> QED BY <1>7, <2>1, <2>2 DEF Wake
<1>8. CASE StartCallback(p) BY <1>8 DEF StartCallback
<1>9. CASE EndCallback(p)
  <2>1. batch[p] \in Seq(TimerIds) /\ batch[p] # <<>> BY <1>9 DEF EndCallback
  <2>2. batch'[p] = Tail(batch[p]) /\ place'[p] = "batch" BY <1>9 DEF EndCallback
  <2>3. Len(Tail(batch[p])) = Len(batch[p]) - 1
        /\ \A n \in 1 .. Len(Tail(batch[p])) : Tail(batch[p])[n] = batch[p][n + 1]
    BY <2>1
  <2>4. ASSUME NEW m \in 1 .. Len(batch'[p]), NEW n \in 1 .. Len(batch'[p]),
               batch'[p][m] = batch'[p][n]
        PROVE  m = n
    <3>1. batch[p][m + 1] = batch[p][n + 1] BY <2>2, <2>3, <2>4
    <3>2. m \in Nat /\ n \in Nat /\ m + 1 \in 1 .. Len(batch[p]) /\ n + 1 \in 1 .. Len(batch[p])
      BY <2>1, <2>2, <2>3
    <3> QED BY <3>1, <3>2
  <2> QED BY <2>2, <2>4
<1>10. CASE BatchDone(p) BY <1>10 DEF BatchDone
<1> QED BY <1>1, <1>2, <1>3, <1>5, <1>6, <1>7, <1>8, <1>9, <1>10 DEF ManagerAction

LEMMA CancelStep ==
    ASSUME TimersTypeOK, NEW p \in Procs, BatchInv(p), NEW i \in TimerIds, CancelInv(p, i),
           ManagerAction(p)
    PROVE  CancelInv(p, i)'
<1> USE DEF TimersTypeOK
<1>0. ASSUME cancelled'[p] = cancelled[p], after'[p] = after[p],
             i \in cancelled[p] => entries'[p][i] = "erased" /\ (Waiting(p, i)' => Waiting(p, i))
      PROVE  CancelInv(p, i)'
  BY <1>0 DEF CancelInv
<1>1. ASSUME place'[p] = place[p], batch'[p] = batch[p] PROVE Waiting(p, i)' <=> Waiting(p, i)
  BY <1>1 DEF Waiting
<1>2. ASSUME NEW k \in TimerIds, Add(p, k) PROVE CancelInv(p, i)'
  <2>1. entries[p][i] = "erased" => entries'[p][i] = "erased" BY <1>2 DEF Add
  <2> QED BY <1>0, <1>1, <1>2, <2>1 DEF Add, CancelInv
<1>3. ASSUME NEW k \in TimerIds, TimePasses(p, k) PROVE CancelInv(p, i)'
  <2>1. entries[p][i] = "erased" => entries'[p][i] = "erased" BY <1>3 DEF TimePasses
  <2> QED BY <1>0, <1>1, <1>3, <2>1 DEF TimePasses, CancelInv
<1>4. ASSUME NEW k \in TimerIds, Cancel(p, k) PROVE CancelInv(p, i)'
  <2>1. after'[p] = after[p] /\ cancelled'[p] = cancelled[p] \cup {k} BY <1>4 DEF Cancel
  <2>2. entries'[p][i] = IF i = k THEN "erased" ELSE entries[p][i] BY <1>4 DEF Cancel
  <2>3. Waiting(p, i)' <=> Waiting(p, i) BY <1>1, <1>4 DEF Cancel
  <2> QED BY <2>1, <2>2, <2>3, <1>4 DEF CancelInv, Cancel
<1>5. CASE Shutdown(p) BY <1>0, <1>1, <1>5 DEF Shutdown, CancelInv
<1>6. CASE TimerReset(p) BY <1>6 DEF TimerReset, CancelInv
<1>7. ASSUME Collect(p), UNCHANGED <<cancelled, after>> PROVE CancelInv(p, i)'
  <2>1. PICK s \in InOrder(Due(p)) : batch' = [batch EXCEPT ![p] = s]
    BY <1>7
       DEF Collect
  <2>2. Due(p) \in SUBSET TimerIds BY DEF Due
  <2>3. \A n \in 1 .. Len(s) : s[n] \in Due(p) BY <2>2, InOrderType
  <2>4. batch'[p] = s BY <2>1
  <2>5. CASE i \in cancelled[p]
    <3>1. i \notin Due(p) BY <2>5 DEF CancelInv, Due
    <3>2. ~Waiting(p, i)' BY <2>3, <2>4, <3>1 DEF Waiting
    <3>3. entries'[p][i] = entries[p][i] BY <1>7, <3>1 DEF Collect
    <3> QED BY <1>0, <1>7, <2>5, <3>2, <3>3 DEF CancelInv
  <2>6. CASE i \notin cancelled[p] BY <1>0, <1>7, <2>6
  <2> QED BY <2>5, <2>6
<1>8. CASE Test(p)
  <2>1. CASE Collect(p) BY <1>7, <1>8, <2>1 DEF Test
  <2>2. CASE UNCHANGED <<batch, entries>>
    <3>1. batch'[p] = <<>> BY <1>8, <2>2 DEF Test, BatchInv
    <3>2. ~Waiting(p, i)' BY <3>1 DEF Waiting
    <3> QED BY <1>0, <1>8, <2>2, <3>2 DEF Test, CancelInv
  <2> QED BY <1>8, <2>1, <2>2 DEF Test
<1>9. CASE Sleep(p)
  <2>1. batch'[p] = <<>> BY <1>9 DEF Sleep, BatchInv
  <2>2. ~Waiting(p, i)' BY <2>1 DEF Waiting
  <2> QED BY <1>0, <1>9, <2>2 DEF Sleep, CancelInv
<1>10. CASE Wake(p)
  <2>1. CASE Collect(p) BY <1>7, <1>10, <2>1 DEF Wake
  <2>2. CASE UNCHANGED <<batch, entries>>
    <3>1. batch'[p] = <<>> BY <1>10, <2>2 DEF Wake, BatchInv
    <3>2. ~Waiting(p, i)' BY <3>1 DEF Waiting
    <3> QED BY <1>0, <1>10, <2>2, <3>2 DEF Wake, CancelInv
  <2> QED BY <1>10, <2>1, <2>2 DEF Wake
<1>11. CASE StartCallback(p)
  <2>1. batch[p] \in Seq(TimerIds) /\ batch[p] # <<>> /\ Head(batch[p]) = batch[p][1]
        /\ 1 \in 1 .. Len(batch[p])
    BY <1>11 DEF StartCallback
  <2>2. place[p] = "batch" /\ place'[p] = "callback" /\ batch'[p] = batch[p]
        /\ cancelled'[p] = cancelled[p] /\ entries'[p] = entries[p]
    BY <1>11 DEF StartCallback
  <2>3. Waiting(p, i)' => Waiting(p, i) BY <2>2 DEF Waiting
  <2>4. after'[p][i] = IF Head(batch[p]) = i /\ i \in cancelled[p]
                       THEN after[p][i] + 1 ELSE after[p][i]
    BY <1>11 DEF StartCallback
  <2>5. CASE Head(batch[p]) = i /\ i \in cancelled[p]
    <3>1. Waiting(p, i) BY <2>1, <2>2, <2>5 DEF Waiting
    <3>2. after[p][i] = 0 /\ after'[p][i] = 1 BY <2>4, <2>5, <3>1 DEF CancelInv
    <3>3. ~Waiting(p, i)'
      <4>1. SUFFICES ASSUME NEW n \in 1 .. Len(batch[p]), batch[p][n] = i, n > 1
                     PROVE  FALSE
        BY <2>2 DEF Waiting
      <4>2. n = 1 BY <2>1, <2>5, <4>1 DEF BatchInv
      <4> QED BY <4>1, <4>2
    <3> QED BY <2>2, <2>5, <3>2, <3>3 DEF CancelInv
  <2>6. CASE ~(Head(batch[p]) = i /\ i \in cancelled[p])
    BY <2>2, <2>3, <2>4, <2>6 DEF CancelInv
  <2> QED BY <2>5, <2>6
<1>12. CASE EndCallback(p)
  <2>1. batch[p] \in Seq(TimerIds) /\ batch[p] # <<>> BY <1>12 DEF EndCallback, BatchInv
  <2>2. batch'[p] = Tail(batch[p]) /\ place'[p] = "batch" /\ place[p] = "callback"
    BY <1>12 DEF EndCallback
  <2>3. Len(Tail(batch[p])) = Len(batch[p]) - 1
        /\ \A n \in 1 .. Len(Tail(batch[p])) : Tail(batch[p])[n] = batch[p][n + 1]
    BY <2>1
  <2>4. ASSUME Waiting(p, i)' PROVE Waiting(p, i)
    <3>1. PICK n \in 1 .. Len(Tail(batch[p])) : Tail(batch[p])[n] = i
      BY <2>2, <2>4 DEF Waiting
    <3>2. n + 1 \in 1 .. Len(batch[p]) /\ n + 1 > 1 /\ batch[p][n + 1] = i
      BY <2>1, <2>3, <3>1
    <3> QED BY <3>2 DEF Waiting
  <2> QED BY <1>0, <1>12, <2>4 DEF EndCallback, CancelInv
<1>13. CASE BatchDone(p)
  <2>1. ~Waiting(p, i)' BY <1>13 DEF BatchDone, Waiting
  <2> QED BY <1>0, <1>13, <2>1 DEF BatchDone, CancelInv
<1> QED BY <1>2, <1>3, <1>4, <1>5, <1>6, <1>8, <1>9, <1>10, <1>11, <1>12, <1>13
        DEF ManagerAction

-----------------------------------------------------------------------------
(***************************************************************************)
(* The job table.                                                          *)
(***************************************************************************)

\* Nothing about j changes that the invariant reads.
LEMMA JobUntouched ==
    ASSUME NEW j \in JobIds, JobInv(j),
           rows'[j].status = rows[j].status, rows'[j].retry = rows[j].retry,
           rows'[j].max = rows[j].max,
           starts'[j] = starts[j], rescued'[j] = rescued[j], retried'[j] = retried[j],
           grace'[j] = grace[j], j \in robbed' <=> j \in robbed, j \in orphan => j \in orphan',
           \A p \in JobProcs : /\ held'[p] = j <=> held[p] = j
                               /\ held[p] = j /\ worker'[p] = "failing" =>
                                     worker[p] = "failing" /\ read'[p] = read[p]
    PROVE  JobInv(j)'
<1>1. (Exists(j))' <=> Exists(j) BY DEF Exists
<1>2. Begun(j)' = Begun(j) /\ Open(j)' = Open(j) /\ Limit(j)' = Limit(j)
      /\ Extra(j)' = Extra(j)
  BY DEF Begun, Open, Limit, Extra
<1>3. BudgetInv(j)' <=> BudgetInv(j) BY <1>1, <1>2 DEF BudgetInv
<1>4. ASSUME NEW p \in JobProcs, OwnerInv(j, p) PROVE OwnerInv(j, p)'
  BY <1>1, <1>2, <1>4 DEF OwnerInv
<1> QED BY <1>3, <1>4 DEF JobInv

\* A step of the table on a job that no process holds, or that is purged.
LEMMA TableStep ==
    ASSUME JobsTypeOK, TableAction, NEW j \in JobIds, JobInv(j)
    PROVE  JobInv(j)'
<1> USE JobAssumption
<1>1. rows[j] \in Rows /\ retried[j] \in Nat /\ starts[j] \in Nat /\ rescued[j] \in Nat
      /\ grace[j] \in Nat
  BY DEF JobsTypeOK
<1>2. Limit(j) \in Nat /\ Limit(j) >= 1 BY <1>1, MaxOfOne DEF Limit, Rows
<1>3. ASSUME NEW m \in MaxRetries, NEW delayed \in BOOLEAN, Push(m, delayed)
      PROVE  JobInv(j)'
  <2> DEFINE fresh == {k \in JobIds : rows[k].status = "absent"}
             new == [status |-> "pending", retry |-> 0, max |-> m,
                     ready |-> ~delayed, aged |-> FALSE]
  <2>1. Min(fresh) \in fresh
    <3>1. fresh \in SUBSET Nat /\ fresh # {} BY <1>3 DEF Push
    <3> HIDE DEF fresh
    <3> QED BY <3>1, MinIsMember
  <2>2. rows' = [rows EXCEPT ![Min(fresh)] = new] BY <1>3 DEF Push
  <2>3. UNCHANGED <<worker, held, read, starts, retried, rescued, grace, robbed, orphan, busy>>
    BY <1>3 DEF Push
  <2>4. CASE j # Min(fresh)
    <3>1. rows'[j] = rows[j] BY <2>2, <2>4 DEF JobsTypeOK
    <3> QED BY <2>3, <3>1, JobUntouched
  <2>5. CASE j = Min(fresh)
    <3>1. rows'[j] = new /\ rows[j].status = "absent" BY <2>1, <2>2, <2>5 DEF JobsTypeOK
    <3>2. starts[j] = 0 /\ rescued[j] = 0 BY <3>1 DEF JobInv
    <3>3. j \notin robbed => \A p \in JobProcs : held[p] # j
      BY <3>1 DEF JobInv, OwnerInv
    <3>4. Begun(j)' = 0 /\ Open(j)' = 1 BY <3>1 DEF Begun, Open
    <3>5. Limit(j)' \in Nat /\ Limit(j)' >= 1 BY <3>1, MaxOfOne DEF Limit
    <3>6. BudgetInv(j)' BY <1>1, <2>3, <3>1, <3>2, <3>4, <3>5 DEF BudgetInv, Extra
    <3>7. j \notin robbed' => \A p \in JobProcs : OwnerInv(j, p)'
      BY <2>3, <3>3 DEF OwnerInv
    <3> QED BY <3>1, <3>6, <3>7 DEF JobInv
  <2> QED BY <2>4, <2>5
<1>4. ASSUME NEW k \in JobIds, RunAfterPasses(k) \/ Ages(k)
      PROVE  JobInv(j)'
  <2>1. UNCHANGED <<worker, held, read, starts, retried, rescued, grace, robbed, orphan, busy>>
    BY <1>4 DEF RunAfterPasses, Ages
  <2>2. rows'[j].status = rows[j].status /\ rows'[j].retry = rows[j].retry
        /\ rows'[j].max = rows[j].max
    <3>1. rows \in [JobIds -> Rows] BY DEF JobsTypeOK
    <3>2. CASE RunAfterPasses(k)
      BY <1>1, <3>1, <3>2 DEF RunAfterPasses, Rows
    <3>3. CASE Ages(k)
      BY <1>1, <3>1, <3>3 DEF Ages, Rows
    <3> QED BY <1>4, <3>2, <3>3
  <2> QED BY <2>1, <2>2, JobUntouched
<1>5. ASSUME NEW k \in JobIds, Retry(k)
      PROVE  JobInv(j)'
  <2>1. UNCHANGED <<worker, held, read, starts, rescued, grace, robbed, orphan, busy>>
    BY <1>5 DEF Retry
  <2>2. CASE j # k
    <3>1. rows'[j] = rows[j] /\ retried'[j] = retried[j]
      BY <1>5, <2>2
         DEF Retry, JobsTypeOK
    <3> QED BY <2>1, <3>1, JobUntouched
  <2>3. CASE j = k
    <3>1. /\ rows[j].status = "failed" /\ rows'[j].status = "pending"
          /\ rows'[j].retry = rows[j].retry /\ rows'[j].max = rows[j].max
          /\ retried'[j] = retried[j] + 1
      BY <1>1, <1>5, <2>3 DEF Retry, JobsTypeOK, Rows
    <3>2. j \notin robbed => \A p \in JobProcs : held[p] # j
      BY <3>1 DEF JobInv, OwnerInv
    <3>3. Begun(j)' = 0 /\ Begun(j) = 0 /\ Open(j)' = 1 /\ Open(j) = 0 /\ Limit(j)' = Limit(j)
      BY <3>1 DEF Begun, Open, Limit
    <3>4. Exists(j) BY <3>1 DEF Exists
    <3>5. rows[j].retry \in Nat /\ Extra(j) \in Nat /\ Extra(j)' = Extra(j) + 1
      BY <1>1, <2>1, <3>1 DEF Rows, Extra
    <3>6. BudgetInv(j) => BudgetInv(j)'
      BY <1>1, <1>2, <2>1, <3>1, <3>3, <3>4, <3>5 DEF BudgetInv
    <3>7. j \notin robbed' => \A p \in JobProcs : OwnerInv(j, p)'
      BY <2>1, <3>2 DEF OwnerInv
    <3> QED BY <2>1, <3>1, <3>6, <3>7 DEF JobInv
  <2> QED BY <2>2, <2>3
<1>6. ASSUME NEW s \in {"pending", "processing", "done", "failed"}, Purge(s)
      PROVE  JobInv(j)'
  <2>1. UNCHANGED <<worker, held, read, starts, retried, rescued, grace, robbed, busy>>
    BY <1>6 DEF Purge
  <2>2. CASE rows[j].status # s
    <3>1. rows'[j] = rows[j] /\ (j \in orphan => j \in orphan') BY <1>6, <2>2 DEF Purge
    <3> QED BY <2>1, <3>1, JobUntouched
  <2>3. CASE rows[j].status = s
    <3>1. rows'[j].status = "purged" BY <1>6, <2>3 DEF Purge, NoRow
    <3>2. ~(Exists(j))' BY <3>1 DEF Exists
    <3>3. BudgetInv(j)' BY <3>2 DEF BudgetInv
    <3>4. ASSUME NEW p \in JobProcs, OwnerInv(j, p) PROVE OwnerInv(j, p)'
      BY <2>1, <3>1, <3>2, <3>4 DEF OwnerInv
    <3> QED BY <2>1, <3>1, <3>3, <3>4 DEF JobInv
  <2> QED BY <2>2, <2>3
<1>7. ASSUME NEW all \in BOOLEAN, Recover(all),
             UNCHANGED <<worker, held, read, starts, retried, grace, busy>>
      PROVE  JobInv(j)'
  <2>1. CASE j \notin Stuck(all)
    <3>1. rows'[j] = rows[j] /\ rescued'[j] = rescued[j] /\ (j \in robbed' <=> j \in robbed)
          /\ (j \in orphan => j \in orphan')
      BY <1>7, <2>1 DEF Recover
    <3> QED BY <1>7, <3>1, JobUntouched
  <2>2. CASE j \in Stuck(all)
    <3>1. /\ rows[j].status = "processing" /\ rows'[j].status = "pending"
          /\ rows'[j].retry = rows[j].retry /\ rows'[j].max = rows[j].max
      BY <1>1, <1>7, <2>2 DEF Recover, Stuck, Rows
    <3>2. rescued'[j] = rescued[j] + 1 BY <1>7, <2>2 DEF Recover
    <3>3. j \notin robbed' => j \notin robbed /\ \A p \in JobProcs : held[p] # j
      BY <1>7, <2>2 DEF Recover
    <3>4. Begun(j)' = 0 /\ Begun(j) = 1 /\ Open(j)' = 1 /\ Open(j) = 0 /\ Limit(j)' = Limit(j)
      BY <3>1 DEF Begun, Open, Limit
    <3>5. Exists(j) BY <3>1 DEF Exists
    <3>6. rows[j].retry \in Nat /\ Extra(j) \in Nat /\ Extra(j)' = Extra(j) + 1
      BY <1>1, <1>7, <3>2 DEF Rows, Extra
    <3>7. BudgetInv(j) => BudgetInv(j)'
      BY <1>1, <1>2, <1>7, <3>1, <3>4, <3>5, <3>6 DEF BudgetInv
    <3>8. j \notin robbed' => \A p \in JobProcs : OwnerInv(j, p)'
      BY <1>7, <3>3 DEF OwnerInv
    <3> QED BY <3>1, <3>3, <3>7, <3>8 DEF JobInv
  <2> QED BY <2>1, <2>2
<1> QED BY <1>3, <1>4, <1>5, <1>6, <1>7 DEF TableAction

LEMMA PassJobStep ==
    ASSUME JobsTypeOK, HandsInv, NEW p \in JobProcs, PassAction(p), NEW j \in JobIds, JobInv(j)
    PROVE  JobInv(j)'
<1> USE JobAssumption
<1>1. rows[j] \in Rows /\ retried[j] \in Nat /\ starts[j] \in Nat /\ rescued[j] \in Nat
      /\ grace[j] \in Nat
      /\ read[p] \in Rows /\ j # NoJob
  BY DEF JobsTypeOK
<1>2. Limit(j) \in Nat /\ Limit(j) >= 1 /\ Limit(j) >= rows[j].max
  BY <1>1, MaxOfOne DEF Limit, Rows
<1>3. rows[j].retry \in Nat /\ rows[j].max \in Nat BY <1>1 DEF Rows
<1>4. CASE PassBegins(p)
  <2>1. \A q \in JobProcs : worker'[q] = "failing" => worker[q] = "failing"
    BY <1>4 DEF PassBegins, Moves, JobsTypeOK
  <2> QED BY <1>4, <2>1, JobUntouched DEF PassBegins
<1>5. CASE Claim(p)
  <2>1. worker[p] = "claim" /\ held[p] = NoJob
    BY <1>5 DEF Claim, HandsInv, InHand
  <2>2. UNCHANGED <<read, retried, rescued, grace, robbed, orphan, busy>> BY <1>5 DEF Claim
  <2>3. CASE Moves(p, "idle") /\ UNCHANGED <<rows, held, starts>>
    <3>1. \A q \in JobProcs : worker'[q] = "failing" => worker[q] = "failing"
      BY <2>3 DEF Moves, JobsTypeOK
    <3> QED BY <2>2, <2>3, <3>1, JobUntouched
  <2>4. ASSUME NEW k \in JobIds, MayClaim(k),
               rows' = [rows EXCEPT ![k].status = "processing", ![k].aged = FALSE],
               held' = [held EXCEPT ![p] = k],
               starts' = [starts EXCEPT ![k] = @ + 1], Moves(p, "handler")
        PROVE  JobInv(j)'
    <3>1. rows[k].status = "pending" BY <2>4 DEF MayClaim, Ready
    <3>2. \A q \in JobProcs : worker'[q] = "failing" => worker[q] = "failing"
      BY <2>4 DEF Moves, JobsTypeOK
    <3>3. \A q \in JobProcs : held'[q] = IF q = p THEN k ELSE held[q]
      BY <2>4 DEF JobsTypeOK
    <3>4. CASE j # k
      <4>1. rows'[j] = rows[j] /\ starts'[j] = starts[j] BY <2>4, <3>4 DEF JobsTypeOK
      <4>2. \A q \in JobProcs : held'[q] = j <=> held[q] = j BY <1>1, <2>1, <3>3, <3>4
      <4> QED BY <2>2, <3>2, <4>1, <4>2, JobUntouched
    <3>5. CASE j = k
      <4>1. /\ rows'[j].status = "processing"
            /\ rows'[j].retry = rows[j].retry /\ rows'[j].max = rows[j].max
            /\ starts'[j] = starts[j] + 1
        <5>1. rows \in [JobIds -> Rows] /\ starts \in [JobIds -> Nat] BY DEF JobsTypeOK
        <5> QED BY <1>1, <2>4, <3>5, <5>1 DEF Rows
      <4>2. j \notin robbed => \A q \in JobProcs : held[q] # j
        BY <3>1, <3>5 DEF JobInv, OwnerInv
      <4>3. Begun(j)' = 1 /\ Begun(j) = 0 /\ Open(j)' = 0 /\ Open(j) = 1 /\ Limit(j)' = Limit(j)
        BY <3>1, <3>5, <4>1 DEF Begun, Open, Limit
      <4>4. Exists(j) /\ Extra(j)' = Extra(j) /\ Extra(j) \in Nat
        BY <1>1, <2>2, <3>1, <3>5 DEF Exists, Extra
      <4>5. BudgetInv(j) => BudgetInv(j)'
        BY <1>1, <1>2, <1>3, <4>1, <4>3, <4>4 DEF BudgetInv
      <4>6. worker'[p] = "handler" /\ held'[p] = j BY <2>4, <3>5 DEF Moves, JobsTypeOK
      <4>7. ASSUME NEW q \in JobProcs, j \notin robbed PROVE OwnerInv(j, q)'
        <5>1. \A r \in JobProcs : held'[r] = j => r = p BY <3>3, <4>2, <4>7
        <5> QED BY <4>1, <4>6, <5>1 DEF OwnerInv
      <4> QED BY <2>2, <4>1, <4>5, <4>6, <4>7 DEF JobInv
    <3> QED BY <3>4, <3>5
  <2> QED BY <1>5, <2>3, <2>4 DEF Claim
<1>6. ASSUME held[p] # j, LetGo(p), rows'[j] = rows[j], j \in orphan => j \in orphan',
             UNCHANGED <<starts, retried, rescued, grace, robbed>>
      PROVE  JobInv(j)'
  <2>1. \A q \in JobProcs : /\ held'[q] = IF q = p THEN NoJob ELSE held[q]
                            /\ worker'[q] = IF q = p THEN "claim" ELSE worker[q]
                            /\ q # p => read'[q] = read[q]
    BY <1>6 DEF LetGo, Moves, JobsTypeOK
  <2>2. \A q \in JobProcs : /\ held'[q] = j <=> held[q] = j
                            /\ held[q] = j /\ worker'[q] = "failing" =>
                                 worker[q] = "failing" /\ read'[q] = read[q]
    BY <1>1, <1>6, <2>1
  <2> QED BY <1>6, <2>2, JobUntouched
\* p gives j up: nobody has it then, unless it was robbed.
<1>7. ASSUME held[p] = j, LetGo(p),
             rows'[j].status = "processing" =>
                 rows[j].status = "processing" /\ j \in orphan',
             rows'[j].status = "absent" => rows[j].status = "absent",
             j \notin robbed => BudgetInv(j)',
             UNCHANGED <<starts, rescued, grace, robbed>>
      PROVE  JobInv(j)'
  <2>1. \A q \in JobProcs : held'[q] = IF q = p THEN NoJob ELSE held[q]
    BY <1>7 DEF LetGo, JobsTypeOK
  <2>2. j \notin robbed => \A q \in JobProcs : held'[q] # j
    BY <1>1, <1>7, <2>1 DEF JobInv, OwnerInv
  <2>3. j \notin robbed' => \A q \in JobProcs : OwnerInv(j, q)'
    BY <1>7, <2>2 DEF OwnerInv
  <2> QED BY <1>7, <2>3 DEF JobInv
<1>8. CASE Done(p)
  <2>1. held[p] \in JobIds BY <1>8 DEF Done, HandsInv, InHand, JobsTypeOK
  <2>2. LetGo(p) /\ UNCHANGED <<starts, retried, rescued, grace, robbed, orphan, busy>>
    BY <1>8 DEF Done
  <2>3. CASE held[p] # j
    <3>1. rows'[j] = rows[j] BY <1>8, <2>1, <2>3 DEF Done, JobsTypeOK
    <3> QED BY <1>6, <2>2, <2>3, <3>1
  <2>4. CASE held[p] = j
    <3>1. /\ rows'[j].status = IF Exists(j) THEN "done" ELSE rows[j].status
          /\ rows'[j].retry = rows[j].retry /\ rows'[j].max = rows[j].max
      <4>1. rows \in [JobIds -> Rows] BY DEF JobsTypeOK
      <4> QED BY <1>1, <1>8, <2>4, <4>1 DEF Done, Rows
    <3>2. ASSUME j \notin robbed PROVE BudgetInv(j)'
      <4>1. BudgetInv(j) /\ rows[j].status \in {"processing", "purged"}
        BY <2>4, <3>2 DEF JobInv, OwnerInv
      <4>2. CASE Exists(j)
        <5>1. rows[j].status = "processing" BY <4>1, <4>2 DEF Exists
        <5>2. Begun(j)' = Begun(j) /\ Open(j)' = Open(j) /\ Limit(j)' = Limit(j)
              /\ Extra(j)' = Extra(j)
          BY <2>2, <3>1, <4>2, <5>1 DEF Begun, Open, Limit, Extra
        <5> QED BY <2>2, <3>1, <4>1, <4>2, <5>2 DEF BudgetInv
      <4>3. CASE ~Exists(j)
        <5>1. ~(Exists(j))' BY <3>1, <4>3 DEF Exists
        <5> QED BY <5>1 DEF BudgetInv
      <4> QED BY <4>2, <4>3
    <3>3. rows'[j].status # "processing" /\ (rows'[j].status = "absent" => rows[j].status = "absent")
      BY <3>1 DEF Exists
    <3> QED BY <1>7, <2>2, <2>4, <3>2, <3>3
  <2> QED BY <2>3, <2>4
<1>9. CASE FailRead(p)
  <2>1. UNCHANGED <<rows, held, starts, retried, rescued, grace, robbed, orphan, busy>>
    BY <1>9 DEF FailRead
  <2>2. worker' = [worker EXCEPT ![p] = "failing"] BY <1>9 DEF FailRead, Moves
  <2>3. CASE held[p] # j
    <3>1. \A q \in JobProcs : held[q] = j /\ worker'[q] = "failing" =>
                                 worker[q] = "failing" /\ read'[q] = read[q]
      BY <1>9, <2>2, <2>3 DEF FailRead, JobsTypeOK
    <3> QED BY <2>1, <3>1, JobUntouched
  <2>4. CASE held[p] = j
    <3>1. Exists(j) => read'[p].retry = rows[j].retry /\ read'[p].max = rows[j].max
      BY <1>9, <2>4 DEF FailRead, JobsTypeOK, NoRow
    <3>2. ASSUME NEW q \in JobProcs, j \notin robbed PROVE OwnerInv(j, q)'
      <4>1. OwnerInv(j, q) /\ OwnerInv(j, p) BY <3>2 DEF JobInv
      <4>2. (Exists(j))' <=> Exists(j) BY <2>1 DEF Exists
      <4>3. CASE q # p
        <5>1. held'[q] # j BY <2>1, <2>4, <4>1, <4>3 DEF OwnerInv
        <5> QED BY <5>1 DEF OwnerInv
      <4>4. CASE q = p BY <2>1, <3>1, <4>1, <4>2, <4>4 DEF OwnerInv
      <4> QED BY <4>3, <4>4
    <3>3. BudgetInv(j)' <=> BudgetInv(j)
      BY <2>1 DEF BudgetInv, Exists, Begun, Open, Limit, Extra
    <3> QED BY <2>1, <3>2, <3>3 DEF JobInv
  <2> QED BY <2>3, <2>4
<1>10. CASE FailWrite(p)
  <2>1. held[p] \in JobIds BY <1>10 DEF FailWrite, HandsInv, InHand, JobsTypeOK
  <2>2. LetGo(p) /\ UNCHANGED <<starts, retried, rescued, grace, robbed, orphan, busy>>
    BY <1>10 DEF FailWrite
  <2>3. CASE held[p] # j
    <3>1. rows'[j] = rows[j] BY <1>10, <2>1, <2>3 DEF FailWrite, JobsTypeOK
    <3> QED BY <1>6, <2>2, <2>3, <3>1
  <2>4. CASE held[p] = j /\ ~Exists(j)
    <3>1. rows' = rows BY <1>10, <2>4 DEF FailWrite
    <3>2. BudgetInv(j)' BY <2>4, <3>1 DEF BudgetInv, Exists
    <3> QED BY <1>7, <2>2, <2>4, <3>1, <3>2 DEF Exists
  <2>5. CASE held[p] = j /\ Exists(j)
    <3> DEFINE count == read[p].retry + 1
    <3>1. count \in Nat /\ read[p].max \in Nat BY <1>1 DEF Rows
    <3>2. rows'[j].status = NewStatus(count, read[p].max) /\ rows'[j].retry = count
          /\ rows'[j].max = rows[j].max
      <4>1. rows \in [JobIds -> Rows] BY DEF JobsTypeOK
      <4> QED BY <1>1, <1>10, <2>5, <4>1 DEF FailWrite, Rows
    <3>3. ASSUME j \notin robbed PROVE BudgetInv(j)'
      <4>1. BudgetInv(j) /\ OwnerInv(j, p) BY <3>3 DEF JobInv
      <4>2. rows[j].status = "processing" BY <2>5, <4>1 DEF OwnerInv, Exists
      <4>3. Begun(j) = 1 /\ Begun(j)' = 0 /\ Limit(j)' = Limit(j)
            /\ Extra(j)' = Extra(j) /\ Extra(j) \in Nat
        BY <1>1, <2>2, <3>2, <4>2 DEF Begun, NewStatus, Limit, Extra
      <4>4. starts[j] <= rows[j].retry + 1 + Extra(j) /\ starts[j] <= Limit(j) + Extra(j)
        BY <1>1, <1>2, <1>3, <2>5, <4>1, <4>2, <4>3 DEF BudgetInv, Open
      <4>5. starts[j] <= count + Extra(j) /\ starts[j] + Open(j)' <= Limit(j) + Extra(j)
        <5>1. CASE read[p].retry = rows[j].retry /\ read[p].max = rows[j].max
          <6>1. starts[j] <= count + Extra(j) BY <4>4, <5>1
          <6>2. CASE count >= read[p].max
            <7>1. Open(j)' = 0 BY <3>2, <6>2 DEF Open, NewStatus
            <7> QED BY <1>1, <4>4, <6>1, <7>1
          <6>3. CASE ~(count >= read[p].max)
            <7>1. Open(j)' = 1 BY <3>2, <6>3 DEF Open, NewStatus
            <7>2. count + 1 <= Limit(j) BY <1>2, <1>3, <3>1, <5>1, <6>3
            <7> HIDE DEF count
            <7> QED BY <1>1, <1>2, <3>1, <4>3, <6>1, <7>1, <7>2
          <6> QED BY <6>2, <6>3
        <5>2. CASE /\ read[p].retry = 0 /\ read[p].max = 3
                   /\ starts[j] <= 1 + Extra(j) /\ starts[j] + 1 <= Limit(j) + Extra(j)
          <6>1. Open(j)' = 1 BY <3>2, <5>2 DEF Open, NewStatus
          <6> QED BY <5>2, <6>1
        <5> QED BY <1>10, <2>5, <4>1, <5>1, <5>2 DEF OwnerInv, FailWrite
      <4> HIDE DEF count
      <4> QED BY <2>2, <3>1, <3>2, <4>3, <4>5 DEF BudgetInv
    <3>4. rows'[j].status \notin {"processing", "absent"} BY <3>2 DEF NewStatus
    <3> QED BY <1>7, <2>2, <2>5, <3>3, <3>4
  <2> QED BY <2>3, <2>4, <2>5
<1>11. ASSUME NEW ok \in BOOLEAN, HandlerEnds(p, ok)
       PROVE  JobInv(j)'
  <2>1. \A q \in JobProcs : worker'[q] = "failing" => worker[q] = "failing"
    BY <1>11 DEF HandlerEnds, Moves, JobsTypeOK
  <2> QED BY <1>11, <2>1, JobUntouched DEF HandlerEnds
\* The claim stays in the table.
<1>12. ASSUME orphan' = orphan \cup {held[p]}, LetGo(p),
              UNCHANGED <<rows, starts, retried, rescued, grace, robbed>>
       PROVE  JobInv(j)'
  <2>1. CASE held[p] # j BY <1>6, <1>12, <2>1
  <2>2. CASE held[p] = j
    <3>1. j \notin robbed => BudgetInv(j)'
      BY <1>12 DEF JobInv, BudgetInv, Exists, Begun, Open, Limit, Extra
    <3> QED BY <1>7, <1>12, <2>2, <3>1
  <2> QED BY <2>1, <2>2
<1>13. ASSUME Lose(p), UNCHANGED <<rows, starts, retried, rescued, grace, robbed>>
       PROVE  JobInv(j)'
  <2>1. \A q \in JobProcs : /\ held'[q] = IF q = p THEN NoJob ELSE held[q]
                            /\ worker'[q] = IF q = p THEN "idle" ELSE worker[q]
                            /\ q # p => read'[q] = read[q]
    BY <1>13 DEF Lose, JobsTypeOK
  <2>2. CASE held[p] # j
    <3>1. \A q \in JobProcs : /\ held'[q] = j <=> held[q] = j
                              /\ held[q] = j /\ worker'[q] = "failing" =>
                                   worker[q] = "failing" /\ read'[q] = read[q]
      BY <1>1, <2>1, <2>2
    <3> QED BY <1>13, <2>2, <3>1, JobUntouched DEF Lose
  <2>3. CASE held[p] = j
    <3>1. j \in orphan' BY <1>1, <1>13, <2>3 DEF Lose
    <3>2. j \notin robbed => \A q \in JobProcs : held'[q] # j
      BY <1>1, <2>1, <2>3 DEF JobInv, OwnerInv
    <3>3. BudgetInv(j)' <=> BudgetInv(j)
      BY <1>13 DEF BudgetInv, Exists, Begun, Open, Limit, Extra
    <3>4. j \notin robbed' => \A q \in JobProcs : OwnerInv(j, q)'
      BY <1>13, <3>2 DEF OwnerInv
    <3> QED BY <1>13, <3>1, <3>3, <3>4 DEF JobInv
  <2> QED BY <2>2, <2>3
<1>14. CASE StepFails(p) /\ UNCHANGED <<rows, starts, retried, rescued, robbed>>
  <2>1. CASE worker[p] = "claim" /\ Moves(p, "idle") /\ UNCHANGED <<held, read, grace, orphan>>
    <3>1. \A q \in JobProcs : worker'[q] = "failing" => worker[q] = "failing"
      BY <2>1 DEF Moves, JobsTypeOK
    <3> QED BY <1>14, <2>1, <3>1, JobUntouched
  <2>2. CASE orphan' = orphan \cup {held[p]} /\ LetGo(p) /\ UNCHANGED grace
    BY <1>12, <1>14, <2>2
  <2>3. CASE /\ worker[p] = "fail" /\ Moves(p, "failing")
             /\ read' = [read EXCEPT ![p] = [NoRow EXCEPT !.max = 3]]
             /\ grace' = [grace EXCEPT ![held[p]] = @ + Max({1, Limit(held[p]) - 1})]
             /\ UNCHANGED <<held, orphan>>
    <3>1. held[p] \in JobIds BY <2>3 DEF HandsInv, InHand, JobsTypeOK
    <3>2. worker' = [worker EXCEPT ![p] = "failing"] BY <2>3 DEF Moves
    <3>3. CASE held[p] # j
      <4>1. grace'[j] = grace[j] BY <2>3, <3>1, <3>3 DEF JobsTypeOK
      <4>2. \A q \in JobProcs : held[q] = j /\ worker'[q] = "failing" =>
                                   worker[q] = "failing" /\ read'[q] = read[q]
        BY <2>3, <3>2, <3>3 DEF JobsTypeOK
      <4> QED BY <1>14, <2>3, <4>1, <4>2, JobUntouched
    <3>4. CASE held[p] = j
      <4> DEFINE more == Max({1, Limit(j) - 1})
      <4>1. more \in Nat /\ more >= 1 /\ more >= Limit(j) - 1
        BY <1>2, MaxOfOne
      <4> HIDE DEF more
      <4>2. grace'[j] = grace[j] + more
        <5>1. grace' = [grace EXCEPT ![j] = @ + more] BY <2>3, <3>4 DEF more
        <5> QED BY <5>1 DEF JobsTypeOK
      <4>3. Extra(j)' = Extra(j) + more /\ Extra(j) \in Nat
        BY <1>1, <1>14, <4>1, <4>2 DEF Extra
      <4>4. Begun(j)' = Begun(j) /\ Open(j)' = Open(j) /\ Limit(j)' = Limit(j)
            /\ Begun(j) \in Nat /\ Open(j) \in Nat
        BY <1>14 DEF Begun, Open, Limit
      <4>5. BudgetInv(j) => BudgetInv(j)'
        BY <1>1, <1>2, <1>3, <1>14, <4>1, <4>3, <4>4 DEF BudgetInv, Exists
      <4>6. read'[p].retry = 0 /\ read'[p].max = 3 BY <2>3 DEF JobsTypeOK, NoRow
      <4>7. ASSUME NEW q \in JobProcs, j \notin robbed PROVE OwnerInv(j, q)'
        <5>1. BudgetInv(j) /\ OwnerInv(j, q) /\ OwnerInv(j, p) BY <4>7 DEF JobInv
        <5>2. CASE q # p
          <6>1. held'[q] # j BY <2>3, <3>4, <5>1, <5>2 DEF OwnerInv
          <6> QED BY <6>1 DEF OwnerInv
        <5>3. CASE q = p
          <6>1. ASSUME Exists(j)
                PROVE  starts[j] <= 1 + Extra(j)' /\ starts[j] + 1 <= Limit(j) + Extra(j)'
            <7>1. starts[j] + Open(j) <= Limit(j) + Extra(j) BY <5>1, <6>1 DEF BudgetInv
            <7> QED BY <1>1, <1>2, <4>1, <4>3, <4>4, <7>1
          <6>2. (Exists(j))' <=> Exists(j) BY <1>14 DEF Exists
          <6> QED BY <1>14, <2>3, <4>4, <4>6, <5>1, <5>3, <6>1, <6>2 DEF OwnerInv
        <5> QED BY <5>2, <5>3
      <4> QED BY <1>14, <2>3, <4>5, <4>7 DEF JobInv
    <3> QED BY <3>3, <3>4
  <2> QED BY <1>14, <2>1, <2>2, <2>3 DEF StepFails
<1>15. CASE Busy(p) \/ PrepareThrows(p) \/ Dies(p)
  BY <1>13, <1>14, <1>15 DEF Busy, PrepareThrows, Dies
<1> QED BY <1>4, <1>5, <1>8, <1>9, <1>10, <1>11, <1>15 DEF PassAction

-----------------------------------------------------------------------------
(***************************************************************************)
(* The inductive invariant, and what follows from it.  The job table and   *)
(* the managers are tied together by HandsInv alone: a pass that a timer   *)
(* begins finds its process without a job because the last pass ended      *)
(* before its callback did.                                                *)
(***************************************************************************)
WorkersInv ==
    /\ TypeOK /\ HandsInv
    /\ \A j \in JobIds : JobInv(j)
    /\ \A p \in Procs : /\ SleepInv(p) /\ BatchInv(p)
                        /\ \A i \in TimerIds : CancelInv(p, i)

LEMMA WorkersInit == Init => WorkersInv
<1> SUFFICES ASSUME Init PROVE WorkersInv OBVIOUS
<1> USE JobAssumption, TimerAssumption, WorkerAssumption DEF Init
<1>1. JobsTypeOK BY RowTypes DEF JobInit, JobsTypeOK, WorkerPlaces
<1>2. TimersTypeOK
  <2>1. <<>> \in Seq(TimerIds) OBVIOUS
  <2> QED BY <2>1 DEF TimerInit, TimersTypeOK, ThreadPlaces, EntryStates
<1>3. HandsInv BY DEF JobInit, TimerInit, HandsInv, InHand
<1>4. ASSUME NEW j \in JobIds PROVE JobInv(j)
  <2>1. rows[j].status = "absent" /\ \A p \in JobProcs : held[p] # j
    BY DEF JobInit, NoRow
  <2> QED BY <2>1 DEF JobInit, JobInv, BudgetInv, OwnerInv, Exists
<1>5. ASSUME NEW p \in Procs
      PROVE  SleepInv(p) /\ BatchInv(p) /\ \A i \in TimerIds : CancelInv(p, i)
  BY DEF TimerInit, SleepInv, BatchInv, CancelInv
<1> QED BY <1>1, <1>2, <1>3, <1>4, <1>5 DEF WorkersInv, TypeOK

LEMMA WorkersStep == WorkersInv /\ [Next]_vars => WorkersInv'
<1> SUFFICES ASSUME WorkersInv, [Next]_vars PROVE WorkersInv' OBVIOUS
<1>1. TypeOK /\ HandsInv /\ JobsTypeOK /\ TimersTypeOK BY DEF WorkersInv, TypeOK
<1>2. JobAction /\ TimerAction BY <1>1, StepsSplit
<1>3. JobsTypeOK'
  <2>1. CASE UNCHANGED jobVars BY <1>1, <2>1 DEF JobsTypeOK, jobVars
  <2> QED BY <1>1, <1>2, <2>1, TableTypes, PassTypes DEF JobAction
<1>4. TimersTypeOK'
  <2>1. CASE UNCHANGED timerVars BY <1>1, <2>1 DEF TimersTypeOK, timerVars
  <2> QED BY <1>1, <1>2, <2>1, ManagerTypes DEF TimerAction, WorkersInv
<1>5. proc' \in [JobProcs -> {"up", "stopping", "closed", "exited", "killed"}] /\ kills' \in Nat
  BY <1>1, WorkerAssumption
     DEF TypeOK, Next, Script, SetTimers, Clock, CloseStore, BeginExit, EndExit,
     TimerThread, LoopPass, PassStep, PassBusy, Kill, Restart, vars
<1>6. HandsInv' BY <1>1, HandsStep
<1>7. ASSUME NEW j \in JobIds PROVE JobInv(j)'
  <2>1. JobInv(j) BY DEF WorkersInv
  <2>2. CASE UNCHANGED jobVars
    BY <2>1, <2>2, JobUntouched DEF jobVars
  <2> QED BY <1>1, <1>2, <2>1, <2>2, TableStep, PassJobStep DEF JobAction
<1>8. ASSUME NEW p \in Procs
      PROVE  SleepInv(p)' /\ BatchInv(p)' /\ \A i \in TimerIds : CancelInv(p, i)'
  <2>1. SleepInv(p) /\ BatchInv(p) /\ \A i \in TimerIds : CancelInv(p, i)
    BY
       DEF WorkersInv
  <2>2. ASSUME entries'[p] = entries[p], running'[p] = running[p], dirty'[p] = dirty[p],
               notified'[p] = notified[p], place'[p] = place[p], deadline'[p] = deadline[p],
               batch'[p] = batch[p], cancelled'[p] = cancelled[p], after'[p] = after[p]
        PROVE  SleepInv(p)' /\ BatchInv(p)' /\ \A i \in TimerIds : CancelInv(p, i)'
    BY <2>1, <2>2 DEF SleepInv, Listed, BatchInv, CancelInv, Waiting
  <2>3. CASE UNCHANGED timerVars BY <2>2, <2>3 DEF timerVars
  <2>4. ASSUME NEW q \in Procs, q # p, ManagerAction(q)
        PROVE  SleepInv(p)' /\ BatchInv(p)' /\ \A i \in TimerIds : CancelInv(p, i)'
    BY <1>1, <2>2, <2>4, OtherManager
  <2>5. CASE ManagerAction(p)
    BY <1>1, <2>1, <2>5, SleepStep, BatchStep, CancelStep
  <2> QED BY <1>2, <2>3, <2>4, <2>5 DEF TimerAction
<1> QED BY <1>3, <1>4, <1>5, <1>6, <1>7, <1>8 DEF WorkersInv, TypeOK

LEMMA WorkersInvariant == Spec => []WorkersInv
BY WorkersInit, WorkersStep, PTL DEF Spec

\* Every variable keeps its type.
THEOREM WorkersTypeCorrect == Spec => []TypeOK
<1>1. WorkersInv => TypeOK BY DEF WorkersInv
<1> QED BY <1>1, WorkersInvariant, PTL

\* Two processes run one job only after a recover() has taken it back under
\* one of them.
THEOREM ClaimsAreExclusive == Spec => []ClaimExclusive
<1>1. WorkersInv => ClaimExclusive
  <2> SUFFICES ASSUME WorkersInv, NEW p \in JobProcs, NEW q \in JobProcs, p # q,
                      held[p] # NoJob, held[p] = held[q]
               PROVE  held[p] \in robbed
    BY DEF ClaimExclusive
  <2>1. held[p] \in JobIds BY DEF WorkersInv, TypeOK, JobsTypeOK
  <2>2. JobInv(held[p]) BY <2>1 DEF WorkersInv
  <2> QED BY <2>2 DEF JobInv, OwnerInv
<1> QED BY <1>1, WorkersInvariant, PTL

\* A job that was never taken from a process that ran it is tried at most
\* max_retries times (once if that is 0), plus once for each jobs::retry and
\* each rescue, plus max_retries - 1 times (once at least) for each failed read
\* of fail(), and is in nobody's hands once it is done.
THEOREM AttemptsAreBounded == Spec => []AttemptsBounded
<1>1. WorkersInv => AttemptsBounded
  <2> SUFFICES ASSUME WorkersInv, NEW j \in JobIds, Exists(j), j \notin robbed
               PROVE  /\ starts[j] <= Tries(j)
                      /\ rows[j].status = "done" => \A p \in JobProcs : held[p] # j
    BY DEF AttemptsBounded
  <2>1. JobInv(j) BY DEF WorkersInv
  <2>2. rows[j] \in Rows /\ retried[j] \in Nat /\ starts[j] \in Nat /\ rescued[j] \in Nat
        /\ grace[j] \in Nat
    BY DEF WorkersInv, TypeOK, JobsTypeOK
  <2>3. Limit(j) \in Nat /\ Open(j) \in Nat BY <2>2, MaxOfOne DEF Limit, Rows, Open
  <2>4. starts[j] + Open(j) <= Limit(j) + Extra(j) BY <2>1 DEF JobInv, BudgetInv
  <2>5. starts[j] <= Tries(j) BY <2>2, <2>3, <2>4 DEF Tries, Extra
  <2> QED BY <2>1, <2>5 DEF JobInv, OwnerInv
<1> QED BY <1>1, WorkersInvariant, PTL

\* A job in processing is in somebody's hands, or was lost by a crash, a
\* failed statement or an exit that closed the table under the pass.
THEOREM ClaimsAreExplained == Spec => []NoUnexplainedClaim
<1>1. WorkersInv => NoUnexplainedClaim BY DEF WorkersInv, JobInv, NoUnexplainedClaim
<1> QED BY <1>1, WorkersInvariant, PTL

\* A manager that sleeps unsignalled reckons with every timer, and has not
\* been told to stop.
THEOREM SleepAlwaysCovers == Spec => []SleepCovers
<1>1. WorkersInv => SleepCovers BY DEF WorkersInv, SleepInv, SleepCovers
<1> QED BY <1>1, WorkersInvariant, PTL

\* A cancel() that has returned is followed by one run of the callback at
\* most.
THEOREM CancelAlwaysHolds == Spec => []CancelHolds
<1>1. WorkersInv => CancelHolds
  <2> SUFFICES ASSUME WorkersInv, NEW p \in Procs, NEW i \in TimerIds
               PROVE  after[p][i] <= 1
    BY DEF CancelHolds
  <2>1. CancelInv(p, i) BY DEF WorkersInv
  <2> QED BY <2>1 DEF CancelInv
<1> QED BY <1>1, WorkersInvariant, PTL

=============================================================================
