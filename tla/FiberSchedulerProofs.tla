------------------------ MODULE FiberSchedulerProofs ------------------------
(***************************************************************************)
(* TLAPS proofs about FiberScheduler, for any number of fibers and offload *)
(* threads.                                                                *)
(***************************************************************************)
EXTENDS FiberScheduler, SequenceTheorems, TLAPS

USE DEF EvFd

\* resume_fiber keeps the type of what it touches.
LEMMA ResumeFiberType ==
    ASSUME TypeOK, NEW f \in Fibers, ResumeFiber(f)
    PROVE  /\ ready' \in Seq(Fibers)
           /\ waiting' \in [Fibers -> Nat]
           /\ sched_state' \in [Fibers -> SchedStates]
           /\ pending_resume' \in [Fibers -> BOOLEAN]
           /\ evfd' \in BOOLEAN
<1>1. evfd' = TRUE
  BY DEF ResumeFiber, Wake
<1>2. CASE Movable(f) /\ MoveToReady(f)
  <2>1. waiting' \in [Fibers -> Nat]
    BY <1>2 DEF MoveToReady, EraseOne, TypeOK
  <2>2. pending_resume' \in [Fibers -> BOOLEAN]
    BY <1>2 DEF MoveToReady, TypeOK
  <2>3. CASE done[f]
    <3>1. sched_state' = sched_state /\ ready' = ready
      BY <1>2, <2>3, Zenon DEF MoveToReady
    <3> QED BY <1>1, <2>1, <2>2, <3>1 DEF TypeOK
  <2>4. CASE ~done[f]
    <3>1. /\ sched_state' = [sched_state EXCEPT ![f] = "READY"]
          /\ ready' = Append(ready, f)
      BY <1>2, <2>4, Zenon DEF MoveToReady
    <3> QED BY <1>1, <2>1, <2>2, <3>1 DEF TypeOK, SchedStates
  <2> QED BY <2>3, <2>4
<1>3. CASE ~Movable(f) /\ LeaveFlag(f)
  BY <1>1, <1>3 DEF LeaveFlag, TypeOK
<1> QED BY <1>2, <1>3 DEF ResumeFiber

\* A fiber is running exactly while the thread is inside run_one.
CurInv == pc \in {"run", "ret"} => cur \in Fibers
ResumingInv == pc = "resume" => resuming \in Fibers

LEMMA TypeInit == Init => TypeOK /\ CurInv /\ ResumingInv
<1> SUFFICES ASSUME Init PROVE TypeOK /\ CurInv /\ ResumingInv
  OBVIOUS
<1>1. /\ pending_resume \in [Fibers -> BOOLEAN] /\ done \in [Fibers -> BOOLEAN]
      /\ io_timed_out \in [Fibers -> BOOLEAN] /\ readable \in [Fibers -> BOOLEAN]
      /\ job_done \in [Fibers -> BOOLEAN] /\ job_ran \in [Workers -> BOOLEAN]
  BY Zenon DEF Init
<1>2. TypeOK
  <2>1. ready \in Seq(Fibers) /\ jobs \in Seq(Fibers)
    BY DEF Init
  <2>2. /\ waiting \in [Fibers -> Nat]
        /\ fd_deadline \in [Keys -> {"none", "armed", "due"}]
        /\ sched_state \in [Fibers -> SchedStates]
        /\ op \in [Fibers -> Ops]
        /\ result \in [Fibers -> {"none", "readable", "timeout"}]
        /\ job \in [Workers -> Fibers \cup {NoFiber}]
    BY DEF Init, SchedStates, Ops
  <2>3. /\ fd_to_fiber \subseteq Keys /\ interest \subseteq Fibers
        /\ evfd \in BOOLEAN /\ block \in BOOLEAN /\ pc \in Locations
        /\ cur \in Fibers \cup {NoFiber} /\ resuming \in Fibers \cup {NoFiber}
        /\ events \subseteq Fibers \cup {EvFd} /\ expired \subseteq Keys
    BY DEF Init, Locations
  <2> QED BY <1>1, <2>1, <2>2, <2>3 DEF TypeOK
<1> QED BY <1>2 DEF Init, CurInv, ResumingInv

LEMMA TypeStep == TypeOK /\ CurInv /\ ResumingInv /\ [Next]_vars
                     => TypeOK' /\ CurInv' /\ ResumingInv'
<1> SUFFICES ASSUME TypeOK, CurInv, ResumingInv, [Next]_vars
             PROVE  TypeOK' /\ CurInv' /\ ResumingInv'
  OBVIOUS
<1> USE DEF vars, schedVars, threadVars, fiberVars, codeVars, poolVars,
            CurInv, ResumingInv, Locations, SchedStates, Ops
<1>1. ASSUME NEW f \in Fibers, StartWorker(f) PROVE TypeOK' /\ CurInv' /\ ResumingInv'
  BY <1>1 DEF StartWorker, Spawn, TypeOK
<1>2. CASE Loop
  <2>1. CASE RunOne BY <2>1 DEF RunOne, TypeOK
  <2>2. CASE RunOneEmpty BY <2>2 DEF RunOneEmpty, TypeOK
  <2>3. CASE Settle
    <3>1. CASE SettleDone BY <2>3, <3>1 DEF Settle, SettleDone, EraseOne, TypeOK
    <3>2. CASE SettleWoken BY <2>3, <3>2 DEF Settle, SettleWoken, EraseOne, TypeOK
    <3>3. CASE SettleWaiting BY <2>3, <3>3 DEF Settle, SettleWaiting, TypeOK
    <3>4. CASE SettleYield BY <2>3, <3>4 DEF Settle, SettleYield, TypeOK
    <3> QED BY <2>3, <3>1, <3>2, <3>3, <3>4 DEF Settle
  <2>4. CASE CheckComplete BY <2>4 DEF CheckComplete, TypeOK
  <2>5. CASE ChooseTimeout BY <2>5 DEF ChooseTimeout, TypeOK
  <2>6. CASE EpollWait BY <2>6 DEF EpollWait, Deliverable, TypeOK
  <2>7. CASE DrainWakeup BY <2>7 DEF DrainWakeup, TypeOK
  <2>8. CASE ResumeEvent
    <3>1. resuming \in Fibers BY <2>8 DEF ResumeEvent
    <3> QED BY <3>1, <2>8, ResumeFiberType DEF ResumeEvent, TypeOK
  <2>9. CASE EventsDone BY <2>9 DEF EventsDone, TypeOK
  <2>10. CASE Sweep BY <2>10 DEF Sweep, Keys, TypeOK
  <2>11. CASE ExpireDone BY <2>11 DEF ExpireDone, TypeOK
  <2>12. ASSUME NEW f \in Fibers, FdEvent(f) PROVE TypeOK' /\ CurInv' /\ ResumingInv'
    BY <2>12 DEF FdEvent, Keys, TypeOK
  <2>13. ASSUME NEW k \in Keys, Expire(k) PROVE TypeOK' /\ CurInv' /\ ResumingInv'
    <3>1. k[2] \in Fibers BY DEF Keys
    <3> QED BY <3>1, <2>13, ResumeFiberType DEF Expire, TypeOK
  <2> QED BY <1>2, <2>1, <2>2, <2>3, <2>4, <2>5, <2>6, <2>7, <2>8, <2>9, <2>10,
             <2>11, <2>12, <2>13 DEF Loop
<1>3. CASE Slice
  BY <1>3 DEF Slice, SliceMore, SliceOver, TypeOK
<1>4. CASE Code
  <2>1. CASE Yield BY <2>1 DEF Yield, Computing, TypeOK
  <2>2. CASE Finish BY <2>2 DEF Finish, Computing, TypeOK
  <2>3. CASE Recv BY <2>3 DEF Recv, Computing, TypeOK
  <2>4. CASE WaitReturn BY <2>4 DEF WaitReturn, TypeOK
  <2>5. CASE OffloadPost BY <2>5 DEF OffloadPost, Computing, TypeOK
  <2>6. CASE OffloadSuspend BY <2>6 DEF OffloadSuspend, SuspendCurrent, TypeOK
  <2>7. CASE OffloadTest
    <3>1. CASE job_done[cur]
      <4>1. /\ op' = [op EXCEPT ![cur] = "compute"]
            /\ UNCHANGED <<schedVars, threadVars, fiberVars, result, readable, job_done,
                           poolVars>>
        BY <2>7, <3>1, Zenon DEF OffloadTest
      <4> QED BY <4>1 DEF TypeOK
    <3>2. CASE ~job_done[cur]
      <4>1. SuspendCurrent /\ UNCHANGED <<op, result>> /\ pc = "run"
        BY <2>7, <3>2, Zenon DEF OffloadTest
      <4> QED BY <4>1 DEF SuspendCurrent, TypeOK
    <3> QED BY <3>1, <3>2
  <2>8. ASSUME NEW kind \in {"fd", "timer"}, NEW tmo \in BOOLEAN, WaitReadableTmo(kind, tmo)
        PROVE  TypeOK' /\ CurInv' /\ ResumingInv'
    BY <2>8 DEF WaitReadableTmo, Computing, Keys, TypeOK
  <2>9. ASSUME NEW f \in Fibers, AcceptSpawn(f) PROVE TypeOK' /\ CurInv' /\ ResumingInv'
    BY <2>9 DEF AcceptSpawn, Spawn, TypeOK
  <2> QED BY <1>4, <2>1, <2>2, <2>3, <2>4, <2>5, <2>6, <2>7, <2>8, <2>9 DEF Code
<1>5. ASSUME NEW w \in Workers, Worker(w) PROVE TypeOK' /\ CurInv' /\ ResumingInv'
  <2>1. CASE OffloadTake(w) BY <2>1 DEF OffloadTake, TypeOK
  <2>2. CASE OffloadStore(w) BY <2>2 DEF OffloadStore, TypeOK
  <2>3. CASE OffloadResume(w)
    <3>1. job[w] \in Fibers BY <2>3 DEF OffloadResume, TypeOK
    <3> QED BY <3>1, <2>3, ResumeFiberType DEF OffloadResume, TypeOK
  <2> QED BY <1>5, <2>1, <2>2, <2>3 DEF Worker
<1>6. CASE Environment
  <2>1. ASSUME NEW f \in Fibers, DataArrives(f) PROVE TypeOK' /\ CurInv' /\ ResumingInv'
    BY <2>1 DEF DataArrives, TypeOK
  <2>2. ASSUME NEW k \in Keys, DeadlinePasses(k) PROVE TypeOK' /\ CurInv' /\ ResumingInv'
    BY <2>2 DEF DeadlinePasses, TypeOK
  <2> QED BY <1>6, <2>1, <2>2 DEF Environment
<1>7. CASE UNCHANGED vars
  BY <1>7 DEF TypeOK
<1> QED BY <1>1, <1>2, <1>3, <1>4, <1>5, <1>6, <1>7 DEF Next

\* Every variable of the scheduler keeps its type.
THEOREM TypeCorrect == Spec => []TypeOK
<1>1. Spec => [](TypeOK /\ CurInv /\ ResumingInv)
  BY TypeInit, TypeStep, PTL DEF Spec
<1> QED BY <1>1, PTL

-----------------------------------------------------------------------------
(***************************************************************************)
(* The inductive invariant.  Whatever can resume a fiber is found by what  *)
(* the fiber is doing (op): registrations and expiries belong to waits on  *)
(* a socket or a timer, jobs to offloads, and none is left once the fiber  *)
(* has been resumed.                                                       *)
(***************************************************************************)

\* The local variables of the scheduler thread are in use only where they are.
ThreadInv ==
    /\ pc \in {"run", "ret"} <=> cur # NoFiber
    /\ pc = "resume" <=> resuming # NoFiber
    /\ expired # {} => pc = "expire"
    /\ events # {} => pc \in {"events", "resume"}

\* A fiber that is running or not settled yet is the one in run_one.
RunInv(f) ==
    /\ cur = f <=> sched_state[f] \in {"RUNNING", "SUSPENDING"}
    /\ sched_state[f] = "SUSPENDING" => pc = "ret"
    /\ sched_state[f] = "RUNNING" /\ pc = "ret" => op[f] = "compute"
    /\ sched_state[f] = "DONE" => done[f]
    /\ done[f] => /\ op[f] = "compute"
                  /\ \/ sched_state[f] = "DONE"
                     \/ sched_state[f] = "RUNNING" /\ pc = "ret"

\* What the fiber's own state says about the call it is in.
OpInv(f) ==
    /\ op[f] = "compute" => ~Suspended(f)
    /\ op[f] = "posted" => sched_state[f] = "RUNNING"
    /\ op[f] # "compute" => sched_state[f] # "NEW"
    /\ pending_resume[f] => /\ op[f] \in {"posted", "offload"} /\ job_done[f]
                            /\ sched_state[f] \in {"RUNNING", "SUSPENDING"}
                            /\ op[f] = "offload" => sched_state[f] = "SUSPENDING"
    /\ io_timed_out[f] => op[f] \in {"fd", "timer"} /\ ~Suspended(f)
    /\ result[f] = "readable" => op[f] = "compute" /\ readable[f]
    /\ op[f] \in {"fd", "timer"} /\ ~Suspended(f) =>
          io_timed_out[f] \/ (op[f] = "fd" /\ readable[f])
    /\ op[f] = "offload" /\ ~Suspended(f) => job_done[f]

\* A wait on a socket or a timer has one outstanding wake-up while the fiber
\* is suspended: its registration, its expiry or its event.
KeyInv(kind, f) ==
    /\ <<kind, f>> \in fd_to_fiber => op[f] = kind /\ Suspended(f)
    /\ <<kind, f>> \in expired => /\ op[f] = kind /\ sched_state[f] = "WAITING"
                                  /\ <<kind, f>> \notin fd_to_fiber
    /\ fd_deadline[<<kind, f>>] # "none" => <<kind, f>> \in fd_to_fiber
    /\ op[f] = kind /\ Suspended(f) =>
          <<kind, f>> \in fd_to_fiber \cup expired \/ resuming = f
EventInv(f) ==
    /\ resuming = f => /\ op[f] = "fd" /\ sched_state[f] = "WAITING" /\ readable[f]
                       /\ <<"fd", f>> \notin fd_to_fiber
    /\ f \in interest => <<"fd", f>> \in fd_to_fiber \cup expired
    /\ f \in events => f \in interest /\ readable[f]

\* An offload has one outstanding wake-up until its fiber is resumed: its
\* place in the queue or the thread that runs it.
JobInv(f) ==
    /\ Queued(f) \/ Offloaded(f) =>
          /\ op[f] \in {"posted", "offload"} /\ ~pending_resume[f]
          /\ op[f] = "offload" => Suspended(f)
    /\ Queued(f) => ~Offloaded(f)
    /\ op[f] = "posted" \/ (op[f] = "offload" /\ Suspended(f)) =>
          Queued(f) \/ Offloaded(f) \/ pending_resume[f]
PoolInv ==
    /\ \A i, j \in DOMAIN jobs : jobs[i] = jobs[j] => i = j
    /\ \A w, v \in Workers : job[w] = job[v] /\ job[w] # NoFiber => w = v
    /\ \A w \in Workers : job_ran[w] => job[w] # NoFiber /\ job_done[job[w]]

FiberInv(f) ==
    /\ RunInv(f) /\ OpInv(f) /\ EventInv(f) /\ JobInv(f)
    /\ \A kind \in {"fd", "timer"} : KeyInv(kind, f)

WakeInv ==
    /\ ThreadInv /\ ReadyOnce /\ PoolInv
    /\ \A f \in Fibers : FiberInv(f)

Inv == TypeOK /\ CurInv /\ ResumingInv /\ WakeInv

-----------------------------------------------------------------------------
(***************************************************************************)
(* Sequences without repetition.                                           *)
(***************************************************************************)
Occurs(x, s) == \E i \in DOMAIN s : s[i] = x
NoRepeat(s) == \A i, j \in DOMAIN s : s[i] = s[j] => i = j

LEMMA AppendOccurs ==
    ASSUME NEW S, NEW s \in Seq(S), NEW e \in S
    PROVE  /\ \A x : Occurs(x, Append(s, e)) <=> Occurs(x, s) \/ x = e
           /\ NoRepeat(s) /\ ~Occurs(e, s) => NoRepeat(Append(s, e))
<1>1. /\ Len(s) \in Nat /\ DOMAIN s = 1 .. Len(s)
      /\ DOMAIN Append(s, e) = 1 .. Len(s) + 1
      /\ \A i \in 1 .. Len(s) : Append(s, e)[i] = s[i]
      /\ Append(s, e)[Len(s) + 1] = e
  BY AppendProperties, LenProperties
<1>2. ASSUME NEW x PROVE Occurs(x, Append(s, e)) <=> Occurs(x, s) \/ x = e
  <2>1. ASSUME Occurs(x, Append(s, e)) PROVE Occurs(x, s) \/ x = e
    <3>1. PICK i \in 1 .. Len(s) + 1 : Append(s, e)[i] = x
      BY <2>1, <1>1 DEF Occurs
    <3>2. CASE i = Len(s) + 1 BY <3>1, <3>2, <1>1
    <3>3. CASE i # Len(s) + 1
      <4>1. i \in 1 .. Len(s) BY <3>3, <1>1
      <4> QED BY <3>1, <4>1, <1>1 DEF Occurs
    <3> QED BY <3>2, <3>3
  <2>2. ASSUME Occurs(x, s) PROVE Occurs(x, Append(s, e))
    <3>1. PICK i \in 1 .. Len(s) : s[i] = x BY <2>2, <1>1 DEF Occurs
    <3>2. i \in 1 .. Len(s) + 1 /\ Append(s, e)[i] = x BY <3>1, <1>1
    <3> QED BY <3>2, <1>1 DEF Occurs
  <2>3. ASSUME x = e PROVE Occurs(x, Append(s, e))
    <3>1. Len(s) + 1 \in 1 .. Len(s) + 1 /\ Append(s, e)[Len(s) + 1] = x BY <2>3, <1>1
    <3> QED BY <3>1, <1>1 DEF Occurs
  <2> QED BY <2>1, <2>2, <2>3
<1>3. ASSUME NoRepeat(s), ~Occurs(e, s) PROVE NoRepeat(Append(s, e))
  <2> SUFFICES ASSUME NEW i \in 1 .. Len(s) + 1, NEW j \in 1 .. Len(s) + 1,
                      Append(s, e)[i] = Append(s, e)[j]
               PROVE  i = j
    BY <1>1 DEF NoRepeat
  <2>1. \A k \in 1 .. Len(s) : s[k] # e BY <1>1, <1>3 DEF Occurs
  <2>2. \A k, l \in 1 .. Len(s) : s[k] = s[l] => k = l BY <1>1, <1>3 DEF NoRepeat
  <2> QED BY <1>1, <2>1, <2>2
<1> QED BY <1>2, <1>3

LEMMA TailOccurs ==
    ASSUME NEW S, NEW s \in Seq(S), s # <<>>, NoRepeat(s)
    PROVE  /\ \A x : Occurs(x, Tail(s)) <=> Occurs(x, s) /\ x # Head(s)
           /\ NoRepeat(Tail(s)) /\ Occurs(Head(s), s)
<1>1. /\ Len(s) \in Nat \ {0} /\ DOMAIN s = 1 .. Len(s) /\ Head(s) = s[1]
      /\ DOMAIN Tail(s) = 1 .. Len(s) - 1
      /\ \A i \in 1 .. Len(s) - 1 : Tail(s)[i] = s[i + 1]
  BY HeadTailProperties, LenProperties, EmptySeq
<1>2. \A k, l \in 1 .. Len(s) : s[k] = s[l] => k = l BY <1>1 DEF NoRepeat
<1>3. ASSUME NEW x PROVE Occurs(x, Tail(s)) <=> Occurs(x, s) /\ x # Head(s)
  <2>1. ASSUME Occurs(x, Tail(s)) PROVE Occurs(x, s) /\ x # Head(s)
    <3>1. PICK i \in 1 .. Len(s) - 1 : s[i + 1] = x BY <2>1, <1>1 DEF Occurs
    <3>2. i + 1 \in 1 .. Len(s) /\ i + 1 # 1 /\ 1 \in 1 .. Len(s) BY <1>1
    <3> QED BY <3>1, <3>2, <1>1, <1>2 DEF Occurs
  <2>2. ASSUME Occurs(x, s), x # Head(s) PROVE Occurs(x, Tail(s))
    <3>1. PICK i \in 1 .. Len(s) : s[i] = x BY <2>2, <1>1 DEF Occurs
    <3>2. i # 1 BY <3>1, <2>2, <1>1
    <3>3. i - 1 \in 1 .. Len(s) - 1 /\ (i - 1) + 1 = i BY <3>2, <1>1
    <3>4. Tail(s)[i - 1] = x BY <3>1, <3>3, <1>1
    <3> QED BY <3>3, <3>4, <1>1 DEF Occurs
  <2> QED BY <2>1, <2>2
<1>4. NoRepeat(Tail(s))
  <2> SUFFICES ASSUME NEW i \in 1 .. Len(s) - 1, NEW j \in 1 .. Len(s) - 1,
                      Tail(s)[i] = Tail(s)[j]
               PROVE  i = j
    BY <1>1 DEF NoRepeat
  <2>1. i + 1 \in 1 .. Len(s) /\ j + 1 \in 1 .. Len(s) BY <1>1
  <2> QED BY <2>1, <1>1, <1>2
<1>5. Occurs(Head(s), s) BY <1>1 DEF Occurs
<1> QED BY <1>3, <1>4, <1>5

-----------------------------------------------------------------------------
(***************************************************************************)
(* Every step keeps the invariant.                                         *)
(***************************************************************************)

\* A fiber that enters ready_ from outside it.
LEMMA ReadyAppend ==
    ASSUME Inv, NEW f \in Fibers, sched_state[f] # "READY",
           ready' = Append(ready, f),
           sched_state' = [sched_state EXCEPT ![f] = "READY"],
           waiting' = [waiting EXCEPT ![f] = 0]
    PROVE  ReadyOnce'
<1>4. ready \in Seq(Fibers) /\ NoRepeat(ready) /\ \A g : Occurs(g, ready) <=> InReady(g)
  BY DEF Inv, WakeInv, TypeOK, ReadyOnce, NoRepeat, Occurs, InReady
<1>5. ~Occurs(f, ready)
  BY <1>4 DEF Inv, WakeInv, ReadyOnce
<1>6. NoRepeat(ready') /\ \A g : Occurs(g, ready') <=> Occurs(g, ready) \/ g = f
  BY <1>4, <1>5, AppendOccurs
<1>7. ASSUME NEW g \in Fibers
      PROVE  /\ Occurs(g, ready') <=> sched_state'[g] = "READY"
             /\ waiting'[g] = IF Suspended(g)' THEN 1 ELSE 0
  BY <1>4, <1>6 DEF Inv, WakeInv, ReadyOnce, TypeOK, Suspended
<1> QED BY <1>6, <1>7 DEF ReadyOnce, NoRepeat, Occurs, InReady

\* resume_fiber finds a settled fiber: it moves from waiting_ to ready_.
LEMMA ResumeSettled ==
    ASSUME Inv, NEW f \in Fibers, sched_state[f] = "WAITING", ResumeFiber(f)
    PROVE  /\ sched_state' = [sched_state EXCEPT ![f] = "READY"]
           /\ pending_resume' = pending_resume /\ evfd' = TRUE
           /\ ReadyOnce'
<1>1. ~done[f] /\ Movable(f) /\ waiting[f] = 1
  BY DEF Inv, WakeInv, FiberInv, RunInv, Movable, ReadyOnce, Suspended
<1>2. /\ sched_state' = [sched_state EXCEPT ![f] = "READY"]
      /\ ready' = Append(ready, f)
      /\ waiting' = [waiting EXCEPT ![f] = EraseOne(@)]
      /\ UNCHANGED pending_resume /\ evfd' = TRUE
  BY <1>1, Zenon DEF ResumeFiber, MoveToReady, Wake
<1>3. waiting' = [waiting EXCEPT ![f] = 0]
  BY <1>1, <1>2 DEF EraseOne, Inv, TypeOK
<1> QED BY <1>2, <1>3, ReadyAppend

\* In any other state only the flag is set.
LEMMA ResumeUnsettled ==
    ASSUME Inv, NEW f \in Fibers, sched_state[f] # "WAITING", ResumeFiber(f)
    PROVE  /\ pending_resume' = [pending_resume EXCEPT ![f] = TRUE]
           /\ UNCHANGED <<waiting, sched_state, ready>> /\ evfd' = TRUE
           /\ ReadyOnce'
<1>1. /\ pending_resume' = [pending_resume EXCEPT ![f] = TRUE]
      /\ UNCHANGED <<waiting, sched_state, ready>> /\ evfd' = TRUE
  BY Zenon DEF ResumeFiber, Movable, LeaveFlag, Wake
<1> QED BY <1>1 DEF Inv, WakeInv, ReadyOnce, InReady, Suspended

\* One step of the scheduler keeps the invariant.
LEMMA WakeStep == Inv /\ [Next]_vars => WakeInv'
<1> SUFFICES ASSUME Inv, [Next]_vars PROVE WakeInv'
  OBVIOUS
<1> USE DEF vars, schedVars, threadVars, fiberVars, codeVars, poolVars
<1>i. TypeOK /\ CurInv /\ ResumingInv /\ ThreadInv /\ ReadyOnce /\ PoolInv
  BY DEF Inv, WakeInv
<1>t. TypeOK'
  BY TypeStep DEF Inv
<1>f. ASSUME NEW g \in Fibers
      PROVE  /\ RunInv(g) /\ OpInv(g) /\ EventInv(g) /\ JobInv(g)
             /\ \A kind \in {"fd", "timer"} : KeyInv(kind, g)
  BY DEF Inv, WakeInv, FiberInv
\* What a step does not touch it keeps.
<1>a. ASSUME UNCHANGED <<pc, cur, resuming, expired, events>> PROVE ThreadInv'
  BY <1>a, <1>i DEF ThreadInv
<1>b. ASSUME UNCHANGED <<ready, waiting, sched_state>> PROVE ReadyOnce'
  BY <1>b, <1>i DEF ReadyOnce, InReady, Suspended
<1>c. ASSUME UNCHANGED <<jobs, job, job_ran, job_done>> PROVE PoolInv'
  BY <1>c, <1>i DEF PoolInv
<1>d. ASSUME UNCHANGED <<pc, cur, sched_state, done, op>>, NEW g \in Fibers PROVE RunInv(g)'
  BY <1>d, <1>f DEF RunInv
<1>e. ASSUME UNCHANGED <<op, result, readable, job_done, sched_state, pending_resume,
                         io_timed_out>>, NEW g \in Fibers
      PROVE  OpInv(g)'
  BY <1>e, <1>f DEF OpInv, Suspended
<1>g. ASSUME UNCHANGED <<resuming, events, expired, fd_to_fiber, interest, op, readable,
                         sched_state>>, NEW g \in Fibers
      PROVE  EventInv(g)'
  BY <1>g, <1>f DEF EventInv
<1>h. ASSUME UNCHANGED <<jobs, job, op, sched_state, pending_resume>>, NEW g \in Fibers
      PROVE  JobInv(g)'
  BY <1>h, <1>f DEF JobInv, Queued, Offloaded, Suspended
<1>k. ASSUME UNCHANGED <<fd_to_fiber, fd_deadline, expired, resuming, op, sched_state>>,
             NEW g \in Fibers, NEW kind \in {"fd", "timer"}
      PROVE  KeyInv(kind, g)'
  BY <1>k, <1>f DEF KeyInv, Suspended
\* The loop outside run_one and resume_fiber.
<1>p. ASSUME UNCHANGED <<ready, waiting, fd_to_fiber, fd_deadline, interest, cur, resuming,
                         expired, fiberVars, codeVars, poolVars>>,
             {pc, pc'} \cap {"run", "ret", "resume"} = {},
             expired # {} => pc' = "expire", events' # {} => pc' = "events",
             \A g \in Fibers : g \in events' => g \in interest /\ readable[g]
      PROVE  WakeInv'
  <2>1. ThreadInv' BY <1>p, <1>i DEF ThreadInv
  <2>2. ReadyOnce' /\ PoolInv' BY <1>p, <1>b, <1>c
  <2>3. ASSUME NEW g \in Fibers PROVE FiberInv(g)'
    <3>1. RunInv(g)'
      <4>1. RunInv(g) BY <1>f
      <4> QED BY <1>p, <1>i, <4>1, FiberAssumption DEF RunInv, ThreadInv
    <3>2. EventInv(g)'
      <4>1. EventInv(g) BY <1>f
      <4> QED BY <1>p, <4>1 DEF EventInv
    <3> QED BY <3>1, <3>2, <1>p, <1>e, <1>h, <1>k DEF FiberInv
  <2> QED BY <2>1, <2>2, <2>3 DEF WakeInv
<1>1. CASE RunOneEmpty
  BY <1>1, <1>i, <1>p, <1>f, FiberAssumption
     DEF RunOneEmpty, ThreadInv, EventInv, TypeOK
<1>2. CASE CheckComplete
  BY <1>2, <1>i, <1>p, <1>f, FiberAssumption
     DEF CheckComplete, ThreadInv, EventInv, TypeOK
<1>3. CASE ChooseTimeout
  BY <1>3, <1>i, <1>p, <1>f, FiberAssumption
     DEF ChooseTimeout, ThreadInv, EventInv, TypeOK
<1>4. CASE EpollWait
  BY <1>4, <1>i, <1>p, <1>f, FiberAssumption
     DEF EpollWait, Deliverable, ThreadInv, EventInv, TypeOK
<1>5. CASE DrainWakeup
  BY <1>5, <1>i, <1>p, <1>f, FiberAssumption
     DEF DrainWakeup, ThreadInv, EventInv, TypeOK
<1>6. CASE EventsDone
  BY <1>6, <1>i, <1>p, <1>f, FiberAssumption DEF EventsDone, ThreadInv, EventInv, TypeOK
<1>7. CASE ExpireDone
  BY <1>7, <1>i, <1>p, <1>f, FiberAssumption DEF ExpireDone, ThreadInv, EventInv, TypeOK
<1>8. CASE Slice
  BY <1>8, <1>i, <1>p, <1>f, FiberAssumption
     DEF Slice, SliceMore, SliceOver, ThreadInv, EventInv, TypeOK
<1>9. CASE Sweep
  <2>1. ThreadInv'
    BY <1>9, <1>i, FiberAssumption
       DEF Sweep, ThreadInv, CurInv, ResumingInv, TypeOK
  <2>2. ReadyOnce' BY <1>9, <1>b DEF Sweep
  <2>3. PoolInv' BY <1>9, <1>c DEF Sweep
  <2>4. ASSUME NEW g \in Fibers PROVE FiberInv(g)'
    <3>1. /\ RunInv(g) /\ OpInv(g) /\ EventInv(g) /\ JobInv(g) /\ KeyInv("fd", g)
          /\ pc \in {"run", "ret"} => cur \in Fibers /\ RunInv(cur)
      BY <1>i, <1>f DEF CurInv
    <3>2. RunInv(g)'
      BY <1>9, <1>i, <3>1, FiberAssumption
         DEF Sweep, Suspended, TypeOK, RunInv, CurInv, ThreadInv
    <3>3. EventInv(g)'
      BY <1>9, <1>i, <3>1, FiberAssumption
         DEF Sweep, Suspended, TypeOK, EventInv, RunInv, ThreadInv, KeyInv, Keys
    <3>4. ASSUME NEW kind \in {"fd", "timer"} PROVE KeyInv(kind, g)'
      <4>1. KeyInv(kind, g) BY <1>f
      <4> QED BY <4>1, <1>9, <1>i, <3>1, FiberAssumption
          DEF Sweep, Suspended, TypeOK, RunInv, KeyInv, EventInv, ThreadInv, Keys
    <3> QED BY <3>2, <3>3, <3>4, <1>e, <1>h, <1>9 DEF Sweep, FiberInv
  <2> QED BY <2>1, <2>2, <2>3, <2>4 DEF WakeInv
<1>10. CASE Yield
  <2>1. ThreadInv'
    BY <1>10, <1>i, FiberAssumption
       DEF Yield, Computing, ThreadInv, CurInv, ResumingInv, TypeOK
  <2>2. ReadyOnce' BY <1>10, <1>b DEF Yield, Computing
  <2>3. PoolInv' BY <1>10, <1>c DEF Yield, Computing
  <2>4. ASSUME NEW g \in Fibers PROVE FiberInv(g)'
    <3>1. /\ RunInv(g) /\ OpInv(g) /\ EventInv(g) /\ JobInv(g) /\ KeyInv("fd", g)
          /\ pc \in {"run", "ret"} => cur \in Fibers /\ RunInv(cur)
      BY <1>i, <1>f DEF CurInv
    <3>2. RunInv(g)'
      BY <1>10, <1>i, <3>1, FiberAssumption
         DEF Yield, Computing, Suspended, TypeOK, RunInv, CurInv, ThreadInv
    <3>3. OpInv(g)'
      BY <1>10, <1>i, <3>1, FiberAssumption
         DEF Yield, Computing, Suspended, TypeOK, RunInv, OpInv, CurInv
    <3> QED BY <3>2, <3>3, <1>g, <1>h, <1>k, <1>10 DEF Yield, Computing, FiberInv
  <2> QED BY <2>1, <2>2, <2>3, <2>4 DEF WakeInv
<1>11. CASE Finish
  <2>1. ThreadInv'
    BY <1>11, <1>i, FiberAssumption
       DEF Finish, Computing, ThreadInv, CurInv, ResumingInv, TypeOK
  <2>2. ReadyOnce' BY <1>11, <1>b DEF Finish, Computing
  <2>3. PoolInv' BY <1>11, <1>c DEF Finish, Computing
  <2>4. ASSUME NEW g \in Fibers PROVE FiberInv(g)'
    <3>1. /\ RunInv(g) /\ OpInv(g) /\ EventInv(g) /\ JobInv(g) /\ KeyInv("fd", g)
          /\ pc \in {"run", "ret"} => cur \in Fibers /\ RunInv(cur)
      BY <1>i, <1>f DEF CurInv
    <3>2. RunInv(g)'
      BY <1>11, <1>i, <3>1, FiberAssumption
         DEF Finish, Computing, Suspended, TypeOK, RunInv, CurInv, ThreadInv
    <3>3. OpInv(g)'
      BY <1>11, <1>i, <3>1, FiberAssumption
         DEF Finish, Computing, Suspended, TypeOK, RunInv, OpInv, CurInv
    <3> QED BY <3>2, <3>3, <1>g, <1>h, <1>k, <1>11 DEF Finish, Computing, FiberInv
  <2> QED BY <2>1, <2>2, <2>3, <2>4 DEF WakeInv
<1>12. CASE Recv
  <2>1. ThreadInv' BY <1>12, <1>a DEF Recv, Computing
  <2>2. ReadyOnce' BY <1>12, <1>b DEF Recv, Computing
  <2>3. PoolInv' BY <1>12, <1>c DEF Recv, Computing
  <2>4. ASSUME NEW g \in Fibers PROVE FiberInv(g)'
    <3>1. /\ RunInv(g) /\ OpInv(g) /\ EventInv(g) /\ JobInv(g) /\ KeyInv("fd", g)
          /\ pc \in {"run", "ret"} => cur \in Fibers /\ RunInv(cur)
      BY <1>i, <1>f DEF CurInv
    <3>2. OpInv(g)'
      BY <1>12, <1>i, <3>1, FiberAssumption
         DEF Recv, Computing, Suspended, TypeOK, RunInv, OpInv, CurInv
    <3>3. EventInv(g)'
      BY <1>12, <1>i, <3>1, FiberAssumption
         DEF Recv, Computing, Suspended, TypeOK, EventInv, RunInv, ThreadInv, KeyInv,
             Keys
    <3> QED BY <3>2, <3>3, <1>d, <1>h, <1>k, <1>12 DEF Recv, Computing, FiberInv
  <2> QED BY <2>1, <2>2, <2>3, <2>4 DEF WakeInv
<1>13. CASE WaitReturn
  <2>1. ThreadInv' BY <1>13, <1>a DEF WaitReturn
  <2>2. ReadyOnce' BY <1>13, <1>b DEF WaitReturn
  <2>3. PoolInv' BY <1>13, <1>c DEF WaitReturn
  <2>4. ASSUME NEW g \in Fibers PROVE FiberInv(g)'
    <3>1. /\ RunInv(g) /\ OpInv(g) /\ EventInv(g) /\ JobInv(g) /\ KeyInv("fd", g)
          /\ pc \in {"run", "ret"} => cur \in Fibers /\ RunInv(cur)
      BY <1>i, <1>f DEF CurInv
    <3>2. RunInv(g)'
      BY <1>13, <1>i, <3>1, FiberAssumption
         DEF WaitReturn, Suspended, TypeOK, RunInv, CurInv, ThreadInv
    <3>3. OpInv(g)'
      BY <1>13, <1>i, <3>1, FiberAssumption
         DEF WaitReturn, Suspended, TypeOK, RunInv, OpInv, CurInv
    <3>4. EventInv(g)'
      BY <1>13, <1>i, <3>1, FiberAssumption
         DEF WaitReturn, Suspended, TypeOK, EventInv, RunInv, ThreadInv, KeyInv, Keys
    <3>5. JobInv(g)'
      BY <1>13, <1>i, <3>1, FiberAssumption
         DEF WaitReturn, Suspended, TypeOK, RunInv, JobInv, OpInv, Queued, Offloaded
    <3>6. ASSUME NEW kind \in {"fd", "timer"} PROVE KeyInv(kind, g)'
      <4>1. KeyInv(kind, g) BY <1>f
      <4> QED BY <4>1, <1>13, <1>i, <3>1, FiberAssumption
          DEF WaitReturn, Suspended, TypeOK, RunInv, KeyInv, EventInv, ThreadInv, Keys
    <3> QED BY <3>2, <3>3, <3>4, <3>5, <3>6, <1>13 DEF FiberInv
  <2> QED BY <2>1, <2>2, <2>3, <2>4 DEF WakeInv
<1>14. ASSUME NEW f \in Fibers, FdEvent(f) PROVE WakeInv'
  <2>1. ThreadInv'
    BY <1>14, <1>i, FiberAssumption
       DEF FdEvent, ThreadInv, CurInv, ResumingInv, TypeOK
  <2>2. ReadyOnce' BY <1>14, <1>b DEF FdEvent
  <2>3. PoolInv' BY <1>14, <1>c DEF FdEvent
  <2>4. ASSUME NEW g \in Fibers PROVE FiberInv(g)'
    <3>1. /\ RunInv(g) /\ OpInv(g) /\ EventInv(g) /\ JobInv(g) /\ KeyInv("fd", g)
          /\ pc \in {"run", "ret"} => cur \in Fibers /\ RunInv(cur)
      BY <1>i, <1>f DEF CurInv
    <3>2. RunInv(g)'
      BY <1>14, <1>i, <3>1, FiberAssumption
         DEF FdEvent, Suspended, TypeOK, RunInv, CurInv, ThreadInv
    <3>3. EventInv(g)'
      BY <1>14, <1>i, <3>1, FiberAssumption
         DEF FdEvent, Suspended, TypeOK, EventInv, RunInv, ThreadInv, KeyInv, Keys
    <3>4. ASSUME NEW kind \in {"fd", "timer"} PROVE KeyInv(kind, g)'
      <4>1. KeyInv(kind, g) BY <1>f
      <4> QED BY <4>1, <1>14, <1>i, <3>1, FiberAssumption
          DEF FdEvent, Suspended, TypeOK, RunInv, KeyInv, EventInv, ThreadInv, Keys
    <3> QED BY <3>2, <3>3, <3>4, <1>e, <1>h, <1>14 DEF FdEvent, FiberInv
  <2> QED BY <2>1, <2>2, <2>3, <2>4 DEF WakeInv
<1>15. ASSUME NEW w \in Workers, OffloadStore(w) PROVE WakeInv'
  <2>1. ThreadInv' BY <1>15, <1>a DEF OffloadStore
  <2>2. ReadyOnce' BY <1>15, <1>b DEF OffloadStore
  <2>3. PoolInv'
    BY <1>15, <1>i, <1>t DEF OffloadStore, PoolInv, TypeOK
  <2>4. ASSUME NEW g \in Fibers PROVE FiberInv(g)'
    <3>1. /\ RunInv(g) /\ OpInv(g) /\ EventInv(g) /\ JobInv(g) /\ KeyInv("fd", g)
          /\ pc \in {"run", "ret"} => cur \in Fibers /\ RunInv(cur)
      BY <1>i, <1>f DEF CurInv
    <3>2. OpInv(g)'
      BY <1>15, <1>i, <3>1, FiberAssumption
         DEF OffloadStore, Suspended, TypeOK, RunInv, OpInv, CurInv
    <3> QED BY <3>2, <1>d, <1>g, <1>h, <1>k, <1>15 DEF OffloadStore, FiberInv
  <2> QED BY <2>1, <2>2, <2>3, <2>4 DEF WakeInv
<1>16. ASSUME NEW f \in Fibers, DataArrives(f) PROVE WakeInv'
  <2>1. ThreadInv' BY <1>16, <1>a DEF DataArrives
  <2>2. ReadyOnce' BY <1>16, <1>b DEF DataArrives
  <2>3. PoolInv' BY <1>16, <1>c DEF DataArrives
  <2>4. ASSUME NEW g \in Fibers PROVE FiberInv(g)'
    <3>1. /\ RunInv(g) /\ OpInv(g) /\ EventInv(g) /\ JobInv(g) /\ KeyInv("fd", g)
          /\ pc \in {"run", "ret"} => cur \in Fibers /\ RunInv(cur)
      BY <1>i, <1>f DEF CurInv
    <3>2. OpInv(g)'
      BY <1>16, <1>i, <3>1, FiberAssumption
         DEF DataArrives, Suspended, TypeOK, RunInv, OpInv, CurInv
    <3>3. EventInv(g)'
      BY <1>16, <1>i, <3>1, FiberAssumption
         DEF DataArrives, Suspended, TypeOK, EventInv, RunInv, ThreadInv, KeyInv, Keys
    <3> QED BY <3>2, <3>3, <1>d, <1>h, <1>k, <1>16 DEF DataArrives, FiberInv
  <2> QED BY <2>1, <2>2, <2>3, <2>4 DEF WakeInv
<1>17. ASSUME NEW k \in Keys, DeadlinePasses(k) PROVE WakeInv'
  <2>1. ThreadInv' BY <1>17, <1>a DEF DeadlinePasses
  <2>2. ReadyOnce' BY <1>17, <1>b DEF DeadlinePasses
  <2>3. PoolInv' BY <1>17, <1>c DEF DeadlinePasses
  <2>4. ASSUME NEW g \in Fibers PROVE FiberInv(g)'
    <3>1. /\ RunInv(g) /\ OpInv(g) /\ EventInv(g) /\ JobInv(g) /\ KeyInv("fd", g)
          /\ pc \in {"run", "ret"} => cur \in Fibers /\ RunInv(cur)
      BY <1>i, <1>f DEF CurInv
    <3>2. ASSUME NEW kind \in {"fd", "timer"} PROVE KeyInv(kind, g)'
      <4>1. KeyInv(kind, g) BY <1>f
      <4> QED BY <4>1, <1>17, <1>i, <3>1, FiberAssumption
          DEF DeadlinePasses, Suspended, TypeOK, RunInv, KeyInv, EventInv, ThreadInv,
              Keys
    <3> QED BY <3>2, <1>d, <1>e, <1>g, <1>h, <1>17 DEF DeadlinePasses, FiberInv
  <2> QED BY <2>1, <2>2, <2>3, <2>4 DEF WakeInv
<1>18. CASE UNCHANGED vars
  <2>1. ThreadInv' BY <1>18, <1>a DEF vars
  <2>2. ReadyOnce' BY <1>18, <1>b DEF vars
  <2>3. PoolInv' BY <1>18, <1>c DEF vars
  <2>4. ASSUME NEW g \in Fibers PROVE FiberInv(g)'
    <3>1. /\ RunInv(g) /\ OpInv(g) /\ EventInv(g) /\ JobInv(g) /\ KeyInv("fd", g)
          /\ pc \in {"run", "ret"} => cur \in Fibers /\ RunInv(cur)
      BY <1>i, <1>f DEF CurInv
    <3> QED BY <1>d, <1>e, <1>g, <1>h, <1>k, <1>18 DEF vars, FiberInv
  <2> QED BY <2>1, <2>2, <2>3, <2>4 DEF WakeInv
<1>19. ASSUME NEW f \in Fibers, StartWorker(f) PROVE WakeInv'
  <2>s. f \in Fibers /\ RunInv(f) /\ OpInv(f) /\ waiting[f] = 0
    BY <1>19, <1>i, <1>f DEF StartWorker, Spawn, ReadyOnce, Suspended
  <2>1. ThreadInv'
    BY <1>19, <2>s, <1>i, FiberAssumption
       DEF StartWorker, Spawn, ThreadInv, CurInv, ResumingInv, TypeOK
  <2>2. ReadyOnce'
    <3>1. waiting' = [waiting EXCEPT ![f] = 0]
      BY <1>19, <2>s, <1>i
         DEF StartWorker, Spawn, TypeOK
    <3> QED BY <1>19, <3>1, ReadyAppend DEF StartWorker, Spawn
  <2>3. PoolInv' BY <1>19, <2>s, <1>c DEF StartWorker, Spawn
  <2>4. ASSUME NEW g \in Fibers PROVE FiberInv(g)'
    <3>1. /\ RunInv(g) /\ OpInv(g) /\ EventInv(g) /\ JobInv(g) /\ KeyInv("fd", g)
          /\ pc \in {"run", "ret"} => cur \in Fibers /\ RunInv(cur)
      BY <1>i, <1>f DEF CurInv
    <3>2. RunInv(g)'
      BY <1>19, <2>s, <1>i, <3>1, FiberAssumption
         DEF StartWorker, Spawn, Suspended, TypeOK, RunInv, CurInv, ThreadInv
    <3>3. OpInv(g)'
      BY <1>19, <2>s, <1>i, <3>1, FiberAssumption
         DEF StartWorker, Spawn, Suspended, TypeOK, RunInv, OpInv, CurInv
    <3>4. EventInv(g)'
      BY <1>19, <2>s, <1>i, <3>1, FiberAssumption
         DEF StartWorker, Spawn, Suspended, TypeOK, EventInv, RunInv, ThreadInv, KeyInv,
             Keys
    <3>5. JobInv(g)'
      BY <1>19, <2>s, <1>i, <3>1, FiberAssumption
         DEF StartWorker, Spawn, Suspended, TypeOK, RunInv, JobInv, OpInv, Queued,
             Offloaded
    <3>6. ASSUME NEW kind \in {"fd", "timer"} PROVE KeyInv(kind, g)'
      <4>1. KeyInv(kind, g) BY <1>f
      <4> QED BY <4>1, <1>19, <2>s, <1>i, <3>1, FiberAssumption
          DEF StartWorker, Spawn, Suspended, TypeOK, RunInv, KeyInv, EventInv,
              ThreadInv, Keys
    <3> QED BY <3>2, <3>3, <3>4, <3>5, <3>6, <1>19, <2>s DEF FiberInv
  <2> QED BY <2>1, <2>2, <2>3, <2>4 DEF WakeInv
<1>20. ASSUME NEW f \in Fibers, AcceptSpawn(f) PROVE WakeInv'
  <2>s. f \in Fibers /\ RunInv(f) /\ OpInv(f) /\ waiting[f] = 0
    BY <1>20, <1>i, <1>f DEF AcceptSpawn, Spawn, ReadyOnce, Suspended
  <2>1. ThreadInv' BY <1>20, <2>s, <1>a DEF AcceptSpawn, Spawn
  <2>2. ReadyOnce'
    <3>1. waiting' = [waiting EXCEPT ![f] = 0]
      BY <1>20, <2>s, <1>i
         DEF AcceptSpawn, Spawn, TypeOK
    <3> QED BY <1>20, <3>1, ReadyAppend DEF AcceptSpawn, Spawn
  <2>3. PoolInv' BY <1>20, <2>s, <1>c DEF AcceptSpawn, Spawn
  <2>4. ASSUME NEW g \in Fibers PROVE FiberInv(g)'
    <3>1. /\ RunInv(g) /\ OpInv(g) /\ EventInv(g) /\ JobInv(g) /\ KeyInv("fd", g)
          /\ pc \in {"run", "ret"} => cur \in Fibers /\ RunInv(cur)
      BY <1>i, <1>f DEF CurInv
    <3>2. RunInv(g)'
      BY <1>20, <2>s, <1>i, <3>1, FiberAssumption
         DEF AcceptSpawn, Spawn, Suspended, TypeOK, RunInv, CurInv, ThreadInv
    <3>3. OpInv(g)'
      BY <1>20, <2>s, <1>i, <3>1, FiberAssumption
         DEF AcceptSpawn, Spawn, Suspended, TypeOK, RunInv, OpInv, CurInv
    <3>4. EventInv(g)'
      BY <1>20, <2>s, <1>i, <3>1, FiberAssumption
         DEF AcceptSpawn, Spawn, Suspended, TypeOK, EventInv, RunInv, ThreadInv, KeyInv,
             Keys
    <3>5. JobInv(g)'
      BY <1>20, <2>s, <1>i, <3>1, FiberAssumption
         DEF AcceptSpawn, Spawn, Suspended, TypeOK, RunInv, JobInv, OpInv, Queued,
             Offloaded
    <3>6. ASSUME NEW kind \in {"fd", "timer"} PROVE KeyInv(kind, g)'
      <4>1. KeyInv(kind, g) BY <1>f
      <4> QED BY <4>1, <1>20, <2>s, <1>i, <3>1, FiberAssumption
          DEF AcceptSpawn, Spawn, Suspended, TypeOK, RunInv, KeyInv, EventInv,
              ThreadInv, Keys
    <3> QED BY <3>2, <3>3, <3>4, <3>5, <3>6, <1>20, <2>s DEF FiberInv
  <2> QED BY <2>1, <2>2, <2>3, <2>4 DEF WakeInv
<1>21. CASE RunOne
  <2>s. /\ Head(ready) \in Fibers /\ sched_state[Head(ready)] = "READY"
        /\ NoRepeat(Tail(ready)) /\ RunInv(Head(ready)) /\ OpInv(Head(ready))
        /\ \A g \in Fibers : Occurs(g, Tail(ready)) <=> InReady(g) /\ g # Head(ready)
    <3>1. ready \in Seq(Fibers) /\ ready # <<>> /\ NoRepeat(ready)
          /\ \A g : Occurs(g, ready) <=> InReady(g)
      BY <1>21, <1>i DEF RunOne, TypeOK, ReadyOnce, NoRepeat, Occurs, InReady
    <3>2. Head(ready) \in Fibers BY <3>1, HeadTailProperties
    <3> QED BY <3>1, <3>2, <1>i, <1>f, TailOccurs DEF ReadyOnce
  <2>1. ThreadInv'
    BY <1>21, <2>s, <1>i, FiberAssumption
       DEF RunOne, ThreadInv, CurInv, ResumingInv, TypeOK
  <2>2. ReadyOnce'
    <3>1. ASSUME NEW g \in Fibers
          PROVE  /\ Occurs(g, ready') <=> sched_state'[g] = "READY"
                 /\ waiting'[g] = IF Suspended(g)' THEN 1 ELSE 0
      BY <1>21, <2>s, <1>i DEF RunOne, ReadyOnce, Suspended, TypeOK
    <3> QED BY <1>21, <2>s, <3>1 DEF RunOne, ReadyOnce, NoRepeat, Occurs, InReady
  <2>3. PoolInv' BY <1>21, <2>s, <1>c DEF RunOne
  <2>4. ASSUME NEW g \in Fibers PROVE FiberInv(g)'
    <3>1. /\ RunInv(g) /\ OpInv(g) /\ EventInv(g) /\ JobInv(g) /\ KeyInv("fd", g)
          /\ pc \in {"run", "ret"} => cur \in Fibers /\ RunInv(cur)
      BY <1>i, <1>f DEF CurInv
    <3>2. RunInv(g)'
      BY <1>21, <2>s, <1>i, <3>1, FiberAssumption
         DEF RunOne, Suspended, TypeOK, RunInv, CurInv, ThreadInv
    <3>3. OpInv(g)'
      BY <1>21, <2>s, <1>i, <3>1, FiberAssumption
         DEF RunOne, Suspended, TypeOK, RunInv, OpInv, CurInv
    <3>4. EventInv(g)'
      BY <1>21, <2>s, <1>i, <3>1, FiberAssumption
         DEF RunOne, Suspended, TypeOK, EventInv, RunInv, ThreadInv, KeyInv, Keys
    <3>5. JobInv(g)'
      BY <1>21, <2>s, <1>i, <3>1, FiberAssumption
         DEF RunOne, Suspended, TypeOK, RunInv, JobInv, OpInv, Queued, Offloaded
    <3>6. ASSUME NEW kind \in {"fd", "timer"} PROVE KeyInv(kind, g)'
      <4>1. KeyInv(kind, g) BY <1>f
      <4> QED BY <4>1, <1>21, <2>s, <1>i, <3>1, FiberAssumption
          DEF RunOne, Suspended, TypeOK, RunInv, KeyInv, EventInv, ThreadInv, Keys
    <3> QED BY <3>2, <3>3, <3>4, <3>5, <3>6, <1>21, <2>s DEF FiberInv
  <2> QED BY <2>1, <2>2, <2>3, <2>4 DEF WakeInv
<1>22. CASE Settle /\ SettleDone
  <2>s. /\ cur \in Fibers /\ RunInv(cur) /\ OpInv(cur) /\ JobInv(cur)
        /\ waiting[cur] = IF Suspended(cur) THEN 1 ELSE 0
    BY <1>22, <1>i, <1>f DEF Settle, CurInv, ReadyOnce
  <2>1. ThreadInv'
    BY <1>22, <2>s, <1>i, FiberAssumption
       DEF Settle, SettleDone, EraseOne, ThreadInv, CurInv, ResumingInv, TypeOK
  <2>2. ReadyOnce'
    BY <1>22, <2>s, <1>i
       DEF Settle, SettleDone, EraseOne, ReadyOnce, InReady, Suspended, RunInv, TypeOK
  <2>3. PoolInv' BY <1>22, <2>s, <1>c DEF Settle, SettleDone, EraseOne
  <2>4. ASSUME NEW g \in Fibers PROVE FiberInv(g)'
    <3>1. /\ RunInv(g) /\ OpInv(g) /\ EventInv(g) /\ JobInv(g) /\ KeyInv("fd", g)
          /\ pc \in {"run", "ret"} => cur \in Fibers /\ RunInv(cur)
      BY <1>i, <1>f DEF CurInv
    <3>2. RunInv(g)'
      BY <1>22, <2>s, <1>i, <3>1, FiberAssumption
         DEF Settle, SettleDone, EraseOne, Suspended, TypeOK, RunInv, CurInv, ThreadInv
    <3>3. OpInv(g)'
      BY <1>22, <2>s, <1>i, <3>1, FiberAssumption
         DEF Settle, SettleDone, EraseOne, Suspended, TypeOK, RunInv, OpInv, CurInv
    <3>4. EventInv(g)'
      BY <1>22, <2>s, <1>i, <3>1, FiberAssumption
         DEF Settle, SettleDone, EraseOne, Suspended, TypeOK, EventInv, RunInv,
             ThreadInv, KeyInv, Keys
    <3>5. JobInv(g)'
      BY <1>22, <2>s, <1>i, <3>1, FiberAssumption
         DEF Settle, SettleDone, EraseOne, Suspended, TypeOK, RunInv, JobInv, OpInv,
             Queued, Offloaded
    <3>6. ASSUME NEW kind \in {"fd", "timer"} PROVE KeyInv(kind, g)'
      <4>1. KeyInv(kind, g) BY <1>f
      <4> QED BY <4>1, <1>22, <2>s, <1>i, <3>1, FiberAssumption
          DEF Settle, SettleDone, EraseOne, Suspended, TypeOK, RunInv, KeyInv, EventInv,
              ThreadInv, Keys
    <3> QED BY <3>2, <3>3, <3>4, <3>5, <3>6, <1>22, <2>s DEF FiberInv
  <2> QED BY <2>1, <2>2, <2>3, <2>4 DEF WakeInv
<1>23. CASE Settle /\ SettleWoken
  <2>s. /\ cur \in Fibers /\ RunInv(cur) /\ OpInv(cur) /\ JobInv(cur)
        /\ waiting[cur] = IF Suspended(cur) THEN 1 ELSE 0
        /\ op[cur] = "offload"
    BY <1>23, <1>i, <1>f DEF Settle, CurInv, ReadyOnce, SettleWoken, OpInv, Suspended
  <2>1. ThreadInv'
    BY <1>23, <2>s, <1>i, FiberAssumption
       DEF Settle, SettleWoken, EraseOne, ThreadInv, CurInv, ResumingInv, TypeOK
  <2>2. ReadyOnce'
    <3>1. waiting' = [waiting EXCEPT ![cur] = 0]
      BY <1>23, <2>s, <1>i DEF Settle, SettleWoken, EraseOne, RunInv, Suspended, TypeOK
    <3>2. sched_state[cur] # "READY" BY <1>23, <2>s DEF RunInv
    <3> QED BY <1>23, <2>s, <3>1, <3>2, ReadyAppend DEF Settle, SettleWoken, EraseOne
  <2>3. PoolInv' BY <1>23, <2>s, <1>c DEF Settle, SettleWoken, EraseOne
  <2>4. ASSUME NEW g \in Fibers PROVE FiberInv(g)'
    <3>1. /\ RunInv(g) /\ OpInv(g) /\ EventInv(g) /\ JobInv(g) /\ KeyInv("fd", g)
          /\ pc \in {"run", "ret"} => cur \in Fibers /\ RunInv(cur)
      BY <1>i, <1>f DEF CurInv
    <3>2. RunInv(g)'
      BY <1>23, <2>s, <1>i, <3>1, FiberAssumption
         DEF Settle, SettleWoken, EraseOne, Suspended, TypeOK, RunInv, CurInv, ThreadInv
    <3>3. OpInv(g)'
      BY <1>23, <2>s, <1>i, <3>1, FiberAssumption
         DEF Settle, SettleWoken, EraseOne, Suspended, TypeOK, RunInv, OpInv, CurInv
    <3>4. EventInv(g)'
      BY <1>23, <2>s, <1>i, <3>1, FiberAssumption
         DEF Settle, SettleWoken, EraseOne, Suspended, TypeOK, EventInv, RunInv,
             ThreadInv, KeyInv, Keys
    <3>5. JobInv(g)'
      BY <1>23, <2>s, <1>i, <3>1, FiberAssumption
         DEF Settle, SettleWoken, EraseOne, Suspended, TypeOK, RunInv, JobInv, OpInv,
             Queued, Offloaded
    <3>6. ASSUME NEW kind \in {"fd", "timer"} PROVE KeyInv(kind, g)'
      <4>1. KeyInv(kind, g) BY <1>f
      <4> QED BY <4>1, <1>23, <2>s, <1>i, <3>1, FiberAssumption
          DEF Settle, SettleWoken, EraseOne, Suspended, TypeOK, RunInv, KeyInv,
              EventInv, ThreadInv, Keys
    <3> QED BY <3>2, <3>3, <3>4, <3>5, <3>6, <1>23, <2>s DEF FiberInv
  <2> QED BY <2>1, <2>2, <2>3, <2>4 DEF WakeInv
<1>24. CASE Settle /\ SettleWaiting
  <2>s. /\ cur \in Fibers /\ RunInv(cur) /\ OpInv(cur) /\ JobInv(cur)
        /\ waiting[cur] = IF Suspended(cur) THEN 1 ELSE 0
    BY <1>24, <1>i, <1>f DEF Settle, CurInv, ReadyOnce
  <2>1. ThreadInv'
    BY <1>24, <2>s, <1>i, FiberAssumption
       DEF Settle, SettleWaiting, ThreadInv, CurInv, ResumingInv, TypeOK
  <2>2. ReadyOnce'
    BY <1>24, <2>s, <1>i
       DEF Settle, SettleWaiting, ReadyOnce, InReady, Suspended, RunInv, TypeOK
  <2>3. PoolInv' BY <1>24, <2>s, <1>c DEF Settle, SettleWaiting
  <2>4. ASSUME NEW g \in Fibers PROVE FiberInv(g)'
    <3>1. /\ RunInv(g) /\ OpInv(g) /\ EventInv(g) /\ JobInv(g) /\ KeyInv("fd", g)
          /\ pc \in {"run", "ret"} => cur \in Fibers /\ RunInv(cur)
      BY <1>i, <1>f DEF CurInv
    <3>2. RunInv(g)'
      BY <1>24, <2>s, <1>i, <3>1, FiberAssumption
         DEF Settle, SettleWaiting, Suspended, TypeOK, RunInv, CurInv, ThreadInv
    <3>3. OpInv(g)'
      BY <1>24, <2>s, <1>i, <3>1, FiberAssumption
         DEF Settle, SettleWaiting, Suspended, TypeOK, RunInv, OpInv, CurInv
    <3>4. EventInv(g)'
      BY <1>24, <2>s, <1>i, <3>1, FiberAssumption
         DEF Settle, SettleWaiting, Suspended, TypeOK, EventInv, RunInv, ThreadInv,
             KeyInv, Keys
    <3>5. JobInv(g)'
      BY <1>24, <2>s, <1>i, <3>1, FiberAssumption
         DEF Settle, SettleWaiting, Suspended, TypeOK, RunInv, JobInv, OpInv, Queued,
             Offloaded
    <3>6. ASSUME NEW kind \in {"fd", "timer"} PROVE KeyInv(kind, g)'
      <4>1. KeyInv(kind, g) BY <1>f
      <4> QED BY <4>1, <1>24, <2>s, <1>i, <3>1, FiberAssumption
          DEF Settle, SettleWaiting, Suspended, TypeOK, RunInv, KeyInv, EventInv,
              ThreadInv, Keys
    <3> QED BY <3>2, <3>3, <3>4, <3>5, <3>6, <1>24, <2>s DEF FiberInv
  <2> QED BY <2>1, <2>2, <2>3, <2>4 DEF WakeInv
<1>25. CASE Settle /\ SettleYield
  <2>s. /\ cur \in Fibers /\ RunInv(cur) /\ OpInv(cur) /\ JobInv(cur)
        /\ waiting[cur] = IF Suspended(cur) THEN 1 ELSE 0
    BY <1>25, <1>i, <1>f DEF Settle, CurInv, ReadyOnce
  <2>1. ThreadInv'
    BY <1>25, <2>s, <1>i, FiberAssumption
       DEF Settle, SettleYield, ThreadInv, CurInv, ResumingInv, TypeOK
  <2>2. ReadyOnce'
    <3>1. waiting' = [waiting EXCEPT ![cur] = 0]
      BY <1>25, <2>s, <1>i DEF Settle, SettleYield, RunInv, Suspended, TypeOK
    <3>2. sched_state[cur] # "READY" BY <1>25, <2>s DEF RunInv
    <3> QED BY <1>25, <2>s, <3>1, <3>2, ReadyAppend DEF Settle, SettleYield
  <2>3. PoolInv' BY <1>25, <2>s, <1>c DEF Settle, SettleYield
  <2>4. ASSUME NEW g \in Fibers PROVE FiberInv(g)'
    <3>1. /\ RunInv(g) /\ OpInv(g) /\ EventInv(g) /\ JobInv(g) /\ KeyInv("fd", g)
          /\ pc \in {"run", "ret"} => cur \in Fibers /\ RunInv(cur)
      BY <1>i, <1>f DEF CurInv
    <3>2. RunInv(g)'
      BY <1>25, <2>s, <1>i, <3>1, FiberAssumption
         DEF Settle, SettleYield, Suspended, TypeOK, RunInv, CurInv, ThreadInv
    <3>3. OpInv(g)'
      BY <1>25, <2>s, <1>i, <3>1, FiberAssumption
         DEF Settle, SettleYield, Suspended, TypeOK, RunInv, OpInv, CurInv
    <3>4. EventInv(g)'
      BY <1>25, <2>s, <1>i, <3>1, FiberAssumption
         DEF Settle, SettleYield, Suspended, TypeOK, EventInv, RunInv, ThreadInv,
             KeyInv, Keys
    <3>5. JobInv(g)'
      BY <1>25, <2>s, <1>i, <3>1, FiberAssumption
         DEF Settle, SettleYield, Suspended, TypeOK, RunInv, JobInv, OpInv, Queued,
             Offloaded
    <3>6. ASSUME NEW kind \in {"fd", "timer"} PROVE KeyInv(kind, g)'
      <4>1. KeyInv(kind, g) BY <1>f
      <4> QED BY <4>1, <1>25, <2>s, <1>i, <3>1, FiberAssumption
          DEF Settle, SettleYield, Suspended, TypeOK, RunInv, KeyInv, EventInv,
              ThreadInv, Keys
    <3> QED BY <3>2, <3>3, <3>4, <3>5, <3>6, <1>25, <2>s DEF FiberInv
  <2> QED BY <2>1, <2>2, <2>3, <2>4 DEF WakeInv
<1>26. CASE ResumeEvent
  <2>s. /\ resuming \in Fibers /\ EventInv(resuming) /\ RunInv(resuming) /\ OpInv(resuming)
        /\ sched_state[resuming] = "WAITING" /\ op[resuming] = "fd"
        /\ sched_state' = [sched_state EXCEPT ![resuming] = "READY"]
        /\ pending_resume' = pending_resume /\ ReadyOnce'
    <3>1. resuming \in Fibers BY <1>26, <1>i DEF ResumeEvent, ResumingInv
    <3>2. EventInv(resuming) /\ RunInv(resuming) /\ OpInv(resuming) BY <3>1, <1>f
    <3> QED BY <1>26, <3>1, <3>2, ResumeSettled DEF ResumeEvent, EventInv
  <2>1. ThreadInv'
    BY <1>26, <2>s, <1>i, FiberAssumption
       DEF ResumeEvent, ThreadInv, CurInv, ResumingInv, TypeOK
  <2>2. ReadyOnce' BY <2>s
  <2>3. PoolInv' BY <1>26, <2>s, <1>c DEF ResumeEvent
  <2>4. ASSUME NEW g \in Fibers PROVE FiberInv(g)'
    <3>1. /\ RunInv(g) /\ OpInv(g) /\ EventInv(g) /\ JobInv(g) /\ KeyInv("fd", g)
          /\ pc \in {"run", "ret"} => cur \in Fibers /\ RunInv(cur)
      BY <1>i, <1>f DEF CurInv
    <3>2. RunInv(g)'
      BY <1>26, <2>s, <1>i, <3>1, FiberAssumption
         DEF ResumeEvent, Suspended, TypeOK, RunInv, CurInv, ThreadInv
    <3>3. OpInv(g)'
      BY <1>26, <2>s, <1>i, <3>1, FiberAssumption
         DEF ResumeEvent, Suspended, TypeOK, RunInv, OpInv, CurInv, EventInv
    <3>4. EventInv(g)'
      BY <1>26, <2>s, <1>i, <3>1, FiberAssumption
         DEF ResumeEvent, Suspended, TypeOK, EventInv, RunInv, ThreadInv, KeyInv, Keys
    <3>5. JobInv(g)'
      BY <1>26, <2>s, <1>i, <3>1, FiberAssumption
         DEF ResumeEvent, Suspended, TypeOK, RunInv, JobInv, OpInv, Queued, Offloaded
    <3>6. ASSUME NEW kind \in {"fd", "timer"} PROVE KeyInv(kind, g)'
      <4>1. KeyInv(kind, g) BY <1>f
      <4> QED BY <4>1, <1>26, <2>s, <1>i, <3>1, FiberAssumption
          DEF ResumeEvent, Suspended, TypeOK, RunInv, KeyInv, EventInv, ThreadInv, Keys
    <3> QED BY <3>2, <3>3, <3>4, <3>5, <3>6, <1>26, <2>s DEF FiberInv
  <2> QED BY <2>1, <2>2, <2>3, <2>4 DEF WakeInv
<1>27. ASSUME NEW c \in {"fd", "timer"}, NEW f \in Fibers, Expire(<<c, f>>) PROVE WakeInv'
  <2>s. /\ KeyInv(c, f) /\ RunInv(f) /\ OpInv(f) /\ <<c, f>>[1] = c /\ <<c, f>>[2] = f
        /\ sched_state[f] = "WAITING" /\ op[f] = c
        /\ sched_state' = [sched_state EXCEPT ![f] = "READY"]
        /\ pending_resume' = pending_resume /\ ReadyOnce'
    <3>1. KeyInv(c, f) /\ RunInv(f) /\ OpInv(f) BY <1>f
    <3>2. ResumeFiber(f) /\ <<c, f>> \in expired BY <1>27 DEF Expire
    <3> QED BY <3>1, <3>2, ResumeSettled DEF KeyInv
  <2>1. ThreadInv'
    BY <1>27, <2>s, <1>i, FiberAssumption
       DEF Expire, ThreadInv, CurInv, ResumingInv, TypeOK
  <2>2. ReadyOnce' BY <2>s
  <2>3. PoolInv' BY <1>27, <2>s, <1>c DEF Expire
  <2>4. ASSUME NEW g \in Fibers PROVE FiberInv(g)'
    <3>1. /\ RunInv(g) /\ OpInv(g) /\ EventInv(g) /\ JobInv(g) /\ KeyInv("fd", g)
          /\ pc \in {"run", "ret"} => cur \in Fibers /\ RunInv(cur)
      BY <1>i, <1>f DEF CurInv
    <3>2. RunInv(g)'
      BY <1>27, <2>s, <1>i, <3>1, FiberAssumption
         DEF Expire, Suspended, TypeOK, RunInv, CurInv, ThreadInv
    <3>3. OpInv(g)'
      BY <1>27, <2>s, <1>i, <3>1, FiberAssumption
         DEF Expire, Suspended, TypeOK, RunInv, OpInv, CurInv
    <3>4. EventInv(g)'
      BY <1>27, <2>s, <1>i, <3>1, FiberAssumption
         DEF Expire, Suspended, TypeOK, EventInv, RunInv, ThreadInv, KeyInv, Keys
    <3>5. JobInv(g)'
      BY <1>27, <2>s, <1>i, <3>1, FiberAssumption
         DEF Expire, Suspended, TypeOK, RunInv, JobInv, OpInv, Queued, Offloaded
    <3>6. ASSUME NEW kind \in {"fd", "timer"} PROVE KeyInv(kind, g)'
      <4>1. KeyInv(kind, g) BY <1>f
      <4> QED BY <4>1, <1>27, <2>s, <1>i, <3>1, FiberAssumption
          DEF Expire, Suspended, TypeOK, RunInv, KeyInv, EventInv, ThreadInv, Keys
    <3> QED BY <3>2, <3>3, <3>4, <3>5, <3>6, <1>27, <2>s DEF FiberInv
  <2> QED BY <2>1, <2>2, <2>3, <2>4 DEF WakeInv
<1>28. CASE OffloadSuspend
  <2>s. /\ cur \in Fibers /\ RunInv(cur) /\ OpInv(cur) /\ JobInv(cur) /\ EventInv(cur)
        /\ KeyInv("fd", cur) /\ KeyInv("timer", cur) /\ sched_state[cur] = "RUNNING"
        /\ waiting[cur] = 0
    BY <1>28, <1>i, <1>f
       DEF OffloadSuspend, SuspendCurrent, CurInv, ReadyOnce, RunInv, Suspended
  <2>1. ThreadInv'
    BY <1>28, <2>s, <1>i, FiberAssumption
       DEF OffloadSuspend, SuspendCurrent, ThreadInv, CurInv, ResumingInv, TypeOK
  <2>2. ReadyOnce'
    BY <1>28, <2>s, <1>i
       DEF OffloadSuspend, SuspendCurrent, ReadyOnce, InReady, Suspended, TypeOK
  <2>3. PoolInv' BY <1>28, <2>s, <1>c DEF OffloadSuspend, SuspendCurrent
  <2>4. ASSUME NEW g \in Fibers PROVE FiberInv(g)'
    <3>1. /\ RunInv(g) /\ OpInv(g) /\ EventInv(g) /\ JobInv(g) /\ KeyInv("fd", g)
          /\ pc \in {"run", "ret"} => cur \in Fibers /\ RunInv(cur)
      BY <1>i, <1>f DEF CurInv
    <3>2. RunInv(g)'
      BY <1>28, <2>s, <1>i, <3>1, FiberAssumption
         DEF OffloadSuspend, SuspendCurrent, Suspended, TypeOK, RunInv, CurInv,
             ThreadInv
    <3>3. OpInv(g)'
      BY <1>28, <2>s, <1>i, <3>1, FiberAssumption
         DEF OffloadSuspend, SuspendCurrent, Suspended, TypeOK, RunInv, OpInv, CurInv
    <3>4. EventInv(g)'
      BY <1>28, <2>s, <1>i, <3>1, FiberAssumption
         DEF OffloadSuspend, SuspendCurrent, Suspended, TypeOK, EventInv, RunInv,
             ThreadInv, KeyInv, Keys
    <3>5. JobInv(g)'
      BY <1>28, <2>s, <1>i, <3>1, FiberAssumption
         DEF OffloadSuspend, SuspendCurrent, Suspended, TypeOK, RunInv, JobInv, OpInv,
             Queued, Offloaded
    <3>6. ASSUME NEW kind \in {"fd", "timer"} PROVE KeyInv(kind, g)'
      <4>1. KeyInv(kind, g) BY <1>f
      <4> QED BY <4>1, <1>28, <2>s, <1>i, <3>1, FiberAssumption
          DEF OffloadSuspend, SuspendCurrent, Suspended, TypeOK, RunInv, KeyInv,
              EventInv, ThreadInv, Keys
    <3> QED BY <3>2, <3>3, <3>4, <3>5, <3>6, <1>28, <2>s DEF FiberInv
  <2> QED BY <2>1, <2>2, <2>3, <2>4 DEF WakeInv
<1>29. ASSUME NEW c \in {"fd", "timer"}, NEW tmo \in BOOLEAN, WaitReadableTmo(c, tmo)
      PROVE  WakeInv'
  <2>s. /\ cur \in Fibers /\ RunInv(cur) /\ OpInv(cur) /\ JobInv(cur) /\ EventInv(cur)
        /\ KeyInv("fd", cur) /\ KeyInv("timer", cur) /\ sched_state[cur] = "RUNNING"
        /\ waiting[cur] = 0
    BY <1>29, <1>i, <1>f
       DEF WaitReadableTmo, Computing, CurInv, ReadyOnce, RunInv, Suspended
  <2>1. ThreadInv'
    BY <1>29, <2>s, <1>i, FiberAssumption
       DEF WaitReadableTmo, Computing, ThreadInv, CurInv, ResumingInv, TypeOK
  <2>2. ReadyOnce'
    BY <1>29, <2>s, <1>i
       DEF WaitReadableTmo, Computing, ReadyOnce, InReady, Suspended, TypeOK
  <2>3. PoolInv' BY <1>29, <2>s, <1>c DEF WaitReadableTmo, Computing
  <2>4. ASSUME NEW g \in Fibers PROVE FiberInv(g)'
    <3>1. /\ RunInv(g) /\ OpInv(g) /\ EventInv(g) /\ JobInv(g) /\ KeyInv("fd", g)
          /\ pc \in {"run", "ret"} => cur \in Fibers /\ RunInv(cur)
      BY <1>i, <1>f DEF CurInv
    <3>2. RunInv(g)'
      BY <1>29, <2>s, <1>i, <3>1, FiberAssumption
         DEF WaitReadableTmo, Computing, Suspended, TypeOK, RunInv, CurInv, ThreadInv
    <3>3. OpInv(g)'
      BY <1>29, <2>s, <1>i, <3>1, FiberAssumption
         DEF WaitReadableTmo, Computing, Suspended, TypeOK, RunInv, OpInv, CurInv
    <3>4. EventInv(g)'
      BY <1>29, <2>s, <1>i, <3>1, FiberAssumption
         DEF WaitReadableTmo, Computing, Suspended, TypeOK, EventInv, RunInv, ThreadInv,
             KeyInv, Keys
    <3>5. JobInv(g)'
      BY <1>29, <2>s, <1>i, <3>1, FiberAssumption
         DEF WaitReadableTmo, Computing, Suspended, TypeOK, RunInv, JobInv, OpInv,
             Queued, Offloaded
    <3>6. ASSUME NEW kind \in {"fd", "timer"} PROVE KeyInv(kind, g)'
      <4>1. KeyInv(kind, g) BY <1>f
      <4> QED BY <4>1, <1>29, <2>s, <1>i, <3>1, FiberAssumption
          DEF WaitReadableTmo, Computing, Suspended, TypeOK, RunInv, KeyInv, EventInv,
              ThreadInv, Keys
    <3> QED BY <3>2, <3>3, <3>4, <3>5, <3>6, <1>29, <2>s DEF FiberInv
  <2> QED BY <2>1, <2>2, <2>3, <2>4 DEF WakeInv
<1>30. CASE OffloadPost
  <2>s. /\ cur \in Fibers /\ RunInv(cur) /\ OpInv(cur) /\ JobInv(cur) /\ EventInv(cur)
        /\ sched_state[cur] = "RUNNING" /\ ~Queued(cur) /\ ~Offloaded(cur)
        /\ ~pending_resume[cur]
    BY <1>30, <1>i, <1>f DEF OffloadPost, Computing, CurInv, RunInv, JobInv, OpInv
  <2>j. /\ NoRepeat(jobs') /\ job' = job
        /\ \A g \in Fibers : Occurs(g, jobs') <=> Queued(g) \/ g = cur
    <3>1. jobs \in Seq(Fibers) /\ NoRepeat(jobs) /\ \A g : Occurs(g, jobs) <=> Queued(g)
      BY <1>i DEF TypeOK, PoolInv, NoRepeat, Occurs, Queued
    <3>2. jobs' = Append(jobs, cur) /\ job' = job
      BY <1>30 DEF OffloadPost
    <3>3. NoRepeat(jobs') /\ \A g : Occurs(g, jobs') <=> Occurs(g, jobs) \/ g = cur
      BY <2>s, <3>1, <3>2, AppendOccurs
    <3> QED BY <3>1, <3>2, <3>3
  <2>1. ThreadInv' BY <1>30, <2>s, <1>a DEF OffloadPost, Computing
  <2>2. ReadyOnce' BY <1>30, <2>s, <1>b DEF OffloadPost, Computing
  <2>3. PoolInv'
    BY <1>30, <1>i, <2>s, <2>j DEF OffloadPost, PoolInv, NoRepeat, Offloaded, TypeOK
  <2>4. ASSUME NEW g \in Fibers PROVE FiberInv(g)'
    <3>1. /\ RunInv(g) /\ OpInv(g) /\ EventInv(g) /\ JobInv(g) /\ KeyInv("fd", g)
          /\ pc \in {"run", "ret"} => cur \in Fibers /\ RunInv(cur)
      BY <1>i, <1>f DEF CurInv
    <3>2. RunInv(g)'
      BY <1>30, <2>s, <1>i, <3>1, FiberAssumption
         DEF OffloadPost, Computing, Suspended, TypeOK, RunInv, CurInv, ThreadInv
    <3>3. OpInv(g)'
      BY <1>30, <2>s, <1>i, <3>1, FiberAssumption
         DEF OffloadPost, Computing, Suspended, TypeOK, RunInv, OpInv, CurInv
    <3>4. EventInv(g)'
      BY <1>30, <2>s, <1>i, <3>1, FiberAssumption
         DEF OffloadPost, Computing, Suspended, TypeOK, EventInv, RunInv, ThreadInv,
             KeyInv, Keys
    <3>5. JobInv(g)'
      <4>1. /\ Queued(g)' <=> Queued(g) \/ g = cur
            /\ Offloaded(g)' <=> Offloaded(g)
        BY <2>j DEF Occurs, Queued, Offloaded
      <4>2. CASE g = cur
        BY <1>30, <2>s, <4>1, <4>2, <1>i DEF OffloadPost, JobInv, Suspended, TypeOK
      <4>3. CASE g # cur
        BY <1>30, <2>s, <3>1, <4>1, <4>3, <1>i
           DEF OffloadPost, JobInv, Suspended, TypeOK
      <4> QED BY <4>2, <4>3
    <3>6. ASSUME NEW kind \in {"fd", "timer"} PROVE KeyInv(kind, g)'
      <4>1. KeyInv(kind, g) BY <1>f
      <4> QED BY <4>1, <1>30, <2>s, <1>i, <3>1, FiberAssumption
          DEF OffloadPost, Computing, Suspended, TypeOK, RunInv, KeyInv, EventInv,
              ThreadInv, Keys
    <3> QED BY <3>2, <3>3, <3>4, <3>5, <3>6, <1>30, <2>s DEF FiberInv
  <2> QED BY <2>1, <2>2, <2>3, <2>4 DEF WakeInv
<1>31. CASE OffloadTest
  <2>s. /\ cur \in Fibers /\ RunInv(cur) /\ OpInv(cur) /\ JobInv(cur) /\ EventInv(cur)
        /\ op[cur] = "offload" /\ sched_state[cur] = "RUNNING"
        /\ pc = "run" /\ job_done[cur]
        /\ ~Queued(cur) /\ ~Offloaded(cur) /\ ~pending_resume[cur]
        /\ op' = [op EXCEPT ![cur] = "compute"]
        /\ UNCHANGED <<schedVars, threadVars, fiberVars, result, readable, job_done,
                       poolVars>>
    <3>1. /\ cur \in Fibers /\ RunInv(cur) /\ OpInv(cur) /\ JobInv(cur) /\ EventInv(cur)
          /\ op[cur] = "offload" /\ sched_state[cur] = "RUNNING" /\ pc = "run"
      BY <1>31, <1>i, <1>f DEF OffloadTest, CurInv, RunInv
    <3>2. job_done[cur] /\ ~Queued(cur) /\ ~Offloaded(cur) /\ ~pending_resume[cur]
      BY <3>1 DEF OpInv, JobInv, Suspended
    <3>3. /\ op' = [op EXCEPT ![cur] = "compute"]
          /\ UNCHANGED <<schedVars, threadVars, fiberVars, result, readable, job_done,
                         poolVars>>
      BY <1>31, <3>2, Zenon DEF OffloadTest
    <3> QED BY <3>1, <3>2, <3>3
  <2>1. ThreadInv' BY <1>31, <2>s, <1>a DEF SuspendCurrent
  <2>2. ReadyOnce' BY <1>31, <2>s, <1>b DEF SuspendCurrent
  <2>3. PoolInv' BY <1>31, <2>s, <1>c DEF SuspendCurrent
  <2>4. ASSUME NEW g \in Fibers PROVE FiberInv(g)'
    <3>1. /\ RunInv(g) /\ OpInv(g) /\ EventInv(g) /\ JobInv(g) /\ KeyInv("fd", g)
          /\ pc \in {"run", "ret"} => cur \in Fibers /\ RunInv(cur)
      BY <1>i, <1>f DEF CurInv
    <3>2. RunInv(g)'
      BY <1>31, <2>s, <1>i, <3>1, FiberAssumption
         DEF SuspendCurrent, Suspended, TypeOK, RunInv, CurInv, ThreadInv
    <3>3. OpInv(g)'
      BY <1>31, <2>s, <1>i, <3>1, FiberAssumption
         DEF SuspendCurrent, Suspended, TypeOK, RunInv, OpInv, CurInv
    <3>4. EventInv(g)'
      BY <1>31, <2>s, <1>i, <3>1, FiberAssumption
         DEF SuspendCurrent, Suspended, TypeOK, EventInv, RunInv, ThreadInv, KeyInv,
             Keys
    <3>5. JobInv(g)'
      BY <1>31, <2>s, <1>i, <3>1, FiberAssumption
         DEF SuspendCurrent, Suspended, TypeOK, RunInv, JobInv, OpInv, Queued, Offloaded
    <3>6. ASSUME NEW kind \in {"fd", "timer"} PROVE KeyInv(kind, g)'
      <4>1. KeyInv(kind, g) BY <1>f
      <4> QED BY <4>1, <1>31, <2>s, <1>i, <3>1, FiberAssumption
          DEF SuspendCurrent, Suspended, TypeOK, RunInv, KeyInv, EventInv, ThreadInv,
              Keys
    <3> QED BY <3>2, <3>3, <3>4, <3>5, <3>6, <1>31, <2>s DEF FiberInv
  <2> QED BY <2>1, <2>2, <2>3, <2>4 DEF WakeInv
<1>32. ASSUME NEW w \in Workers, OffloadTake(w) PROVE WakeInv'
  <2>j. /\ NoRepeat(jobs') /\ Head(jobs) \in Fibers /\ Queued(Head(jobs))
        /\ ~Offloaded(Head(jobs))
        /\ \A g \in Fibers :
              /\ Occurs(g, jobs') <=> Queued(g) /\ g # Head(jobs)
              /\ (\E v \in Workers : job'[v] = g) <=> Offloaded(g) \/ g = Head(jobs)
    <3>1. /\ jobs \in Seq(Fibers) /\ jobs # <<>> /\ NoRepeat(jobs)
          /\ \A g : Occurs(g, jobs) <=> Queued(g)
      BY <1>32, <1>i DEF OffloadTake, TypeOK, PoolInv, NoRepeat, Occurs, Queued
    <3>2. jobs' = Tail(jobs) /\ job' = [job EXCEPT ![w] = Head(jobs)] /\ job[w] = NoFiber
      BY <1>32 DEF OffloadTake
    <3>3. Head(jobs) \in Fibers BY <3>1, HeadTailProperties
    <3>4. /\ NoRepeat(jobs') /\ Occurs(Head(jobs), jobs)
          /\ \A g : Occurs(g, jobs') <=> Occurs(g, jobs) /\ g # Head(jobs)
      BY <3>1, <3>2, TailOccurs
    <3>5. ASSUME NEW g \in Fibers
          PROVE  (\E v \in Workers : job'[v] = g) <=> Offloaded(g) \/ g = Head(jobs)
      BY <3>2, <3>3, <1>i, FiberAssumption DEF Offloaded, TypeOK
    <3>6. ~Offloaded(Head(jobs))
      BY <3>1, <3>3, <3>4, <1>f DEF JobInv
    <3> QED BY <3>1, <3>3, <3>4, <3>5, <3>6
  <2>1. ThreadInv' BY <1>32, <2>j, <1>a DEF OffloadTake
  <2>2. ReadyOnce' BY <1>32, <2>j, <1>b DEF OffloadTake
  <2>3. PoolInv'
    <3>1. \A v \in Workers : job[v] # Head(jobs)
      BY <2>j DEF Offloaded
    <3> QED BY <1>32, <1>i, <2>j, <3>1 DEF OffloadTake, PoolInv, NoRepeat, TypeOK
  <2>4. ASSUME NEW g \in Fibers PROVE FiberInv(g)'
    <3>1. /\ RunInv(g) /\ OpInv(g) /\ EventInv(g) /\ JobInv(g) /\ KeyInv("fd", g)
          /\ pc \in {"run", "ret"} => cur \in Fibers /\ RunInv(cur)
      BY <1>i, <1>f DEF CurInv
    <3>2. JobInv(g)'
      <4>1. /\ Queued(g)' <=> Queued(g) /\ g # Head(jobs)
            /\ Offloaded(g)' <=> Offloaded(g) \/ g = Head(jobs)
            /\ g = Head(jobs) => Queued(g) /\ ~Offloaded(g)
        BY <2>j DEF Occurs, Queued, Offloaded
      <4> QED BY <1>32, <3>1, <4>1 DEF OffloadTake, JobInv, Suspended
    <3> QED BY <3>2, <1>d, <1>e, <1>g, <1>k, <1>32, <2>j DEF OffloadTake, FiberInv
  <2> QED BY <2>1, <2>2, <2>3, <2>4 DEF WakeInv
<1>33. ASSUME NEW w \in Workers, OffloadResume(w) PROVE WakeInv'
  <2>s. /\ job[w] \in Fibers /\ Offloaded(job[w]) /\ job_done[job[w]]
        /\ RunInv(job[w]) /\ OpInv(job[w]) /\ JobInv(job[w])
        /\ \/ /\ sched_state[job[w]] = "WAITING"
              /\ op[job[w]] = "offload"
              /\ sched_state' = [sched_state EXCEPT ![job[w]] = "READY"]
              /\ pending_resume' = pending_resume
           \/ /\ sched_state[job[w]] \in {"RUNNING", "SUSPENDING"}
              /\ op[job[w]] = "offload" => sched_state[job[w]] = "SUSPENDING"
              /\ sched_state' = sched_state
              /\ pending_resume' = [pending_resume EXCEPT ![job[w]] = TRUE]
        /\ ReadyOnce'
    <3>1. job[w] \in Fibers /\ Offloaded(job[w]) /\ job_done[job[w]]
      BY <1>33, <1>i DEF OffloadResume, TypeOK, Offloaded, PoolInv
    <3>2. RunInv(job[w]) /\ OpInv(job[w]) /\ JobInv(job[w]) /\ ResumeFiber(job[w])
      BY <3>1, <1>33, <1>f DEF OffloadResume
    <3>3. /\ op[job[w]] \in {"posted", "offload"}
          /\ op[job[w]] = "offload" => sched_state[job[w]] \in {"WAITING", "SUSPENDING"}
          /\ op[job[w]] = "posted" => sched_state[job[w]] = "RUNNING"
      BY <3>1, <3>2 DEF JobInv, OpInv, Suspended
    <3>4. CASE sched_state[job[w]] = "WAITING"
      BY <3>1, <3>2, <3>3, <3>4, ResumeSettled
    <3>5. CASE sched_state[job[w]] # "WAITING"
      BY <3>1, <3>2, <3>3, <3>5, ResumeUnsettled
    <3> QED BY <3>4, <3>5
  <2>j. /\ jobs' = jobs
        /\ \A g \in Fibers :
              (\E v \in Workers : job'[v] = g) <=> Offloaded(g) /\ g # job[w]
    <3>1. jobs' = jobs /\ job' = [job EXCEPT ![w] = NoFiber]
      BY <1>33 DEF OffloadResume
    <3>2. ASSUME NEW g \in Fibers
          PROVE  (\E v \in Workers : job'[v] = g) <=> Offloaded(g) /\ g # job[w]
      BY <3>1, <1>i, FiberAssumption DEF Offloaded, TypeOK, PoolInv
    <3> QED BY <3>1, <3>2
  <2>1. ThreadInv' BY <1>33, <2>s, <2>j, <1>a DEF OffloadResume
  <2>2. ReadyOnce' BY <2>s
  <2>3. PoolInv'
    BY <1>33, <1>i, FiberAssumption DEF OffloadResume, PoolInv, TypeOK
  <2>4. ASSUME NEW g \in Fibers PROVE FiberInv(g)'
    <3>1. /\ RunInv(g) /\ OpInv(g) /\ EventInv(g) /\ JobInv(g) /\ KeyInv("fd", g)
          /\ pc \in {"run", "ret"} => cur \in Fibers /\ RunInv(cur)
      BY <1>i, <1>f DEF CurInv
    <3>2. RunInv(g)'
      BY <1>33, <2>s, <2>j, <1>i, <3>1, FiberAssumption
         DEF OffloadResume, Suspended, TypeOK, RunInv, CurInv, ThreadInv
    <3>3. OpInv(g)'
      <4>1. CASE g = job[w]
        <5>1. op[g] \in {"posted", "offload"} BY <2>s, <4>1 DEF JobInv
        <5>2. CASE sched_state' = [sched_state EXCEPT ![job[w]] = "READY"]
                   /\ pending_resume' = pending_resume
          BY <1>33, <2>s, <4>1, <5>1, <5>2, <1>i
             DEF OffloadResume, OpInv, Suspended, TypeOK
        <5>3. CASE sched_state' = sched_state
                   /\ pending_resume' = [pending_resume EXCEPT ![job[w]] = TRUE]
          BY <1>33, <2>s, <4>1, <5>1, <5>3, <1>i
             DEF OffloadResume, OpInv, Suspended, TypeOK
        <5> QED BY <2>s, <5>2, <5>3
      <4>2. CASE g # job[w]
        <5>1. sched_state'[g] = sched_state[g] /\ pending_resume'[g] = pending_resume[g]
          BY <2>s, <4>2, <1>i DEF TypeOK
        <5> QED BY <1>33, <3>1, <4>2, <5>1 DEF OffloadResume, OpInv, Suspended
      <4> QED BY <4>1, <4>2
    <3>4. EventInv(g)'
      BY <1>33, <2>s, <2>j, <1>i, <3>1, FiberAssumption
         DEF OffloadResume, Suspended, TypeOK, EventInv, RunInv, ThreadInv, KeyInv, Keys
    <3>5. JobInv(g)'
      <4>1. /\ Queued(g)' <=> Queued(g)
            /\ Offloaded(g)' <=> Offloaded(g) /\ g # job[w]
        BY <2>j DEF Queued, Offloaded
      <4>2. CASE g = job[w]
        BY <1>33, <2>s, <4>1, <4>2, <1>i DEF OffloadResume, JobInv, Suspended, TypeOK
      <4>3. CASE g # job[w]
        <5>1. sched_state'[g] = sched_state[g] /\ pending_resume'[g] = pending_resume[g]
          BY <2>s, <4>3, <1>i DEF TypeOK
        <5> QED BY <1>33, <3>1, <4>1, <4>3, <5>1 DEF OffloadResume, JobInv, Suspended
      <4> QED BY <4>2, <4>3
    <3>6. ASSUME NEW kind \in {"fd", "timer"} PROVE KeyInv(kind, g)'
      <4>1. KeyInv(kind, g) BY <1>f
      <4> QED BY <4>1, <1>33, <2>s, <2>j, <1>i, <3>1, FiberAssumption
          DEF OffloadResume, Suspended, TypeOK, RunInv, KeyInv, EventInv, ThreadInv,
              Keys
    <3> QED BY <3>2, <3>3, <3>4, <3>5, <3>6, <1>33, <2>s, <2>j DEF FiberInv
  <2> QED BY <2>1, <2>2, <2>3, <2>4 DEF WakeInv
<1>l. CASE Loop
  <2>1. ASSUME NEW k \in Keys, Expire(k) PROVE WakeInv'
    <3>1. PICK c \in {"fd", "timer"}, f \in Fibers : k = <<c, f>> BY DEF Keys
    <3> QED BY <2>1, <3>1, <1>27
  <2> QED BY <1>l, <2>1, <1>1, <1>2, <1>3, <1>4, <1>5, <1>6, <1>7, <1>9, <1>14, <1>21,
      <1>22, <1>23, <1>24, <1>25, <1>26
      DEF Loop, Settle
<1>m. CASE Code
  BY <1>m, <1>10, <1>11, <1>12, <1>13, <1>20, <1>28, <1>29, <1>30, <1>31 DEF Code
<1>n. ASSUME NEW w \in Workers, Worker(w) PROVE WakeInv'
  BY <1>n, <1>15, <1>32, <1>33 DEF Worker
<1>o. CASE Environment
  BY <1>o, <1>16, <1>17 DEF Environment
<1> QED BY <1>l, <1>m, <1>n, <1>o, <1>8, <1>18, <1>19 DEF Next

LEMMA WakeInit == Init => WakeInv
<1> SUFFICES ASSUME Init PROVE WakeInv
  OBVIOUS
<1>1. ThreadInv BY DEF Init, ThreadInv
<1>2. ReadyOnce BY DEF Init, ReadyOnce, InReady, Suspended
<1>3. PoolInv BY DEF Init, PoolInv
<1>4. ASSUME NEW f \in Fibers PROVE FiberInv(f)
  <2>1. RunInv(f) BY FiberAssumption DEF Init, RunInv
  <2>2. OpInv(f) BY DEF Init, OpInv, Suspended
  <2>3. EventInv(f) BY FiberAssumption DEF Init, EventInv
  <2>4. JobInv(f) BY FiberAssumption DEF Init, JobInv, Queued, Offloaded, Suspended
  <2>5. ASSUME NEW kind \in {"fd", "timer"} PROVE KeyInv(kind, f)
    BY DEF Init, KeyInv, Keys, Suspended
  <2> QED BY <2>1, <2>2, <2>3, <2>4, <2>5 DEF FiberInv
<1> QED BY <1>1, <1>2, <1>3, <1>4 DEF WakeInv

LEMMA Invariance == Spec => []Inv
<1>1. Init => Inv BY TypeInit, WakeInit DEF Inv
<1>2. Inv /\ [Next]_vars => Inv' BY TypeStep, WakeStep DEF Inv
<1> QED BY <1>1, <1>2, PTL DEF Spec

-----------------------------------------------------------------------------
(***************************************************************************)
(* The safety properties.                                                  *)
(***************************************************************************)

\* Whichever thread calls resume_fiber and however early, a fiber is queued
\* for running at most once, is in waiting_ exactly while it is suspended, and
\* no suspension can miss its wake-up.
THEOREM FiberStaysInOnePlace == Spec => []FiberInOnePlace
<1>1. Inv => FiberInOnePlace
  <2> SUFFICES ASSUME Inv, NEW f \in Fibers, Suspended(f), ~pending_resume[f]
               PROVE  HasWaker(f)
    BY DEF Inv, WakeInv, FiberInOnePlace, NoStrandedFiber
  <2>1. op[f] \in {"fd", "timer", "offload"}
    BY DEF Inv, TypeOK, Ops, WakeInv, FiberInv, OpInv, Suspended
  <2>2. CASE op[f] = "offload"
    BY <2>2 DEF Inv, WakeInv, FiberInv, JobInv, HasWaker
  <2>3. CASE op[f] \in {"fd", "timer"}
    BY <2>3 DEF Inv, WakeInv, FiberInv, KeyInv, HasWaker
  <2> QED BY <2>1, <2>2, <2>3
<1> QED BY <1>1, Invariance, PTL

\* A fiber is woken by its own wait's event, deadline or job only: once it is
\* back in its own code no flag, registration, deadline, interest or job is
\* left over, and wait_readable_tmo reports data only when there is some.
THEOREM WokenByOwnWait == Spec => []OwnWakeOnly
<1>1. Inv => OwnWakeOnly
  <2> SUFFICES ASSUME Inv PROVE NoStaleWake /\ WaitHonest
    BY DEF OwnWakeOnly
  <2>1. ASSUME NEW f \in Fibers, op[f] = "compute"
        PROVE  /\ ~pending_resume[f] /\ ~io_timed_out[f] /\ ~HasWaker(f)
               /\ f \notin interest
               /\ \A kind \in {"fd", "timer"} : fd_deadline[<<kind, f>>] = "none"
    <3>1. /\ OpInv(f) /\ JobInv(f) /\ EventInv(f)
          /\ \A kind \in {"fd", "timer"} : KeyInv(kind, f)
      BY DEF Inv, WakeInv, FiberInv
    <3>2. \A kind \in {"fd", "timer"} : /\ <<kind, f>> \notin fd_to_fiber \cup expired
                                        /\ fd_deadline[<<kind, f>>] = "none"
      BY <2>1, <3>1 DEF KeyInv
    <3>3. resuming # f /\ ~Queued(f) /\ ~Offloaded(f)
      BY <2>1, <3>1 DEF EventInv, JobInv
    <3> QED BY <2>1, <3>1, <3>2, <3>3 DEF OpInv, EventInv, HasWaker
  <2>2. ASSUME NEW f \in Fibers
        PROVE  /\ result[f] = "readable" => readable[f]
               /\ op[f] \in {"fd", "timer"} /\ sched_state[f] \in {"READY", "RUNNING"} =>
                    io_timed_out[f] \/ (op[f] = "fd" /\ readable[f])
    BY DEF Inv, WakeInv, FiberInv, OpInv, Suspended
  <2> QED BY <2>1, <2>2 DEF NoStaleWake, WaitHonest
<1> QED BY <1>1, Invariance, PTL

\* The thread never sleeps in epoll_wait on a non-empty ready_ without the
\* eventfd being about to wake it: only resume_fiber adds to ready_ while the
\* thread polls, and it writes to the eventfd.
THEOREM WakeupNeverLost == Spec => []NoLostWakeup
<1>1. Init => NoLostWakeup
  BY DEF Init, NoLostWakeup
<1>2. Inv /\ NoLostWakeup /\ [Next]_vars => NoLostWakeup'
  <2> SUFFICES ASSUME Inv, NoLostWakeup, [Next]_vars PROVE NoLostWakeup'
    OBVIOUS
  <2> USE DEF vars, schedVars, threadVars, fiberVars, codeVars, poolVars, NoLostWakeup
  <2>1. ASSUME NEW f \in Fibers, StartWorker(f) PROVE NoLostWakeup'
    BY <2>1 DEF StartWorker
  <2>2. CASE Loop
    <3>1. ASSUME NEW f \in Fibers, FdEvent(f) PROVE NoLostWakeup'
      <4>1. pc' # "epoll" BY <3>1, Zenon DEF FdEvent
      <4> QED BY <4>1
    <3>2. ASSUME NEW k \in Keys, Expire(k) PROVE NoLostWakeup'
      BY <3>2 DEF Expire
    <3>3. CASE ChooseTimeout BY <3>3 DEF ChooseTimeout
    <3>4. CASE CheckComplete
      <4>1. pc' # "epoll" BY <3>4 DEF CheckComplete
      <4> QED BY <4>1
    <3> QED BY <2>2, <3>1, <3>2, <3>3, <3>4 DEF Loop, RunOne, RunOneEmpty, Settle,
               EpollWait, DrainWakeup, ResumeEvent, EventsDone, Sweep, ExpireDone
  <2>3. CASE Slice BY <2>3 DEF Slice, SliceMore, SliceOver
  <2>4. CASE Code
    <3>1. pc = "run" /\ pc' \in {"run", "ret"}
      <4>1. CASE OffloadTest
        <5>1. CASE job_done[cur] BY <4>1, <5>1, Zenon DEF OffloadTest
        <5>2. CASE ~job_done[cur] BY <4>1, <5>2, Zenon DEF OffloadTest, SuspendCurrent
        <5> QED BY <5>1, <5>2
      <4> QED BY <2>4, <4>1 DEF Code, Yield, Finish, Recv, WaitReturn, OffloadPost,
                 OffloadSuspend, SuspendCurrent, WaitReadableTmo, AcceptSpawn, Computing
    <3> QED BY <3>1
  <2>5. ASSUME NEW w \in Workers, Worker(w) PROVE NoLostWakeup'
    <3>1. CASE OffloadResume(w) BY <3>1 DEF OffloadResume, ResumeFiber, Wake
    <3> QED BY <2>5, <3>1 DEF Worker, OffloadTake, OffloadStore
  <2>6. CASE Environment BY <2>6 DEF Environment, DataArrives, DeadlinePasses
  <2> QED BY <2>1, <2>2, <2>3, <2>4, <2>5, <2>6 DEF Next
<1> QED BY <1>1, <1>2, Invariance, PTL DEF Spec

-----------------------------------------------------------------------------
(***************************************************************************)
(* Refinement of FiberPark.  By the invariant what FiberPark sees of a     *)
(* fiber is decided by four of its variables; only the steps that change   *)
(* one of them can be steps of FiberPark.                                  *)
(***************************************************************************)
AbsStatus == [f \in Fibers |-> ParkStatus(f)]
AbsPermit == [f \in Fibers |-> sched_state[f] = "RUNNING" /\ pending_resume[f]]
AbsWaker  == [f \in Fibers |-> HasWaker(f)]

\* A waker is outstanding from the arming of a wait to its resume_fiber, and
\* a fiber that is done has been started and is not suspended.
WakerExact ==
    \A f \in Fibers :
        /\ HasWaker(f) <=> ~pending_resume[f] /\ (op[f] = "posted" \/ Suspended(f))
        /\ done[f] => sched_state[f] \in {"RUNNING", "DONE"}

LEMMA WakerIsExact == Inv => WakerExact
<1> SUFFICES ASSUME Inv, NEW f \in Fibers
             PROVE  HasWaker(f) <=> ~pending_resume[f] /\ (op[f] = "posted" \/ Suspended(f))
  BY DEF WakerExact, Inv, WakeInv, FiberInv, RunInv
<1>1. /\ OpInv(f) /\ JobInv(f) /\ EventInv(f) /\ op[f] \in Ops
      /\ KeyInv("fd", f) /\ KeyInv("timer", f)
  BY DEF Inv, WakeInv, FiberInv, TypeOK
<1>2. HasWaker(f) <=> \/ <<"fd", f>> \in fd_to_fiber \cup expired
                      \/ <<"timer", f>> \in fd_to_fiber \cup expired
                      \/ resuming = f \/ Queued(f) \/ Offloaded(f)
  BY DEF HasWaker
<1>3. CASE op[f] = "compute"
  BY <1>1, <1>2, <1>3 DEF OpInv, JobInv, EventInv, KeyInv
<1>4. CASE op[f] \in {"fd", "timer"}
  BY <1>1, <1>2, <1>4 DEF OpInv, JobInv, EventInv, KeyInv, Suspended
<1>5. CASE op[f] \in {"posted", "offload"}
  BY <1>1, <1>2, <1>5 DEF OpInv, JobInv, EventInv, KeyInv, Suspended
<1> QED BY <1>1, <1>3, <1>4, <1>5 DEF Ops

\* The view of one fiber in terms of the variables that decide it.
Seen(f, st, pe, wa) ==
    /\ sched_state[f] = "NEW" => st = "new"
    /\ sched_state[f] # "NEW" /\ done[f] => st = "finished"
    /\ Suspended(f) /\ ~done[f] /\ ~pending_resume[f] => st = "parked"
    /\ /\ sched_state[f] # "NEW" /\ ~done[f]
       /\ ~Suspended(f) \/ pending_resume[f]
       => st = "active"
    /\ pe \in BOOLEAN /\ (pe <=> sched_state[f] = "RUNNING" /\ pending_resume[f])
    /\ wa \in BOOLEAN /\ (wa <=> ~pending_resume[f] /\ (op[f] = "posted" \/ Suspended(f)))

AllSeen == \A f \in Fibers : Seen(f, AbsStatus[f], AbsPermit[f], AbsWaker[f])

LEMMA View == WakerExact => AllSeen
<1> SUFFICES ASSUME WakerExact, NEW f \in Fibers
             PROVE  Seen(f, AbsStatus[f], AbsPermit[f], AbsWaker[f])
  BY DEF AllSeen
<1>1. AbsWaker[f] = HasWaker(f) /\ AbsStatus[f] = ParkStatus(f)
  BY Zenon DEF AbsWaker, AbsStatus
<1>2. HasWaker(f) \in BOOLEAN
  BY Zenon DEF HasWaker
<1>3. HasWaker(f) <=> ~pending_resume[f] /\ (op[f] = "posted" \/ Suspended(f))
  BY Zenon DEF WakerExact
<1>a. done[f] => sched_state[f] \in {"RUNNING", "DONE"}
  BY DEF WakerExact
<1>4. AbsPermit[f] = (sched_state[f] = "RUNNING" /\ pending_resume[f])
  BY Zenon DEF AbsPermit
<1>5. /\ AbsPermit[f] \in BOOLEAN
      /\ AbsPermit[f] <=> sched_state[f] = "RUNNING" /\ pending_resume[f]
  BY <1>4, Zenon
<1>6. /\ sched_state[f] = "NEW" => ParkStatus(f) = "new"
      /\ sched_state[f] # "NEW" /\ done[f] => ParkStatus(f) = "finished"
      /\ Suspended(f) /\ ~done[f] /\ ~pending_resume[f] => ParkStatus(f) = "parked"
      /\ /\ sched_state[f] # "NEW" /\ ~done[f]
         /\ ~Suspended(f) \/ pending_resume[f]
         => ParkStatus(f) = "active"
  BY <1>a DEF ParkStatus, Suspended
<1> QED BY <1>1, <1>2, <1>3, <1>5, <1>6, Zenon DEF Seen

\* A step that changes the view of at most one fiber, by a move of FiberPark.
LEMMA ParkMove ==
    ASSUME AllSeen, AllSeen', NEW f \in Fibers,
           \A g \in Fibers \ {f} : /\ sched_state'[g] = sched_state[g]
                                   /\ pending_resume'[g] = pending_resume[g]
                                   /\ done'[g] = done[g] /\ op'[g] = op[g],
           \/ /\ AbsStatus'[f] = AbsStatus[f]
              /\ (AbsPermit'[f] <=> AbsPermit[f]) /\ (AbsWaker'[f] <=> AbsWaker[f])
           \/ /\ AbsStatus[f] = "new" /\ AbsStatus'[f] = "active"
              /\ (AbsPermit'[f] <=> AbsPermit[f]) /\ (AbsWaker'[f] <=> AbsWaker[f])
           \/ /\ AbsStatus[f] = "active" /\ ~AbsPermit[f] /\ ~AbsWaker[f]
              /\ AbsStatus'[f] \in {"active", "parked"}
              /\ (AbsPermit'[f] <=> AbsPermit[f]) /\ AbsWaker'[f]
           \/ /\ AbsStatus[f] = "active" /\ (AbsPermit[f] \/ AbsWaker[f])
              /\ AbsStatus'[f] = IF AbsPermit[f] THEN "active" ELSE "parked"
              /\ ~AbsPermit'[f] /\ (AbsWaker'[f] <=> AbsWaker[f])
           \/ /\ AbsWaker[f] /\ ~AbsWaker'[f] /\ AbsStatus'[f] = "active"
              /\ AbsPermit'[f] <=> AbsStatus[f] = "active"
           \/ /\ AbsStatus[f] = "active" /\ ~AbsPermit[f] /\ ~AbsWaker[f]
              /\ AbsStatus'[f] = "finished"
              /\ (AbsPermit'[f] <=> AbsPermit[f]) /\ (AbsWaker'[f] <=> AbsWaker[f])
    PROVE  [Abstract!ParkNext]_(Abstract!parkVars)
<1>1. ASSUME NEW g \in Fibers \ {f}
      PROVE  /\ AbsStatus'[g] = AbsStatus[g]
             /\ AbsPermit'[g] = AbsPermit[g] /\ AbsWaker'[g] = AbsWaker[g]
  <2>1. Seen(g, AbsStatus[g], AbsPermit[g], AbsWaker[g])
    BY DEF AllSeen
  <2>2. Seen(g, AbsStatus[g], AbsPermit[g], AbsWaker[g])'
    BY DEF AllSeen, Seen
  <2>3. /\ sched_state'[g] = sched_state[g] /\ pending_resume'[g] = pending_resume[g]
        /\ done'[g] = done[g] /\ op'[g] = op[g]
    OBVIOUS
  <2>4. AbsStatus'[g] = AbsStatus[g]
    BY <2>1, <2>2, <2>3 DEF Seen, Suspended
  <2>5. AbsPermit'[g] <=> AbsPermit[g]
    BY <2>1, <2>2, <2>3 DEF Seen
  <2>6. AbsWaker'[g] <=> AbsWaker[g]
    BY <2>1, <2>2, <2>3 DEF Seen, Suspended
  <2>7. /\ AbsPermit[g] \in BOOLEAN /\ AbsPermit'[g] \in BOOLEAN
        /\ AbsWaker[g] \in BOOLEAN /\ AbsWaker'[g] \in BOOLEAN
    BY <2>1, <2>2, Zenon DEF Seen
  <2> QED BY <2>4, <2>5, <2>6, <2>7
<1>2. /\ AbsStatus = [g \in Fibers |-> AbsStatus[g]]
      /\ AbsStatus' = [g \in Fibers |-> AbsStatus'[g]]
      /\ AbsPermit = [g \in Fibers |-> AbsPermit[g]]
      /\ AbsPermit' = [g \in Fibers |-> AbsPermit'[g]]
      /\ AbsWaker = [g \in Fibers |-> AbsWaker[g]]
      /\ AbsWaker' = [g \in Fibers |-> AbsWaker'[g]]
  BY Zenon DEF AbsStatus, AbsPermit, AbsWaker
<1>3. /\ AbsStatus' = [AbsStatus EXCEPT ![f] = AbsStatus'[f]]
      /\ AbsPermit' = [AbsPermit EXCEPT ![f] = AbsPermit'[f]]
      /\ AbsWaker' = [AbsWaker EXCEPT ![f] = AbsWaker'[f]]
  BY <1>1, <1>2
<1>4. ASSUME AbsStatus'[f] = AbsStatus[f] PROVE AbsStatus' = AbsStatus
  BY <1>2, <1>3, <1>4
<1>b. /\ AbsPermit[f] \in BOOLEAN /\ AbsPermit'[f] \in BOOLEAN
      /\ AbsWaker[f] \in BOOLEAN /\ AbsWaker'[f] \in BOOLEAN
  <2>1. Seen(f, AbsStatus[f], AbsPermit[f], AbsWaker[f])
    BY DEF AllSeen
  <2>2. Seen(f, AbsStatus[f], AbsPermit[f], AbsWaker[f])'
    BY DEF AllSeen, Seen
  <2> QED BY <2>1, <2>2, Zenon DEF Seen
<1>5. ASSUME AbsPermit'[f] <=> AbsPermit[f] PROVE AbsPermit' = AbsPermit
  <2>1. AbsPermit'[f] = AbsPermit[f] BY <1>5, <1>b
  <2> QED BY <1>2, <1>3, <2>1
<1>6. ASSUME AbsWaker'[f] <=> AbsWaker[f] PROVE AbsWaker' = AbsWaker
  <2>1. AbsWaker'[f] = AbsWaker[f] BY <1>6, <1>b
  <2> QED BY <1>2, <1>3, <2>1
<1>7. CASE /\ AbsStatus'[f] = AbsStatus[f]
           /\ (AbsPermit'[f] <=> AbsPermit[f]) /\ (AbsWaker'[f] <=> AbsWaker[f])
  BY <1>7, <1>4, <1>5, <1>6, Zenon DEF Abstract!parkVars, AbsStatus, AbsPermit, AbsWaker
<1>8. CASE /\ AbsStatus[f] = "new" /\ AbsStatus'[f] = "active"
            /\ (AbsPermit'[f] <=> AbsPermit[f]) /\ (AbsWaker'[f] <=> AbsWaker[f])
  <2>1. Abstract!Start(f)
    BY <1>8, <1>3, <1>5, <1>6, Zenon DEF Abstract!Start, AbsStatus, AbsPermit, AbsWaker
  <2> QED BY <2>1, Zenon DEF Abstract!ParkNext
<1>9. CASE /\ AbsStatus[f] = "active" /\ ~AbsPermit[f] /\ ~AbsWaker[f]
            /\ AbsStatus'[f] \in {"active", "parked"}
            /\ (AbsPermit'[f] <=> AbsPermit[f]) /\ AbsWaker'[f]
  <2>a. AbsWaker' = [AbsWaker EXCEPT ![f] = TRUE] BY <1>3, <1>9, <1>b
  <2>1. CASE AbsStatus'[f] = "active"
    <3>1. AbsStatus' = AbsStatus BY <1>4, <1>9, <2>1
    <3>2. Abstract!Arm(f)
      BY <1>9, <2>a, <3>1, <1>5, Zenon
         DEF Abstract!Arm, Abstract!Idle, AbsStatus, AbsPermit, AbsWaker
    <3> QED BY <3>2, Zenon DEF Abstract!ParkNext
  <2>2. CASE AbsStatus'[f] = "parked"
    <3>1. Abstract!ArmAndPark(f)
      BY <1>9, <2>2, <2>a, <1>3, <1>5, Zenon
         DEF Abstract!ArmAndPark, Abstract!Idle, AbsStatus, AbsPermit, AbsWaker
    <3> QED BY <3>1, Zenon DEF Abstract!ParkNext
  <2> QED BY <1>9, <2>1, <2>2
<1>10. CASE /\ AbsStatus[f] = "active" /\ (AbsPermit[f] \/ AbsWaker[f])
            /\ AbsStatus'[f] = IF AbsPermit[f] THEN "active" ELSE "parked"
            /\ ~AbsPermit'[f] /\ (AbsWaker'[f] <=> AbsWaker[f])
  <2>1. /\ AbsStatus' = [AbsStatus EXCEPT ![f] =
                             IF AbsPermit[f] THEN "active" ELSE "parked"]
        /\ AbsPermit' = [AbsPermit EXCEPT ![f] = FALSE] /\ AbsWaker' = AbsWaker
    BY <1>10, <1>3, <1>6, <1>b
  <2>2. Abstract!Park(f)
    BY <1>10, <2>1, Zenon DEF Abstract!Park, AbsStatus, AbsPermit, AbsWaker
  <2> QED BY <2>2, Zenon DEF Abstract!ParkNext
<1>11. CASE /\ AbsWaker[f] /\ ~AbsWaker'[f] /\ AbsStatus'[f] = "active"
            /\ AbsPermit'[f] <=> AbsStatus[f] = "active"
  <2>1. /\ AbsWaker' = [AbsWaker EXCEPT ![f] = FALSE]
        /\ AbsStatus' = [AbsStatus EXCEPT ![f] = "active"]
    BY <1>3, <1>11, <1>b
  <2>2. AbsPermit' = [AbsPermit EXCEPT ![f] = (AbsStatus[f] = "active")]
    <3>1. AbsPermit'[f] = (AbsStatus[f] = "active") BY <1>11, <1>b
    <3> QED BY <3>1, <1>3
  <2>3. Abstract!Unpark(f)
    BY <1>11, <2>1, <2>2, Zenon DEF Abstract!Unpark, AbsStatus, AbsPermit, AbsWaker
  <2> QED BY <2>3, Zenon DEF Abstract!ParkNext
<1>12. CASE /\ AbsStatus[f] = "active" /\ ~AbsPermit[f] /\ ~AbsWaker[f]
            /\ AbsStatus'[f] = "finished"
            /\ (AbsPermit'[f] <=> AbsPermit[f]) /\ (AbsWaker'[f] <=> AbsWaker[f])
  <2>1. Abstract!End(f)
    BY <1>12, <1>3, <1>5, <1>6, Zenon
       DEF Abstract!End, Abstract!Idle, AbsStatus, AbsPermit, AbsWaker
  <2> QED BY <2>1, Zenon DEF Abstract!ParkNext
<1> QED BY <1>7, <1>8, <1>9, <1>10, <1>11, <1>12

\* Every step of the scheduler is a step of FiberPark or changes nothing there.
LEMMA ParkStep == Inv /\ AllSeen /\ AllSeen' /\ [Next]_vars
                     => [Abstract!ParkNext]_(Abstract!parkVars)
<1> SUFFICES ASSUME Inv, AllSeen, AllSeen', [Next]_vars
             PROVE  [Abstract!ParkNext]_(Abstract!parkVars)
  OBVIOUS
<1> USE DEF vars, schedVars, threadVars, fiberVars, codeVars, poolVars
<1> DEFINE Implemented == [Abstract!ParkNext]_(Abstract!parkVars)
           Quiet == UNCHANGED <<sched_state, pending_resume, done, op>>
<1>i. TypeOK /\ CurInv /\ ResumingInv /\ ThreadInv /\ ReadyOnce /\ PoolInv
  BY DEF Inv, WakeInv
<1>f. ASSUME NEW f \in Fibers
      PROVE  /\ RunInv(f) /\ OpInv(f) /\ EventInv(f) /\ JobInv(f)
             /\ \A kind \in {"fd", "timer"} : KeyInv(kind, f)
             /\ Seen(f, AbsStatus[f], AbsPermit[f], AbsWaker[f])
             /\ Seen(f, AbsStatus[f], AbsPermit[f], AbsWaker[f])'
  <2>1. Seen(f, AbsStatus[f], AbsPermit[f], AbsWaker[f])'
    BY DEF AllSeen, Seen
  <2> QED BY <2>1 DEF Inv, WakeInv, FiberInv, AllSeen
<1>q. ASSUME Quiet PROVE Implemented
  <2>1. CASE Fibers = {}
    BY <2>1, Zenon DEF Abstract!parkVars
  <2>2. CASE Fibers # {}
    <3>1. PICK f \in Fibers : TRUE BY <2>2
    <3>2. /\ AbsStatus'[f] = AbsStatus[f]
          /\ (AbsPermit'[f] <=> AbsPermit[f]) /\ (AbsWaker'[f] <=> AbsWaker[f])
      <4>1. /\ Seen(f, AbsStatus[f], AbsPermit[f], AbsWaker[f])
            /\ Seen(f, AbsStatus[f], AbsPermit[f], AbsWaker[f])'
        BY <1>f
      <4> QED BY <4>1, <1>q DEF Seen, Suspended
    <3> QED BY <1>q, <3>2, ParkMove
  <2> QED BY <2>1, <2>2
<1>1. ASSUME NEW f \in Fibers, Spawn(f) PROVE Implemented
  <2>2. /\ RunInv(f) /\ OpInv(f) /\ JobInv(f)
        /\ Seen(f, AbsStatus[f], AbsPermit[f], AbsWaker[f])
        /\ Seen(f, AbsStatus[f], AbsPermit[f], AbsWaker[f])'
    BY <1>f
  <2>3. /\ sched_state[f] = "NEW" /\ sched_state'[f] = "READY"
        /\ ~pending_resume[f] /\ ~pending_resume'[f]
        /\ ~done[f] /\ ~done'[f]
        /\ op[f] = "compute" /\ op'[f] = "compute"
    BY <1>1, <2>2, <1>i DEF Spawn, RunInv, OpInv, TypeOK
  <2>4. /\ AbsStatus[f] = "new" /\ AbsStatus'[f] = "active"
        /\ (AbsPermit'[f] <=> AbsPermit[f]) /\ (AbsWaker'[f] <=> AbsWaker[f])
    BY <2>2, <2>3 DEF Seen, Suspended
  <2>5. \A g \in Fibers \ {f} :
           /\ sched_state'[g] = sched_state[g] /\ pending_resume'[g] = pending_resume[g]
           /\ done'[g] = done[g] /\ op'[g] = op[g]
    BY <1>1, <1>i DEF Spawn, TypeOK
  <2> QED BY <2>4, <2>5, ParkMove
<1>2. CASE RunOne
  <2>1. PICK f \in Fibers : f = Head(ready) /\ sched_state[f] = "READY"
    BY <1>2, <1>i, HeadTailProperties, LenProperties, EmptySeq
       DEF RunOne, TypeOK, ReadyOnce, InReady
  <2>2. /\ RunInv(f) /\ OpInv(f) /\ JobInv(f)
        /\ Seen(f, AbsStatus[f], AbsPermit[f], AbsWaker[f])
        /\ Seen(f, AbsStatus[f], AbsPermit[f], AbsWaker[f])'
    BY <2>1, <1>f
  <2>3. /\ sched_state[f] = "READY" /\ sched_state'[f] = "RUNNING"
        /\ ~pending_resume[f] /\ ~pending_resume'[f]
        /\ ~done[f] /\ ~done'[f]
        /\ op[f] # "posted" /\ op'[f] # "posted"
    BY <1>2, <2>1, <2>2, <1>i DEF RunOne, RunInv, OpInv, TypeOK
  <2>4. /\ AbsStatus'[f] = AbsStatus[f]
        /\ (AbsPermit'[f] <=> AbsPermit[f]) /\ (AbsWaker'[f] <=> AbsWaker[f])
    BY <2>2, <2>3 DEF Seen, Suspended
  <2>5. \A g \in Fibers \ {f} :
           /\ sched_state'[g] = sched_state[g] /\ pending_resume'[g] = pending_resume[g]
           /\ done'[g] = done[g] /\ op'[g] = op[g]
    BY <1>2, <2>1, <1>i DEF RunOne, TypeOK
  <2> QED BY <2>1, <2>4, <2>5, ParkMove
<1>3. CASE Settle /\ SettleDone
  <2>1. PICK f \in Fibers : f = cur /\ pc = "ret"
    BY <1>3, <1>i DEF Settle, CurInv
  <2>2. /\ RunInv(f) /\ OpInv(f) /\ JobInv(f)
        /\ Seen(f, AbsStatus[f], AbsPermit[f], AbsWaker[f])
        /\ Seen(f, AbsStatus[f], AbsPermit[f], AbsWaker[f])'
    BY <2>1, <1>f
  <2>3. /\ sched_state[f] = "RUNNING" /\ sched_state'[f] = "DONE"
        /\ ~pending_resume[f] /\ ~pending_resume'[f]
        /\ done[f] /\ done'[f]
        /\ op[f] = "compute" /\ op'[f] = "compute"
    BY <1>3, <2>1, <2>2, <1>i DEF Settle, SettleDone, RunInv, OpInv, TypeOK
  <2>4. /\ AbsStatus'[f] = AbsStatus[f]
        /\ (AbsPermit'[f] <=> AbsPermit[f]) /\ (AbsWaker'[f] <=> AbsWaker[f])
    BY <2>2, <2>3 DEF Seen, Suspended
  <2>5. \A g \in Fibers \ {f} :
           /\ sched_state'[g] = sched_state[g] /\ pending_resume'[g] = pending_resume[g]
           /\ done'[g] = done[g] /\ op'[g] = op[g]
    BY <1>3, <2>1, <1>i DEF Settle, SettleDone, TypeOK
  <2> QED BY <2>1, <2>4, <2>5, ParkMove
<1>4. CASE Settle /\ SettleWoken
  <2>1. PICK f \in Fibers : f = cur /\ pc = "ret"
    BY <1>4, <1>i DEF Settle, CurInv
  <2>2. /\ RunInv(f) /\ OpInv(f) /\ JobInv(f)
        /\ Seen(f, AbsStatus[f], AbsPermit[f], AbsWaker[f])
        /\ Seen(f, AbsStatus[f], AbsPermit[f], AbsWaker[f])'
    BY <2>1, <1>f
  <2>3. /\ sched_state[f] = "SUSPENDING" /\ sched_state'[f] = "READY"
        /\ pending_resume[f] /\ ~pending_resume'[f]
        /\ ~done[f] /\ ~done'[f]
        /\ op[f] = "offload" /\ op'[f] = "offload"
    BY <1>4, <2>1, <2>2, <1>i DEF Settle, SettleWoken, RunInv, OpInv, TypeOK
  <2>4. /\ AbsStatus'[f] = AbsStatus[f]
        /\ (AbsPermit'[f] <=> AbsPermit[f]) /\ (AbsWaker'[f] <=> AbsWaker[f])
    BY <2>2, <2>3 DEF Seen, Suspended
  <2>5. \A g \in Fibers \ {f} :
           /\ sched_state'[g] = sched_state[g] /\ pending_resume'[g] = pending_resume[g]
           /\ done'[g] = done[g] /\ op'[g] = op[g]
    BY <1>4, <2>1, <1>i DEF Settle, SettleWoken, TypeOK
  <2> QED BY <2>1, <2>4, <2>5, ParkMove
<1>5. CASE Settle /\ SettleWaiting
  <2>1. PICK f \in Fibers : f = cur /\ pc = "ret"
    BY <1>5, <1>i DEF Settle, CurInv
  <2>2. /\ RunInv(f) /\ OpInv(f) /\ JobInv(f)
        /\ Seen(f, AbsStatus[f], AbsPermit[f], AbsWaker[f])
        /\ Seen(f, AbsStatus[f], AbsPermit[f], AbsWaker[f])'
    BY <2>1, <1>f
  <2>3. /\ op'[f] = op[f]
        /\ sched_state[f] = "SUSPENDING" /\ sched_state'[f] = "WAITING"
        /\ ~pending_resume[f] /\ ~pending_resume'[f]
        /\ ~done[f] /\ ~done'[f]
    BY <1>5, <2>1, <2>2, <1>i DEF Settle, SettleWaiting, RunInv, OpInv, TypeOK
  <2>4. /\ AbsStatus'[f] = AbsStatus[f]
        /\ (AbsPermit'[f] <=> AbsPermit[f]) /\ (AbsWaker'[f] <=> AbsWaker[f])
    BY <2>2, <2>3 DEF Seen, Suspended
  <2>5. \A g \in Fibers \ {f} :
           /\ sched_state'[g] = sched_state[g] /\ pending_resume'[g] = pending_resume[g]
           /\ done'[g] = done[g] /\ op'[g] = op[g]
    BY <1>5, <2>1, <1>i DEF Settle, SettleWaiting, TypeOK
  <2> QED BY <2>1, <2>4, <2>5, ParkMove
<1>6. CASE Settle /\ SettleYield
  <2>1. PICK f \in Fibers : f = cur /\ pc = "ret"
    BY <1>6, <1>i DEF Settle, CurInv
  <2>2. /\ RunInv(f) /\ OpInv(f) /\ JobInv(f)
        /\ Seen(f, AbsStatus[f], AbsPermit[f], AbsWaker[f])
        /\ Seen(f, AbsStatus[f], AbsPermit[f], AbsWaker[f])'
    BY <2>1, <1>f
  <2>3. /\ sched_state[f] = "RUNNING" /\ sched_state'[f] = "READY"
        /\ ~pending_resume[f] /\ ~pending_resume'[f]
        /\ ~done[f] /\ ~done'[f]
        /\ op[f] = "compute" /\ op'[f] = "compute"
    BY <1>6, <2>1, <2>2, <1>i DEF Settle, SettleYield, RunInv, OpInv, TypeOK
  <2>4. /\ AbsStatus'[f] = AbsStatus[f]
        /\ (AbsPermit'[f] <=> AbsPermit[f]) /\ (AbsWaker'[f] <=> AbsWaker[f])
    BY <2>2, <2>3 DEF Seen, Suspended
  <2>5. \A g \in Fibers \ {f} :
           /\ sched_state'[g] = sched_state[g] /\ pending_resume'[g] = pending_resume[g]
           /\ done'[g] = done[g] /\ op'[g] = op[g]
    BY <1>6, <2>1, <1>i DEF Settle, SettleYield, TypeOK
  <2> QED BY <2>1, <2>4, <2>5, ParkMove
<1>7. ASSUME NEW f \in Fibers, ResumeFiber(f), sched_state[f] = "WAITING",
             ~pending_resume[f], UNCHANGED <<done, op>>
      PROVE  Implemented
  <2>1. /\ UNCHANGED pending_resume
        /\ sched_state' = [sched_state EXCEPT ![f] = "READY"]
    BY <1>7, ResumeSettled
  <2>2. /\ RunInv(f) /\ OpInv(f) /\ JobInv(f)
        /\ Seen(f, AbsStatus[f], AbsPermit[f], AbsWaker[f])
        /\ Seen(f, AbsStatus[f], AbsPermit[f], AbsWaker[f])'
    BY <2>1, <1>f
  <2>3. /\ op'[f] = op[f] /\ op[f] # "posted"
        /\ sched_state[f] = "WAITING" /\ sched_state'[f] = "READY"
        /\ ~pending_resume[f] /\ ~pending_resume'[f]
        /\ ~done[f] /\ ~done'[f]
    BY <1>7, <2>1, <2>2, <1>i DEF RunInv, OpInv, TypeOK
  <2>4. /\ AbsWaker[f] /\ ~AbsWaker'[f] /\ AbsStatus'[f] = "active"
        /\ AbsPermit'[f] <=> AbsStatus[f] = "active"
    BY <2>2, <2>3 DEF Seen, Suspended
  <2>5. \A g \in Fibers \ {f} :
           /\ sched_state'[g] = sched_state[g] /\ pending_resume'[g] = pending_resume[g]
           /\ done'[g] = done[g] /\ op'[g] = op[g]
    BY <1>7, <2>1, <1>i DEF TypeOK
  <2> QED BY <2>1, <2>4, <2>5, ParkMove
<1>8. ASSUME NEW f \in Fibers, ResumeFiber(f), sched_state[f] \in {"RUNNING", "SUSPENDING"},
             ~pending_resume[f], op[f] = "posted" \/ Suspended(f), op[f] # "compute",
             UNCHANGED <<done, op>>
      PROVE  Implemented
  <2>1. /\ UNCHANGED sched_state
        /\ pending_resume' = [pending_resume EXCEPT ![f] = TRUE]
    BY <1>8, ResumeUnsettled
  <2>2. /\ RunInv(f) /\ OpInv(f) /\ JobInv(f)
        /\ Seen(f, AbsStatus[f], AbsPermit[f], AbsWaker[f])
        /\ Seen(f, AbsStatus[f], AbsPermit[f], AbsWaker[f])'
    BY <2>1, <1>f
  <2>3. /\ op'[f] = op[f] /\ sched_state'[f] = sched_state[f]
        /\ (sched_state[f] = "RUNNING" /\ op[f] = "posted") \/ sched_state[f] = "SUSPENDING"
        /\ ~pending_resume[f] /\ pending_resume'[f]
        /\ ~done[f] /\ ~done'[f]
    BY <1>8, <2>1, <2>2, <1>i DEF RunInv, OpInv, Suspended, TypeOK
  <2>4. /\ AbsWaker[f] /\ ~AbsWaker'[f] /\ AbsStatus'[f] = "active"
        /\ AbsPermit'[f] <=> AbsStatus[f] = "active"
    BY <2>2, <2>3 DEF Seen, Suspended
  <2>5. \A g \in Fibers \ {f} :
           /\ sched_state'[g] = sched_state[g] /\ pending_resume'[g] = pending_resume[g]
           /\ done'[g] = done[g] /\ op'[g] = op[g]
    BY <1>8, <2>1, <1>i DEF TypeOK
  <2> QED BY <2>1, <2>4, <2>5, ParkMove
<1>9. CASE Finish
  <2>1. PICK f \in Fibers : f = cur /\ pc = "run"
    BY <1>9, <1>i DEF CurInv, Computing, Finish
  <2>2. /\ RunInv(f) /\ OpInv(f) /\ JobInv(f)
        /\ Seen(f, AbsStatus[f], AbsPermit[f], AbsWaker[f])
        /\ Seen(f, AbsStatus[f], AbsPermit[f], AbsWaker[f])'
    BY <2>1, <1>f
  <2>3. /\ sched_state[f] = "RUNNING" /\ sched_state'[f] = "RUNNING"
        /\ ~pending_resume[f] /\ ~pending_resume'[f]
        /\ ~done[f] /\ done'[f]
        /\ op[f] = "compute" /\ op'[f] = "compute"
    BY <1>9, <2>1, <2>2, <1>i DEF Finish, Computing, RunInv, OpInv, TypeOK
  <2>4. /\ AbsStatus[f] = "active" /\ ~AbsPermit[f] /\ ~AbsWaker[f]
        /\ AbsStatus'[f] = "finished"
        /\ (AbsPermit'[f] <=> AbsPermit[f]) /\ (AbsWaker'[f] <=> AbsWaker[f])
    BY <2>2, <2>3 DEF Seen, Suspended
  <2>5. \A g \in Fibers \ {f} :
           /\ sched_state'[g] = sched_state[g] /\ pending_resume'[g] = pending_resume[g]
           /\ done'[g] = done[g] /\ op'[g] = op[g]
    BY <1>9, <2>1, <1>i DEF Finish, TypeOK
  <2> QED BY <2>1, <2>4, <2>5, ParkMove
<1>10. ASSUME NEW kind \in {"fd", "timer"}, NEW tmo \in BOOLEAN, WaitReadableTmo(kind, tmo)
       PROVE  Implemented
  <2>1. PICK f \in Fibers : f = cur /\ pc = "run"
    BY <1>10, <1>i DEF CurInv, Computing, WaitReadableTmo
  <2>2. /\ RunInv(f) /\ OpInv(f) /\ JobInv(f)
        /\ Seen(f, AbsStatus[f], AbsPermit[f], AbsWaker[f])
        /\ Seen(f, AbsStatus[f], AbsPermit[f], AbsWaker[f])'
    BY <2>1, <1>f
  <2>3. /\ op[f] = "compute" /\ op'[f] = kind
        /\ sched_state[f] = "RUNNING" /\ sched_state'[f] = "SUSPENDING"
        /\ ~pending_resume[f] /\ ~pending_resume'[f]
        /\ ~done[f] /\ ~done'[f]
    BY <1>10, <2>1, <2>2, <1>i DEF WaitReadableTmo, Computing, RunInv, OpInv, TypeOK
  <2>4. /\ AbsStatus[f] = "active" /\ ~AbsPermit[f] /\ ~AbsWaker[f]
        /\ AbsStatus'[f] \in {"active", "parked"}
        /\ (AbsPermit'[f] <=> AbsPermit[f]) /\ AbsWaker'[f]
    BY <2>2, <2>3 DEF Seen, Suspended
  <2>5. \A g \in Fibers \ {f} :
           /\ sched_state'[g] = sched_state[g] /\ pending_resume'[g] = pending_resume[g]
           /\ done'[g] = done[g] /\ op'[g] = op[g]
    BY <1>10, <2>1, <1>i DEF WaitReadableTmo, TypeOK
  <2> QED BY <2>1, <2>4, <2>5, ParkMove
<1>11. CASE WaitReturn
  <2>1. PICK f \in Fibers : f = cur /\ pc = "run"
    BY <1>11, <1>i DEF CurInv, Computing, WaitReturn
  <2>2. /\ RunInv(f) /\ OpInv(f) /\ JobInv(f)
        /\ Seen(f, AbsStatus[f], AbsPermit[f], AbsWaker[f])
        /\ Seen(f, AbsStatus[f], AbsPermit[f], AbsWaker[f])'
    BY <2>1, <1>f
  <2>3. /\ op[f] \in {"fd", "timer"} /\ op'[f] = "compute"
        /\ sched_state[f] = "RUNNING" /\ sched_state'[f] = "RUNNING"
        /\ ~pending_resume[f] /\ ~pending_resume'[f]
        /\ ~done[f] /\ ~done'[f]
    BY <1>11, <2>1, <2>2, <1>i DEF WaitReturn, RunInv, OpInv, TypeOK
  <2>4. /\ AbsStatus'[f] = AbsStatus[f]
        /\ (AbsPermit'[f] <=> AbsPermit[f]) /\ (AbsWaker'[f] <=> AbsWaker[f])
    BY <2>2, <2>3 DEF Seen, Suspended
  <2>5. \A g \in Fibers \ {f} :
           /\ sched_state'[g] = sched_state[g] /\ pending_resume'[g] = pending_resume[g]
           /\ done'[g] = done[g] /\ op'[g] = op[g]
    BY <1>11, <2>1, <1>i DEF WaitReturn, TypeOK
  <2> QED BY <2>1, <2>4, <2>5, ParkMove
<1>12. CASE OffloadPost
  <2>1. PICK f \in Fibers : f = cur /\ pc = "run"
    BY <1>12, <1>i DEF CurInv, Computing, OffloadPost
  <2>2. /\ RunInv(f) /\ OpInv(f) /\ JobInv(f)
        /\ Seen(f, AbsStatus[f], AbsPermit[f], AbsWaker[f])
        /\ Seen(f, AbsStatus[f], AbsPermit[f], AbsWaker[f])'
    BY <2>1, <1>f
  <2>3. /\ sched_state[f] = "RUNNING" /\ sched_state'[f] = "RUNNING"
        /\ ~pending_resume[f] /\ ~pending_resume'[f]
        /\ ~done[f] /\ ~done'[f]
        /\ op[f] = "compute" /\ op'[f] = "posted"
    BY <1>12, <2>1, <2>2, <1>i DEF OffloadPost, Computing, RunInv, OpInv, TypeOK
  <2>4. /\ AbsStatus[f] = "active" /\ ~AbsPermit[f] /\ ~AbsWaker[f]
        /\ AbsStatus'[f] \in {"active", "parked"}
        /\ (AbsPermit'[f] <=> AbsPermit[f]) /\ AbsWaker'[f]
    BY <2>2, <2>3 DEF Seen, Suspended
  <2>5. \A g \in Fibers \ {f} :
           /\ sched_state'[g] = sched_state[g] /\ pending_resume'[g] = pending_resume[g]
           /\ done'[g] = done[g] /\ op'[g] = op[g]
    BY <1>12, <2>1, <1>i DEF OffloadPost, TypeOK
  <2> QED BY <2>1, <2>4, <2>5, ParkMove
<1>13. CASE OffloadSuspend
  <2>1. PICK f \in Fibers : f = cur /\ pc = "run"
    BY <1>13, <1>i DEF CurInv, Computing, OffloadSuspend
  <2>2. /\ RunInv(f) /\ OpInv(f) /\ JobInv(f)
        /\ Seen(f, AbsStatus[f], AbsPermit[f], AbsWaker[f])
        /\ Seen(f, AbsStatus[f], AbsPermit[f], AbsWaker[f])'
    BY <2>1, <1>f
  <2>3. /\ pending_resume'[f] = pending_resume[f]
        /\ sched_state[f] = "RUNNING" /\ sched_state'[f] = "SUSPENDING"
        /\ ~done[f] /\ ~done'[f]
        /\ op[f] = "posted" /\ op'[f] = "offload"
    BY <1>13, <2>1, <2>2, <1>i DEF OffloadSuspend, SuspendCurrent, RunInv, OpInv, TypeOK
  <2>4. /\ AbsStatus[f] = "active" /\ (AbsPermit[f] \/ AbsWaker[f])
        /\ AbsStatus'[f] = IF AbsPermit[f] THEN "active" ELSE "parked"
        /\ ~AbsPermit'[f] /\ (AbsWaker'[f] <=> AbsWaker[f])
    BY <2>2, <2>3 DEF Seen, Suspended
  <2>5. \A g \in Fibers \ {f} :
           /\ sched_state'[g] = sched_state[g] /\ pending_resume'[g] = pending_resume[g]
           /\ done'[g] = done[g] /\ op'[g] = op[g]
    BY <1>13, <2>1, <1>i DEF OffloadSuspend, SuspendCurrent, TypeOK
  <2> QED BY <2>1, <2>4, <2>5, ParkMove
<1>14. CASE OffloadTest
  <2>a. /\ cur \in Fibers /\ op[cur] = "offload" /\ op' = [op EXCEPT ![cur] = "compute"]
        /\ UNCHANGED <<sched_state, pending_resume, done>> /\ sched_state[cur] = "RUNNING"
    <3>1. cur \in Fibers /\ op[cur] = "offload" /\ pc = "run"
      BY <1>14, <1>i DEF OffloadTest, CurInv
    <3>2. sched_state[cur] = "RUNNING" /\ job_done[cur]
      BY <3>1, <1>f DEF RunInv, OpInv, Suspended
    <3> QED BY <1>14, <3>1, <3>2, Zenon DEF OffloadTest
  <2>1. PICK f \in Fibers :
        /\ f = cur /\ op[f] = "offload" /\ op' = [op EXCEPT ![f] = "compute"]
        /\ UNCHANGED <<sched_state, pending_resume, done>> /\ sched_state[f] = "RUNNING"
    BY <1>14, <2>a
  <2>2. /\ RunInv(f) /\ OpInv(f) /\ JobInv(f)
        /\ Seen(f, AbsStatus[f], AbsPermit[f], AbsWaker[f])
        /\ Seen(f, AbsStatus[f], AbsPermit[f], AbsWaker[f])'
    BY <2>1, <1>f
  <2>3. /\ sched_state[f] = "RUNNING" /\ sched_state'[f] = "RUNNING"
        /\ ~pending_resume[f] /\ ~pending_resume'[f]
        /\ ~done[f] /\ ~done'[f]
        /\ op[f] = "offload" /\ op'[f] = "compute"
    BY <1>14, <2>1, <2>2, <1>i DEF RunInv, OpInv, TypeOK
  <2>4. /\ AbsStatus'[f] = AbsStatus[f]
        /\ (AbsPermit'[f] <=> AbsPermit[f]) /\ (AbsWaker'[f] <=> AbsWaker[f])
    BY <2>2, <2>3 DEF Seen, Suspended
  <2>5. \A g \in Fibers \ {f} :
           /\ sched_state'[g] = sched_state[g] /\ pending_resume'[g] = pending_resume[g]
           /\ done'[g] = done[g] /\ op'[g] = op[g]
    BY <1>14, <2>1, <1>i DEF Computing, TypeOK
  <2> QED BY <2>1, <2>4, <2>5, ParkMove
<1>a. ASSUME NEW k \in Keys, Expire(k) PROVE Implemented
  <2>1. PICK kind \in {"fd", "timer"}, f \in Fibers : k = <<kind, f>>
    BY DEF Keys
  <2>2. sched_state[f] = "WAITING" /\ ~pending_resume[f]
    <3>1. KeyInv(kind, f) /\ OpInv(f) BY <1>f
    <3> QED BY <1>a, <2>1, <3>1 DEF Expire, KeyInv, OpInv
  <2>3. ResumeFiber(f) /\ UNCHANGED <<done, op>>
    BY <1>a, <2>1 DEF Expire
  <2> QED BY <2>2, <2>3, <1>7
<1>b. CASE ResumeEvent
  <2>1. resuming \in Fibers
    BY <1>b, <1>i DEF ResumeEvent, ResumingInv
  <2>2. sched_state[resuming] = "WAITING" /\ ~pending_resume[resuming]
    <3>1. EventInv(resuming) /\ OpInv(resuming) BY <2>1, <1>f
    <3> QED BY <3>1 DEF EventInv, OpInv
  <2>3. ResumeFiber(resuming) /\ UNCHANGED <<done, op>>
    BY <1>b DEF ResumeEvent
  <2> QED BY <2>1, <2>2, <2>3, <1>7
<1>c. ASSUME NEW w \in Workers, OffloadResume(w) PROVE Implemented
  <2>1. job[w] \in Fibers /\ Offloaded(job[w])
    BY <1>c, <1>i DEF OffloadResume, TypeOK, Offloaded
  <2>2. /\ sched_state[job[w]] \in {"WAITING", "RUNNING", "SUSPENDING"}
        /\ ~pending_resume[job[w]] /\ op[job[w]] # "compute"
        /\ op[job[w]] = "posted" \/ Suspended(job[w])
    <3>1. JobInv(job[w]) /\ OpInv(job[w]) BY <2>1, <1>f
    <3> QED BY <2>1, <3>1 DEF JobInv, OpInv, Suspended
  <2>3. ResumeFiber(job[w]) /\ UNCHANGED <<done, op>>
    BY <1>c DEF OffloadResume
  <2> QED BY <2>1, <2>2, <2>3, <1>7, <1>8
<1>d. CASE Loop
  <2>1. ASSUME NEW f \in Fibers, FdEvent(f) PROVE Quiet
    BY <2>1 DEF FdEvent
  <2>2. \/ RunOne \/ (Settle /\ SettleDone) \/ (Settle /\ SettleWoken)
        \/ (Settle /\ SettleWaiting) \/ (Settle /\ SettleYield)
        \/ ResumeEvent \/ (\E k \in Keys : Expire(k)) \/ Quiet
    BY <1>d, <2>1
       DEF Loop, Settle, RunOneEmpty, CheckComplete, ChooseTimeout, EpollWait,
       DrainWakeup, EventsDone, Sweep, ExpireDone
  <2> QED BY <2>2, <1>2, <1>3, <1>4, <1>5, <1>6, <1>a, <1>b, <1>q
<1>e. CASE Code
  <2>1. \/ Finish \/ WaitReturn \/ OffloadPost \/ OffloadSuspend \/ OffloadTest
        \/ (\E kind \in {"fd", "timer"}, tmo \in BOOLEAN : WaitReadableTmo(kind, tmo))
        \/ (\E f \in Fibers : Spawn(f)) \/ Quiet
    BY <1>e DEF Code, Yield, Recv, AcceptSpawn
  <2> QED BY <2>1, <1>9, <1>10, <1>11, <1>12, <1>13, <1>14, <1>1, <1>q
<1>g. ASSUME NEW w \in Workers, Worker(w) PROVE Implemented
  BY <1>g, <1>c, <1>q DEF Worker, OffloadTake, OffloadStore
<1>h. CASE Slice \/ Environment \/ UNCHANGED vars
  BY <1>h, <1>q
     DEF Slice, SliceMore, SliceOver, Environment, DataArrives, DeadlinePasses
<1>k. ASSUME NEW f \in Fibers, StartWorker(f) PROVE Implemented
  BY <1>k, <1>1 DEF StartWorker
<1> QED BY <1>d, <1>e, <1>g, <1>h, <1>k DEF Next

\* The scheduler implements the park contract: every waker handed out resumes
\* its fiber exactly once, whichever state resume_fiber finds it in, and a
\* parked fiber runs again for no other reason.
THEOREM SchedulerImplementsPark == Spec => ImplementsPark
<1>1. Init => Abstract!ParkInit
  <2> SUFFICES ASSUME Init PROVE Abstract!ParkInit
    OBVIOUS
  <2>1. ASSUME NEW f \in Fibers
        PROVE  /\ ParkStatus(f) = "new" /\ HasWaker(f) = FALSE
               /\ (sched_state[f] = "RUNNING" /\ pending_resume[f]) = FALSE
    <3>1. ParkStatus(f) = "new" BY DEF Init, ParkStatus, Suspended
    <3>2. ~HasWaker(f) BY FiberAssumption DEF Init, HasWaker, Queued, Offloaded
    <3>3. HasWaker(f) \in BOOLEAN BY Zenon DEF HasWaker
    <3>4. (sched_state[f] = "RUNNING" /\ pending_resume[f]) = FALSE BY DEF Init
    <3> QED BY <3>1, <3>2, <3>3, <3>4
  <2> QED BY <2>1, Zenon DEF Abstract!ParkInit
<1>2. Inv => AllSeen BY WakerIsExact, View
<1> QED BY <1>1, <1>2, Invariance, ParkStep, PTL
    DEF Spec, ImplementsPark, Abstract!ParkSpec

=============================================================================
