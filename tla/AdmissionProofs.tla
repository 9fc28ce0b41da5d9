-------------------------- MODULE AdmissionProofs --------------------------
(***************************************************************************)
(* TLAPS proofs about the two places where threads are let in one by one   *)
(* or few at a time: SqliteGate, for any set of connections and any number *)
(* of tickets, and TaskSlots, for any threads and any task_limit().        *)
(***************************************************************************)
EXTENDS SqliteGate, TaskSlots, FiniteSetTheorems, TLAPS

-----------------------------------------------------------------------------
(***************************************************************************)
(* The write gate.                                                         *)
(***************************************************************************)
\* Where a call stands tells whether it has the gate: not while it waits for
\* it or once it is being closed, always while it writes.
StageHolds ==
    \A c \in Conns :
        /\ stage[c] \in {"queued", "closing", "closed"} => ~gate_held[c]
        /\ stage[c] = "step" /\ WantsLock(c) => gate_held[c]
        /\ lock = c => tx[c] /\ stage[c] # "closed"

\* The inductive invariant.
GateInv == TypeOK /\ TurnsAccounted /\ StageHolds /\ GateHeldForTransaction /\ LockUnderGate

LEMMA GateInit == Init => GateInv
<1> SUFFICES ASSUME Init PROVE GateInv
  OBVIOUS
<1>1. /\ gate_held \in [Conns -> BOOLEAN] /\ in_fiber \in [Conns -> BOOLEAN]
      /\ tx \in [Conns -> BOOLEAN]
  BY Zenon DEF Init
<1>2. TypeOK
  BY <1>1 DEF Init, TypeOK, Statements, Stages
<1>3. \A c \in Conns : ~gate_held[c] /\ stage[c] = "idle" /\ lock # c
  BY GateAssumption DEF Init
<1>4. TurnsAccounted
  BY <1>3 DEF Init, TurnsAccounted, Owns
<1> QED BY <1>2, <1>3, <1>4 DEF GateInv, StageHolds, GateHeldForTransaction, LockUnderGate

\* release() hands the turn to the oldest ticket that has not been given up,
\* or to the next one to be drawn.
LEMMA ReleaseServes ==
    ASSUME TypeOK, TurnsAccounted, NEW c \in Conns, gate_held[c], Release
    PROVE  /\ serving \in Nat /\ serving' \in Nat /\ serving < serving' /\ serving' <= next
           /\ next' = next
           /\ abandoned' \subseteq abandoned
           /\ \A t \in Nat : serving < t /\ t < serving' => t \in abandoned /\ t \notin abandoned'
           /\ \A t \in abandoned : serving' < t => t \in abandoned'
           /\ serving' \notin abandoned
<1> USE DEF TypeOK, TurnsAccounted
<1>1. PICK s \in (serving + 1) .. (next + 1) :
        /\ Passed(s) /\ s \notin abandoned
        /\ serving' = s
        /\ abandoned' = abandoned \ ((serving + 1) .. (s - 1))
        /\ UNCHANGED next
  BY DEF Release
<1>2. serving + 1 <= next
  BY DEF Owns
<1>3. s # next + 1
  BY <1>1, <1>2 DEF Passed
<1>4. serving \in Nat /\ next \in Nat /\ s \in Nat /\ serving < s /\ s <= next
  BY <1>3
<1>5. \A t \in Nat : t \in (serving + 1) .. (s - 1) <=> serving < t /\ t < s
  BY <1>4
<1>6. \A t \in Nat : serving < t /\ t < s => t \in abandoned /\ t \notin abandoned'
  BY <1>1, <1>5 DEF Passed
<1>7. \A t \in abandoned : s < t => t \in abandoned'
  <2> SUFFICES ASSUME NEW t \in abandoned, s < t PROVE t \in abandoned'
    OBVIOUS
  <2>1. t \in Nat /\ ~(t < s)
    BY <1>4
  <2> QED BY <1>1, <1>5, <2>1
<1> QED BY <1>1, <1>4, <1>6, <1>7

\* Leaving the gate keeps the account of the turns.
LEMMA LeaveGateTurns ==
    ASSUME GateInv, NEW c \in Conns, gate_held[c], LeaveGate(c),
           \A d \in Conns : stage'[d] = "queued" <=> stage[d] = "queued"
    PROVE  /\ TurnsAccounted'
           /\ next' \in Nat /\ serving' \in 0 .. next' /\ abandoned' \subseteq Nat
           /\ gate_held' \in [Conns -> BOOLEAN] /\ ticket' \in [Conns -> Nat]
<1> USE DEF GateInv
<1>1. /\ serving \in Nat /\ serving' \in Nat /\ serving < serving' /\ serving' <= next
      /\ next' = next
      /\ abandoned' \subseteq abandoned
      /\ \A t \in Nat : serving < t /\ t < serving' => t \in abandoned /\ t \notin abandoned'
      /\ \A t \in abandoned : serving' < t => t \in abandoned'
      /\ serving' \notin abandoned
  BY ReleaseServes DEF LeaveGate
<1>2. /\ gate_held' = [gate_held EXCEPT ![c] = FALSE]
      /\ ticket' = [ticket EXCEPT ![c] = 0]
  BY DEF LeaveGate
<1>a. next \in Nat /\ abandoned \subseteq Nat
  BY DEF TypeOK
<1>d. serving' \in Nat /\ next' \in Nat /\ next' = next
  BY <1>1, <1>a
<1>3. /\ next' \in Nat /\ serving' \in 0 .. next' /\ abandoned' \subseteq Nat
      /\ gate_held' \in [Conns -> BOOLEAN] /\ ticket' \in [Conns -> Nat]
  <2>1. next' \in Nat /\ serving' \in 0 .. next' /\ abandoned' \subseteq Nat
    BY <1>1, <1>a
  <2>2. gate_held' \in [Conns -> BOOLEAN]
    BY <1>2 DEF TypeOK
  <2>3. ticket' \in [Conns -> Nat]
    BY <1>2 DEF TypeOK
  <2> QED BY <2>1, <2>2, <2>3
<1>4. ~Owns(c, ticket[c])' /\ stage[c] # "queued"
  BY <1>2 DEF Owns, StageHolds, TypeOK
<1>5. \A d \in Conns : d # c => ~gate_held[d]
  BY DEF TurnsAccounted, Owns
<1>6. \A d \in Conns : \A t \in Nat :
        Owns(d, t)' <=> (d # c /\ Owns(d, t))
  BY <1>2, <1>4 DEF Owns, TypeOK
<1>7. \A d \in Conns : ~gate_held'[d]
  BY <1>2, <1>5 DEF TypeOK
<1>8. \A d \in Conns : Owns(d, ticket[d]) /\ d # c => serving' <= ticket[d] /\ ticket[d] < next'
  <2> SUFFICES ASSUME NEW d \in Conns, Owns(d, ticket[d]), d # c
               PROVE  serving' <= ticket[d] /\ ticket[d] < next'
    OBVIOUS
  <2>1. /\ ticket[d] \in Nat /\ serving <= ticket[d] /\ ticket[d] < next
        /\ ticket[c] = serving /\ Owns(c, ticket[c])
    BY DEF TurnsAccounted, Owns, TypeOK
  <2>2. ticket[d] # serving
    BY <2>1 DEF TurnsAccounted, Owns
  <2>3. ticket[d] \notin abandoned
    BY <1>1, <1>a, <2>1 DEF TurnsAccounted
  <2>4. ~(ticket[d] < serving')
    BY <1>1, <1>a, <2>1, <2>2, <2>3
  <2> QED BY <1>1, <1>a, <2>1, <2>4
<1>9. \A t \in abandoned' : serving' < t /\ t < next'
  <2> SUFFICES ASSUME NEW t \in abandoned' PROVE serving' < t /\ t < next'
    OBVIOUS
  <2>1. t \in abandoned /\ t \in Nat /\ serving < t /\ t < next
    BY <1>1, <1>a DEF TurnsAccounted
  <2>2. ~(t < serving') /\ t # serving'
    BY <1>1, <2>1
  <2> QED BY <1>d, <2>1, <2>2
<1>10. \A t \in serving' .. (next' - 1) :
          (t \in abandoned') <=> (\A d \in Conns : ~Owns(d, t)')
  <2> SUFFICES ASSUME NEW t \in serving' .. (next' - 1)
               PROVE  (t \in abandoned') <=> (\A d \in Conns : ~Owns(d, t)')
    OBVIOUS
  <2>1. t \in Nat /\ t \in serving .. (next - 1) /\ t # serving
    BY <1>1 DEF TypeOK
  <2>2. ~Owns(c, t)
    BY <2>1 DEF TurnsAccounted, Owns
  <2>3. (t \in abandoned') <=> (t \in abandoned)
    <3>1. t = serving' \/ serving' < t
      BY <1>1, <1>a
    <3> QED BY <1>1, <3>1
  <2>4. (t \in abandoned) <=> (\A d \in Conns : ~Owns(d, t))
    BY <2>1 DEF TurnsAccounted
  <2> QED BY <1>6, <2>1, <2>2, <2>3, <2>4
<1>11. \A d \in Conns : d # c => ticket'[d] = ticket[d]
  BY <1>2 DEF TypeOK
<1>12. \A d \in Conns : Owns(d, ticket[d])' => d # c /\ Owns(d, ticket[d])
  BY <1>6, <1>11, <1>4, <1>3 DEF Owns, TypeOK
<1>13. \A d, e \in Conns : Owns(d, ticket[d])' /\ Owns(e, ticket[d])' => d = e
  BY <1>6, <1>11, <1>12 DEF TurnsAccounted, TypeOK
<1> QED BY <1>3, <1>7, <1>8, <1>9, <1>10, <1>11, <1>12, <1>13 DEF TurnsAccounted

\* A step that leaves the tickets alone keeps the account.
LEMMA TurnsSame ==
    ASSUME TurnsAccounted, UNCHANGED <<gateVars, gate_held, ticket>>,
           \A d \in Conns : stage'[d] = "queued" <=> stage[d] = "queued"
    PROVE  TurnsAccounted'
BY DEF TurnsAccounted, Owns, gateVars

\* A new ticket goes to the end of the queue, and is served at once only
\* when the queue is empty.
LEMMA DrawTurns ==
    ASSUME GateInv, NEW c \in Conns, DrawTicket(c), ~gate_held[c], stage[c] # "queued",
           \A d \in Conns \ {c} : /\ stage'[d] = "queued" <=> stage[d] = "queued"
                                  /\ gate_held'[d] = gate_held[d],
           \/ stage'[c] = "queued" /\ ~gate_held'[c]
           \/ stage'[c] # "queued" /\ gate_held'[c] /\ serving = next
    PROVE  /\ TurnsAccounted'
           /\ next' \in Nat /\ serving' \in 0 .. next' /\ abandoned' \subseteq Nat
           /\ ticket' \in [Conns -> Nat]
<1> USE DEF GateInv
<1>1. /\ next \in Nat /\ serving \in Nat /\ serving <= next /\ abandoned \subseteq Nat
      /\ ticket \in [Conns -> Nat]
  BY DEF TypeOK
<1>2. /\ ticket' = [ticket EXCEPT ![c] = next] /\ next' = next + 1
      /\ serving' = serving /\ abandoned' = abandoned
  BY DEF DrawTicket
<1>3. /\ next' \in Nat /\ serving' \in 0 .. next' /\ abandoned' \subseteq Nat
      /\ ticket' \in [Conns -> Nat]
  BY <1>1, <1>2
<1>4. ticket'[c] = next /\ \A d \in Conns \ {c} : ticket'[d] = ticket[d]
  BY <1>1, <1>2
<1>5. \A t : Owns(c, t)' <=> t = next
  BY <1>4 DEF Owns
<1>6. \A d \in Conns \ {c} : \A t : Owns(d, t)' <=> Owns(d, t)
  BY <1>4 DEF Owns
<1>7. \A t : ~Owns(c, t)
  BY DEF Owns
<1>8. \A d \in Conns : Owns(d, ticket[d]) => serving <= ticket[d] /\ ticket[d] < next
  BY DEF TurnsAccounted
<1>9. \A d \in Conns : ~Owns(d, next)
  BY <1>1, <1>8 DEF Owns
<1>10. next \notin abandoned
  BY <1>1 DEF TurnsAccounted
<1>11. \A t \in abandoned' : serving' < t /\ t < next'
  BY <1>1, <1>2 DEF TurnsAccounted
<1>12. \A t \in serving' .. (next' - 1) : (t \in abandoned') <=> (\A d \in Conns : ~Owns(d, t)')
  <2> SUFFICES ASSUME NEW t \in serving' .. (next' - 1)
               PROVE  (t \in abandoned') <=> (\A d \in Conns : ~Owns(d, t)')
    OBVIOUS
  <2>1. CASE t = next BY <1>2, <1>5, <1>10, <2>1
  <2>2. CASE t # next
    <3>1. t \in serving .. (next - 1) BY <1>1, <1>2, <2>2
    <3>2. (t \in abandoned) <=> (\A d \in Conns : ~Owns(d, t))
      BY <3>1 DEF TurnsAccounted
    <3> QED BY <1>2, <1>5, <1>6, <1>7, <2>2, <3>2
  <2> QED BY <2>1, <2>2
<1>13. \A d, e \in Conns : Owns(d, ticket[d])' /\ Owns(e, ticket[d])' => d = e
  <2> SUFFICES ASSUME NEW d \in Conns, NEW e \in Conns, Owns(d, ticket[d])', Owns(e, ticket[d])'
               PROVE  d = e
    OBVIOUS
  <2>1. CASE d = c /\ e # c BY <1>4, <1>6, <1>9, <2>1
  <2>2. CASE d # c /\ e = c BY <1>4, <1>5, <1>6, <1>9, <2>2
  <2>3. CASE d # c /\ e # c BY <1>4, <1>6, <2>3 DEF TurnsAccounted
  <2> QED BY <2>1, <2>2, <2>3
<1>14. \A d \in Conns : Owns(d, ticket[d])' => serving' <= ticket'[d] /\ ticket'[d] < next'
  BY <1>1, <1>2, <1>4, <1>6, <1>8
<1>15. \A d \in Conns : gate_held'[d] => ticket'[d] = serving'
  BY <1>2, <1>4 DEF TurnsAccounted
<1> QED BY <1>3, <1>11, <1>12, <1>13, <1>14, <1>15 DEF TurnsAccounted

\* Giving up: the ticket moves from its writer to abandoned, and it is not the
\* one being served.
LEMMA AbandonTurns ==
    ASSUME GateInv, NEW c \in Conns, stage[c] = "queued", Abandon(c),
           stage' = [stage EXCEPT ![c] = "idle"], gate_held' = gate_held
    PROVE  /\ TurnsAccounted'
           /\ next' \in Nat /\ serving' \in 0 .. next' /\ abandoned' \subseteq Nat
           /\ ticket' \in [Conns -> Nat]
<1> USE DEF GateInv
<1>1. /\ next \in Nat /\ serving \in Nat /\ serving <= next /\ abandoned \subseteq Nat
      /\ ticket \in [Conns -> Nat] /\ stage \in [Conns -> Stages]
  BY DEF TypeOK
<1>2. /\ serving # ticket[c] /\ abandoned' = abandoned \cup {ticket[c]}
      /\ ticket' = [ticket EXCEPT ![c] = 0] /\ next' = next /\ serving' = serving
  BY DEF Abandon
<1>3. /\ next' \in Nat /\ serving' \in 0 .. next' /\ abandoned' \subseteq Nat
      /\ ticket' \in [Conns -> Nat]
  <2>1. next' \in Nat /\ serving' \in 0 .. next'
    BY <1>1, <1>2
  <2>2. abandoned' \subseteq Nat
    BY <1>1, <1>2
  <2>3. ticket' \in [Conns -> Nat]
    BY <1>1, <1>2
  <2> QED BY <2>1, <2>2, <2>3
<1>4. ~gate_held[c] /\ Owns(c, ticket[c])
  BY DEF StageHolds, Owns
<1>5. serving < ticket[c] /\ ticket[c] < next
  BY <1>1, <1>2, <1>4 DEF TurnsAccounted
<1>6. \A t : ~Owns(c, t)'
  BY <1>1, <1>4 DEF Owns
<1>7. \A d \in Conns \ {c} : ticket'[d] = ticket[d] /\ \A t : Owns(d, t)' <=> Owns(d, t)
  BY <1>1, <1>2 DEF Owns
<1>8. \A d \in Conns \ {c} : ~Owns(d, ticket[c])
  BY <1>4 DEF TurnsAccounted
<1>9. \A t \in abandoned' : serving' < t /\ t < next'
  BY <1>2, <1>5 DEF TurnsAccounted
<1>10. \A t \in serving' .. (next' - 1) : (t \in abandoned') <=> (\A d \in Conns : ~Owns(d, t)')
  <2> SUFFICES ASSUME NEW t \in serving' .. (next' - 1)
               PROVE  (t \in abandoned') <=> (\A d \in Conns : ~Owns(d, t)')
    OBVIOUS
  <2>1. CASE t = ticket[c] BY <1>2, <1>6, <1>7, <1>8, <2>1
  <2>2. CASE t # ticket[c]
    <3>1. ~Owns(c, t) BY <2>2 DEF Owns
    <3>2. (t \in abandoned) <=> (\A d \in Conns : ~Owns(d, t))
      BY <1>2 DEF TurnsAccounted
    <3> QED BY <1>2, <1>6, <1>7, <2>2, <3>1, <3>2
  <2> QED BY <2>1, <2>2
<1>11. \A d, e \in Conns : Owns(d, ticket[d])' /\ Owns(e, ticket[d])' => d = e
  BY <1>6, <1>7 DEF TurnsAccounted
<1>12. \A d \in Conns : /\ Owns(d, ticket[d])' => serving' <= ticket'[d] /\ ticket'[d] < next'
                        /\ gate_held'[d] => ticket'[d] = serving'
  BY <1>2, <1>4, <1>6, <1>7 DEF TurnsAccounted
<1> QED BY <1>3, <1>9, <1>10, <1>11, <1>12 DEF TurnsAccounted

\* Every step keeps the inductive invariant.
LEMMA GateStep == GateInv /\ [Next]_vars => GateInv'
<1> SUFFICES ASSUME GateInv, [Next]_vars PROVE GateInv'
  OBVIOUS
<1> USE DEF GateInv, gateVars, connVars
<1>1. ASSUME NEW c \in Conns, NEW s \in Statements, NEW fiber \in BOOLEAN, Call(c, s, fiber)
      PROVE  GateInv'
  <2>1. TurnsAccounted' BY <1>1, TurnsSame DEF Call, TypeOK
  <2>2. TypeOK' BY <1>1 DEF Call, TypeOK, Stages
  <2> QED BY <1>1, <2>1, <2>2
          DEF Call, TypeOK, StageHolds, WantsLock, GateHeldForTransaction, LockUnderGate
<1>2. ASSUME NEW c \in Conns, PassFree(c) PROVE GateInv'
  <2>1. TurnsAccounted' BY <1>2, TurnsSame DEF PassFree, TypeOK
  <2>2. TypeOK' BY <1>2 DEF PassFree, TypeOK, Stages
  <2> QED BY <1>2, <2>1, <2>2
          DEF PassFree, NeedsGate, ReadOnly, TypeOK, StageHolds, WantsLock,
              GateHeldForTransaction, LockUnderGate
<1>3. ASSUME NEW c \in Conns, PassFiber(c) PROVE GateInv'
  <2>1. ~gate_held[c] /\ stage[c] = "gate" /\ DrawTicket(c) /\ serving = next
    BY <1>3 DEF PassFiber, NeedsGate, TryAcquire
  <2>2. /\ gate_held' = [gate_held EXCEPT ![c] = TRUE]
        /\ stage' = [stage EXCEPT ![c] = "step"]
        /\ UNCHANGED <<in_fiber, tx, stmt, lock>>
    BY <1>3 DEF PassFiber
  <2>3. /\ TurnsAccounted'
        /\ next' \in Nat /\ serving' \in 0 .. next' /\ abandoned' \subseteq Nat
        /\ ticket' \in [Conns -> Nat]
    BY <2>1, <2>2, DrawTurns DEF TypeOK
  <2>4. TypeOK' BY <2>2, <2>3 DEF TypeOK, Stages
  <2> QED BY <2>1, <2>2, <2>3, <2>4
          DEF TypeOK, StageHolds, WantsLock, GateHeldForTransaction, LockUnderGate
<1>4. ASSUME NEW c \in Conns, GateBusy(c) PROVE GateInv'
  <2>1. TurnsAccounted' BY <1>4, TurnsSame DEF GateBusy, TypeOK
  <2>2. TypeOK' BY <1>4 DEF GateBusy, TypeOK, Stages
  <2> QED BY <1>4, <2>1, <2>2
          DEF GateBusy, TypeOK, StageHolds, WantsLock, GateHeldForTransaction, LockUnderGate
<1>5. ASSUME NEW c \in Conns, RunnerStart(c) PROVE GateInv'
  <2>1. TurnsAccounted' BY <1>5, TurnsSame DEF RunnerStart, TypeOK
  <2>2. TypeOK' BY <1>5 DEF RunnerStart, TypeOK, Stages
  <2> QED BY <1>5, <2>1, <2>2
          DEF RunnerStart, TypeOK, StageHolds, WantsLock, GateHeldForTransaction, LockUnderGate
<1>6. ASSUME NEW c \in Conns, Queue(c) PROVE GateInv'
  <2>1. ~gate_held[c] /\ stage[c] = "gate" /\ DrawTicket(c)
    BY <1>6 DEF Queue, NeedsGate
  <2>2. /\ stage' = [stage EXCEPT ![c] = "queued"]
        /\ UNCHANGED <<gate_held, in_fiber, tx, stmt, lock>>
    BY <1>6 DEF Queue
  <2>3. /\ TurnsAccounted'
        /\ next' \in Nat /\ serving' \in 0 .. next' /\ abandoned' \subseteq Nat
        /\ ticket' \in [Conns -> Nat]
    BY <2>1, <2>2, DrawTurns DEF TypeOK
  <2>4. TypeOK' BY <2>2, <2>3 DEF TypeOK, Stages
  <2> QED BY <2>1, <2>2, <2>3, <2>4
          DEF TypeOK, StageHolds, WantsLock, GateHeldForTransaction, LockUnderGate
<1>7. ASSUME NEW c \in Conns, PassQueue(c) PROVE GateInv'
  <2>1. \A d \in Conns : \A t : Owns(d, t)' <=> Owns(d, t)
    BY <1>7 DEF PassQueue, Owns, TypeOK
  <2>2. TurnsAccounted'
    BY <1>7, <2>1 DEF PassQueue, TurnsAccounted, TypeOK
  <2>3. TypeOK' BY <1>7 DEF PassQueue, TypeOK, Stages
  <2> QED BY <1>7, <2>2, <2>3
          DEF PassQueue, TypeOK, StageHolds, WantsLock, GateHeldForTransaction, LockUnderGate
<1>8. ASSUME NEW c \in Conns, GateTimeout(c) PROVE GateInv'
  <2>1. /\ stage[c] = "queued" /\ Abandon(c)
        /\ stage' = [stage EXCEPT ![c] = "idle"] /\ stmt' = [stmt EXCEPT ![c] = "none"]
        /\ UNCHANGED <<gate_held, in_fiber, tx, lock>>
    BY <1>8 DEF GateTimeout
  <2>2. /\ TurnsAccounted'
        /\ next' \in Nat /\ serving' \in 0 .. next' /\ abandoned' \subseteq Nat
        /\ ticket' \in [Conns -> Nat]
    BY <2>1, AbandonTurns
  <2>3. TypeOK' BY <2>1, <2>2 DEF TypeOK, Stages
  <2> QED BY <2>1, <2>2, <2>3
          DEF TypeOK, StageHolds, WantsLock, GateHeldForTransaction, LockUnderGate
<1>9. ASSUME NEW c \in Conns, Step(c) PROVE GateInv'
  <2>1. /\ stage[c] = "step" /\ stage' = [stage EXCEPT ![c] = "after"]
        /\ UNCHANGED <<gateVars, gate_held, in_fiber, stmt, ticket>>
    BY <1>9 DEF Step, StepRead, StepWrite, StepCommit, StepError
  <2>2. TurnsAccounted' BY <2>1, TurnsSame DEF TypeOK
  <2>3. /\ tx' \in [Conns -> BOOLEAN] /\ \A d \in Conns \ {c} : tx'[d] = tx[d]
        /\ lock' \in Conns \cup {Other, Nobody}
        /\ \A d \in Conns \ {c} : lock' = d => lock = d
        /\ lock' = c => tx'[c] /\ gate_held[c]
    <3>1. CASE StepRead(c) BY <2>1, <3>1 DEF StepRead, TypeOK, StageHolds, LockUnderGate
    <3>2. CASE StepWrite(c)
      BY <2>1, <3>2 DEF StepWrite, Busy, TypeOK, StageHolds, LockUnderGate
    <3>3. CASE StepCommit(c)
      BY <2>1, <3>3, GateAssumption DEF StepCommit, TypeOK, StageHolds, LockUnderGate
    <3>4. CASE StepError(c)
      BY <2>1, <3>4, GateAssumption DEF StepError, TypeOK, StageHolds, LockUnderGate
    <3> QED BY <1>9, <3>1, <3>2, <3>3, <3>4 DEF Step
  <2>4. TypeOK' BY <2>1, <2>3 DEF TypeOK, Stages
  <2> QED BY <2>1, <2>2, <2>3, <2>4
          DEF TypeOK, StageHolds, WantsLock, GateHeldForTransaction, LockUnderGate
<1>10. ASSUME NEW c \in Conns, After(c) PROVE GateInv'
  <2>1. /\ stage[c] = "after" /\ stage' = [stage EXCEPT ![c] = "idle"]
        /\ stmt' = [stmt EXCEPT ![c] = "none"] /\ in_fiber' = [in_fiber EXCEPT ![c] = FALSE]
        /\ UNCHANGED <<tx, lock>>
    BY <1>10 DEF After
  <2>2. CASE EndsGate(c)
    <3>1. LeaveGate(c) /\ gate_held[c] /\ ~tx[c]
      BY <1>10, <2>2, Zenon DEF After, EndsGate
    <3>2. gate_held' = [gate_held EXCEPT ![c] = FALSE]
      BY <3>1 DEF LeaveGate
    <3>3. /\ TurnsAccounted'
          /\ next' \in Nat /\ serving' \in 0 .. next' /\ abandoned' \subseteq Nat
          /\ gate_held' \in [Conns -> BOOLEAN] /\ ticket' \in [Conns -> Nat]
      BY <2>1, <3>1, LeaveGateTurns DEF TypeOK
    <3>4. TypeOK' BY <2>1, <3>3 DEF TypeOK, Stages
    <3> QED BY <2>1, <3>1, <3>2, <3>3, <3>4
            DEF TypeOK, StageHolds, WantsLock, GateHeldForTransaction, LockUnderGate
  <2>3. CASE ~EndsGate(c)
    <3>1. UNCHANGED <<gateVars, gate_held, ticket>>
      BY <1>10, <2>3, Zenon DEF After
    <3>2. TurnsAccounted' BY <2>1, <3>1, TurnsSame DEF TypeOK
    <3>3. TypeOK' BY <2>1, <3>1 DEF TypeOK, Stages
    <3>4. gate_held[c] => tx[c] BY <2>3 DEF EndsGate
    <3> QED BY <2>1, <3>1, <3>2, <3>3, <3>4
            DEF TypeOK, StageHolds, WantsLock, GateHeldForTransaction, LockUnderGate
  <2> QED BY <2>2, <2>3
<1>11. ASSUME NEW c \in Conns, CloseRelease(c) PROVE GateInv'
  <2>1. /\ stage[c] = "idle" /\ stage' = [stage EXCEPT ![c] = "closing"]
        /\ UNCHANGED <<in_fiber, tx, stmt, lock>>
    BY <1>11 DEF CloseRelease
  <2>2. CASE gate_held[c]
    <3>1. LeaveGate(c)
      BY <1>11, <2>2, Zenon DEF CloseRelease
    <3>2. gate_held' = [gate_held EXCEPT ![c] = FALSE]
      BY <3>1 DEF LeaveGate
    <3>3. /\ TurnsAccounted'
          /\ next' \in Nat /\ serving' \in 0 .. next' /\ abandoned' \subseteq Nat
          /\ gate_held' \in [Conns -> BOOLEAN] /\ ticket' \in [Conns -> Nat]
      BY <2>1, <2>2, <3>1, LeaveGateTurns DEF TypeOK
    <3>4. TypeOK' BY <2>1, <3>3 DEF TypeOK, Stages
    <3> QED BY <2>1, <3>2, <3>3, <3>4
            DEF TypeOK, StageHolds, WantsLock, GateHeldForTransaction, LockUnderGate
  <2>3. CASE ~gate_held[c]
    <3>1. UNCHANGED <<gateVars, gate_held, ticket>>
      BY <1>11, <2>3, Zenon DEF CloseRelease
    <3>2. TurnsAccounted' BY <2>1, <3>1, TurnsSame DEF TypeOK
    <3>3. TypeOK' BY <2>1, <3>1 DEF TypeOK, Stages
    <3> QED BY <2>1, <2>3, <3>1, <3>2, <3>3
            DEF TypeOK, StageHolds, WantsLock, GateHeldForTransaction, LockUnderGate
  <2> QED BY <2>2, <2>3
<1>12. ASSUME NEW c \in Conns, CloseDb(c) PROVE GateInv'
  <2>1. TurnsAccounted' BY <1>12, TurnsSame DEF CloseDb, TypeOK
  <2>2. TypeOK' BY <1>12 DEF CloseDb, TypeOK, Stages
  <2> QED BY <1>12, <2>1, <2>2, GateAssumption
          DEF CloseDb, TypeOK, StageHolds, WantsLock, GateHeldForTransaction, LockUnderGate
<1>13. CASE OtherProgram
  <2>1. TurnsAccounted' BY <1>13, TurnsSame DEF OtherProgram
  <2>2. TypeOK' BY <1>13 DEF OtherProgram, TypeOK
  <2> QED BY <1>13, <2>1, <2>2, GateAssumption
          DEF OtherProgram, StageHolds, WantsLock, GateHeldForTransaction, LockUnderGate
<1>14. CASE UNCHANGED vars
  <2>1. TurnsAccounted' BY <1>14, TurnsSame DEF vars
  <2> QED BY <1>14, <2>1
          DEF vars, TypeOK, StageHolds, WantsLock, GateHeldForTransaction, LockUnderGate
<1> QED BY <1>1, <1>2, <1>3, <1>4, <1>5, <1>6, <1>7, <1>8, <1>9, <1>10, <1>11, <1>12,
           <1>13, <1>14 DEF Next, Progress

LEMMA GateInvariant == Spec => []GateInv
BY GateInit, GateStep, PTL DEF Spec

\* Every variable keeps its type, and serving never overtakes next.
THEOREM GateTypeCorrect == Spec => []TypeOK
<1>1. GateInv => TypeOK BY DEF GateInv
<1> QED BY <1>1, GateInvariant, PTL

\* No turn of SqliteWriteGate is lost, given twice or left to a ticket nobody
\* will release, however writers queue, time out, fail or are closed.
THEOREM GateTurnsAccounted == Spec => []TurnsAccounted
<1>1. GateInv => TurnsAccounted BY DEF GateInv
<1> QED BY <1>1, GateInvariant, PTL

\* SQLite's write lock is only ever kept under the gate (until close), and
\* between two calls the gate is kept only for an open transaction.
THEOREM GateAndLock == Spec => []GateMatchesLock
<1>1. GateInv => GateMatchesLock BY DEF GateInv, GateMatchesLock
<1> QED BY <1>1, GateInvariant, PTL

\* A statement of this process never waits in on_busy for a connection of
\* this process that is at work: both would hold the gate.
THEOREM GateBusyOnlyForOthers == Spec => []BusyOnlyForOthers
<1>1. GateInv => BusyOnlyForOthers
  <2> SUFFICES ASSUME GateInv, NEW c \in Conns, Busy(c), lock # Other
               PROVE  \E d \in Conns : lock = d /\ stage[d] = "closing"
    BY DEF BusyOnlyForOthers
  <2>1. PICK d \in Conns : lock = d /\ d # c
    BY DEF GateInv, TypeOK, Busy
  <2>2. gate_held[c]
    BY DEF GateInv, StageHolds, Busy
  <2>3. ~gate_held[d]
    <3> SUFFICES ASSUME gate_held[d] PROVE FALSE
      OBVIOUS
    <3>1. ticket[c] = serving /\ ticket[d] = serving
      BY <2>2 DEF GateInv, TurnsAccounted
    <3>2. Owns(c, ticket[c]) /\ Owns(d, ticket[c])
      BY <2>2, <3>1 DEF Owns
    <3> QED BY <2>1, <3>2 DEF GateInv, TurnsAccounted
  <2> QED BY <2>1, <2>3 DEF GateInv, LockUnderGate
<1> QED BY <1>1, GateInvariant, PTL

-----------------------------------------------------------------------------
(***************************************************************************)
(* The slots of parallel().                                                *)
(***************************************************************************)
\* No spawn loses its slot: only the interpreter's, which has the catch, may
\* fail after task_acquire.
NoLeak == MayFail \subseteq {"interpreter"}

\* A task_release that ends its thread is a task's.
OnlyTasksEnd == \A t \in Threads : back[t] = "ended" => t \in Tasks

\* What remains of SlotsAccounted when slots may leak.
SlotsCovered == Cardinality(Running) + Cardinality(Ahead) <= s_count

\* The inductive invariant.  WithinLimit needs SlotsCovered: a fetch_add that
\* finds a value below the limit has found no more tasks and winners than
\* that.
SlotInv == /\ SlotsTypeOK /\ OnlyTasksEnd
           /\ SlotsCovered /\ (NoLeak => SlotsAccounted) /\ WithinLimit

-----------------------------------------------------------------------------
\* The three sets are finite, and winners are ahead.
LEMMA SetsFinite ==
    /\ IsFiniteSet(Threads)
    /\ IsFiniteSet(Running) /\ IsFiniteSet(Ahead) /\ IsFiniteSet(Winners)
    /\ Cardinality(Running) \in Nat /\ Cardinality(Ahead) \in Nat
    /\ Cardinality(Winners) \in Nat /\ Cardinality(Winners) <= Cardinality(Ahead)
<1>1. IsFiniteSet(Threads)
  BY SlotAssumption, FS_Union DEF Threads
<1>2. Running \in SUBSET Threads /\ Ahead \in SUBSET Threads /\ Winners \in SUBSET Ahead
  BY DEF Running, Ahead, Winners, Threads
<1>3. IsFiniteSet(Running) /\ IsFiniteSet(Ahead)
  BY <1>1, <1>2, FS_Subset
<1>4. IsFiniteSet(Winners) /\ Cardinality(Winners) <= Cardinality(Ahead)
  BY <1>2, <1>3, FS_Subset
<1> QED BY <1>1, <1>3, <1>4, FS_CardinalityType

\* A step that changes none of the three sets, nor the counter.
LEMMA NobodyMoves ==
    ASSUME SlotInv, s_count' = s_count,
           Running' = Running, Ahead' = Ahead, Winners' = Winners
    PROVE  SlotsCovered' /\ (NoLeak => SlotsAccounted') /\ WithinLimit'
BY DEF SlotInv, SlotsCovered, SlotsAccounted, WithinLimit

\* A thread takes its place ahead of a task: fetch_add.
LEMMA JoinsAhead ==
    ASSUME SlotInv, NEW t, t \notin Ahead, s_count' = s_count + 1,
           Running' = Running, Ahead' = Ahead \cup {t},
           Winners' = IF s_count < Limit THEN Winners \cup {t} ELSE Winners
    PROVE  SlotsCovered' /\ (NoLeak => SlotsAccounted') /\ WithinLimit'
<1>1. Cardinality(Ahead \cup {t}) = Cardinality(Ahead) + 1
  BY SetsFinite, FS_AddElement
<1>2. t \notin Winners
  BY DEF Winners
<1>3. Cardinality(Winners \cup {t}) = Cardinality(Winners) + 1
  BY <1>2, SetsFinite, FS_AddElement
<1>4. s_count \in Nat /\ Limit \in Nat
  BY SlotAssumption DEF SlotInv, SlotsTypeOK
<1>5. SlotsCovered' /\ (NoLeak => SlotsAccounted')
  BY <1>1, <1>4, SetsFinite DEF SlotInv, SlotsCovered, SlotsAccounted
<1>6. WithinLimit'
  <2>1. CASE s_count < Limit
    <3>1. Winners' = Winners \cup {t}
      BY <2>1
    <3> QED BY <3>1, <1>3, <1>4, <2>1, SetsFinite DEF SlotInv, SlotsCovered, WithinLimit
  <2>2. CASE ~(s_count < Limit)
    <3>1. Winners' = Winners
      BY <2>2
    <3> QED BY <3>1 DEF SlotInv, WithinLimit
  <2> QED BY <2>1, <2>2
<1> QED BY <1>5, <1>6

\* A thread leaves its place ahead and takes its count back.
LEMMA LeavesAhead ==
    ASSUME SlotInv, NEW t, t \in Ahead, s_count' = s_count - 1,
           Running' = Running, Ahead' = Ahead \ {t}, Winners' = Winners \ {t}
    PROVE  /\ s_count' \in Nat
           /\ SlotsCovered' /\ (NoLeak => SlotsAccounted') /\ WithinLimit'
<1>1. Cardinality(Ahead \ {t}) = Cardinality(Ahead) - 1
  BY SetsFinite, FS_RemoveElement
<1>2. Cardinality(Winners \ {t}) <= Cardinality(Winners) /\ Cardinality(Winners \ {t}) \in Nat
  <2>1. Winners \ {t} \in SUBSET Winners
    OBVIOUS
  <2> QED BY <2>1, SetsFinite, FS_Subset, FS_CardinalityType
<1>3. s_count \in Nat /\ Limit \in Nat /\ Cardinality(Ahead) # 0
  BY SlotAssumption, SetsFinite, FS_EmptySet DEF SlotInv, SlotsTypeOK
<1>4. s_count' \in Nat
  BY <1>3, SetsFinite DEF SlotInv, SlotsCovered
<1>5. SlotsCovered' /\ (NoLeak => SlotsAccounted')
  BY <1>1, <1>3, SetsFinite DEF SlotInv, SlotsCovered, SlotsAccounted
<1>6. WithinLimit'
  BY <1>2, <1>3, SetsFinite DEF SlotInv, WithinLimit
<1> QED BY <1>4, <1>5, <1>6

\* A winner's slot becomes the slot of the task it has started.
LEMMA BecomesTask ==
    ASSUME SlotInv, NEW t, NEW k, t \in Winners, k \notin Running, s_count' = s_count,
           Running' = Running \cup {k}, Ahead' = Ahead \ {t}, Winners' = Winners \ {t}
    PROVE  SlotsCovered' /\ (NoLeak => SlotsAccounted') /\ WithinLimit'
<1>1. t \in Ahead
  BY DEF Winners
<1>2. Cardinality(Ahead \ {t}) = Cardinality(Ahead) - 1
  BY <1>1, SetsFinite, FS_RemoveElement
<1>3. Cardinality(Winners \ {t}) = Cardinality(Winners) - 1
  BY SetsFinite, FS_RemoveElement
<1>4. Cardinality(Running \cup {k}) = Cardinality(Running) + 1
  BY SetsFinite, FS_AddElement
<1>5. s_count \in Nat /\ Limit \in Nat
  BY SlotAssumption DEF SlotInv, SlotsTypeOK
<1> QED BY <1>2, <1>3, <1>4, <1>5, SetsFinite
        DEF SlotInv, SlotsCovered, SlotsAccounted, WithinLimit

\* The fetch_sub of a task's TaskGuard.
LEMMA LeavesRunning ==
    ASSUME SlotInv, NEW t, t \in Running, s_count' = s_count - 1,
           Running' = Running \ {t}, Ahead' = Ahead, Winners' = Winners
    PROVE  /\ s_count' \in Nat
           /\ SlotsCovered' /\ (NoLeak => SlotsAccounted') /\ WithinLimit'
<1>1. Cardinality(Running \ {t}) = Cardinality(Running) - 1
  BY SetsFinite, FS_RemoveElement
<1>2. s_count \in Nat /\ Limit \in Nat /\ Cardinality(Running) # 0
  BY SlotAssumption, SetsFinite, FS_EmptySet DEF SlotInv, SlotsTypeOK
<1>3. s_count' \in Nat
  BY <1>2, SetsFinite DEF SlotInv, SlotsCovered
<1> QED BY <1>1, <1>2, <1>3, SetsFinite
        DEF SlotInv, SlotsCovered, SlotsAccounted, WithinLimit

-----------------------------------------------------------------------------
LEMMA SlotInit == InitSlots => SlotInv
<1> SUFFICES ASSUME InitSlots PROVE SlotInv
  OBVIOUS
<1>1. SlotsTypeOK
  <2>1. drained \in [Threads -> BOOLEAN]
    BY Zenon DEF InitSlots
  <2> QED BY <2>1 DEF InitSlots, SlotsTypeOK, Places
<1>2. Running = {} /\ Ahead = {} /\ Winners = {}
  BY SlotAssumption DEF InitSlots, Running, Ahead, Winners, Threads
<1>3. s_count = 0 /\ Limit \in Nat /\ OnlyTasksEnd
  BY SlotAssumption DEF InitSlots, OnlyTasksEnd
<1> QED BY <1>1, <1>2, <1>3, FS_EmptySet
        DEF SlotInv, SlotsCovered, SlotsAccounted, WithinLimit

\* The places a thread passes through without touching the counter or the
\* three sets.
LEMMA QuietMove ==
    ASSUME SlotInv, NEW t \in Threads, NEW p \in Places,
           Goto(t, p), UNCHANGED <<s_count, val, back>>, drained' \in [Threads -> BOOLEAN],
           {pc[t], p} \subseteq {"body", "waiting", "checked", "asleep", "exited"}
             \/ (pc[t] = "added" /\ p = "building" /\ Within(t))
    PROVE  SlotInv'
<1> USE DEF SlotInv, Goto
<1>1. pc \in [Threads -> Places] /\ pc' = [pc EXCEPT ![t] = p]
  BY DEF SlotsTypeOK
<1>2. SlotsTypeOK'
  BY <1>1 DEF SlotsTypeOK
<1>3. OnlyTasksEnd'
  BY DEF OnlyTasksEnd
<1>4. Running' = Running
  BY <1>1 DEF Running, Threads
<1>5. Ahead' = Ahead
  BY <1>1 DEF Ahead
<1>6. Winners' = Winners
  BY <1>1, <1>5 DEF Winners, Within, Ahead
<1> QED BY <1>2, <1>3, <1>4, <1>5, <1>6, NobodyMoves

LEMMA FetchAddStep ==
    ASSUME SlotInv, NEW t \in Threads, FetchAdd(t) PROVE SlotInv'
<1> USE DEF SlotInv, FetchAdd, Goto
<1>1. /\ pc \in [Threads -> Places] /\ val \in [Threads -> Int] /\ s_count \in Nat
      /\ pc[t] = "body" /\ pc' = [pc EXCEPT ![t] = "added"]
      /\ val' = [val EXCEPT ![t] = s_count]
      /\ UNCHANGED <<back, drained>> /\ s_count' = s_count + 1
  BY DEF SlotsTypeOK
<1>2. SlotsTypeOK'
  <2>1. pc' \in [Threads -> Places] /\ val' \in [Threads -> Int] /\ s_count' \in Nat
    BY <1>1 DEF Places
  <2> QED BY <1>1, <2>1 DEF SlotsTypeOK
<1>3. OnlyTasksEnd'
  BY <1>1 DEF OnlyTasksEnd
<1>4. Running' = Running
  BY <1>1 DEF Running, Threads
<1>5. Ahead' = Ahead \cup {t} /\ t \notin Ahead
  BY <1>1 DEF Ahead
<1>6. Winners' = IF s_count < Limit THEN Winners \cup {t} ELSE Winners
  <2>1. \A u \in Ahead : u # t /\ pc'[u] = pc[u] /\ (Within(u)' <=> Within(u))
    BY <1>1, <1>5 DEF Within, Ahead
  <2>2. pc'[t] = "added" /\ (Within(t)' <=> s_count < Limit)
    BY <1>1 DEF Within
  <2> QED BY <1>5, <2>1, <2>2 DEF Winners
<1> QED BY <1>1, <1>2, <1>3, <1>4, <1>5, <1>6, JoinsAhead

LEMMA RefusedStep ==
    ASSUME SlotInv, NEW t \in Threads, Refused(t) PROVE SlotInv'
<1> USE DEF SlotInv, Refused, Goto
<1>1. /\ pc \in [Threads -> Places] /\ s_count \in Nat
      /\ pc[t] = "added" /\ pc' = [pc EXCEPT ![t] = "body"]
      /\ UNCHANGED <<val, back, drained>> /\ s_count' = s_count - 1
  BY DEF SlotsTypeOK
<1>3. OnlyTasksEnd'
  BY <1>1 DEF OnlyTasksEnd
<1>4. Running' = Running
  BY <1>1 DEF Running, Threads
<1>5. Ahead' = Ahead \ {t} /\ t \in Ahead
  BY <1>1 DEF Ahead
<1>6. Winners' = Winners \ {t}
  <2>1. \A u \in Ahead : u # t => pc'[u] = pc[u] /\ (Within(u)' <=> Within(u))
    BY <1>1 DEF Within, Ahead
  <2> QED BY <1>5, <2>1 DEF Winners
<1>7. /\ s_count' \in Nat
      /\ SlotsCovered' /\ (NoLeak => SlotsAccounted') /\ WithinLimit'
  BY <1>1, <1>4, <1>5, <1>6, LeavesAhead
<1>8. SlotsTypeOK'
  BY <1>1, <1>7 DEF SlotsTypeOK, Places
<1> QED BY <1>3, <1>7, <1>8

LEMMA StartStep ==
    ASSUME SlotInv, NEW t \in Threads, NEW k \in Tasks, Start(t, k) PROVE SlotInv'
<1> USE DEF SlotInv, Start
<1>1. /\ pc \in [Threads -> Places] /\ k \in Threads /\ k # t
      /\ pc[t] = "building" /\ pc[k] = "unborn"
      /\ pc' = [pc EXCEPT ![t] = "body", ![k] = "body"]
      /\ UNCHANGED <<s_count, val, back, drained>>
  BY DEF SlotsTypeOK, Threads
<1>2. SlotsTypeOK'
  BY <1>1 DEF SlotsTypeOK, Places
<1>3. OnlyTasksEnd'
  BY <1>1 DEF OnlyTasksEnd
<1>4. Running' = Running \cup {k} /\ k \notin Running
  BY <1>1 DEF Running, Threads
<1>5. Ahead' = Ahead \ {t} /\ t \in Ahead
  BY <1>1 DEF Ahead
<1>6. Winners' = Winners \ {t} /\ t \in Winners
  <2>1. \A u \in Ahead : u # t => pc'[u] = pc[u] /\ (Within(u)' <=> Within(u))
    BY <1>1 DEF Within, Ahead
  <2> QED BY <1>1, <1>5, <2>1 DEF Winners
<1>7. SlotsCovered' /\ (NoLeak => SlotsAccounted') /\ WithinLimit'
  BY <1>1, <1>4, <1>5, <1>6, BecomesTask
<1> QED BY <1>2, <1>3, <1>7

\* The interpreter keeps its place ahead until its task_release; a spawn of
\* the VM that fails leaves it without taking its count back.
LEMMA BuildFailsStep ==
    ASSUME SlotInv, NEW t \in Threads, BuildFails(t) PROVE SlotInv'
<1> USE DEF SlotInv, BuildFails, Goto
<1>1. PICK e \in MayFail :
        pc' = [pc EXCEPT ![t] = IF e = "interpreter" THEN "releasing" ELSE "body"]
  OBVIOUS
<1>2. /\ pc \in [Threads -> Places] /\ back \in [Threads -> {"body", "ended"}]
      /\ pc[t] = "building" /\ back' = [back EXCEPT ![t] = "body"]
      /\ UNCHANGED <<s_count, val, drained>>
  BY DEF SlotsTypeOK
<1>3. SlotsTypeOK' /\ OnlyTasksEnd'
  <2>1. pc' \in [Threads -> Places] /\ back' \in [Threads -> {"body", "ended"}]
    BY <1>1, <1>2 DEF Places
  <2>2. SlotsTypeOK'
    BY <1>2, <2>1 DEF SlotsTypeOK
  <2> QED BY <1>2, <2>2 DEF OnlyTasksEnd
<1>4. \A u \in Threads : u # t => pc'[u] = pc[u] /\ back'[u] = back[u]
  BY <1>1, <1>2
<1>5. t \in Ahead /\ t \in Winners
  BY <1>2 DEF Ahead, Winners
<1>6. CASE e = "interpreter"
  <2>1. pc'[t] = "releasing" /\ back'[t] = "body"
    BY <1>1, <1>2, <1>6
  <2>2. Running' = Running
    BY <1>2, <1>4, <2>1 DEF Running, Threads
  <2>3. Ahead' = Ahead
    BY <1>2, <1>4, <2>1 DEF Ahead
  <2>4. \A u \in Threads : Within(u)' <=> Within(u)
    BY <1>2 DEF Within
  <2>5. Winners' = Winners
    BY <1>2, <1>4, <2>1, <2>3, <2>4 DEF Winners, Ahead
  <2> QED BY <1>2, <1>3, <2>2, <2>3, <2>5, NobodyMoves
<1>7. CASE e # "interpreter"
  <2>1. pc'[t] = "body" /\ back'[t] = "body"
    BY <1>1, <1>2, <1>7
  <2>2. Running' = Running
    BY <1>2, <1>4, <2>1 DEF Running, Threads
  <2>3. Ahead' = Ahead \ {t}
    BY <1>2, <1>4, <2>1 DEF Ahead
  <2>4. \A u \in Threads : Within(u)' <=> Within(u)
    BY <1>2 DEF Within
  <2>5. Winners' = Winners \ {t}
    BY <1>2, <1>4, <2>1, <2>3, <2>4 DEF Winners, Ahead
  <2>6. /\ Cardinality(Ahead \ {t}) = Cardinality(Ahead) - 1
        /\ Cardinality(Winners \ {t}) = Cardinality(Winners) - 1
    BY <1>5, SetsFinite, FS_RemoveElement
  <2>7. s_count \in Nat /\ Limit \in Nat
    BY SlotAssumption DEF SlotsTypeOK
  <2>8. SlotsCovered' /\ WithinLimit'
    BY <1>2, <2>2, <2>3, <2>5, <2>6, <2>7, SetsFinite DEF SlotsCovered, WithinLimit
  <2>9. ~NoLeak
    BY <1>7 DEF NoLeak
  <2> QED BY <1>3, <2>8, <2>9
<1> QED BY <1>6, <1>7

LEMMA BodyEndsStep ==
    ASSUME SlotInv, NEW t \in Threads, BodyEnds(t) PROVE SlotInv'
<1> USE DEF SlotInv, BodyEnds, Goto
<1>1. /\ pc \in [Threads -> Places] /\ back \in [Threads -> {"body", "ended"}]
      /\ t \in Tasks /\ pc[t] = "body" /\ pc' = [pc EXCEPT ![t] = "releasing"]
      /\ back' = [back EXCEPT ![t] = "ended"]
      /\ UNCHANGED <<s_count, val, drained>>
  BY DEF SlotsTypeOK
<1>2. SlotsTypeOK' /\ OnlyTasksEnd'
  <2>1. pc' \in [Threads -> Places] /\ back' \in [Threads -> {"body", "ended"}]
    BY <1>1 DEF Places
  <2>2. SlotsTypeOK'
    BY <1>1, <2>1 DEF SlotsTypeOK
  <2> QED BY <1>1, <2>2 DEF OnlyTasksEnd
<1>3. Running' = Running
  BY <1>1 DEF Running, Threads
<1>4. Ahead' = Ahead
  BY <1>1 DEF Ahead
<1>5. Winners' = Winners
  BY <1>1, <1>4 DEF Winners, Within, Ahead
<1> QED BY <1>1, <1>2, <1>3, <1>4, <1>5, NobodyMoves

LEMMA FetchSubStep ==
    ASSUME SlotInv, NEW t \in Threads, FetchSub(t) PROVE SlotInv'
<1> USE DEF SlotInv, FetchSub, Goto
<1>1. /\ pc \in [Threads -> Places] /\ back \in [Threads -> {"body", "ended"}]
      /\ val \in [Threads -> Int] /\ s_count \in Nat
      /\ pc[t] = "releasing" /\ pc' = [pc EXCEPT ![t] = "subbed"]
      /\ s_count' = s_count - 1 /\ val' = [val EXCEPT ![t] = s_count - 1]
      /\ UNCHANGED <<back, drained>>
  BY DEF SlotsTypeOK
<1>2. \A u \in Threads : u # t => pc'[u] = pc[u] /\ (Within(u)' <=> Within(u))
  BY <1>1 DEF Within
<1>3. pc'[t] = "subbed"
  BY <1>1
<1>4. s_count' \in Nat /\ SlotsCovered' /\ (NoLeak => SlotsAccounted') /\ WithinLimit'
  <2>1. CASE back[t] = "body"
    <3>1. Running' = Running
      BY <1>1, <1>2, <1>3, <2>1 DEF Running, Threads
    <3>2. Ahead' = Ahead \ {t} /\ t \in Ahead
      BY <1>1, <1>2, <1>3, <2>1 DEF Ahead
    <3>3. Winners' = Winners \ {t}
      BY <1>2, <3>2 DEF Winners, Ahead
    <3> QED BY <1>1, <3>1, <3>2, <3>3, LeavesAhead
  <2>2. CASE back[t] = "ended"
    <3>1. t \in Tasks
      BY <2>2 DEF OnlyTasksEnd
    <3>2. Running' = Running \ {t} /\ t \in Running
      BY <1>1, <1>2, <1>3, <2>2, <3>1 DEF Running, Threads
    <3>3. Ahead' = Ahead /\ t \notin Ahead
      BY <1>1, <1>2, <1>3, <2>2 DEF Ahead
    <3>4. Winners' = Winners
      BY <1>2, <3>3 DEF Winners, Ahead
    <3> QED BY <1>1, <3>2, <3>3, <3>4, LeavesRunning
  <2> QED BY <1>1, <2>1, <2>2
<1>5. SlotsTypeOK'
  <2>1. pc' \in [Threads -> Places] /\ val' \in [Threads -> Int]
    BY <1>1 DEF Places
  <2> QED BY <1>1, <1>4, <2>1 DEF SlotsTypeOK
<1>6. OnlyTasksEnd'
  BY <1>1 DEF OnlyTasksEnd
<1> QED BY <1>4, <1>5, <1>6

\* Both notifications: sleepers wake up and the releasing thread moves on.
LEMMA NotifyStep ==
    ASSUME SlotInv, NEW t \in Threads, NEW S \in SUBSET Asleep, NEW p,
           pc[t] \in {"subbed", "notify"}, p = "notify" \/ p = back[t],
           \A u \in Threads : pc'[u] = IF u \in S THEN "waiting" ELSE IF u = t THEN p ELSE pc[u],
           pc' \in [Threads -> Places], UNCHANGED <<s_count, val, back, drained>>
    PROVE  SlotInv'
<1> USE DEF SlotInv
<1>1. SlotsTypeOK' /\ OnlyTasksEnd'
  BY DEF SlotsTypeOK, OnlyTasksEnd
<1>2. back[t] \in {"body", "ended"} /\ t \notin S
  BY DEF SlotsTypeOK, Asleep
<1>3. \A u \in S : pc[u] = "asleep" /\ pc'[u] = "waiting"
  BY DEF Asleep
<1>4. pc'[t] = p
  BY <1>2
<1>5. \A u \in Threads : u \notin S /\ u # t => pc'[u] = pc[u]
  OBVIOUS
<1>6. Running' = Running
  <2>1. t \in Tasks => (t \in Running' <=> t \in Running)
    BY <1>2, <1>4 DEF Running
  <2>2. \A u \in Tasks : u \in S => (u \in Running' <=> u \in Running)
    BY <1>3 DEF Running
  <2>3. \A u \in Tasks : u \notin S /\ u # t => (u \in Running' <=> u \in Running)
    BY <1>5 DEF Running, Threads
  <2> QED BY <2>1, <2>2, <2>3 DEF Running
<1>7. \A u \in Threads : /\ u \in Ahead' <=> u \in Ahead
                         /\ u \in Ahead => pc'[u] = pc[u]
  BY <1>2, <1>3, <1>4, <1>5 DEF Ahead
<1>8. Ahead' = Ahead
  BY <1>7 DEF Ahead
<1>9. Winners' = Winners
  BY <1>7, <1>8 DEF Winners, Within, Ahead
<1> QED BY <1>1, <1>6, <1>8, <1>9, NobodyMoves

LEMMA NotifyOneStep ==
    ASSUME SlotInv, NEW t \in Threads, NotifyOne(t) PROVE SlotInv'
<1>1. /\ pc \in [Threads -> Places] /\ back \in [Threads -> {"body", "ended"}]
      /\ pc[t] = "subbed" /\ UNCHANGED <<s_count, val, back, drained>>
  BY DEF SlotInv, SlotsTypeOK, NotifyOne
<1>2. PICK p \in Places : /\ p = "notify" \/ p = back[t]
                          /\ \/ \E u \in Asleep : pc' = Woken({u}, t, p)
                             \/ pc' = [pc EXCEPT ![t] = p]
  <2> DEFINE place == IF val[t] <= 0 THEN "notify" ELSE back[t]
  <2>1. place \in Places /\ (place = "notify" \/ place = back[t])
    BY <1>1 DEF Places
  <2>2. (\E u \in Asleep : pc' = Woken({u}, t, place)) \/ pc' = [pc EXCEPT ![t] = place]
    BY Zenon DEF NotifyOne, Goto
  <2> HIDE DEF place
  <2> QED BY <2>1, <2>2
<1>3. CASE \E u \in Asleep : pc' = Woken({u}, t, p)
  <2>1. PICK u \in Asleep : pc' = Woken({u}, t, p)
    BY <1>3
  <2>2. pc' \in [Threads -> Places]
    BY <1>1, <2>1 DEF Woken, Places
  <2>3. PICK S \in SUBSET Asleep : S = {u}
    OBVIOUS
  <2>4. \A v \in Threads : pc'[v] = IF v \in S THEN "waiting" ELSE IF v = t THEN p ELSE pc[v]
    BY <2>1, <2>3 DEF Woken
  <2> QED BY <1>1, <1>2, <2>2, <2>4, NotifyStep
<1>4. CASE pc' = [pc EXCEPT ![t] = p]
  <2>1. pc' \in [Threads -> Places]
    BY <1>1, <1>4
  <2>2. PICK S \in SUBSET Asleep : S = {}
    OBVIOUS
  <2>3. \A v \in Threads : pc'[v] = IF v \in S THEN "waiting" ELSE IF v = t THEN p ELSE pc[v]
    BY <1>1, <1>4, <2>2
  <2>4. /\ pc[t] \in {"subbed", "notify"} /\ (p = "notify" \/ p = back[t])
        /\ UNCHANGED <<s_count, val, back, drained>>
    BY <1>1, <1>2
  <2> HIDE <1>4
  <2> QED BY <2>1, <2>3, <2>4, NotifyStep
<1> QED BY <1>2, <1>3, <1>4

LEMMA NotifyAllStep ==
    ASSUME SlotInv, NEW t \in Threads, NotifyAll(t) PROVE SlotInv'
<1>1. /\ pc \in [Threads -> Places] /\ back \in [Threads -> {"body", "ended"}]
      /\ pc[t] = "notify" /\ UNCHANGED <<s_count, val, back, drained>>
      /\ pc' = Woken(Asleep, t, back[t])
  BY DEF SlotInv, SlotsTypeOK, NotifyAll
<1>2. pc' \in [Threads -> Places]
  BY <1>1 DEF Woken, Places
<1>3. \A v \in Threads : pc'[v] = IF v \in Asleep THEN "waiting" ELSE IF v = t THEN back[t] ELSE pc[v]
  BY <1>1 DEF Woken
<1> QED BY <1>1, <1>2, <1>3, NotifyStep

\* task_wait.
LEMMA WaitStep ==
    ASSUME SlotInv, NEW t \in Threads, Wait(t) \/ WaitTimeout(t) PROVE SlotInv'
<1> USE DEF SlotInv
<1>1. drained \in [Threads -> BOOLEAN] /\ (s_count <= 0) \in BOOLEAN
  BY DEF SlotsTypeOK
<1>2. AfterWait(t) \in {"body", "exited"}
  BY DEF AfterWait
<1>3. CASE WaitCall(t)
  BY <1>1, <1>3, QuietMove DEF WaitCall, Places
<1>4. CASE WaitDone(t)
  <2>1. drained' \in [Threads -> BOOLEAN]
    BY <1>1, <1>4, Zenon DEF WaitDone
  <2>2. /\ Goto(t, AfterWait(t)) /\ UNCHANGED <<s_count, val, back>>
        /\ pc[t] = "waiting"
    BY <1>4 DEF WaitDone
  <2>3. /\ AfterWait(t) \in Places
        /\ {pc[t], AfterWait(t)} \subseteq {"body", "waiting", "checked", "asleep", "exited"}
    BY <1>2, <2>2 DEF Places
  <2> QED BY <2>1, <2>2, <2>3, QuietMove
<1>5. CASE WaitCheck(t)
  BY <1>1, <1>5, QuietMove DEF WaitCheck, Places
<1>6. CASE WaitSleep(t)
  BY <1>1, <1>6, QuietMove DEF WaitSleep, Places
<1>7. CASE WaitTimeout(t)
  <2>1. drained' \in [Threads -> BOOLEAN]
    BY <1>1, <1>7, Zenon DEF WaitTimeout
  <2>2. /\ Goto(t, AfterWait(t)) /\ UNCHANGED <<s_count, val, back>>
        /\ pc[t] = "asleep"
    BY <1>7 DEF WaitTimeout
  <2>3. /\ AfterWait(t) \in Places
        /\ {pc[t], AfterWait(t)} \subseteq {"body", "waiting", "checked", "asleep", "exited"}
    BY <1>2, <2>2 DEF Places
  <2> QED BY <2>1, <2>2, <2>3, QuietMove
<1> QED BY <1>3, <1>4, <1>5, <1>6, <1>7 DEF Wait

LEMMA AcquiredStep ==
    ASSUME SlotInv, NEW t \in Threads, Acquired(t) PROVE SlotInv'
<1>1. drained' \in [Threads -> BOOLEAN]
  BY DEF Acquired, SlotInv, SlotsTypeOK
<1> QED BY <1>1, QuietMove DEF Acquired, Places

LEMMA SlotStep == SlotInv /\ [NextSlots]_slotVars => SlotInv'
<1> SUFFICES ASSUME SlotInv, [NextSlots]_slotVars PROVE SlotInv'
  OBVIOUS
<1>1. CASE UNCHANGED slotVars
  BY <1>1 DEF slotVars, SlotInv, SlotsTypeOK, OnlyTasksEnd, SlotsCovered, SlotsAccounted,
              WithinLimit, Running, Ahead, Winners, Within
<1>2. CASE NextSlots
  <2>1. PICK t \in Threads : Spawn(t) \/ BodyEnds(t) \/ ReleaseSlot(t) \/ Wait(t) \/ WaitTimeout(t)
    BY <1>2 DEF NextSlots
  <2>2. CASE Spawn(t)
    BY <2>2, FetchAddStep, AcquiredStep, RefusedStep, StartStep, BuildFailsStep DEF Spawn
  <2>3. CASE ReleaseSlot(t)
    BY <2>3, FetchSubStep, NotifyOneStep, NotifyAllStep DEF ReleaseSlot
  <2> QED BY <2>1, <2>2, <2>3, BodyEndsStep, WaitStep
<1> QED BY <1>1, <1>2

LEMMA SlotInvariant == SpecSlots => []SlotInv
<1> QED BY SlotInit, SlotStep, PTL DEF SpecSlots

\* Types, and no fetch_sub without its fetch_add: the counter is never
\* negative.
THEOREM SlotTypeCorrect == SpecSlots => []SlotsTypeOK
<1>1. SlotInv => SlotsTypeOK BY DEF SlotInv
<1> QED BY <1>1, SlotInvariant, PTL

\* Whatever the engines and their failures, parallel() never lets more than
\* task_limit() tasks have a slot, although the test comes after the
\* fetch_add.
THEOREM LimitKept == SpecSlots => []WithinLimit
<1>1. SlotInv => WithinLimit BY DEF SlotInv
<1> QED BY <1>1, SlotInvariant, PTL

\* When no spawn of the VM fails, the counter is exact at every step: every
\* task_acquire has its task_release.
THEOREM SlotsExact == SpecSlots => [](NoLeak => SlotsAccounted)
<1>1. SlotInv => (NoLeak => SlotsAccounted) BY DEF SlotInv
<1> QED BY <1>1, SlotInvariant, PTL

-----------------------------------------------------------------------------
(***************************************************************************)
(* The drain of a script: its thread, main, is the only one that is not a  *)
(* task.                                                                   *)
(***************************************************************************)

\* A task that runs no script code and will not: it has not been started, has
\* ended, or is behind the fetch_sub that ends it.
Quiet(t) == \/ pc[t] \in {"unborn", "ended"}
            \/ pc[t] \in {"subbed", "notify"} /\ back[t] = "ended"

\* main leaves task_wait, or leaves main(), only through task_wait's answer.
LEMMA MainStays ==
    ASSUME NEW main \in Handlers, SlotInv, NextSlots,
           ~WaitDone(main), ~WaitTimeout(main)
    PROVE  (pc'[main] = "exited" => pc[main] = "exited") /\ drained'[main] = drained[main]
<1>1. /\ pc \in [Threads -> Places] /\ back \in [Threads -> {"body", "ended"}]
      /\ drained \in [Threads -> BOOLEAN] /\ main \in Threads /\ main \notin Tasks
  BY SlotAssumption DEF SlotInv, SlotsTypeOK, Threads
<1>2. PICK t \in Threads : Spawn(t) \/ BodyEnds(t) \/ ReleaseSlot(t) \/ Wait(t) \/ WaitTimeout(t)
  BY DEF NextSlots
<1>3. CASE Spawn(t)
  <2>1. CASE FetchAdd(t) \/ Acquired(t) \/ Refused(t)
    BY <1>1, <2>1 DEF FetchAdd, Acquired, Refused, Goto
  <2>2. CASE \E k \in Tasks : Start(t, k)
    <3>1. PICK k \in Tasks : Start(t, k)
      BY <2>2
    <3> QED BY <1>1, <3>1 DEF Start
  <2>3. CASE BuildFails(t)
    BY <1>1, <2>3 DEF BuildFails, Goto
  <2> QED BY <1>3, <2>1, <2>2, <2>3 DEF Spawn
<1>4. CASE BodyEnds(t)
  BY <1>1, <1>4 DEF BodyEnds, Goto
<1>5. CASE ReleaseSlot(t)
  <2>1. CASE FetchSub(t)
    BY <1>1, <2>1 DEF FetchSub, Goto
  <2>2. CASE NotifyOne(t)
    <3>1. drained' = drained
      BY <2>2 DEF NotifyOne
    <3>2. PICK p \in {"notify", "body", "ended"} :
             \/ \E u \in Asleep : pc' = Woken({u}, t, p)
             \/ pc' = [pc EXCEPT ![t] = p]
      <4> DEFINE place == IF val[t] <= 0 THEN "notify" ELSE back[t]
      <4>1. place \in {"notify", "body", "ended"}
        BY <1>1
      <4>2. (\E u \in Asleep : pc' = Woken({u}, t, place)) \/ pc' = [pc EXCEPT ![t] = place]
        BY <2>2, Zenon DEF NotifyOne, Goto
      <4> HIDE DEF place
      <4> QED BY <4>1, <4>2
    <3> QED BY <1>1, <3>1, <3>2 DEF Woken
  <2>3. CASE NotifyAll(t)
    BY <1>1, <2>3 DEF NotifyAll, Woken
  <2> QED BY <1>5, <2>1, <2>2, <2>3 DEF ReleaseSlot
<1>6. CASE Wait(t) \/ WaitTimeout(t)
  <2>1. CASE WaitCall(t) \/ WaitCheck(t) \/ WaitSleep(t)
    BY <1>1, <2>1 DEF WaitCall, WaitCheck, WaitSleep, Goto
  <2>2. CASE WaitDone(t) \/ WaitTimeout(t)
    <3>1. t # main
      BY <2>2
    <3> QED BY <1>1, <2>2, <3>1 DEF WaitDone, WaitTimeout, Goto
  <2> QED BY <1>6, <2>1, <2>2 DEF Wait
<1> QED BY <1>2, <1>3, <1>4, <1>5, <1>6

\* Nothing starts again once main has left and no task has a slot.
LEMMA StaysQuiet ==
    ASSUME NEW main, Handlers = {main}, SlotInv, NextSlots,
           pc[main] = "exited", \A u \in Tasks : Quiet(u)
    PROVE  \A u \in Tasks : Quiet(u)'
<1>1. /\ pc \in [Threads -> Places] /\ Threads = Tasks \cup {main}
      /\ back \in [Threads -> {"body", "ended"}]
  BY DEF SlotInv, SlotsTypeOK, Threads
<1>2. PICK t \in Threads : Spawn(t) \/ BodyEnds(t) \/ ReleaseSlot(t) \/ Wait(t) \/ WaitTimeout(t)
  BY DEF NextSlots
<1>3. pc[t] \in {"exited", "unborn", "ended", "subbed", "notify"} /\ Asleep = {}
  BY <1>1 DEF Quiet, Asleep
<1>4. ~Spawn(t) /\ ~BodyEnds(t) /\ ~Wait(t) /\ ~WaitTimeout(t) /\ ~FetchSub(t)
  BY <1>3 DEF Spawn, FetchAdd, Acquired, Refused, Start, BuildFails, BodyEnds, FetchSub,
              Wait, WaitCall, WaitDone, WaitCheck, WaitSleep, WaitTimeout
<1>5. NotifyOne(t) \/ NotifyAll(t)
  BY <1>2, <1>4 DEF ReleaseSlot
<1>6. t \in Tasks /\ pc[t] \in {"subbed", "notify"} /\ back[t] = "ended" /\ back' = back
  BY <1>1, <1>5 DEF NotifyOne, NotifyAll, Quiet
<1>7. \E p \in {"notify", "ended"} : \A u \in Threads : pc'[u] = IF u = t THEN p ELSE pc[u]
  <2>1. CASE NotifyOne(t)
    <3> DEFINE place == IF val[t] <= 0 THEN "notify" ELSE back[t]
    <3>1. place \in {"notify", "ended"}
      BY <1>6
    <3>2. pc' = [pc EXCEPT ![t] = place]
      BY <2>1, <1>3, Zenon DEF NotifyOne, Goto
    <3> HIDE DEF place
    <3> QED BY <1>1, <3>1, <3>2
  <2>2. CASE NotifyAll(t)
    BY <1>3, <1>6, <2>2 DEF NotifyAll, Woken
  <2> QED BY <1>5, <2>1, <2>2
<1> QED BY <1>1, <1>6, <1>7 DEF Quiet

\* No slot and no caller ahead is the same as every task being quiet.
LEMMA QuietMeansDrained ==
    ASSUME NEW main, Handlers = {main}, SlotsTypeOK, pc[main] = "exited"
    PROVE  (Running = {} /\ Ahead = {}) <=> \A u \in Tasks : Quiet(u)
<1>1. Threads = Tasks \cup {main} /\ pc \in [Threads -> Places]
  BY DEF SlotsTypeOK, Threads
<1>2. Running = {} <=> \A u \in Tasks : Quiet(u)
  BY DEF Running, Quiet
<1>3. (\A u \in Tasks : Quiet(u)) => Ahead = {}
  BY <1>1 DEF Ahead, Quiet
<1> QED BY <1>2, <1>3

LEMMA DrainStep ==
    ASSUME NEW main, Handlers = {main}, SlotInv, DrainComplete, NextSlots
    PROVE  DrainComplete'
<1> SUFFICES ASSUME pc'[main] = "exited", drained'[main] PROVE Running' = {} /\ Ahead' = {}
  BY DEF DrainComplete
<1>0. SlotInv' /\ SlotsTypeOK' /\ SlotsTypeOK /\ main \in Handlers
  BY SlotStep DEF SlotInv
<1>1. CASE WaitDone(main) \/ WaitTimeout(main)
  <2>1. s_count <= 0
    BY <1>0, <1>1 DEF WaitDone, WaitTimeout, SlotsTypeOK, Threads
  <2>2. Cardinality(Running) = 0 /\ Cardinality(Ahead) = 0
    BY <1>0, <2>1, SetsFinite DEF SlotInv, SlotsCovered, SlotsTypeOK
  <2>3. Running = {} /\ Ahead = {}
    BY <2>2, SetsFinite, FS_EmptySet
  <2>4. /\ back' = back /\ main \in Threads /\ main \notin Tasks
        /\ \A u \in Threads : u # main => pc'[u] = pc[u]
    BY <1>0, <1>1, SlotAssumption DEF WaitDone, WaitTimeout, Goto, SlotsTypeOK, Threads
  <2>5. Running' = {}
    BY <2>3, <2>4 DEF Running, Threads
  <2>6. Ahead' = {}
    BY <2>3, <2>4 DEF Ahead
  <2> QED BY <2>5, <2>6
<1>2. CASE ~WaitDone(main) /\ ~WaitTimeout(main)
  <2>1. pc[main] = "exited" /\ drained[main]
    BY <1>0, <1>2, MainStays
  <2>2. Running = {} /\ Ahead = {}
    BY <1>0, <2>1 DEF DrainComplete
  <2>3. \A u \in Tasks : Quiet(u)
    BY <1>0, <2>1, <2>2, QuietMeansDrained
  <2>4. \A u \in Tasks : Quiet(u)'
    BY <2>1, <2>3, StaysQuiet
  <2>5. Running' = {}
    BY <2>4 DEF Running, Quiet
  <2>6. Ahead' = {}
    BY <2>4 DEF Ahead, Quiet, Threads
  <2> QED BY <2>5, <2>6
<1> QED BY <1>1, <1>2

\* When the drain at the end of a script answers true no task of it runs any
\* more and none will start, for any number of tasks, nested spawns and
\* failing spawns.
THEOREM DrainSafe ==
    ASSUME NEW main, Handlers = {main} PROVE SpecSlots => []DrainComplete
<1>1. InitSlots => DrainComplete
  BY DEF InitSlots, DrainComplete, Threads
<1>2. SlotInv /\ DrainComplete /\ [NextSlots]_slotVars => DrainComplete'
  <2>1. ASSUME SlotInv, DrainComplete, UNCHANGED slotVars PROVE DrainComplete'
    BY <2>1 DEF DrainComplete, slotVars, Running, Ahead
  <2> QED BY <2>1, DrainStep
<1> QED BY <1>1, <1>2, SlotInvariant, PTL DEF SpecSlots

-----------------------------------------------------------------------------
(***************************************************************************)
(* The sleep of task_wait.  A task that waits has a slot itself; so only   *)
(* main's sleep can outlast the last task.                                 *)
(***************************************************************************)

\* Something will end a sleep: a task to wait for, or a notify_all to come.
Alarm == \/ s_count > 0
         \/ \E u \in Threads : pc[u] \in {"subbed", "notify"} /\ val[u] <= 0

\* The invariant covers main from its check on: s_mtx is what keeps the
\* notify_all behind its sleep.
SleepInv(t) == pc[t] \in {"checked", "asleep"} => Alarm

\* A task that runs keeps the counter above zero.
LEMMA TaskCounts ==
    ASSUME SlotInv, NEW k \in Running
    PROVE  s_count > 0
<1>1. Cardinality(Running) # 0
  BY SetsFinite, FS_EmptySet
<1> QED BY <1>1, SetsFinite DEF SlotInv, SlotsCovered, SlotsTypeOK

LEMMA SleepStep ==
    ASSUME NEW main, Handlers = {main}, SlotInv, SlotInv', SleepInv(main), NextSlots
    PROVE  SleepInv(main)'
<1> SUFFICES ASSUME pc'[main] \in {"checked", "asleep"} PROVE Alarm'
  BY DEF SleepInv
<1>1. /\ pc \in [Threads -> Places] /\ val \in [Threads -> Int] /\ s_count \in Nat
      /\ back \in [Threads -> {"body", "ended"}]
      /\ main \in Threads /\ main \notin Tasks /\ Threads = Tasks \cup {main}
  BY SlotAssumption DEF SlotInv, SlotsTypeOK, Threads
<1>2. PICK t \in Threads : Spawn(t) \/ BodyEnds(t) \/ ReleaseSlot(t) \/ Wait(t) \/ WaitTimeout(t)
  BY DEF NextSlots
\* A step that leaves the counter and the threads in task_release alone.
<1>3. ASSUME pc[main] \in {"checked", "asleep"}, s_count' = s_count, val' = val,
             \A u \in Threads : pc[u] \in {"subbed", "notify"} => pc'[u] = pc[u]
      PROVE  Alarm'
  BY <1>3 DEF SleepInv, Alarm
<1>4. CASE FetchAdd(t)
  BY <1>1, <1>4 DEF FetchAdd, Alarm
<1>5. CASE Acquired(t)
  BY <1>1, <1>3, <1>5 DEF Acquired, Goto
\* Nobody is notified here: the refused caller must be a task with a slot.
<1>6. CASE Refused(t)
  <2>1. t # main /\ t \in Tasks
    BY <1>1, <1>6 DEF Refused, Goto
  <2>2. t \in Running'
    BY <1>1, <1>6, <2>1 DEF Refused, Goto, Running
  <2>3. s_count' > 0
    <3>1. Cardinality(Running)' # 0
      <4>1. Running' # {} BY <2>2
      <4>2. IsFiniteSet(Running)'
        <5>1. Running' \subseteq Threads BY DEF Running, Threads
        <5> QED BY <5>1, SetsFinite, FS_Subset
      <4> QED BY <4>1, <4>2, FS_EmptySet
    <3>2. Cardinality(Running)' \in Nat /\ Cardinality(Ahead)' \in Nat
      <4>1. Running' \subseteq Threads /\ Ahead' \subseteq Threads
        BY DEF Running, Ahead, Threads
      <4> QED BY <4>1, SetsFinite, FS_Subset, FS_CardinalityType
    <3> QED BY <3>1, <3>2 DEF SlotInv, SlotsCovered, SlotsTypeOK
  <2> QED BY <2>3 DEF Alarm
<1>7. CASE \E k \in Tasks : Start(t, k)
  <2>1. PICK k \in Tasks : Start(t, k) BY <1>7
  <2> QED BY <1>1, <1>3, <2>1 DEF Start
<1>8. CASE BuildFails(t)
  BY <1>1, <1>3, <1>8 DEF BuildFails, Goto
<1>9. CASE BodyEnds(t)
  BY <1>1, <1>3, <1>9 DEF BodyEnds, Goto
<1>10. CASE FetchSub(t)
  <2>1. CASE s_count - 1 > 0
    BY <1>10, <2>1 DEF FetchSub, Alarm
  <2>2. CASE ~(s_count - 1 > 0)
    <3>1. pc'[t] = "subbed" /\ val'[t] <= 0
      BY <1>1, <1>10, <2>2 DEF FetchSub, Goto
    <3> QED BY <3>1 DEF Alarm
  <2> QED BY <2>1, <2>2
<1>11. CASE NotifyOne(t)
  <2> DEFINE place == IF val[t] <= 0 THEN "notify" ELSE back[t]
  <2>1. s_count' = s_count /\ val' = val /\ pc[t] = "subbed" /\ t # main
    BY <1>1, <1>11 DEF NotifyOne, Goto, Woken
  <2>2. (\E u \in Asleep : pc' = Woken({u}, t, place)) \/ pc' = [pc EXCEPT ![t] = place]
    BY <1>11, Zenon DEF NotifyOne, Goto
  <2>3. val[t] <= 0 => place = "notify"
    OBVIOUS
  <2> HIDE DEF place
  <2>4. /\ pc'[t] = place
        /\ \A u \in Threads : u # t => pc'[u] = pc[u] \/ (pc[u] = "asleep" /\ pc'[u] = "waiting")
    BY <1>1, <2>1, <2>2 DEF Woken, Asleep
  <2>5. pc[main] \in {"checked", "asleep"}
    BY <1>1, <2>1, <2>4
  <2>6. Alarm BY <2>5 DEF SleepInv
  <2> QED BY <1>1, <2>1, <2>3, <2>4, <2>6 DEF Alarm
<1>12. CASE NotifyAll(t)
  <2>1. pc[main] # "checked" /\ t # main
    BY <1>1, <1>12 DEF NotifyAll, MutexFree, Woken, Asleep
  <2> QED BY <1>1, <1>12, <2>1 DEF NotifyAll, Woken, Asleep
<1>13. CASE WaitCheck(t)
  BY <1>1, <1>13 DEF WaitCheck, Alarm
<1>14. CASE WaitCall(t) \/ WaitSleep(t)
  BY <1>1, <1>3, <1>14 DEF WaitCall, WaitSleep, Goto
<1>15. CASE WaitDone(t) \/ WaitTimeout(t)
  <2>1. AfterWait(t) \in {"body", "exited"}
    BY DEF AfterWait
  <2> QED BY <1>1, <1>3, <1>15, <2>1 DEF WaitDone, WaitTimeout, Goto
<1> QED BY <1>2, <1>4, <1>5, <1>6, <1>7, <1>8, <1>9, <1>10, <1>11, <1>12, <1>13, <1>14,
           <1>15 DEF Spawn, ReleaseSlot, Wait

\* In a script no thread sleeps in task_wait after the last task has ended:
\* the task that brings the counter to zero still has its notify_all to make,
\* and a caller that only takes its refused fetch_add back never brings it
\* there, because it has a slot itself.
THEOREM NobodyOversleeps ==
    ASSUME NEW main, Handlers = {main} PROVE SpecSlots => []NoOversleep
<1>1. InitSlots => SleepInv(main)
  BY DEF InitSlots, SleepInv, Threads
<1>2. SlotInv /\ SlotInv' /\ SleepInv(main) /\ [NextSlots]_slotVars => SleepInv(main)'
  <2>1. ASSUME SleepInv(main), UNCHANGED slotVars PROVE SleepInv(main)'
    BY <2>1 DEF SleepInv, Alarm, slotVars
  <2> QED BY <2>1, SleepStep
<1>3. SlotInv /\ SleepInv(main) => NoOversleep
  <2> SUFFICES ASSUME SlotInv, SleepInv(main), NEW t \in Asleep PROVE Alarm
    BY DEF NoOversleep, Alarm
  <2>1. CASE t = main BY <2>1 DEF SleepInv, Asleep
  <2>2. CASE t # main
    <3>1. t \in Running BY <2>2 DEF Asleep, Threads, Running
    <3> QED BY <3>1, TaskCounts DEF Alarm
  <2> QED BY <2>1, <2>2
<1> QED BY <1>1, <1>2, <1>3, SlotInvariant, PTL DEF SpecSlots

=============================================================================
