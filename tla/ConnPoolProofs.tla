--------------------------- MODULE ConnPoolProofs ---------------------------
(***************************************************************************)
(* TLAPS proofs about ConnPool, for any clients, schedulers, pools and     *)
(* pool size.                                                              *)
(***************************************************************************)
EXTENDS ConnPool, SequenceTheorems, FiniteSetTheorems, TLAPS

\* A client that wants a connection knows of which pool, and has none of it.
Wanting == {"acquire", "miss", "queued", "retry", "asleep", "woken"}
PlaceInv(c) ==
    /\ at[c] \in Wanting => target[c] \in Pools /\ conns[c][target[c]] = NoConn
    /\ at[c] \in {"notify", "signal"} => target[c] \in Pools

\* A connection is in one place; of a pool that is registered, in some place.
ConnInv(p) ==
    /\ \A i, j \in DOMAIN available[p] : available[p][i] = available[p][j] => i = j
    /\ \A c, d \in Clients : conns[c][p] = conns[d][p] /\ conns[c][p] # NoConn => c = d
    /\ \A i \in DOMAIN available[p], c \in Clients : available[p][i] # conns[c][p]
    /\ p \in registered =>
         \A k \in ConnsOf(p) : \/ \E i \in DOMAIN available[p] : available[p][i] = k
                               \/ \E c \in Clients : conns[c][p] = k

\* Where a fiber may be while a waker or a permit of it is outstanding.
FiberInv(f) ==
    /\ waker[f] => at[f] = "queued" \/ status[f] = "parked"
    /\ permit[f] => at[f] = "queued" /\ ~waker[f]
    /\ at[f] = "queued" => status[f] = "active"
    /\ status[f] = "parked" => at[f] = "retry" /\ waker[f]
    /\ running[SchedOf[f]] = f => status[f] = "active"

\* The waker of a fiber is its one entry in g_fiber_waiters.
ListInv(f) ==
    /\ waker[f] <=> \E i \in DOMAIN waiters : waiters[i].client = f
    /\ \A i, j \in DOMAIN waiters : waiters[i].client = f /\ waiters[j].client = f => i = j
    /\ \A i \in DOMAIN waiters : waiters[i].client = f => waiters[i].pool = target[f]

\* The threads in a pool's cv sleep, and on that pool.
SleeperInv(p) == \A t \in cv[p] : at[t] = "asleep" /\ target[t] = p

-----------------------------------------------------------------------------
(***************************************************************************)
(* Sequences.                                                              *)
(***************************************************************************)

LEMMA PopBack ==
    ASSUME NEW S, NEW s \in Seq(S), Len(s) > 0
    PROVE  /\ SubSeq(s, 1, Len(s) - 1) \in Seq(S)
           /\ Len(SubSeq(s, 1, Len(s) - 1)) = Len(s) - 1
           /\ \A i \in 1 .. Len(s) - 1 : SubSeq(s, 1, Len(s) - 1)[i] = s[i]
<1>1. Len(s) - 1 \in Nat /\ \A i \in 1 .. Len(s) - 1 : s[i] \in S OBVIOUS
<1>2. SubSeq(s, 1, Len(s) - 1) \in Seq(S) BY <1>1, SubSeqProperties
<1>3. Len(SubSeq(s, 1, Len(s) - 1)) = Len(s) - 1
  <2>1. Len(SubSeq(s, 1, Len(s) - 1)) = IF 1 <= Len(s) - 1 THEN Len(s) - 1 - 1 + 1 ELSE 0
    BY <1>1, SubSeqProperties
  <2>2. Len(s) \in Nat /\ Len(s) - 1 - 1 + 1 = Len(s) - 1 OBVIOUS
  <2>3. ~(1 <= Len(s) - 1) => Len(s) - 1 = 0 BY <2>2
  <2> QED BY <2>1, <2>2, <2>3
<1>4. \A i \in 1 .. Len(s) - 1 : SubSeq(s, 1, Len(s) - 1)[i] = s[i]
  <2>1. \A i \in 1 .. Len(s) - 1 - 1 + 1 : SubSeq(s, 1, Len(s) - 1)[i] = s[1 + i - 1]
    BY <1>1, SubSeqProperties
  <2> QED BY <1>1, <2>1
<1> QED BY <1>2, <1>3, <1>4

LEMMA PushBack ==
    ASSUME NEW S, NEW s \in Seq(S), NEW e \in S
    PROVE  /\ Append(s, e) \in Seq(S) /\ Len(Append(s, e)) = Len(s) + 1
           /\ \A i \in 1 .. Len(s) : Append(s, e)[i] = s[i]
           /\ Append(s, e)[Len(s) + 1] = e
OBVIOUS

LEMMA PopFront ==
    ASSUME NEW S, NEW s \in Seq(S), s # <<>>
    PROVE  /\ Tail(s) \in Seq(S) /\ Len(Tail(s)) = Len(s) - 1 /\ Len(s) > 0
           /\ \A i \in 1 .. Len(s) - 1 : Tail(s)[i] = s[i + 1]
           /\ Head(s) = s[1] /\ Head(s) \in S
OBVIOUS

LEMMA ConnIsConn ==
    ASSUME NEW p \in Pools, NEW k \in ConnsOf(p)
    PROVE  k \in Conns /\ k # NoConn
BY DEF ConnsOf, Conns, NoConn

-----------------------------------------------------------------------------
(***************************************************************************)
(* What the actions do to the pools, the clients and the waiter list.      *)
(***************************************************************************)

\* A free connection goes to c.
LEMMA TakeEffect ==
    ASSUME TypeOK, NEW c \in Clients, PlaceInv(c), at[c] \in Wanting, Take(c)
    PROVE  LET p == target[c] IN
           /\ p \in Pools /\ Len(available[p]) > 0
           /\ available[p][Len(available[p])] \in ConnsOf(p)
           /\ conns' = [conns EXCEPT ![c][p] = available[p][Len(available[p])]]
           /\ available' = [available EXCEPT ![p] = SubSeq(available[p], 1, Len(available[p]) - 1)]
           /\ at' = [at EXCEPT ![c] = "work"]
           /\ target' = [target EXCEPT ![c] = Nobody]
<1>1. target[c] \in Pools BY DEF PlaceInv
<1>2. available[target[c]] \in Seq(Conns) BY <1>1 DEF TypeOK
<1>3. Len(available[target[c]]) \in DOMAIN available[target[c]]
  BY <1>2 DEF Take
<1>4. available[target[c]][Len(available[target[c]])] \in ConnsOf(target[c])
  BY <1>1, <1>3 DEF TypeOK
<1> QED BY <1>1, <1>4 DEF Take, GoTo

\* Who changes what: the actions by the variables they leave alone.
LEMMA TakeTypes ==
    ASSUME TypeOK, NEW c \in Clients, PlaceInv(c), at[c] \in Wanting, Take(c),
           UNCHANGED <<waiters, registered, pools_mtx, running, parkVars, cv>>
    PROVE  TypeOK'
<1> DEFINE p == target[c]
           k == available[p][Len(available[p])]
           rest == SubSeq(available[p], 1, Len(available[p]) - 1)
<1>1. /\ p \in Pools /\ Len(available[p]) > 0 /\ k \in ConnsOf(p)
      /\ conns' = [conns EXCEPT ![c][p] = k] /\ available' = [available EXCEPT ![p] = rest]
      /\ at' = [at EXCEPT ![c] = "work"] /\ target' = [target EXCEPT ![c] = Nobody]
  BY TakeEffect
<1>2. available \in [Pools -> Seq(Conns)] /\ conns \in [Clients -> [Pools -> Conns \cup {NoConn}]]
  BY DEF TypeOK
<1>3. available[p] \in Seq(Conns) BY <1>1, <1>2
<1>4. rest \in Seq(Conns) /\ Len(rest) = Len(available[p]) - 1
      /\ \A i \in 1 .. Len(available[p]) - 1 : rest[i] = available[p][i]
  BY <1>1, <1>3, PopBack
<1>5. \A i \in DOMAIN rest : rest[i] \in ConnsOf(p)
  <2>1. DOMAIN available[p] = 1 .. Len(available[p]) /\ Len(available[p]) \in Nat
    BY <1>3
  <2>2. \A i \in DOMAIN available[p] : available[p][i] \in ConnsOf(p) BY <1>1 DEF TypeOK
  <2> HIDE DEF p, rest
  <2>3. DOMAIN rest = 1 .. Len(available[p]) - 1 BY <1>4
  <2> QED BY <1>4, <2>1, <2>2, <2>3
<1>6. k \in Conns BY <1>1, ConnIsConn
<1> HIDE DEF p, k, rest
<1>7. available' \in [Pools -> Seq(Conns)]
      /\ \A q \in Pools : \A i \in DOMAIN available'[q] : available'[q][i] \in ConnsOf(q)
  BY <1>1, <1>2, <1>4, <1>5 DEF TypeOK
<1>8. conns' \in [Clients -> [Pools -> Conns \cup {NoConn}]]
      /\ \A d \in Clients, q \in Pools : conns'[d][q] \in ConnsOf(q) \cup {NoConn}
  BY <1>1, <1>2, <1>6 DEF TypeOK
<1>9. at' \in [Clients -> Places] /\ target' \in [Clients -> Pools \cup {Nobody}]
  BY <1>1 DEF TypeOK, Places
<1> QED BY <1>7, <1>8, <1>9 DEF TypeOK, parkVars

LEMMA TypeStep ==
    ASSUME TypeOK, \A c \in Clients : PlaceInv(c), [Next]_vars
    PROVE  TypeOK'
<1> USE PoolAssumption
<1>1. ASSUME NEW c \in Clients, NEW place \in Places, GoTo(c, place)
      PROVE  at' \in [Clients -> Places]
  BY <1>1 DEF GoTo, TypeOK
<1>2. ASSUME NEW c \in Clients, SwitchOut(c)
      PROVE  running' \in [Scheds -> Fibers \cup {Nobody}]
  BY <1>2 DEF SwitchOut, TypeOK
<1>3. ASSUME NEW c \in Clients, Begin(c) PROVE TypeOK'
  <2>1. at' \in [Clients -> Places] BY <1>1, <1>3 DEF Begin, Places
  <2>2. status' \in [Fibers -> {"new", "active", "parked", "finished"}]
        /\ UNCHANGED <<permit, waker>>
    BY <1>3 DEF Begin, Park!Start, parkVars, TypeOK
  <2> QED BY <1>3, <2>1, <2>2 DEF Begin, TypeOK
<1>4. ASSUME NEW c \in Clients, AcquireFast(c) PROVE TypeOK'
  <2>1. CASE Take(c) BY <1>4, <2>1, TakeTypes DEF AcquireFast, Wanting
  <2>2. CASE Exhausted(c) /\ GoTo(c, "miss")
    <3>1. at' \in [Clients -> Places] BY <1>1, <2>2 DEF Places
    <3> QED BY <1>4, <2>2, <3>1 DEF AcquireFast, Exhausted, TypeOK, parkVars
  <2> QED BY <1>4, <2>1, <2>2 DEF AcquireFast
<1>5. ASSUME NEW c \in Clients, Finish(c) PROVE TypeOK'
  <2>1. at' \in [Clients -> Places] BY <1>1, <1>5 DEF Finish, Places
  <2> QED BY <1>5, <2>1 DEF Finish, TypeOK, parkVars
<1>6. ASSUME NEW c \in Clients, ReleaseLock(c) PROVE TypeOK'
  <2>1. at' \in [Clients -> Places] BY <1>1, <1>6 DEF ReleaseLock, Places
  <2> QED BY <1>6, <2>1 DEF ReleaseLock, TypeOK, parkVars
<1>7. ASSUME NEW f \in Fibers, Park!Unpark(f)
      PROVE  /\ status' \in [Fibers -> {"new", "active", "parked", "finished"}]
             /\ permit' \in [Fibers -> BOOLEAN] /\ waker' \in [Fibers -> BOOLEAN]
  <2>1. (status[f] = "active") \in BOOLEAN OBVIOUS
  <2> QED BY <1>7, <2>1, Zenon DEF Park!Unpark, TypeOK
<1>8. ASSUME NEW c \in Clients, ReleaseNotify(c) PROVE TypeOK'
  <2>1. at' \in [Clients -> Places] BY <1>1, <1>8 DEF ReleaseNotify, Places
  <2>2. CASE WakeFirst
    <3>1. waiters \in Seq([client : Fibers, pool : Pools]) /\ waiters # <<>>
      BY <2>2 DEF TypeOK, WakeFirst
    <3>2. Head(waiters).client \in Fibers /\ Tail(waiters) \in Seq([client : Fibers, pool : Pools])
      <4>1. Head(waiters) \in [client : Fibers, pool : Pools]
            /\ Tail(waiters) \in Seq([client : Fibers, pool : Pools])
        BY <3>1, HeadTailProperties
      <4> QED BY <4>1
    <3>3. /\ status' \in [Fibers -> {"new", "active", "parked", "finished"}]
          /\ permit' \in [Fibers -> BOOLEAN] /\ waker' \in [Fibers -> BOOLEAN]
      BY <1>7, <2>2, <3>2 DEF WakeFirst
    <3> QED BY <1>8, <2>1, <2>2, <3>2, <3>3 DEF ReleaseNotify, WakeFirst, TypeOK
  <2>3. CASE UNCHANGED <<waiters, parkVars>>
    BY <1>8, <2>1, <2>3 DEF ReleaseNotify, TypeOK, parkVars
  <2> QED BY <1>8, <2>2, <2>3 DEF ReleaseNotify
<1>9. ASSUME NEW c \in Clients, ReleaseSignal(c) PROVE TypeOK'
  <2>1. target[c] \in Pools BY <1>9 DEF ReleaseSignal, PlaceInv
  <2>2. cv' \in [Pools -> SUBSET Threads]
    <3>1. CASE UNCHANGED cv BY <3>1 DEF TypeOK
    <3>2. ASSUME NEW t, cv' = [cv EXCEPT ![target[c]] = @ \ {t}]
          PROVE  cv' \in [Pools -> SUBSET Threads]
      BY <2>1, <3>2 DEF TypeOK
    <3> QED BY <1>9, <3>1, <3>2 DEF ReleaseSignal
  <2>3. at' \in [Clients -> Places]
    <3>1. \A t \in cv[target[c]] : t \in Clients BY <2>1 DEF TypeOK, Clients
    <3> QED BY <1>9, <3>1 DEF ReleaseSignal, TypeOK, Places
  <2>4. target' \in [Clients -> Pools \cup {Nobody}] BY <1>9 DEF ReleaseSignal, TypeOK
  <2> QED BY <1>9, <2>2, <2>3, <2>4 DEF ReleaseSignal, TypeOK, parkVars
<1>10. ASSUME NEW c \in Clients, ReleaseDone(c) PROVE TypeOK'
  <2>1. at' \in [Clients -> Places] /\ running' \in [Scheds -> Fibers \cup {Nobody}]
    BY <1>1, <1>2, <1>10 DEF ReleaseDone, Places
  <2>2. status' \in [Fibers -> {"new", "active", "parked", "finished"}]
        /\ UNCHANGED <<permit, waker>>
    BY <1>10 DEF ReleaseDone, Park!End, parkVars, TypeOK
  <2> QED BY <1>10, <2>1, <2>2 DEF ReleaseDone, TypeOK
<1>11. ASSUME NEW c \in Clients, NEW p \in Pools, GetConn(c, p) PROVE TypeOK'
  <2>1. at' \in [Clients -> Places] BY <1>1, <1>11 DEF GetConn, Places
  <2>2. target' \in [Clients -> Pools \cup {Nobody}] BY <1>11 DEF GetConn, TypeOK
  <2> QED BY <1>11, <2>1, <2>2 DEF GetConn, TypeOK, parkVars
<1>12. ASSUME NEW c \in Clients, NEW p \in Pools, ReleasePush(c, p) PROVE TypeOK'
  <2> DEFINE k == conns[c][p]
             more == Append(available[p], k)
  <2>1. k \in ConnsOf(p) BY <1>12 DEF ReleasePush, Held, TypeOK
  <2>2. available \in [Pools -> Seq(Conns)] /\ conns \in [Clients -> [Pools -> Conns \cup {NoConn}]]
    BY DEF TypeOK
  <2>3. more \in Seq(Conns) /\ Len(more) = Len(available[p]) + 1
        /\ (\A i \in 1 .. Len(available[p]) : more[i] = available[p][i])
        /\ more[Len(available[p]) + 1] = k
    BY <2>1, <2>2, ConnIsConn, PushBack
  <2>4. \A i \in DOMAIN more : more[i] \in ConnsOf(p)
    <3>1. available[p] \in Seq(Conns) BY <2>2
    <3>2. DOMAIN available[p] = 1 .. Len(available[p]) /\ Len(available[p]) \in Nat
      BY <3>1
    <3>3. \A i \in DOMAIN available[p] : available[p][i] \in ConnsOf(p) BY DEF TypeOK
    <3> HIDE DEF more, k
    <3>4. DOMAIN more = 1 .. Len(available[p]) + 1 BY <2>3
    <3> QED BY <2>1, <2>3, <3>2, <3>3, <3>4
  <2>5. available' = (IF p \in registered THEN [available EXCEPT ![p] = more] ELSE available)
        /\ conns' = [conns EXCEPT ![c][p] = NoConn]
    BY <1>12 DEF ReleasePush
  <2>6. at' \in [Clients -> Places] /\ target' \in [Clients -> Pools \cup {Nobody}]
    <3>1. CASE p \in registered
      <4>1. at' = [at EXCEPT ![c] = "notify"] /\ target' = [target EXCEPT ![c] = p]
        BY <1>12, <3>1 DEF ReleasePush, GoTo
      <4> QED BY <4>1 DEF TypeOK, Places
    <3>2. CASE p \notin registered BY <1>12, <3>2 DEF ReleasePush, TypeOK
    <3> QED BY <3>1, <3>2
  <2> HIDE DEF k, more
  <2>7. available' \in [Pools -> Seq(Conns)]
        /\ \A q \in Pools : \A i \in DOMAIN available'[q] : available'[q][i] \in ConnsOf(q)
    BY <2>2, <2>3, <2>4, <2>5 DEF TypeOK
  <2>8. conns' \in [Clients -> [Pools -> Conns \cup {NoConn}]]
        /\ \A d \in Clients, q \in Pools : conns'[d][q] \in ConnsOf(q) \cup {NoConn}
    BY <2>2, <2>5 DEF TypeOK
  <2> QED BY <1>12, <2>6, <2>7, <2>8 DEF ReleasePush, TypeOK, parkVars
<1>13. ASSUME NEW f \in Fibers, Dispatch(f) \/ Yield(f) PROVE TypeOK'
  <2>1. running' \in [Scheds -> Fibers \cup {Nobody}]
    BY <1>2, <1>13 DEF Dispatch, Yield, TypeOK, Clients
  <2> QED BY <1>13, <2>1 DEF Dispatch, Yield, TypeOK, parkVars
<1>14. ASSUME NEW f \in Fibers, JoinWaiters(f) PROVE TypeOK'
  <2>1. at' \in [Clients -> Places] BY <1>1, <1>14 DEF JoinWaiters, Places, Clients
  <2>2. target[f] \in Pools BY <1>14 DEF JoinWaiters, PlaceInv, Wanting, Clients
  <2>3. [client |-> f, pool |-> target[f]] \in [client : Fibers, pool : Pools] BY <2>2
  <2>4. waiters' \in Seq([client : Fibers, pool : Pools])
    BY <1>14, <2>3, PushBack DEF JoinWaiters, TypeOK
  <2>5. waker' \in [Fibers -> BOOLEAN] /\ UNCHANGED <<status, permit>>
    BY <1>14 DEF JoinWaiters, Park!Arm, TypeOK
  <2> QED BY <1>14, <2>1, <2>4, <2>5 DEF JoinWaiters, TypeOK
<1>15. ASSUME NEW f \in Fibers, Suspend(f) PROVE TypeOK'
  <2>1. at' \in [Clients -> Places] /\ running' \in [Scheds -> Fibers \cup {Nobody}]
    BY <1>1, <1>2, <1>15 DEF Suspend, Places, Clients
  <2>2. status' \in [Fibers -> {"new", "active", "parked", "finished"}]
        /\ permit' \in [Fibers -> BOOLEAN] /\ UNCHANGED waker
    BY <1>15 DEF Suspend, Park!Park, TypeOK
  <2> QED BY <1>15, <2>1, <2>2 DEF Suspend, TypeOK
<1>16. ASSUME NEW f \in Fibers, Retry(f) PROVE TypeOK'
  <2>0. f \in Clients BY DEF Clients
  <2>1. CASE Take(f) BY <1>16, <2>0, <2>1, TakeTypes DEF Retry, Wanting
  <2>2. CASE Exhausted(f) /\ GoTo(f, "miss")
    <3>1. at' \in [Clients -> Places] BY <1>1, <2>0, <2>2 DEF Places
    <3> QED BY <1>16, <2>2, <3>1 DEF Retry, Exhausted, TypeOK, parkVars
  <2> QED BY <1>16, <2>1, <2>2 DEF Retry
<1>17. ASSUME NEW t \in Threads, ThreadWait(t) PROVE TypeOK'
  <2>0. t \in Clients BY DEF Clients
  <2>1. CASE Take(t) /\ UNCHANGED cv
    BY <1>17, <2>0, <2>1, TakeTypes
       DEF ThreadWait, Wanting
  <2>2. CASE Exhausted(t) /\ cv' = [cv EXCEPT ![target[t]] = @ \cup {t}] /\ GoTo(t, "asleep")
    <3>1. at' \in [Clients -> Places] BY <1>1, <2>0, <2>2 DEF Places
    <3>2. cv' \in [Pools -> SUBSET Threads] BY <2>2 DEF TypeOK
    <3> QED BY <1>17, <2>2, <3>1, <3>2 DEF ThreadWait, Exhausted, TypeOK, parkVars
  <2> QED BY <1>17, <2>1, <2>2 DEF ThreadWait
<1>18. ASSUME NEW p \in Pools, RemovePool(p) PROVE TypeOK'
  BY <1>18 DEF RemovePool, TypeOK, parkVars
<1>19. CASE UNCHANGED vars BY <1>19 DEF vars, TypeOK, parkVars
<1> QED BY <1>3, <1>4, <1>5, <1>6, <1>8, <1>9, <1>10, <1>11, <1>12, <1>13, <1>14, <1>15,
           <1>16, <1>17, <1>18, <1>19 DEF Next, ClientStep, FiberStep

-----------------------------------------------------------------------------
(***************************************************************************)
(* Places.                                                                 *)
(***************************************************************************)

LEMMA ClientsSplit == Fibers \subseteq Clients /\ Threads \subseteq Clients
BY DEF Clients

\* What c keeps when others act.
LEMMA PlaceKept ==
    ASSUME NEW d \in Clients, PlaceInv(d), at'[d] = at[d], target'[d] = target[d],
           conns'[d] = conns[d]
    PROVE  PlaceInv(d)'
BY DEF PlaceInv

LEMMA PlaceStep ==
    ASSUME TypeOK, \A c \in Clients : PlaceInv(c), \A p \in Pools : SleeperInv(p), [Next]_vars,
           NEW d \in Clients
    PROVE  PlaceInv(d)'
<1> USE PoolAssumption
<1>0. PlaceInv(d) OBVIOUS
<1>1. ASSUME NEW c \in Clients, at[c] \in Wanting, Take(c) PROVE PlaceInv(d)'
  <2> DEFINE p == target[c]
             k == available[p][Len(available[p])]
  <2>1. conns' = [conns EXCEPT ![c][p] = k] /\ at' = [at EXCEPT ![c] = "work"]
        /\ target' = [target EXCEPT ![c] = Nobody]
    BY <1>1, TakeEffect
  <2> HIDE DEF p, k
  <2>2. CASE c # d
    <3>1. conns'[d] = conns[d] /\ at'[d] = at[d] /\ target'[d] = target[d]
      BY <2>1, <2>2 DEF TypeOK
    <3> QED BY <1>0, <3>1, PlaceKept
  <2>3. CASE c = d
    <3>1. at'[d] = "work" BY <2>1, <2>3 DEF TypeOK
    <3> QED BY <3>1 DEF PlaceInv, Wanting
  <2> QED BY <2>2, <2>3
\* c moves between places that need the same, or to one that needs nothing.
<1>2. ASSUME NEW c \in Clients, NEW place,
             at' = [at EXCEPT ![c] = place], UNCHANGED <<target, conns>>,
             \/ at[c] \in Wanting
             \/ place \notin Wanting \cup {"notify", "signal"}
             \/ at[c] \in {"notify", "signal"} /\ place \notin Wanting,
             place \in {"notify", "signal"} => at[c] \in {"notify", "signal"}
      PROVE  PlaceInv(d)'
  <2>1. CASE c # d
    <3>1. at'[d] = at[d] /\ target'[d] = target[d] /\ conns'[d] = conns[d]
      BY <1>2, <2>1 DEF TypeOK
    <3> QED BY <1>0, <3>1, PlaceKept
  <2>2. CASE c = d
    <3>1. at'[d] = place /\ target'[d] = target[d] /\ conns'[d] = conns[d]
      BY <1>2, <2>2 DEF TypeOK
    <3> QED BY <1>0, <1>2, <2>2, <3>1 DEF PlaceInv
  <2> QED BY <2>1, <2>2
<1>3. ASSUME NEW c \in Clients, Begin(c) PROVE PlaceInv(d)'
  BY <1>2, <1>3 DEF Begin, GoTo, Wanting
<1>4. ASSUME NEW c \in Clients, AcquireFast(c) PROVE PlaceInv(d)'
  <2>1. at[c] \in Wanting BY <1>4 DEF AcquireFast, Wanting
  <2>2. CASE Take(c) BY <1>1, <2>1, <2>2
  <2>3. CASE Exhausted(c) /\ GoTo(c, "miss") BY <1>2, <2>1, <2>3 DEF Exhausted, GoTo
  <2> QED BY <1>4, <2>2, <2>3 DEF AcquireFast
<1>5. ASSUME NEW c \in Clients, Finish(c) PROVE PlaceInv(d)'
  BY <1>2, <1>5 DEF Finish, GoTo, Wanting
<1>6. ASSUME NEW c \in Clients, ReleaseLock(c) PROVE PlaceInv(d)'
  BY <1>2, <1>6 DEF ReleaseLock, GoTo, Wanting
<1>7. ASSUME NEW c \in Clients, ReleaseNotify(c) PROVE PlaceInv(d)'
  BY <1>2, <1>7 DEF ReleaseNotify, GoTo, Wanting
<1>8. ASSUME NEW c \in Clients, ReleaseSignal(c) PROVE PlaceInv(d)'
  <2>0. target[c] \in Pools /\ c \notin cv[target[c]]
    BY <1>8 DEF ReleaseSignal, PlaceInv, SleeperInv
  <2>1. conns' = conns /\ target' = [target EXCEPT ![c] = Nobody] /\ at'[c] = "release"
    BY <1>8, <2>0 DEF ReleaseSignal, TypeOK
  <2>2. CASE d = c BY <2>1, <2>2 DEF PlaceInv, Wanting
  <2>3. CASE d # c
    <3>1. target'[d] = target[d] /\ conns'[d] = conns[d] BY <2>1, <2>3 DEF TypeOK
    <3>2. at'[d] = at[d] \/ (at[d] = "asleep" /\ at'[d] = "woken")
      <4>1. CASE cv[target[c]] = {} /\ at' = [at EXCEPT ![c] = "release"]
        BY <2>3, <4>1 DEF TypeOK
      <4>2. ASSUME NEW t \in cv[target[c]], at' = [at EXCEPT ![c] = "release", ![t] = "woken"]
            PROVE  at'[d] = at[d] \/ (at[d] = "asleep" /\ at'[d] = "woken")
        <5>1. at[t] = "asleep" BY <2>0 DEF SleeperInv
        <5> QED BY <2>3, <4>2, <5>1 DEF TypeOK
      <4> QED BY <1>8, <4>1, <4>2 DEF ReleaseSignal
    <3> QED BY <1>0, <3>1, <3>2 DEF PlaceInv, Wanting
  <2> QED BY <2>2, <2>3
<1>9. ASSUME NEW c \in Clients, ReleaseDone(c) PROVE PlaceInv(d)'
  BY <1>2, <1>9 DEF ReleaseDone, GoTo, Wanting
<1>10. ASSUME NEW c \in Clients, NEW p \in Pools, GetConn(c, p) PROVE PlaceInv(d)'
  <2>1. CASE p \notin registered BY <1>2, <1>10, <2>1 DEF GetConn, GoTo, Wanting
  <2>2. CASE p \in registered
    <3>1. at' = [at EXCEPT ![c] = "acquire"] /\ target' = [target EXCEPT ![c] = p]
          /\ conns' = conns /\ conns[c][p] = NoConn
      BY <1>10, <2>2 DEF GetConn, GoTo
    <3>2. CASE c = d BY <3>1, <3>2 DEF PlaceInv, Wanting, TypeOK
    <3>3. CASE c # d BY <1>0, <3>1, <3>3, PlaceKept DEF TypeOK
    <3> QED BY <3>2, <3>3
  <2> QED BY <2>1, <2>2
<1>11. ASSUME NEW c \in Clients, NEW p \in Pools, ReleasePush(c, p) PROVE PlaceInv(d)'
  <2>1. conns' = [conns EXCEPT ![c][p] = NoConn] /\ at[c] = "release"
    BY <1>11
       DEF ReleasePush
  <2>2. \/ UNCHANGED <<at, target>>
        \/ at' = [at EXCEPT ![c] = "notify"] /\ target' = [target EXCEPT ![c] = p]
    BY <1>11 DEF ReleasePush, GoTo
  <2>3. CASE c # d
    <3>1. at'[d] = at[d] /\ target'[d] = target[d] /\ conns'[d] = conns[d]
      BY <2>1, <2>2, <2>3 DEF TypeOK
    <3> QED BY <1>0, <3>1, PlaceKept
  <2>4. CASE c = d BY <2>1, <2>2, <2>4 DEF PlaceInv, Wanting, TypeOK
  <2> QED BY <2>3, <2>4
<1>12. ASSUME NEW f \in Fibers, JoinWaiters(f) PROVE PlaceInv(d)'
  BY <1>2, <1>12, ClientsSplit DEF JoinWaiters, GoTo, Wanting
<1>13. ASSUME NEW f \in Fibers, Suspend(f) PROVE PlaceInv(d)'
  BY <1>2, <1>13, ClientsSplit DEF Suspend, GoTo, Wanting
<1>14. ASSUME NEW f \in Fibers, Retry(f) PROVE PlaceInv(d)'
  <2>1. at[f] \in Wanting /\ f \in Clients BY <1>14, ClientsSplit DEF Retry, Wanting
  <2>2. CASE Take(f) BY <1>1, <2>1, <2>2
  <2>3. CASE Exhausted(f) /\ GoTo(f, "miss") BY <1>2, <2>1, <2>3 DEF Exhausted, GoTo
  <2> QED BY <1>14, <2>2, <2>3 DEF Retry
<1>15. ASSUME NEW t \in Threads, ThreadWait(t) PROVE PlaceInv(d)'
  <2>1. at[t] \in Wanting /\ t \in Clients
    BY <1>15, ClientsSplit
       DEF ThreadWait, Wanting
  <2>2. CASE Take(t) BY <1>1, <2>1, <2>2
  <2>3. CASE Exhausted(t) /\ GoTo(t, "asleep") BY <1>2, <2>1, <2>3 DEF Exhausted, GoTo
  <2> QED BY <1>15, <2>2, <2>3 DEF ThreadWait
<1>16. ASSUME UNCHANGED <<at, target, conns>> PROVE PlaceInv(d)'
  BY <1>0, <1>16, PlaceKept
<1> QED BY <1>3, <1>4, <1>5, <1>6, <1>7, <1>8, <1>9, <1>10, <1>11, <1>12, <1>13, <1>14,
    <1>15,
           <1>16 DEF Next, ClientStep, FiberStep, Dispatch, Yield, RemovePool, vars

\* A thread in cv leaves it only when it is woken.
LEMMA SleeperStep ==
    ASSUME TypeOK, \A c \in Clients : PlaceInv(c), \A p \in Pools : SleeperInv(p), [Next]_vars,
           NEW p \in Pools
    PROVE  SleeperInv(p)'
<1> USE PoolAssumption
<1>0. cv[p] \subseteq Clients /\ SleeperInv(p) BY ClientsSplit DEF TypeOK
\* Somebody who does not sleep acts.
<1>1. ASSUME NEW c \in Clients, at[c] # "asleep", cv' = cv,
             \A d \in Clients \ {c} : at'[d] = at[d] /\ target'[d] = target[d]
      PROVE  SleeperInv(p)'
  BY <1>0, <1>1 DEF SleeperInv
<1>2. ASSUME NEW c \in Clients, at[c] # "asleep", cv' = cv, NEW place,
             at' = [at EXCEPT ![c] = place], UNCHANGED target
      PROVE  SleeperInv(p)'
  BY <1>1, <1>2 DEF TypeOK
<1>3. ASSUME NEW c \in Clients, at[c] # "asleep", cv' = cv, Take(c)
      PROVE  SleeperInv(p)'
  BY <1>1, <1>3 DEF Take, GoTo, TypeOK
<1>4. ASSUME NEW c \in Clients,
             Begin(c) \/ Finish(c) \/ ReleaseLock(c) \/ ReleaseNotify(c) \/ ReleaseDone(c)
      PROVE  SleeperInv(p)'
  BY <1>2, <1>4 DEF Begin, Finish, ReleaseLock, ReleaseNotify, ReleaseDone, GoTo
<1>5. ASSUME NEW c \in Clients, AcquireFast(c) PROVE SleeperInv(p)'
  BY <1>2, <1>3, <1>5 DEF AcquireFast, Exhausted, GoTo
<1>6. ASSUME NEW c \in Clients, ReleaseSignal(c) PROVE SleeperInv(p)'
  <2>0. target[c] \in Pools BY <1>6 DEF ReleaseSignal, PlaceInv
  <2>1. c \notin cv[p] /\ c \notin cv[target[c]]
    BY <1>6, <2>0
       DEF ReleaseSignal, SleeperInv
  <2>2. \A d \in Clients \ {c} : target'[d] = target[d]
    BY <1>6
       DEF ReleaseSignal, TypeOK
  <2>3. CASE UNCHANGED cv /\ at' = [at EXCEPT ![c] = "release"]
    BY <1>1, <1>6, <2>2, <2>3 DEF ReleaseSignal, TypeOK
  <2>4. ASSUME NEW t \in cv[target[c]], cv' = [cv EXCEPT ![target[c]] = @ \ {t}],
               at' = [at EXCEPT ![c] = "release", ![t] = "woken"]
        PROVE  SleeperInv(p)'
    <3>1. target[t] = target[c] BY <2>0 DEF SleeperInv
    <3>2. \A d \in Clients \ {c, t} : at'[d] = at[d] BY <2>4 DEF TypeOK
    <3>3. cv'[p] \subseteq cv[p] \ {t}
      <4>1. CASE p = target[c] BY <2>0, <2>4, <4>1 DEF TypeOK
      <4>2. CASE p # target[c]
        <5>1. t \notin cv[p] BY <3>1, <4>2 DEF SleeperInv
        <5> QED BY <2>4, <4>2, <5>1 DEF TypeOK
      <4> QED BY <4>1, <4>2
    <3> QED BY <1>0, <2>1, <2>2, <3>2, <3>3 DEF SleeperInv
  <2> QED BY <1>6, <2>3, <2>4 DEF ReleaseSignal
<1>7. ASSUME NEW c \in Clients, NEW q \in Pools, GetConn(c, q) \/ ReleasePush(c, q)
      PROVE  SleeperInv(p)'
  <2>1. at[c] # "asleep" /\ cv' = cv BY <1>7 DEF GetConn, ReleasePush
  <2>2. \A d \in Clients \ {c} : at'[d] = at[d] /\ target'[d] = target[d]
    BY <1>7 DEF GetConn, ReleasePush, GoTo, TypeOK
  <2> QED BY <1>1, <2>1, <2>2
<1>8. ASSUME NEW f \in Fibers, JoinWaiters(f) \/ Suspend(f) PROVE SleeperInv(p)'
  BY <1>2, <1>8, ClientsSplit DEF JoinWaiters, Suspend, GoTo
<1>9. ASSUME NEW f \in Fibers, Retry(f) PROVE SleeperInv(p)'
  BY <1>2, <1>3, <1>9, ClientsSplit DEF Retry, Exhausted, GoTo
<1>10. ASSUME NEW t \in Threads, ThreadWait(t) PROVE SleeperInv(p)'
  <2>0. t \in Clients /\ at[t] # "asleep" /\ target[t] \in Pools
    BY <1>10, ClientsSplit DEF ThreadWait, PlaceInv, Wanting
  <2>1. CASE Take(t) /\ UNCHANGED cv BY <1>3, <2>0, <2>1
  <2>2. CASE Exhausted(t) /\ cv' = [cv EXCEPT ![target[t]] = @ \cup {t}] /\ GoTo(t, "asleep")
    <3>1. target' = target /\ at'[t] = "asleep" /\ \A d \in Clients \ {t} : at'[d] = at[d]
      BY <2>0, <2>2 DEF Exhausted, GoTo, TypeOK
    <3>2. cv'[p] = IF p = target[t] THEN cv[p] \cup {t} ELSE cv[p]
      BY <2>0, <2>2
         DEF TypeOK
    <3> QED BY <1>0, <2>0, <3>1, <3>2 DEF SleeperInv
  <2> QED BY <1>10, <2>1, <2>2 DEF ThreadWait
<1>11. ASSUME UNCHANGED <<at, target, cv>> PROVE SleeperInv(p)'
  BY <1>0, <1>11 DEF SleeperInv
<1> QED BY <1>4, <1>5, <1>6, <1>7, <1>8, <1>9, <1>10, <1>11
        DEF Next, ClientStep, FiberStep, Dispatch, Yield, RemovePool, vars

-----------------------------------------------------------------------------
(***************************************************************************)
(* Connections.                                                            *)
(***************************************************************************)

\* The last free connection of p goes to a client that has none of p.
LEMMA ConnTaken ==
    ASSUME TypeOK, NEW p \in Pools, ConnInv(p), NEW c \in Clients, PlaceInv(c),
           at[c] \in Wanting, Take(c), UNCHANGED registered
    PROVE  ConnInv(p)'
<1> DEFINE q == target[c]
           k == available[q][Len(available[q])]
           rest == SubSeq(available[q], 1, Len(available[q]) - 1)
<1>1. /\ q \in Pools /\ Len(available[q]) > 0 /\ k \in ConnsOf(q)
      /\ conns' = [conns EXCEPT ![c][q] = k] /\ available' = [available EXCEPT ![q] = rest]
  BY TakeEffect
<1>2. available[q] \in Seq(Conns) /\ Len(available[q]) \in Nat BY <1>1 DEF TypeOK
<1>3. rest \in Seq(Conns) /\ Len(rest) = Len(available[q]) - 1
      /\ \A i \in 1 .. Len(available[q]) - 1 : rest[i] = available[q][i]
  BY <1>1, <1>2, PopBack
<1>4. conns[c][q] = NoConn BY DEF PlaceInv
<1>5. k # NoConn BY <1>1, ConnIsConn
<1>6. k = available[q][Len(available[q])] OBVIOUS
<1>7. DOMAIN available[q] = 1 .. Len(available[q]) BY <1>2
<1> HIDE DEF q, k, rest
<1>8. CASE p # q
  <2>1. available'[p] = available[p] /\ \A d \in Clients : conns'[d][p] = conns[d][p]
    BY <1>1, <1>8 DEF TypeOK
  <2> QED BY <2>1 DEF ConnInv
<1>9. CASE p = q
  <2>1. available'[p] = rest /\ DOMAIN rest = 1 .. Len(available[p]) - 1
    BY <1>1, <1>3, <1>9 DEF TypeOK
  <2>2. \A d \in Clients : conns'[d][p] = IF d = c THEN k ELSE conns[d][p]
    BY <1>1, <1>9 DEF TypeOK
  <2>3. \A i \in DOMAIN rest : i \in DOMAIN available[p] /\ rest[i] = available[p][i]
                               /\ i # Len(available[p])
    BY <1>2, <1>3, <1>7, <1>9, <2>1
  <2>4. Len(available[p]) \in DOMAIN available[p] BY <1>1, <1>2, <1>7, <1>9
  <2>5. \A i, j \in DOMAIN available'[p] : available'[p][i] = available'[p][j] => i = j
    BY <2>1, <2>3 DEF ConnInv
  <2>6. \A d \in Clients : conns[d][p] # k BY <1>6, <1>9, <2>4 DEF ConnInv
  <2>7. \A d, e \in Clients : conns'[d][p] = conns'[e][p] /\ conns'[d][p] # NoConn => d = e
    BY <2>2, <2>6 DEF ConnInv
  <2>8. \A i \in DOMAIN rest : rest[i] # k BY <1>6, <1>9, <2>3, <2>4 DEF ConnInv
  <2>9. \A i \in DOMAIN available'[p], d \in Clients : available'[p][i] # conns'[d][p]
    BY <2>1, <2>2, <2>3, <2>8 DEF ConnInv
  <2>10. ASSUME p \in registered, NEW x \in ConnsOf(p)
         PROVE  \/ \E i \in DOMAIN available'[p] : available'[p][i] = x
                \/ \E d \in Clients : conns'[d][p] = x
    <3>1. CASE x = k BY <2>2, <3>1
    <3>2. ASSUME NEW i \in DOMAIN available[p], available[p][i] = x, x # k
          PROVE  \E n \in DOMAIN available'[p] : available'[p][n] = x
      <4>1. i # Len(available[p]) BY <1>6, <1>9, <3>2
      <4>2. i \in DOMAIN rest BY <1>2, <1>7, <1>9, <2>1, <4>1
      <4> QED BY <2>1, <2>3, <3>2, <4>2
    <3>3. ASSUME NEW d \in Clients, conns[d][p] = x
          PROVE  \E e \in Clients : conns'[e][p] = x
      <4>1. d # c BY <1>4, <1>9, <2>10, <3>3, ConnIsConn
      <4> QED BY <2>2, <3>3, <4>1
    <3> QED BY <2>10, <3>1, <3>2, <3>3 DEF ConnInv
  <2> QED BY <2>5, <2>7, <2>9, <2>10 DEF ConnInv
<1> QED BY <1>8, <1>9

\* c gives its connection of q back, or drops it with a removed pool.
LEMMA ConnReleased ==
    ASSUME TypeOK, NEW p \in Pools, ConnInv(p), NEW c \in Clients, NEW q \in Pools,
           ReleasePush(c, q)
    PROVE  ConnInv(p)'
<1> DEFINE k == conns[c][q]
           more == Append(available[q], k)
<1>1. k \in ConnsOf(q) BY DEF ReleasePush, Held, TypeOK
<1>2. available[q] \in Seq(Conns) /\ Len(available[q]) \in Nat BY DEF TypeOK
<1>3. more \in Seq(Conns) /\ Len(more) = Len(available[q]) + 1
      /\ (\A i \in 1 .. Len(available[q]) : more[i] = available[q][i])
      /\ more[Len(available[q]) + 1] = k
  BY <1>1, <1>2, ConnIsConn, PushBack
<1>4. available' = (IF q \in registered THEN [available EXCEPT ![q] = more] ELSE available)
      /\ conns' = [conns EXCEPT ![c][q] = NoConn] /\ registered' = registered
  BY DEF ReleasePush
<1>5. k # NoConn BY <1>1, ConnIsConn
<1>6. DOMAIN available[q] = 1 .. Len(available[q]) BY <1>2
<1>7. k = conns[c][q] OBVIOUS
<1> HIDE DEF k, more
<1>8. CASE p # q
  <2>1. available'[p] = available[p] /\ \A d \in Clients : conns'[d][p] = conns[d][p]
    BY <1>4, <1>8 DEF TypeOK
  <2> QED BY <1>4, <2>1 DEF ConnInv
<1>9. CASE p = q
  <2>1. \A d \in Clients : conns'[d][p] = IF d = c THEN NoConn ELSE conns[d][p]
    BY <1>4, <1>9 DEF TypeOK
  <2>2. \A d, e \in Clients : conns'[d][p] = conns'[e][p] /\ conns'[d][p] # NoConn => d = e
    BY <2>1 DEF ConnInv
  <2>3. \A i \in DOMAIN available[p] : available[p][i] # NoConn
    BY ConnIsConn DEF TypeOK
  <2>4. \A d \in Clients : conns'[d][p] # k BY <1>5, <1>7, <1>9, <2>1 DEF ConnInv
  <2>5. CASE p \notin registered
    <3>1. available'[p] = available[p] BY <1>4, <1>9, <2>5
    <3> QED BY <1>4, <2>1, <2>2, <2>3, <2>5, <3>1 DEF ConnInv
  <2>6. CASE p \in registered
    <3>1. available'[p] = more /\ DOMAIN more = 1 .. Len(available[p]) + 1
      BY <1>3, <1>4, <1>9, <2>6 DEF TypeOK
    <3>2. \A i \in DOMAIN more : \/ i \in DOMAIN available[p] /\ more[i] = available[p][i]
                                 \/ i = Len(available[p]) + 1 /\ more[i] = k
      BY <1>2, <1>3, <1>6, <1>9, <3>1
    <3>3. \A i \in DOMAIN available[p] : available[p][i] # k BY <1>7, <1>9 DEF ConnInv
    <3>4. \A i, j \in DOMAIN available'[p] : available'[p][i] = available'[p][j] => i = j
      BY <3>1, <3>2, <3>3 DEF ConnInv
    <3>5. \A i \in DOMAIN available'[p], d \in Clients : available'[p][i] # conns'[d][p]
      BY <1>5, <2>1, <2>3, <2>4, <3>1, <3>2 DEF ConnInv
    <3>6. ASSUME NEW x \in ConnsOf(p)
          PROVE  \/ \E i \in DOMAIN available'[p] : available'[p][i] = x
                 \/ \E d \in Clients : conns'[d][p] = x
      <4>1. CASE x = k
        <5>1. Len(available[p]) + 1 \in DOMAIN more BY <1>2, <1>9, <3>1
        <5> QED BY <1>3, <1>9, <3>1, <4>1, <5>1
      <4>2. ASSUME NEW i \in DOMAIN available[p], available[p][i] = x
            PROVE  \E n \in DOMAIN available'[p] : available'[p][n] = x
        <5>1. i \in DOMAIN more /\ more[i] = available[p][i]
          BY <1>2, <1>3, <1>6, <1>9, <3>1
        <5> QED BY <3>1, <4>2, <5>1
      <4>3. ASSUME NEW d \in Clients, conns[d][p] = x, x # k
            PROVE  \E e \in Clients : conns'[e][p] = x
        <5>1. d # c BY <1>7, <1>9, <4>3
        <5> QED BY <2>1, <4>3, <5>1
      <4> QED BY <2>6, <4>1, <4>2, <4>3 DEF ConnInv
    <3> QED BY <2>2, <3>4, <3>5, <3>6 DEF ConnInv
  <2> QED BY <2>5, <2>6
<1> QED BY <1>8, <1>9

LEMMA ConnStep ==
    ASSUME TypeOK, \A c \in Clients : PlaceInv(c), [Next]_vars, NEW p \in Pools, ConnInv(p)
    PROVE  ConnInv(p)'
<1>1. ASSUME UNCHANGED <<available, conns>>, registered' \subseteq registered PROVE ConnInv(p)'
  BY <1>1 DEF ConnInv
<1>2. ASSUME NEW c \in Clients, AcquireFast(c) PROVE ConnInv(p)'
  BY <1>1, <1>2, ConnTaken DEF AcquireFast, Exhausted, Wanting
<1>3. ASSUME NEW f \in Fibers, Retry(f) PROVE ConnInv(p)'
  BY <1>1, <1>3, ConnTaken, ClientsSplit DEF Retry, Exhausted, Wanting
<1>4. ASSUME NEW t \in Threads, ThreadWait(t) PROVE ConnInv(p)'
  BY <1>1, <1>4, ConnTaken, ClientsSplit DEF ThreadWait, Exhausted, Wanting
<1> QED BY <1>1, <1>2, <1>3, <1>4, ConnReleased
        DEF Next, ClientStep, FiberStep, Begin, Finish, ReleaseLock, ReleaseNotify, ReleaseSignal,
            ReleaseDone, GetConn, Dispatch, Yield, JoinWaiters, Suspend, RemovePool, vars

\* In numbers.
LEMMA ConnCounts ==
    ASSUME TypeOK, NEW p \in Pools, ConnInv(p), NEW k \in ConnsOf(p)
    PROVE  LET n == Cardinality(Free(p, k)) + Cardinality(Borrowers(p, k))
           IN  n <= 1 /\ (p \in registered => n = 1)
<1>1. k # NoConn BY ConnIsConn
<1>2. ASSUME NEW i \in DOMAIN available[p], available[p][i] = k
      PROVE  Free(p, k) = {i} /\ Borrowers(p, k) = {}
  <2>1. Free(p, k) = {i} BY <1>2 DEF Free, ConnInv
  <2>2. Borrowers(p, k) = {} BY <1>2 DEF Borrowers, ConnInv
  <2> QED BY <2>1, <2>2
<1>3. ASSUME NEW c \in Clients, conns[c][p] = k
      PROVE  Free(p, k) = {} /\ Borrowers(p, k) = {c}
  <2>1. Free(p, k) = {} BY <1>3 DEF Free, ConnInv
  <2>2. Borrowers(p, k) = {c} BY <1>1, <1>3 DEF Borrowers, ConnInv
  <2> QED BY <2>1, <2>2
<1>4. CASE \E i \in DOMAIN available[p] : available[p][i] = k
  <2>1. PICK i \in DOMAIN available[p] : available[p][i] = k BY <1>4
  <2>2. Free(p, k) = {i} /\ Borrowers(p, k) = {} BY <1>2, <2>1
  <2>3. Cardinality({i}) = 1 /\ Cardinality({}) = 0 BY FS_EmptySet, FS_Singleton
  <2> QED BY <2>2, <2>3
<1>5. CASE \E c \in Clients : conns[c][p] = k
  BY <1>3, <1>5, FS_EmptySet, FS_Singleton
<1>6. CASE /\ ~\E i \in DOMAIN available[p] : available[p][i] = k
           /\ ~\E c \in Clients : conns[c][p] = k
  <2>1. Free(p, k) = {} /\ Borrowers(p, k) = {} BY <1>6 DEF Free, Borrowers
  <2>2. p \notin registered BY <1>6 DEF ConnInv
  <2> QED BY <2>1, <2>2, FS_EmptySet
<1> QED BY <1>4, <1>5, <1>6

-----------------------------------------------------------------------------
(***************************************************************************)
(* Fibers and the waiter list.                                             *)
(***************************************************************************)

LEMMA WaitersType ==
    ASSUME TypeOK
    PROVE  /\ DOMAIN waiters = 1 .. Len(waiters) /\ Len(waiters) \in Nat
           /\ \A i \in DOMAIN waiters : waiters[i].client \in Fibers
<1>1. waiters \in Seq([client : Fibers, pool : Pools]) BY DEF TypeOK
<1>2. DOMAIN waiters = 1 .. Len(waiters) /\ Len(waiters) \in Nat BY <1>1
<1>3. \A i \in DOMAIN waiters : waiters[i] \in [client : Fibers, pool : Pools]
  BY <1>1, <1>2, ElementOfSeq
<1> QED BY <1>2, <1>3

\* Waking the first: its waker is used up.
LEMMA WakeFirstEffect ==
    ASSUME TypeOK, WakeFirst
    PROVE  /\ 1 \in DOMAIN waiters /\ waiters[1].client \in Fibers
           /\ waker[waiters[1].client]
           /\ waker' = [waker EXCEPT ![waiters[1].client] = FALSE]
           /\ status' = [status EXCEPT ![waiters[1].client] = "active"]
           /\ permit' = [permit EXCEPT ![waiters[1].client] =
                             (status[waiters[1].client] = "active")]
           /\ DOMAIN waiters' = 1 .. Len(waiters) - 1
           /\ \A i \in DOMAIN waiters' : i + 1 \in DOMAIN waiters /\ waiters'[i] = waiters[i + 1]
           /\ \A i \in DOMAIN waiters : i = 1 \/ (i - 1 \in DOMAIN waiters'
                                                  /\ waiters'[i - 1] = waiters[i])
<1>1. waiters \in Seq([client : Fibers, pool : Pools]) /\ waiters # <<>>
  BY DEF TypeOK, WakeFirst
<1>2. /\ Len(Tail(waiters)) = Len(waiters) - 1 /\ Len(waiters) > 0
      /\ \A i \in 1 .. Len(waiters) - 1 : Tail(waiters)[i] = waiters[i + 1]
      /\ Head(waiters) = waiters[1] /\ Tail(waiters) \in Seq([client : Fibers, pool : Pools])
  BY <1>1, PopFront
<1>3. waiters' = Tail(waiters) BY DEF WakeFirst
<1>4. DOMAIN waiters = 1 .. Len(waiters) /\ Len(waiters) \in Nat BY <1>1
<1>5. DOMAIN waiters' = 1 .. Len(waiters) - 1 BY <1>2, <1>3
<1>6. 1 \in DOMAIN waiters BY <1>2, <1>4
<1>7. \A i \in DOMAIN waiters' : i + 1 \in DOMAIN waiters /\ waiters'[i] = waiters[i + 1]
  BY <1>2, <1>3, <1>4, <1>5
<1>8. ASSUME NEW i \in DOMAIN waiters, i # 1
      PROVE  i - 1 \in DOMAIN waiters' /\ waiters'[i - 1] = waiters[i]
  <2>1. i \in Nat /\ i - 1 \in 1 .. Len(waiters) - 1 /\ i - 1 + 1 = i BY <1>4, <1>8
  <2> QED BY <1>2, <1>3, <1>5, <2>1
<1>9. waiters[1].client \in Fibers BY <1>6, WaitersType
<1> QED BY <1>2, <1>5, <1>6, <1>7, <1>8, <1>9 DEF WakeFirst, Park!Unpark

LEMMA FiberStepInv ==
    ASSUME TypeOK, \A c \in Clients : PlaceInv(c), \A p \in Pools : SleeperInv(p), [Next]_vars,
           NEW f \in Fibers, FiberInv(f)
    PROVE  FiberInv(f)'
<1> USE PoolAssumption
<1>0. f \in Clients BY ClientsSplit
\* f does not leave "queued" or "retry", nor enter them.
<1>1. ASSUME \/ at'[f] = at[f]
             \/ at[f] \notin {"queued", "retry"} /\ at'[f] \notin {"queued", "retry"},
             status'[f] = status[f], permit'[f] = permit[f], waker'[f] = waker[f],
             running'[SchedOf[f]] = f => running[SchedOf[f]] = f
      PROVE  FiberInv(f)'
  BY <1>1 DEF FiberInv
<1>2. ASSUME NEW c \in Clients, c # f, NEW place, at' = [at EXCEPT ![c] = place]
      PROVE  at'[f] = at[f]
  BY <1>0, <1>2 DEF TypeOK
<1>3. ASSUME NEW c \in Clients, Begin(c) PROVE FiberInv(f)'
  <2>1. CASE c # f
    <3>1. at'[f] = at[f] BY <1>2, <1>3, <2>1 DEF Begin, GoTo
    <3>2. status'[f] = status[f] /\ permit' = permit /\ waker' = waker /\ running' = running
      BY <1>3, <2>1 DEF Begin, Park!Start, parkVars, TypeOK
    <3> QED BY <1>1, <3>1, <3>2
  <2>2. CASE c = f
    <3>1. at[f] = "new" /\ at'[f] = "work" /\ status'[f] = "active" /\ permit' = permit
          /\ waker' = waker /\ status[f] = "new" /\ running' = running
      BY <1>0, <1>3, <2>2 DEF Begin, GoTo, Park!Start, TypeOK
    <3> QED BY <3>1 DEF FiberInv
  <2> QED BY <2>1, <2>2
<1>4. ASSUME NEW c \in Clients, at[c] \notin {"queued", "retry"}, Take(c),
             UNCHANGED <<running, parkVars>>
      PROVE  FiberInv(f)'
  BY <1>0, <1>1, <1>4 DEF Take, GoTo, TypeOK, parkVars
<1>5. ASSUME NEW c \in Clients, at[c] \notin {"queued", "retry"}, NEW place, GoTo(c, place),
             place \notin {"queued", "retry"}, UNCHANGED <<running, parkVars>>
      PROVE  FiberInv(f)'
  BY <1>0, <1>1, <1>5 DEF GoTo, TypeOK, parkVars
<1>6. ASSUME NEW c \in Clients, AcquireFast(c) PROVE FiberInv(f)'
  BY <1>4, <1>5, <1>6 DEF AcquireFast
<1>7. ASSUME NEW c \in Clients, Finish(c) \/ ReleaseLock(c) PROVE FiberInv(f)'
  BY <1>5, <1>7 DEF Finish, ReleaseLock
<1>8. ASSUME NEW c \in Clients, ReleaseNotify(c) PROVE FiberInv(f)'
  <2>1. running' = running
        /\ (at'[f] = at[f] \/ (at[f] \notin {"queued", "retry"}
                               /\ at'[f] \notin {"queued", "retry"}))
    BY <1>0, <1>8 DEF ReleaseNotify, GoTo, TypeOK
  <2>2. CASE UNCHANGED parkVars BY <1>1, <2>1, <2>2 DEF parkVars
  <2>3. CASE WakeFirst
    <3>1. PICK g \in Fibers : g = waiters[1].client BY <2>3, WakeFirstEffect
    <3>2. /\ waker[g] /\ waker' = [waker EXCEPT ![g] = FALSE]
          /\ status' = [status EXCEPT ![g] = "active"]
          /\ permit' = [permit EXCEPT ![g] = (status[g] = "active")]
      BY <2>3, <3>1, WakeFirstEffect
    <3>3. CASE g # f
      <4>1. status'[f] = status[f] /\ permit'[f] = permit[f] /\ waker'[f] = waker[f]
        BY <3>2, <3>3 DEF TypeOK
      <4> QED BY <1>1, <2>1, <4>1
    <3>4. CASE g = f
      <4>1. status'[f] = "active" /\ ~waker'[f] /\ (permit'[f] <=> status[f] = "active")
        BY <3>2, <3>4, Zenon DEF TypeOK
      <4>2. permit'[f] => at[f] = "queued" BY <3>2, <3>4, <4>1 DEF FiberInv
      <4> QED BY <2>1, <4>1, <4>2 DEF FiberInv
    <3> QED BY <3>3, <3>4
  <2> QED BY <1>8, <2>2, <2>3 DEF ReleaseNotify
<1>9. ASSUME NEW c \in Clients, ReleaseSignal(c) PROVE FiberInv(f)'
  <2>1. target[c] \in Pools BY <1>9 DEF ReleaseSignal, PlaceInv
  <2>2. \A t \in cv[target[c]] : t # f BY <2>1 DEF TypeOK
  <2>3. at'[f] = at[f] \/ (f = c /\ at'[f] = "release")
    BY <1>0, <1>9, <2>2 DEF ReleaseSignal, TypeOK
  <2> QED BY <1>1, <1>9, <2>3 DEF ReleaseSignal, parkVars
<1>10. ASSUME NEW c \in Clients, ReleaseDone(c) PROVE FiberInv(f)'
  <2>1. at'[f] = at[f] \/ (f = c /\ at'[f] = "end")
    BY <1>0, <1>10 DEF ReleaseDone, GoTo, TypeOK
  <2>2. permit' = permit /\ waker' = waker
    BY <1>10 DEF ReleaseDone, Park!End, parkVars
  <2>3. running'[SchedOf[f]] = f => running[SchedOf[f]] = f /\ f # c
    BY <1>10 DEF ReleaseDone, SwitchOut, TypeOK, Clients
  <2>4. CASE f # c
    <3>1. status'[f] = status[f]
      BY <1>10, <2>4
         DEF ReleaseDone, Park!End, parkVars, TypeOK
    <3> QED BY <1>1, <1>10, <2>1, <2>2, <2>3, <2>4, <3>1 DEF ReleaseDone
  <2>5. CASE f = c
    <3>1. status'[f] = "finished" /\ ~permit[f] /\ ~waker[f]
      BY <1>10, <2>5 DEF ReleaseDone, Park!End, Park!Idle, TypeOK
    <3>2. at'[f] = "end" BY <1>0, <1>10, <2>5 DEF ReleaseDone, GoTo, TypeOK
    <3> QED BY <2>2, <2>3, <2>5, <3>1, <3>2 DEF FiberInv
  <2> QED BY <2>4, <2>5
<1>11. ASSUME NEW c \in Clients, NEW p \in Pools, GetConn(c, p) PROVE FiberInv(f)'
  BY <1>5, <1>11 DEF GetConn
<1>12. ASSUME NEW c \in Clients, NEW p \in Pools, ReleasePush(c, p) PROVE FiberInv(f)'
  <2>1. CASE p \in registered BY <1>5, <1>12, <2>1 DEF ReleasePush
  <2>2. CASE p \notin registered BY <1>1, <1>12, <2>2 DEF ReleasePush, parkVars
  <2> QED BY <2>1, <2>2
<1>13. ASSUME NEW g \in Fibers, Dispatch(g) \/ Yield(g) PROVE FiberInv(f)'
  <2>1. UNCHANGED <<at, parkVars>> BY <1>13 DEF Dispatch, Yield
  <2>2. running'[SchedOf[f]] = f => running[SchedOf[f]] = f \/ status[f] = "active"
    <3>1. running \in [Scheds -> Fibers \cup {Nobody}] /\ SchedOf[f] \in Scheds
          /\ SchedOf[g] \in Scheds /\ Nobody # f
      BY <1>0 DEF TypeOK
    <3>2. CASE Dispatch(g)
      <4>1. running' = [running EXCEPT ![SchedOf[g]] = g] /\ status[g] = "active"
        BY <3>2 DEF Dispatch
      <4> QED BY <3>1, <4>1
    <3>3. CASE Yield(g)
      <4>1. running' = [running EXCEPT ![SchedOf[g]] = Nobody]
        BY <3>3
           DEF Yield, SwitchOut
      <4> QED BY <3>1, <4>1
    <3> QED BY <1>13, <3>2, <3>3
  <2> QED BY <2>1, <2>2 DEF FiberInv, parkVars
<1>14. ASSUME NEW g \in Fibers, JoinWaiters(g) PROVE FiberInv(f)'
  <2>1. CASE g # f
    <3>1. at'[f] = at[f] BY <1>2, <1>14, <2>1, ClientsSplit DEF JoinWaiters, GoTo
    <3>2. waker'[f] = waker[f] /\ UNCHANGED <<status, permit, running>>
      BY <1>14, <2>1 DEF JoinWaiters, Park!Arm, TypeOK
    <3> QED BY <1>1, <3>1, <3>2
  <2>2. CASE g = f
    <3>1. at'[f] = "queued" BY <1>0, <1>14, <2>2 DEF JoinWaiters, GoTo, TypeOK
    <3>2. status'[f] = "active" /\ ~permit'[f]
      BY <1>14, <2>2 DEF JoinWaiters, Park!Arm, Park!Idle
    <3> QED BY <3>1, <3>2 DEF FiberInv
  <2> QED BY <2>1, <2>2
<1>15. ASSUME NEW g \in Fibers, Suspend(g) PROVE FiberInv(f)'
  <2>1. running'[SchedOf[f]] = f => running[SchedOf[f]] = f /\ f # g
    <3>1. running \in [Scheds -> Fibers \cup {Nobody}] /\ SchedOf[f] \in Scheds
          /\ SchedOf[g] \in Scheds /\ Nobody # f
      BY <1>0 DEF TypeOK
    <3>2. running' = [running EXCEPT ![SchedOf[g]] = Nobody]
      BY <1>15
         DEF Suspend, SwitchOut
    <3> QED BY <3>1, <3>2
  <2>2. CASE g # f
    <3>1. at'[f] = at[f] BY <1>2, <1>15, <2>2, ClientsSplit DEF Suspend, GoTo
    <3>2. waker' = waker /\ status'[f] = status[f] /\ permit'[f] = permit[f]
      BY <1>15, <2>2 DEF Suspend, Park!Park, TypeOK
    <3> QED BY <1>1, <2>1, <3>1, <3>2
  <2>3. CASE g = f
    <3>1. at'[f] = "retry" BY <1>0, <1>15, <2>3 DEF Suspend, GoTo, TypeOK
    <3>2. /\ at[f] = "queued" /\ (permit[f] \/ waker[f]) /\ waker' = waker
          /\ status' = [status EXCEPT ![f] = IF permit[f] THEN "active" ELSE "parked"]
          /\ permit' = [permit EXCEPT ![f] = FALSE]
      BY <1>15, <2>3 DEF Suspend, Park!Park
    <3>3. ~permit'[f] BY <3>2, Zenon DEF TypeOK
    <3>4. CASE permit[f]
      <4>1. status'[f] = "active" /\ ~waker'[f] BY <3>2, <3>4 DEF TypeOK, FiberInv
      <4> QED BY <3>1, <3>3, <4>1 DEF FiberInv
    <3>5. CASE ~permit[f]
      <4>1. status'[f] = "parked" /\ waker'[f] BY <3>2, <3>5 DEF TypeOK
      <4> QED BY <2>1, <2>3, <3>1, <3>3, <4>1 DEF FiberInv
    <3> QED BY <3>4, <3>5
  <2> QED BY <2>2, <2>3
<1>16. ASSUME NEW g \in Fibers, Retry(g) PROVE FiberInv(f)'
  <2>1. UNCHANGED <<running, parkVars>> BY <1>16 DEF Retry
  <2>2. at'[f] = at[f] \/ (f = g /\ at'[f] \in {"work", "miss"})
    BY <1>0, <1>16 DEF Retry, Take, GoTo, TypeOK
  <2>3. CASE f # g BY <1>1, <2>1, <2>2, <2>3 DEF parkVars
  <2>4. CASE f = g
    <3>1. status[f] = "active" /\ at[f] = "retry"
      BY <1>16, <2>4 DEF Retry, Executes, FiberInv
    <3>2. ~waker[f] /\ ~permit[f] BY <3>1 DEF FiberInv
    <3>3. at'[f] \in {"retry", "work", "miss"} BY <2>2, <3>1
    <3> QED BY <2>1, <3>1, <3>2, <3>3 DEF FiberInv, parkVars
  <2> QED BY <2>3, <2>4
<1>17. ASSUME NEW t \in Threads, ThreadWait(t) PROVE FiberInv(f)'
  <2>1. t \in Clients /\ t # f /\ UNCHANGED <<running, parkVars>>
    BY <1>17, ClientsSplit DEF ThreadWait
  <2>2. at'[f] = at[f] BY <1>0, <1>17, <2>1 DEF ThreadWait, Take, GoTo, TypeOK
  <2> QED BY <1>1, <2>1, <2>2 DEF parkVars
<1>18. ASSUME UNCHANGED <<at, running, parkVars>> PROVE FiberInv(f)'
  BY <1>1, <1>18 DEF parkVars
<1> QED BY <1>3, <1>6, <1>7, <1>8, <1>9, <1>10, <1>11, <1>12, <1>13, <1>14, <1>15,
    <1>16,
           <1>17, <1>18 DEF Next, ClientStep, FiberStep, RemovePool, vars

\* A step that leaves the list alone.
LEMMA ListKept ==
    ASSUME NEW f \in Fibers, ListInv(f), waiters' = waiters, waker'[f] = waker[f],
           waker[f] => target'[f] = target[f]
    PROVE  ListInv(f)'
BY DEF ListInv

LEMMA ListStep ==
    ASSUME TypeOK, \A c \in Clients : PlaceInv(c), [Next]_vars, NEW f \in Fibers,
           FiberInv(f), ListInv(f)
    PROVE  ListInv(f)'
<1> USE PoolAssumption
<1>0. f \in Clients BY ClientsSplit
<1>2. ASSUME UNCHANGED <<waiters, waker, target>> PROVE ListInv(f)' BY <1>2, ListKept
<1>3. ASSUME NEW c \in Clients, at[c] \notin {"queued", "retry"},
             NEW x, target' = [target EXCEPT ![c] = x], UNCHANGED <<waiters, waker>>
      PROVE  ListInv(f)'
  <2>1. waker[f] => target'[f] = target[f] BY <1>0, <1>3 DEF FiberInv, TypeOK
  <2> QED BY <1>3, <2>1, ListKept
<1>4. ASSUME NEW c \in Clients, Begin(c) \/ Finish(c) \/ ReleaseLock(c) \/ ReleaseDone(c)
      PROVE  ListInv(f)'
  <2>1. UNCHANGED <<waiters, waker, target>>
    BY <1>4 DEF Begin, Finish, ReleaseLock, ReleaseDone, parkVars, Park!Start, Park!End
  <2> QED BY <1>2, <2>1
<1>5. ASSUME NEW c \in Clients, AcquireFast(c) PROVE ListInv(f)'
  <2>1. UNCHANGED <<waiters, waker>> /\ at[c] = "acquire"
    BY <1>5
       DEF AcquireFast, parkVars
  <2>2. CASE Take(c) BY <1>3, <2>1, <2>2 DEF Take
  <2>3. CASE Exhausted(c) BY <1>2, <2>1, <2>3 DEF Exhausted
  <2> QED BY <1>5, <2>2, <2>3 DEF AcquireFast
<1>6. ASSUME NEW c \in Clients, ReleaseNotify(c) PROVE ListInv(f)'
  <2>1. target' = target BY <1>6 DEF ReleaseNotify
  <2>2. CASE UNCHANGED <<waiters, parkVars>> BY <1>2, <2>1, <2>2 DEF parkVars
  <2>3. CASE WakeFirst
    <3>0. DOMAIN waiters = 1 .. Len(waiters) /\ Len(waiters) \in Nat BY WaitersType
    <3>1. PICK g \in Fibers : g = waiters[1].client BY <2>3, WakeFirstEffect
    <3>2. /\ waker[g] /\ waker' = [waker EXCEPT ![g] = FALSE] /\ 1 \in DOMAIN waiters
          /\ DOMAIN waiters' = 1 .. Len(waiters) - 1
      BY <2>3, <3>1, WakeFirstEffect
    <3>3. \A i \in DOMAIN waiters' : i + 1 \in DOMAIN waiters /\ waiters'[i] = waiters[i + 1]
      BY <2>3, WakeFirstEffect
    <3>4. \A i \in DOMAIN waiters : i = 1 \/ (i - 1 \in DOMAIN waiters'
                                              /\ waiters'[i - 1] = waiters[i])
      BY <2>3, WakeFirstEffect
    <3>5. \A i, j \in DOMAIN waiters' :
             waiters'[i].client = f /\ waiters'[j].client = f => i = j
      <4>1. SUFFICES ASSUME NEW i \in DOMAIN waiters', NEW j \in DOMAIN waiters',
                            waiters'[i].client = f, waiters'[j].client = f
                     PROVE  i = j
        OBVIOUS
      <4>2. i + 1 = j + 1 BY <3>3, <4>1 DEF ListInv
      <4>3. i \in Nat /\ j \in Nat BY <3>0, <3>2
      <4> QED BY <4>2, <4>3
    <3>6. \A i \in DOMAIN waiters' : waiters'[i].client = f => waiters'[i].pool = target'[f]
      BY <2>1, <3>3 DEF ListInv
    <3>7. waker'[f] <=> \E i \in DOMAIN waiters' : waiters'[i].client = f
      <4>1. CASE g = f
        <5>1. ~waker'[f] BY <3>2, <4>1, Zenon DEF TypeOK
        <5>2. ASSUME NEW i \in DOMAIN waiters', waiters'[i].client = f PROVE FALSE
          <6>1. i + 1 = 1 BY <3>1, <3>2, <3>3, <4>1, <5>2 DEF ListInv
          <6>2. i \in 1 .. Len(waiters) - 1 BY <3>2
          <6> QED BY <3>0, <6>1, <6>2
        <5> QED BY <5>1, <5>2
      <4>2. CASE g # f
        <5>1. waker'[f] <=> waker[f] BY <3>2, <4>2, Zenon DEF TypeOK
        <5>2. ASSUME NEW i \in DOMAIN waiters, waiters[i].client = f
              PROVE  \E j \in DOMAIN waiters' : waiters'[j].client = f
          <6>1. i # 1 BY <3>1, <4>2, <5>2
          <6> QED BY <3>4, <5>2, <6>1
        <5>3. ASSUME NEW i \in DOMAIN waiters', waiters'[i].client = f
              PROVE  \E j \in DOMAIN waiters : waiters[j].client = f
          BY <3>3, <5>3
        <5> QED BY <5>1, <5>2, <5>3 DEF ListInv
      <4> QED BY <4>1, <4>2
    <3> QED BY <3>5, <3>6, <3>7 DEF ListInv
  <2> QED BY <1>6, <2>2, <2>3 DEF ReleaseNotify
<1>7. ASSUME NEW c \in Clients, ReleaseSignal(c) PROVE ListInv(f)'
  BY <1>3, <1>7 DEF ReleaseSignal, parkVars
<1>8. ASSUME NEW c \in Clients, NEW p \in Pools, GetConn(c, p) PROVE ListInv(f)'
  BY <1>2, <1>3, <1>8 DEF GetConn, parkVars
<1>9. ASSUME NEW c \in Clients, NEW p \in Pools, ReleasePush(c, p) PROVE ListInv(f)'
  BY <1>2, <1>3, <1>9 DEF ReleasePush, parkVars
<1>10. ASSUME NEW g \in Fibers, JoinWaiters(g) PROVE ListInv(f)'
  <2> DEFINE e == [client |-> g, pool |-> target[g]]
  <2>1. e \in [client : Fibers, pool : Pools]
    BY <1>10, ClientsSplit DEF JoinWaiters, PlaceInv, Wanting
  <2>2. waiters' = Append(waiters, e) /\ target' = target BY <1>10 DEF JoinWaiters
  <2>3. ~waker[g] /\ waker' = [waker EXCEPT ![g] = TRUE]
    BY <1>10 DEF JoinWaiters, Park!Arm, Park!Idle
  <2>4. waiters \in Seq([client : Fibers, pool : Pools]) /\ Len(waiters) \in Nat
        /\ DOMAIN waiters = 1 .. Len(waiters)
    BY WaitersType DEF TypeOK
  <2>5. /\ Append(waiters, e) \in Seq([client : Fibers, pool : Pools])
        /\ Len(Append(waiters, e)) = Len(waiters) + 1
        /\ \A i \in 1 .. Len(waiters) : Append(waiters, e)[i] = waiters[i]
        /\ Append(waiters, e)[Len(waiters) + 1] = e
    BY <2>1, <2>4, PushBack
  <2>6. e.client = g /\ e.pool = target[g] OBVIOUS
  <2> HIDE DEF e
  <2>7. DOMAIN waiters' = 1 .. Len(waiters) + 1 BY <2>2, <2>5
  <2>8. \A i \in DOMAIN waiters' : \/ i \in DOMAIN waiters /\ waiters'[i] = waiters[i]
                                   \/ i = Len(waiters) + 1 /\ waiters'[i] = e
    BY <2>2, <2>4, <2>5, <2>7
  <2>9. CASE g # f
    <3>1. waker'[f] <=> waker[f] BY <2>3, <2>9, Zenon DEF TypeOK
    <3>2. \A i \in DOMAIN waiters : i \in DOMAIN waiters' /\ waiters'[i] = waiters[i]
      BY <2>2, <2>4, <2>5, <2>7
    <3>3. \A i \in DOMAIN waiters' : waiters'[i].client = f =>
             i \in DOMAIN waiters /\ waiters'[i] = waiters[i]
      BY <2>6, <2>8, <2>9
    <3>4. (\E i \in DOMAIN waiters' : waiters'[i].client = f)
          <=> (\E i \in DOMAIN waiters : waiters[i].client = f)
      BY <3>2, <3>3
    <3>5. \A i, j \in DOMAIN waiters' : waiters'[i].client = f /\ waiters'[j].client = f => i = j
      BY <3>3 DEF ListInv
    <3>6. \A i \in DOMAIN waiters' : waiters'[i].client = f => waiters'[i].pool = target'[f]
      BY <2>2, <3>3 DEF ListInv
    <3> QED BY <3>1, <3>4, <3>5, <3>6 DEF ListInv
  <2>10. CASE g = f
    <3>1. waker'[f] BY <2>3, <2>10, Zenon DEF TypeOK
    <3>2. \A i \in DOMAIN waiters : waiters[i].client # f BY <2>3, <2>10 DEF ListInv
    <3>3. \A i \in DOMAIN waiters' : waiters'[i].client = f => i = Len(waiters) + 1 /\ waiters'[i] = e
      BY <2>8, <3>2
    <3>4. Len(waiters) + 1 \in DOMAIN waiters' /\ waiters'[Len(waiters) + 1] = e
      BY <2>2, <2>4, <2>5, <2>7
    <3>5. \E i \in DOMAIN waiters' : waiters'[i].client = f BY <2>6, <2>10, <3>4
    <3>6. \A i \in DOMAIN waiters' : waiters'[i].client = f => waiters'[i].pool = target'[f]
      BY <2>2, <2>6, <2>10, <3>3
    <3> QED BY <3>1, <3>3, <3>5, <3>6 DEF ListInv
  <2> QED BY <2>9, <2>10
<1>11. ASSUME NEW g \in Fibers, Suspend(g) PROVE ListInv(f)'
  BY <1>2, <1>11 DEF Suspend, Park!Park
<1>12. ASSUME NEW g \in Fibers, Retry(g) PROVE ListInv(f)'
  <2>1. UNCHANGED <<waiters, waker>> BY <1>12 DEF Retry, parkVars
  <2>2. CASE Exhausted(g) BY <1>2, <2>1, <2>2 DEF Exhausted
  <2>3. CASE Take(g)
    <3>1. target' = [target EXCEPT ![g] = Nobody] BY <2>3 DEF Take
    <3>2. f = g => ~waker[f] BY <1>12 DEF Retry, Executes, FiberInv
    <3>3. waker[f] => target'[f] = target[f] BY <1>0, <3>1, <3>2 DEF TypeOK
    <3> QED BY <2>1, <3>3, ListKept
  <2> QED BY <1>12, <2>2, <2>3 DEF Retry
<1>13. ASSUME NEW t \in Threads, ThreadWait(t) PROVE ListInv(f)'
  <2>1. UNCHANGED <<waiters, waker>> /\ t \in Clients /\ at[t] \notin {"queued", "retry"}
    BY <1>13, ClientsSplit DEF ThreadWait, parkVars
  <2>2. CASE Take(t) BY <1>3, <2>1, <2>2 DEF Take
  <2>3. CASE Exhausted(t) BY <1>2, <2>1, <2>3 DEF Exhausted
  <2> QED BY <1>13, <2>2, <2>3 DEF ThreadWait
<1> QED BY <1>2, <1>4, <1>5, <1>6, <1>7, <1>8, <1>9, <1>10, <1>11, <1>12, <1>13
        DEF Next, ClientStep, FiberStep, Dispatch, Yield, RemovePool, vars, parkVars

\* In numbers.
LEMMA ListCounts ==
    ASSUME NEW f \in Fibers, ListInv(f)
    PROVE  Cardinality(Listed(f)) = IF waker[f] THEN 1 ELSE 0
<1>1. CASE waker[f]
  <2>1. PICK i \in DOMAIN waiters : waiters[i].client = f BY <1>1 DEF ListInv
  <2>2. Listed(f) = {i} BY <2>1 DEF Listed, ListInv
  <2>3. Cardinality({i}) = 1 BY FS_Singleton
  <2> QED BY <1>1, <2>2, <2>3
<1>2. CASE ~waker[f]
  <2>1. Listed(f) = {} BY <1>2 DEF Listed, ListInv
  <2> QED BY <1>2, <2>1, FS_EmptySet
<1> QED BY <1>1, <1>2

-----------------------------------------------------------------------------
(***************************************************************************)
(* Threads: every free connection beside a sleeper is on somebody's mind.  *)
(***************************************************************************)
ToldInv(p) ==
    cv[p] # {} => Len(available[p]) <= Cardinality(Told(p)) + Cardinality(Telling(p))

\* A set loses at most one element when one is removed.
LEMMA OneLess ==
    ASSUME NEW S, IsFiniteSet(S), NEW x
    PROVE  /\ IsFiniteSet(S \ {x}) /\ Cardinality(S \ {x}) \in Nat
           /\ Cardinality(S \ {x}) >= Cardinality(S) - 1
<1>1. /\ IsFiniteSet(S \ {x})
      /\ Cardinality(S \ {x}) = IF x \in S THEN Cardinality(S) - 1 ELSE Cardinality(S)
  BY FS_RemoveElement
<1>2. Cardinality(S) \in Nat /\ Cardinality(S \ {x}) \in Nat BY <1>1, FS_CardinalityType
<1> QED BY <1>1, <1>2

LEMMA ToldFinite ==
    ASSUME NEW p \in Pools
    PROVE  /\ IsFiniteSet(Told(p)) /\ IsFiniteSet(Telling(p))
           /\ Cardinality(Told(p)) \in Nat /\ Cardinality(Telling(p)) \in Nat
<1>1. IsFiniteSet(Clients) BY PoolAssumption, FS_Union DEF Clients
<1>2. Told(p) \in SUBSET Clients /\ Telling(p) \in SUBSET Clients
  BY ClientsSplit DEF Told, Telling
<1>3. IsFiniteSet(Told(p)) /\ IsFiniteSet(Telling(p)) BY <1>1, <1>2, FS_Subset
<1> QED BY <1>3, FS_CardinalityType

\* The pool has lost a connection, or nothing, and the two sets nothing.
LEMMA ToldKept ==
    ASSUME TypeOK, TypeOK', NEW p \in Pools, ToldInv(p), cv'[p] \subseteq cv[p],
           Len(available'[p]) <= Len(available[p]),
           Told(p) \subseteq Told(p)', Telling(p) \subseteq Telling(p)'
    PROVE  ToldInv(p)'
<1>1. available[p] \in Seq(Conns) /\ available'[p] \in Seq(Conns) BY DEF TypeOK
<1>2. Len(available[p]) \in Nat /\ Len(available'[p]) \in Nat BY <1>1
<1>3. /\ IsFiniteSet(Told(p)) /\ IsFiniteSet(Telling(p))
      /\ Cardinality(Told(p)) \in Nat /\ Cardinality(Telling(p)) \in Nat
  BY ToldFinite
<1>4. IsFiniteSet(Clients) BY PoolAssumption, FS_Union DEF Clients
<1>5. Told(p)' \in SUBSET Clients /\ Telling(p)' \in SUBSET Clients
  BY ClientsSplit DEF Told, Telling
<1>6. IsFiniteSet(Told(p)') /\ IsFiniteSet(Telling(p)') BY <1>4, <1>5, FS_Subset
<1>7. Cardinality(Told(p)') \in Nat /\ Cardinality(Telling(p)') \in Nat
  BY <1>6, FS_CardinalityType
<1>8. /\ Cardinality(Told(p)) <= Cardinality(Told(p)')
      /\ Cardinality(Telling(p)) <= Cardinality(Telling(p)')
  BY <1>6, FS_Subset
<1> QED BY <1>2, <1>3, <1>7, <1>8 DEF ToldInv

LEMMA ToldStep ==
    ASSUME TypeOK, TypeOK', \A c \in Clients : PlaceInv(c), \A p \in Pools : SleeperInv(p),
           [Next]_vars, NEW p \in Pools, ToldInv(p)
    PROVE  ToldInv(p)'
<1> USE PoolAssumption
<1>0. /\ IsFiniteSet(Told(p)) /\ IsFiniteSet(Telling(p))
      /\ Cardinality(Told(p)) \in Nat /\ Cardinality(Telling(p)) \in Nat
      /\ IsFiniteSet(Told(p)') /\ IsFiniteSet(Telling(p)')
      /\ Cardinality(Told(p)') \in Nat /\ Cardinality(Telling(p)') \in Nat
      /\ Len(available[p]) \in Nat /\ Len(available'[p]) \in Nat
  <2>1. available[p] \in Seq(Conns) /\ available'[p] \in Seq(Conns) BY DEF TypeOK
  <2>2. IsFiniteSet(Clients) BY FS_Union DEF Clients
  <2>3. Told(p)' \in SUBSET Clients /\ Telling(p)' \in SUBSET Clients
    BY ClientsSplit DEF Told, Telling
  <2>4. IsFiniteSet(Told(p)') /\ IsFiniteSet(Telling(p)') BY <2>2, <2>3, FS_Subset
  <2> QED BY <2>1, <2>4, ToldFinite, FS_CardinalityType
\* Somebody acts who neither has been told nor is telling.
<1>1. ASSUME NEW c \in Clients, at[c] \notin {"woken", "notify", "signal"}, UNCHANGED <<cv, available>>,
             \A d \in Clients \ {c} : at'[d] = at[d] /\ target'[d] = target[d]
      PROVE  ToldInv(p)'
  <2>1. Told(p) \subseteq Told(p)' BY <1>1, ClientsSplit DEF Told
  <2>2. Telling(p) \subseteq Telling(p)' BY <1>1 DEF Telling
  <2> QED BY <1>0, <1>1, <2>1, <2>2, ToldKept
<1>2. ASSUME NEW c \in Clients, at[c] \in Wanting, Take(c), UNCHANGED cv
      PROVE  ToldInv(p)'
  <2>1. /\ target[c] \in Pools /\ Len(available[target[c]]) > 0
        /\ available' = [available EXCEPT ![target[c]] =
                            SubSeq(available[target[c]], 1, Len(available[target[c]]) - 1)]
        /\ at' = [at EXCEPT ![c] = "work"] /\ target' = [target EXCEPT ![c] = Nobody]
    BY <1>2, TakeEffect
  <2>2. \A d \in Clients \ {c} : at'[d] = at[d] /\ target'[d] = target[d]
    BY <2>1
       DEF TypeOK
  <2>3. Told(p) \ {c} \subseteq Told(p)' BY <2>2, ClientsSplit DEF Told
  <2>4. Telling(p) \subseteq Telling(p)' BY <1>2, <2>2 DEF Telling, Wanting
  <2>5. CASE p # target[c]
    <3>1. available'[p] = available[p] BY <2>1, <2>5 DEF TypeOK
    <3>2. Told(p) \subseteq Told(p)' BY <2>3, <2>5 DEF Told
    <3> QED BY <1>0, <1>2, <2>4, <3>1, <3>2, ToldKept
  <2>6. CASE p = target[c]
    <3>1. available[p] \in Seq(Conns) BY DEF TypeOK
    <3>2. Len(available'[p]) = Len(available[p]) - 1
      BY <2>1, <2>6, <3>1, PopBack DEF TypeOK
    <3>3. /\ IsFiniteSet(Told(p) \ {c}) /\ Cardinality(Told(p) \ {c}) \in Nat
          /\ Cardinality(Told(p) \ {c}) >= Cardinality(Told(p)) - 1
      BY <1>0, OneLess
    <3>4. Cardinality(Told(p) \ {c}) <= Cardinality(Told(p)') BY <1>0, <2>3, FS_Subset
    <3>5. Cardinality(Telling(p)) <= Cardinality(Telling(p)') BY <1>0, <2>4, FS_Subset
    <3> QED BY <1>0, <1>2, <3>2, <3>3, <3>4, <3>5 DEF ToldInv
  <2> QED BY <2>5, <2>6
<1>3. ASSUME NEW c \in Clients, at[c] \notin {"woken", "notify", "signal"}, UNCHANGED <<cv, available, target>>,
             NEW place, at' = [at EXCEPT ![c] = place]
      PROVE  ToldInv(p)'
  BY <1>1, <1>3 DEF TypeOK
<1>4. ASSUME NEW c \in Clients, Begin(c) \/ Finish(c) \/ ReleaseLock(c) \/ ReleaseDone(c)
      PROVE  ToldInv(p)'
  BY <1>3, <1>4 DEF Begin, Finish, ReleaseLock, ReleaseDone, GoTo
<1>5. ASSUME NEW c \in Clients, AcquireFast(c) PROVE ToldInv(p)'
  <2>1. CASE Take(c) BY <1>2, <1>5, <2>1 DEF AcquireFast, Wanting
  <2>2. CASE Exhausted(c) /\ GoTo(c, "miss")
    BY <1>3, <1>5, <2>2 DEF AcquireFast, Exhausted, GoTo
  <2> QED BY <1>5, <2>1, <2>2 DEF AcquireFast
<1>6. ASSUME NEW c \in Clients, ReleaseNotify(c) PROVE ToldInv(p)'
  <2>1. at[c] = "notify" /\ at' = [at EXCEPT ![c] = "signal"] /\ UNCHANGED <<cv, available, target>>
    BY <1>6 DEF ReleaseNotify, GoTo
  <2>2. Told(p) \subseteq Told(p)' BY <2>1, ClientsSplit DEF Told, TypeOK
  <2>3. Telling(p) \subseteq Telling(p)' BY <2>1 DEF Telling, TypeOK
  <2> QED BY <1>0, <2>1, <2>2, <2>3, ToldKept
<1>7. ASSUME NEW c \in Clients, ReleaseSignal(c) PROVE ToldInv(p)'
  <2>0. target[c] \in Pools /\ at[c] = "signal" BY <1>7 DEF ReleaseSignal, PlaceInv
  <2>1. available' = available /\ \A d \in Clients \ {c} : target'[d] = target[d]
    BY <1>7 DEF ReleaseSignal, TypeOK
  <2>2. CASE cv[target[c]] = {} /\ UNCHANGED cv /\ at' = [at EXCEPT ![c] = "release"]
    <3>1. CASE p = target[c] BY <2>2, <3>1 DEF ToldInv
    <3>2. CASE p # target[c]
      <4>1. \A d \in Clients \ {c} : at'[d] = at[d] BY <2>2 DEF TypeOK
      <4>2. Told(p) \subseteq Told(p)' BY <2>0, <2>1, <4>1, ClientsSplit DEF Told
      <4>3. Telling(p) \subseteq Telling(p)' BY <2>1, <3>2, <4>1 DEF Telling
      <4> QED BY <1>0, <2>1, <2>2, <4>2, <4>3, ToldKept
    <3> QED BY <3>1, <3>2
  <2>3. ASSUME NEW t \in cv[target[c]], cv' = [cv EXCEPT ![target[c]] = @ \ {t}],
               at' = [at EXCEPT ![c] = "release", ![t] = "woken"]
        PROVE  ToldInv(p)'
    <3>1. at[t] = "asleep" /\ target[t] = target[c] /\ t \in Threads /\ t # c
      BY <2>0 DEF SleeperInv, TypeOK
    <3>2. /\ at'[t] = "woken" /\ target'[t] = target[c]
          /\ \A d \in Clients \ {c, t} : at'[d] = at[d]
      BY <2>1, <2>3, <3>1, ClientsSplit DEF TypeOK
    <3>3. cv'[p] \subseteq cv[p] BY <2>0, <2>3 DEF TypeOK
    <3>4. CASE p # target[c]
      <4>1. Told(p) \subseteq Told(p)' BY <2>0, <2>1, <3>1, <3>2, ClientsSplit DEF Told
      <4>2. Telling(p) \subseteq Telling(p)' BY <2>1, <3>1, <3>2, <3>4 DEF Telling
      <4> QED BY <1>0, <2>1, <3>3, <4>1, <4>2, ToldKept
    <3>5. CASE p = target[c]
      <4>1. Told(p) \cup {t} \subseteq Told(p)' /\ t \notin Told(p)
        BY <2>0, <2>1, <3>1, <3>2, <3>5, ClientsSplit DEF Told
      <4>2. Telling(p) \ {c} \subseteq Telling(p)' BY <2>1, <3>1, <3>2 DEF Telling
      <4>3. /\ Cardinality(Told(p) \cup {t}) = Cardinality(Told(p)) + 1
            /\ Cardinality(Told(p) \cup {t}) <= Cardinality(Told(p)')
        BY <1>0, <4>1, FS_AddElement, FS_Subset
      <4>4. /\ IsFiniteSet(Telling(p) \ {c}) /\ Cardinality(Telling(p) \ {c}) \in Nat
            /\ Cardinality(Telling(p) \ {c}) >= Cardinality(Telling(p)) - 1
        BY <1>0, OneLess
      <4>5. Cardinality(Telling(p) \ {c}) <= Cardinality(Telling(p)')
        BY <1>0, <4>2, FS_Subset
      <4> QED BY <1>0, <2>1, <3>3, <4>3, <4>4, <4>5 DEF ToldInv
    <3> QED BY <3>4, <3>5
  <2> QED BY <1>7, <2>2, <2>3 DEF ReleaseSignal
<1>8. ASSUME NEW c \in Clients, NEW q \in Pools, GetConn(c, q) PROVE ToldInv(p)'
  <2>1. at[c] = "work" /\ UNCHANGED <<cv, available>> BY <1>8 DEF GetConn
  <2>2. \A d \in Clients \ {c} : at'[d] = at[d] /\ target'[d] = target[d]
    BY <1>8 DEF GetConn, GoTo, TypeOK
  <2> QED BY <1>1, <2>1, <2>2
<1>9. ASSUME NEW c \in Clients, NEW q \in Pools, ReleasePush(c, q) PROVE ToldInv(p)'
  <2>1. at[c] = "release" /\ cv' = cv BY <1>9 DEF ReleasePush
  <2>2. \A d \in Clients \ {c} : at'[d] = at[d] /\ target'[d] = target[d]
    BY <1>9 DEF ReleasePush, GoTo, TypeOK
  <2>3. CASE q \notin registered BY <1>1, <1>9, <2>1, <2>2, <2>3 DEF ReleasePush
  <2>4. CASE q \in registered /\ p # q
    <3>1. available'[p] = available[p] BY <1>9, <2>4 DEF ReleasePush, TypeOK
    <3>2. Told(p) \subseteq Told(p)' BY <2>1, <2>2, ClientsSplit DEF Told
    <3>3. Telling(p) \subseteq Telling(p)' BY <2>1, <2>2 DEF Telling
    <3> QED BY <1>0, <2>1, <3>1, <3>2, <3>3, ToldKept
  <2>5. CASE q \in registered /\ p = q
    <3>1. available' = [available EXCEPT ![p] = Append(available[p], conns[c][p])]
          /\ at' = [at EXCEPT ![c] = "notify"] /\ target' = [target EXCEPT ![c] = p]
      BY <1>9, <2>5 DEF ReleasePush, GoTo
    <3>2. available[p] \in Seq(Conns) /\ conns[c][p] \in Conns
      BY <1>9, <2>5, ConnIsConn DEF ReleasePush, Held, TypeOK
    <3>3. Len(available'[p]) = Len(available[p]) + 1
      BY <3>1, <3>2, PushBack DEF TypeOK
    <3>4. Told(p) \subseteq Told(p)' BY <2>1, <2>2, ClientsSplit DEF Told
    <3>5. at'[c] = "notify" /\ target'[c] = p BY <3>1 DEF TypeOK
    <3>6. Telling(p) \cup {c} \subseteq Telling(p)' /\ c \notin Telling(p)
      BY <2>1, <2>2, <3>5 DEF Telling
    <3>7. /\ Cardinality(Telling(p) \cup {c}) = Cardinality(Telling(p)) + 1
          /\ Cardinality(Telling(p) \cup {c}) <= Cardinality(Telling(p)')
      BY <1>0, <3>6, FS_AddElement, FS_Subset
    <3>8. Cardinality(Told(p)) <= Cardinality(Told(p)') BY <1>0, <3>4, FS_Subset
    <3> QED BY <1>0, <2>1, <3>3, <3>7, <3>8 DEF ToldInv
  <2> QED BY <2>3, <2>4, <2>5
<1>10. ASSUME NEW f \in Fibers, JoinWaiters(f) \/ Suspend(f) PROVE ToldInv(p)'
  BY <1>3, <1>10, ClientsSplit DEF JoinWaiters, Suspend, GoTo
<1>11. ASSUME NEW f \in Fibers, Retry(f) PROVE ToldInv(p)'
  <2>1. CASE Take(f) BY <1>2, <1>11, <2>1, ClientsSplit DEF Retry, Wanting
  <2>2. CASE Exhausted(f) /\ GoTo(f, "miss")
    BY <1>3, <1>11, <2>2, ClientsSplit DEF Retry, Exhausted, GoTo
  <2> QED BY <1>11, <2>1, <2>2 DEF Retry
<1>12. ASSUME NEW t \in Threads, ThreadWait(t) PROVE ToldInv(p)'
  <2>0. t \in Clients /\ at[t] \in Wanting
    BY <1>12, ClientsSplit
       DEF ThreadWait, Wanting
  <2>1. CASE Take(t) /\ UNCHANGED cv BY <1>2, <2>0, <2>1
  <2>2. CASE Exhausted(t) /\ cv' = [cv EXCEPT ![target[t]] = @ \cup {t}] /\ GoTo(t, "asleep")
    <3>1. available' = available /\ target' = target /\ available[target[t]] = <<>>
          /\ at' = [at EXCEPT ![t] = "asleep"]
      BY <2>2 DEF Exhausted, GoTo
    <3>2. CASE p = target[t]
      <4>1. Len(available'[p]) = 0 BY <3>1, <3>2
      <4> QED BY <1>0, <4>1 DEF ToldInv
    <3>3. CASE p # target[t]
      <4>1. cv'[p] = cv[p] BY <2>2, <3>3 DEF TypeOK
      <4>2. Told(p) \subseteq Told(p)' BY <3>1, <3>3, ClientsSplit DEF Told, TypeOK
      <4>3. Telling(p) \subseteq Telling(p)' BY <3>1, <3>3 DEF Telling, TypeOK
      <4> QED BY <1>0, <3>1, <4>1, <4>2, <4>3, ToldKept
    <3> QED BY <3>2, <3>3
  <2> QED BY <1>12, <2>1, <2>2 DEF ThreadWait
<1>13. ASSUME UNCHANGED <<at, target, cv, available>> PROVE ToldInv(p)'
  <2>1. Told(p)' = Told(p) /\ Telling(p)' = Telling(p) BY <1>13 DEF Told, Telling
  <2> QED BY <1>13, <2>1 DEF ToldInv
<1> QED BY <1>4, <1>5, <1>6, <1>7, <1>8, <1>9, <1>10, <1>11, <1>12, <1>13
        DEF Next, ClientStep, FiberStep, Dispatch, Yield, RemovePool, vars

-----------------------------------------------------------------------------
(***************************************************************************)
(* The inductive invariant.  A connection changes hands only where the     *)
(* receiver has none (PlaceInv); an entry of the list is used up only by   *)
(* the fiber it is of (FiberInv, ListInv).                                 *)
(***************************************************************************)
PoolInv ==
    /\ TypeOK
    /\ \A c \in Clients : PlaceInv(c)
    /\ \A p \in Pools : SleeperInv(p) /\ ConnInv(p) /\ ToldInv(p)
    /\ \A f \in Fibers : FiberInv(f) /\ ListInv(f)

LEMMA PoolInit == Init => PoolInv
<1> SUFFICES ASSUME Init PROVE PoolInv OBVIOUS
<1> USE PoolAssumption DEF Init
<1>1. ASSUME NEW p \in Pools
      PROVE  /\ available[p] = [i \in 1 .. Size |-> <<p, i>>]
             /\ DOMAIN available[p] = 1 .. Size /\ available[p] \in Seq(Conns)
             /\ \A i \in 1 .. Size : available[p][i] = <<p, i>> /\ available[p][i] \in ConnsOf(p)
  <2>1. available[p] = [i \in 1 .. Size |-> <<p, i>>] OBVIOUS
  <2>2. \A i \in 1 .. Size : <<p, i>> \in ConnsOf(p) BY DEF ConnsOf
  <2>3. \A i \in 1 .. Size : <<p, i>> \in Conns BY <2>2, ConnIsConn
  <2>4. [i \in 1 .. Size |-> <<p, i>>] \in Seq(Conns) BY <2>3
  <2> QED BY <2>1, <2>2, <2>4
<1>2. TypeOK
  <2>1. available \in [Pools -> Seq(Conns)]
        /\ \A p \in Pools : \A i \in DOMAIN available[p] : available[p][i] \in ConnsOf(p)
    BY <1>1
  <2>2. waiters \in Seq([client : Fibers, pool : Pools]) OBVIOUS
  <2>3. conns \in [Clients -> [Pools -> Conns \cup {NoConn}]]
        /\ \A c \in Clients, p \in Pools : conns[c][p] \in ConnsOf(p) \cup {NoConn}
    OBVIOUS
  <2>4. status \in [Fibers -> {"new", "active", "parked", "finished"}]
        /\ permit \in [Fibers -> BOOLEAN] /\ waker \in [Fibers -> BOOLEAN]
    BY DEF Park!ParkInit
  <2> QED BY <2>1, <2>2, <2>3, <2>4 DEF TypeOK, Places
<1>3. ASSUME NEW c \in Clients PROVE PlaceInv(c) BY DEF PlaceInv, Wanting
<1>4. ASSUME NEW p \in Pools PROVE SleeperInv(p) /\ ToldInv(p)
  BY
     DEF SleeperInv, ToldInv
<1>5. ASSUME NEW p \in Pools PROVE ConnInv(p)
  <2>1. \A c \in Clients : conns[c][p] = NoConn OBVIOUS
  <2>2. \A i, j \in DOMAIN available[p] : available[p][i] = available[p][j] => i = j
    BY <1>1
  <2>3. \A i \in DOMAIN available[p], c \in Clients : available[p][i] # conns[c][p]
    BY <1>1, <2>1, ConnIsConn
  <2>4. \A k \in ConnsOf(p) : \E i \in DOMAIN available[p] : available[p][i] = k
    BY <1>1 DEF ConnsOf
  <2> QED BY <2>1, <2>2, <2>3, <2>4 DEF ConnInv
<1>6. ASSUME NEW f \in Fibers PROVE FiberInv(f) /\ ListInv(f)
  <2>1. status[f] = "new" /\ ~permit[f] /\ ~waker[f] BY DEF Park!ParkInit
  <2>2. at[f] = "new" /\ running[SchedOf[f]] # f BY ClientsSplit
  <2>3. DOMAIN waiters = {} OBVIOUS
  <2> QED BY <2>1, <2>2, <2>3 DEF FiberInv, ListInv
<1> QED BY <1>2, <1>3, <1>4, <1>5, <1>6 DEF PoolInv

LEMMA PoolStep == PoolInv /\ [Next]_vars => PoolInv'
<1> SUFFICES ASSUME PoolInv, [Next]_vars PROVE PoolInv' OBVIOUS
<1>1. /\ TypeOK /\ \A c \in Clients : PlaceInv(c)
      /\ \A p \in Pools : SleeperInv(p)
      /\ \A p \in Pools : ConnInv(p) /\ ToldInv(p)
      /\ \A f \in Fibers : FiberInv(f) /\ ListInv(f)
  BY DEF PoolInv
<1>2. TypeOK' BY <1>1, TypeStep
<1>3. ASSUME NEW c \in Clients PROVE PlaceInv(c)' BY <1>1, PlaceStep
<1>4. ASSUME NEW p \in Pools PROVE SleeperInv(p)' BY <1>1, SleeperStep
<1>5. ASSUME NEW p \in Pools PROVE ConnInv(p)' BY <1>1, ConnStep
<1>6. ASSUME NEW p \in Pools PROVE ToldInv(p)' BY <1>1, <1>2, ToldStep
<1>7. ASSUME NEW f \in Fibers PROVE FiberInv(f)' BY <1>1, FiberStepInv
<1>8. ASSUME NEW f \in Fibers PROVE ListInv(f)' BY <1>1, ListStep
<1> QED BY <1>2, <1>3, <1>4, <1>5, <1>6, <1>7, <1>8 DEF PoolInv

LEMMA PoolInvariant == Spec => []PoolInv
BY PoolInit, PoolStep, PTL DEF Spec

\* Every variable keeps its type.
THEOREM PoolTypeCorrect == Spec => []TypeOK
<1>1. PoolInv => TypeOK BY DEF PoolInv
<1> QED BY <1>1, PoolInvariant, PTL

\* A connection is free once or borrowed by one request, and is lost only with
\* a pool that has been removed.
THEOREM ConnInOnePlace == Spec => []ConnExclusive
<1>1. PoolInv => ConnExclusive BY ConnCounts DEF PoolInv, ConnExclusive
<1> QED BY <1>1, PoolInvariant, PTL

\* A fiber is in g_fiber_waiters exactly as long as it waits there, and once.
THEOREM WaiterListExact == Spec => []WaitersExact
<1>1. PoolInv => WaitersExact
  <2> SUFFICES ASSUME PoolInv, NEW f \in Fibers
               PROVE  /\ Cardinality(Listed(f)) = IF waker[f] THEN 1 ELSE 0
                      /\ waker[f] => /\ at[f] = "queued" \/ status[f] = "parked"
                                     /\ \A i \in Listed(f) : waiters[i].pool = target[f]
                      /\ status[f] = "parked" => at[f] = "retry" /\ waker[f]
    BY DEF WaitersExact
  <2>1. FiberInv(f) /\ ListInv(f) BY DEF PoolInv
  <2>2. Cardinality(Listed(f)) = IF waker[f] THEN 1 ELSE 0 BY <2>1, ListCounts
  <2> QED BY <2>1, <2>2 DEF FiberInv, ListInv, Listed
<1> QED BY <1>1, PoolInvariant, PTL

\* No thread sleeps in cv while a connection is free that nobody has been told
\* of.
THEOREM ThreadsAreTold == Spec => []ThreadsTold
<1>1. PoolInv => ThreadsTold BY DEF PoolInv, ToldInv, ThreadsTold
<1> QED BY <1>1, PoolInvariant, PTL

=============================================================================
