----------------------- MODULE HttpConnectionsProofs -----------------------
(***************************************************************************)
(* TLAPS proofs about HttpConnections, for any connections, descriptor     *)
(* numbers, script threads, limits and conversations.                      *)
(***************************************************************************)
EXTENDS HttpConnections, SequenceTheorems, FiniteSetTheorems, TLAPS

Places == {"out", "accepted", "request", "map", "register", "unmap", "hold", "handler", "arm",
           "release", "done"}
LoopPlaces == {"batch", "read", "again", "frames", "after", "close_ws", "drain_ws", "close_sse",
               "drain_sse"}
Causes == {"none", "server", "send", "client", "bye", "gone", "stray"}
ConnOrNone == Conns \cup {None}
FdOrNone == Fds \cup {None}
Tables == [Fds -> ConnOrNone]
LoopType == [at : LoopPlaces, fd : FdOrNone, entry : ConnOrNone, conn : ConnOrNone,
             ret : {"batch", "read", "again"}, fire : BOOLEAN, batch : SUBSET Fds,
             wake : BOOLEAN, local : Seq(FdOrNone)]
ActType == [at : {"idle", "next", "write", "bye"}, todo : SUBSET Conns, conn : ConnOrNone]

TypeOK ==
    /\ num \in [Conns -> FdOrNone] /\ open \in [Conns -> BOOLEAN]
    /\ peer \in [Conns -> {"away", "here", "gone"}]
    /\ sent \in [Conns -> Seq(FrameKinds)] /\ inbox \in [Conns -> Seq(Nat)]
    /\ inEpoll \in [Conns -> BOOLEAN] /\ edge \in [Conns -> BOOLEAN]
    /\ pc \in [Conns -> Places] /\ kind \in [Conns -> Kinds \cup {None}]
    /\ ipConns \in Nat /\ held \in [Conns -> BOOLEAN]
    /\ clients \in [Kinds -> Tables] /\ reg \in [Kinds -> Tables]
    /\ buf \in [Fds -> Seq(Nat)] /\ frag \in [Conns -> Seq(Nat)]
    /\ closed \in [Conns -> BOOLEAN] /\ mutex \in [Conns -> Actors \cup {None}]
    /\ table \in Tables /\ entryClosed \in [Conns -> BOOLEAN]
    /\ tasks \in Seq(FdOrNone) /\ lp \in LoopType
    /\ act \in [Actors -> ActType]
    /\ cause \in [Conns -> Causes] /\ stray \in SUBSET (Conns \X ConnOrNone \X {"data", "bye"})
    /\ fired \in [Conns -> Nat] /\ delivered \in [Conns -> Seq(Seq(Nat))] /\ raced \in BOOLEAN

-----------------------------------------------------------------------------
(***************************************************************************)
(* The invariant.  An upgraded connection goes through the places map,     *)
(* register (or unmap), hold, handler and arm of its worker and is then    *)
(* the loop's; Up says that it has been registered.                        *)
(***************************************************************************)
Elems(s) == {s[i] : i \in DOMAIN s}
Early == {"accepted", "request", "map"}
Up(c) == pc[c] \in {"hold", "handler", "arm"} \/ (pc[c] = "done" /\ held[c])
Mapped(c) == pc[c] \in {"register", "unmap"} \/ Up(c)

\* Open sockets have numbers of their own.
SocketInv ==
    /\ \A c, d \in Conns : open[c] /\ open[d] /\ num[c] = num[d] => c = d
    /\ \A c \in Conns : open[c] => num[c] \in Fds

\* What is known of a connection by the place its worker is at.
PlaceInv(c) ==
    /\ pc[c] \in Early \cup {"register", "unmap", "hold", "handler"} => open[c]
    /\ pc[c] \in {"out", "release"} => ~open[c]
    /\ open[c] /\ pc[c] = "done" => held[c]
    /\ held[c] => pc[c] \in {"handler", "arm", "done"}
    /\ pc[c] \in {"handler", "arm"} => held[c]
    /\ pc[c] = "map" \/ Mapped(c) => kind[c] \in Kinds /\ num[c] \in Fds
    /\ closed[c] => Up(c)

\* The loop's table has exactly the open connections handed to it.
TableInv(c) ==
    /\ \A fd \in Fds : table[fd] = c => open[c] /\ num[c] = fd /\ pc[c] \in {"arm", "done"}
    /\ open[c] /\ pc[c] \in {"arm", "done"} => table[num[c]] = c
    /\ entryClosed[c] => ~open[c] /\ pc[c] \in {"arm", "done"}

\* The server's maps have open connections only, under their own number, and
\* every one that nobody has closed; a WebSocket until the loop has closed it.
ClientsInv(c) ==
    /\ \A k \in Kinds, fd \in Fds :
          clients[k][fd] = c => open[c] /\ num[c] = fd /\ kind[c] = k /\ Mapped(c)
    /\ Mapped(c) /\ (pc[c] \in {"register", "unmap", "hold"} \/ ~closed[c])
          => clients[kind[c]][num[c]] = c
    /\ open[c] /\ Up(c) /\ kind[c] = "ws"
          => clients["ws"][num[c]] = c \/ (lp.at = "drain_ws" /\ lp.conn = c)

Draining(c) == lp.at \in {"drain_ws", "drain_sse"} /\ lp.conn = c

\* The registries lag behind the maps only while close_ws drains.
RegInv(c) ==
    \A k \in Kinds, fd \in Fds :
        reg[k][fd] = c => /\ open[c] /\ num[c] = fd /\ kind[c] = k /\ Up(c)
                          /\ clients[k][fd] = c \/ (lp.at = "drain_ws" /\ lp.conn = c)

\* A connection is closed for a reason of its own.
CauseInv(c) ==
    /\ closed[c] <=> cause[c] # "none"
    /\ cause[c] # "stray"
    /\ cause[c] = "gone" => peer[c] = "gone"

\* A script thread that writes has the connection's mutex, ...
SendInv(a) ==
    /\ act[a].at = "write" => act[a].conn \in Conns /\ mutex[act[a].conn] = a
    /\ act[a].at = "bye" => act[a].conn \in Conns
    /\ \A c \in act[a].todo : Up(c)

\* ... and whoever has a mutex writes to a connection that the maps have, or
\* that the loop waits for before it closes the number.
MutexInv(c) ==
    mutex[c] # None =>
        /\ act[mutex[c]].at = "write" /\ act[mutex[c]].conn = c
        /\ Up(c)
        /\ clients[kind[c]][num[c]] = c \/ Draining(c)

\* A number in a call of close_sse, posted or under way, belongs to the
\* connection it was posted for or to one that has not been entered yet; the
\* number of an event under way to the connection of the event.
Posted == Elems(tasks) \cup Elems(lp.local)
          \cup (IF lp.at # "batch" /\ lp.entry = None THEN {lp.fd} ELSE {})
Dying(c) == Up(c) /\ held[c] /\ kind[c] = "sse" /\ closed[c]
CarryInv(c) ==
    open[c] /\ pc[c] \notin Early =>
        /\ num[c] \in Posted => Dying(c)
        /\ num[c] = lp.fd /\ lp.entry # None => c = lp.entry

\* The fields of the loop by its place.
LoopInv ==
    /\ Posted \subseteq Fds
    /\ lp.at = "batch" <=> lp.fd = None
    /\ lp.at = "batch" => lp.entry = None /\ lp.conn = None /\ lp.ret = "batch"
    /\ lp.fire => lp.at = "drain_sse"
    /\ lp.at \in {"read", "again", "frames", "after", "close_ws", "drain_ws"} => lp.entry # None
    /\ lp.at = "read" => lp.conn = None
    /\ lp.at = "again" => lp.ret = "again"
    /\ lp.at \in {"frames", "after"} => lp.ret = "read"
    /\ lp.at \in {"close_ws", "drain_ws", "close_sse", "drain_sse"} =>
           (lp.ret = "batch" <=> lp.entry = None)
    /\ lp.at = "drain_sse" => lp.conn # None

\* The connection whose event the loop is working on.
EntryInv(c) ==
    lp.entry = c =>
        /\ num[c] = lp.fd /\ Up(c) /\ pc[c] \in {"arm", "done"}
        /\ lp.at = "read" => IF open[c] THEN kind[c] = "ws" => clients["ws"][lp.fd] = c
                                        ELSE entryClosed[c]
        /\ lp.at \in {"frames", "after", "close_ws"} => kind[c] = "ws" /\ clients["ws"][lp.fd] = c
        /\ lp.at \in {"frames", "after", "drain_ws", "drain_sse"} => lp.conn = c
        /\ lp.at \in {"after", "close_ws"} => closed[c]
        /\ lp.at = "drain_ws" => kind[c] = "ws"
        /\ lp.at \in {"close_sse", "drain_sse"} => kind[c] = "sse" /\ open[c]
        /\ lp.at = "close_sse" => closed[c] \/ peer[c] = "gone"
        /\ lp.ret = "again" => peer[c] = "gone"
        /\ lp.at = "again" => clients[kind[c]][lp.fd] = None

\* The connection the loop waits for before it closes the number.
DrainInv(c) ==
    Draining(c) => /\ num[c] = lp.fd /\ open[c] /\ Up(c) /\ closed[c]
                   /\ clients[kind[c]][lp.fd] = None
                   /\ lp.at = "drain_sse" => kind[c] = "sse"

ConnInv ==
    /\ SocketInv
    /\ \A c \in Conns : PlaceInv(c)
    /\ \A c \in Conns : TableInv(c)
    /\ \A c \in Conns : ClientsInv(c)
    /\ \A c \in Conns : RegInv(c)
    /\ \A c \in Conns : CauseInv(c)
    /\ \A a \in Actors : SendInv(a)
    /\ \A c \in Conns : MutexInv(c)
    /\ \A c \in Conns : CarryInv(c)
    /\ LoopInv
    /\ \A c \in Conns : EntryInv(c)
    /\ \A c \in Conns : DrainInv(c)

-----------------------------------------------------------------------------
(***************************************************************************)
(* Numbers and their owners.                                               *)
(***************************************************************************)
LEMMA Apart ==
    /\ None \notin Conns /\ None \notin Fds /\ None \notin Actors
    /\ NumFds \in Nat /\ MaxConn \in Nat /\ MaxParts \in Nat /\ MaxParts > 0
    /\ IsFiniteSet(Conns)
  BY HttpAssumption DEF Fds

\* At most one open socket has a number.
LEMMA OwnerIs ==
    ASSUME TypeOK, SocketInv, NEW fd
    PROVE  /\ Owner(fd) \in ConnOrNone
           /\ \A c \in Conns : Owner(fd) = c <=> open[c] /\ num[c] = fd
           /\ Owner(fd) = None <=> ~ \E c \in Conns : open[c] /\ num[c] = fd
<1>1. CASE \E c \in Conns : open[c] /\ num[c] = fd
  <2>1. Owner(fd) \in Conns /\ open[Owner(fd)] /\ num[Owner(fd)] = fd BY <1>1 DEF Owner
  <2> QED BY <1>1, <2>1, Apart DEF SocketInv, ConnOrNone
<1>2. CASE ~ \E c \in Conns : open[c] /\ num[c] = fd
  <2>1. Owner(fd) = None BY <1>2 DEF Owner
  <2> QED BY <1>2, <2>1, Apart DEF ConnOrNone
<1> QED BY <1>1, <1>2

\* The kernel forgets the socket of c and nothing else.
SocketGone(c) ==
    /\ open' = [open EXCEPT ![c] = FALSE]
    /\ inEpoll' = [inEpoll EXCEPT ![c] = FALSE]
    /\ edge' = [edge EXCEPT ![c] = FALSE]
    /\ inbox' = [inbox EXCEPT ![c] = <<>>]

\* ::close of an open connection's number closes that connection only.
LEMMA CloseOwn ==
    ASSUME TypeOK, SocketInv, NEW c \in Conns, open[c], CloseNumber(num[c])
    PROVE  SocketGone(c)
<1>1. \A d \in Conns : open[d] /\ num[d] = num[c] <=> d = c BY DEF SocketInv
<1> DEFINE gone(f, v) == [d \in Conns |-> IF open[d] /\ num[d] = num[c] THEN v ELSE f[d]]
<1>2. /\ open' = gone(open, FALSE) /\ inEpoll' = gone(inEpoll, FALSE)
      /\ edge' = gone(edge, FALSE) /\ inbox' = gone(inbox, <<>>)
  BY DEF CloseNumber
<1>3. ASSUME NEW f, NEW v, f = [d \in Conns |-> f[d]]
      PROVE  gone(f, v) = [f EXCEPT ![c] = v]
  BY <1>1, <1>3
<1>4. /\ open = [d \in Conns |-> open[d]] /\ inEpoll = [d \in Conns |-> inEpoll[d]]
      /\ edge = [d \in Conns |-> edge[d]] /\ inbox = [d \in Conns |-> inbox[d]]
  BY DEF TypeOK
<1> HIDE DEF gone
<1> QED BY <1>2, <1>3, <1>4 DEF SocketGone

\* close_fd: either the number is not in the table, or its owner is closed.
LEMMA CloseFdIs ==
    ASSUME TypeOK, SocketInv, \A d \in Conns : TableInv(d), NEW fd \in Fds, CloseFd(fd)
    PROVE  \/ table[fd] = None /\ UNCHANGED <<table, entryClosed, open, inEpoll, edge, inbox>>
           \/ \E c \in Conns :
                /\ table[fd] = c /\ open[c] /\ num[c] = fd /\ SocketGone(c)
                /\ table' = [table EXCEPT ![fd] = None]
                /\ entryClosed' = [entryClosed EXCEPT ![c] = TRUE]
<1>1. CASE table[fd] = None BY <1>1 DEF CloseFd
<1>2. CASE table[fd] # None
  <2>1. table[fd] \in Conns BY <1>2 DEF TypeOK, Tables, ConnOrNone
  <2> DEFINE c == table[fd]
  <2>2. open[c] /\ num[c] = fd BY <2>1 DEF TableInv
  <2>3. CloseNumber(fd) /\ table' = [table EXCEPT ![fd] = None]
        /\ entryClosed' = [entryClosed EXCEPT ![c] = TRUE]
    BY <1>2 DEF CloseFd
  <2>4. SocketGone(c) BY <2>1, <2>2, <2>3, CloseOwn
  <2> QED BY <2>1, <2>2, <2>3, <2>4
<1> QED BY <1>1, <1>2

-----------------------------------------------------------------------------
\* accept4 gives a number nobody has.
LEMMA AcceptKeeps ==
    ASSUME TypeOK, ConnInv, NEW c \in Conns, Accept(c)
    PROVE  ConnInv'
<1> USE DEF ConnInv, Up, Mapped, Early, Draining
<1>a. PICK fd \in Fds : Owner(fd) = None /\ num' = [num EXCEPT ![c] = fd]
  BY DEF Accept
<1>b. /\ pc[c] = "out" /\ open' = [open EXCEPT ![c] = TRUE]
      /\ pc' = [pc EXCEPT ![c] = "accepted"] /\ peer' = [peer EXCEPT ![c] = "here"]
      /\ UNCHANGED <<kind, held, clients, reg, closed, mutex, table, entryClosed, tasks, lp,
                     act, cause>>
  BY DEF Accept, connVars, loopVars, history
<1>c. \A d \in Conns : ~(open[d] /\ num[d] = fd)
  BY <1>a, OwnerIs
<1>d. ~open[c] /\ ~held[c] /\ ~Mapped(c) /\ ~closed[c]
  BY <1>b DEF PlaceInv
<1>1. SocketInv'
  BY <1>a, <1>b, <1>c, <1>d DEF SocketInv, TypeOK
<1>2. \A d \in Conns : PlaceInv(d)'
  BY <1>a, <1>b, <1>c, <1>d DEF PlaceInv, TypeOK
<1>3. \A d \in Conns : TableInv(d)'
  BY <1>a, <1>b, <1>c, <1>d DEF TableInv, TypeOK
<1>4. \A d \in Conns : ClientsInv(d)'
  BY <1>a, <1>b, <1>c, <1>d, SMTT(30) DEF ClientsInv, TypeOK
<1>5. \A d \in Conns : RegInv(d)'
  BY <1>a, <1>b, <1>c, <1>d DEF RegInv, TypeOK
<1>6. \A d \in Conns : CauseInv(d)'
  BY <1>a, <1>b, <1>c, <1>d DEF CauseInv, TypeOK
<1>7. \A a \in Actors : SendInv(a)'
  BY <1>a, <1>b, <1>c, <1>d DEF SendInv, TypeOK
<1>8. \A d \in Conns : MutexInv(d)'
  BY <1>a, <1>b, <1>c, <1>d, SMTT(30) DEF MutexInv, TypeOK
<1>9. \A d \in Conns : CarryInv(d)'
  BY <1>a, <1>b, <1>c, <1>d DEF CarryInv, Posted, Dying, TypeOK
<1>10. LoopInv'
  BY <1>a, <1>b, <1>c, <1>d DEF LoopInv, Posted, TypeOK
<1>11. \A d \in Conns : EntryInv(d)'
  BY <1>a, <1>b, <1>c, <1>d DEF EntryInv, TypeOK
<1>12. \A d \in Conns : DrainInv(d)'
  BY <1>a, <1>b, <1>c, <1>d DEF DrainInv, TypeOK
<1> QED BY <1>1, <1>2, <1>3, <1>4, <1>5, <1>6, <1>7, <1>8, <1>9, <1>10, <1>11, <1>12

\* What a worker does before the upgrade concerns its own connection only.
LEMMA BeforeMap ==
    ASSUME TypeOK, ConnInv, NEW c \in Conns, NEW p \in Places, NEW q \in BOOLEAN,
           NEW k \in Kinds \cup {None}, pc[c] \in {"accepted", "request", "release"},
           pc' = [pc EXCEPT ![c] = p], open' = [open EXCEPT ![c] = q],
           kind' = [kind EXCEPT ![c] = k],
           \/ p \in {"request", "map"} /\ open[c] /\ q /\ (p = "map" => k \in Kinds)
           \/ p \in {"release", "done"} /\ ~q,
           UNCHANGED <<num, peer, held, clients, reg, closed, mutex, table, entryClosed, tasks,
                       lp, act, cause>>
    PROVE  ConnInv'
<1> USE DEF ConnInv, Up, Mapped, Early, Draining
<1>a. /\ ~held[c] /\ ~Mapped(c) /\ ~closed[c]
      /\ open[c] => num[c] \in Fds
  BY DEF PlaceInv, SocketInv
<1>1. SocketInv'
  BY <1>a DEF SocketInv, TypeOK
<1>2. \A d \in Conns : PlaceInv(d)'
  BY <1>a DEF PlaceInv, TypeOK
<1>3. \A d \in Conns : TableInv(d)'
  BY <1>a DEF TableInv, TypeOK
<1>4. \A d \in Conns : ClientsInv(d)'
  BY <1>a DEF ClientsInv, TypeOK
<1>5. \A d \in Conns : RegInv(d)'
  BY <1>a DEF RegInv, TypeOK
<1>6. \A d \in Conns : CauseInv(d)'
  BY <1>a DEF CauseInv, TypeOK
<1>7. \A a \in Actors : SendInv(a)'
  BY <1>a DEF SendInv, TypeOK
<1>8. \A d \in Conns : MutexInv(d)'
  BY <1>a DEF MutexInv, TypeOK
<1>9. \A d \in Conns : CarryInv(d)'
  BY <1>a DEF CarryInv, Posted, Dying, TypeOK
<1>10. LoopInv'
  BY <1>a DEF LoopInv, Posted, TypeOK
<1>11. \A d \in Conns : EntryInv(d)'
  BY <1>a DEF EntryInv, TypeOK
<1>12. \A d \in Conns : DrainInv(d)'
  BY <1>a DEF DrainInv, TypeOK
<1> QED BY <1>1, <1>2, <1>3, <1>4, <1>5, <1>6, <1>7, <1>8, <1>9, <1>10, <1>11, <1>12

\* MapInsert enters a connection whose number the loop does not carry.
LEMMA MapInsertKeeps ==
    ASSUME ~raced', TypeOK, ConnInv, NEW c \in Conns, MapInsert(c)
    PROVE  ConnInv'
<1> USE DEF ConnInv, Up, Mapped, Early, Draining
<1>a. /\ pc[c] = "map" /\ num[c] \notin Carried
      /\ clients' = [clients EXCEPT ![kind[c]][num[c]] = c] /\ pc' = [pc EXCEPT ![c] = "register"]
      /\ UNCHANGED <<num, open, peer, kind, held, reg, closed, mutex, table, entryClosed, tasks,
                     lp, act, cause>>
  BY DEF MapInsert, Goto, kernelVars, loopVars, history
<1>b. open[c] /\ kind[c] \in Kinds /\ num[c] \in Fds /\ ~held[c] /\ ~Mapped(c) /\ ~closed[c]
  BY <1>a DEF PlaceInv
<1>c. num[c] # lp.fd /\ num[c] \notin Posted
  BY <1>a DEF Carried, Posted, Elems
<1>d. \A k \in Kinds, fd \in Fds, d \in Conns :
         clients'[k][fd] = d <=> IF k = kind[c] /\ fd = num[c] THEN d = c ELSE clients[k][fd] = d
  BY <1>a, <1>b DEF TypeOK, Tables
<1>e. \A d \in Conns : open[d] /\ num[d] = num[c] => d = c
  BY <1>b DEF SocketInv
<1>1. SocketInv'
  BY <1>a, <1>b, <1>c, <1>d, <1>e DEF SocketInv, TypeOK
<1>2. \A d \in Conns : PlaceInv(d)'
  BY <1>a, <1>b, <1>c, <1>d, <1>e DEF PlaceInv, TypeOK
<1>3. \A d \in Conns : TableInv(d)'
  BY <1>a, <1>b, <1>c, <1>d, <1>e DEF TableInv, TypeOK
<1>4. \A d \in Conns : ClientsInv(d)'
  BY <1>a, <1>b, <1>c, <1>d, <1>e DEF ClientsInv, TypeOK
<1>5. \A d \in Conns : RegInv(d)'
  <2>1. ASSUME NEW d \in Conns, NEW k \in Kinds, NEW fd \in Fds, reg[k][fd] = d
        PROVE  /\ open[d] /\ num[d] = fd /\ kind[d] = k /\ Up(d)
               /\ clients[k][fd] = d \/ (lp.at = "drain_ws" /\ lp.conn = d)
    BY <2>1 DEF RegInv
  <2>2. \A d \in Conns : Up(d) => d # c /\ Up(d)' BY <1>a, <1>b DEF TypeOK
  <2>3. ASSUME NEW d \in Conns, NEW k \in Kinds, NEW fd \in Fds, reg[k][fd] = d
        PROVE  clients'[k][fd] = d \/ (lp.at = "drain_ws" /\ lp.conn = d)
    BY <1>d, <1>e, <2>1, <2>2, <2>3
  <2> QED BY <1>a, <2>1, <2>2, <2>3 DEF RegInv
<1>6. \A d \in Conns : CauseInv(d)'
  BY <1>a, <1>b, <1>c, <1>d, <1>e DEF CauseInv, TypeOK
<1>7. \A a \in Actors : SendInv(a)'
  BY <1>a, <1>b, <1>c, <1>d, <1>e DEF SendInv, TypeOK
<1>8. \A d \in Conns : MutexInv(d)'
  <2> SUFFICES ASSUME NEW d \in Conns, mutex[d] # None
           PROVE  MutexInv(d)'
    BY <1>a DEF MutexInv
  <2>1. /\ act[mutex[d]].at = "write" /\ act[mutex[d]].conn = d /\ Up(d) /\ d # c
        /\ clients[kind[d]][num[d]] = d \/ Draining(d)
        /\ kind[d] \in Kinds /\ num[d] \in Fds
    BY <1>a, <1>b DEF MutexInv, PlaceInv
  <2>2. clients[kind[d]][num[d]] = d => clients'[kind[d]][num[d]] = d
    BY <2>1, <1>b, <1>d, <1>e DEF ClientsInv
  <2>3. Up(d)' BY <2>1, <1>a DEF TypeOK
  <2> QED BY <2>1, <2>2, <2>3, <1>a DEF MutexInv
<1>9. \A d \in Conns : CarryInv(d)'
  BY <1>a, <1>b, <1>c, <1>d, <1>e DEF CarryInv, Posted, Dying, TypeOK
<1>10. LoopInv'
  BY <1>a, <1>b, <1>c, <1>d, <1>e DEF LoopInv, Posted, TypeOK
<1>11. \A d \in Conns : EntryInv(d)'
  BY <1>a, <1>b, <1>c, <1>d, <1>e DEF EntryInv, TypeOK
<1>12. \A d \in Conns : DrainInv(d)'
  BY <1>a, <1>b, <1>c, <1>d, <1>e DEF DrainInv, TypeOK
<1> QED BY <1>1, <1>2, <1>3, <1>4, <1>5, <1>6, <1>7, <1>8, <1>9, <1>10, <1>11, <1>12

\* WsRegistry::add, SseRegistry::add.
LEMMA RegisterKeeps ==
    ASSUME TypeOK, ConnInv, NEW c \in Conns, Register(c)
    PROVE  ConnInv'
<1> USE DEF ConnInv, Up, Mapped, Early, Draining
<1>a. /\ pc[c] = "register"
      /\ UNCHANGED <<num, open, peer, kind, held, clients, closed, mutex, table, entryClosed, tasks,
                     lp, act, cause>>
  BY DEF Register, kernelVars, loopVars, history
<1>p. PICK p \in {"unmap", "hold"} :
         /\ pc' = [pc EXCEPT ![c] = p]
         /\ reg' = IF p = "unmap" THEN reg ELSE [reg EXCEPT ![kind[c]][num[c]] = c]
  BY DEF Register, Goto
<1>b. /\ open[c] /\ kind[c] \in Kinds /\ num[c] \in Fds /\ ~held[c] /\ ~closed[c]
      /\ clients[kind[c]][num[c]] = c
  BY <1>a DEF PlaceInv, ClientsInv
<1>c. \A k \in Kinds, fd \in Fds, d \in Conns : reg'[k][fd] = d =>
         reg[k][fd] = d \/ (p = "hold" /\ d = c /\ k = kind[c] /\ fd = num[c])
  BY <1>p, <1>b DEF TypeOK, Tables
<1>1. SocketInv'
  BY <1>a, <1>p, <1>b, <1>c DEF SocketInv, TypeOK
<1>2. \A d \in Conns : PlaceInv(d)'
  BY <1>a, <1>p, <1>b, <1>c DEF PlaceInv, TypeOK
<1>3. \A d \in Conns : TableInv(d)'
  BY <1>a, <1>p, <1>b, <1>c DEF TableInv, TypeOK
<1>4. \A d \in Conns : ClientsInv(d)'
  BY <1>a, <1>p, <1>b, <1>c DEF ClientsInv, TypeOK
<1>5. \A d \in Conns : RegInv(d)'
  BY <1>a, <1>p, <1>b, <1>c DEF RegInv, TypeOK
<1>6. \A d \in Conns : CauseInv(d)'
  BY <1>a, <1>p, <1>b, <1>c DEF CauseInv, TypeOK
<1>7. \A a \in Actors : SendInv(a)'
  BY <1>a, <1>p, <1>b, <1>c DEF SendInv, TypeOK
<1>8. \A d \in Conns : MutexInv(d)'
  BY <1>a, <1>p, <1>b, <1>c DEF MutexInv, TypeOK
<1>9. \A d \in Conns : CarryInv(d)'
  BY <1>a, <1>p, <1>b DEF CarryInv, Posted, Dying, TypeOK
<1>10. LoopInv'
  BY <1>a, <1>p, <1>b, <1>c DEF LoopInv, Posted, TypeOK
<1>11. \A d \in Conns : EntryInv(d)'
  BY <1>a, <1>p, <1>b, <1>c DEF EntryInv, TypeOK
<1>12. \A d \in Conns : DrainInv(d)'
  BY <1>a, <1>p, <1>b, <1>c DEF DrainInv, TypeOK
<1> QED BY <1>1, <1>2, <1>3, <1>4, <1>5, <1>6, <1>7, <1>8, <1>9, <1>10, <1>11, <1>12

\* The registry was full: the connection leaves the map and is closed.
LEMMA UnmapKeeps ==
    ASSUME TypeOK, ConnInv, NEW c \in Conns, Unmap(c)
    PROVE  ConnInv'
<1> USE DEF ConnInv, Up, Mapped, Early, Draining
<1>a. /\ pc[c] = "unmap" /\ CloseNumber(num[c])
      /\ clients' = [clients EXCEPT ![kind[c]][num[c]] = None] /\ pc' = [pc EXCEPT ![c] = "release"]
      /\ UNCHANGED <<num, peer, kind, held, reg, closed, mutex, table, entryClosed, tasks,
                     lp, act, cause>>
  BY DEF Unmap, Goto, loopVars, history
<1>b. /\ open[c] /\ kind[c] \in Kinds /\ num[c] \in Fds /\ ~held[c] /\ ~closed[c] /\ ~Up(c)
      /\ clients[kind[c]][num[c]] = c
  BY <1>a DEF PlaceInv, ClientsInv
<1>c. open' = [open EXCEPT ![c] = FALSE]
  BY <1>a, <1>b, CloseOwn DEF SocketGone
<1>d. \A k \in Kinds, fd \in Fds, d \in Conns :
         clients'[k][fd] = d <=> clients[k][fd] = d /\ d # c
  BY <1>a, <1>b, Apart DEF TypeOK, Tables, ClientsInv
<1>e. \A k \in Kinds, fd \in Fds : clients[k][fd] = None => clients'[k][fd] = None
  BY <1>a, <1>b, Apart DEF TypeOK, Tables
<1>1. SocketInv'
  BY <1>a, <1>b, <1>c, <1>d, <1>e DEF SocketInv, TypeOK
<1>2. \A d \in Conns : PlaceInv(d)'
  BY <1>a, <1>b, <1>c, <1>d, <1>e DEF PlaceInv, TypeOK
<1>3. \A d \in Conns : TableInv(d)'
  BY <1>a, <1>b, <1>c, <1>d, <1>e DEF TableInv, TypeOK
<1>4. \A d \in Conns : ClientsInv(d)'
  BY <1>a, <1>b, <1>c, <1>d, <1>e DEF ClientsInv, TypeOK
<1>5. \A d \in Conns : RegInv(d)'
  BY <1>a, <1>b, <1>c, <1>d, <1>e, SMTT(60) DEF RegInv, TypeOK
<1>6. \A d \in Conns : CauseInv(d)'
  BY <1>a, <1>b, <1>c, <1>d, <1>e DEF CauseInv, TypeOK
<1>7. \A a \in Actors : SendInv(a)'
  BY <1>a, <1>b, <1>c, <1>d, <1>e DEF SendInv, TypeOK
<1>8. \A d \in Conns : MutexInv(d)'
  <2> SUFFICES ASSUME NEW d \in Conns, mutex[d] # None
           PROVE  MutexInv(d)'
    BY <1>a DEF MutexInv
  <2>1. /\ act[mutex[d]].at = "write" /\ act[mutex[d]].conn = d /\ Up(d) /\ d # c
        /\ clients[kind[d]][num[d]] = d \/ Draining(d)
        /\ kind[d] \in Kinds /\ num[d] \in Fds
    BY <1>a, <1>b DEF MutexInv, PlaceInv
  <2>2. clients[kind[d]][num[d]] = d => clients'[kind[d]][num[d]] = d
    BY <2>1, <1>b, <1>d DEF ClientsInv
  <2>3. Up(d)' BY <2>1, <1>a DEF TypeOK
  <2> QED BY <2>1, <2>2, <2>3, <1>a DEF MutexInv
<1>9. \A d \in Conns : CarryInv(d)'
  BY <1>a, <1>b, <1>c, <1>d, <1>e DEF CarryInv, Posted, Dying, TypeOK
<1>10. LoopInv'
  BY <1>a, <1>b, <1>c, <1>d, <1>e DEF LoopInv, Posted, TypeOK
<1>11. \A d \in Conns : EntryInv(d)'
  BY <1>a, <1>b, <1>c, <1>d, <1>e DEF EntryInv, PlaceInv, TypeOK
<1>12. \A d \in Conns : DrainInv(d)'
  BY <1>a, <1>b, <1>c, <1>d, <1>e DEF DrainInv, TypeOK
<1> QED BY <1>1, <1>2, <1>3, <1>4, <1>5, <1>6, <1>7, <1>8, <1>9, <1>10, <1>11, <1>12

\* held_ip and IpSlot::moved.
LEMMA MoveSlotKeeps ==
    ASSUME TypeOK, ConnInv, NEW c \in Conns, MoveSlot(c)
    PROVE  ConnInv'
<1> USE DEF ConnInv, Up, Mapped, Early, Draining
<1>a. /\ pc[c] = "hold" /\ held' = [held EXCEPT ![c] = TRUE] /\ pc' = [pc EXCEPT ![c] = "handler"]
      /\ UNCHANGED <<num, open, peer, kind, clients, reg, closed, mutex, table, entryClosed, tasks,
                     lp, act, cause>>
  BY DEF MoveSlot, Goto, kernelVars, connVars, loopVars, history
<1>b. /\ open[c] /\ kind[c] \in Kinds /\ num[c] \in Fds /\ clients[kind[c]][num[c]] = c
  BY <1>a DEF PlaceInv, ClientsInv
<1>1. SocketInv'
  BY <1>a, <1>b DEF SocketInv, TypeOK
<1>2. \A d \in Conns : PlaceInv(d)'
  BY <1>a, <1>b DEF PlaceInv, TypeOK
<1>3. \A d \in Conns : TableInv(d)'
  BY <1>a, <1>b DEF TableInv, TypeOK
<1>4. \A d \in Conns : ClientsInv(d)'
  BY <1>a, <1>b DEF ClientsInv, TypeOK
<1>5. \A d \in Conns : RegInv(d)'
  BY <1>a, <1>b DEF RegInv, TypeOK
<1>6. \A d \in Conns : CauseInv(d)'
  BY <1>a, <1>b DEF CauseInv, TypeOK
<1>7. \A a \in Actors : SendInv(a)'
  BY <1>a, <1>b DEF SendInv, TypeOK
<1>8. \A d \in Conns : MutexInv(d)'
  BY <1>a, <1>b DEF MutexInv, TypeOK
<1>9. \A d \in Conns : CarryInv(d)'
  BY <1>a, <1>b DEF CarryInv, Posted, Dying, TypeOK
<1>10. LoopInv'
  BY <1>a, <1>b DEF LoopInv, Posted, TypeOK
<1>11. \A d \in Conns : EntryInv(d)'
  BY <1>a, <1>b DEF EntryInv, TypeOK
<1>12. \A d \in Conns : DrainInv(d)'
  BY <1>a, <1>b DEF DrainInv, TypeOK
<1> QED BY <1>1, <1>2, <1>3, <1>4, <1>5, <1>6, <1>7, <1>8, <1>9, <1>10, <1>11, <1>12

\* add_client: the connection is in the table.
LEMMA AddClientKeeps ==
    ASSUME TypeOK, ConnInv, NEW c \in Conns, AddClient(c)
    PROVE  ConnInv'
<1> USE DEF ConnInv, Up, Mapped, Early, Draining
<1>a. /\ pc[c] = "handler" /\ table' = [table EXCEPT ![num[c]] = c] /\ pc' = [pc EXCEPT ![c] = "arm"]
      /\ UNCHANGED <<num, open, peer, kind, held, clients, reg, closed, mutex, entryClosed, tasks,
                     lp, act, cause>>
  BY DEF AddClient, Goto, kernelVars, connVars, history
<1>b. /\ open[c] /\ held[c] /\ kind[c] \in Kinds /\ num[c] \in Fds
  BY <1>a DEF PlaceInv
<1>c. \A d \in Conns : open[d] /\ num[d] = num[c] => d = c
  BY <1>b DEF SocketInv
<1>d. \A fd \in Fds, d \in Conns :
         table'[fd] = d <=> IF fd = num[c] THEN d = c ELSE table[fd] = d
  BY <1>a, <1>b DEF TypeOK, Tables
<1>1. SocketInv'
  BY <1>a, <1>b, <1>c, <1>d DEF SocketInv, TypeOK
<1>2. \A d \in Conns : PlaceInv(d)'
  BY <1>a, <1>b, <1>c, <1>d DEF PlaceInv, TypeOK
<1>3. \A d \in Conns : TableInv(d)'
  BY <1>a, <1>b, <1>c, <1>d DEF TableInv, TypeOK
<1>4. \A d \in Conns : ClientsInv(d)'
  BY <1>a, <1>b, <1>c, <1>d DEF ClientsInv, TypeOK
<1>5. \A d \in Conns : RegInv(d)'
  BY <1>a, <1>b, <1>c, <1>d DEF RegInv, TypeOK
<1>6. \A d \in Conns : CauseInv(d)'
  BY <1>a, <1>b, <1>c, <1>d DEF CauseInv, TypeOK
<1>7. \A a \in Actors : SendInv(a)'
  BY <1>a, <1>b, <1>c, <1>d DEF SendInv, TypeOK
<1>8. \A d \in Conns : MutexInv(d)'
  BY <1>a, <1>b, <1>c, <1>d DEF MutexInv, TypeOK
<1>9. \A d \in Conns : CarryInv(d)'
  BY <1>a, <1>b, <1>c, <1>d DEF CarryInv, Posted, Dying, TypeOK
<1>10. LoopInv'
  BY <1>a, <1>b, <1>c, <1>d DEF LoopInv, Posted, TypeOK
<1>11. \A d \in Conns : EntryInv(d)'
  BY <1>a, <1>b, <1>c, <1>d DEF EntryInv, TypeOK
<1>12. \A d \in Conns : DrainInv(d)'
  BY <1>a, <1>b, <1>c, <1>d DEF DrainInv, TypeOK
<1> QED BY <1>1, <1>2, <1>3, <1>4, <1>5, <1>6, <1>7, <1>8, <1>9, <1>10, <1>11, <1>12

\* The connection is registered with epoll.
LEMMA EpollAddKeeps ==
    ASSUME TypeOK, ConnInv, NEW c \in Conns, EpollAdd(c)
    PROVE  ConnInv'
<1> USE DEF ConnInv, Up, Mapped, Early, Draining
<1>a. /\ pc[c] = "arm" /\ pc' = [pc EXCEPT ![c] = "done"]
      /\ UNCHANGED <<num, open, peer, kind, held, clients, reg, closed, mutex, table, entryClosed,
                     tasks, lp, act, cause>>
  BY DEF EpollAdd, Goto, connVars, loopVars, history
<1>b. held[c]
  BY <1>a DEF PlaceInv
<1>1. SocketInv'
  BY <1>a, <1>b DEF SocketInv, TypeOK
<1>2. \A d \in Conns : PlaceInv(d)'
  BY <1>a, <1>b DEF PlaceInv, TypeOK
<1>3. \A d \in Conns : TableInv(d)'
  BY <1>a, <1>b DEF TableInv, TypeOK
<1>4. \A d \in Conns : ClientsInv(d)'
  BY <1>a, <1>b DEF ClientsInv, TypeOK
<1>5. \A d \in Conns : RegInv(d)'
  BY <1>a, <1>b DEF RegInv, TypeOK
<1>6. \A d \in Conns : CauseInv(d)'
  BY <1>a, <1>b DEF CauseInv, TypeOK
<1>7. \A a \in Actors : SendInv(a)'
  BY <1>a, <1>b DEF SendInv, TypeOK
<1>8. \A d \in Conns : MutexInv(d)'
  BY <1>a, <1>b DEF MutexInv, TypeOK
<1>9. \A d \in Conns : CarryInv(d)'
  BY <1>a, <1>b DEF CarryInv, Posted, Dying, TypeOK
<1>10. LoopInv'
  BY <1>a, <1>b DEF LoopInv, Posted, TypeOK
<1>11. \A d \in Conns : EntryInv(d)'
  BY <1>a, <1>b DEF EntryInv, TypeOK
<1>12. \A d \in Conns : DrainInv(d)'
  BY <1>a, <1>b DEF DrainInv, TypeOK
<1> QED BY <1>1, <1>2, <1>3, <1>4, <1>5, <1>6, <1>7, <1>8, <1>9, <1>10, <1>11, <1>12

\* What clients send, and that they leave.
LEMMA PeerKeeps ==
    ASSUME TypeOK, ConnInv, \A d \in Conns : peer[d] = "gone" => peer'[d] = "gone",
           UNCHANGED <<num, open, pc, kind, held, clients, reg, closed, mutex, table, entryClosed,
                       tasks, lp, act, cause>>
    PROVE  ConnInv'
<1> USE DEF ConnInv, Up, Mapped, Early, Draining
<1>a. TRUE
  OBVIOUS
<1>1. SocketInv'
  BY <1>a DEF SocketInv, TypeOK
<1>2. \A d \in Conns : PlaceInv(d)'
  BY <1>a DEF PlaceInv, TypeOK
<1>3. \A d \in Conns : TableInv(d)'
  BY <1>a DEF TableInv, TypeOK
<1>4. \A d \in Conns : ClientsInv(d)'
  BY <1>a DEF ClientsInv, TypeOK
<1>5. \A d \in Conns : RegInv(d)'
  BY <1>a DEF RegInv, TypeOK
<1>6. \A d \in Conns : CauseInv(d)'
  BY <1>a DEF CauseInv, TypeOK
<1>7. \A a \in Actors : SendInv(a)'
  BY <1>a DEF SendInv, TypeOK
<1>8. \A d \in Conns : MutexInv(d)'
  BY <1>a DEF MutexInv, TypeOK
<1>9. \A d \in Conns : CarryInv(d)'
  BY <1>a DEF CarryInv, Posted, Dying, TypeOK
<1>10. LoopInv'
  BY <1>a DEF LoopInv, Posted, TypeOK
<1>11. \A d \in Conns : EntryInv(d)'
  BY <1>a DEF EntryInv, TypeOK
<1>12. \A d \in Conns : DrainInv(d)'
  BY <1>a DEF DrainInv, TypeOK
<1> QED BY <1>1, <1>2, <1>3, <1>4, <1>5, <1>6, <1>7, <1>8, <1>9, <1>10, <1>11, <1>12

-----------------------------------------------------------------------------
(***************************************************************************)
(* Script threads.                                                         *)
(***************************************************************************)
LEMMA AppendElements ==
    ASSUME NEW S, NEW s \in Seq(S), NEW e \in S
    PROVE  Elems(Append(s, e)) = Elems(s) \cup {e}
<1> DEFINE t == Append(s, e)
<1>1. /\ DOMAIN s = 1 .. Len(s) /\ Len(s) \in Nat
      /\ DOMAIN t = 1 .. Len(s) + 1 /\ t[Len(s) + 1] = e
      /\ \A i \in 1 .. Len(s) : t[i] = s[i]
  OBVIOUS
<1> HIDE DEF t
<1>2. Elems(t) = Elems(s) \cup {e} BY <1>1 DEF Elems
<1> QED BY <1>2 DEF t

\* The first element and the others.
LEMMA TailElements ==
    ASSUME NEW S, NEW s \in Seq(S), s # <<>>
    PROVE  Head(s) \in Elems(s) /\ Elems(Tail(s)) \subseteq Elems(s)
<1>1. /\ DOMAIN s = 1 .. Len(s) /\ DOMAIN Tail(s) = 1 .. Len(s) - 1 /\ Len(s) \in Nat \ {0}
      /\ \A i \in 1 .. Len(s) - 1 : Tail(s)[i] = s[i + 1]
      /\ Head(s) = s[1]
  OBVIOUS
<1> QED BY <1>1 DEF Elems

\* A script thread between two sends.
LEMMA RestIs ==
    ASSUME NEW todo \in SUBSET Conns
    PROVE  /\ Rest(todo) \in ActType /\ Rest(todo).todo = todo
           /\ Rest(todo).at \notin {"write", "bye"}
  BY DEF Rest, ActIdle, ActType, ConnOrNone

\* A script thread that does not write, before and after, changes nothing else.
LEMMA ActorMoves ==
    ASSUME TypeOK, ConnInv, NEW a \in Actors, NEW r \in ActType, act[a].at # "write",
           r.at \notin {"write", "bye"}, \A d \in r.todo : Up(d), act' = [act EXCEPT ![a] = r],
           UNCHANGED <<num, open, peer, pc, kind, held, clients, reg, table, entryClosed,
                       lp, closed, mutex, tasks,
                       cause>>
    PROVE  ConnInv'
<1> USE DEF ConnInv, Up, Mapped, Early, Draining
<1>a. \A b \in Actors : act'[b] = IF b = a THEN r ELSE act[b]
  BY DEF TypeOK
<1>b. \A d \in Conns : mutex[d] # None => mutex[d] \in Actors /\ mutex[d] # a
  BY DEF MutexInv, TypeOK
<1>1. SocketInv'
  BY <1>a, <1>b DEF SocketInv, TypeOK
<1>2. \A d \in Conns : PlaceInv(d)'
  BY DEF PlaceInv
<1>3. \A d \in Conns : TableInv(d)'
  BY DEF TableInv
<1>4. \A d \in Conns : ClientsInv(d)'
  BY DEF ClientsInv
<1>5. \A d \in Conns : RegInv(d)'
  BY <1>a, <1>b DEF RegInv, TypeOK
<1>6. \A d \in Conns : CauseInv(d)'
  BY <1>a, <1>b DEF CauseInv, TypeOK
<1>7. \A e \in Actors : SendInv(e)'
  BY <1>a, <1>b DEF SendInv, TypeOK
<1>8. \A d \in Conns : MutexInv(d)'
  BY <1>a, <1>b DEF MutexInv
<1>9. \A d \in Conns : CarryInv(d)'
  BY DEF CarryInv, Posted, Dying
<1>10. LoopInv'
  BY <1>a, <1>b DEF LoopInv, Posted, TypeOK
<1>11. \A d \in Conns : EntryInv(d)'
  BY DEF EntryInv
<1>12. \A d \in Conns : DrainInv(d)'
  BY <1>a, <1>b DEF DrainInv, TypeOK
<1> QED BY <1>1, <1>2, <1>3, <1>4, <1>5, <1>6, <1>7, <1>8, <1>9, <1>10, <1>11, <1>12

\* The lock of a connection that is not closed: the maps have it.
LEMMA SendLockKeeps ==
    ASSUME TypeOK, ConnInv, NEW a \in Actors, act[a].at = "next", NEW c \in act[a].todo,
           ~closed[c], mutex[c] = None, mutex' = [mutex EXCEPT ![c] = a],
           act' = [act EXCEPT ![a] = [at |-> "write", todo |-> @.todo \ {c}, conn |-> c]],
           UNCHANGED <<num, open, peer, pc, kind, held, clients, reg, table, entryClosed, lp, closed,
                       tasks, cause>>
    PROVE  ConnInv'
<1> USE DEF ConnInv, Up, Mapped, Early, Draining
<1>a. /\ c \in Conns /\ Up(c) /\ kind[c] \in Kinds /\ num[c] \in Fds
      /\ clients[kind[c]][num[c]] = c
  BY DEF TypeOK, ActType, SendInv, PlaceInv, ClientsInv
<1>b. \A b \in Actors : IF b = a THEN act'[b].at = "write" /\ act'[b].conn = c
                                       /\ act'[b].todo = act[b].todo \ {c}
                                ELSE act'[b] = act[b]
  BY DEF TypeOK
<1>c. \A d \in Conns : mutex'[d] = IF d = c THEN a ELSE mutex[d]
  BY <1>a DEF TypeOK
<1>d. \A d \in Conns : mutex[d] # None => mutex[d] \in Actors /\ mutex[d] # a
  BY DEF MutexInv, TypeOK
<1>e. a # None
  BY Apart
<1>1. SocketInv'
  BY <1>a, <1>b, <1>c, <1>d, <1>e DEF SocketInv, TypeOK
<1>2. \A d \in Conns : PlaceInv(d)'
  BY DEF PlaceInv
<1>3. \A d \in Conns : TableInv(d)'
  BY DEF TableInv
<1>4. \A d \in Conns : ClientsInv(d)'
  BY DEF ClientsInv
<1>5. \A d \in Conns : RegInv(d)'
  BY <1>a, <1>b, <1>c, <1>d, <1>e DEF RegInv, TypeOK
<1>6. \A d \in Conns : CauseInv(d)'
  BY <1>a, <1>b, <1>c, <1>d, <1>e DEF CauseInv, TypeOK
<1>7. \A e \in Actors : SendInv(e)'
  <2>1. \A b \in Actors : act[b].at = "write" => act[b].conn # c
    BY <1>a, <1>e, Apart DEF SendInv
  <2> QED BY <1>a, <1>b, <1>c, <2>1 DEF SendInv
<1>8. \A d \in Conns : MutexInv(d)'
  BY <1>a, <1>b, <1>c, <1>d DEF MutexInv
<1>9. \A d \in Conns : CarryInv(d)'
  BY DEF CarryInv, Posted, Dying
<1>10. LoopInv'
  BY <1>a, <1>b, <1>c, <1>d, <1>e DEF LoopInv, Posted, TypeOK
<1>11. \A d \in Conns : EntryInv(d)'
  BY DEF EntryInv
<1>12. \A d \in Conns : DrainInv(d)'
  BY <1>a, <1>b, <1>c, <1>d, <1>e DEF DrainInv, TypeOK
<1> QED BY <1>1, <1>2, <1>3, <1>4, <1>5, <1>6, <1>7, <1>8, <1>9, <1>10, <1>11, <1>12

\* The write is done: the lock is free, and a failure closes the connection.
LEMMA SendWriteKeeps ==
    ASSUME TypeOK, ConnInv, NEW a \in Actors, SendWrite(a)
    PROVE  ConnInv'
<1> USE DEF ConnInv, Up, Mapped, Early, Draining
<1>a. /\ act[a].at = "write" /\ mutex' = [mutex EXCEPT ![act[a].conn] = None]
      /\ act' = [act EXCEPT ![a] = Rest(@.todo)]
      /\ UNCHANGED <<num, open, peer, pc, kind, held, clients, reg, table, entryClosed, lp, tasks>>
      /\ \/ UNCHANGED <<closed, cause>>
         \/ SetClosed(act[a].conn, "send")
  BY DEF SendWrite, kernelVars, loopVars
<1>c. PICK c \in Conns : act[a].conn = c /\ mutex[c] = a
  BY <1>a DEF SendInv
<1>b. Up(c)
  BY <1>c, Apart DEF MutexInv
<1>r. /\ Rest(act[a].todo) \in ActType /\ Rest(act[a].todo).at \notin {"write", "bye"}
      /\ Rest(act[a].todo).todo = act[a].todo
  BY RestIs DEF TypeOK, ActType
<1>d. \A b \in Actors : act'[b] = IF b = a THEN Rest(act[a].todo) ELSE act[b]
  BY <1>a DEF TypeOK
<1>e. \A d \in Conns : mutex'[d] = IF d = c THEN None ELSE mutex[d]
  BY <1>a, <1>c DEF TypeOK
<1>f. /\ \A d \in Conns : closed'[d] = closed[d] \/ (d = c /\ closed'[d] = TRUE)
      /\ \A d \in Conns : cause'[d] = cause[d]
                            \/ (d = c /\ cause'[d] = "send" /\ cause[d] = "none")
      /\ \A d \in Conns : closed'[d] <=> cause'[d] # "none" 
  <2>1. CASE UNCHANGED <<closed, cause>> BY <2>1 DEF CauseInv
  <2>2. CASE SetClosed(c, "send")
    <3>1. closed' = [closed EXCEPT ![c] = TRUE] BY <2>2 DEF SetClosed
    <3>2. CASE closed[c]
      <4>1. cause' = cause BY <2>2, <3>2 DEF SetClosed
      <4> QED BY <3>1, <3>2, <4>1 DEF CauseInv, TypeOK
    <3>3. CASE ~closed[c]
      <4>1. cause' = [cause EXCEPT ![c] = "send"] BY <2>2, <3>3 DEF SetClosed
      <4> QED BY <3>1, <3>3, <4>1 DEF CauseInv, TypeOK
    <3> QED BY <3>2, <3>3
  <2> QED BY <1>a, <1>c, <2>1, <2>2
<1>g. \A b \in Actors : b # a /\ act[b].at = "write" => act[b].conn # c
  BY <1>c DEF SendInv
<1>h. \A d \in Conns : d # c /\ mutex[d] # None => mutex[d] \in Actors /\ mutex[d] # a
  BY <1>c DEF MutexInv, TypeOK
<1>1. SocketInv'
  BY <1>a DEF SocketInv
<1>2. \A d \in Conns : PlaceInv(d)'
  BY <1>a, <1>b, <1>f DEF PlaceInv
<1>3. \A d \in Conns : TableInv(d)'
  BY <1>a DEF TableInv
<1>4. \A d \in Conns : ClientsInv(d)'
  BY <1>a, <1>f DEF ClientsInv
<1>5. \A d \in Conns : RegInv(d)'
  BY <1>a DEF RegInv
<1>6. \A d \in Conns : CauseInv(d)'
  BY <1>a, <1>f DEF CauseInv
<1>7. \A e \in Actors : SendInv(e)'
  BY <1>a, <1>c, <1>r, <1>d, <1>e, <1>g DEF SendInv
<1>8. \A d \in Conns : MutexInv(d)'
  BY <1>a, <1>d, <1>e, <1>h DEF MutexInv
<1>9. \A d \in Conns : CarryInv(d)'
  BY <1>a, <1>f DEF CarryInv, Posted, Dying
<1>10. LoopInv'
  BY <1>a DEF LoopInv, Posted
<1>11. \A d \in Conns : EntryInv(d)'
  BY <1>a, <1>f DEF EntryInv
<1>12. \A d \in Conns : DrainInv(d)'
  BY <1>a, <1>c, <1>b, <1>r, <1>d, <1>e, <1>f, <1>g, <1>h DEF DrainInv, TypeOK
<1> QED BY <1>1, <1>2, <1>3, <1>4, <1>5, <1>6, <1>7, <1>8, <1>9, <1>10, <1>11, <1>12

\* ws::close, sse::close: the call posted for an SSE connection carries its own number.
LEMMA CloseConnKeeps ==
    ASSUME TypeOK, ConnInv, NEW a \in Actors, CloseConn(a)
    PROVE  ConnInv'
<1> USE DEF ConnInv, Up, Mapped, Early, Draining
<1>a. /\ act[a].at = "idle"
      /\ UNCHANGED <<num, open, peer, pc, kind, held, clients, reg, table, entryClosed, lp, mutex>>
  BY DEF CloseConn, kernelVars
<1>c. PICK c \in Conns :
         /\ held[c] /\ ~closed[c] /\ SetClosed(c, "server")
         /\ IF kind[c] = "sse" THEN tasks' = Append(tasks, num[c]) /\ UNCHANGED act
            ELSE /\ act' = [act EXCEPT ![a] = [at |-> "bye", todo |-> {}, conn |-> c]]
                 /\ UNCHANGED tasks
  BY DEF CloseConn, Known
<1>b. /\ Up(c) /\ kind[c] \in Kinds /\ num[c] \in Fds /\ open[c]
  BY <1>c DEF PlaceInv, ClientsInv
<1>d. \A b \in Actors : act'[b] = act[b]
                         \/ (b = a /\ act'[b].at = "bye" /\ act'[b].todo = {} /\ act'[b].conn = c)
  BY <1>c DEF TypeOK
<1>f. /\ \A d \in Conns : closed'[d] = IF d = c THEN TRUE ELSE closed[d]
      /\ \A d \in Conns : cause'[d] = IF d = c THEN "server" ELSE cause[d]
  BY <1>c DEF SetClosed, TypeOK
<1>g. \/ Posted' = Posted
      \/ kind[c] = "sse" /\ Posted' = Posted \cup {num[c]}
  <2>1. CASE kind[c] # "sse" BY <1>a, <1>c, <2>1 DEF Posted
  <2>2. CASE kind[c] = "sse"
    <3>1. tasks \in Seq(FdOrNone) /\ num[c] \in FdOrNone BY DEF TypeOK
    <3>2. Elems(Append(tasks, num[c])) = Elems(tasks) \cup {num[c]} BY <3>1, AppendElements
    <3>3. Elems(tasks') = Elems(tasks) \cup {num[c]} BY <1>c, <2>2, <3>2
    <3> QED BY <1>a, <2>2, <3>3 DEF Posted
  <2> QED BY <2>1, <2>2
<1>h. \A d \in Conns : mutex[d] # None => mutex[d] \in Actors /\ mutex[d] # a
  BY <1>a DEF MutexInv, TypeOK
<1>i. \A d \in Conns : open[d] /\ num[d] = num[c] => d = c
  BY <1>b DEF SocketInv
<1>1. SocketInv'
  BY <1>a DEF SocketInv
<1>2. \A d \in Conns : PlaceInv(d)'
  BY <1>a, <1>b, <1>f DEF PlaceInv
<1>3. \A d \in Conns : TableInv(d)'
  BY <1>a DEF TableInv
<1>4. \A d \in Conns : ClientsInv(d)'
  <2>1. \A d \in Conns : Mapped(d)' = Mapped(d) BY <1>a
  <2>2. \A d \in Conns : ~closed'[d] => ~closed[d] BY <1>f
  <2> QED BY <1>a, <2>1, <2>2 DEF ClientsInv
<1>5. \A d \in Conns : RegInv(d)'
  BY <1>a DEF RegInv
<1>6. \A d \in Conns : CauseInv(d)'
  BY <1>a, <1>f DEF CauseInv
<1>7. \A e \in Actors : SendInv(e)'
  BY <1>a, <1>d DEF SendInv
<1>8. \A d \in Conns : MutexInv(d)'
  BY <1>a, <1>d, <1>h DEF MutexInv
<1>9. \A d \in Conns : CarryInv(d)'
  BY <1>a, <1>b, <1>c, <1>f, <1>g, <1>i DEF CarryInv, Dying
<1>10. LoopInv'
  BY <1>a, <1>b, <1>g DEF LoopInv
<1>11. \A d \in Conns : EntryInv(d)'
  BY <1>a, <1>f, ZenonT(60) DEF EntryInv
<1>12. \A d \in Conns : DrainInv(d)'
  BY <1>a, <1>c, <1>b, <1>d, <1>f, <1>g, <1>h, <1>i, ZenonT(60) DEF DrainInv, TypeOK
<1> QED BY <1>1, <1>2, <1>3, <1>4, <1>5, <1>6, <1>7, <1>8, <1>9, <1>10, <1>11, <1>12

-----------------------------------------------------------------------------
(***************************************************************************)
(* The loop: steps that change nothing but where it is.                    *)
(***************************************************************************)
LEMMA LeaveIs ==
    ASSUME TypeOK
    PROVE  /\ Leave \in LoopType /\ Leave.at = "batch" /\ Leave.fd = None /\ Leave.entry = None
           /\ Leave.conn = None /\ Leave.ret = "batch" /\ ~Leave.fire
           /\ Leave.local = lp.local /\ Leave.batch = lp.batch
  BY DEF Leave, LoopIdle, TypeOK, LoopType, LoopPlaces, FdOrNone, ConnOrNone

\* The loop after close_ws or close_sse, inside an event, ...
LEMMA ReturnedIs ==
    ASSUME TypeOK, lp.ret # "batch"
    PROVE  /\ Returned \in LoopType /\ Returned.at = lp.ret /\ Returned.fd = lp.fd
           /\ Returned.entry = lp.entry /\ Returned.conn = None /\ Returned.ret = lp.ret
           /\ ~Returned.fire /\ Returned.local = lp.local /\ Returned.batch = lp.batch
  BY DEF Returned, TypeOK, LoopType, LoopPlaces, ConnOrNone

\* No tasks, no numbers.
LEMMA EmptyElements == Elems(<<>>) = {}
  BY DEF Elems

\* The connection of the event under way, while its entry is not closed.
LEMMA ReadEntry ==
    ASSUME TypeOK, ConnInv, lp.at = "read", ~entryClosed[lp.entry]
    PROVE  /\ lp.entry \in Conns /\ open[lp.entry] /\ num[lp.entry] = lp.fd /\ Up(lp.entry)
           /\ lp.fd \in Fds /\ lp.fd # None /\ lp.entry # None
           /\ pc[lp.entry] \in {"arm", "done"} /\ Owner(lp.fd) = lp.entry
           /\ kind[lp.entry] = "ws" => clients["ws"][lp.fd] = lp.entry
           /\ lp.conn = None
<1> USE DEF ConnInv
<1>1. lp.entry # None /\ lp.entry \in Conns /\ lp.conn = None
  BY DEF LoopInv, TypeOK, LoopType, ConnOrNone
<1>2. /\ open[lp.entry] /\ num[lp.entry] = lp.fd /\ Up(lp.entry) /\ pc[lp.entry] \in {"arm", "done"}
      /\ kind[lp.entry] = "ws" => clients["ws"][lp.fd] = lp.entry
  BY <1>1 DEF EntryInv
<1>3. lp.fd \in Fds BY <1>1, <1>2 DEF SocketInv
<1>4. Owner(lp.fd) = lp.entry BY <1>1, <1>2, OwnerIs
<1> QED BY <1>1, <1>2, <1>3, <1>4, Apart

\* A step of the loop that keeps every connection as it is.
LEMMA LoopMoves ==
    ASSUME TypeOK, ConnInv, LoopInv', \A d \in Conns : EntryInv(d)',
           lp.at # "drain_ws", lp.at = "drain_sse" => mutex[lp.conn] = None,
           lp'.at \notin {"drain_ws", "drain_sse"},
           Posted' \subseteq Posted,
           \A d \in Conns : open[d] /\ pc[d] \notin Early /\ num[d] = lp'.fd /\ lp'.entry # None
                            => d = lp'.entry,
           UNCHANGED <<num, open, peer, pc, kind, held, clients, reg, closed, mutex, table,
                       entryClosed, act, cause>>
    PROVE  ConnInv'
<1> USE DEF ConnInv, Up, Mapped, Draining
<1>1. SocketInv' /\ \A d \in Conns : PlaceInv(d)' /\ TableInv(d)'
  BY DEF SocketInv, PlaceInv, TableInv
<1>2. \A d \in Conns : ClientsInv(d)' BY DEF ClientsInv
<1>3. \A d \in Conns : RegInv(d)' BY DEF RegInv
<1>4. \A d \in Conns : CauseInv(d)' BY DEF CauseInv
<1>5. \A b \in Actors : SendInv(b)' BY DEF SendInv
<1>6. \A d \in Conns : MutexInv(d)' BY DEF MutexInv
<1>7. \A d \in Conns : CarryInv(d)' BY DEF CarryInv, Dying
<1>8. \A d \in Conns : DrainInv(d)' BY DEF DrainInv
<1> QED BY <1>1, <1>2, <1>3, <1>4, <1>5, <1>6, <1>7, <1>8

\* epoll_wait.
LEMMA EpollWaitKeeps ==
    ASSUME TypeOK, ConnInv, EpollWait
    PROVE  ConnInv'
<1> USE DEF ConnInv
<1>u. /\ UNCHANGED <<num, open, peer, pc, kind, held, clients, reg, closed, mutex, table, entryClosed,
                     act, cause>>
      /\ lp.at = "batch" /\ lp'.at = "batch"
  BY DEF EpollWait, LoopIdle, connVars, history
<1>a. tasks' = tasks /\ lp' = [lp EXCEPT !.batch = lp'.batch, !.wake = lp'.wake]
  BY DEF EpollWait, TypeOK, LoopType
<1>b. /\ lp'.at = lp.at /\ lp'.fd = lp.fd /\ lp'.entry = lp.entry /\ lp'.conn = lp.conn
      /\ lp'.ret = lp.ret /\ lp'.fire = lp.fire /\ lp'.local = lp.local
  BY <1>a DEF TypeOK, LoopType
<1>1. Posted' \subseteq Posted
  BY <1>a, <1>b DEF Posted
<1>2. LoopInv'
  BY <1>a, <1>b, <1>1 DEF LoopInv
<1>3. \A d \in Conns : EntryInv(d)'
  BY <1>a, <1>b, <1>u DEF EntryInv, Up
<1>4. \A d \in Conns : open[d] /\ pc[d] \notin Early /\ num[d] = lp'.fd /\ lp'.entry # None
                       => d = lp'.entry
  BY <1>b, <1>u DEF LoopInv
<1> QED BY <1>u, <1>1, <1>2, <1>3, <1>4, LoopMoves

\* The posted calls are taken.
LEMMA TakeTasksKeeps ==
    ASSUME TypeOK, ConnInv, TakeTasks
    PROVE  ConnInv'
<1> USE DEF ConnInv
<1>u. /\ UNCHANGED <<num, open, peer, pc, kind, held, clients, reg, closed, mutex, table, entryClosed,
                     act, cause>>
      /\ lp.at = "batch" /\ lp'.at = "batch"
  BY DEF TakeTasks, kernelVars, connVars, history, TypeOK, LoopType
<1>a. tasks' = <<>> /\ lp' = [lp EXCEPT !.wake = FALSE, !.local = tasks]
  BY DEF TakeTasks
<1>b. /\ lp'.at = lp.at /\ lp'.fd = lp.fd /\ lp'.entry = lp.entry /\ lp'.conn = lp.conn
      /\ lp'.ret = lp.ret /\ lp'.fire = lp.fire /\ lp'.local = tasks
  BY <1>a DEF TypeOK, LoopType
<1>c. Elems(tasks') = {}
  BY <1>a, EmptyElements
<1>1. Posted' \subseteq Posted
  BY <1>b, <1>c, <1>u DEF Posted
<1>2. LoopInv'
  BY <1>a, <1>b, <1>1 DEF LoopInv
<1>3. \A d \in Conns : EntryInv(d)'
  BY <1>a, <1>b, <1>u DEF EntryInv, Up
<1>4. \A d \in Conns : open[d] /\ pc[d] \notin Early /\ num[d] = lp'.fd /\ lp'.entry # None
                       => d = lp'.entry
  BY <1>b, <1>u DEF LoopInv
<1> QED BY <1>u, <1>1, <1>2, <1>3, <1>4, LoopMoves

\* A posted call of close_sse is run.
LEMMA RunTaskKeeps ==
    ASSUME TypeOK, ConnInv, RunTask
    PROVE  ConnInv'
<1> USE DEF ConnInv
<1>u. /\ UNCHANGED <<num, open, peer, pc, kind, held, clients, reg, closed, mutex, table, entryClosed,
                     act, cause>>
      /\ lp.at = "batch" /\ lp'.at = "close_sse"
  BY DEF RunTask, kernelVars, connVars, history, TypeOK, LoopType
<1>a. /\ tasks' = tasks /\ lp.local # <<>> /\ lp.local \in Seq(FdOrNone)
      /\ lp' = [lp EXCEPT !.at = "close_sse", !.fd = Head(lp.local), !.local = Tail(@)]
  BY DEF RunTask, TypeOK, LoopType
<1>b. /\ lp'.fd = Head(lp.local) /\ lp'.entry = lp.entry /\ lp'.conn = lp.conn
      /\ lp'.ret = lp.ret /\ lp'.fire = lp.fire /\ lp'.local = Tail(lp.local)
  BY <1>a DEF TypeOK, LoopType
<1>c. Head(lp.local) \in Elems(lp.local) /\ Elems(Tail(lp.local)) \subseteq Elems(lp.local)
  BY <1>a, TailElements
<1>d. lp.entry = None /\ lp'.fd \in Fds
  BY <1>b, <1>c, <1>u DEF LoopInv, Posted
<1>1. Posted' \subseteq Posted
  BY <1>a, <1>b, <1>c, <1>d, <1>u DEF Posted
<1>2. LoopInv'
  BY <1>b, <1>d, <1>u, <1>1, Apart DEF LoopInv
<1>3. \A d \in Conns : EntryInv(d)'
  BY <1>b, <1>d, Apart DEF EntryInv
<1>4. \A d \in Conns : open[d] /\ pc[d] \notin Early /\ num[d] = lp'.fd /\ lp'.entry # None
                       => d = lp'.entry
  BY <1>b, <1>d
<1> QED BY <1>u, <1>1, <1>2, <1>3, <1>4, LoopMoves

\* The next event of the batch.
LEMMA NextEventKeeps ==
    ASSUME TypeOK, ConnInv, NextEvent
    PROVE  ConnInv'
<1> USE DEF ConnInv
<1>f. PICK fd \in lp.batch :
         lp' = IF table[fd] = None THEN [lp EXCEPT !.batch = @ \ {fd}]
               ELSE [lp EXCEPT !.at = "read", !.batch = @ \ {fd}, !.fd = fd, !.entry = table[fd]]
  BY DEF NextEvent
<1>u. /\ UNCHANGED <<num, open, peer, pc, kind, held, clients, reg, closed, mutex, table, entryClosed,
                     act, cause>>
      /\ lp.at = "batch" /\ lp'.at \in {"batch", "read"} /\ tasks' = tasks /\ fd \in Fds
  BY <1>f DEF NextEvent, kernelVars, connVars, history, TypeOK, LoopType
<1>b. /\ lp'.conn = lp.conn /\ lp'.ret = lp.ret /\ lp'.fire = lp.fire /\ lp'.local = lp.local
      /\ \/ lp'.at = "batch" /\ lp'.fd = lp.fd /\ lp'.entry = lp.entry
         \/ lp'.at = "read" /\ lp'.fd = fd /\ lp'.entry = table[fd] /\ table[fd] \in Conns
  BY <1>f, <1>u DEF TypeOK, LoopType, Tables, ConnOrNone
<1>c. lp.entry = None /\ lp.conn = None /\ lp.ret = "batch" /\ ~lp.fire /\ lp.fd = None
  BY <1>u DEF LoopInv
<1>1. Posted' \subseteq Posted
  BY <1>b, <1>c, <1>u, Apart DEF Posted
<1>2. LoopInv'
  BY <1>b, <1>c, <1>u, <1>1, Apart DEF LoopInv
<1>3. \A d \in Conns : EntryInv(d)'
  <2>1. CASE lp'.at = "batch" BY <1>b, <1>c, <2>1, Apart DEF EntryInv
  <2>2. CASE lp'.at = "read"
    <3>1. PICK e \in Conns : e = table[fd] /\ lp'.fd = fd /\ lp'.entry = e /\ lp'.conn = None
                             /\ lp'.ret = "batch"
      BY <1>b, <1>c, <2>2
    <3>2. /\ open[e] /\ num[e] = fd /\ pc[e] \in {"arm", "done"} /\ held[e] /\ Up(e)
      BY <1>u, <3>1 DEF TableInv, PlaceInv, Up
    <3>3. kind[e] = "ws" => clients["ws"][fd] = e BY <1>u, <3>1, <3>2 DEF ClientsInv
    <3>4. EntryInv(e)' BY <1>u, <2>2, <3>1, <3>2, <3>3 DEF EntryInv, Up
    <3>5. \A d \in Conns : d # e => EntryInv(d)' BY <3>1 DEF EntryInv
    <3> QED BY <3>4, <3>5
  <2> QED BY <1>u, <2>1, <2>2
<1>4. \A d \in Conns : open[d] /\ pc[d] \notin Early /\ num[d] = lp'.fd /\ lp'.entry # None
                       => d = lp'.entry
  <2>1. CASE lp'.at = "batch" BY <1>b, <1>c, <2>1
  <2>2. CASE lp'.at = "read" BY <1>b, <1>u, <2>2 DEF TableInv, SocketInv
  <2> QED BY <1>u, <2>1, <2>2
<1> QED BY <1>u, <1>1, <1>2, <1>3, <1>4, LoopMoves

\* Nothing more to read.
LEMMA ReadDoneKeeps ==
    ASSUME TypeOK, ConnInv, ReadDone
    PROVE  ConnInv'
<1> USE DEF ConnInv
<1>u. /\ UNCHANGED <<num, open, peer, pc, kind, held, clients, reg, closed, mutex, table, entryClosed,
                     act, cause>>
      /\ lp.at = "read" /\ lp'.at = "batch" /\ tasks' = tasks
  BY LeaveIs DEF ReadDone, kernelVars, connVars, history
<1>b. /\ lp'.fd = None /\ lp'.entry = None /\ lp'.conn = None /\ lp'.ret = "batch" /\ ~lp'.fire
      /\ lp'.local = lp.local
  BY LeaveIs DEF ReadDone
<1>1. Posted' \subseteq Posted
  BY <1>b, <1>u DEF Posted
<1>2. LoopInv'
  BY <1>b, <1>u, <1>1, Apart DEF LoopInv
<1>3. \A d \in Conns : EntryInv(d)'
  BY <1>b, Apart DEF EntryInv
<1>4. \A d \in Conns : open[d] /\ pc[d] \notin Early /\ num[d] = lp'.fd /\ lp'.entry # None
                       => d = lp'.entry
  BY <1>b
<1> QED BY <1>u, <1>1, <1>2, <1>3, <1>4, LoopMoves

\* on_ws_data.
LEMMA WsDataKeeps ==
    ASSUME TypeOK, ConnInv, WsData
    PROVE  ConnInv'
<1> USE DEF ConnInv
<1>r. lp.at = "read" /\ ~entryClosed[lp.entry] /\ kind[lp.entry] = "ws" 
  BY DEF WsData, ReadSome
<1>e. PICK e \in Conns :
         /\ lp.entry = e /\ open[e] /\ num[e] = lp.fd /\ Up(e) /\ pc[e] \in {"arm", "done"}
         /\ clients["ws"][lp.fd] = e /\ kind[e] = "ws" /\ lp.fd # None
  BY <1>r, ReadEntry
<1>u. /\ UNCHANGED <<num, open, peer, pc, kind, held, clients, reg, closed, mutex, table, entryClosed,
                     act, cause>>
      /\ lp'.at \in {"close_ws", "frames"} /\ tasks' = tasks /\ lp.at \notin {"drain_ws", "drain_sse"}
  BY <1>r, <1>e, Apart, ZenonT(60) DEF WsData, history, TypeOK, LoopType
<1>v. lp' = [lp EXCEPT !.at = IF closed[e] THEN "close_ws" ELSE "frames", !.conn = e, !.ret = "read"]
  BY <1>e, Apart DEF WsData
<1>b. /\ lp'.fd = lp.fd /\ lp'.entry = e /\ lp'.conn = e /\ lp'.ret = "read" /\ lp'.fire = lp.fire
      /\ lp'.local = lp.local /\ (lp'.at = "close_ws" => closed[e])
  BY <1>e, <1>v DEF TypeOK, LoopType
<1>d. e # None /\ ~lp.fire /\ Up(e)'
  BY <1>e, <1>u, <1>r, Apart DEF LoopInv, Up
<1>1. Posted' \subseteq Posted
  BY <1>b, <1>e, <1>d, <1>u DEF Posted
<1>2. LoopInv'
  BY <1>b, <1>d, <1>e, <1>u, <1>1 DEF LoopInv
<1>3. \A d \in Conns : EntryInv(d)'
  BY <1>b, <1>d, <1>e, <1>u DEF EntryInv
<1>4. \A d \in Conns : open[d] /\ pc[d] \notin Early /\ num[d] = lp'.fd /\ lp'.entry # None
                       => d = lp'.entry
  BY <1>b, <1>e, <1>d DEF CarryInv
<1> QED BY <1>u, <1>1, <1>2, <1>3, <1>4, LoopMoves

\* The frame loop ends.
LEMMA WsFramesDoneKeeps ==
    ASSUME TypeOK, ConnInv, WsFramesDone
    PROVE  ConnInv'
<1> USE DEF ConnInv
<1>r. lp.at \in {"frames", "after"} 
  BY DEF WsFramesDone
<1>e. PICK e \in Conns :
         /\ lp.entry = e /\ lp.conn = e /\ num[e] = lp.fd /\ Up(e) /\ pc[e] \in {"arm", "done"}
         /\ clients["ws"][lp.fd] = e /\ kind[e] = "ws" /\ lp.fd # None /\ lp.ret = "read" /\ ~lp.fire
  BY <1>r DEF LoopInv, EntryInv, TypeOK, LoopType, ConnOrNone
<1>u. /\ UNCHANGED <<num, open, peer, pc, kind, held, clients, reg, closed, mutex, table, entryClosed,
                     act, cause>>
      /\ tasks' = tasks /\ lp.at \notin {"drain_ws", "drain_sse"}
      /\ lp' = IF closed[e] THEN [lp EXCEPT !.at = "close_ws"]
               ELSE [lp EXCEPT !.at = "read", !.conn = None]
  BY <1>r, <1>e DEF WsFramesDone, history, connVars, To
<1>b. /\ lp'.fd = lp.fd /\ lp'.entry = e /\ lp'.ret = "read" /\ lp'.fire = lp.fire
      /\ lp'.local = lp.local
      /\ \/ lp'.at = "close_ws" /\ closed[e]
         \/ lp'.at = "read" /\ lp'.conn = None
  BY <1>e, <1>u DEF TypeOK, LoopType
<1>d. e # None /\ Up(e)' /\ lp'.at \notin {"drain_ws", "drain_sse"}
  BY <1>e, <1>u, <1>b, Apart DEF Up
<1>f. open[e]
  <2>1. lp.fd \in Fds BY <1>e DEF TypeOK, LoopType, FdOrNone
  <2> QED BY <1>e, <2>1 DEF ClientsInv, Kinds
<1>1. Posted' \subseteq Posted
  BY <1>b, <1>e, <1>d, <1>u DEF Posted
<1>2. LoopInv'
  BY <1>b, <1>d, <1>e, <1>u, <1>1 DEF LoopInv
<1>3. \A d \in Conns : EntryInv(d)'
  BY <1>b, <1>d, <1>e, <1>u, <1>f DEF EntryInv
<1>4. \A d \in Conns : open[d] /\ pc[d] \notin Early /\ num[d] = lp'.fd /\ lp'.entry # None
                       => d = lp'.entry
  BY <1>b, <1>e, <1>d DEF CarryInv
<1> QED BY <1>u, <1>1, <1>2, <1>3, <1>4, LoopMoves

\* on_sse_data: a connection no longer in the map has been closed.
LEMMA SseDataKeeps ==
    ASSUME TypeOK, ConnInv, SseData
    PROVE  ConnInv'
<1> USE DEF ConnInv
<1>r. lp.at = "read" /\ ~entryClosed[lp.entry] /\ kind[lp.entry] = "sse" 
  BY DEF SseData, ReadSome
<1>e. PICK e \in Conns :
         /\ lp.entry = e /\ open[e] /\ num[e] = lp.fd /\ Up(e) /\ pc[e] \in {"arm", "done"}
         /\ kind[e] = "sse" /\ lp.fd # None /\ e # None /\ lp.conn = None /\ lp.fd \in Fds
  BY <1>r, ReadEntry
<1>u. /\ UNCHANGED <<num, open, peer, pc, kind, held, clients, reg, closed, mutex, table, entryClosed,
                     act, cause>>
      /\ lp'.at \in {"close_sse", "read"} /\ tasks' = tasks /\ lp.at \notin {"drain_ws", "drain_sse"}
  BY <1>r DEF SseData, history, connVars, TypeOK, LoopType
<1>b. /\ lp'.fd = lp.fd /\ lp'.entry = e /\ lp'.conn = None /\ lp'.fire = lp.fire /\ lp'.local = lp.local
      /\ \/ lp' = lp
         \/ /\ lp'.at = "close_sse" /\ lp'.ret = "read"
            /\ clients["sse"][lp.fd] = None \/ closed[clients["sse"][lp.fd]]
  BY <1>e, ZenonT(60) DEF SseData, TypeOK, LoopType
<1>c. lp' = lp \/ closed[e]
  <2>1. ~closed[e] => clients["sse"][lp.fd] = e BY <1>e DEF ClientsInv, Mapped
  <2> QED BY <1>b, <1>e, <2>1
<1>d. ~lp.fire /\ Up(e)'
  BY <1>e, <1>u, <1>r, Apart DEF LoopInv, Up
<1>1. Posted' \subseteq Posted
  BY <1>b, <1>e, <1>d, <1>u DEF Posted
<1>2. LoopInv'
  BY <1>b, <1>d, <1>e, <1>u, <1>1 DEF LoopInv
<1>3. \A d \in Conns : EntryInv(d)'
  <2>1. CASE lp' = lp BY <1>u, <2>1 DEF EntryInv, Up
  <2>2. CASE lp'.at = "close_sse" /\ lp'.ret = "read" BY <1>b, <1>c, <1>d, <1>e, <1>u, <2>2 DEF EntryInv
  <2> QED BY <1>b, <2>1, <2>2
<1>4. \A d \in Conns : open[d] /\ pc[d] \notin Early /\ num[d] = lp'.fd /\ lp'.entry # None
                       => d = lp'.entry
  BY <1>b, <1>e, <1>d DEF CarryInv
<1> QED BY <1>u, <1>1, <1>2, <1>3, <1>4, LoopMoves

\* The client of an SSE connection has left.
LEMMA SseEofKeeps ==
    ASSUME TypeOK, ConnInv, SseEof
    PROVE  ConnInv'
<1> USE DEF ConnInv
<1>r. lp.at = "read" /\ ~entryClosed[lp.entry] /\ kind[lp.entry] = "sse" /\ AtEnd
  BY DEF SseEof, ReadEnd
<1>e. PICK e \in Conns :
         /\ lp.entry = e /\ open[e] /\ num[e] = lp.fd /\ Up(e) /\ pc[e] \in {"arm", "done"}
         /\ kind[e] = "sse" /\ lp.fd # None /\ e # None /\ lp.conn = None /\ peer[e] = "gone"
  BY <1>r, ReadEntry DEF AtEnd
<1>u. /\ UNCHANGED <<num, open, peer, pc, kind, held, clients, reg, closed, mutex, table, entryClosed,
                     act, cause>>
      /\ lp'.at = "close_sse" /\ tasks' = tasks /\ lp.at \notin {"drain_ws", "drain_sse"}
  BY <1>r DEF SseEof, kernelVars, history, connVars, TypeOK, LoopType
<1>b. /\ lp'.fd = lp.fd /\ lp'.entry = e /\ lp'.conn = None /\ lp'.fire = lp.fire /\ lp'.local = lp.local
      /\ lp'.ret = "again" 
  BY <1>e DEF SseEof, TypeOK, LoopType
<1>d. ~lp.fire /\ Up(e)'
  BY <1>e, <1>u, <1>r, Apart DEF LoopInv, Up
<1>1. Posted' \subseteq Posted
  BY <1>b, <1>e, <1>d, <1>u DEF Posted
<1>2. LoopInv'
  BY <1>b, <1>d, <1>e, <1>u, <1>1 DEF LoopInv
<1>3. \A d \in Conns : EntryInv(d)'
  BY <1>b, <1>d, <1>e, <1>u DEF EntryInv
<1>4. \A d \in Conns : open[d] /\ pc[d] \notin Early /\ num[d] = lp'.fd /\ lp'.entry # None
                       => d = lp'.entry
  BY <1>b, <1>e, <1>d DEF CarryInv
<1> QED BY <1>u, <1>1, <1>2, <1>3, <1>4, LoopMoves

-----------------------------------------------------------------------------
(***************************************************************************)
(* The loop: steps that close.                                             *)
(***************************************************************************)
\* A connection of the loop is closed: it stays in the map until close_ws.
LEMMA LoopCloses ==
    ASSUME TypeOK, ConnInv, NEW e \in Conns, lp.entry = e, lp.at \in {"read", "frames"},
           lp.fd \in Fds, clients["ws"][lp.fd] = e, NEW why \in {"client", "bye", "gone", "send"},
           why = "gone" => peer[e] = "gone", SetClosed(e, why),
           lp'.at \in {"frames", "after", "close_ws"}, lp'.fd = lp.fd, lp'.entry = e, ~lp'.fire,
           lp'.local = lp.local, lp'.ret \in {"read", "again"},
           lp'.ret = "again" => peer[e] = "gone",
           lp'.at # "close_ws" => lp'.conn = e /\ lp'.ret = "read",
           UNCHANGED <<num, open, peer, pc, kind, held, clients, reg, mutex, table, entryClosed,
                       tasks, act>>
    PROVE  ConnInv'
<1> USE DEF ConnInv, Up, Mapped, Early, Draining
<1>a. /\ open[e] /\ num[e] = lp.fd /\ kind[e] = "ws" /\ Up(e) /\ pc[e] \in {"arm", "done"}
      /\ lp.fd # None /\ e # None
  BY Apart DEF ClientsInv, EntryInv, Kinds
<1>f. /\ \A d \in Conns : closed'[d] = closed[d] \/ (d = e /\ closed'[d] = TRUE)
      /\ closed'[e]
      /\ \A d \in Conns : cause'[d] = cause[d]
                            \/ (d = e /\ cause'[d] = why /\ cause[d] = "none")
      /\ \A d \in Conns : closed'[d] <=> cause'[d] # "none" 
  <2>1. closed' = [closed EXCEPT ![e] = TRUE] BY DEF SetClosed
  <2>2. CASE closed[e]
    <3>1. cause' = cause BY <2>2 DEF SetClosed
    <3> QED BY <2>1, <2>2, <3>1 DEF CauseInv, TypeOK
  <2>3. CASE ~closed[e]
    <3>1. cause' = [cause EXCEPT ![e] = why] BY <2>3 DEF SetClosed
    <3> QED BY <2>1, <2>3, <3>1 DEF CauseInv, TypeOK
  <2> QED BY <2>2, <2>3
<1>p. Posted' = Posted
  BY <1>a DEF Posted, LoopInv
<1>1. SocketInv'
  BY DEF SocketInv
<1>2. \A d \in Conns : PlaceInv(d)'
  BY <1>a, <1>f DEF PlaceInv
<1>3. \A d \in Conns : TableInv(d)'
  BY DEF TableInv
<1>4. \A d \in Conns : ClientsInv(d)'
  BY <1>f DEF ClientsInv
<1>5. \A d \in Conns : RegInv(d)'
  BY DEF RegInv
<1>6. \A d \in Conns : CauseInv(d)'
  BY <1>f DEF CauseInv
<1>7. \A a \in Actors : SendInv(a)'
  BY DEF SendInv
<1>8. \A d \in Conns : MutexInv(d)'
  BY DEF MutexInv
<1>9. \A d \in Conns : CarryInv(d)'
  BY <1>a, <1>f, <1>p DEF CarryInv, Dying
<1>10. LoopInv'
  BY <1>a, <1>p DEF LoopInv
<1>11. \A d \in Conns : EntryInv(d)'
  BY <1>a, <1>f DEF EntryInv
<1>12. \A d \in Conns : DrainInv(d)'
  BY DEF DrainInv
<1> QED BY <1>1, <1>2, <1>3, <1>4, <1>5, <1>6, <1>7, <1>8, <1>9, <1>10, <1>11, <1>12

\* Setting closed again changes nothing.
LEMMA SetClosedAgain ==
    ASSUME TypeOK, NEW c \in Conns, closed[c], NEW why
    PROVE  SetClosed(c, why) <=> UNCHANGED <<closed, cause>>
<1>1. closed[c] = TRUE /\ closed \in [Conns -> BOOLEAN] BY DEF TypeOK
<1>2. [closed EXCEPT ![c] = TRUE] = closed BY <1>1
<1> QED BY <1>2 DEF SetClosed

\* The event is in the loop's hands: the entry of on_ws_data.
LEMMA FrameEntry ==
    ASSUME TypeOK, ConnInv, lp.at \in {"frames", "after", "close_ws", "drain_ws"}
    PROVE  /\ lp.entry \in Conns /\ lp.entry # None /\ lp.fd \in Fds /\ lp.fd # None
           /\ num[lp.entry] = lp.fd /\ Up(lp.entry) /\ pc[lp.entry] \in {"arm", "done"}
           /\ kind[lp.entry] = "ws" /\ open[lp.entry] /\ ~lp.fire
           /\ lp.at # "drain_ws" => clients["ws"][lp.fd] = lp.entry
           /\ lp.at # "close_ws" => lp.conn = lp.entry
           /\ lp.ret \in {"read", "again"}
<1> USE DEF ConnInv
<1>1. lp.entry # None /\ lp.fd # None /\ lp.ret # "batch" /\ ~lp.fire BY DEF LoopInv
<1>2. lp.entry \in Conns /\ lp.fd \in Fds /\ lp.ret \in {"read", "again"}
  BY <1>1 DEF TypeOK, LoopType, ConnOrNone, FdOrNone
<1>3. /\ num[lp.entry] = lp.fd /\ Up(lp.entry) /\ pc[lp.entry] \in {"arm", "done"}
      /\ kind[lp.entry] = "ws" /\ (lp.at # "drain_ws" => clients["ws"][lp.fd] = lp.entry)
      /\ lp.at # "close_ws" => lp.conn = lp.entry
  BY <1>2 DEF EntryInv
<1>4. open[lp.entry] BY <1>2, <1>3 DEF ClientsInv, DrainInv, Draining, Kinds
<1> QED BY <1>1, <1>2, <1>3, <1>4

\* on_ws_data, told of the end.
LEMMA WsEofKeeps ==
    ASSUME TypeOK, ConnInv, WsEof
    PROVE  ConnInv'
<1>1. lp.at = "read" /\ ~entryClosed[lp.entry] /\ kind[lp.entry] = "ws" /\ AtEnd
  BY DEF WsEof, ReadEnd
<1>2. PICK e \in Conns : /\ lp.entry = e /\ clients["ws"][lp.fd] = e /\ e # None
                         /\ peer[e] = "gone" /\ lp.fd \in Fds
  BY <1>1, ReadEntry DEF AtEnd
<1>3. SetClosed(e, "gone")
  <2>1. CASE closed[e] BY <1>2, <2>1, SetClosedAgain DEF WsEof
  <2>2. CASE ~closed[e] BY <1>2, <2>2 DEF WsEof
  <2> QED BY <2>1, <2>2
<1>4. /\ lp' = [lp EXCEPT !.at = "close_ws", !.ret = "again"]
      /\ UNCHANGED <<num, open, peer, pc, kind, held, clients, reg, mutex, table, entryClosed,
                     tasks, act>>
  BY DEF WsEof, kernelVars
<1>5. /\ lp'.at = "close_ws" /\ lp'.fd = lp.fd /\ lp'.entry = e /\ lp'.fire = lp.fire
      /\ lp'.local = lp.local /\ lp'.ret = "again"
  BY <1>2, <1>4 DEF TypeOK, LoopType
<1>6. ~lp.fire BY <1>1 DEF ConnInv, LoopInv
<1> QED BY <1>1, <1>2, <1>3, <1>4, <1>5, <1>6, LoopCloses

\* An answer leaves closed alone or sets it, for the reason given or because the write failed.
LEMMA AnswerIs ==
    ASSUME NEW c, NEW why, Answer(c, why)
    PROVE  \/ why = "none" /\ UNCHANGED <<closed, cause>>
           \/ why # "none" /\ SetClosed(c, why)
           \/ SetClosed(c, "send")
  BY DEF Answer

\* What one frame does to the connection, and where the loop goes on.
LEMMA FrameIs ==
    ASSUME WsFrame
    PROVE  \/ UNCHANGED <<lp, closed, cause, fired>>
           \/ SetClosed(lp.conn, "send") /\ UNCHANGED <<lp, fired>>
           \/ /\ SetClosed(lp.conn, "client") \/ SetClosed(lp.conn, "send")
              /\ lp' = [lp EXCEPT !.at = "after"] /\ fired' = fired
           \/ /\ SetClosed(lp.conn, "bye") \/ SetClosed(lp.conn, "send")
              /\ lp' = [lp EXCEPT !.at = "close_ws"]
              /\ sent[lp.conn][Head(buf[lp.fd])] = "close"
              /\ fired' = [fired EXCEPT ![lp.conn] = @ + 1]
<1> DEFINE c == lp.conn
           f == sent[c][Head(buf[lp.fd])]
<1>2. CASE f = "ping"
  <2>1. Answer(c, "none") /\ UNCHANGED <<lp, fired>> BY <1>2 DEF WsFrame
  <2> QED BY <2>1, AnswerIs
<1>3. CASE f = "close"
  <2>1. /\ Answer(c, "bye") /\ To("close_ws") /\ fired' = [fired EXCEPT ![c] = @ + 1]
    BY <1>3 DEF WsFrame
  <2> QED BY <1>3, <2>1, AnswerIs DEF To
<1>4. CASE f \notin {"ping", "close"}
  <2>1. \/ Answer(c, "client") /\ To("after") /\ fired' = fired
        \/ UNCHANGED <<lp, closed, cause, fired>>
    BY <1>4 DEF WsFrame
  <2> QED BY <2>1, AnswerIs DEF To
<1> QED BY <1>2, <1>3, <1>4

\* One frame either closes the connection or leaves the tables alone.
LEMMA WsFrameKeeps ==
    ASSUME TypeOK, ConnInv, WsFrame
    PROVE  ConnInv'
<1>1. lp.at = "frames" BY DEF WsFrame
<1>2. PICK e \in Conns : /\ lp.entry = e /\ clients["ws"][lp.fd] = e /\ lp.conn = e
                         /\ lp.fd \in Fds /\ ~lp.fire
  BY <1>1, FrameEntry
<1>3. UNCHANGED <<num, open, peer, pc, kind, held, clients, reg, mutex, table, entryClosed,
                  tasks, act>>
  BY DEF WsFrame, kernelVars
<1>4. \/ UNCHANGED <<lp, closed, cause>>
      \/ \E why \in {"client", "bye", "send"}, p \in {"frames", "after", "close_ws"} :
            SetClosed(e, why) /\ lp' = [lp EXCEPT !.at = p]
  <2>1. lp = [lp EXCEPT !.at = "frames"] BY <1>1 DEF TypeOK, LoopType
  <2> QED BY <1>2, <2>1, FrameIs
<1>5. lp.ret = "read" BY <1>1 DEF ConnInv, LoopInv
<1>6. CASE UNCHANGED <<lp, closed, cause>> BY <1>3, <1>6, PeerKeeps
<1>7. ASSUME NEW why \in {"client", "bye", "send"}, NEW p \in {"frames", "after", "close_ws"},
             SetClosed(e, why), lp' = [lp EXCEPT !.at = p]
      PROVE  ConnInv'
  <2>1. /\ lp'.at = p /\ lp'.fd = lp.fd /\ lp'.entry = e /\ lp'.fire = lp.fire
        /\ lp'.local = lp.local /\ lp'.ret = "read" /\ lp'.conn = e
    BY <1>2, <1>5, <1>7 DEF TypeOK, LoopType
  <2> QED BY <1>1, <1>2, <1>3, <1>7, <2>1, LoopCloses
<1> QED BY <1>4, <1>6, <1>7

\* close_ws takes the connection out of the map and keeps it as the one it waits for.
LEMMA CloseWsKeeps ==
    ASSUME TypeOK, ConnInv, CloseWs
    PROVE  ConnInv'
<1> USE DEF ConnInv, Up, Mapped, Early, Draining
<1>e. PICK e \in Conns :
         /\ lp.entry = e /\ clients["ws"][lp.fd] = e /\ lp.fd \in Fds /\ lp.fd # None /\ e # None
         /\ num[e] = lp.fd /\ Up(e) /\ pc[e] \in {"arm", "done"} /\ kind[e] = "ws" /\ open[e]
         /\ lp.ret \in {"read", "again"} /\ ~lp.fire
  BY FrameEntry DEF CloseWs
<1>c. closed[e] /\ lp.at = "close_ws"
  BY <1>e DEF EntryInv, CloseWs
<1>u. /\ clients' = [clients EXCEPT !["ws"][lp.fd] = None]
      /\ lp' = [lp EXCEPT !.at = "drain_ws", !.conn = e]
      /\ UNCHANGED <<num, open, peer, pc, kind, held, reg, closed, mutex, table, entryClosed,
                     tasks, act, cause>>
  <2>1. SetClosed(e, "stray") BY <1>e DEF CloseWs
  <2> QED BY <1>e, <1>c, <2>1, SetClosedAgain DEF CloseWs, kernelVars
<1>l. /\ lp'.at = "drain_ws" /\ lp'.conn = e /\ lp'.fd = lp.fd /\ lp'.entry = e /\ lp'.ret = lp.ret
      /\ lp'.local = lp.local /\ lp'.fire = lp.fire
  BY <1>u, <1>e DEF TypeOK, LoopType
<1>p. Posted' = Posted
  BY <1>l, <1>e, <1>c, <1>u DEF Posted
<1>d. \A k \in Kinds, fd \in Fds, d \in Conns :
         clients'[k][fd] = d <=> clients[k][fd] = d /\ d # e
  <2>1. \A k \in Kinds, fd \in Fds : clients[k][fd] = e <=> k = "ws" /\ fd = lp.fd
    BY <1>e DEF ClientsInv
  <2>2. \A k \in Kinds, fd \in Fds :
           clients'[k][fd] = IF k = "ws" /\ fd = lp.fd THEN None ELSE clients[k][fd]
    BY <1>e, <1>u DEF TypeOK, Tables, Kinds
  <2> QED BY <2>1, <2>2, Apart
<1>n. clients'["ws"][lp.fd] = None
  BY <1>e, <1>u DEF TypeOK, Tables, Kinds
<1>1. SocketInv'
  BY <1>u DEF SocketInv
<1>2. \A d \in Conns : PlaceInv(d)'
  BY <1>u DEF PlaceInv
<1>3. \A d \in Conns : TableInv(d)'
  BY <1>u DEF TableInv
<1>4. \A d \in Conns : ClientsInv(d)'
  <2>1. \A d \in Conns : Mapped(d) => kind[d] \in Kinds /\ num[d] \in Fds BY DEF PlaceInv
  <2> QED BY <1>e, <1>c, <1>u, <1>d, <1>l, <2>1 DEF ClientsInv, Kinds
<1>5. \A d \in Conns : RegInv(d)'
  BY <1>c, <1>u, <1>d, <1>l DEF RegInv
<1>6. \A d \in Conns : CauseInv(d)'
  BY <1>u DEF CauseInv
<1>7. \A a \in Actors : SendInv(a)'
  BY <1>u DEF SendInv
<1>8. \A d \in Conns : MutexInv(d)'
  <2>1. \A d \in Conns : Up(d) => kind[d] \in Kinds /\ num[d] \in Fds BY DEF PlaceInv
  <2> QED BY <1>e, <1>c, <1>u, <1>d, <1>l, <2>1 DEF MutexInv
<1>9. \A d \in Conns : CarryInv(d)'
  BY <1>e, <1>l, <1>p, <1>u DEF CarryInv, Dying
<1>10. LoopInv'
  BY <1>e, <1>l, <1>p, <1>c DEF LoopInv
<1>11. \A d \in Conns : EntryInv(d)'
  BY <1>e, <1>c, <1>l, <1>u DEF EntryInv
<1>12. \A d \in Conns : DrainInv(d)'
  BY <1>e, <1>c, <1>l, <1>u, <1>n DEF DrainInv
<1> QED BY <1>1, <1>2, <1>3, <1>4, <1>5, <1>6, <1>7, <1>8, <1>9, <1>10, <1>11, <1>12

\* The number of the connection at hand is closed: no map, registry or script has it any more.
LEMMA SocketCloses ==
    ASSUME TypeOK, ConnInv, NEW c \in Conns, open[c], num[c] = lp.fd, lp.fd \in Fds,
           pc[c] \in {"arm", "done"}, open' = [open EXCEPT ![c] = FALSE],
           table' = [table EXCEPT ![lp.fd] = None],
           entryClosed' = [entryClosed EXCEPT ![c] = TRUE],
           \A k \in Kinds, fd \in Fds : clients[k][fd] # c, mutex[c] = None,
           \A k \in Kinds, fd \in Fds : reg'[k][fd] # c,
           \A k \in Kinds, fd \in Fds, d \in Conns : reg'[k][fd] = d => reg[k][fd] = d,
           \A d \in Conns : Draining(d) => d = c, lp'.at \notin {"drain_ws", "drain_sse"},
           LoopInv', \A d \in Conns : EntryInv(d)', Posted' \subseteq Posted,
           lp'.entry = None \/ (lp'.entry = lp.entry /\ lp'.fd = lp.fd),
           UNCHANGED <<num, peer, pc, kind, held, clients, closed, mutex, tasks, act, cause>>
    PROVE  ConnInv'
<1> USE DEF ConnInv, Up, Mapped, Early, Draining
<1>a. table[lp.fd] = c /\ \A fd \in Fds : table[fd] = c <=> fd = lp.fd
  BY DEF TableInv
<1>b. \A fd \in Fds, d \in Conns : table'[fd] = d <=> table[fd] = d /\ d # c
  BY <1>a, Apart DEF TypeOK, Tables
<1>c. \A d \in Conns : open'[d] <=> open[d] /\ d # c
  BY DEF TypeOK
<1>d. \A d \in Conns : entryClosed'[d] <=> entryClosed[d] \/ d = c
  BY DEF TypeOK
<1>1. SocketInv'
  BY <1>c DEF SocketInv
<1>2. \A d \in Conns : PlaceInv(d)'
  BY <1>c DEF PlaceInv
<1>3. \A d \in Conns : TableInv(d)'
  <2> SUFFICES ASSUME NEW d \in Conns PROVE TableInv(d)'
    OBVIOUS
  <2>1. open[d] => num[d] \in Fds BY DEF SocketInv
  <2> QED BY <1>a, <1>b, <1>c, <1>d, <2>1 DEF TableInv
<1>4. \A d \in Conns : ClientsInv(d)'
  <2> SUFFICES ASSUME NEW d \in Conns PROVE ClientsInv(d)'
    OBVIOUS
  <2>1. Mapped(d)' = Mapped(d) /\ Up(d)' = Up(d) OBVIOUS
  <2>2. lp.at = "drain_ws" /\ lp.conn = d => d = c OBVIOUS
  <2> QED BY <1>c, <2>1, <2>2 DEF ClientsInv
<1>5. \A d \in Conns : RegInv(d)'
  BY <1>c DEF RegInv
<1>6. \A d \in Conns : CauseInv(d)'
  BY DEF CauseInv
<1>7. \A a \in Actors : SendInv(a)'
  BY DEF SendInv
<1>8. \A d \in Conns : MutexInv(d)'
  BY DEF MutexInv
<1>9. \A d \in Conns : CarryInv(d)'
  BY <1>c DEF CarryInv, Dying
<1>10. LoopInv'
  OBVIOUS
<1>11. \A d \in Conns : EntryInv(d)'
  OBVIOUS
<1>12. \A d \in Conns : DrainInv(d)'
  BY DEF DrainInv
<1> QED BY <1>1, <1>2, <1>3, <1>4, <1>5, <1>6, <1>7, <1>8, <1>9, <1>10, <1>11, <1>12

-----------------------------------------------------------------------------
\* A connection under its number in no map has nothing in the registries and no sender, unless
\* the loop waits for it.
LEMMA OutOfMaps ==
    ASSUME TypeOK, ConnInv, NEW c \in Conns, Up(c), clients[kind[c]][num[c]] = None
    PROVE  /\ \A k \in Kinds, fd \in Fds : clients[k][fd] # c
           /\ ~Draining(c) => mutex[c] = None /\ \A k \in Kinds, fd \in Fds : reg[k][fd] # c
<1> USE DEF ConnInv
<1>1. c # None BY Apart
<1>2. \A k \in Kinds, fd \in Fds : clients[k][fd] # c BY <1>1 DEF ClientsInv
<1>3. ASSUME ~Draining(c) PROVE mutex[c] = None BY <1>1, <1>3 DEF MutexInv
<1>4. ASSUME ~Draining(c) PROVE \A k \in Kinds, fd \in Fds : reg[k][fd] # c
  BY <1>2, <1>4 DEF RegInv, Draining
<1> QED BY <1>2, <1>3, <1>4

\* The loop leaves: what LoopMoves and SocketCloses need to know.
LEMMA LeavingKeeps ==
    ASSUME TypeOK, ConnInv, lp' = Leave, tasks' = tasks
    PROVE  /\ LoopInv' /\ \A d \in Conns : EntryInv(d)'
           /\ Posted' \subseteq Posted /\ lp'.entry = None /\ lp'.at = "batch"
<1>1. /\ lp'.at = "batch" /\ lp'.fd = None /\ lp'.entry = None /\ lp'.conn = None
      /\ lp'.ret = "batch" /\ ~lp'.fire /\ lp'.local = lp.local
  BY LeaveIs
<1>2. Posted' \subseteq Posted BY <1>1 DEF Posted
<1>3. LoopInv' BY <1>1, <1>2 DEF ConnInv, LoopInv
<1>4. \A d \in Conns : EntryInv(d)' BY <1>1, Apart DEF EntryInv
<1> QED BY <1>1, <1>2, <1>3, <1>4

\* close_fd after the end was reported: the number is still the connection's own.
LEMMA CloseAgainKeeps ==
    ASSUME TypeOK, ConnInv, CloseAgain
    PROVE  ConnInv'
<1> USE DEF ConnInv
<1>1. PICK e \in Conns : /\ lp.entry = e /\ num[e] = lp.fd /\ Up(e) /\ clients[kind[e]][lp.fd] = None
                         /\ lp.fd \in Fds /\ lp.entry # None
  <2>1. lp.at = "again" /\ lp.entry # None /\ lp.entry \in Conns
    BY DEF CloseAgain, LoopInv, TypeOK, LoopType, ConnOrNone
  <2>2. num[lp.entry] = lp.fd /\ Up(lp.entry) /\ clients[kind[lp.entry]][lp.fd] = None
    BY <2>1 DEF EntryInv
  <2> QED BY <2>1, <2>2 DEF PlaceInv, Mapped
<1>2. /\ CloseFd(lp.fd) /\ lp' = Leave /\ lp.at = "again"
      /\ UNCHANGED <<num, peer, pc, kind, held, clients, reg, closed, mutex, tasks, act, cause>>
  BY DEF CloseAgain, connVars, history
<1>3. /\ LoopInv' /\ \A d \in Conns : EntryInv(d)'
      /\ Posted' \subseteq Posted /\ lp'.entry = None /\ lp'.at = "batch"
  BY <1>2, LeavingKeeps
<1>4. CASE UNCHANGED <<table, entryClosed, open>> BY <1>2, <1>3, <1>4, LoopMoves
<1>5. ASSUME NEW c \in Conns, table[lp.fd] = c, open[c], num[c] = lp.fd, SocketGone(c),
             table' = [table EXCEPT ![lp.fd] = None],
             entryClosed' = [entryClosed EXCEPT ![c] = TRUE]
      PROVE  ConnInv'
  <2>1. pc[c] \in {"arm", "done"} BY <1>1, <1>5 DEF TableInv
  <2>2. c = e BY <1>1, <1>5, <2>1 DEF CarryInv, Early
  <2>3. \A d \in Conns : ~Draining(d) BY <1>2 DEF Draining
  <2>4. /\ \A k \in Kinds, fd \in Fds : clients[k][fd] # c
        /\ mutex[c] = None /\ \A k \in Kinds, fd \in Fds : reg[k][fd] # c
    BY <1>1, <2>2, <2>3, OutOfMaps
  <2>5. open' = [open EXCEPT ![c] = FALSE] BY <1>5 DEF SocketGone
  <2>6. /\ \A k \in Kinds, fd \in Fds : reg'[k][fd] # c
        /\ \A k \in Kinds, fd \in Fds, d \in Conns : reg'[k][fd] = d => reg[k][fd] = d
        /\ UNCHANGED <<num, peer, pc, kind, held, clients, closed, mutex, tasks, act, cause>>
        /\ lp'.at \notin {"drain_ws", "drain_sse"}
        /\ \A d \in Conns : Draining(d) => d = c
    BY <1>2, <1>3, <2>3, <2>4
  <2> HIDE DEF ConnInv
  <2> QED BY <1>1, <1>3, <1>5, <2>1, <2>4, <2>5, <2>6, SocketCloses
<1> QED BY <1>1, <1>2, <1>4, <1>5, CloseFdIs

\* close_ws closes the number once nobody writes: it is still its connection's.
LEMMA DrainWsKeeps ==
    ASSUME TypeOK, ConnInv, DrainWs
    PROVE  ConnInv'
<1> USE DEF ConnInv
<1>1. PICK e \in Conns :
         /\ lp.entry = e /\ lp.conn = e /\ num[e] = lp.fd /\ Up(e) /\ pc[e] \in {"arm", "done"}
         /\ kind[e] = "ws" /\ open[e] /\ lp.fd \in Fds /\ lp.fd # None /\ lp.entry # None
         /\ lp.ret \in {"read", "again"} /\ clients["ws"][lp.fd] = None
  BY FrameEntry DEF DrainWs, DrainInv, Draining
<1>2. /\ CloseFd(lp.fd) /\ lp' = Returned /\ lp.at = "drain_ws" /\ mutex[e] = None
      /\ reg' = [reg EXCEPT !["ws"][lp.fd] = None]
      /\ UNCHANGED <<num, peer, pc, kind, held, clients, closed, mutex, tasks, act, cause>>
  BY <1>1 DEF DrainWs, history
<1>3. table[lp.fd] = e /\ e # None BY <1>1, Apart DEF TableInv
<1>4. /\ open' = [open EXCEPT ![e] = FALSE] /\ table' = [table EXCEPT ![lp.fd] = None]
      /\ entryClosed' = [entryClosed EXCEPT ![e] = TRUE]
  BY <1>1, <1>2, <1>3, CloseFdIs DEF SocketGone
<1>5. /\ lp'.at = lp.ret /\ lp'.fd = lp.fd /\ lp'.entry = e /\ lp'.conn = None
      /\ lp'.ret = lp.ret /\ ~lp'.fire /\ lp'.local = lp.local
  BY <1>1, <1>2, ReturnedIs
<1>6. /\ \A k \in Kinds, fd \in Fds : reg'[k][fd] # e
      /\ \A k \in Kinds, fd \in Fds, d \in Conns : reg'[k][fd] = d => reg[k][fd] = d
  <2>1. \A k \in Kinds, fd \in Fds :
           reg'[k][fd] = IF k = "ws" /\ fd = lp.fd THEN None ELSE reg[k][fd]
    BY <1>1, <1>2 DEF TypeOK, Tables, Kinds
  <2> QED BY <1>1, <1>3, <2>1, Apart DEF RegInv
<1>7. Posted' \subseteq Posted BY <1>1, <1>2, <1>5 DEF Posted
<1>8. LoopInv' BY <1>1, <1>5, <1>7 DEF LoopInv
<1>9. \A d \in Conns : EntryInv(d)'
  <2>1. ~open'[e] /\ entryClosed'[e] BY <1>4 DEF TypeOK
  <2>2. lp.ret = "again" => peer[e] = "gone" BY <1>1 DEF EntryInv
  <2>3. EntryInv(e)' BY <1>1, <1>2, <1>5, <2>1, <2>2 DEF EntryInv, Up
  <2>4. \A d \in Conns : d # e => EntryInv(d)' BY <1>5 DEF EntryInv
  <2> QED BY <2>3, <2>4
<1>10. \A k \in Kinds, fd \in Fds : clients[k][fd] # e BY <1>1, OutOfMaps
<1> QED BY <1>1, <1>2, <1>4, <1>5, <1>6, <1>7, <1>8, <1>9, <1>10, SocketCloses, ZenonT(60) DEF Draining

\* close_sse: as close_ws; a connection that has not reached the table yet stays open.
LEMMA DrainSseKeeps ==
    ASSUME TypeOK, ConnInv, DrainSse
    PROVE  ConnInv'
<1> USE DEF ConnInv
<1>1. PICK c \in Conns : lp.conn = c /\ lp.at = "drain_sse" /\ mutex[c] = None
  BY DEF DrainSse, LoopInv, TypeOK, LoopType, ConnOrNone
<1>2. /\ CloseFd(lp.fd) /\ lp' = Returned
      /\ UNCHANGED <<num, peer, pc, kind, held, clients, reg, closed, mutex, tasks, act, cause>>
  BY DEF DrainSse, connVars
<1>3. /\ num[c] = lp.fd /\ open[c] /\ Up(c) /\ clients[kind[c]][lp.fd] = None /\ kind[c] = "sse"
      /\ lp.fd \in Fds
  BY <1>1 DEF DrainInv, Draining, SocketInv
<1>4. /\ \A k \in Kinds, fd \in Fds : clients[k][fd] # c
      /\ \A k \in Kinds, fd \in Fds : reg[k][fd] # c
  <2>1. \A k \in Kinds, fd \in Fds : clients[k][fd] # c BY <1>3, OutOfMaps
  <2> QED BY <1>1, <2>1 DEF RegInv
<1>5. lp.entry = None \/ lp.entry = c
  BY <1>1 DEF EntryInv, TypeOK, LoopType, ConnOrNone
<1>6. \A d \in Conns : Draining(d) => d = c BY <1>1 DEF Draining
<1>7. CASE lp.entry = None
  <2>1. lp.ret = "batch" BY <1>1, <1>7 DEF LoopInv
  <2>2. lp' = Leave BY <1>2, <2>1 DEF Returned
  <2>3. /\ LoopInv' /\ \A d \in Conns : EntryInv(d)'
        /\ Posted' \subseteq Posted /\ lp'.entry = None /\ lp'.at = "batch"
    BY <1>2, <2>2, LeavingKeeps
  <2>4. CASE UNCHANGED <<table, entryClosed, open>> BY <1>1, <1>2, <2>3, <2>4, LoopMoves
  <2>5. ASSUME NEW d \in Conns, table[lp.fd] = d, open[d], num[d] = lp.fd, SocketGone(d),
               table' = [table EXCEPT ![lp.fd] = None],
               entryClosed' = [entryClosed EXCEPT ![d] = TRUE]
        PROVE  ConnInv'
    <3>1. d = c BY <1>3, <2>5 DEF SocketInv
    <3>2. pc[c] \in {"arm", "done"} BY <1>3, <2>5, <3>1 DEF TableInv
    <3>3. open' = [open EXCEPT ![c] = FALSE] BY <2>5, <3>1 DEF SocketGone
    <3> QED BY <1>1, <1>2, <1>3, <1>4, <1>6, <2>3, <2>5, <3>1, <3>2, <3>3, SocketCloses
  <2> QED BY <1>2, <1>3, <2>4, <2>5, CloseFdIs
<1>8. CASE lp.entry = c
  <2>1. pc[c] \in {"arm", "done"} /\ lp.ret # "batch" /\ c # None
        /\ (lp.ret = "again" => peer[c] = "gone")
    BY <1>1, <1>8, Apart DEF LoopInv, EntryInv
  <2>2. table[lp.fd] = c BY <1>3, <2>1 DEF TableInv
  <2>3. /\ open' = [open EXCEPT ![c] = FALSE] /\ table' = [table EXCEPT ![lp.fd] = None]
        /\ entryClosed' = [entryClosed EXCEPT ![c] = TRUE]
    BY <1>2, <1>3, <2>1, <2>2, CloseFdIs DEF SocketGone
  <2>4. /\ lp'.at = lp.ret /\ lp'.fd = lp.fd /\ lp'.entry = c /\ lp'.conn = None
        /\ lp'.ret = lp.ret /\ ~lp'.fire /\ lp'.local = lp.local /\ lp.ret \in {"read", "again"}
    BY <1>2, <1>8, <2>1, ReturnedIs DEF TypeOK, LoopType
  <2>5. Posted' \subseteq Posted BY <1>2, <2>1, <2>4 DEF Posted
  <2>6. LoopInv' BY <1>3, <2>1, <2>4, <2>5, Apart DEF LoopInv
  <2>7. \A d \in Conns : EntryInv(d)'
    <3>1. ~open'[c] /\ entryClosed'[c] BY <2>3 DEF TypeOK
    <3>2. EntryInv(c)' BY <1>2, <1>3, <2>1, <2>4, <3>1 DEF EntryInv, Up
    <3>3. \A d \in Conns : d # c => EntryInv(d)' BY <2>4 DEF EntryInv
    <3> QED BY <3>2, <3>3
  <2> QED BY <1>1, <1>2, <1>3, <1>4, <1>6, <1>8, <2>1, <2>3, <2>4, <2>5, <2>6, <2>7, SocketCloses
<1> QED BY <1>5, <1>7, <1>8

\* close_sse takes out of map and registry the connection it was called for, which somebody has
\* closed or whose client has left.
LEMMA CloseSseOwns ==
    ASSUME TypeOK, ConnInv, NEW c \in Conns, lp.at = "close_sse", lp.fd \in Fds,
           clients["sse"][lp.fd] = c,
           lp' = [lp EXCEPT !.at = "drain_sse", !.conn = c, !.fire = ~closed[c]],
           clients' = [clients EXCEPT !["sse"][lp.fd] = None],
           reg' = [reg EXCEPT !["sse"][lp.fd] = None],
           SetClosed(c, IF peer[c] = "gone" THEN "gone" ELSE "stray"),
           UNCHANGED <<num, open, peer, pc, kind, held, mutex, table, entryClosed, tasks, act>>
    PROVE  ConnInv'
<1> USE DEF ConnInv, Up, Mapped, Early, Draining
<1>a. /\ open[c] /\ num[c] = lp.fd /\ kind[c] = "sse" /\ Mapped(c) /\ c # None
  BY Apart DEF ClientsInv, Kinds
<1>b. /\ lp.entry = c \/ lp.entry = None
      /\ lp.entry = None => Dying(c) /\ lp.ret = "batch"
      /\ lp.entry = c => Up(c) /\ pc[c] \in {"arm", "done"} /\ lp.ret # "batch"
                         /\ (closed[c] \/ peer[c] = "gone") /\ held[c]
  <2>1. pc[c] \notin Early BY <1>a
  <2>2. lp.entry # None => lp.entry = c BY <1>a, <2>1 DEF CarryInv
  <2>3. lp.entry = None => Dying(c)
    BY <1>a, <2>1 DEF CarryInv, Posted
  <2>4. lp.entry = c => Up(c) /\ pc[c] \in {"arm", "done"} /\ (closed[c] \/ peer[c] = "gone")
    BY DEF EntryInv
  <2>5. lp.entry = None <=> lp.ret = "batch" BY DEF LoopInv
  <2> QED BY <1>a, <2>2, <2>3, <2>4, <2>5 DEF PlaceInv
<1>c. held[c] /\ Up(c) /\ (closed[c] \/ peer[c] = "gone") /\ pc[c] # "hold" 
  BY <1>b DEF Dying, PlaceInv
<1>f. /\ \A d \in Conns : closed'[d] <=> closed[d] \/ d = c
      /\ \A d \in Conns : cause'[d] = cause[d]
                            \/ (d = c /\ cause'[d] = "gone" /\ cause[d] = "none" /\ peer[c] = "gone")
      /\ \A d \in Conns : closed'[d] <=> cause'[d] # "none" 
  <2>1. closed' = [closed EXCEPT ![c] = TRUE] BY DEF SetClosed
  <2>2. CASE closed[c]
    <3>1. cause' = cause BY <2>2 DEF SetClosed
    <3> QED BY <2>1, <2>2, <3>1 DEF CauseInv, TypeOK
  <2>3. CASE ~closed[c]
    <3>1. cause' = [cause EXCEPT ![c] = "gone"] BY <1>c, <2>3 DEF SetClosed
    <3> QED BY <1>c, <2>1, <2>3, <3>1 DEF CauseInv, TypeOK
  <2> QED BY <2>2, <2>3
<1>l. /\ lp'.at = "drain_sse" /\ lp'.conn = c /\ lp'.fd = lp.fd /\ lp'.entry = lp.entry
      /\ lp'.ret = lp.ret /\ lp'.local = lp.local
  BY DEF TypeOK, LoopType
<1>p. Posted' = Posted
  BY <1>l DEF Posted
<1>d. \A k \in Kinds, fd \in Fds, d \in Conns :
         clients'[k][fd] = d <=> clients[k][fd] = d /\ d # c
  <2>1. \A k \in Kinds, fd \in Fds : clients[k][fd] = c <=> k = "sse" /\ fd = lp.fd
    BY <1>a DEF ClientsInv
  <2>2. \A k \in Kinds, fd \in Fds :
           clients'[k][fd] = IF k = "sse" /\ fd = lp.fd THEN None ELSE clients[k][fd]
    BY DEF TypeOK, Tables, Kinds
  <2> QED BY <2>1, <2>2, Apart
<1>n. clients'["sse"][lp.fd] = None
  BY DEF TypeOK, Tables, Kinds
<1>r. \A k \in Kinds, fd \in Fds, d \in Conns :
         reg'[k][fd] = d => reg[k][fd] = d /\ d # c
  <2>1. \A k \in Kinds, fd \in Fds : reg[k][fd] = c => k = "sse" /\ fd = lp.fd
    BY <1>a DEF RegInv
  <2>2. \A k \in Kinds, fd \in Fds :
           reg'[k][fd] = IF k = "sse" /\ fd = lp.fd THEN None ELSE reg[k][fd]
    BY DEF TypeOK, Tables, Kinds
  <2> QED BY <2>1, <2>2, Apart
<1>1. SocketInv'
  BY DEF SocketInv
<1>2. \A d \in Conns : PlaceInv(d)'
  BY <1>c, <1>f DEF PlaceInv
<1>3. \A d \in Conns : TableInv(d)'
  BY DEF TableInv
<1>4. \A d \in Conns : ClientsInv(d)'
  <2> SUFFICES ASSUME NEW d \in Conns PROVE ClientsInv(d)'
    OBVIOUS
  <2>1. Mapped(d)' = Mapped(d) /\ Up(d)' = Up(d) OBVIOUS
  <2>2. Mapped(d) => kind[d] \in Kinds /\ num[d] \in Fds BY DEF PlaceInv
  <2>3. pc[c] \notin {"register", "unmap", "hold"} BY <1>c
  <2>4. open[d] /\ Up(d) /\ kind[d] = "ws" => clients'["ws"][num[d]] = d
    BY <1>a, <1>d, <2>2 DEF ClientsInv, Kinds
  <2> QED BY <1>a, <1>d, <1>f, <2>1, <2>2, <2>3, <2>4 DEF ClientsInv
<1>5. \A d \in Conns : RegInv(d)'
  BY <1>d, <1>r DEF RegInv
<1>6. \A d \in Conns : CauseInv(d)'
  BY <1>f DEF CauseInv
<1>7. \A a \in Actors : SendInv(a)'
  BY DEF SendInv
<1>8. \A d \in Conns : MutexInv(d)'
  <2>1. \A d \in Conns : Up(d) => kind[d] \in Kinds /\ num[d] \in Fds BY DEF PlaceInv
  <2> QED BY <1>d, <1>l, <2>1 DEF MutexInv
<1>9. \A d \in Conns : CarryInv(d)'
  BY <1>c, <1>f, <1>l, <1>p DEF CarryInv, Dying
<1>10. LoopInv'
  BY <1>a, <1>l, <1>p DEF LoopInv
<1>11. \A d \in Conns : EntryInv(d)'
  <2>1. lp.entry = c => (lp.ret = "again" => peer[c] = "gone") BY DEF EntryInv
  <2>2. EntryInv(c)' BY <1>a, <1>b, <1>l, <2>1 DEF EntryInv
  <2>3. \A d \in Conns : d # c => lp'.entry # d BY <1>b, <1>l, Apart
  <2> QED BY <2>2, <2>3 DEF EntryInv
<1>12. \A d \in Conns : DrainInv(d)'
  BY <1>a, <1>c, <1>f, <1>l, <1>n DEF DrainInv
<1> QED BY <1>1, <1>2, <1>3, <1>4, <1>5, <1>6, <1>7, <1>8, <1>9, <1>10, <1>11, <1>12

\* close_sse, whether it finds the connection or not.
LEMMA CloseSseKeeps ==
    ASSUME TypeOK, ConnInv, CloseSse
    PROVE  ConnInv'
<1> USE DEF ConnInv
<1>1. lp.at = "close_sse" /\ lp.fd # None /\ lp.fd \in Fds /\ ~lp.fire
  BY DEF CloseSse, LoopInv, TypeOK, LoopType, FdOrNone
<1>2. UNCHANGED <<num, open, peer, pc, kind, held, mutex, table, entryClosed, tasks, act>>
  BY DEF CloseSse, kernelVars
<1>3. CASE clients["sse"][lp.fd] # None
  <2>1. PICK c \in Conns : clients["sse"][lp.fd] = c
    BY <1>1, <1>3 DEF TypeOK, Tables, ConnOrNone, Kinds
  <2> QED BY <1>1, <1>2, <1>3, <2>1, CloseSseOwns DEF CloseSse
<1>4. CASE clients["sse"][lp.fd] = None
  <2>1. lp' = Returned /\ UNCHANGED <<clients, reg, closed, cause>> BY <1>4 DEF CloseSse
  <2>2. lp.entry = None <=> lp.ret = "batch" BY <1>1 DEF LoopInv
  <2>3. CASE lp.entry = None
    <3>1. lp' = Leave BY <2>1, <2>2, <2>3 DEF Returned
    <3>2. /\ LoopInv' /\ \A d \in Conns : EntryInv(d)'
          /\ Posted' \subseteq Posted /\ lp'.entry = None /\ lp'.at = "batch"
      BY <1>2, <3>1, LeavingKeeps
    <3> QED BY <1>1, <1>2, <2>1, <3>2, LoopMoves
  <2>4. CASE lp.entry # None
    <3>1. PICK e \in Conns : e = lp.entry /\ e # None
      BY <2>4 DEF TypeOK, LoopType, ConnOrNone
    <3>2. /\ num[e] = lp.fd /\ Up(e) /\ pc[e] \in {"arm", "done"} /\ kind[e] = "sse" /\ open[e]
          /\ lp.ret = "again" => peer[e] = "gone"
      BY <1>1, <3>1 DEF EntryInv
    <3>3. /\ lp'.at = lp.ret /\ lp'.fd = lp.fd /\ lp'.entry = e /\ lp'.conn = None
          /\ lp'.ret = lp.ret /\ ~lp'.fire /\ lp'.local = lp.local /\ lp.ret \in {"read", "again"}
      BY <2>1, <2>2, <2>4, <3>1, ReturnedIs DEF TypeOK, LoopType
    <3>4. Posted' \subseteq Posted BY <1>2, <3>1, <3>3 DEF Posted
    <3>5. LoopInv' BY <1>1, <3>1, <3>3, <3>4 DEF LoopInv
    <3>6. EntryInv(e)' BY <1>2, <1>4, <2>1, <3>2, <3>3 DEF EntryInv, Up
    <3>7. \A d \in Conns : EntryInv(d)' BY <3>3, <3>6 DEF EntryInv
    <3>8. \A d \in Conns : open[d] /\ pc[d] \notin Early /\ num[d] = lp'.fd => d = lp'.entry
      BY <3>1, <3>3 DEF CarryInv
    <3> QED BY <1>1, <1>2, <2>1, <3>3, <3>4, <3>5, <3>7, <3>8, LoopMoves
  <2> QED BY <2>3, <2>4
<1> QED BY <1>3, <1>4

-----------------------------------------------------------------------------
(***************************************************************************)
(* Types.                                                                  *)
(***************************************************************************)
LEMMA CloseNumberType ==
    ASSUME TypeOK, NEW fd, CloseNumber(fd)
    PROVE  /\ open' \in [Conns -> BOOLEAN] /\ inEpoll' \in [Conns -> BOOLEAN]
           /\ edge' \in [Conns -> BOOLEAN] /\ inbox' \in [Conns -> Seq(Nat)]
<1>1. /\ open \in [Conns -> BOOLEAN] /\ inEpoll \in [Conns -> BOOLEAN]
      /\ edge \in [Conns -> BOOLEAN] /\ inbox \in [Conns -> Seq(Nat)] /\ <<>> \in Seq(Nat)
  BY DEF TypeOK
<1>2. /\ open' = [c \in Conns |-> IF open[c] /\ num[c] = fd THEN FALSE ELSE open[c]]
      /\ inEpoll' = [c \in Conns |-> IF open[c] /\ num[c] = fd THEN FALSE ELSE inEpoll[c]]
      /\ edge' = [c \in Conns |-> IF open[c] /\ num[c] = fd THEN FALSE ELSE edge[c]]
      /\ inbox' = [c \in Conns |-> IF open[c] /\ num[c] = fd THEN <<>> ELSE inbox[c]]
  BY DEF CloseNumber
<1>3. open' \in [Conns -> BOOLEAN] BY <1>1, <1>2
<1>4. inEpoll' \in [Conns -> BOOLEAN] BY <1>1, <1>2
<1>5. edge' \in [Conns -> BOOLEAN] BY <1>1, <1>2
<1>6. inbox' \in [Conns -> Seq(Nat)] BY <1>1, <1>2
<1> QED BY <1>3, <1>4, <1>5, <1>6

\* close_fd keeps the types, ...
LEMMA CloseFdType ==
    ASSUME TypeOK, NEW fd \in Fds, CloseFd(fd)
    PROVE  /\ open' \in [Conns -> BOOLEAN] /\ inEpoll' \in [Conns -> BOOLEAN]
           /\ edge' \in [Conns -> BOOLEAN] /\ inbox' \in [Conns -> Seq(Nat)]
           /\ table' \in Tables /\ entryClosed' \in [Conns -> BOOLEAN]
<1>1. CASE table[fd] = None BY <1>1 DEF CloseFd, TypeOK
<1>2. CASE table[fd] # None
  <2>1. CloseNumber(fd) BY <1>2 DEF CloseFd
  <2>2. table' \in Tables /\ entryClosed' \in [Conns -> BOOLEAN]
    BY <1>2 DEF CloseFd, TypeOK, Tables, ConnOrNone
  <2> QED BY <2>1, <2>2, CloseNumberType
<1> QED BY <1>1, <1>2

\* ... so does one frame, ...
LEMMA AssembleType ==
    ASSUME TypeOK, NEW c \in Conns, NEW i \in Nat
    PROVE  Assemble(c, i).msg \in Seq(Nat) /\ Assemble(c, i).frag \in Seq(Nat)
<1>1. frag[c] \in Seq(Nat) /\ Append(frag[c], i) \in Seq(Nat) /\ <<i>> \in Seq(Nat)
      /\ <<>> \in Seq(Nat)
  BY DEF TypeOK
<1> QED BY <1>1 DEF Assemble

\* ... setting closed, ...
LEMMA SetClosedType ==
    ASSUME TypeOK, NEW c \in Conns, NEW why \in Causes, SetClosed(c, why)
    PROVE  closed' \in [Conns -> BOOLEAN] /\ cause' \in [Conns -> Causes]
  BY DEF SetClosed, TypeOK

\* ... a write, ...
LEMMA WriteDataType ==
    ASSUME TypeOK, SocketInv, NEW c \in Conns, NEW w \in {"data", "bye"}, WriteData(c, w)
    PROVE  stray' \in SUBSET (Conns \X ConnOrNone \X {"data", "bye"})
<1>1. Owner(num[c]) \in ConnOrNone BY OwnerIs
<1> QED BY <1>1 DEF WriteData, TypeOK

\* ... and the return from close_ws or close_sse.
LEMMA ReturnedType ==
    ASSUME TypeOK
    PROVE  Returned \in LoopType
<1>1. CASE lp.ret = "batch" BY <1>1, LeaveIs DEF Returned
<1>2. CASE lp.ret # "batch" BY <1>2, ReturnedIs
<1> QED BY <1>1, <1>2

\* The steps of clients and workers, ...
LEMMA WorkerType ==
    ASSUME TypeOK, ConnInv, NEW c \in Conns,
           Accept(c) \/ ClientSends(c) \/ ClientLeaves(c) \/ WorkerStep(c)
    PROVE  TypeOK'
<1> USE DEF kernelVars, connVars, loopVars, history, Goto
<1>1. CASE Accept(c) BY <1>1 DEF Accept, TypeOK, FdOrNone, Places
<1>2. CASE ClientSends(c)
  <2>1. PICK s \in Talk[c][kind[c]] : sent' = [sent EXCEPT ![c] = SubSeq(s, 1, Len(@) + 1)]
                                      /\ Len(s) > Len(sent[c])
    BY <1>2 DEF ClientSends
  <2>2. kind[c] \in Kinds
    BY <1>2 DEF ClientSends, ConnInv, PlaceInv, Mapped, Up
  <2>3. s \in Seq(FrameKinds) /\ Len(sent[c]) \in Nat /\ Len(s) \in Nat
    <3>1. Talk[c][kind[c]] \in SUBSET Seq(FrameKinds) BY <2>2, HttpAssumption
    <3>2. sent[c] \in Seq(FrameKinds) BY DEF TypeOK
    <3> QED BY <2>1, <3>1, <3>2
  <2>4. SubSeq(s, 1, Len(sent[c]) + 1) \in Seq(FrameKinds) BY <2>1, <2>3
  <2>5. sent' \in [Conns -> Seq(FrameKinds)] BY <2>1, <2>4 DEF TypeOK
  <2>6. inbox' \in [Conns -> Seq(Nat)] BY <1>2, <2>3 DEF ClientSends, TypeOK
  <2> QED BY <1>2, <2>5, <2>6 DEF ClientSends, TypeOK
<1>3. CASE ClientLeaves(c) BY <1>3 DEF ClientLeaves, TypeOK
<1>4. CASE HandleConnection(c)
  <2>1. /\ open' \in [Conns -> BOOLEAN] /\ inEpoll' \in [Conns -> BOOLEAN]
        /\ edge' \in [Conns -> BOOLEAN] /\ inbox' \in [Conns -> Seq(Nat)] /\ ipConns' \in Nat
    <3>1. CASE ipConns >= IpLimit BY <1>4, <3>1, CloseNumberType DEF HandleConnection, TypeOK
    <3>2. CASE ~(ipConns >= IpLimit) BY <1>4, <3>2 DEF HandleConnection, TypeOK
    <3> QED BY <3>1, <3>2
  <2>2. pc' \in [Conns -> Places]
    <3>1. \E p \in {"done", "request"} : pc' = [pc EXCEPT ![c] = p]
      BY <1>4 DEF HandleConnection
    <3> QED BY <3>1 DEF TypeOK, Places
  <2> QED BY <1>4, <2>1, <2>2 DEF HandleConnection, TypeOK
<1>5. CASE ServeRequest(c) BY <1>5, WriteDataType DEF ServeRequest, TypeOK, ConnInv
<1>6. CASE EndRequest(c) BY <1>6, CloseNumberType DEF EndRequest, TypeOK, Places
<1>7. CASE Upgrade(c)
  <2>1. PICK k \in Kinds :
           /\ kind' = [kind EXCEPT ![c] = k]
           /\ \/ CloseNumber(num[c]) /\ pc' = [pc EXCEPT ![c] = "release"]
              \/ pc' = [pc EXCEPT ![c] = "map"] /\ UNCHANGED <<open, inEpoll, edge, inbox>>
    BY <1>7 DEF Upgrade
  <2>2. /\ open' \in [Conns -> BOOLEAN] /\ inEpoll' \in [Conns -> BOOLEAN]
        /\ edge' \in [Conns -> BOOLEAN] /\ inbox' \in [Conns -> Seq(Nat)]
    BY <2>1, CloseNumberType DEF TypeOK
  <2>3. pc' \in [Conns -> Places] BY <2>1 DEF TypeOK, Places
  <2>4. kind' \in [Conns -> Kinds \cup {None}] BY <2>1 DEF TypeOK
  <2> QED BY <1>7, <2>2, <2>3, <2>4 DEF Upgrade, TypeOK
<1>8. CASE MapInsert(c)
  <2>1. kind[c] \in Kinds /\ num[c] \in Fds BY <1>8 DEF MapInsert, ConnInv, PlaceInv
  <2>2. clients' \in [Kinds -> Tables] BY <1>8, <2>1 DEF MapInsert, TypeOK, Tables, ConnOrNone
  <2>3. buf' \in [Fds -> Seq(Nat)] BY <1>8, <2>1 DEF MapInsert, TypeOK
  <2> QED BY <1>8, <2>2, <2>3 DEF MapInsert, TypeOK, Places
<1>9. CASE Register(c)
  <2>1. kind[c] \in Kinds /\ num[c] \in Fds BY <1>9 DEF Register, ConnInv, PlaceInv, Mapped
  <2>2. reg' \in [Kinds -> Tables]
    <3>1. reg \in [Kinds -> Tables] BY DEF TypeOK
    <3>2. reg' = reg \/ reg' = [reg EXCEPT ![kind[c]][num[c]] = c] BY <1>9 DEF Register
    <3> QED BY <2>1, <3>1, <3>2 DEF Tables, ConnOrNone
  <2> QED BY <1>9, <2>2 DEF Register, TypeOK, Places
<1>10. CASE Unmap(c)
  <2>1. kind[c] \in Kinds /\ num[c] \in Fds BY <1>10 DEF Unmap, ConnInv, PlaceInv, Mapped
  <2>2. clients' \in [Kinds -> Tables] BY <1>10, <2>1 DEF Unmap, TypeOK, Tables, ConnOrNone
  <2>3. buf' \in [Fds -> Seq(Nat)] BY <1>10, <2>1 DEF Unmap, TypeOK
  <2> QED BY <1>10, <2>2, <2>3, CloseNumberType DEF Unmap, TypeOK, Places
<1>11. CASE MoveSlot(c) BY <1>11 DEF MoveSlot, TypeOK, Places
<1>12. CASE AddClient(c) BY <1>12 DEF AddClient, TypeOK, Places, Tables, ConnOrNone
<1>13. CASE EpollAdd(c) BY <1>13 DEF EpollAdd, TypeOK, Places
<1>14. CASE ReleaseSlot(c) BY <1>14, SMTT(30) DEF ReleaseSlot, IpRelease, TypeOK, Places
<1> QED
  BY <1>1, <1>2, <1>3, <1>4, <1>5, <1>6, <1>7, <1>8, <1>9, <1>10, <1>11, <1>12, <1>13, <1>14
     DEF WorkerStep

\* ... of scripts ...
LEMMA ActorType ==
    ASSUME TypeOK, ConnInv, NEW a \in Actors, BeginSend(a) \/ CloseConn(a) \/ ActorStep(a)
    PROVE  TypeOK'
<1> USE DEF kernelVars, connVars, loopVars, history
<1>1. CASE BeginSend(a)
  <2>1. PICK todo \in SUBSET Conns : act' = [act EXCEPT ![a] = Rest(todo)]
    <3>1. {reg["ws"][fd] : fd \in Fds} \ {None} \in SUBSET Conns
      <4>1. reg["ws"] \in [Fds -> Conns \cup {None}] BY DEF TypeOK, Tables, ConnOrNone, Kinds
      <4> QED BY <4>1
    <3>2. \A c \in Conns : {c} \in SUBSET Conns OBVIOUS
    <3> QED BY <1>1, <3>1, <3>2 DEF BeginSend
  <2>2. act' \in [Actors -> ActType] BY <2>1, RestIs DEF TypeOK
  <2> QED BY <1>1, <2>2 DEF BeginSend, TypeOK
<1>2. CASE SendLock(a)
  <2>1. PICK c \in act[a].todo :
           IF closed[c] THEN act' = [act EXCEPT ![a] = Rest(@.todo \ {c})] /\ UNCHANGED mutex
           ELSE /\ mutex' = [mutex EXCEPT ![c] = a]
                /\ act' = [act EXCEPT ![a] = [at |-> "write", todo |-> @.todo \ {c}, conn |-> c]]
    BY <1>2 DEF SendLock
  <2>2. c \in Conns /\ act[a].todo \ {c} \in SUBSET Conns BY DEF TypeOK, ActType
  <2>3. Rest(act[a].todo \ {c}) \in ActType BY <2>2, RestIs
  <2>4. act' \in [Actors -> ActType]
    <3>1. [at |-> "write", todo |-> act[a].todo \ {c}, conn |-> c] \in ActType
      BY <2>2 DEF ActType, ConnOrNone
    <3>2. act \in [Actors -> ActType] BY DEF TypeOK
    <3> QED BY <2>1, <2>3, <3>1, <3>2
  <2>5. mutex' \in [Conns -> Actors \cup {None}] BY <2>1 DEF TypeOK
  <2> QED BY <1>2, <2>4, <2>5 DEF SendLock, TypeOK
<1>3. CASE SendWrite(a)
  <2>1. act[a].conn \in Conns BY <1>3 DEF SendWrite, ConnInv, SendInv
  <2>2. stray' \in SUBSET (Conns \X ConnOrNone \X {"data", "bye"})
    BY <1>3, <2>1, WriteDataType DEF SendWrite, TypeOK, ConnInv
  <2>3. closed' \in [Conns -> BOOLEAN] /\ cause' \in [Conns -> Causes]
    BY <1>3, <2>1, SetClosedType DEF SendWrite, TypeOK, Causes
  <2>4. act' \in [Actors -> ActType] BY <1>3, RestIs DEF SendWrite, TypeOK, ActType
  <2>5. mutex' \in [Conns -> Actors \cup {None}] BY <1>3 DEF SendWrite, TypeOK
  <2> QED BY <1>3, <2>2, <2>3, <2>4, <2>5 DEF SendWrite, TypeOK
<1>4. CASE CloseConn(a)
  <2>1. PICK c \in Conns :
           /\ SetClosed(c, "server")
           /\ IF kind[c] = "sse" THEN tasks' = Append(tasks, num[c]) /\ UNCHANGED act
              ELSE /\ act' = [act EXCEPT ![a] = [at |-> "bye", todo |-> {}, conn |-> c]]
                   /\ UNCHANGED tasks
    BY <1>4 DEF CloseConn
  <2>2. closed' \in [Conns -> BOOLEAN] /\ cause' \in [Conns -> Causes]
    BY <2>1, SetClosedType DEF Causes
  <2>3. tasks' \in Seq(FdOrNone)
    <3>1. tasks \in Seq(FdOrNone) /\ num[c] \in FdOrNone BY DEF TypeOK
    <3>2. Append(tasks, num[c]) \in Seq(FdOrNone) BY <3>1
    <3> QED BY <2>1, <3>1, <3>2
  <2>4. act' \in [Actors -> ActType]
    <3>1. [at |-> "bye", todo |-> {}, conn |-> c] \in ActType BY DEF ActType, ConnOrNone
    <3>2. act \in [Actors -> ActType] BY DEF TypeOK
    <3> QED BY <2>1, <3>1, <3>2
  <2> QED BY <1>4, <2>2, <2>3, <2>4 DEF CloseConn, TypeOK
<1>5. CASE CloseFrame(a)
  <2>1. act[a].conn \in Conns BY <1>5 DEF CloseFrame, ConnInv, SendInv
  <2>2. stray' \in SUBSET (Conns \X ConnOrNone \X {"data", "bye"})
    BY <1>5, <2>1, WriteDataType DEF CloseFrame, TypeOK, ConnInv
  <2>3. act' \in [Actors -> ActType]
    BY <1>5 DEF CloseFrame, ActIdle, TypeOK, ActType, ConnOrNone
  <2> QED BY <1>5, <2>2, <2>3 DEF CloseFrame, TypeOK
<1> QED BY <1>1, <1>2, <1>3, <1>4, <1>5 DEF ActorStep

\* What the loop reads, and from whom.
LEMMA ReadSomeIs ==
    ASSUME TypeOK, ConnInv, NEW n \in DOMAIN Unread, ReadSome(n)
    PROVE  \E e \in Conns :
              /\ lp.entry = e /\ Unread = inbox[e] /\ n \in 1 .. Len(inbox[e]) /\ lp.fd \in Fds
              /\ num[e] = lp.fd /\ open[e]
              /\ inbox' = [inbox EXCEPT ![e] = SubSeq(@, n + 1, Len(@))]
              /\ SubSeq(inbox[e], n + 1, Len(inbox[e])) \in Seq(Nat)
              /\ SubSeq(inbox[e], 1, n) \in Seq(Nat)
<1>1. PICK e \in Conns : /\ lp.entry = e /\ e # None /\ Owner(lp.fd) = e /\ lp.fd \in Fds
                         /\ num[e] = lp.fd /\ open[e]
  BY ReadEntry DEF ReadSome
<1>2. Unread = inbox[e] BY <1>1 DEF Unread
<1>3. inbox[e] \in Seq(Nat) BY DEF TypeOK
<1>4. n \in 1 .. Len(inbox[e]) BY <1>2, <1>3
<1>5. /\ SubSeq(inbox[e], n + 1, Len(inbox[e])) \in Seq(Nat)
      /\ SubSeq(inbox[e], 1, n) \in Seq(Nat)
  BY <1>3, <1>4
<1> QED BY <1>1, <1>2, <1>4, <1>5 DEF ReadSome

\* async_read keeps the type of edge.
LEMMA AsyncReadType ==
    ASSUME TypeOK, NEW fd \in Fds, AsyncRead(fd)
    PROVE  edge' \in [Conns -> BOOLEAN]
  BY DEF AsyncRead, TypeOK

\* ... and of the loop.
LEMMA LoopStepType ==
    ASSUME TypeOK, ConnInv, LoopStep
    PROVE  TypeOK'
<1> USE DEF kernelVars, connVars, loopVars, history
<1>0. lp \in LoopType /\ tasks \in Seq(FdOrNone) BY DEF TypeOK
<1>1. CASE EpollWait
  <2>1. \A c \in Reported : num[c] \in Fds BY DEF Reported, ConnInv, SocketInv
  <2>2. lp' \in LoopType
    <3>1. lp' = [lp EXCEPT !.batch = {num[c] : c \in Reported}, !.wake = tasks # <<>>]
      BY <1>1 DEF EpollWait
    <3>2. {num[c] : c \in Reported} \in SUBSET Fds BY <2>1
    <3>3. (tasks # <<>>) \in BOOLEAN OBVIOUS
    <3> QED BY <1>0, <3>1, <3>2, <3>3 DEF LoopType
  <2> QED BY <1>1, <2>2 DEF EpollWait, TypeOK
<1>2. CASE TakeTasks
  <2>1. lp' = [lp EXCEPT !.wake = FALSE, !.local = tasks] /\ tasks' = <<>>
    BY <1>2 DEF TakeTasks
  <2>2. lp' \in LoopType BY <1>0, <2>1 DEF LoopType
  <2>3. tasks' \in Seq(FdOrNone) BY <2>1
  <2> QED BY <1>2, <2>2, <2>3 DEF TakeTasks, TypeOK
<1>3. CASE RunTask
  <2>1. lp.local \in Seq(FdOrNone) /\ lp.local # <<>> BY <1>3 DEF RunTask, TypeOK, LoopType
  <2>2. Head(lp.local) \in FdOrNone /\ Tail(lp.local) \in Seq(FdOrNone) BY <2>1
  <2>3. lp' \in LoopType BY <1>3, <2>2 DEF RunTask, TypeOK, LoopType, LoopPlaces
  <2> QED BY <1>3, <2>3 DEF RunTask, TypeOK
<1>4. CASE NextEvent
  <2>1. lp' \in LoopType
    <3>1. PICK fd \in lp.batch :
             lp' = IF table[fd] = None THEN [lp EXCEPT !.batch = @ \ {fd}]
                   ELSE [lp EXCEPT !.at = "read", !.batch = @ \ {fd}, !.fd = fd, !.entry = table[fd]]
      BY <1>4 DEF NextEvent
    <3>2. lp.batch \in SUBSET Fds /\ lp.batch \ {fd} \in SUBSET Fds /\ fd \in FdOrNone
      BY <1>0 DEF LoopType, FdOrNone
    <3>3. table[fd] \in ConnOrNone BY <3>2 DEF TypeOK, Tables
    <3> QED BY <1>0, <3>1, <3>2, <3>3 DEF LoopType, LoopPlaces
  <2> QED BY <1>4, <2>1 DEF NextEvent, TypeOK
<1>5. CASE ReadDone BY <1>5, LeaveIs DEF ReadDone, TypeOK
<1>6. CASE CloseAgain
  <2>1. lp.fd \in Fds
    BY <1>6 DEF CloseAgain, ConnInv, LoopInv, TypeOK, LoopType, FdOrNone
  <2> QED BY <1>6, <2>1, LeaveIs, CloseFdType DEF CloseAgain, TypeOK
<1>7. CASE WsData
  <2>1. PICK n \in DOMAIN Unread :
          /\ ReadSome(n)
          /\ \/ UNCHANGED <<buf, lp>>
             \/ /\ clients["ws"][lp.fd] # None
                /\ buf' = [buf EXCEPT ![lp.fd] = @ \o SubSeq(Unread, 1, n)]
                /\ lp' = [lp EXCEPT !.at = IF closed[clients["ws"][lp.fd]]
                                           THEN "close_ws" ELSE "frames",
                                    !.conn = clients["ws"][lp.fd], !.ret = "read"]
    BY <1>7 DEF WsData
  <2>2. PICK e \in Conns :
              /\ lp.entry = e /\ Unread = inbox[e] /\ lp.fd \in Fds
              /\ inbox' = [inbox EXCEPT ![e] = SubSeq(@, n + 1, Len(@))]
              /\ SubSeq(inbox[e], n + 1, Len(inbox[e])) \in Seq(Nat)
              /\ SubSeq(inbox[e], 1, n) \in Seq(Nat)
    BY <2>1, ReadSomeIs
  <2>3. inbox' \in [Conns -> Seq(Nat)] BY <2>2 DEF TypeOK
  <2>4. buf' \in [Fds -> Seq(Nat)]
    <3>1. buf \in [Fds -> Seq(Nat)] BY DEF TypeOK
    <3>2. buf[lp.fd] \o SubSeq(inbox[e], 1, n) \in Seq(Nat) BY <2>2, <3>1
    <3> QED BY <2>1, <2>2, <3>1, <3>2
  <2>5. clients["ws"][lp.fd] \in ConnOrNone BY <2>2 DEF TypeOK, Tables, Kinds
  <2>6. lp' \in LoopType
    <3>1. PICK p \in {"close_ws", "frames"} :
             lp' = lp \/ lp' = [lp EXCEPT !.at = p, !.conn = clients["ws"][lp.fd], !.ret = "read"]
      BY <2>1
    <3> QED BY <1>0, <2>5, <3>1 DEF LoopType, LoopPlaces
  <2> QED BY <1>7, <2>3, <2>4, <2>6 DEF WsData, TypeOK
<1>8. CASE WsFrame
  <2>1. PICK e \in Conns : lp.conn = e /\ lp.fd \in Fds BY <1>8, FrameEntry DEF WsFrame
  <2>2. /\ buf[lp.fd] \in Seq(Nat) /\ buf[lp.fd] # <<>> BY <1>8, <2>1 DEF WsFrame, Decodable, TypeOK
  <2>3. Head(buf[lp.fd]) \in Nat /\ Tail(buf[lp.fd]) \in Seq(Nat) BY <2>2
  <2> DEFINE i == Head(buf[lp.fd])
             r == Assemble(e, i)
  <2>4. r.msg \in Seq(Nat) /\ r.frag \in Seq(Nat) BY <2>3, AssembleType
  <2> HIDE DEF r
  <2>5. buf' \in [Fds -> Seq(Nat)] BY <1>8, <2>1, <2>3 DEF WsFrame, TypeOK
  <2>6. \/ UNCHANGED <<frag, delivered>>
        \/ /\ frag' = [frag EXCEPT ![e] = r.frag]
           /\ delivered' = IF r.msg = <<>> THEN delivered
                           ELSE [delivered EXCEPT ![e] = Append(@, r.msg)]
    BY <1>8, <2>1 DEF WsFrame, r
  <2>7. frag' \in [Conns -> Seq(Nat)] BY <2>4, <2>6 DEF TypeOK
  <2>8. delivered' \in [Conns -> Seq(Seq(Nat))]
    <3>1. delivered \in [Conns -> Seq(Seq(Nat))] BY DEF TypeOK
    <3>2. Append(delivered[e], r.msg) \in Seq(Seq(Nat)) BY <2>4, <3>1
    <3> QED BY <2>6, <3>1, <3>2
  <2>9. closed' \in [Conns -> BOOLEAN] /\ cause' \in [Conns -> Causes]
    BY <1>8, <2>1, FrameIs, SetClosedType DEF TypeOK, Causes
  <2>10. lp' \in LoopType
    <3>1. lp' = lp \/ lp' = [lp EXCEPT !.at = "after"] \/ lp' = [lp EXCEPT !.at = "close_ws"]
      BY <1>8, FrameIs
    <3> QED BY <3>1, ZenonT(60) DEF TypeOK, LoopType, LoopPlaces
  <2>11. fired' \in [Conns -> Nat]
    <3>1. fired' = fired \/ fired' = [fired EXCEPT ![e] = @ + 1] BY <1>8, <2>1, FrameIs
    <3>2. fired \in [Conns -> Nat] BY DEF TypeOK
    <3> QED BY <3>1, <3>2
  <2>12. stray' \in SUBSET (Conns \X ConnOrNone \X {"data", "bye"})
    <3>1. stray' = stray \/ WriteData(e, "data") BY <1>8, <2>1 DEF WsFrame, Answer
    <3> QED BY <2>1, <3>1, WriteDataType DEF TypeOK, ConnInv
  <2> QED BY <1>8, <2>5, <2>7, <2>8, <2>9, <2>10, <2>11, <2>12 DEF WsFrame, TypeOK
<1>9. CASE WsFramesDone
  <2>1. lp.fd \in Fds BY <1>9, FrameEntry DEF WsFramesDone
  <2>2. edge' \in [Conns -> BOOLEAN] BY <1>9, <2>1, AsyncReadType DEF WsFramesDone, TypeOK
  <2>3. lp' \in LoopType
    <3>1. lp' = [lp EXCEPT !.at = "close_ws"] \/ lp' = [lp EXCEPT !.at = "read", !.conn = None]
      BY <1>9 DEF WsFramesDone, To
    <3> QED BY <1>0, <3>1 DEF LoopType, LoopPlaces, ConnOrNone
  <2> QED BY <1>9, <2>2, <2>3 DEF WsFramesDone, TypeOK
<1>10. CASE WsEof
  <2>1. lp.fd \in Fds BY <1>10, ReadEntry DEF WsEof, ReadEnd
  <2>2. clients["ws"][lp.fd] \in ConnOrNone BY <2>1 DEF TypeOK, Tables, Kinds
  <2>3. lp' \in LoopType BY <1>10 DEF WsEof, TypeOK, LoopType, LoopPlaces
  <2>4. closed' \in [Conns -> BOOLEAN] /\ cause' \in [Conns -> Causes]
    BY <1>10, <2>2, SetClosedType DEF WsEof, TypeOK, Causes, ConnOrNone
  <2>5. fired' \in [Conns -> Nat]
    <3>1. fired \in [Conns -> Nat] BY DEF TypeOK
    <3>2. fired' = fired \/ \E c \in Conns : fired' = [fired EXCEPT ![c] = @ + 1]
      BY <1>10, <2>2 DEF WsEof, ConnOrNone
    <3> QED BY <3>1, <3>2
  <2> QED BY <1>10, <2>3, <2>4, <2>5 DEF WsEof, TypeOK
<1>11. CASE CloseWs
  <2>1. lp.fd \in Fds BY <1>11, FrameEntry DEF CloseWs
  <2>2. clients["ws"][lp.fd] \in ConnOrNone BY <2>1 DEF TypeOK, Tables, Kinds
  <2>3. lp' \in LoopType BY <1>11, <2>2 DEF CloseWs, TypeOK, LoopType, LoopPlaces
  <2>4. closed' \in [Conns -> BOOLEAN] /\ cause' \in [Conns -> Causes]
    BY <1>11, <2>2, SetClosedType DEF CloseWs, TypeOK, Causes, ConnOrNone
  <2>5. clients' \in [Kinds -> Tables] BY <1>11, <2>1 DEF CloseWs, TypeOK, Tables, ConnOrNone, Kinds
  <2>6. buf' \in [Fds -> Seq(Nat)] BY <1>11, <2>1 DEF CloseWs, TypeOK
  <2>7. ipConns' \in Nat BY <1>11 DEF CloseWs, IpRelease, TypeOK
  <2> QED BY <1>11, <2>3, <2>4, <2>5, <2>6, <2>7 DEF CloseWs, TypeOK
<1>12. CASE DrainWs
  <2>1. lp.fd \in Fds BY <1>12, FrameEntry DEF DrainWs
  <2>2. reg' \in [Kinds -> Tables] BY <1>12, <2>1 DEF DrainWs, TypeOK, Tables, ConnOrNone, Kinds
  <2> QED BY <1>12, <2>1, <2>2, CloseFdType, ReturnedType DEF DrainWs, TypeOK
<1>13. CASE SseData
  <2>1. PICK n \in DOMAIN Unread : ReadSome(n) BY <1>13 DEF SseData
  <2>2. PICK e \in Conns :
              /\ inbox' = [inbox EXCEPT ![e] = SubSeq(@, n + 1, Len(@))] /\ lp.fd \in Fds
              /\ SubSeq(inbox[e], n + 1, Len(inbox[e])) \in Seq(Nat)
    BY <2>1, ReadSomeIs
  <2>3. inbox' \in [Conns -> Seq(Nat)] BY <2>2 DEF TypeOK
  <2>4. edge' \in [Conns -> BOOLEAN] BY <1>13, <2>2, AsyncReadType DEF SseData, TypeOK
  <2>5. lp' \in LoopType
    <3>1. lp' = lp \/ lp' = [lp EXCEPT !.at = "close_sse", !.ret = "read"] BY <1>13 DEF SseData
    <3> QED BY <1>0, <3>1 DEF LoopType, LoopPlaces
  <2> QED BY <1>13, <2>3, <2>4, <2>5 DEF SseData, TypeOK
<1>14. CASE SseEof
  <2>1. lp' \in LoopType BY <1>14 DEF SseEof, TypeOK, LoopType, LoopPlaces
  <2> QED BY <1>14, <2>1 DEF SseEof, TypeOK
<1>15. CASE CloseSse
  <2>1. lp.fd \in Fds BY <1>15 DEF CloseSse, ConnInv, LoopInv, TypeOK, LoopType, FdOrNone
  <2>2. clients["sse"][lp.fd] \in ConnOrNone BY <2>1 DEF TypeOK, Tables, Kinds
  <2>3. CASE clients["sse"][lp.fd] = None
    BY <1>15, <2>3, ReturnedType DEF CloseSse, TypeOK
  <2>4. CASE clients["sse"][lp.fd] # None
    <3>1. PICK c \in Conns : c = clients["sse"][lp.fd] BY <2>2, <2>4 DEF ConnOrNone
    <3>2. lp' = [lp EXCEPT !.at = "drain_sse", !.conn = c, !.fire = ~closed[c]]
      BY <1>15, <2>4, <3>1 DEF CloseSse
    <3>3. lp' \in LoopType BY <3>2 DEF TypeOK, LoopType, LoopPlaces, ConnOrNone
    <3>4. closed' \in [Conns -> BOOLEAN] /\ cause' \in [Conns -> Causes]
      BY <1>15, <2>4, <3>1, SetClosedType DEF CloseSse, Causes
    <3>5. clients' \in [Kinds -> Tables] /\ reg' \in [Kinds -> Tables]
      <4>1. /\ clients' = [clients EXCEPT !["sse"][lp.fd] = None]
            /\ reg' = [reg EXCEPT !["sse"][lp.fd] = None]
        BY <1>15, <2>4 DEF CloseSse
      <4>2. clients \in [Kinds -> Tables] /\ reg \in [Kinds -> Tables] BY DEF TypeOK
      <4>3. clients' \in [Kinds -> Tables] BY <2>1, <4>1, <4>2 DEF Tables, ConnOrNone, Kinds
      <4>4. reg' \in [Kinds -> Tables] BY <2>1, <4>1, <4>2 DEF Tables, ConnOrNone, Kinds
      <4> QED BY <4>3, <4>4
    <3>6. ipConns' \in Nat BY <1>15, <2>4 DEF CloseSse, IpRelease, TypeOK
    <3> QED BY <1>15, <3>3, <3>4, <3>5, <3>6 DEF CloseSse, TypeOK
  <2> QED BY <2>3, <2>4
<1>16. CASE DrainSse
  <2>1. lp.fd \in Fds /\ lp.conn \in Conns
    BY <1>16 DEF DrainSse, ConnInv, LoopInv, TypeOK, LoopType, FdOrNone, ConnOrNone
  <2>2. fired' \in [Conns -> Nat] BY <1>16, <2>1 DEF DrainSse, TypeOK
  <2> QED BY <1>16, <2>1, <2>2, CloseFdType, ReturnedType DEF DrainSse, TypeOK
<1> QED
  BY <1>1, <1>2, <1>3, <1>4, <1>5, <1>6, <1>7, <1>8, <1>9, <1>10, <1>11, <1>12, <1>13, <1>14,
     <1>15, <1>16 DEF LoopStep

-----------------------------------------------------------------------------
(***************************************************************************)
(* The invariant holds of every behaviour.                                 *)
(***************************************************************************)
LEMMA WorkerKeeps ==
    ASSUME ~raced', TypeOK, ConnInv, NEW c \in Conns,
           Accept(c) \/ ClientSends(c) \/ ClientLeaves(c) \/ WorkerStep(c)
    PROVE  ConnInv'
<1>1. CASE Accept(c) BY <1>1, AcceptKeeps
<1>2. CASE ClientSends(c)
  BY <1>2, PeerKeeps DEF ClientSends, connVars, loopVars, history
<1>3. CASE ClientLeaves(c)
  <2>1. \A d \in Conns : peer[d] = "gone" => peer'[d] = "gone" BY <1>3 DEF ClientLeaves, TypeOK
  <2> QED BY <1>3, <2>1, PeerKeeps DEF ClientLeaves, connVars, loopVars, history
<1>4. CASE HandleConnection(c)
  <2>1. /\ pc[c] = "accepted" /\ open[c] /\ SocketInv /\ kind[c] \in Kinds \cup {None}
        /\ kind' = [kind EXCEPT ![c] = kind[c]] /\ open[c] \in BOOLEAN
        /\ open = [open EXCEPT ![c] = open[c]]
        /\ UNCHANGED <<num, peer, held, clients, reg, closed, mutex, table, entryClosed, tasks,
                       lp, act, cause>>
    BY <1>4 DEF HandleConnection, ConnInv, PlaceInv, Early, TypeOK, connVars, loopVars, history
  <2>2. CASE CloseNumber(num[c]) /\ pc' = [pc EXCEPT ![c] = "done"]
    <3>1. open' = [open EXCEPT ![c] = FALSE] BY <2>1, <2>2, CloseOwn DEF SocketGone
    <3> QED BY <2>1, <2>2, <3>1, BeforeMap DEF Places
  <2>3. CASE open' = open /\ pc' = [pc EXCEPT ![c] = "request"]
    BY <2>1, <2>3, BeforeMap DEF Places
  <2> QED BY <1>4, <2>2, <2>3 DEF HandleConnection, Goto
<1>5. CASE ServeRequest(c)
  BY <1>5, PeerKeeps DEF ServeRequest, kernelVars, connVars, loopVars
<1>6. CASE EndRequest(c)
  <2>1. /\ pc[c] = "request" /\ open[c] /\ SocketInv /\ kind[c] \in Kinds \cup {None}
        /\ kind' = [kind EXCEPT ![c] = kind[c]]
        /\ CloseNumber(num[c]) /\ pc' = [pc EXCEPT ![c] = "release"]
        /\ UNCHANGED <<num, peer, held, clients, reg, closed, mutex, table, entryClosed, tasks,
                       lp, act, cause>>
    BY <1>6 DEF EndRequest, Goto, ConnInv, PlaceInv, Early, TypeOK, connVars, loopVars, history
  <2>2. open' = [open EXCEPT ![c] = FALSE] BY <2>1, CloseOwn DEF SocketGone
  <2> QED BY <2>1, <2>2, BeforeMap DEF Places
<1>7. CASE Upgrade(c)
  <2>1. /\ pc[c] = "request" /\ open[c] /\ SocketInv /\ open[c] \in BOOLEAN
        /\ open = [open EXCEPT ![c] = open[c]]
        /\ UNCHANGED <<num, peer, held, clients, reg, closed, mutex, table, entryClosed, tasks,
                       lp, act, cause>>
    BY <1>7 DEF Upgrade, ConnInv, PlaceInv, Early, TypeOK, connVars, loopVars, history
  <2>2. PICK k \in Kinds :
           /\ kind' = [kind EXCEPT ![c] = k]
           /\ \/ CloseNumber(num[c]) /\ pc' = [pc EXCEPT ![c] = "release"]
              \/ pc' = [pc EXCEPT ![c] = "map"] /\ open' = open
    BY <1>7 DEF Upgrade, Goto
  <2>3. CASE CloseNumber(num[c]) /\ pc' = [pc EXCEPT ![c] = "release"]
    <3>1. open' = [open EXCEPT ![c] = FALSE] BY <2>1, <2>3, CloseOwn DEF SocketGone
    <3> QED BY <2>1, <2>2, <2>3, <3>1, BeforeMap DEF Places
  <2>4. CASE open' = open /\ pc' = [pc EXCEPT ![c] = "map"]
    BY <2>1, <2>2, <2>4, BeforeMap DEF Places
  <2> QED BY <2>2, <2>3, <2>4
<1>8. CASE MapInsert(c) BY <1>8, MapInsertKeeps
<1>9. CASE Register(c) BY <1>9, RegisterKeeps
<1>10. CASE Unmap(c) BY <1>10, UnmapKeeps
<1>11. CASE MoveSlot(c) BY <1>11, MoveSlotKeeps
<1>12. CASE AddClient(c) BY <1>12, AddClientKeeps
<1>13. CASE EpollAdd(c) BY <1>13, EpollAddKeeps
<1>14. CASE ReleaseSlot(c)
  <2>1. /\ pc[c] = "release" /\ ~open[c] /\ kind[c] \in Kinds \cup {None}
        /\ kind' = [kind EXCEPT ![c] = kind[c]] /\ open' = [open EXCEPT ![c] = FALSE]
        /\ pc' = [pc EXCEPT ![c] = "done"]
        /\ UNCHANGED <<num, peer, held, clients, reg, closed, mutex, table, entryClosed, tasks,
                       lp, act, cause>>
    <3>1. pc[c] = "release" /\ ~open[c] BY <1>14 DEF ReleaseSlot, ConnInv, PlaceInv
    <3>2. [open EXCEPT ![c] = FALSE] = open BY <3>1 DEF TypeOK
    <3> QED BY <1>14, <3>1, <3>2
            DEF ReleaseSlot, Goto, TypeOK, kernelVars, connVars, loopVars, history
  <2> QED BY <2>1, BeforeMap DEF Places
<1> QED
  BY <1>1, <1>2, <1>3, <1>4, <1>5, <1>6, <1>7, <1>8, <1>9, <1>10, <1>11, <1>12, <1>13, <1>14
     DEF WorkerStep

\* Every step of a script thread keeps the invariant, ...
LEMMA ActorKeeps ==
    ASSUME TypeOK, ConnInv, NEW a \in Actors, BeginSend(a) \/ CloseConn(a) \/ ActorStep(a)
    PROVE  ConnInv'
<1> USE DEF kernelVars, connVars, loopVars, history
<1>1. CASE BeginSend(a)
  <2>1. PICK todo \in SUBSET Conns : act' = [act EXCEPT ![a] = Rest(todo)] /\ \A c \in todo : Up(c)
    <3>1. \A c \in Conns : Known(c) => Up(c) BY DEF Known, Up, ConnInv, PlaceInv
    <3>2. {reg["ws"][fd] : fd \in Fds} \ {None} \in SUBSET Conns
      <4>1. reg["ws"] \in [Fds -> Conns \cup {None}] BY DEF TypeOK, Tables, ConnOrNone, Kinds
      <4> QED BY <4>1
    <3>3. \A c \in {reg["ws"][fd] : fd \in Fds} \ {None} : Up(c)
      BY <3>2 DEF ConnInv, RegInv, Kinds
    <3>4. \A c \in Conns : {c} \in SUBSET Conns OBVIOUS
    <3> QED BY <1>1, <3>1, <3>2, <3>3, <3>4 DEF BeginSend
  <2>2. /\ Rest(todo) \in ActType /\ Rest(todo).at \notin {"write", "bye"}
        /\ Rest(todo).todo = todo
    BY RestIs
  <2>3. act[a].at # "write" BY <1>1 DEF BeginSend
  <2> QED BY <1>1, <2>1, <2>2, <2>3, ActorMoves DEF BeginSend
<1>2. CASE SendLock(a)
  <2>1. PICK c \in act[a].todo :
           IF closed[c] THEN act' = [act EXCEPT ![a] = Rest(@.todo \ {c})] /\ UNCHANGED mutex
           ELSE /\ mutex[c] = None /\ mutex' = [mutex EXCEPT ![c] = a]
                /\ act' = [act EXCEPT ![a] = [at |-> "write", todo |-> @.todo \ {c}, conn |-> c]]
    BY <1>2 DEF SendLock
  <2>2. act[a].at = "next" BY <1>2 DEF SendLock
  <2>3. CASE closed[c]
    <3>1. act[a].todo \ {c} \in SUBSET Conns BY DEF TypeOK, ActType
    <3> DEFINE r == Rest(act[a].todo \ {c})
    <3>2. r \in ActType /\ r.at \notin {"write", "bye"} /\ r.todo = act[a].todo \ {c} BY <3>1, RestIs
    <3> HIDE DEF r
    <3>3. \A d \in r.todo : Up(d) BY <3>2 DEF ConnInv, SendInv
    <3>4. act' = [act EXCEPT ![a] = r] BY <2>1, <2>3 DEF r
    <3> QED BY <1>2, <2>1, <2>2, <2>3, <3>2, <3>3, <3>4, ActorMoves DEF SendLock
  <2>4. CASE ~closed[c] BY <1>2, <2>1, <2>2, <2>4, SendLockKeeps DEF SendLock
  <2> QED BY <2>3, <2>4
<1>3. CASE SendWrite(a) BY <1>3, SendWriteKeeps
<1>4. CASE CloseConn(a) BY <1>4, CloseConnKeeps
<1>5. CASE CloseFrame(a)
  <2>1. ActIdle \in ActType /\ ActIdle.at \notin {"write", "bye"} /\ ActIdle.todo = {}
    BY DEF ActIdle, ActType, ConnOrNone
  <2> QED BY <1>5, <2>1, ActorMoves DEF CloseFrame
<1> QED BY <1>1, <1>2, <1>3, <1>4, <1>5 DEF ActorStep

\* ... and every step of the loop.
LEMMA LoopKeeps ==
    ASSUME TypeOK, ConnInv, LoopStep
    PROVE  ConnInv'
  BY EpollWaitKeeps, TakeTasksKeeps, RunTaskKeeps, NextEventKeeps, ReadDoneKeeps, CloseAgainKeeps,
     WsDataKeeps, WsFrameKeeps, WsFramesDoneKeeps, WsEofKeeps, CloseWsKeeps, DrainWsKeeps,
     SseDataKeeps, SseEofKeeps, CloseSseKeeps, DrainSseKeeps
     DEF LoopStep

\* The initial state has the types, ...
LEMMA InitType == Init => TypeOK
<1> SUFFICES ASSUME Init PROVE TypeOK
  OBVIOUS
<1>1. LoopIdle \in LoopType
  BY DEF LoopIdle, LoopType, LoopPlaces, FdOrNone, ConnOrNone
<1>2. ActIdle \in ActType BY DEF ActIdle, ActType, ConnOrNone
<1>3. Nowhere \in Tables BY DEF Nowhere, Tables, ConnOrNone
<1>4. {} \in SUBSET (Conns \X Conns \X {"data", "bye"}) OBVIOUS
<1>5. /\ stray \in SUBSET (Conns \X Conns \X {"data", "bye"})
      /\ raced \in BOOLEAN
  BY <1>4 DEF Init
<1> QED BY <1>1, <1>2, <1>3, <1>5 DEF Init, TypeOK, FdOrNone, Places, Causes

\* ... and satisfies the invariant.
LEMMA InitConn == Init => ConnInv
<1> SUFFICES ASSUME Init PROVE ConnInv
  OBVIOUS
<1> USE DEF Init, Up, Mapped, Early, Draining
<1>1. /\ lp.at = "batch" /\ lp.fd = None /\ lp.entry = None /\ lp.conn = None /\ lp.ret = "batch"
      /\ ~lp.fire /\ lp.local = <<>>
  BY DEF LoopIdle
<1>2. Posted = {} BY <1>1, EmptyElements DEF Posted
<1>3. \A k \in Kinds, fd \in Fds : clients[k][fd] = None /\ reg[k][fd] = None /\ table[fd] = None
  BY DEF Nowhere
<1>4. \A a \in Actors : act[a].at = "idle" /\ act[a].todo = {} BY DEF ActIdle
<1>5. SocketInv /\ \A c \in Conns : PlaceInv(c) /\ CauseInv(c) BY DEF SocketInv, PlaceInv, CauseInv
<1>6. \A c \in Conns : TableInv(c)
  BY <1>3, Apart DEF TableInv, Kinds
<1>7. \A c \in Conns : ClientsInv(c) /\ RegInv(c) BY <1>3, Apart DEF ClientsInv, RegInv
<1>8. \A a \in Actors : SendInv(a) BY <1>4 DEF SendInv
<1>9. \A c \in Conns : MutexInv(c) /\ CarryInv(c) /\ EntryInv(c) /\ DrainInv(c)
  BY <1>1, <1>2, Apart DEF MutexInv, CarryInv, EntryInv, DrainInv
<1>10. LoopInv BY <1>1, <1>2 DEF LoopInv
<1> QED BY <1>5, <1>6, <1>7, <1>8, <1>9, <1>10 DEF ConnInv

\* A stuttering step.
LEMMA StutterKeeps ==
    ASSUME TypeOK, ConnInv, UNCHANGED vars
    PROVE  TypeOK' /\ ConnInv'
<1>1. TypeOK' BY DEF TypeOK, vars, kernelVars, connVars, loopVars, history
<1>2. ConnInv' BY PeerKeeps DEF vars, kernelVars, connVars, loopVars, history
<1> QED BY <1>1, <1>2

\* Every step.
LEMMA ConnStep ==
    ASSUME ~raced', TypeOK, ConnInv, [Next]_vars
    PROVE  TypeOK' /\ ConnInv'
<1>1. CASE UNCHANGED vars BY <1>1, StutterKeeps
<1>2. ASSUME NEW c \in Conns, Accept(c) \/ ClientSends(c) \/ ClientLeaves(c) \/ WorkerStep(c)
      PROVE  TypeOK' /\ ConnInv'
  BY <1>2, WorkerType, WorkerKeeps
<1>3. ASSUME NEW a \in Actors, BeginSend(a) \/ CloseConn(a) \/ ActorStep(a)
      PROVE  TypeOK' /\ ConnInv'
  BY <1>3, ActorType, ActorKeeps
<1>4. CASE LoopStep BY <1>4, LoopStepType, LoopKeeps
<1> QED BY <1>1, <1>2, <1>3, <1>4 DEF Next

\* Once a number has been raced for, history keeps it.
LEMMA RacedStays ==
    ASSUME raced, [Next]_vars
    PROVE  raced'
<1> USE DEF history
<1>1. CASE UNCHANGED vars BY <1>1 DEF vars
<1>2. ASSUME NEW c \in Conns, Accept(c) \/ ClientSends(c) \/ ClientLeaves(c) \/ WorkerStep(c)
      PROVE  raced'
  BY <1>2 DEF Accept, ClientSends, ClientLeaves, WorkerStep, HandleConnection, ServeRequest,
     EndRequest, Upgrade, MapInsert, Register, Unmap, MoveSlot, AddClient, EpollAdd, ReleaseSlot
<1>3. ASSUME NEW a \in Actors, BeginSend(a) \/ CloseConn(a) \/ ActorStep(a)
      PROVE  raced'
  BY <1>3 DEF BeginSend, CloseConn, ActorStep, SendLock, SendWrite, CloseFrame
<1>4. CASE LoopStep
  BY <1>4 DEF LoopStep, EpollWait, TakeTasks, RunTask, NextEvent, ReadDone, CloseAgain, WsData,
     WsFrame, WsFramesDone, WsEof, CloseWs, DrainWs, SseData, SseEof, CloseSse, DrainSse
<1> QED BY <1>1, <1>2, <1>3, <1>4 DEF Next

\* Every variable keeps its type, and the invariant holds, until a connection is entered in the
\* maps under a number that is still carried for its previous owner.
THEOREM HttpInvariant == Spec => [](raced \/ (TypeOK /\ ConnInv))
<1>1. Init => TypeOK /\ ConnInv BY InitType, InitConn
<1>2. TypeOK /\ ConnInv /\ ~raced' /\ [Next]_vars => (TypeOK /\ ConnInv)' BY ConnStep
<1>3. raced /\ [Next]_vars => raced' BY RacedStays
<1> QED BY <1>1, <1>2, <1>3, PTL DEF Spec

-----------------------------------------------------------------------------
(***************************************************************************)
(* Data goes to its own connection, and nobody closes another's number.    *)
(***************************************************************************)
LEMMA SenderOpen ==
    ASSUME TypeOK, ConnInv, NEW c \in Conns, mutex[c] # None
    PROVE  open[c]
<1> USE DEF ConnInv
<1>1. Up(c) /\ (clients[kind[c]][num[c]] = c \/ Draining(c)) BY DEF MutexInv
<1>2. kind[c] \in Kinds /\ num[c] \in Fds BY <1>1 DEF PlaceInv, Mapped
<1> QED BY <1>1, <1>2 DEF ClientsInv, DrainInv

\* A write to an open connection reaches that connection.
LEMMA WriteOwn ==
    ASSUME TypeOK, SocketInv, NEW c \in Conns, open[c], NEW w, WriteData(c, w)
    PROVE  stray' = stray
<1>1. Owner(num[c]) = c BY OwnerIs
<1> QED BY <1>1 DEF WriteData

\* Only the close frame of close_conn may go astray.
Strays == \A s \in stray : s[3] = "bye"

\* Every step.
LEMMA StrayStep ==
    ASSUME TypeOK, ConnInv, Strays, [Next]_vars
    PROVE  Strays'
<1> USE DEF history
<1>0. ASSUME stray' = stray PROVE Strays' BY <1>0 DEF Strays
<1>1. CASE UNCHANGED vars BY <1>0, <1>1 DEF vars
<1>2. ASSUME NEW c \in Conns, Accept(c) \/ ClientSends(c) \/ ClientLeaves(c) \/ WorkerStep(c)
      PROVE  Strays'
  <2>1. CASE ServeRequest(c)
    <3>1. open[c] /\ SocketInv BY <2>1 DEF ServeRequest, ConnInv, PlaceInv, Early
    <3> QED BY <1>0, <2>1, <3>1, WriteOwn DEF ServeRequest
  <2>2. CASE ~ServeRequest(c)
    BY <1>0, <1>2, <2>2 DEF Accept, ClientSends, ClientLeaves, WorkerStep, HandleConnection, EndRequest,
       Upgrade, MapInsert, Register, Unmap, MoveSlot, AddClient, EpollAdd, ReleaseSlot
  <2> QED BY <2>1, <2>2
<1>3. ASSUME NEW a \in Actors, BeginSend(a) \/ CloseConn(a) \/ ActorStep(a)
      PROVE  Strays'
  <2>1. CASE SendWrite(a)
    <3>1. PICK c \in Conns : act[a].conn = c /\ mutex[c] = a /\ a # None
      BY <2>1, Apart DEF SendWrite, ConnInv, SendInv
    <3>2. open[c] /\ SocketInv BY <3>1, SenderOpen DEF ConnInv
    <3> QED BY <1>0, <2>1, <3>1, <3>2, WriteOwn DEF SendWrite
  <2>2. CASE CloseFrame(a)
    <3>1. stray' = stray \/ \E d : stray' = stray \cup {<<act[a].conn, d, "bye">>}
      BY <2>2 DEF CloseFrame, WriteData
    <3> QED BY <3>1 DEF Strays
  <2>3. CASE ~SendWrite(a) /\ ~CloseFrame(a)
    BY <1>0, <1>3, <2>3 DEF BeginSend, CloseConn, ActorStep, SendLock
  <2> QED BY <2>1, <2>2, <2>3
<1>4. CASE WsFrame
  <2>1. lp.conn \in Conns /\ open[lp.conn] /\ SocketInv
    BY <1>4, FrameEntry DEF WsFrame, ConnInv
  <2>2. stray' = stray \/ WriteData(lp.conn, "data") BY <1>4 DEF WsFrame, Answer
  <2> QED BY <1>0, <2>1, <2>2, WriteOwn
<1>5. CASE LoopStep /\ ~WsFrame
  BY <1>0, <1>5 DEF LoopStep, EpollWait, TakeTasks, RunTask, NextEvent, ReadDone, CloseAgain,
     WsData, WsFramesDone, WsEof, CloseWs, DrainWs, SseData, SseEof, CloseSse, DrainSse
<1> QED BY <1>1, <1>2, <1>3, <1>4, <1>5 DEF Next

\* Until a number is raced for, no answer, message or event meant for one client reaches another:
\* a write finds the number of its connection still that connection's own, because close_ws and
\* close_sse wait for the mutex.  The close frame of close_conn is the exception.
THEOREM SendsReachTheirOwn == Spec => []DataToOwn
<1>1. Init => Strays BY DEF Init, Strays
<1>2. TypeOK /\ ConnInv /\ Strays /\ [Next]_vars => Strays' BY StrayStep
<1>3. raced /\ [Next]_vars => raced' BY RacedStays
<1>4. raced \/ Strays => DataToOwn BY DEF DataToOwn, Strays
<1> QED BY <1>1, <1>2, <1>3, <1>4, HttpInvariant, PTL DEF Spec

\* The connection that close_fd closes is one handed to the loop.
LEMMA ClosedIsOwn ==
    ASSUME TypeOK, ConnInv, CloseFd(lp.fd), lp.fd \in Fds, NEW c \in Conns, open[c], ~open'[c]
    PROVE  num[c] = lp.fd /\ pc[c] \in {"arm", "done"}
<1> USE DEF ConnInv
<1>1. PICK d \in Conns : table[lp.fd] = d /\ num[d] = lp.fd /\ open' = [open EXCEPT ![d] = FALSE]
  BY CloseFdIs DEF SocketGone
<1>2. d = c BY <1>1 DEF TypeOK
<1> QED BY <1>1, <1>2 DEF TableInv

\* One step of NoForeignClose.
OwnCloses == \A c \in Conns : open[c] /\ ~open'[c] => OwnClose(c)

\* A closed connection has a reason of its own.
LEMMA ClosedForCause ==
    ASSUME TypeOK, ConnInv, NEW c \in Conns, closed[c]
    PROVE  peer[c] = "gone" \/ cause[c] \in {"server", "send", "client", "bye"}
  BY DEF ConnInv, CauseInv, TypeOK, Causes

\* A worker closes its own connection.
LEMMA WorkerCloses ==
    ASSUME TypeOK, ConnInv, NEW c \in Conns, CloseNumber(num[c]), open[c],
           pc[c] \in {"accepted", "request", "unmap"}, NEW p \in {"release", "done"},
           pc' = [pc EXCEPT ![c] = p]
    PROVE  OwnCloses
<1>1. open' = [open EXCEPT ![c] = FALSE] BY CloseOwn DEF ConnInv, SocketGone
<1> QED BY <1>1 DEF OwnCloses, OwnClose, TypeOK

\* Every step.
LEMMA CloseStep ==
    ASSUME TypeOK, ConnInv, [Next]_vars
    PROVE  OwnCloses
<1> USE DEF kernelVars, Goto
<1>1. CASE UNCHANGED open BY <1>1 DEF OwnCloses, OwnClose
<1>2. ASSUME NEW c \in Conns, Accept(c) \/ ClientSends(c) \/ ClientLeaves(c) \/ WorkerStep(c)
      PROVE  OwnCloses
  <2>1. pc[c] \in {"accepted", "request", "unmap"} => open[c] BY DEF ConnInv, PlaceInv, Early
  <2>2. CASE Accept(c) BY <2>2 DEF Accept, OwnCloses, OwnClose, TypeOK
  <2>3. CASE HandleConnection(c)
    BY <1>1, <2>1, <2>3, WorkerCloses DEF HandleConnection
  <2>4. CASE EndRequest(c) BY <2>1, <2>4, WorkerCloses DEF EndRequest
  <2>5. CASE Upgrade(c) BY <1>1, <2>1, <2>5, WorkerCloses DEF Upgrade
  <2>6. CASE Unmap(c) BY <2>1, <2>6, WorkerCloses DEF Unmap
  <2> QED
    BY <1>1, <1>2, <2>2, <2>3, <2>4, <2>5, <2>6
       DEF ClientSends, ClientLeaves, WorkerStep, ServeRequest, MapInsert, Register, MoveSlot,
           AddClient, EpollAdd, ReleaseSlot
<1>3. ASSUME NEW a \in Actors, BeginSend(a) \/ CloseConn(a) \/ ActorStep(a)
      PROVE  OwnCloses
  BY <1>1, <1>3 DEF BeginSend, CloseConn, ActorStep, SendLock, SendWrite, CloseFrame
<1>4. CASE CloseAgain
  <2>1. /\ lp.at = "again" /\ CloseFd(lp.fd) /\ lp.fd # None /\ lp.fd \in Fds /\ lp.entry # None
        /\ lp.entry \in Conns /\ lp.ret = "again"
    BY <1>4 DEF CloseAgain, ConnInv, LoopInv, TypeOK, LoopType, FdOrNone, ConnOrNone
  <2>2. peer[lp.entry] = "gone" BY <2>1 DEF ConnInv, EntryInv
  <2>3. ASSUME NEW c \in Conns, open[c], ~open'[c] PROVE peer[c] = "gone"
    <3>1. num[c] = lp.fd /\ pc[c] \in {"arm", "done"} BY <2>1, <2>3, ClosedIsOwn
    <3>2. c = lp.entry BY <2>1, <2>3, <3>1 DEF ConnInv, CarryInv, Early
    <3> QED BY <2>2, <3>2
  <2> QED BY <2>3 DEF OwnCloses, OwnClose
<1>5. CASE DrainWs \/ DrainSse
  <2>1. /\ lp.at \in {"drain_ws", "drain_sse"} /\ CloseFd(lp.fd) BY <1>5 DEF DrainWs, DrainSse
  <2>2. PICK c \in Conns : lp.conn = c
    <3>1. CASE DrainWs BY <3>1, FrameEntry DEF DrainWs
    <3>2. CASE DrainSse BY <3>2 DEF DrainSse, ConnInv, LoopInv, TypeOK, LoopType, ConnOrNone
    <3> QED BY <1>5, <3>1, <3>2
  <2>3. num[c] = lp.fd /\ open[c] /\ closed[c] /\ lp.fd \in Fds
    BY <2>1, <2>2 DEF ConnInv, DrainInv, Draining, SocketInv
  <2>4. \A d \in Conns : open[d] /\ ~open'[d] => d = c
    BY <2>1, <2>3, ClosedIsOwn DEF ConnInv, SocketInv
  <2> QED BY <2>3, <2>4, ClosedForCause DEF OwnCloses, OwnClose
<1>6. CASE LoopStep /\ ~CloseAgain /\ ~DrainWs /\ ~DrainSse
  BY <1>1, <1>6 DEF LoopStep, EpollWait, TakeTasks, RunTask, NextEvent, ReadDone, WsData,
     WsFrame, WsFramesDone, WsEof, CloseWs, SseData, SseEof, CloseSse
<1> QED BY <1>1, <1>2, <1>3, <1>4, <1>5, <1>6 DEF Next, vars

\* Until a number is raced for, the server closes a socket only if its own worker turned it away,
\* its client has left, or this very connection was closed for a reason: the one way to close a
\* connection on behalf of an earlier owner of its number is the race that raced records.
THEOREM NumbersClosedByOwner == Spec => NoForeignClose
<1>1. TypeOK /\ ConnInv /\ [Next]_vars => [raced \/ OwnCloses]_vars BY CloseStep
<1>2. raced /\ [Next]_vars => [raced \/ OwnCloses]_vars OBVIOUS
<1>3. Spec => [][raced \/ OwnCloses]_vars BY <1>1, <1>2, HttpInvariant, PTL DEF Spec
<1> QED BY <1>3 DEF NoForeignClose, OwnCloses

-----------------------------------------------------------------------------
(***************************************************************************)
(* Nothing that can be read is forgotten.                                  *)
(***************************************************************************)

\* A connection of the loop is registered with epoll, and what it has to be read is still to be
\* reported, in the batch, or being read.
NoticeInv(c) ==
    open[c] /\ pc[c] = "done" =>
        /\ inEpoll[c]
        /\ Readable(c) => edge[c] \/ num[c] \in lp.batch \/ lp.entry = c

-----------------------------------------------------------------------------
\* Workers and clients, ...
LEMMA NoticeWorker ==
    ASSUME TypeOK, ConnInv, \A d \in Conns : NoticeInv(d), NEW c \in Conns,
           Accept(c) \/ ClientSends(c) \/ ClientLeaves(c) \/ WorkerStep(c)
    PROVE  \A d \in Conns : NoticeInv(d)'
<1> USE DEF kernelVars, connVars, loopVars, Goto
<1>1. CASE Accept(c) BY <1>1 DEF Accept, NoticeInv, Readable, TypeOK
<1>2. CASE ClientSends(c)
  <2>1. /\ UNCHANGED <<num, open, peer, inEpoll, pc, lp>>
        /\ \A d \in Conns : d # c => inbox'[d] = inbox[d]
        /\ edge' = [edge EXCEPT ![c] = @ \/ inEpoll[c]]
    BY <1>2 DEF ClientSends, TypeOK
  <2> QED BY <2>1 DEF NoticeInv, Readable, TypeOK
<1>3. CASE ClientLeaves(c) BY <1>3 DEF ClientLeaves, NoticeInv, Readable, TypeOK
<1>4. ASSUME UNCHANGED <<num, peer, lp>>, NEW p \in Places \ {"done"},
             pc' = [pc EXCEPT ![c] = p],
             UNCHANGED <<open, inEpoll, edge, inbox>> \/ (open[c] /\ SocketGone(c))
      PROVE  \A d \in Conns : NoticeInv(d)'
  BY <1>4 DEF NoticeInv, Readable, TypeOK, SocketGone
<1>5. ASSUME UNCHANGED <<num, peer, lp>>, pc' = [pc EXCEPT ![c] = "done"],
             (~open[c] /\ UNCHANGED <<open, inEpoll, edge, inbox>>) \/ (open[c] /\ SocketGone(c))
      PROVE  \A d \in Conns : NoticeInv(d)'
  BY <1>5 DEF NoticeInv, Readable, TypeOK, SocketGone
<1>6. SocketInv /\ (pc[c] \in {"accepted", "request", "unmap"} => open[c])
  BY DEF ConnInv, PlaceInv, Early
<1>7. CASE HandleConnection(c)
  <2>1. CASE CloseNumber(num[c]) /\ pc' = [pc EXCEPT ![c] = "done"]
    BY <1>5, <1>6, <1>7, <2>1, CloseOwn DEF HandleConnection
  <2>2. CASE pc' = [pc EXCEPT ![c] = "request"] /\ UNCHANGED <<open, inEpoll, edge, inbox>>
    BY <1>4, <1>7, <2>2 DEF HandleConnection, Places
  <2> QED BY <1>7, <2>1, <2>2 DEF HandleConnection
<1>8. CASE ServeRequest(c) BY <1>8 DEF ServeRequest, NoticeInv, Readable
<1>9. CASE EndRequest(c) BY <1>4, <1>6, <1>9, CloseOwn DEF EndRequest, Places
<1>10. CASE Upgrade(c)
  <2>1. CASE CloseNumber(num[c]) /\ pc' = [pc EXCEPT ![c] = "release"]
    BY <1>4, <1>6, <1>10, <2>1, CloseOwn DEF Upgrade, Places
  <2>2. CASE pc' = [pc EXCEPT ![c] = "map"] /\ UNCHANGED <<open, inEpoll, edge, inbox>>
    BY <1>4, <1>10, <2>2 DEF Upgrade, Places
  <2> QED BY <1>10, <2>1, <2>2 DEF Upgrade
<1>11. CASE MapInsert(c) BY <1>4, <1>11 DEF MapInsert, Places
<1>12. CASE Register(c) BY <1>4, <1>12 DEF Register, Places
<1>13. CASE Unmap(c) BY <1>4, <1>6, <1>13, CloseOwn DEF Unmap, Places
<1>14. CASE MoveSlot(c) BY <1>4, <1>14 DEF MoveSlot, Places
<1>15. CASE AddClient(c) BY <1>4, <1>15 DEF AddClient, Places
<1>16. CASE EpollAdd(c)
  <2>1. \A d \in Conns : d = Owner(num[c]) <=> open[d] /\ num[d] = num[c] BY <1>6, OwnerIs
  <2>2. /\ UNCHANGED <<num, open, peer, inbox, lp>>
        /\ \A d \in Conns : pc'[d] = IF d = c THEN "done" ELSE pc[d]
        /\ \A d \in Conns : inEpoll'[d] <=> inEpoll[d] \/ d = Owner(num[c])
        /\ \A d \in Conns : edge'[d] <=> edge[d] \/ (d = Owner(num[c]) /\ Readable(d))
    BY <1>16 DEF EpollAdd, TypeOK
  <2> QED BY <2>1, <2>2 DEF NoticeInv, Readable
<1>17. CASE ReleaseSlot(c)
  <2>1. ~open[c] BY <1>17 DEF ReleaseSlot, ConnInv, PlaceInv
  <2> QED BY <1>5, <1>17, <2>1 DEF ReleaseSlot
<1> QED
  BY <1>1, <1>2, <1>3, <1>7, <1>8, <1>9, <1>10, <1>11, <1>12, <1>13, <1>14, <1>15, <1>16, <1>17
     DEF WorkerStep

\* A step of the loop that keeps its event and its batch, or has closed the event's socket.
LEMMA NoticeMoves ==
    ASSUME TypeOK, \A d \in Conns : NoticeInv(d), UNCHANGED <<num, peer, pc>>,
           \A d \in Conns : open'[d] => open[d] /\ (inEpoll[d] => inEpoll'[d])
                                        /\ (edge[d] => edge'[d]),
           \A d \in Conns : open'[d] /\ inbox'[d] # <<>> => inbox[d] # <<>>,
           lp'.batch = lp.batch,
           \A d \in Conns : lp.entry = d /\ open'[d] /\ pc[d] = "done" /\ Readable(d)'
                            => lp'.entry = d
    PROVE  \A d \in Conns : NoticeInv(d)'
  BY DEF NoticeInv, Readable

\* close_fd: what stays open keeps its registration, its event and what is unread.
LEMMA CloseFdNotice ==
    ASSUME TypeOK, ConnInv, NEW fd \in Fds, CloseFd(fd)
    PROVE  /\ \A d \in Conns : open'[d] => open[d] /\ (inEpoll[d] => inEpoll'[d])
                                           /\ (edge[d] => edge'[d])
           /\ \A d \in Conns : open'[d] => inbox'[d] = inbox[d]
           /\ \A d \in Conns : num[d] = fd /\ pc[d] \in {"arm", "done"} => ~open'[d]
<1> USE DEF ConnInv
<1>1. CASE table[fd] = None /\ UNCHANGED <<table, entryClosed, open, inEpoll, edge, inbox>>
  <2>1. \A d \in Conns : num[d] = fd /\ pc[d] \in {"arm", "done"} => ~open[d]
    BY <1>1, Apart DEF TableInv
  <2> QED BY <1>1, <2>1
<1>2. ASSUME NEW c \in Conns, table[fd] = c, open[c], num[c] = fd, SocketGone(c)
      PROVE  /\ \A d \in Conns : open'[d] => open[d] /\ (inEpoll[d] => inEpoll'[d])
                                             /\ (edge[d] => edge'[d])
             /\ \A d \in Conns : open'[d] => inbox'[d] = inbox[d]
             /\ \A d \in Conns : num[d] = fd /\ pc[d] \in {"arm", "done"} => ~open'[d]
  <2>1. \A d \in Conns : d # c => open'[d] = open[d] /\ inEpoll'[d] = inEpoll[d]
                                  /\ edge'[d] = edge[d] /\ inbox'[d] = inbox[d]
    BY <1>2 DEF SocketGone, TypeOK
  <2>2. ~open'[c] BY <1>2 DEF SocketGone, TypeOK
  <2>3. \A d \in Conns : open[d] /\ num[d] = fd => d = c BY <1>2 DEF SocketInv
  <2> QED BY <2>1, <2>2, <2>3
<1> QED BY <1>1, <1>2, CloseFdIs

\* async_read takes no event away.
LEMMA AsyncReadNotice ==
    ASSUME TypeOK, NEW fd, AsyncRead(fd)
    PROVE  \A d \in Conns : edge[d] => edge'[d]
<1>1. edge' = edge \/ \E p \in [Conns -> BOOLEAN] : edge' = [c \in Conns |-> edge[c] \/ p[c]]
  <2> DEFINE p == [c \in Conns |-> c = Owner(fd) /\ inEpoll[c] /\ (inbox'[c] # <<>> \/ peer[c] = "gone")]
  <2>1. p \in [Conns -> BOOLEAN] OBVIOUS
  <2>2. CASE table[fd] = None BY <2>2 DEF AsyncRead
  <2>3. CASE table[fd] # None
    <3>1. edge' = [c \in Conns |-> edge[c] \/ p[c]] BY <2>3 DEF AsyncRead
    <3> QED BY <2>1, <3>1
  <2> QED BY <2>2, <2>3
<1> QED BY <1>1 DEF TypeOK

\* ... and the loop.
LEMMA NoticeLoop ==
    ASSUME TypeOK, ConnInv, \A d \in Conns : NoticeInv(d), LoopStep
    PROVE  \A d \in Conns : NoticeInv(d)'
<1> USE DEF kernelVars, connVars
<1>1. CASE EpollWait
  <2>1. lp.batch = {} /\ lp.entry = None BY <1>1 DEF EpollWait, LoopIdle
  <2>2. lp'.batch = {num[c] : c \in Reported} BY <1>1 DEF EpollWait, TypeOK, LoopType
  <2>3. \A d \in Conns : edge'[d] <=> edge[d] /\ d \notin Reported BY <1>1 DEF EpollWait
  <2>4. UNCHANGED <<num, open, peer, inbox, inEpoll, pc>> BY <1>1 DEF EpollWait
  <2> QED BY <2>1, <2>2, <2>3, <2>4, Apart DEF NoticeInv, Readable, Reported
<1>2. ASSUME UNCHANGED <<kernelVars, pc>>, lp'.batch = lp.batch, lp'.entry = lp.entry
      PROVE  \A d \in Conns : NoticeInv(d)'
  BY <1>2 DEF NoticeInv, Readable
<1>3. CASE TakeTasks \/ RunTask \/ WsEof \/ SseEof \/ CloseWs
  <2>1. UNCHANGED <<kernelVars, pc>> BY <1>3 DEF TakeTasks, RunTask, WsEof, SseEof, CloseWs
  <2>2. lp'.batch = lp.batch /\ lp'.entry = lp.entry
    <3>1. CASE TakeTasks \/ RunTask BY <3>1, ZenonT(60) DEF TakeTasks, RunTask, TypeOK, LoopType
    <3>2. CASE WsEof \/ SseEof BY <3>2 DEF WsEof, SseEof, TypeOK, LoopType
    <3>3. CASE CloseWs BY <3>3 DEF CloseWs, TypeOK, LoopType
    <3> QED BY <1>3, <3>1, <3>2, <3>3
  <2> QED BY <1>2, <2>1, <2>2
<1>4. CASE WsFrame
  <2>1. lp' = lp \/ \E p \in LoopPlaces : lp' = [lp EXCEPT !.at = p]
    BY <1>4 DEF WsFrame, To, LoopPlaces
  <2>2. lp'.batch = lp.batch /\ lp'.entry = lp.entry BY <2>1 DEF TypeOK, LoopType
  <2> QED BY <1>2, <1>4, <2>2 DEF WsFrame
<1>5. CASE CloseSse
  <2>1. /\ UNCHANGED <<kernelVars, pc>>
        /\ lp' = Returned
           \/ (\E c, f : lp' = [lp EXCEPT !.at = "drain_sse", !.conn = c, !.fire = f])
    BY <1>5 DEF CloseSse
  <2>2. lp.at = "close_sse" BY <1>5 DEF CloseSse
  <2>3. CASE lp' = Returned
    <3>1. lp.ret = "batch" => lp.entry = None BY <2>2 DEF ConnInv, LoopInv
    <3>2. lp'.batch = lp.batch /\ lp'.entry = lp.entry BY <2>3, <3>1, LeaveIs, ReturnedIs DEF Returned
    <3> QED BY <1>2, <2>1, <3>2
  <2>4. CASE \E c, f : lp' = [lp EXCEPT !.at = "drain_sse", !.conn = c, !.fire = f]
    <3>1. lp'.batch = lp.batch /\ lp'.entry = lp.entry BY <2>4 DEF TypeOK, LoopType
    <3> QED BY <1>2, <2>1, <3>1
  <2> QED BY <2>1, <2>3, <2>4
<1>6. CASE NextEvent
  <2>1. UNCHANGED <<kernelVars, pc>> BY <1>6 DEF NextEvent
  <2>2. PICK fd \in lp.batch :
           lp' = IF table[fd] = None THEN [lp EXCEPT !.batch = @ \ {fd}]
                 ELSE [lp EXCEPT !.at = "read", !.batch = @ \ {fd}, !.fd = fd, !.entry = table[fd]]
    BY <1>6 DEF NextEvent
  <2>3. lp'.batch = lp.batch \ {fd} /\ (table[fd] = None \/ lp'.entry = table[fd])
    BY <2>2 DEF TypeOK, LoopType
  <2>4. lp.entry = None BY <1>6 DEF NextEvent, ConnInv, LoopInv
  <2>5. \A d \in Conns : open[d] /\ pc[d] = "done" => table[num[d]] = d
    BY DEF ConnInv, TableInv
  <2> QED BY <2>1, <2>3, <2>4, <2>5, Apart DEF NoticeInv, Readable
<1>7. CASE ReadDone
  <2>1. UNCHANGED <<kernelVars, pc>> /\ lp'.batch = lp.batch BY <1>7, LeaveIs DEF ReadDone
  <2>2. ASSUME NEW d \in Conns, lp.entry = d, open[d] PROVE ~Readable(d)
    <3>1. ~entryClosed[d] BY <2>2 DEF ConnInv, TableInv
    <3>2. Owner(lp.fd) = d /\ d # None BY <1>7, <2>2, <3>1, ReadEntry DEF ReadDone
    <3> QED BY <1>7, <2>2, <3>1, <3>2 DEF ReadDone, Unread, AtEnd, Readable
  <2> QED BY <2>1, <2>2 DEF NoticeInv, Readable
<1>8. CASE CloseAgain
  <2>1. lp.at = "again" /\ lp.fd \in Fds
    BY <1>8 DEF CloseAgain, ConnInv, LoopInv, TypeOK, LoopType, FdOrNone
  <2>2. \A d \in Conns : lp.entry = d => num[d] = lp.fd /\ pc[d] \in {"arm", "done"}
    BY DEF ConnInv, EntryInv
  <2>3. UNCHANGED <<num, peer, pc>> /\ lp'.batch = lp.batch BY <1>8, LeaveIs DEF CloseAgain
  <2>4. CloseFd(lp.fd) BY <1>8 DEF CloseAgain
  <2> QED BY <2>1, <2>2, <2>3, <2>4, CloseFdNotice, NoticeMoves
<1>9. CASE DrainWs \/ DrainSse
  <2>1. lp.at \in {"drain_ws", "drain_sse"} /\ lp.fd \in Fds /\ CloseFd(lp.fd) /\ lp' = Returned
    BY <1>9 DEF DrainWs, DrainSse, ConnInv, LoopInv, TypeOK, LoopType, FdOrNone
  <2>2. UNCHANGED <<num, peer, pc>> BY <1>9 DEF DrainWs, DrainSse
  <2>3. lp.ret = "batch" => lp.entry = None BY <2>1 DEF ConnInv, LoopInv
  <2>4. lp'.batch = lp.batch /\ lp'.entry = lp.entry BY <2>1, <2>3, LeaveIs, ReturnedIs DEF Returned
  <2> QED BY <2>1, <2>2, <2>4, CloseFdNotice, NoticeMoves
<1>10. CASE WsData \/ SseData
  <2>1. PICK n \in DOMAIN Unread : ReadSome(n) BY <1>10 DEF WsData, SseData
  <2>2. PICK e \in Conns : n \in 1 .. Len(inbox[e])
                           /\ inbox' = [inbox EXCEPT ![e] = SubSeq(@, n + 1, Len(@))]
    BY <2>1, ReadSomeIs
  <2>3. \A d \in Conns : inbox'[d] # <<>> => inbox[d] # <<>> BY <2>2 DEF TypeOK
  <2>4. UNCHANGED <<num, open, peer, inEpoll, pc>> BY <1>10 DEF WsData, SseData
  <2>5. \A d \in Conns : edge[d] => edge'[d]
    BY <1>10, AsyncReadNotice DEF WsData, SseData
  <2>6. lp'.batch = lp.batch /\ lp'.entry = lp.entry
    <3>1. lp' = lp \/ \E p, c : lp' = [lp EXCEPT !.at = p, !.conn = c, !.ret = "read"]
          \/ lp' = [lp EXCEPT !.at = "close_sse", !.ret = "read"]
      BY <1>10, ZenonT(60) DEF WsData, SseData
    <3> QED BY <3>1 DEF TypeOK, LoopType
  <2> QED BY <2>3, <2>4, <2>5, <2>6, NoticeMoves
<1>11. CASE WsFramesDone
  <2>1. UNCHANGED <<num, open, peer, inEpoll, pc, inbox>> BY <1>11 DEF WsFramesDone
  <2>2. \A d \in Conns : edge[d] => edge'[d] BY <1>11, AsyncReadNotice DEF WsFramesDone
  <2>3. lp'.batch = lp.batch /\ lp'.entry = lp.entry
    <3>1. lp' = [lp EXCEPT !.at = "close_ws"] \/ lp' = [lp EXCEPT !.at = "read", !.conn = None]
      BY <1>11 DEF WsFramesDone, To
    <3> QED BY <3>1 DEF TypeOK, LoopType
  <2> QED BY <2>1, <2>2, <2>3, NoticeMoves
<1> QED
  BY <1>1, <1>3, <1>4, <1>5, <1>6, <1>7, <1>8, <1>9, <1>10, <1>11 DEF LoopStep

\* Every step.
LEMMA NoticeStep ==
    ASSUME TypeOK, ConnInv, \A d \in Conns : NoticeInv(d), [Next]_vars
    PROVE  \A d \in Conns : NoticeInv(d)'
<1>1. CASE UNCHANGED vars
  BY <1>1 DEF vars, kernelVars, loopVars, NoticeInv, Readable
<1>2. ASSUME NEW a \in Actors, BeginSend(a) \/ CloseConn(a) \/ ActorStep(a)
      PROVE  \A d \in Conns : NoticeInv(d)'
  <2>1. UNCHANGED <<kernelVars, pc, lp>>
    BY <1>2 DEF BeginSend, CloseConn, ActorStep, SendLock, SendWrite, CloseFrame, loopVars
  <2> QED BY <2>1 DEF kernelVars, NoticeInv, Readable
<1> QED BY <1>1, <1>2, NoticeWorker, NoticeLoop DEF Next

\* Edge-triggered epoll reports a change once: until a number is raced for, what a connection has
\* to be read, its end included, is still to be reported, in the batch at hand, or being read.
THEOREM EventsNoticed == Spec => []Noticed
<1> DEFINE I == \A d \in Conns : NoticeInv(d)
<1>1. Init => I BY DEF Init, NoticeInv
<1>2. TypeOK /\ ConnInv /\ I /\ [Next]_vars => I' BY NoticeStep
<1>3. raced \/ I => Noticed BY DEF NoticeInv, Noticed
<1>4. raced /\ [Next]_vars => raced' BY RacedStays
<1> HIDE DEF I
<1> QED BY <1>1, <1>2, <1>3, <1>4, HttpInvariant, PTL DEF Spec

-----------------------------------------------------------------------------
(***************************************************************************)
(* The address counter.                                                    *)
(***************************************************************************)
HasSlot(c) ==
    \/ pc[c] \in {"request", "map", "register", "unmap", "hold", "release"}
    \/ held[c] /\ \E k \in Kinds : In(clients[k], c)
Slots == {c \in Conns : HasSlot(c)}

\* The connections that have a slot are finitely many.
LEMMA SlotsAre ==
    /\ SlotsExact <=> ipConns = Cardinality(Slots)
    /\ IsFiniteSet(Slots) /\ Cardinality(Slots) \in Nat
<1>1. SlotsExact <=> ipConns = Cardinality(Slots) BY DEF SlotsExact, Slots, HasSlot
<1>2. IsFiniteSet(Slots)
  <2>1. Slots \subseteq Conns BY DEF Slots
  <2> QED BY <2>1, Apart, FS_Subset
<1> QED BY <1>1, <1>2, FS_CardinalityType

\* A step that changes nobody's slot, ...
LEMMA SlotKept ==
    ASSUME SlotsExact, ipConns' = ipConns, \A d \in Conns : HasSlot(d)' <=> HasSlot(d)
    PROVE  SlotsExact'
<1>1. Slots' = Slots BY DEF Slots
<1>2. SlotsExact' <=> ipConns' = Cardinality(Slots')
  BY DEF SlotsExact, Slots, HasSlot
<1> QED BY <1>1, <1>2, SlotsAre

\* ... one that gives a slot to c, ...
LEMMA SlotTaken ==
    ASSUME SlotsExact, NEW c \in Conns, ~HasSlot(c), HasSlot(c)', ipConns' = ipConns + 1,
           \A d \in Conns \ {c} : HasSlot(d)' <=> HasSlot(d)
    PROVE  SlotsExact'
<1>1. Slots' = Slots \cup {c} /\ c \notin Slots BY DEF Slots
<1>2. SlotsExact' <=> ipConns' = Cardinality(Slots')
  BY DEF SlotsExact, Slots, HasSlot
<1>3. Cardinality(Slots \cup {c}) = Cardinality(Slots) + 1 BY <1>1, SlotsAre, FS_AddElement
<1> QED BY <1>1, <1>2, <1>3, SlotsAre

\* ... and one that takes c's slot away.
LEMMA SlotReleased ==
    ASSUME SlotsExact, NEW c \in Conns, HasSlot(c), ~HasSlot(c)', IpRelease(TRUE),
           \A d \in Conns \ {c} : HasSlot(d)' <=> HasSlot(d)
    PROVE  SlotsExact'
<1>1. Slots' = Slots \ {c} /\ c \in Slots BY DEF Slots
<1>2. SlotsExact' <=> ipConns' = Cardinality(Slots')
  BY DEF SlotsExact, Slots, HasSlot
<1>3. Cardinality(Slots \ {c}) = Cardinality(Slots) - 1 BY <1>1, SlotsAre, FS_RemoveElement
<1>4. Cardinality(Slots) # 0 BY <1>1, SlotsAre, FS_EmptySet
<1>5. ipConns = Cardinality(Slots) /\ Cardinality(Slots) \in Nat BY SlotsAre
<1>6. ipConns' = ipConns - 1 BY <1>4, <1>5 DEF IpRelease
<1> QED BY <1>1, <1>2, <1>3, <1>5, <1>6

\* The workers: http_ip_acquire, ~IpSlot, and IpSlot::moved.
LEMMA SlotWorker ==
    ASSUME TypeOK, ConnInv, SlotsExact, NEW c \in Conns,
           Accept(c) \/ ClientSends(c) \/ ClientLeaves(c) \/ WorkerStep(c)
    PROVE  SlotsExact'
<1> USE DEF connVars, Goto
<1>0. ASSUME NEW p, NEW q, pc[c] = q, pc' = [pc EXCEPT ![c] = p], UNCHANGED <<held, clients, ipConns>>,
             p \in {"request", "map", "register", "unmap", "hold", "release"}
               <=> q \in {"request", "map", "register", "unmap", "hold", "release"}
      PROVE  SlotsExact'
  <2>1. \A d \in Conns : HasSlot(d)' <=> HasSlot(d) BY <1>0 DEF HasSlot, TypeOK
  <2> QED BY <1>0, <2>1, SlotKept
<1>1. CASE Accept(c) BY <1>0, <1>1 DEF Accept
<1>2. CASE ClientSends(c) \/ ClientLeaves(c) \/ ServeRequest(c)
  <2>1. \A d \in Conns : HasSlot(d)' <=> HasSlot(d)
    BY <1>2 DEF HasSlot, ClientSends, ClientLeaves, ServeRequest
  <2> QED BY <1>2, <2>1, SlotKept DEF ClientSends, ClientLeaves, ServeRequest
<1>3. CASE HandleConnection(c)
  <2>1. ~held[c] /\ pc[c] = "accepted" BY <1>3 DEF HandleConnection, ConnInv, PlaceInv
  <2>2. CASE pc' = [pc EXCEPT ![c] = "done"] /\ ipConns' = ipConns
    BY <1>0, <1>3, <2>1, <2>2 DEF HandleConnection
  <2>3. CASE pc' = [pc EXCEPT ![c] = "request"] /\ ipConns' = ipConns + 1
    <3>1. /\ ~HasSlot(c) /\ HasSlot(c)'
          /\ \A d \in Conns \ {c} : HasSlot(d)' <=> HasSlot(d)
      BY <1>3, <2>1, <2>3 DEF HandleConnection, HasSlot, TypeOK
    <3> QED BY <2>3, <3>1, SlotTaken
  <2> QED BY <1>3, <2>2, <2>3 DEF HandleConnection
<1>4. CASE EndRequest(c) BY <1>0, <1>4 DEF EndRequest
<1>5. CASE Upgrade(c) BY <1>0, <1>5 DEF Upgrade
<1>6. CASE MapInsert(c)
  <2>1. /\ pc[c] = "map" /\ open[c] /\ kind[c] \in Kinds /\ num[c] \in Fds
    BY <1>6 DEF MapInsert, ConnInv, PlaceInv, Early
  <2>2. \A k \in Kinds, fd \in Fds, d \in Conns : d # c =>
           (clients'[k][fd] = d <=> clients[k][fd] = d)
    <3>1. \A k \in Kinds, fd \in Fds :
             clients'[k][fd] = IF k = kind[c] /\ fd = num[c] THEN c ELSE clients[k][fd]
      BY <1>6, <2>1 DEF MapInsert, TypeOK, Tables
    <3>2. \A d \in Conns : clients[kind[c]][num[c]] = d => d = c
      BY <2>1 DEF ConnInv, ClientsInv, SocketInv
    <3> QED BY <2>1, <3>1, <3>2
  <2>3. /\ UNCHANGED <<held, ipConns>> /\ \A d \in Conns : pc'[d] = IF d = c THEN "register" ELSE pc[d]
    BY <1>6 DEF MapInsert, TypeOK
  <2>4. \A d \in Conns : HasSlot(d)' <=> HasSlot(d) BY <2>1, <2>2, <2>3 DEF HasSlot, In
  <2> QED BY <2>3, <2>4, SlotKept
<1>7. CASE Register(c) BY <1>0, <1>7 DEF Register
<1>8. CASE Unmap(c)
  <2>1. /\ pc[c] = "unmap" /\ kind[c] \in Kinds /\ num[c] \in Fds /\ clients[kind[c]][num[c]] = c
    BY <1>8 DEF Unmap, ConnInv, PlaceInv, ClientsInv, Mapped
  <2>2. \A k \in Kinds, fd \in Fds, d \in Conns : d # c =>
           (clients'[k][fd] = d <=> clients[k][fd] = d)
    <3>1. \A k \in Kinds, fd \in Fds :
             clients'[k][fd] = IF k = kind[c] /\ fd = num[c] THEN None ELSE clients[k][fd]
      BY <1>8, <2>1 DEF Unmap, TypeOK, Tables
    <3> QED BY <2>1, <3>1, Apart
  <2>3. /\ UNCHANGED <<held, ipConns>> /\ \A d \in Conns : pc'[d] = IF d = c THEN "release" ELSE pc[d]
    BY <1>8 DEF Unmap, TypeOK
  <2>4. \A d \in Conns : HasSlot(d)' <=> HasSlot(d) BY <2>1, <2>2, <2>3 DEF HasSlot, In
  <2> QED BY <2>3, <2>4, SlotKept
<1>9. CASE MoveSlot(c)
  <2>1. /\ pc[c] = "hold" /\ kind[c] \in Kinds /\ num[c] \in Fds /\ clients[kind[c]][num[c]] = c
    BY <1>9 DEF MoveSlot, ConnInv, PlaceInv, ClientsInv, Mapped, Up
  <2>2. /\ UNCHANGED <<clients, ipConns>> /\ held' = [held EXCEPT ![c] = TRUE]
        /\ \A d \in Conns : pc'[d] = IF d = c THEN "handler" ELSE pc[d]
    BY <1>9 DEF MoveSlot, TypeOK
  <2>3. HasSlot(c) /\ HasSlot(c)' BY <2>1, <2>2 DEF HasSlot, In, TypeOK
  <2>4. \A d \in Conns : d # c => (HasSlot(d)' <=> HasSlot(d)) BY <2>2 DEF HasSlot, TypeOK
  <2>5. \A d \in Conns : HasSlot(d)' <=> HasSlot(d) BY <2>3, <2>4
  <2> QED BY <2>2, <2>5, SlotKept
<1>10. CASE AddClient(c) BY <1>0, <1>10 DEF AddClient
<1>11. CASE EpollAdd(c) BY <1>0, <1>11 DEF EpollAdd
<1>12. CASE ReleaseSlot(c)
  <2>1. /\ pc[c] = "release" /\ ~held[c] BY <1>12 DEF ReleaseSlot, ConnInv, PlaceInv
  <2>2. UNCHANGED <<held, clients>> /\ \A d \in Conns : pc'[d] = IF d = c THEN "done" ELSE pc[d]
    BY <1>12 DEF ReleaseSlot, TypeOK
  <2>3. HasSlot(c) /\ ~HasSlot(c)' /\ \A d \in Conns \ {c} : HasSlot(d)' <=> HasSlot(d)
    BY <2>1, <2>2 DEF HasSlot
  <2> QED BY <1>12, <2>3, SlotReleased DEF ReleaseSlot
<1> QED
  BY <1>1, <1>2, <1>3, <1>4, <1>5, <1>6, <1>7, <1>8, <1>9, <1>10, <1>11, <1>12 DEF WorkerStep

\* close_ws and close_sse give back the slot of the connection they take out of the map.
LEMMA SlotOut ==
    ASSUME TypeOK, ConnInv, SlotsExact, NEW c \in Conns, NEW k \in Kinds, lp.fd \in Fds,
           clients[k][lp.fd] = c, pc[c] \in {"handler", "arm", "done"}, IpRelease(held[c]),
           clients' = [clients EXCEPT ![k][lp.fd] = None], UNCHANGED <<pc, held>>
    PROVE  SlotsExact'
<1>1. held[c] BY DEF ConnInv, ClientsInv, PlaceInv, Mapped, Up
<1>2. \A j \in Kinds, fd \in Fds : clients[j][fd] = c <=> j = k /\ fd = lp.fd
  BY DEF ConnInv, ClientsInv
<1>3. \A j \in Kinds, fd \in Fds :
         clients'[j][fd] = IF j = k /\ fd = lp.fd THEN None ELSE clients[j][fd]
  BY DEF TypeOK, Tables
<1>4. HasSlot(c) BY <1>1 DEF HasSlot, In
<1>5. ~HasSlot(c)' BY <1>2, <1>3, Apart DEF HasSlot, In
<1>6. \A d \in Conns \ {c} : HasSlot(d)' <=> HasSlot(d) BY <1>2, <1>3, Apart DEF HasSlot, In
<1>7. IpRelease(TRUE) BY <1>1 DEF IpRelease
<1> QED BY <1>4, <1>5, <1>6, <1>7, SlotReleased

\* The loop: close_ws and close_sse release the slot of the connection they take out.
LEMMA SlotLoop ==
    ASSUME TypeOK, ConnInv, SlotsExact, LoopStep
    PROVE  SlotsExact'
<1> USE DEF connVars
<1>1. CASE CloseWs
  <2>1. PICK e \in Conns : /\ clients["ws"][lp.fd] = e /\ lp.fd \in Fds /\ pc[e] \in {"arm", "done"}
                           /\ e # None
    BY <1>1, FrameEntry DEF CloseWs
  <2> QED BY <1>1, <2>1, SlotOut DEF CloseWs, Kinds
<1>2. CASE CloseSse
  <2>1. lp.fd \in Fds /\ lp.at = "close_sse"
    BY <1>2 DEF CloseSse, ConnInv, LoopInv, TypeOK, LoopType, FdOrNone
  <2>2. CASE clients["sse"][lp.fd] = None
    <3>1. UNCHANGED <<pc, held, clients, ipConns>> BY <1>2, <2>2 DEF CloseSse
    <3>2. \A d \in Conns : HasSlot(d)' <=> HasSlot(d) BY <3>1 DEF HasSlot
    <3> QED BY <3>1, <3>2, SlotKept
  <2>3. CASE clients["sse"][lp.fd] # None
    <3>1. PICK c \in Conns : clients["sse"][lp.fd] = c
      BY <2>1, <2>3 DEF TypeOK, Tables, ConnOrNone, Kinds
    <3>2. open[c] /\ num[c] = lp.fd /\ Mapped(c) BY <2>1, <3>1 DEF ConnInv, ClientsInv, Kinds
    <3>3. pc[c] \in {"handler", "arm", "done"}
      <4>1. CASE lp.entry = None
        <5>1. lp.fd \in Posted BY <2>1, <4>1 DEF Posted
        <5>2. held[c] BY <3>2, <5>1 DEF ConnInv, CarryInv, Dying, Mapped, Up, Early
        <5> QED BY <5>2 DEF ConnInv, PlaceInv
      <4>2. CASE lp.entry # None
        <5>1. c = lp.entry BY <3>2, <4>2 DEF ConnInv, CarryInv, Mapped, Up, Early
        <5> QED BY <5>1 DEF ConnInv, EntryInv
      <4> QED BY <4>1, <4>2
    <3> QED BY <1>2, <2>1, <2>3, <3>1, <3>3, SlotOut DEF CloseSse, Kinds
  <2> QED BY <2>2, <2>3
<1>3. CASE LoopStep /\ ~CloseWs /\ ~CloseSse
  <2>1. UNCHANGED <<pc, held, clients, ipConns>>
    BY <1>3 DEF LoopStep, EpollWait, TakeTasks, RunTask, NextEvent, ReadDone, CloseAgain, WsData,
       WsFrame, WsFramesDone, WsEof, DrainWs, SseData, SseEof, DrainSse
  <2>2. \A d \in Conns : HasSlot(d)' <=> HasSlot(d) BY <2>1 DEF HasSlot
  <2> QED BY <2>1, <2>2, SlotKept
<1> QED BY <1>1, <1>2, <1>3

\* Every step.
LEMMA SlotStep ==
    ASSUME TypeOK, ConnInv, SlotsExact, [Next]_vars
    PROVE  SlotsExact'
<1>1. ASSUME UNCHANGED <<pc, held, clients, ipConns>> PROVE SlotsExact'
  <2>1. \A d \in Conns : HasSlot(d)' <=> HasSlot(d) BY <1>1 DEF HasSlot
  <2> QED BY <1>1, <2>1, SlotKept
<1>2. CASE UNCHANGED vars BY <1>1, <1>2 DEF vars, connVars
<1>3. ASSUME NEW a \in Actors, BeginSend(a) \/ CloseConn(a) \/ ActorStep(a)
      PROVE  SlotsExact'
  BY <1>1, <1>3 DEF BeginSend, CloseConn, ActorStep, SendLock, SendWrite, CloseFrame, connVars
<1> QED BY <1>2, <1>3, SlotWorker, SlotLoop DEF Next

\* Until a number is raced for, the address counter agrees with the connections that hold a slot,
\* each counted once, and a closed connection is in no map, no registry and not in the loop's
\* table.
THEOREM TablesAgree == Spec => []TablesExact
<1>1. Init => SlotsExact
  <2> SUFFICES ASSUME Init PROVE SlotsExact
    OBVIOUS
  <2>1. Slots = {} BY DEF Slots, HasSlot, Init
  <2> QED BY <2>1, SlotsAre, FS_EmptySet DEF Init
<1>2. TypeOK /\ ConnInv /\ SlotsExact /\ [Next]_vars => SlotsExact' BY SlotStep
<1>3. TypeOK /\ ConnInv => TablesClean
  BY DEF ConnInv, TableInv, ClientsInv, RegInv, TablesClean, In
<1>4. raced \/ (SlotsExact /\ TablesClean) => TablesExact BY DEF TablesExact
<1>5. raced /\ [Next]_vars => raced' BY RacedStays
<1> QED BY <1>1, <1>2, <1>3, <1>4, <1>5, HttpInvariant, PTL DEF Spec

-----------------------------------------------------------------------------
(***************************************************************************)
(* The close callback.                                                     *)
(***************************************************************************)

\* close_sse is about to run the callback of c.
Firing(c) == lp.at = "drain_sse" /\ lp.fire /\ lp.conn = c
\* The callback of c has run, and close_ws is about to take c out of the map.
Leaving(c) == lp.at = "close_ws" /\ lp.entry = c
FiredInv(c) ==
    /\ fired[c] \in {0, 1}
    /\ fired[c] = 1 => closed[c]
    /\ \A k \in Kinds, fd \in Fds : clients[k][fd] = c => fired[c] = 0 \/ Leaving(c)
    /\ Firing(c) => fired[c] = 0
    /\ cause[c] \in {"gone", "bye"} => fired[c] = 1 \/ Firing(c)

\* A step that neither runs nor prepares the callback of c.
LEMMA FiredSame ==
    ASSUME NEW c \in Conns, FiredInv(c), fired'[c] = fired[c], closed[c] => closed'[c],
           \A k \in Kinds, fd \in Fds : clients'[k][fd] = c => clients[k][fd] = c \/ ~closed[c],
           Leaving(c) => Leaving(c)' \/ \A k \in Kinds, fd \in Fds : clients'[k][fd] # c,
           Firing(c)' <=> Firing(c),
           cause'[c] = cause[c] \/ cause'[c] \notin {"gone", "bye"}
    PROVE  FiredInv(c)'
  BY DEF FiredInv

\* Workers and clients, ...
LEMMA FiredWorker ==
    ASSUME TypeOK, ConnInv, \A d \in Conns : FiredInv(d), NEW c \in Conns,
           Accept(c) \/ ClientSends(c) \/ ClientLeaves(c) \/ WorkerStep(c)
    PROVE  \A d \in Conns : FiredInv(d)'
<1> USE DEF connVars, loopVars, history
<1>1. UNCHANGED <<fired, closed, cause, lp>>
  BY DEF Accept, ClientSends, ClientLeaves, WorkerStep, HandleConnection, ServeRequest, EndRequest,
     Upgrade, MapInsert, Register, Unmap, MoveSlot, AddClient, EpollAdd, ReleaseSlot
<1>2. \A k \in Kinds, fd \in Fds, d \in Conns : clients'[k][fd] = d => clients[k][fd] = d \/ ~closed[d]
  <2>1. CASE MapInsert(c)
    <3>1. ~closed[c] /\ kind[c] \in Kinds /\ num[c] \in Fds
      BY <2>1 DEF MapInsert, ConnInv, PlaceInv, Up
    <3> QED BY <2>1, <3>1 DEF MapInsert, TypeOK, Tables
  <2>2. CASE Unmap(c)
    <3>1. kind[c] \in Kinds /\ num[c] \in Fds
      BY <2>2 DEF Unmap, ConnInv, PlaceInv, Mapped
    <3> QED BY <2>2, <3>1, Apart DEF Unmap, TypeOK, Tables
  <2>3. CASE ~MapInsert(c) /\ ~Unmap(c)
    BY <2>3 DEF Accept, ClientSends, ClientLeaves, WorkerStep, HandleConnection, ServeRequest,
       EndRequest, Upgrade, Register, MoveSlot, AddClient, EpollAdd, ReleaseSlot
  <2> QED BY <2>1, <2>2, <2>3
<1>3. \A d \in Conns : (Leaving(d)' <=> Leaving(d)) /\ (Firing(d)' <=> Firing(d))
  BY <1>1 DEF Leaving, Firing
<1> QED BY <1>1, <1>2, <1>3, FiredSame

\* ... scripts, ...
LEMMA FiredActor ==
    ASSUME TypeOK, ConnInv, \A d \in Conns : FiredInv(d), NEW a \in Actors,
           BeginSend(a) \/ CloseConn(a) \/ ActorStep(a)
    PROVE  \A d \in Conns : FiredInv(d)'
<1> USE DEF connVars, loopVars, history
<1>1. UNCHANGED <<fired, clients, lp>>
  BY DEF BeginSend, CloseConn, ActorStep, SendLock, SendWrite, CloseFrame
<1>2. \/ UNCHANGED <<closed, cause>>
      \/ \E c \in Conns, why \in {"server", "send"} : SetClosed(c, why)
  <2>1. CASE SendWrite(a)
    <3>1. act[a].conn \in Conns BY <2>1 DEF SendWrite, ConnInv, SendInv
    <3> QED BY <2>1, <3>1 DEF SendWrite
  <2>2. CASE CloseConn(a) BY <2>2 DEF CloseConn
  <2> QED BY <2>1, <2>2 DEF BeginSend, ActorStep, SendLock, CloseFrame
<1>3. \A d \in Conns : /\ closed[d] => closed'[d]
                       /\ cause'[d] = cause[d] \/ cause'[d] \notin {"gone", "bye"}
  <2>1. ASSUME NEW c \in Conns, NEW why \in {"server", "send"}, SetClosed(c, why)
        PROVE  \A d \in Conns : /\ closed[d] => closed'[d]
                                /\ cause'[d] = cause[d] \/ cause'[d] \notin {"gone", "bye"}
    <3>1. closed' = [closed EXCEPT ![c] = TRUE] BY <2>1 DEF SetClosed
    <3>2. cause' = cause \/ cause' = [cause EXCEPT ![c] = why] BY <2>1 DEF SetClosed
    <3> QED BY <3>1, <3>2 DEF TypeOK
  <2> QED BY <1>2, <2>1
<1>4. \A d \in Conns : (Leaving(d)' <=> Leaving(d)) /\ (Firing(d)' <=> Firing(d))
  BY <1>1 DEF Leaving, Firing
<1> QED BY <1>1, <1>3, <1>4, FiredSame

\* The loop ends a WebSocket connection: the callback runs now, or not at all.
LEMMA FiredEnds ==
    ASSUME TypeOK, ConnInv, \A d \in Conns : FiredInv(d), NEW e \in Conns,
           clients["ws"][lp.fd] = e, lp.fd \in Fds, lp.at \in {"read", "frames"},
           NEW why \in {"client", "bye", "gone", "send"}, NEW b \in BOOLEAN,
           why \in {"bye", "gone"} => b, SetClosed(e, why), clients' = clients,
           fired' = IF b THEN [fired EXCEPT ![e] = @ + 1] ELSE fired,
           b => lp'.at = "close_ws", ~b => lp'.at \in {"frames", "after"}, lp'.entry = e
    PROVE  \A d \in Conns : FiredInv(d)'
<1>1. fired[e] = 0 BY DEF FiredInv, Leaving, Kinds
<1>2. ~Firing(e) /\ \A d \in Conns : ~Leaving(d) /\ ~Firing(d) /\ ~Firing(d)'
  BY DEF Leaving, Firing
<1>3. closed' = [closed EXCEPT ![e] = TRUE] BY DEF SetClosed
<1>4. cause' = cause \/ cause' = [cause EXCEPT ![e] = why] BY DEF SetClosed
<1>5. ASSUME NEW d \in Conns, d # e PROVE FiredInv(d)'
  <2>1. fired'[d] = fired[d] /\ closed'[d] = closed[d] /\ cause'[d] = cause[d]
    BY <1>3, <1>4, <1>5 DEF TypeOK
  <2> QED BY <1>2, <2>1, FiredSame
<1>6. FiredInv(e)'
  <2>1. closed'[e] BY <1>3 DEF TypeOK
  <2>2. CASE ~b
    <3>1. fired'[e] = fired[e] /\ why \notin {"bye", "gone"} BY <2>2
    <3>2. cause'[e] = cause[e] \/ cause'[e] \notin {"gone", "bye"} BY <1>4, <3>1 DEF TypeOK
    <3> QED BY <1>2, <2>1, <3>1, <3>2, FiredSame
  <2>3. CASE b
    <3>1. fired'[e] = 1 BY <1>1, <2>3 DEF TypeOK
    <3>2. Leaving(e)' BY <2>3 DEF Leaving
    <3> QED BY <1>2, <2>1, <3>1, <3>2 DEF FiredInv
  <2> QED BY <2>2, <2>3
<1> QED BY <1>5, <1>6

\* Steps of the loop that close nothing and run no callback.
LEMMA FiredMoves ==
    ASSUME \A d \in Conns : FiredInv(d), UNCHANGED <<fired, closed, cause, clients>>,
           \A d \in Conns : Leaving(d) => Leaving(d)', \A d \in Conns : Firing(d)' <=> Firing(d)
    PROVE  \A d \in Conns : FiredInv(d)'
  BY FiredSame

\* ... and the loop.
LEMMA FiredLoop ==
    ASSUME TypeOK, ConnInv, \A d \in Conns : FiredInv(d), LoopStep
    PROVE  \A d \in Conns : FiredInv(d)'
<1> USE DEF connVars, loopVars, history
<1>1. CASE WsEof
  <2>1. lp.at = "read" /\ ~entryClosed[lp.entry] /\ kind[lp.entry] = "ws"
    BY <1>1 DEF WsEof, ReadEnd
  <2>2. PICK e \in Conns : lp.entry = e /\ clients["ws"][lp.fd] = e /\ e # None /\ lp.fd \in Fds
    BY <2>1, ReadEntry
  <2>3. lp'.at = "close_ws" /\ lp'.entry = e /\ clients' = clients
    BY <1>1, <2>2 DEF WsEof, TypeOK, LoopType
  <2>4. CASE closed[e]
    <3>1. UNCHANGED <<fired, closed, cause>> BY <1>1, <2>2, <2>4 DEF WsEof
    <3>2. \A d \in Conns : ~Leaving(d) /\ ~Firing(d) /\ ~Firing(d)'
      BY <2>1, <2>3 DEF Leaving, Firing
    <3> QED BY <2>3, <3>1, <3>2, FiredMoves
  <2>5. CASE ~closed[e]
    <3>1. SetClosed(e, "gone") /\ fired' = IF TRUE THEN [fired EXCEPT ![e] = @ + 1] ELSE fired
      BY <1>1, <2>2, <2>5 DEF WsEof
    <3> QED BY <2>1, <2>2, <2>3, <3>1, FiredEnds
  <2> QED BY <2>4, <2>5
<1>2. CASE WsFrame
  <2>1. lp.at = "frames" /\ clients' = clients BY <1>2 DEF WsFrame
  <2>2. PICK e \in Conns : /\ lp.entry = e /\ clients["ws"][lp.fd] = e /\ lp.conn = e
                           /\ lp.fd \in Fds
    BY <2>1, FrameEntry
  <2>3. \/ UNCHANGED <<lp, closed, cause, fired>>
        \/ \E why \in {"client", "send"} :
             /\ SetClosed(e, why) /\ fired' = fired
             /\ lp' = lp \/ lp' = [lp EXCEPT !.at = "after"]
        \/ \E why \in {"bye", "send"} :
             /\ SetClosed(e, why) /\ fired' = [fired EXCEPT ![e] = @ + 1]
             /\ lp' = [lp EXCEPT !.at = "close_ws"]
    BY <1>2, <2>2, FrameIs
  <2>4. CASE UNCHANGED <<lp, closed, cause, fired>>
    <3>1. \A d \in Conns : (Leaving(d)' <=> Leaving(d)) /\ (Firing(d)' <=> Firing(d))
      BY <2>4 DEF Leaving, Firing
    <3> QED BY <2>1, <2>4, <3>1, FiredMoves
  <2>5. ASSUME NEW why \in {"client", "send"}, SetClosed(e, why), fired' = fired,
               lp' = lp \/ lp' = [lp EXCEPT !.at = "after"]
        PROVE  \A d \in Conns : FiredInv(d)'
    <3>1. lp'.at \in {"frames", "after"} /\ lp'.entry = e
      BY <2>1, <2>2, <2>5 DEF TypeOK, LoopType
    <3>2. fired' = IF FALSE THEN [fired EXCEPT ![e] = @ + 1] ELSE fired BY <2>5
    <3> QED BY <2>1, <2>2, <2>5, <3>1, <3>2, FiredEnds
  <2>6. ASSUME NEW why \in {"bye", "send"}, SetClosed(e, why),
               fired' = [fired EXCEPT ![e] = @ + 1], lp' = [lp EXCEPT !.at = "close_ws"]
        PROVE  \A d \in Conns : FiredInv(d)'
    <3>1. lp'.at = "close_ws" /\ lp'.entry = e BY <2>2, <2>6 DEF TypeOK, LoopType
    <3>2. fired' = IF TRUE THEN [fired EXCEPT ![e] = @ + 1] ELSE fired BY <2>6
    <3> QED BY <2>1, <2>2, <2>6, <3>1, <3>2, FiredEnds
  <2> QED BY <2>3, <2>4, <2>5, <2>6
<1>3. CASE CloseWs
  <2>1. PICK e \in Conns : /\ lp.entry = e /\ clients["ws"][lp.fd] = e /\ e # None /\ lp.fd \in Fds
                           /\ lp.at = "close_ws" /\ closed[e]
    BY <1>3, FrameEntry DEF CloseWs, ConnInv, EntryInv
  <2>2. UNCHANGED <<fired, closed, cause>>
    <3>1. SetClosed(e, "stray") BY <1>3, <2>1 DEF CloseWs
    <3> QED BY <1>3, <2>1, <3>1, SetClosedAgain DEF CloseWs
  <2>3. /\ clients' = [clients EXCEPT !["ws"][lp.fd] = None] /\ lp'.at = "drain_ws"
    BY <1>3 DEF CloseWs, TypeOK, LoopType
  <2>4. \A k \in Kinds, fd \in Fds :
           clients'[k][fd] = IF k = "ws" /\ fd = lp.fd THEN None ELSE clients[k][fd]
    BY <2>1, <2>3 DEF TypeOK, Tables, Kinds
  <2>5. \A k \in Kinds, fd \in Fds : clients[k][fd] = e => k = "ws" /\ fd = lp.fd
    BY <2>1 DEF ConnInv, ClientsInv, Kinds
  <2>6. \A k \in Kinds, fd \in Fds : clients'[k][fd] # e BY <2>1, <2>4, <2>5
  <2>7. \A d \in Conns : ~Firing(d) /\ ~Firing(d)' /\ (Leaving(d) => d = e)
    BY <2>1, <2>3 DEF Firing, Leaving
  <2>8. \A k \in Kinds, fd \in Fds, d \in Conns : clients'[k][fd] = d => clients[k][fd] = d
    BY <2>4, Apart
  <2> QED BY <2>2, <2>6, <2>7, <2>8, FiredSame
<1>4. CASE CloseSse
  <2>1. lp.at = "close_sse" /\ lp.fd \in Fds /\ UNCHANGED fired
    BY <1>4 DEF CloseSse, ConnInv, LoopInv, TypeOK, LoopType, FdOrNone
  <2>2. \A d \in Conns : ~Firing(d) /\ ~Leaving(d) BY <2>1 DEF Firing, Leaving
  <2>3. CASE clients["sse"][lp.fd] = None
    <3>1. UNCHANGED <<clients, closed, cause>> /\ lp' = Returned BY <1>4, <2>3 DEF CloseSse
    <3>2. lp'.at # "drain_sse" BY <3>1, LeaveIs, ReturnedIs DEF Returned, TypeOK, LoopType
    <3>3. \A d \in Conns : ~Firing(d)' BY <3>2 DEF Firing
    <3> QED BY <2>1, <2>2, <3>1, <3>3, FiredMoves
  <2>4. CASE clients["sse"][lp.fd] # None
    <3>1. PICK c \in Conns : clients["sse"][lp.fd] = c
      BY <2>1, <2>4 DEF TypeOK, Tables, ConnOrNone, Kinds
    <3>2. /\ lp' = [lp EXCEPT !.at = "drain_sse", !.conn = c, !.fire = ~closed[c]]
          /\ clients' = [clients EXCEPT !["sse"][lp.fd] = None]
          /\ SetClosed(c, IF peer[c] = "gone" THEN "gone" ELSE "stray")
      BY <1>4, <2>4, <3>1 DEF CloseSse
    <3>3. lp'.at = "drain_sse" /\ lp'.conn = c /\ lp'.fire = ~closed[c]
      BY <3>2 DEF TypeOK, LoopType
    <3>4. fired[c] = 0 BY <2>1, <2>2, <3>1 DEF FiredInv, Kinds
    <3>5. \A k \in Kinds, fd \in Fds :
             clients'[k][fd] = IF k = "sse" /\ fd = lp.fd THEN None ELSE clients[k][fd]
      BY <2>1, <3>2 DEF TypeOK, Tables, Kinds
    <3>6. \A k \in Kinds, fd \in Fds : clients'[k][fd] # c
      BY <2>1, <3>1, <3>5, Apart DEF ConnInv, ClientsInv, Kinds
    <3>7. closed' = [closed EXCEPT ![c] = TRUE] BY <3>2 DEF SetClosed
    <3>8. \A d \in Conns : d # c => cause'[d] = cause[d] /\ closed'[d] = closed[d]
      <4>1. cause' = cause \/ \E w : cause' = [cause EXCEPT ![c] = w] BY <3>2 DEF SetClosed
      <4> QED BY <3>7, <4>1 DEF TypeOK
    <3>9. FiredInv(c)'
      <4>1. closed'[c] BY <3>7 DEF TypeOK
      <4>2. CASE closed[c]
        <5>1. cause' = cause BY <3>2, <4>2 DEF SetClosed
        <5>2. cause[c] \notin {"gone", "bye"} BY <2>2, <3>4 DEF FiredInv
        <5>3. ~Firing(c)' BY <3>3, <4>2 DEF Firing
        <5> QED BY <2>1, <3>4, <3>6, <4>1, <5>1, <5>2, <5>3 DEF FiredInv
      <4>3. CASE ~closed[c]
        <5>1. Firing(c)' BY <3>3, <4>3 DEF Firing
        <5> QED BY <2>1, <3>4, <3>6, <4>1, <5>1 DEF FiredInv
      <4> QED BY <4>2, <4>3
    <3>10. ASSUME NEW d \in Conns, d # c PROVE FiredInv(d)'
      <4>1. ~Firing(d)' BY <3>3, <3>10 DEF Firing
      <4>2. \A k \in Kinds, fd \in Fds : clients'[k][fd] = d => clients[k][fd] = d
        BY <3>5, Apart
      <4> QED BY <2>1, <2>2, <3>8, <3>10, <4>1, <4>2, FiredSame
    <3> QED BY <3>9, <3>10
  <2> QED BY <2>3, <2>4
<1>5. CASE DrainSse
  <2>1. PICK c \in Conns : lp.conn = c /\ lp.at = "drain_sse" /\ lp.fd \in Fds
    BY <1>5 DEF DrainSse, ConnInv, LoopInv, TypeOK, LoopType, ConnOrNone, FdOrNone
  <2>2. /\ UNCHANGED <<clients, closed, cause>> /\ lp' = Returned
        /\ fired' = IF lp.fire THEN [fired EXCEPT ![c] = @ + 1] ELSE fired
    BY <1>5, <2>1 DEF DrainSse
  <2>3. lp'.at # "drain_sse" BY <2>2, LeaveIs, ReturnedIs DEF Returned, TypeOK, LoopType
  <2>4. \A d \in Conns : ~Leaving(d) /\ ~Firing(d)' /\ (Firing(d) <=> d = c /\ lp.fire)
    BY <2>1, <2>3 DEF Leaving, Firing
  <2>5. closed[c] /\ \A k \in Kinds, fd \in Fds : clients[k][fd] # c
    BY <2>1, OutOfMaps DEF ConnInv, DrainInv, Draining
  <2>6. CASE lp.fire
    <3>1. fired'[c] = 1 /\ \A d \in Conns : d # c => fired'[d] = fired[d]
      BY <2>2, <2>4, <2>6 DEF FiredInv, TypeOK
    <3>2. FiredInv(c)' BY <2>2, <2>4, <2>5, <3>1 DEF FiredInv
    <3>3. \A d \in Conns : d # c => FiredInv(d)' BY <2>2, <2>4, <3>1, FiredSame
    <3> QED BY <3>2, <3>3
  <2>7. CASE ~lp.fire BY <2>2, <2>4, <2>7, FiredMoves
  <2> QED BY <2>6, <2>7
<1>6. CASE LoopStep /\ ~WsEof /\ ~WsFrame /\ ~CloseWs /\ ~CloseSse /\ ~DrainSse
  <2>1. UNCHANGED <<fired, closed, cause, clients>>
    BY <1>6 DEF LoopStep, EpollWait, TakeTasks, RunTask, NextEvent, ReadDone, CloseAgain, WsData,
       WsFramesDone, DrainWs, SseData, SseEof
  <2>2. lp.at \notin {"close_ws", "drain_sse"}
    <3>1. CASE EpollWait
      <4>1. lp.at = "batch" BY <3>1 DEF EpollWait, LoopIdle
      <4> QED BY <4>1
    <3>2. CASE TakeTasks \/ RunTask \/ NextEvent BY <3>2 DEF TakeTasks, RunTask, NextEvent
    <3>3. CASE ReadDone \/ CloseAgain BY <3>3 DEF ReadDone, CloseAgain
    <3>4. CASE WsFramesDone \/ DrainWs BY <3>4 DEF WsFramesDone, DrainWs
    <3>5. CASE WsData \/ SseData \/ SseEof
      BY <3>5 DEF WsData, SseData, SseEof, ReadEnd
    <3> QED BY <1>6, <3>1, <3>2, <3>3, <3>4, <3>5 DEF LoopStep
  <2>3. lp'.at # "drain_sse"
    <3>1. CASE ReadDone \/ CloseAgain BY <3>1, LeaveIs DEF ReadDone, CloseAgain
    <3>2. CASE DrainWs BY <3>2, LeaveIs, ReturnedIs DEF DrainWs, Returned, TypeOK, LoopType
    <3>3. CASE EpollWait \/ TakeTasks \/ RunTask \/ NextEvent \/ SseEof
      BY <2>2, <3>3 DEF EpollWait, TakeTasks, RunTask, NextEvent, SseEof, TypeOK, LoopType
    <3>4. CASE WsData \/ WsFramesDone \/ SseData
      <4>1. lp' = lp \/ lp' = [lp EXCEPT !.at = "close_sse", !.ret = "read"]
            \/ lp' = [lp EXCEPT !.at = "close_ws"] \/ lp' = [lp EXCEPT !.at = "read", !.conn = None]
            \/ \E p \in {"close_ws", "frames"} : \E c :
                 lp' = [lp EXCEPT !.at = p, !.conn = c, !.ret = "read"]
        BY <3>4 DEF WsData, WsFramesDone, SseData, To
      <4> QED BY <2>2, <4>1 DEF TypeOK, LoopType
    <3> QED BY <1>6, <3>1, <3>2, <3>3, <3>4 DEF LoopStep
  <2>4. \A d \in Conns : ~Leaving(d) /\ ~Firing(d) /\ ~Firing(d)'
    BY <2>2, <2>3 DEF Leaving, Firing
  <2> QED BY <2>1, <2>4, FiredMoves
<1> QED BY <1>1, <1>2, <1>3, <1>4, <1>5, <1>6

\* Every step.
LEMMA FiredStep ==
    ASSUME TypeOK, ConnInv, \A d \in Conns : FiredInv(d), [Next]_vars
    PROVE  \A d \in Conns : FiredInv(d)'
<1>1. CASE UNCHANGED vars
  BY <1>1 DEF vars, connVars, loopVars, history, FiredInv, Leaving, Firing
<1> QED BY <1>1, FiredWorker, FiredActor, FiredLoop DEF Next

-----------------------------------------------------------------------------
(***************************************************************************)
(* The reference for on_message, one frame at a time.                      *)
(***************************************************************************)
LEMMA PendingStep ==
    ASSUME NEW s, NEW i \in Nat \ {0}
    PROVE  Pending(s, i + 1) <=> s[i] = "first" \/ (Pending(s, i) /\ s[i] # "last")
<1>1. Pending(s, i + 1) => s[i] = "first" \/ (Pending(s, i) /\ s[i] # "last") BY DEF Pending
<1>2. s[i] = "first" => Pending(s, i + 1) BY DEF Pending
<1>3. ASSUME Pending(s, i), s[i] # "last" PROVE Pending(s, i + 1)
  <2>1. PICK j \in 1 .. i - 1 : s[j] = "first" /\ \A k \in j + 1 .. i - 1 : s[k] # "last"
    BY <1>3 DEF Pending
  <2>2. j \in 1 .. (i + 1) - 1 /\ \A k \in j + 1 .. (i + 1) - 1 : s[k] # "last"
    BY <1>3, <2>1
  <2> QED BY <2>1, <2>2 DEF Pending
<1> QED BY <1>1, <1>2, <1>3

\* The parts of a message after one more frame.
LEMMA PartsStep ==
    ASSUME NEW s, NEW i \in Nat \ {0}
    PROVE  /\ s[i] \in {"text", "first"} => Parts(s, i) = {i}
           /\ s[i] \in {"cont", "last"} => Parts(s, i) = Parts(s, i - 1) \cup {i}
           /\ s[i] = "ping" => Parts(s, i) = Parts(s, i - 1)
<1>1. ASSUME NEW j PROVE
         j \in Parts(s, i) <=> \/ j = i /\ s[i] \in {"text", "first", "cont", "last"}
                               \/ j \in Parts(s, i - 1) /\ s[i] \in {"cont", "last", "ping"}
  <2>1. j \in Parts(s, i) <=> /\ j \in 1 .. i /\ s[j] \in {"text", "first", "cont", "last"}
                              /\ \A k \in j + 1 .. i : s[k] \in {"cont", "last", "ping"}
    BY DEF Parts
  <2>2. j \in Parts(s, i - 1) <=> /\ j \in 1 .. i - 1 /\ s[j] \in {"text", "first", "cont", "last"}
                                  /\ \A k \in j + 1 .. i - 1 : s[k] \in {"cont", "last", "ping"}
    BY DEF Parts
  <2>3. j \in 1 .. i <=> j = i \/ j \in 1 .. i - 1 OBVIOUS
  <2>4. j = i => j + 1 .. i = {} OBVIOUS
  <2>5. j \in 1 .. i - 1 => \A k : k \in j + 1 .. i <=> k = i \/ k \in j + 1 .. i - 1
    OBVIOUS
  <2>6. CASE j = i BY <2>1, <2>2, <2>3, <2>4, <2>6
  <2>7. CASE j \in 1 .. i - 1 BY <2>1, <2>2, <2>3, <2>5, <2>7
  <2>8. CASE j \notin 1 .. i BY <2>1, <2>2, <2>3, <2>8
  <2> QED BY <2>3, <2>6, <2>7, <2>8
<1>2. ASSUME s[i] \in {"text", "first"} PROVE Parts(s, i) = {i}
  <2>1. ASSUME NEW j PROVE j \in Parts(s, i) <=> j \in {i} BY <1>1, <1>2
  <2> QED BY <2>1
<1>3. ASSUME s[i] \in {"cont", "last"} PROVE Parts(s, i) = Parts(s, i - 1) \cup {i}
  <2>1. ASSUME NEW j PROVE j \in Parts(s, i) <=> j \in Parts(s, i - 1) \cup {i} BY <1>1, <1>3
  <2> QED BY <2>1
<1>4. ASSUME s[i] = "ping" PROVE Parts(s, i) = Parts(s, i - 1)
  <2>1. ASSUME NEW j PROVE j \in Parts(s, i) <=> j \in Parts(s, i - 1) BY <1>1, <1>4
  <2> QED BY <2>1
<1> QED BY <1>2, <1>3, <1>4

\* They are frames received so far.
LEMMA PartsBounds ==
    ASSUME NEW s, NEW i \in Nat
    PROVE  Parts(s, i) \subseteq 1 .. i /\ IsFiniteSet(Parts(s, i)) /\ Cardinality(Parts(s, i)) \in Nat
<1>1. Parts(s, i) \subseteq 1 .. i BY DEF Parts
<1>2. IsFiniteSet(1 .. i) BY FS_Interval
<1> QED BY <1>1, <1>2, FS_Subset, FS_CardinalityType

\* The messages completed by the first q frames.
Done(s, q) == {j \in Completes(s) : j <= q}

\* The messages completed are finitely many.
LEMMA DoneBounds ==
    ASSUME NEW s \in Seq(FrameKinds), NEW q
    PROVE  IsFiniteSet(Done(s, q)) /\ Cardinality(Done(s, q)) \in Nat
<1>1. Done(s, q) \subseteq 1 .. Len(s) BY DEF Done, Completes
<1>2. IsFiniteSet(1 .. Len(s)) BY FS_Interval
<1> QED BY <1>1, <1>2, FS_Subset, FS_CardinalityType

\* One frame completes at most one message.
LEMMA DoneStep ==
    ASSUME NEW s \in Seq(FrameKinds), NEW q \in Nat
    PROVE  /\ q + 1 \notin Completes(s) => Done(s, q + 1) = Done(s, q)
           /\ q + 1 \in Completes(s) =>
                Cardinality(Done(s, q + 1)) = Cardinality(Done(s, q)) + 1
<1>1. Completes(s) \subseteq Nat BY DEF Completes
<1>2. \A j \in Nat : j <= q + 1 <=> j <= q \/ j = q + 1 OBVIOUS
<1>3. q + 1 \notin Completes(s) => Done(s, q + 1) = Done(s, q) BY <1>1, <1>2 DEF Done
<1>4. ASSUME q + 1 \in Completes(s) PROVE Cardinality(Done(s, q + 1)) = Cardinality(Done(s, q)) + 1
  <2>1. Done(s, q + 1) = Done(s, q) \cup {q + 1} BY <1>1, <1>2, <1>4 DEF Done
  <2>2. q + 1 \notin Done(s, q) BY DEF Done
  <2> QED BY <2>1, <2>2, DoneBounds, FS_AddElement
<1> QED BY <1>3, <1>4

(***************************************************************************)
(* More frames change nothing about the earlier ones.                      *)
(***************************************************************************)
Agree(s, t, n) == \A j \in 1 .. n : s[j] = t[j]

\* The parts and what is pending depend on the frames so far only, ...
LEMMA AgreeSame ==
    ASSUME NEW s, NEW t, NEW n \in Nat, Agree(s, t, n), NEW i \in Nat, i <= n
    PROVE  Parts(s, i) = Parts(t, i) /\ (Pending(s, i + 1) <=> Pending(t, i + 1))
<1>1. \A j \in 1 .. i : s[j] = t[j] BY DEF Agree
<1>2. \A j \in 1 .. i : \A k \in j + 1 .. i : s[k] = t[k] BY <1>1
<1>3. Parts(s, i) = Parts(t, i) BY <1>1, <1>2 DEF Parts
<1>4. Pending(s, i + 1) <=> Pending(t, i + 1) BY <1>1, <1>2 DEF Pending
<1> QED BY <1>3, <1>4

\* ... so does a violation of the protocol, ...
LEMMA AgreeBreaks ==
    ASSUME NEW s, NEW t, NEW n \in Nat, Agree(s, t, n), NEW i \in 1 .. n
    PROVE  Breaks(s, i) <=> Breaks(t, i)
<1>1. Parts(s, i) = Parts(t, i) BY AgreeSame
<1>2. Pending(s, i) <=> Pending(t, i)
  <2>1. i - 1 \in Nat /\ i - 1 <= n /\ (i - 1) + 1 = i OBVIOUS
  <2>2. Pending(s, (i - 1) + 1) <=> Pending(t, (i - 1) + 1) BY <2>1, AgreeSame
  <2> QED BY <2>1, <2>2
<1>3. s[i] = t[i] BY DEF Agree
<1> QED BY <1>1, <1>2, <1>3 DEF Breaks

\* ... and so do the messages completed.
LEMMA AgreeCompletes ==
    ASSUME NEW s \in Seq(FrameKinds), NEW t \in Seq(FrameKinds), NEW n \in Nat, Agree(s, t, n),
           n <= Len(s), n <= Len(t)
    PROVE  /\ \A i \in 1 .. n : i \in Completes(s) <=> i \in Completes(t)
           /\ \A i \in 0 .. n : Done(s, i) = Done(t, i)
<1>1. \A i \in 1 .. n : i \in DOMAIN s /\ i \in DOMAIN t /\ s[i] = t[i] BY DEF Agree
<1>2. \A i \in 1 .. n : \A j \in 1 .. i : j \in 1 .. n OBVIOUS
<1>3. \A j \in 1 .. n : Breaks(s, j) <=> Breaks(t, j) BY AgreeBreaks
<1>4. \A i \in 1 .. n : i \in Completes(s) <=> i \in Completes(t)
  BY <1>1, <1>2, <1>3 DEF Completes
<1>5. Completes(s) \subseteq 1 .. Len(s) /\ Completes(t) \subseteq 1 .. Len(t)
  BY DEF Completes
<1>6. ASSUME NEW i \in 0 .. n PROVE Done(s, i) = Done(t, i)
  <2>1. \A j \in Completes(s) \cup Completes(t) : j <= i => j \in 1 .. n BY <1>5
  <2> QED BY <1>4, <2>1 DEF Done
<1> QED BY <1>4, <1>6

-----------------------------------------------------------------------------
(***************************************************************************)
(* Messages under assembly.                                                *)
(***************************************************************************)
Increasing(m) == \A i, j \in DOMAIN m : i < j => m[i] < m[j]

\* m is the n-th message that s completes.
Message(s, n, m) ==
    /\ m[Len(m)] \in Completes(s)
    /\ n = Cardinality(Done(s, m[Len(m)]))
    /\ Elems(m) = Parts(s, m[Len(m)])
    /\ Increasing(m)

\* After the first q frames of s: f is kept for the message they leave unfinished, d was handed
\* to on_message.
Assembled(s, q, f, d) ==
    /\ q \in 0 .. Len(s)
    /\ \A j \in 1 .. q : ~Breaks(s, j)
    /\ Cardinality(Parts(s, q)) <= MaxParts
    /\ Len(d) = Cardinality(Done(s, q))
    /\ IF Pending(s, q + 1)
       THEN /\ f # <<>> /\ Elems(f) = Parts(s, q)
            /\ Len(f) = Cardinality(Parts(s, q)) /\ Increasing(f)
       ELSE f = <<>>

\* Before the first frame.
LEMMA AssembledFirst ==
    ASSUME NEW s \in Seq(FrameKinds)
    PROVE  Assembled(s, 0, <<>>, <<>>)
<1>1. Parts(s, 0) = {} BY DEF Parts
<1>2. Done(s, 0) = {}
  <2>1. Completes(s) \subseteq 1 .. Len(s) BY DEF Completes
  <2> QED BY <2>1 DEF Done
<1>3. ~Pending(s, 0 + 1) BY DEF Pending
<1>4. Cardinality(Parts(s, 0)) = 0 /\ Cardinality(Done(s, 0)) = 0 BY <1>1, <1>2, FS_EmptySet
<1>5. Len(<<>>) = 0 /\ 0 \in 0 .. Len(s) /\ 0 <= MaxParts BY Apart
<1>6. \A j \in 1 .. 0 : ~Breaks(s, j) OBVIOUS
<1> QED BY <1>3, <1>4, <1>5, <1>6 DEF Assembled

\* More frames change nothing about the earlier ones.
LEMMA AssembledLonger ==
    ASSUME NEW s \in Seq(FrameKinds), NEW t \in Seq(FrameKinds), Agree(s, t, Len(s)),
           Len(s) <= Len(t)
    PROVE  /\ \A q, f, d : Assembled(s, q, f, d) => Assembled(t, q, f, d)
           /\ \A n, m : Message(s, n, m) => Message(t, n, m)
<1>1. Len(s) \in Nat /\ Len(t) \in Nat OBVIOUS
<1>2. ASSUME NEW q, NEW f, NEW d, Assembled(s, q, f, d) PROVE Assembled(t, q, f, d)
  <2>1. q \in 0 .. Len(s) /\ q \in Nat BY <1>1, <1>2 DEF Assembled
  <2>2. Parts(s, q) = Parts(t, q) /\ (Pending(s, q + 1) <=> Pending(t, q + 1))
    BY <1>1, <2>1, AgreeSame
  <2>3. \A j \in 1 .. q : Breaks(s, j) <=> Breaks(t, j) BY <1>1, <2>1, AgreeBreaks
  <2>4. Done(s, q) = Done(t, q) BY <1>1, <2>1, AgreeCompletes
  <2> QED BY <1>1, <1>2, <2>1, <2>2, <2>3, <2>4 DEF Assembled
<1>3. ASSUME NEW n, NEW m, Message(s, n, m) PROVE Message(t, n, m)
  <2> DEFINE i == m[Len(m)]
  <2>1. i \in Completes(s) /\ i \in 1 .. Len(s) BY <1>3 DEF Message, Completes
  <2>2. i \in Completes(t) /\ Done(s, i) = Done(t, i) BY <1>1, <2>1, AgreeCompletes
  <2>3. Parts(s, i) = Parts(t, i) BY <1>1, <2>1, AgreeSame
  <2> QED BY <1>3, <2>2, <2>3 DEF Message
<1> QED BY <1>2, <1>3

(***************************************************************************)
(* One frame of the loop of on_ws_data, by its kind.                       *)
(***************************************************************************)
LEMMA FramePing ==
    ASSUME NEW s \in Seq(FrameKinds), NEW q \in Nat, q + 1 <= Len(s), NEW f, NEW d,
           Assembled(s, q, f, d), s[q + 1] = "ping"
    PROVE  Assembled(s, q + 1, f, d)
<1>1. q + 1 \in Nat \ {0} /\ (q + 1) - 1 = q OBVIOUS
<1>2. Parts(s, q + 1) = Parts(s, q) BY <1>1, PartsStep
<1>3. Pending(s, (q + 1) + 1) <=> Pending(s, q + 1) BY <1>1, PendingStep
<1>4. ~Breaks(s, q + 1)
  <2>1. Cardinality(Parts(s, q)) \in Nat BY PartsBounds
  <2> QED BY <1>2, <2>1, Apart DEF Breaks, Assembled
<1>5. Done(s, q + 1) = Done(s, q) BY DoneStep DEF Completes
<1>6. \A j \in 1 .. q + 1 : j \in 1 .. q \/ j = q + 1 OBVIOUS
<1>7. q + 1 \in 0 .. Len(s) OBVIOUS
<1> QED BY <1>2, <1>3, <1>4, <1>5, <1>6, <1>7 DEF Assembled

\* A frame that breaks nothing completes a message or does not.
LEMMA NoBreak ==
    ASSUME NEW s \in Seq(FrameKinds), NEW q \in Nat, q + 1 <= Len(s), NEW f, NEW d,
           Assembled(s, q, f, d), ~Breaks(s, q + 1)
    PROVE  /\ q + 1 \in 0 .. Len(s) /\ \A j \in 1 .. q + 1 : ~Breaks(s, j)
           /\ s[q + 1] \in {"text", "last"} =>
                 /\ q + 1 \in Completes(s)
                 /\ Cardinality(Done(s, q + 1)) = Len(d) + 1
           /\ s[q + 1] \notin {"text", "last"} => Cardinality(Done(s, q + 1)) = Len(d)
<1>1. \A j \in 1 .. q + 1 : j \in 1 .. q \/ j = q + 1 OBVIOUS
<1>2. q + 1 \in 0 .. Len(s) /\ q + 1 \in DOMAIN s OBVIOUS
<1>3. \A j \in 1 .. q + 1 : ~Breaks(s, j) BY <1>1 DEF Assembled
<1>4. q + 1 \in Completes(s) <=> s[q + 1] \in {"text", "last"} BY <1>2, <1>3 DEF Completes
<1>5. Len(d) = Cardinality(Done(s, q)) BY DEF Assembled
<1> QED BY <1>2, <1>3, <1>4, <1>5, DoneStep

\* A message of one frame, and the first frame of a longer one.
LEMMA FrameStart ==
    ASSUME NEW s \in Seq(FrameKinds), NEW q \in Nat, q + 1 <= Len(s), NEW d \in Seq(Seq(Nat)),
           Assembled(s, q, <<>>, d), s[q + 1] \in {"text", "first"}
    PROVE  /\ s[q + 1] = "text" => /\ Assembled(s, q + 1, <<>>, Append(d, <<q + 1>>))
                                   /\ Message(s, Len(d) + 1, <<q + 1>>)
           /\ s[q + 1] = "first" => Assembled(s, q + 1, <<q + 1>>, d)
<1> DEFINE m == <<q + 1>>
<1>1. q + 1 \in Nat \ {0} /\ (q + 1) - 1 = q OBVIOUS
<1>2. Parts(s, q + 1) = {q + 1} BY <1>1, PartsStep
<1>3. Cardinality(Parts(s, q + 1)) = 1 /\ 1 <= MaxParts /\ ~(1 > MaxParts)
  <2>1. Cardinality({q + 1}) = 1 BY FS_Singleton, Zenon
  <2>2. Cardinality(Parts(s, q + 1)) = 1 BY <1>2, <2>1, Zenon
  <2> QED BY <2>2, Apart
<1>4. ~Pending(s, q + 1) BY DEF Assembled
<1>5. Pending(s, (q + 1) + 1) <=> s[q + 1] = "first" BY <1>1, <1>4, PendingStep
<1>6. ~Breaks(s, q + 1) BY <1>3, <1>4 DEF Breaks
<1>7. m # <<>> /\ Elems(m) = {q + 1} /\ Len(m) = 1 /\ Increasing(m) /\ m[Len(m)] = q + 1
  BY DEF Elems, Increasing
<1>8. ASSUME s[q + 1] = "text"
      PROVE  Assembled(s, q + 1, <<>>, Append(d, m)) /\ Message(s, Len(d) + 1, m)
  <2>1. Len(Append(d, m)) = Len(d) + 1 OBVIOUS
  <2>2. q + 1 \in Completes(s) /\ Cardinality(Done(s, q + 1)) = Len(d) + 1
    BY <1>6, <1>8, NoBreak
  <2>3. q + 1 \in 0 .. Len(s) /\ \A j \in 1 .. q + 1 : ~Breaks(s, j) BY <1>6, NoBreak
  <2>4. Message(s, Len(d) + 1, m) BY <1>2, <1>7, <2>2 DEF Message
  <2>5. Assembled(s, q + 1, <<>>, Append(d, m))
    BY <1>3, <1>5, <1>8, <2>1, <2>2, <2>3 DEF Assembled
  <2> QED BY <2>4, <2>5
<1>9. ASSUME s[q + 1] = "first" PROVE Assembled(s, q + 1, m, d)
  <2>1. Cardinality(Done(s, q + 1)) = Len(d) BY <1>6, <1>9, NoBreak
  <2>2. q + 1 \in 0 .. Len(s) /\ \A j \in 1 .. q + 1 : ~Breaks(s, j) BY <1>6, NoBreak
  <2>3. Elems(m) = Parts(s, q + 1) BY <1>2, <1>7
  <2> HIDE DEF m
  <2> QED BY <1>3, <1>5, <1>7, <1>9, <2>1, <2>2, <2>3 DEF Assembled
<1> QED BY <1>8, <1>9

\* A frame that goes on with a message, or ends it.
LEMMA FrameMore ==
    ASSUME NEW s \in Seq(FrameKinds), NEW q \in Nat, q + 1 <= Len(s), NEW f \in Seq(Nat),
           NEW d \in Seq(Seq(Nat)), f # <<>>, Len(f) + 1 <= MaxParts,
           Assembled(s, q, f, d), s[q + 1] \in {"cont", "last"}
    PROVE  LET m == Append(f, q + 1) IN
           /\ s[q + 1] = "cont" => Assembled(s, q + 1, m, d)
           /\ s[q + 1] = "last" => /\ Assembled(s, q + 1, <<>>, Append(d, m))
                                   /\ Message(s, Len(d) + 1, m)
<1> DEFINE m == Append(f, q + 1)
<1>1. q + 1 \in Nat \ {0} /\ (q + 1) - 1 = q OBVIOUS
<1>2. Pending(s, q + 1) BY DEF Assembled
<1>3. Elems(f) = Parts(s, q) /\ Len(f) = Cardinality(Parts(s, q)) /\ Increasing(f)
  BY <1>2 DEF Assembled
<1>4. Parts(s, q + 1) = Parts(s, q) \cup {q + 1} BY <1>1, PartsStep
<1>5. Parts(s, q) \subseteq 1 .. q /\ IsFiniteSet(Parts(s, q)) BY PartsBounds
<1>6. Cardinality(Parts(s, q + 1)) = Len(f) + 1
  <2> DEFINE P == Parts(s, q)
  <2>1. q + 1 \notin P /\ IsFiniteSet(P) BY <1>5
  <2> HIDE DEF P
  <2>2. Cardinality(P \cup {q + 1}) = Cardinality(P) + 1 BY <2>1, FS_AddElement
  <2> QED BY <1>3, <1>4, <2>2 DEF P
<1>7. Len(m) = Len(f) + 1 /\ m # <<>> /\ m[Len(m)] = q + 1 OBVIOUS
<1>8. Elems(m) = Parts(s, q + 1)
  <2>1. q + 1 \in Nat OBVIOUS
  <2>2. Elems(m) = Elems(f) \cup {q + 1} BY <2>1, AppendElements
  <2> QED BY <1>3, <1>4, <2>2
<1>9. Increasing(m)
  <2>1. \A i \in DOMAIN f : f[i] \in 1 .. q BY <1>3, <1>5 DEF Elems
  <2>2. /\ DOMAIN m = 1 .. Len(f) + 1 /\ DOMAIN f = 1 .. Len(f) /\ Len(f) \in Nat
        /\ m[Len(f) + 1] = q + 1 /\ \A k \in 1 .. Len(f) : m[k] = f[k]
    OBVIOUS
  <2> HIDE DEF m
  <2>3. ASSUME NEW i \in DOMAIN m, NEW j \in DOMAIN m, i < j PROVE m[i] < m[j]
    <3>1. i \in 1 .. Len(f) /\ m[i] = f[i] BY <2>3, <2>2
    <3>2. CASE j = Len(f) + 1
      <4>1. m[j] = q + 1 /\ m[i] \in 1 .. q BY <2>1, <2>2, <3>1, <3>2
      <4> QED BY <4>1
    <3>3. CASE j # Len(f) + 1
      <4>1. j \in 1 .. Len(f) + 1 /\ Len(f) \in Nat BY <2>3, <2>2
      <4>2. j \in 1 .. Len(f) BY <3>3, <4>1
      <4>3. m[j] = f[j] BY <2>2, <4>2
      <4> QED BY <1>3, <2>3, <2>2, <3>1, <4>2, <4>3 DEF Increasing
    <3> QED BY <3>2, <3>3
  <2> QED BY <2>3 DEF Increasing
<1>10. ~Breaks(s, q + 1) BY <1>2, <1>6, Apart DEF Breaks
<1>11. Pending(s, (q + 1) + 1) <=> s[q + 1] = "cont" BY <1>1, <1>2, PendingStep
<1>12. q + 1 \in 0 .. Len(s) /\ \A j \in 1 .. q + 1 : ~Breaks(s, j) BY <1>10, NoBreak
<1>13. ASSUME s[q + 1] = "cont" PROVE Assembled(s, q + 1, m, d)
  <2>1. Cardinality(Done(s, q + 1)) = Len(d) BY <1>10, <1>13, NoBreak, ZenonT(60)
  <2> HIDE DEF m
  <2> QED BY <1>6, <1>7, <1>8, <1>9, <1>11, <1>12, <1>13, <2>1 DEF Assembled
<1>14. ASSUME s[q + 1] = "last"
       PROVE  Assembled(s, q + 1, <<>>, Append(d, m)) /\ Message(s, Len(d) + 1, m)
  <2>1. q + 1 \in Completes(s) /\ Cardinality(Done(s, q + 1)) = Len(d) + 1
    BY <1>10, <1>14, NoBreak
  <2>2. Len(Append(d, m)) = Len(d) + 1 BY AppendProperties
  <2>3. Message(s, Len(d) + 1, m) BY <1>7, <1>8, <1>9, <2>1 DEF Message
  <2>4. Assembled(s, q + 1, <<>>, Append(d, m))
    BY <1>6, <1>11, <1>12, <1>14, <2>1, <2>2 DEF Assembled
  <2> QED BY <2>3, <2>4
<1> QED BY <1>13, <1>14

-----------------------------------------------------------------------------
(***************************************************************************)
(* What the loop has read.                                                 *)
(***************************************************************************)

\* s holds m + 1, m + 2, ...
Consec(s, m) == \A i \in DOMAIN s : s[i] = m + i

\* read() takes the first n frames out of the kernel's buffer, ...
LEMMA ConsecDrop ==
    ASSUME NEW x \in Seq(Nat), NEW k \in Nat, Consec(x, k), NEW n \in 1 .. Len(x)
    PROVE  /\ Len(SubSeq(x, n + 1, Len(x))) = Len(x) - n
           /\ Consec(SubSeq(x, n + 1, Len(x)), k + n)
<1> DEFINE z == SubSeq(x, n + 1, Len(x))
<1>1. Len(x) \in Nat /\ n \in Nat /\ n <= Len(x) /\ DOMAIN x = 1 .. Len(x) OBVIOUS
<1>2. z \in Seq(Nat) /\ Len(z) = Len(x) - n /\ \A i \in 1 .. Len(x) - n : z[i] = x[n + i]
  OBVIOUS
<1> HIDE DEF z
<1>3. Consec(z, k + n)
  <2>1. DOMAIN z = 1 .. Len(x) - n BY <1>2
  <2>2. ASSUME NEW i \in 1 .. Len(x) - n PROVE z[i] = (k + n) + i
    <3>1. z[i] = x[n + i] /\ n + i \in DOMAIN x BY <1>1, <1>2
    <3>2. x[n + i] = k + (n + i) BY <3>1 DEF Consec
    <3> QED BY <1>1, <3>1, <3>2
  <2> QED BY <2>1, <2>2 DEF Consec
<1> QED BY <1>2, <1>3 DEF z

\* ... and on_ws_data appends them to its own.
LEMMA ConsecMove ==
    ASSUME NEW b \in Seq(Nat), NEW x \in Seq(Nat), NEW q \in Nat, Consec(b, q),
           Consec(x, q + Len(b)), NEW n \in 1 .. Len(x)
    PROVE  /\ Len(b \o SubSeq(x, 1, n)) = Len(b) + n /\ Consec(b \o SubSeq(x, 1, n), q)
           /\ Len(SubSeq(x, n + 1, Len(x))) = Len(x) - n
           /\ Consec(SubSeq(x, n + 1, Len(x)), q + Len(b) + n)
<1> DEFINE y == SubSeq(x, 1, n)
<1>1. y \in Seq(Nat) /\ Len(y) = n /\ \A i \in 1 .. n : y[i] = x[i] OBVIOUS
<1> HIDE DEF y
<1>0. Len(b) \in Nat /\ Len(x) \in Nat /\ n \in Nat /\ n <= Len(x) /\ DOMAIN x = 1 .. Len(x)
  OBVIOUS
<1>3. Len(b \o y) = Len(b) + n
  <2>1. Len(b \o y) = Len(b) + Len(y) BY <1>1, ConcatProperties
  <2> QED BY <1>1, <2>1
<1>4. Consec(b \o y, q)
  <2>1. ASSUME NEW i \in 1 .. Len(b) + n PROVE (b \o y)[i] = q + i
    <3>1. CASE i <= Len(b) BY <1>1, <3>1 DEF Consec
    <3>2. CASE i > Len(b)
      <4>1. i - Len(b) \in 1 .. n /\ (b \o y)[i] = y[i - Len(b)] BY <1>1, <3>2
      <4>2. y[i - Len(b)] = x[i - Len(b)] /\ i - Len(b) \in DOMAIN x BY <1>0, <1>1, <4>1
      <4>3. x[i - Len(b)] = q + Len(b) + (i - Len(b)) BY <4>2 DEF Consec
      <4> QED BY <1>0, <4>1, <4>2, <4>3
    <3>3. i <= Len(b) \/ i > Len(b) BY <1>0
    <3> QED BY <3>1, <3>2, <3>3, Zenon
  <2>2. DOMAIN (b \o y) = 1 .. Len(b) + n
    <3>1. b \o y \in Seq(Nat) BY <1>1, ConcatProperties
    <3> QED BY <1>3, <3>1
  <2> QED BY <2>1, <2>2 DEF Consec
<1>5. Len(SubSeq(x, n + 1, Len(x))) = Len(x) - n
      /\ Consec(SubSeq(x, n + 1, Len(x)), (q + Len(b)) + n)
  <2>1. q + Len(b) \in Nat BY <1>0
  <2> QED BY <2>1, ConsecDrop
<1> QED BY <1>3, <1>4, <1>5 DEF y

\* The frame loop takes the first one.
LEMMA ConsecTail ==
    ASSUME NEW b \in Seq(Nat), NEW q \in Nat, Consec(b, q), b # <<>>
    PROVE  Head(b) = q + 1 /\ Len(Tail(b)) = Len(b) - 1 /\ Consec(Tail(b), q + 1)
<1>1. /\ DOMAIN b = 1 .. Len(b) /\ DOMAIN Tail(b) = 1 .. Len(b) - 1 /\ Len(b) \in Nat \ {0}
      /\ \A i \in 1 .. Len(b) - 1 : Tail(b)[i] = b[i + 1]
      /\ Head(b) = b[1] /\ Len(Tail(b)) = Len(b) - 1
  OBVIOUS
<1> QED BY <1>1 DEF Consec

\* The client sends one more.
LEMMA ConsecAppend ==
    ASSUME NEW x \in Seq(Nat), NEW m \in Nat, Consec(x, m)
    PROVE  Consec(Append(x, m + Len(x) + 1), m) /\ Len(Append(x, m + Len(x) + 1)) = Len(x) + 1
<1> DEFINE y == Append(x, m + Len(x) + 1)
<1>1. /\ DOMAIN y = 1 .. Len(x) + 1 /\ Len(y) = Len(x) + 1 /\ y[Len(x) + 1] = m + Len(x) + 1
      /\ \A i \in 1 .. Len(x) : y[i] = x[i]
  OBVIOUS
<1>2. DOMAIN x = 1 .. Len(x) /\ Len(x) \in Nat OBVIOUS
<1> HIDE DEF y
<1>3. Consec(y, m) BY <1>1, <1>2 DEF Consec
<1> QED BY <1>1, <1>3 DEF y

\* The kernel keeps the last frames sent; nothing is read before the loop has the connection.
InboxInv(c) ==
    /\ pc[c] = "out" => sent[c] = <<>> /\ inbox[c] = <<>>
    /\ open[c] => Len(inbox[c]) <= Len(sent[c]) /\ Consec(inbox[c], Len(sent[c]) - Len(inbox[c]))
    /\ open[c] /\ pc[c] \notin {"arm", "done"} => Len(inbox[c]) = Len(sent[c])

UnreadInv(c) == ~Up(c) => frag[c] = <<>> /\ delivered[c] = <<>>

\* on_ws_data has given up on c: what is left of ws_bufs is not looked at any more.
Broken(c) == lp.entry = c /\ lp.at \in {"after", "close_ws"}
Taken(c, b) == Len(sent[c]) - Len(inbox[c]) - Len(b)

\* The frames before those in the kernel are in the buffer, and the ones before these have been
\* assembled.
BufInv(c) ==
    \A fd \in Fds : clients["ws"][fd] = c /\ ~Broken(c) =>
        /\ Taken(c, buf[fd]) >= 0
        /\ Consec(buf[fd], Taken(c, buf[fd]))
        /\ Assembled(sent[c], Taken(c, buf[fd]), frag[c], delivered[c])

MessagesInv(c) == \A n \in DOMAIN delivered[c] : Message(sent[c], n, delivered[c][n])

ReadInv(c) == InboxInv(c) /\ UnreadInv(c) /\ BufInv(c) /\ MessagesInv(c)

\* Steps that leave what was read of c alone.
LEMMA ReadSame ==
    ASSUME NEW c \in Conns, ReadInv(c), ClientsInv(c)', sent'[c] = sent[c], frag'[c] = frag[c],
           delivered'[c] = delivered[c], pc'[c] = "out" => pc[c] = "out" /\ inbox'[c] = inbox[c],
           open'[c] => (open[c] \/ pc[c] = "out") /\ inbox'[c] = inbox[c],
           open'[c] /\ pc'[c] \notin {"arm", "done"} => pc[c] \notin {"arm", "done"},
           Up(c) => Up(c)',
           \A fd \in Fds : clients'["ws"][fd] = c /\ ~Broken(c)' =>
               clients["ws"][fd] = c /\ ~Broken(c) /\ buf'[fd] = buf[fd]
    PROVE  ReadInv(c)'
<1>1. InboxInv(c)'
  <2>1. CASE pc[c] = "out"
    <3>1. sent[c] = <<>> /\ inbox[c] = <<>> BY <2>1 DEF ReadInv, InboxInv
    <3>2. Consec(<<>>, 0) BY DEF Consec
    <3>3. Len(<<>>) = 0 OBVIOUS
    <3> QED BY <2>1, <3>1, <3>2, <3>3 DEF InboxInv
  <2>2. CASE pc[c] # "out" BY <2>2 DEF ReadInv, InboxInv
  <2> QED BY <2>1, <2>2
<1>2. UnreadInv(c)' BY DEF ReadInv, UnreadInv
<1>3. BufInv(c)'
  <2>1. ASSUME NEW fd \in Fds, clients'["ws"][fd] = c, ~Broken(c)'
        PROVE  /\ Taken(c, buf[fd])' >= 0
               /\ Consec(buf'[fd], Taken(c, buf[fd])')
               /\ Assembled(sent'[c], Taken(c, buf[fd])', frag'[c], delivered'[c])
    <3>1. open'[c] BY <2>1 DEF ClientsInv, Kinds
    <3>2. Taken(c, buf[fd])' = Taken(c, buf[fd]) BY <2>1, <3>1 DEF Taken
    <3> QED BY <2>1, <3>2 DEF ReadInv, BufInv
  <2> QED BY <2>1 DEF BufInv
<1>4. MessagesInv(c)' BY DEF ReadInv, MessagesInv
<1> QED BY <1>1, <1>2, <1>3, <1>4 DEF ReadInv

\* A client sends: earlier frames keep their meaning.
LEMMA ReadSends ==
    ASSUME TypeOK, ConnInv, \A d \in Conns : ReadInv(d), NEW c \in Conns, ClientSends(c),
           TypeOK', ConnInv'
    PROVE  \A d \in Conns : ReadInv(d)'
<1> USE DEF ReadInv
<1>1. PICK s \in Talk[c][kind[c]] :
         /\ Len(s) > Len(sent[c]) /\ SubSeq(s, 1, Len(sent[c])) = sent[c]
         /\ sent' = [sent EXCEPT ![c] = SubSeq(s, 1, Len(@) + 1)]
  BY DEF ClientSends
<1>2. /\ inbox' = [inbox EXCEPT ![c] = Append(@, Len(sent[c]) + 1)]
      /\ open[c] /\ pc[c] \in {"map", "register", "hold", "handler", "arm", "done"}
      /\ UNCHANGED <<open, pc, held, clients, buf, frag, lp, delivered>>
  BY DEF ClientSends, connVars, loopVars, history
<1>3. \A d \in Conns : (Up(d)' <=> Up(d)) /\ (Broken(d)' <=> Broken(d)) BY <1>2 DEF Up, Broken
<1>4. ASSUME NEW d \in Conns, d # c PROVE ReadInv(d)'
  <2>1. sent'[d] = sent[d] /\ inbox'[d] = inbox[d] BY <1>1, <1>2, <1>4 DEF TypeOK
  <2> QED BY <1>2, <1>3, <2>1, ReadSame DEF ConnInv
<1>5. ReadInv(c)'
  <2> DEFINE t == sent'[c]
  <2>1. sent[c] \in Seq(FrameKinds) /\ inbox[c] \in Seq(Nat) /\ t \in Seq(FrameKinds)
        /\ delivered[c] \in Seq(Seq(Nat))
    BY DEF TypeOK
  <2>2. kind[c] \in Kinds
    BY <1>2 DEF ConnInv, PlaceInv, Mapped, Up
  <2>3. s \in Seq(FrameKinds)
    BY <1>1, <2>2, HttpAssumption
  <2>4. t = SubSeq(s, 1, Len(sent[c]) + 1) BY <1>1 DEF TypeOK
  <2>5. Len(t) = Len(sent[c]) + 1 BY <1>1, <2>1, <2>3, <2>4
  <2>6. Agree(sent[c], t, Len(sent[c]))
    <3>1. ASSUME NEW j \in 1 .. Len(sent[c]) PROVE sent[c][j] = t[j]
      <4>1. SubSeq(s, 1, Len(sent[c]))[j] = s[j] BY <1>1, <2>1, <2>3
      <4>2. t[j] = s[j] BY <1>1, <2>1, <2>3, <2>4
      <4> QED BY <1>1, <4>1, <4>2
    <3> QED BY <3>1 DEF Agree
  <2> HIDE DEF t
  <2>7. /\ \A q, f, e : Assembled(sent[c], q, f, e) => Assembled(t, q, f, e)
        /\ \A n, m : Message(sent[c], n, m) => Message(t, n, m)
    BY <2>1, <2>5, <2>6, AssembledLonger
  <2>8. /\ Len(inbox[c]) <= Len(sent[c])
        /\ Consec(inbox[c], Len(sent[c]) - Len(inbox[c]))
    BY <1>2 DEF InboxInv
  <2> DEFINE k == Len(sent[c]) - Len(inbox[c])
  <2>9. k \in Nat /\ k + Len(inbox[c]) + 1 = Len(sent[c]) + 1 BY <2>1, <2>8
  <2>10. inbox'[c] = Append(inbox[c], Len(sent[c]) + 1) BY <1>2 DEF TypeOK
  <2>11. Consec(inbox'[c], k) /\ Len(inbox'[c]) = Len(inbox[c]) + 1
    <3>1. /\ Consec(Append(inbox[c], k + Len(inbox[c]) + 1), k)
          /\ Len(Append(inbox[c], k + Len(inbox[c]) + 1)) = Len(inbox[c]) + 1
      BY <2>1, <2>8, <2>9, ConsecAppend
    <3> QED BY <2>9, <2>10, <3>1
  <2>12. Len(t) - Len(inbox'[c]) = k BY <2>1, <2>5, <2>11
  <2>13. InboxInv(c)'
    <3>1. Len(inbox'[c]) <= Len(t) BY <2>1, <2>5, <2>8, <2>11
    <3>2. pc[c] \notin {"arm", "done"} => Len(inbox'[c]) = Len(t)
      BY <1>2, <2>1, <2>5, <2>11 DEF InboxInv
    <3>3. pc'[c] # "out" BY <1>2
    <3> QED BY <1>2, <2>11, <2>12, <3>1, <3>2, <3>3 DEF InboxInv, t
  <2>14. UnreadInv(c)' BY <1>2, <1>3 DEF UnreadInv
  <2>16. BufInv(c)'
    <3>1. ASSUME NEW fd \in Fds, clients["ws"][fd] = c, ~Broken(c)
          PROVE  /\ Taken(c, buf[fd]) >= 0 /\ Consec(buf[fd], Taken(c, buf[fd]))
                 /\ Assembled(t, Taken(c, buf[fd]), frag[c], delivered[c])
      BY <2>7, <3>1 DEF BufInv
    <3>2. ASSUME NEW fd \in Fds PROVE Taken(c, buf[fd])' = Taken(c, buf[fd])
      BY <1>2, <2>12 DEF Taken, t
    <3> QED BY <1>2, <1>3, <3>1, <3>2 DEF BufInv, t
  <2>17. MessagesInv(c)' BY <1>2, <2>7 DEF MessagesInv, t
  <2> QED BY <2>13, <2>14, <2>16, <2>17
<1> QED BY <1>4, <1>5

-----------------------------------------------------------------------------
\* The worker of c goes on: nothing is read.
LEMMA ReadWorkerMoves ==
    ASSUME TypeOK, ConnInv, \A d \in Conns : ReadInv(d), NEW c \in Conns, ConnInv',
           UNCHANGED <<sent, frag, delivered, lp>>,
           NEW p \in Places \ {"out"}, pc' = [pc EXCEPT ![c] = p],
           p \in {"arm", "done"} \/ pc[c] \notin {"arm", "done"}, Up(c) => Up(c)',
           \A d \in Conns : d # c => held'[d] = held[d],
           \/ UNCHANGED <<open, inbox>>
           \/ open[c] /\ SocketGone(c)
           \/ pc[c] = "out" /\ open' = [open EXCEPT ![c] = TRUE] /\ UNCHANGED inbox,
           \A fd \in Fds, d \in Conns : clients'["ws"][fd] = d =>
               clients["ws"][fd] = d /\ buf'[fd] = buf[fd]
    PROVE  \A d \in Conns : ReadInv(d)'
<1>1. ASSUME NEW d \in Conns PROVE ReadInv(d)'
  <2>1. Broken(d)' <=> Broken(d) BY DEF Broken
  <2>2. pc'[c] = p /\ \A e \in Conns : e # c => pc'[e] = pc[e] BY DEF TypeOK
  <2>3. /\ d # c => open'[d] = open[d] /\ inbox'[d] = inbox[d]
        /\ d = c => (open'[d] => (open[d] \/ pc[d] = "out") /\ inbox'[d] = inbox[d])
    BY DEF SocketGone, TypeOK
  <2>4. Up(d) => Up(d)' BY <2>2 DEF Up
  <2>5. ClientsInv(d)' BY DEF ConnInv
  <2> QED BY <2>1, <2>2, <2>3, <2>4, <2>5, ReadSame
<1> QED BY <1>1

\* handle_ws_upgrade starts with an empty buffer.
LEMMA ReadMap ==
    ASSUME TypeOK, ConnInv, \A d \in Conns : ReadInv(d), NEW c \in Conns, MapInsert(c), ConnInv'
    PROVE  \A d \in Conns : ReadInv(d)'
<1> USE DEF kernelVars, loopVars, history, Goto
<1>1. /\ UNCHANGED <<sent, inbox, open, held, frag, delivered, lp>>
      /\ pc[c] = "map" /\ pc' = [pc EXCEPT ![c] = "register"]
      /\ clients' = [clients EXCEPT ![kind[c]][num[c]] = c]
      /\ buf' = IF kind[c] = "ws" THEN [buf EXCEPT ![num[c]] = <<>>] ELSE buf
  BY DEF MapInsert
<1>2. kind[c] \in Kinds /\ num[c] \in Fds /\ open[c] /\ ~Up(c)
  BY <1>1 DEF ConnInv, PlaceInv, Up, Early
<1>3. \A fd \in Fds : clients'["ws"][fd] =
                        IF kind[c] = "ws" /\ fd = num[c] THEN c ELSE clients["ws"][fd]
  BY <1>1, <1>2 DEF TypeOK, Tables, Kinds
<1>4. \A fd \in Fds : buf'[fd] = IF kind[c] = "ws" /\ fd = num[c] THEN <<>> ELSE buf[fd]
  BY <1>1, <1>2 DEF TypeOK
<1>5. \A d \in Conns : (Broken(d)' <=> Broken(d)) BY <1>1 DEF Broken
<1>6. \A d \in Conns : pc'[d] = IF d = c THEN "register" ELSE pc[d] BY <1>1 DEF TypeOK
<1>7. \A d \in Conns : Up(d) => Up(d)' BY <1>1, <1>2, <1>6 DEF Up
<1>8. ASSUME NEW d \in Conns, d # c \/ kind[c] # "ws" PROVE ReadInv(d)'
  <2>1. ClientsInv(d)' BY DEF ConnInv
  <2> QED BY <1>1, <1>3, <1>4, <1>5, <1>6, <1>7, <1>8, <2>1, ReadSame
<1>9. ASSUME kind[c] = "ws" PROVE ReadInv(c)'
  <2>1. /\ Len(inbox[c]) = Len(sent[c]) /\ frag[c] = <<>> /\ delivered[c] = <<>>
        /\ Len(inbox[c]) <= Len(sent[c]) /\ Consec(inbox[c], Len(sent[c]) - Len(inbox[c]))
    BY <1>1, <1>2 DEF ReadInv, InboxInv, UnreadInv
  <2>2. sent[c] \in Seq(FrameKinds) /\ Len(sent[c]) \in Nat BY DEF TypeOK
  <2>3. InboxInv(c)' BY <1>1, <1>2, <1>6, <2>1 DEF InboxInv
  <2>4. UnreadInv(c)' BY <1>1, <2>1 DEF UnreadInv
  <2>5. MessagesInv(c)' BY <1>1 DEF MessagesInv, ReadInv
  <2>6. \A fd \in Fds : clients'["ws"][fd] = c => fd = num[c]
    <3>1. \A fd \in Fds : clients["ws"][fd] # c
      BY <1>1, <1>2, <1>7 DEF ConnInv, ClientsInv, Mapped, Kinds
    <3> QED BY <1>3, <3>1
  <2>7. Taken(c, buf[num[c]])' = 0
    <3>1. num' = num BY DEF MapInsert
    <3>2. buf'[num[c]] = <<>> BY <1>2, <1>4, <1>9
    <3>3. Taken(c, buf[num[c]])' = Len(sent[c]) - Len(inbox[c]) - Len(<<>>)
      BY <1>1, <3>1, <3>2 DEF Taken
    <3>4. Len(sent[c]) - Len(inbox[c]) = 0 /\ Len(<<>>) = 0 BY <2>1, <2>2
    <3> QED BY <3>3, <3>4
  <2>8. Assembled(sent[c], 0, frag[c], delivered[c]) BY <2>1, <2>2, AssembledFirst
  <2>9. Consec(<<>>, 0) BY DEF Consec
  <2>10. BufInv(c)'
    <3>1. ASSUME NEW fd \in Fds, clients'["ws"][fd] = c
          PROVE  /\ Taken(c, buf[fd])' = 0 /\ buf'[fd] = <<>>
      <4>1. num' = num BY DEF MapInsert
      <4>2. fd = num[c] BY <2>6, <3>1
      <4> QED BY <1>2, <1>4, <1>9, <2>7, <4>1, <4>2 
    <3>2. 0 >= 0 OBVIOUS
    <3> QED BY <1>1, <2>8, <2>9, <3>1, <3>2 DEF BufInv
  <2> QED BY <2>3, <2>4, <2>5, <2>10 DEF ReadInv
<1> QED BY <1>8, <1>9

\* Workers and clients.
LEMMA ReadWorker ==
    ASSUME TypeOK, ConnInv, \A d \in Conns : ReadInv(d), NEW c \in Conns, TypeOK', ConnInv',
           Accept(c) \/ ClientSends(c) \/ ClientLeaves(c) \/ WorkerStep(c)
    PROVE  \A d \in Conns : ReadInv(d)'
<1> USE DEF kernelVars, connVars, loopVars, history, Goto
<1>1. SocketInv /\ (pc[c] \in {"accepted", "request", "unmap"} => open[c])
  BY DEF ConnInv, PlaceInv, Early
<1>2. ASSUME UNCHANGED <<sent, frag, delivered, lp, open, inbox, clients, buf, pc, held>>
      PROVE  \A d \in Conns : ReadInv(d)'
  BY <1>2 DEF ReadInv, InboxInv, UnreadInv, BufInv, MessagesInv, Up, Broken, Taken
<1>3. pc[c] \in {"out", "accepted", "request", "map", "register", "unmap", "release"} => ~Up(c)
  BY DEF Up
<1>4. CASE Accept(c)
  <2>1. UNCHANGED <<sent, frag, delivered, lp, held, inbox, clients, buf>> BY <1>4 DEF Accept
  <2> QED BY <1>3, <1>4, <2>1, ReadWorkerMoves DEF Accept, Places
<1>5. CASE ClientSends(c) BY <1>5, ReadSends
<1>6. CASE ClientLeaves(c) BY <1>2, <1>6 DEF ClientLeaves
<1>7. CASE HandleConnection(c)
  <2>1. UNCHANGED <<sent, frag, delivered, lp, held, clients, buf>> BY <1>7 DEF HandleConnection
  <2>2. pc[c] = "accepted" BY <1>7 DEF HandleConnection
  <2>3. CASE CloseNumber(num[c]) /\ pc' = [pc EXCEPT ![c] = "done"]
    BY <1>1, <1>3, <2>1, <2>2, <2>3, CloseOwn, ReadWorkerMoves DEF Places
  <2>4. CASE pc' = [pc EXCEPT ![c] = "request"] /\ UNCHANGED <<open, inEpoll, edge, inbox>>
    BY <1>1, <1>3, <2>1, <2>2, <2>4, ReadWorkerMoves DEF Places
  <2> QED BY <1>7, <2>3, <2>4 DEF HandleConnection
<1>8. CASE ServeRequest(c) BY <1>2, <1>8 DEF ServeRequest
<1>9. CASE EndRequest(c)
  <2>1. UNCHANGED <<sent, frag, delivered, lp, held, clients, buf>> /\ pc[c] = "request"
        /\ CloseNumber(num[c]) /\ pc' = [pc EXCEPT ![c] = "release"]
    BY <1>9 DEF EndRequest
  <2> QED BY <1>1, <1>3, <2>1, CloseOwn, ReadWorkerMoves DEF Places
<1>10. CASE Upgrade(c)
  <2>1. UNCHANGED <<sent, frag, delivered, lp, held, clients, buf>> BY <1>10 DEF Upgrade
  <2>2. pc[c] = "request" BY <1>10 DEF Upgrade
  <2>3. CASE CloseNumber(num[c]) /\ pc' = [pc EXCEPT ![c] = "release"]
    BY <1>1, <1>3, <2>1, <2>2, <2>3, CloseOwn, ReadWorkerMoves DEF Places
  <2>4. CASE pc' = [pc EXCEPT ![c] = "map"] /\ UNCHANGED <<open, inEpoll, edge, inbox>>
    BY <1>1, <1>3, <2>1, <2>2, <2>4, ReadWorkerMoves DEF Places
  <2> QED BY <1>10, <2>3, <2>4 DEF Upgrade
<1>11. CASE MapInsert(c) BY <1>11, ReadMap
<1>12. CASE Register(c)
  <2>1. /\ UNCHANGED <<sent, frag, delivered, lp, held, clients, buf, open, inbox>>
        /\ pc[c] = "register" /\ \E p \in {"unmap", "hold"} : pc' = [pc EXCEPT ![c] = p]
    BY <1>12 DEF Register
  <2> QED BY <1>3, <2>1, ReadWorkerMoves DEF Places
<1>13. CASE Unmap(c)
  <2>1. /\ UNCHANGED <<sent, frag, delivered, lp, held>> /\ pc[c] = "unmap"
        /\ CloseNumber(num[c]) /\ pc' = [pc EXCEPT ![c] = "release"]
        /\ clients' = [clients EXCEPT ![kind[c]][num[c]] = None]
        /\ buf' = IF kind[c] = "ws" THEN [buf EXCEPT ![num[c]] = <<>>] ELSE buf
    BY <1>13 DEF Unmap
  <2>2. kind[c] \in Kinds /\ num[c] \in Fds BY <2>1 DEF ConnInv, PlaceInv, Mapped
  <2>3. \A fd \in Fds : /\ clients'["ws"][fd] = IF kind[c] = "ws" /\ fd = num[c] THEN None
                                                ELSE clients["ws"][fd]
                        /\ buf'[fd] = IF kind[c] = "ws" /\ fd = num[c] THEN <<>> ELSE buf[fd]
    BY <2>1, <2>2 DEF TypeOK, Tables, Kinds
  <2>4. \A fd \in Fds, d \in Conns : clients'["ws"][fd] = d =>
            clients["ws"][fd] = d /\ buf'[fd] = buf[fd]
    BY <2>3, Apart
  <2> QED BY <1>1, <1>3, <2>1, <2>4, CloseOwn, ReadWorkerMoves DEF Places
<1>14. CASE MoveSlot(c)
  <2>1. /\ UNCHANGED <<sent, frag, delivered, lp, clients, buf, open, inbox>>
        /\ pc[c] = "hold" /\ pc' = [pc EXCEPT ![c] = "handler"]
        /\ held' = [held EXCEPT ![c] = TRUE]
    BY <1>14 DEF MoveSlot
  <2>2. (\A d \in Conns : d # c => held'[d] = held[d]) /\ pc'[c] = "handler" BY <2>1 DEF TypeOK
  <2>3. Up(c)' BY <2>2 DEF Up
  <2> QED BY <2>1, <2>2, <2>3, ReadWorkerMoves DEF Places
<1>15. CASE AddClient(c)
  <2>1. /\ UNCHANGED <<sent, frag, delivered, lp, clients, buf, open, inbox, held>>
        /\ pc[c] = "handler" /\ pc' = [pc EXCEPT ![c] = "arm"]
    BY <1>15 DEF AddClient
  <2>2. pc'[c] = "arm" BY <2>1 DEF TypeOK
  <2>3. Up(c)' BY <2>2 DEF Up
  <2> QED BY <2>1, <2>3, ReadWorkerMoves DEF Places
<1>16. CASE EpollAdd(c)
  <2>1. /\ UNCHANGED <<sent, frag, delivered, lp, clients, buf, open, inbox, held>>
        /\ pc[c] = "arm" /\ pc' = [pc EXCEPT ![c] = "done"]
    BY <1>16 DEF EpollAdd
  <2>2. pc'[c] = "done" /\ held[c] BY <2>1 DEF TypeOK, ConnInv, PlaceInv
  <2>3. Up(c)' BY <2>1, <2>2 DEF Up
  <2> QED BY <2>1, <2>3, ReadWorkerMoves DEF Places
<1>17. CASE ReleaseSlot(c)
  <2>1. /\ UNCHANGED <<sent, frag, delivered, lp, clients, buf, open, inbox, held>>
        /\ pc[c] = "release" /\ pc' = [pc EXCEPT ![c] = "done"]
    BY <1>17 DEF ReleaseSlot
  <2> QED BY <1>3, <2>1, ReadWorkerMoves DEF Places
<1> QED
  BY <1>4, <1>5, <1>6, <1>7, <1>8, <1>9, <1>10, <1>11, <1>12, <1>13, <1>14, <1>15, <1>16, <1>17
     DEF WorkerStep

-----------------------------------------------------------------------------
\* Steps of the loop that read and close nothing.
LEMMA ReadMoves ==
    ASSUME TypeOK, \A d \in Conns : ReadInv(d), ConnInv',
           UNCHANGED <<sent, frag, delivered, pc, held, buf>>,
           \A d \in Conns : open'[d] => open[d] /\ inbox'[d] = inbox[d],
           \A d \in Conns : pc[d] = "out" => inbox'[d] = inbox[d],
           clients'["ws"] = clients["ws"],
           \A d \in Conns : Broken(d) => Broken(d)'
    PROVE  \A d \in Conns : ReadInv(d)'
<1>1. ASSUME NEW d \in Conns PROVE ReadInv(d)'
  <2>1. ClientsInv(d)' BY DEF ConnInv
  <2>2. Up(d)' <=> Up(d) BY DEF Up
  <2> QED BY <2>1, <2>2, ReadSame
<1> QED BY <1>1

\* close_fd takes nothing from a connection that has not been made yet.
LEMMA CloseFdUnread ==
    ASSUME TypeOK, ConnInv, \A d \in Conns : ReadInv(d), NEW fd \in Fds, CloseFd(fd)
    PROVE  \A d \in Conns : pc[d] = "out" => inbox'[d] = inbox[d]
<1>1. PICK c \in Conns \cup {None} : UNCHANGED inbox \/ inbox' = [inbox EXCEPT ![c] = <<>>]
  BY CloseFdIs DEF SocketGone, ConnInv
<1>2. \A d \in Conns : pc[d] = "out" => inbox[d] = <<>> BY DEF ReadInv, InboxInv
<1> QED BY <1>1, <1>2 DEF TypeOK

\* on_ws_data: what was read goes to the end of the buffer.
LEMMA ReadWsData ==
    ASSUME TypeOK, ConnInv, \A d \in Conns : ReadInv(d), ConnInv', WsData
    PROVE  \A d \in Conns : ReadInv(d)'
<1>1. /\ lp.at = "read" /\ kind[lp.entry] = "ws"
      /\ UNCHANGED <<num, open, sent, pc, kind, held, clients, frag, delivered>>
  BY DEF WsData, history
<1>2. PICK n \in DOMAIN Unread :
         /\ ReadSome(n)
         /\ IF clients["ws"][lp.fd] = None THEN UNCHANGED <<buf, lp>>
            ELSE /\ buf' = [buf EXCEPT ![lp.fd] = @ \o SubSeq(Unread, 1, n)]
                 /\ lp' = [lp EXCEPT !.at = IF closed[clients["ws"][lp.fd]]
                                           THEN "close_ws" ELSE "frames",
                                     !.conn = clients["ws"][lp.fd], !.ret = "read"]
  BY DEF WsData
<1>3. PICK e \in Conns :
         /\ lp.entry = e /\ Unread = inbox[e] /\ n \in 1 .. Len(inbox[e]) /\ lp.fd \in Fds
         /\ num[e] = lp.fd /\ open[e]
         /\ inbox' = [inbox EXCEPT ![e] = SubSeq(@, n + 1, Len(@))]
  BY <1>2, ReadSomeIs
<1>4. clients["ws"][lp.fd] = e /\ e # None /\ pc[e] \in {"arm", "done"}
  BY <1>1, <1>2, <1>3, ReadEntry DEF ReadSome
<1> DEFINE y == SubSeq(inbox[e], 1, n)
           z == SubSeq(inbox[e], n + 1, Len(inbox[e]))
           b == buf[lp.fd]
<1>5. /\ buf' = [buf EXCEPT ![lp.fd] = b \o y]
      /\ lp'.entry = e
  BY <1>2, <1>3, <1>4 DEF TypeOK, LoopType
<1>6. inbox'[e] = z /\ (\A d \in Conns : d # e => inbox'[d] = inbox[d])
      /\ buf'[lp.fd] = b \o y /\ (\A fd \in Fds : fd # lp.fd => buf'[fd] = buf[fd])
  BY <1>3, <1>5 DEF TypeOK
<1>7. \A d \in Conns : ~Broken(d) /\ (Up(d)' <=> Up(d)) BY <1>1 DEF Broken, Up
<1>8. ASSUME NEW d \in Conns, d # e PROVE ReadInv(d)'
  <2>1. ClientsInv(d)' BY DEF ConnInv
  <2>2. \A fd \in Fds : clients["ws"][fd] = d => fd # lp.fd BY <1>4, <1>8
  <2> QED BY <1>1, <1>6, <1>7, <1>8, <2>1, <2>2, ReadSame
<1>9. ReadInv(e)'
  <2>1. /\ InboxInv(e) /\ UnreadInv(e) /\ BufInv(e) /\ MessagesInv(e) BY DEF ReadInv
  <2> DEFINE q == Taken(e, b)
  <2>2. /\ inbox[e] \in Seq(Nat) /\ sent[e] \in Seq(FrameKinds) /\ b \in Seq(Nat)
        /\ Len(inbox[e]) \in Nat /\ Len(sent[e]) \in Nat /\ Len(b) \in Nat /\ n \in Nat
    BY <1>3, SMTT(30) DEF TypeOK
  <2>3. q >= 0 /\ Consec(b, q) /\ Assembled(sent[e], q, frag[e], delivered[e])
    BY <1>3, <1>4, <1>7, <2>1 DEF BufInv
  <2> DEFINE ls == Len(sent[e])
             li == Len(inbox[e])
             lb == Len(b)
  <2>10. ls \in Nat /\ li \in Nat /\ lb \in Nat /\ n \in Nat /\ n <= li BY <1>3, <2>2
  <2>11. q = ls - li - lb /\ q >= 0 BY <2>3 DEF Taken
  <2>4. q \in Nat /\ q + Len(b) = Len(sent[e]) - Len(inbox[e])
    <3> HIDE DEF ls, li, lb, q
    <3>1. q \in Nat /\ q + lb = ls - li BY <2>10, <2>11
    <3> QED BY <3>1 DEF ls, li, lb
  <2>5. Consec(inbox[e], q + Len(b)) /\ Len(inbox[e]) <= Len(sent[e])
    BY <1>3, <2>1, <2>4 DEF InboxInv
  <2> HIDE DEF q
  <2>6. /\ Len(b \o y) = Len(b) + n /\ Consec(b \o y, q)
        /\ Len(z) = Len(inbox[e]) - n /\ Consec(z, q + Len(b) + n)
    BY <1>3, <2>2, <2>3, <2>4, <2>5, ConsecMove
  <2> HIDE DEF y, z, b
  <2>7. InboxInv(e)'
    <3>1. Len(sent[e]) - Len(z) = q + Len(b) + n /\ Len(z) <= Len(sent[e])
      <4>1. Len(z) = li - n /\ li <= ls BY <2>5, <2>6
      <4> HIDE DEF ls, li, lb
      <4>2. ls - Len(z) = q + lb + n /\ Len(z) <= ls BY <2>10, <2>11, <4>1
      <4> QED BY <4>2 DEF ls, lb
    <3> QED BY <1>1, <1>4, <1>6, <2>6, <3>1 DEF InboxInv
  <2>8. BufInv(e)'
    <3>1. ASSUME NEW fd \in Fds, clients["ws"][fd] = e PROVE fd = lp.fd
      BY <1>3, <3>1 DEF ConnInv, ClientsInv, Kinds
    <3>2. Len(sent[e]) - Len(z) - Len(b \o y) = q
      <4>1. Len(z) = li - n /\ Len(b \o y) = lb + n BY <2>6
      <4> HIDE DEF ls, li, lb
      <4>2. ls - Len(z) - Len(b \o y) = q BY <2>10, <2>11, <4>1
      <4> QED BY <4>2 DEF ls
    <3>3. ASSUME NEW fd \in Fds, clients["ws"][fd] = e
          PROVE  Taken(e, buf[fd])' = q /\ buf'[fd] = b \o y
      BY <1>1, <1>6, <3>1, <3>2, <3>3 DEF Taken
    <3> QED BY <1>1, <2>3, <2>6, <3>3 DEF BufInv
  <2>9. UnreadInv(e)' /\ MessagesInv(e)' BY <1>1, <1>7, <2>1 DEF UnreadInv, MessagesInv
  <2> QED BY <2>7, <2>8, <2>9 DEF ReadInv
<1> QED BY <1>8, <1>9

\* on_sse_data: what was read is dropped.
LEMMA ReadSseData ==
    ASSUME TypeOK, ConnInv, \A d \in Conns : ReadInv(d), ConnInv', SseData
    PROVE  \A d \in Conns : ReadInv(d)'
<1>1. /\ lp.at = "read" /\ kind[lp.entry] = "sse"
      /\ UNCHANGED <<num, open, sent, pc, kind, held, clients, buf, frag, delivered>>
  BY DEF SseData, connVars, history
<1>2. PICK n \in DOMAIN Unread : ReadSome(n) BY DEF SseData
<1>3. PICK e \in Conns :
         /\ lp.entry = e /\ n \in 1 .. Len(inbox[e]) /\ open[e]
         /\ inbox' = [inbox EXCEPT ![e] = SubSeq(@, n + 1, Len(@))]
  BY <1>2, ReadSomeIs
<1>4. pc[e] \in {"arm", "done"} BY <1>1, <1>2, <1>3, ReadEntry DEF ReadSome
<1> DEFINE z == SubSeq(inbox[e], n + 1, Len(inbox[e]))
<1>5. inbox'[e] = z /\ (\A d \in Conns : d # e => inbox'[d] = inbox[d])
  BY <1>3 DEF TypeOK
<1>6. \A d \in Conns : ~Broken(d) /\ (Up(d)' <=> Up(d)) BY <1>1 DEF Broken, Up
<1>7. ASSUME NEW d \in Conns, d # e PROVE ReadInv(d)'
  <2>1. ClientsInv(d)' BY DEF ConnInv
  <2> QED BY <1>1, <1>5, <1>6, <1>7, <2>1, ReadSame
<1>8. ReadInv(e)'
  <2>1. InboxInv(e) /\ UnreadInv(e) /\ BufInv(e) /\ MessagesInv(e) BY DEF ReadInv
  <2>2. inbox[e] \in Seq(Nat) /\ sent[e] \in Seq(FrameKinds)
        /\ Len(inbox[e]) \in Nat /\ Len(sent[e]) \in Nat /\ n \in Nat
    BY <1>3 DEF TypeOK
  <2> DEFINE k == Len(sent[e]) - Len(inbox[e])
  <2> DEFINE ls == Len(sent[e])
             li == Len(inbox[e])
  <2>10. ls \in Nat /\ li \in Nat /\ n \in Nat /\ n <= li BY <1>3, <2>2
  <2>11. Consec(inbox[e], k) /\ li <= ls BY <1>3, <2>1 DEF InboxInv
  <2>3. k \in Nat
    <3> HIDE DEF ls, li
    <3> SUFFICES ls - li \in Nat BY DEF ls, li
    <3> QED BY <2>10, <2>11
  <2>4. Len(z) = Len(inbox[e]) - n /\ Consec(z, k + n)
    BY <1>3, <2>2, <2>3, <2>11, ConsecDrop
  <2>5. Len(sent[e]) - Len(z) = k + n /\ Len(z) <= Len(sent[e])
    <3>1. Len(z) = li - n /\ k = ls - li BY <2>4
    <3> HIDE DEF z, k, ls, li
    <3>2. ls - Len(z) = k + n /\ Len(z) <= ls BY <2>10, <2>11, <3>1
    <3> QED BY <3>2 DEF ls
  <2> HIDE DEF z, k
  <2>6. InboxInv(e)' BY <1>1, <1>4, <1>5, <2>4, <2>5 DEF InboxInv
  <2>7. \A fd \in Fds : clients["ws"][fd] # e
    BY <1>1, <1>3 DEF ConnInv, ClientsInv, Kinds
  <2>8. BufInv(e)' BY <1>1, <2>7 DEF BufInv
  <2>9. UnreadInv(e)' /\ MessagesInv(e)' BY <1>1, <1>6, <2>1 DEF UnreadInv, MessagesInv
  <2> QED BY <2>6, <2>8, <2>9 DEF ReadInv
<1> QED BY <1>7, <1>8

-----------------------------------------------------------------------------
\* One frame for which the connection goes on.
LEMMA ReadFrameGoes ==
    ASSUME TypeOK, ConnInv, \A d \in Conns : ReadInv(d), ConnInv', WsFrame, UNCHANGED lp
    PROVE  \A d \in Conns : ReadInv(d)'
<1>1. /\ lp.at = "frames" /\ buf[lp.fd] # <<>>
      /\ UNCHANGED <<num, open, sent, inbox, pc, kind, held, clients>>
  BY DEF WsFrame, Decodable, kernelVars
<1>2. PICK e \in Conns : /\ lp.entry = e /\ clients["ws"][lp.fd] = e /\ lp.conn = e
                         /\ lp.fd \in Fds /\ num[e] = lp.fd /\ open[e] /\ Up(e)
  BY <1>1, FrameEntry
<1> DEFINE b == buf[lp.fd]
           i == Head(b)
           s == sent[e]
           f == frag[e]
           dl == delivered[e]
           q == Taken(e, b)
           r == Assemble(e, i)
<1>3. \A d \in Conns : ~Broken(d) /\ ~Broken(d)' /\ (Up(d)' <=> Up(d)) BY <1>1 DEF Broken, Up
<1>4. /\ s[i] \notin {"bad", "close", "huge"}
      /\ buf' = [buf EXCEPT ![lp.fd] = Tail(b)]
      /\ \/ s[i] = "ping" /\ UNCHANGED <<frag, delivered>>
         \/ /\ s[i] # "ping" /\ r.ok
            /\ frag' = [frag EXCEPT ![e] = r.frag]
            /\ delivered' = IF r.msg = <<>> THEN delivered
                            ELSE [delivered EXCEPT ![e] = Append(dl, r.msg)]
  <2>1. lp'.at = "frames" BY <1>1
  <2>2. ~To("after") /\ ~To("close_ws") BY <2>1 DEF To, TypeOK, LoopType
  <2> QED BY <1>2, <2>2 DEF WsFrame, Decodable
<1>5. ASSUME NEW d \in Conns, d # e PROVE ReadInv(d)'
  <2>1. frag'[d] = frag[d] /\ delivered'[d] = delivered[d] BY <1>4, <1>5 DEF TypeOK
  <2>2. ClientsInv(d)' BY DEF ConnInv
  <2>3. \A fd \in Fds : clients["ws"][fd] = d => buf'[fd] = buf[fd]
    BY <1>2, <1>4, <1>5 DEF TypeOK
  <2> QED BY <1>1, <1>3, <2>1, <2>2, <2>3, ReadSame
<1>6. ReadInv(e)'
  <2>1. InboxInv(e) /\ UnreadInv(e) /\ BufInv(e) /\ MessagesInv(e) BY DEF ReadInv
  <2>2. /\ s \in Seq(FrameKinds) /\ b \in Seq(Nat) /\ f \in Seq(Nat) /\ dl \in Seq(Seq(Nat))
        /\ inbox[e] \in Seq(Nat)
    BY <1>2 DEF TypeOK
  <2>3. q >= 0 /\ Consec(b, q) /\ Assembled(s, q, f, dl) BY <1>2, <1>3, <2>1 DEF BufInv
  <2>4. Len(s) \in Nat /\ Len(b) \in Nat \ {0} /\ Len(inbox[e]) \in Nat BY <1>1, <2>2
  <2>5. q \in Nat /\ q + 1 <= Len(s)
    <3> DEFINE ls == Len(s)
               li == Len(inbox[e])
               lb == Len(b)
    <3>1. q = ls - li - lb /\ ls \in Nat /\ li \in Nat /\ lb \in Nat \ {0} /\ q >= 0
      BY <2>3, <2>4 DEF Taken
    <3> HIDE DEF q, ls, li, lb
    <3>2. q \in Nat /\ q + 1 <= ls BY <3>1
    <3> QED BY <3>2 DEF ls
  <2>6. i = q + 1 /\ Len(Tail(b)) = Len(b) - 1 /\ Consec(Tail(b), q + 1)
    <3> HIDE DEF q, b
    <3> QED BY <1>1, <2>2, <2>3, <2>5, ConsecTail DEF b
  <2> HIDE DEF q
  <2>7. s[q + 1] \in FrameKinds BY <2>2, <2>5
  <2>8. /\ Assembled(s, q + 1, frag'[e], delivered'[e])
        /\ \/ delivered'[e] = dl
           \/ \E m \in Seq(Nat) : delivered'[e] = Append(dl, m) /\ Message(s, Len(dl) + 1, m)
    <3>1. CASE s[i] = "ping"
      <4>1. frag'[e] = f /\ delivered'[e] = dl BY <1>4, <3>1
      <4> QED BY <2>2, <2>3, <2>5, <2>6, <3>1, <4>1, FramePing
    <3>2. CASE s[i] # "ping"
      <4>1. /\ r.ok /\ frag'[e] = r.frag
            /\ delivered'[e] = IF r.msg = <<>> THEN dl ELSE Append(dl, r.msg)
        BY <1>4, <3>2 DEF TypeOK
      <4>2. CASE s[i] \in {"text", "first"}
        <5>1. f = <<>> BY <4>1, <4>2 DEF Assemble
        <5>2. Append(<<>>, i) = <<i>> OBVIOUS
        <5>3. s[i] = "text" => r.msg = <<i>> /\ r.frag = <<>>
          BY <4>1, <5>1 DEF Assemble
        <5>4. s[i] = "first" => r.msg = <<>> /\ r.frag = <<i>>
          BY <4>1, <5>1, <5>2 DEF Assemble
        <5>5. /\ s[i] = "text" => Assembled(s, q + 1, <<>>, Append(dl, <<i>>))
                                   /\ Message(s, Len(dl) + 1, <<i>>)
              /\ s[i] = "first" => Assembled(s, q + 1, <<i>>, dl)
          BY <2>2, <2>3, <2>5, <2>6, <4>2, <5>1, FrameStart
        <5>6. <<i>> # <<>> /\ <<i>> \in Seq(Nat) BY <2>5, <2>6
        <5> HIDE DEF i, s, dl, f, r
        <5>7. CASE s[i] = "text" BY <4>1, <5>3, <5>5, <5>6, <5>7
        <5>8. CASE s[i] = "first" BY <4>1, <5>4, <5>5, <5>8
        <5> QED BY <4>2, <5>7, <5>8
      <4>3. CASE s[i] \in {"cont", "last"}
        <5> DEFINE m == Append(f, i)
        <5>1. f # <<>> /\ ~(Len(m) > MaxParts) BY <4>1, <4>3 DEF Assemble
        <5>2. s[i] = "last" => r.msg = m /\ r.frag = <<>> BY <4>1, <4>3, <5>1 DEF Assemble
        <5>3. s[i] = "cont" => r.msg = <<>> /\ r.frag = m BY <4>1, <4>3, <5>1 DEF Assemble
        <5>4. m # <<>> /\ m \in Seq(Nat) /\ Len(m) = Len(f) + 1
          <6>1. i \in Nat /\ f \in Seq(Nat) BY <2>2, <2>5, <2>6
          <6> HIDE DEF i, f
          <6> QED BY <6>1
        <5>5. Len(f) + 1 <= MaxParts
          <6>1. Len(f) \in Nat BY <2>2
          <6> QED BY <5>1, <5>4, <6>1, Apart
        <5>6. /\ s[i] = "cont" => Assembled(s, q + 1, m, dl)
              /\ s[i] = "last" => Assembled(s, q + 1, <<>>, Append(dl, m))
                                  /\ Message(s, Len(dl) + 1, m)
          BY <2>2, <2>3, <2>5, <2>6, <4>3, <5>1, <5>5, FrameMore
        <5> HIDE DEF i, s, dl, f, r, m
        <5>7. CASE s[i] = "last" BY <4>1, <5>2, <5>4, <5>6, <5>7
        <5>8. CASE s[i] = "cont" BY <4>1, <5>3, <5>6, <5>8
        <5> QED BY <4>3, <5>7, <5>8
      <4> QED BY <1>4, <2>6, <2>7, <3>2, <4>2, <4>3 DEF FrameKinds
    <3> QED BY <3>1, <3>2
  <2>9. InboxInv(e)' BY <1>1, <2>1 DEF InboxInv
  <2>10. UnreadInv(e)' BY <1>2, <1>3 DEF UnreadInv
  <2>11. BufInv(e)'
    <3>1. ASSUME NEW fd \in Fds, clients["ws"][fd] = e PROVE fd = lp.fd
      BY <1>2, <3>1 DEF ConnInv, ClientsInv, Kinds
    <3>2. buf'[lp.fd] = Tail(b) BY <1>2, <1>4 DEF TypeOK
    <3>3. Len(s) - Len(inbox[e]) - Len(Tail(b)) = q + 1
      <4>1. q = Len(s) - Len(inbox[e]) - Len(b) BY DEF Taken, q
      <4>2. Len(Tail(b)) = Len(b) - 1 BY <2>6
      <4> HIDE DEF s, b
      <4> QED BY <2>4, <4>1, <4>2
    <3>4. ASSUME NEW fd \in Fds, clients["ws"][fd] = e
          PROVE  Taken(e, buf[fd])' = q + 1 /\ buf'[fd] = Tail(b)
      BY <1>1, <3>1, <3>2, <3>3, <3>4 DEF Taken
    <3>5. q + 1 >= 0 BY <2>5
    <3> QED BY <1>1, <2>6, <2>8, <3>4, <3>5 DEF BufInv
  <2>12. MessagesInv(e)'
    <3>1. CASE delivered'[e] = dl BY <1>1, <2>1, <3>1 DEF MessagesInv
    <3>2. ASSUME NEW m \in Seq(Nat), delivered'[e] = Append(dl, m), Message(s, Len(dl) + 1, m)
          PROVE  MessagesInv(e)'
      <4> DEFINE dn == Append(dl, m)
      <4>1. /\ DOMAIN dn = 1 .. Len(dl) + 1 /\ dn[Len(dl) + 1] = m
            /\ \A n \in 1 .. Len(dl) : dn[n] = dl[n]
            /\ DOMAIN dl = 1 .. Len(dl) /\ Len(dl) \in Nat
        BY <2>2
      <4>2. \A n \in DOMAIN dl : Message(s, n, dl[n]) BY <2>1 DEF MessagesInv
      <4> HIDE DEF dn, dl, s
      <4>3. ASSUME NEW n \in DOMAIN dn PROVE Message(s, n, dn[n])
        <5>1. n \in 1 .. Len(dl) \/ n = Len(dl) + 1 BY <4>1
        <5>2. CASE n = Len(dl) + 1 BY <3>2, <4>1, <5>2
        <5>3. CASE n \in 1 .. Len(dl) BY <4>1, <4>2, <5>3
        <5> QED BY <5>1, <5>2, <5>3
      <4>4. delivered'[e] = dn /\ sent'[e] = s BY <1>1, <3>2 DEF dn, s
      <4> QED BY <4>3, <4>4 DEF MessagesInv
    <3> QED BY <2>8, <3>1, <3>2
  <2> QED BY <2>9, <2>10, <2>11, <2>12 DEF ReadInv
<1> QED BY <1>5, <1>6

\* The loop.
LEMMA ReadLoop ==
    ASSUME TypeOK, ConnInv, \A d \in Conns : ReadInv(d), ConnInv', LoopStep
    PROVE  \A d \in Conns : ReadInv(d)'
<1> USE DEF kernelVars, connVars, history
<1>1. CASE WsData BY <1>1, ReadWsData
<1>2. CASE SseData BY <1>2, ReadSseData
<1>3. CASE WsFrame
  <2>1. CASE UNCHANGED lp BY <1>3, <2>1, ReadFrameGoes
  <2>2. CASE lp' # lp
    <3>1. lp.at = "frames" BY <1>3 DEF WsFrame
    <3>2. PICK e \in Conns : lp.entry = e /\ clients["ws"][lp.fd] = e BY <3>1, FrameEntry
    <3>3. /\ UNCHANGED <<sent, inbox, open, pc, held, clients, frag, delivered>>
          /\ To("after") \/ To("close_ws")
      BY <1>3, <2>2 DEF WsFrame
    <3>4. Broken(e)' BY <3>2, <3>3 DEF To, Broken, TypeOK, LoopType
    <3>5. \A d \in Conns : ~Broken(d) /\ (Up(d)' <=> Up(d)) BY <3>1, <3>3 DEF Broken, Up
    <3>6. buf' = buf \/ buf' = [buf EXCEPT ![lp.fd] = Tail(@)] BY <1>3 DEF WsFrame
    <3>7. \A fd \in Fds, d \in Conns : clients["ws"][fd] = d /\ d # e => buf'[fd] = buf[fd]
      BY <3>2, <3>6 DEF TypeOK
    <3>8. ASSUME NEW d \in Conns PROVE ReadInv(d)'
      <4>1. ClientsInv(d)' BY DEF ConnInv
      <4> QED BY <3>3, <3>4, <3>5, <3>7, <4>1, ReadSame
    <3> QED BY <3>8
  <2> QED BY <2>1, <2>2
<1>4. CASE CloseWs
  <2>1. lp.at = "close_ws" BY <1>4 DEF CloseWs
  <2>2. PICK e \in Conns : lp.entry = e /\ num[e] = lp.fd /\ lp.fd \in Fds BY <2>1, FrameEntry
  <2>3. /\ UNCHANGED <<sent, inbox, open, pc, held, frag, delivered>>
        /\ clients' = [clients EXCEPT !["ws"][lp.fd] = None]
        /\ buf' = [buf EXCEPT ![lp.fd] = <<>>]
    BY <1>4 DEF CloseWs
  <2>4. \A fd \in Fds : /\ clients'["ws"][fd] = IF fd = lp.fd THEN None ELSE clients["ws"][fd]
                        /\ fd # lp.fd => buf'[fd] = buf[fd]
    BY <2>2, <2>3 DEF TypeOK, Tables, Kinds
  <2>5. \A fd \in Fds, d \in Conns : clients'["ws"][fd] = d =>
           clients["ws"][fd] = d /\ d # e /\ buf'[fd] = buf[fd]
    BY <2>2, <2>4, Apart DEF ConnInv, ClientsInv, Kinds
  <2>6. \A d \in Conns : (Broken(d) <=> d = e) /\ (Up(d)' <=> Up(d))
    BY <2>1, <2>2, <2>3 DEF Broken, Up
  <2>7. ASSUME NEW d \in Conns PROVE ReadInv(d)'
    <3>1. ClientsInv(d)' BY DEF ConnInv
    <3> QED BY <2>3, <2>5, <2>6, <3>1, ReadSame
  <2> QED BY <2>7
<1>5. CASE CloseSse
  <2>1. UNCHANGED <<sent, inbox, open, pc, held, frag, delivered, buf>> BY <1>5 DEF CloseSse
  <2>2. clients' = clients \/ clients' = [clients EXCEPT !["sse"][lp.fd] = None]
    BY <1>5 DEF CloseSse
  <2>3. clients'["ws"] = clients["ws"] BY <2>2 DEF TypeOK, Kinds
  <2>4. \A d \in Conns : ~Broken(d) BY <1>5 DEF CloseSse, Broken
  <2> QED BY <2>1, <2>3, <2>4, ReadMoves
<1>6. CASE DrainWs \/ DrainSse \/ CloseAgain
  <2>1. lp.fd \in Fds /\ CloseFd(lp.fd) /\ lp.at \notin {"after", "close_ws"}
    BY <1>6 DEF DrainWs, DrainSse, CloseAgain, ConnInv, LoopInv, TypeOK, LoopType, FdOrNone
  <2>2. UNCHANGED <<sent, pc, held, frag, delivered, buf, clients>>
    BY <1>6 DEF DrainWs, DrainSse, CloseAgain
  <2>3. \A d \in Conns : ~Broken(d) BY <2>1 DEF Broken
  <2>4. \A d \in Conns : open'[d] => open[d] /\ inbox'[d] = inbox[d]
    BY <2>1, CloseFdNotice
  <2> QED BY <2>1, <2>2, <2>3, <2>4, CloseFdUnread, ReadMoves
<1>7. CASE WsFramesDone
  <2>1. UNCHANGED <<sent, inbox, open, pc, held, frag, delivered, buf, clients>>
    BY <1>7 DEF WsFramesDone
  <2>2. ASSUME NEW d \in Conns, Broken(d) PROVE Broken(d)'
    <3>1. lp.at = "after" /\ lp.entry = d /\ lp.conn = d /\ closed[d]
      BY <1>7, <2>2, FrameEntry DEF WsFramesDone, Broken, ConnInv, EntryInv
    <3>2. lp' = [lp EXCEPT !.at = "close_ws"] BY <1>7, <3>1 DEF WsFramesDone, To
    <3> QED BY <3>1, <3>2 DEF Broken, TypeOK, LoopType
  <2> QED BY <2>1, <2>2, ReadMoves
<1>8. CASE EpollWait \/ TakeTasks \/ RunTask \/ NextEvent \/ ReadDone \/ WsEof \/ SseEof
  <2>1. UNCHANGED <<sent, inbox, open, pc, held, frag, delivered, buf, clients>>
    BY <1>8 DEF EpollWait, TakeTasks, RunTask, NextEvent, ReadDone, WsEof, SseEof
  <2>2. lp.at \in {"batch", "read"}
    <3>1. CASE EpollWait
      <4>1. lp.at = "batch" BY <3>1 DEF EpollWait, LoopIdle
      <4> QED BY <4>1
    <3>2. CASE TakeTasks \/ RunTask \/ NextEvent BY <3>2 DEF TakeTasks, RunTask, NextEvent
    <3>3. CASE ReadDone \/ WsEof \/ SseEof BY <3>3 DEF ReadDone, WsEof, SseEof, ReadEnd
    <3> QED BY <1>8, <3>1, <3>2, <3>3
  <2>3. \A d \in Conns : ~Broken(d) BY <2>2 DEF Broken
  <2> QED BY <2>1, <2>3, ReadMoves
<1> QED BY <1>1, <1>2, <1>3, <1>4, <1>5, <1>6, <1>7, <1>8 DEF LoopStep

\* Every step.
LEMMA ReadStep ==
    ASSUME TypeOK, ConnInv, \A d \in Conns : ReadInv(d), TypeOK', ConnInv', [Next]_vars
    PROVE  \A d \in Conns : ReadInv(d)'
<1>1. ASSUME UNCHANGED <<sent, frag, delivered, lp, open, inbox, clients, buf, pc, held>>
      PROVE  \A d \in Conns : ReadInv(d)'
  BY <1>1 DEF ReadInv, InboxInv, UnreadInv, BufInv, MessagesInv, Up, Broken, Taken
<1>2. CASE UNCHANGED vars BY <1>1, <1>2 DEF vars, kernelVars, connVars, loopVars, history
<1>3. ASSUME NEW a \in Actors, BeginSend(a) \/ CloseConn(a) \/ ActorStep(a)
      PROVE  \A d \in Conns : ReadInv(d)'
  BY <1>1, <1>3 DEF BeginSend, CloseConn, ActorStep, SendLock, SendWrite, CloseFrame, kernelVars,
     connVars, loopVars, history
<1> QED BY <1>2, <1>3, ReadWorker, ReadLoop DEF Next

\* At the start nothing has been sent.
LEMMA InitRead == Init => \A d \in Conns : ReadInv(d)
<1> SUFFICES ASSUME Init, NEW d \in Conns PROVE ReadInv(d)
  OBVIOUS
<1>1. /\ sent[d] = <<>> /\ inbox[d] = <<>> /\ frag[d] = <<>> /\ delivered[d] = <<>>
      /\ open[d] = FALSE /\ pc[d] = "out" /\ \A fd \in Fds : clients["ws"][fd] = None
  BY DEF Init, Nowhere, Kinds
<1>2. \A fd \in Fds : clients["ws"][fd] # d BY <1>1, Apart
<1> QED BY <1>1, <1>2 DEF ReadInv, InboxInv, UnreadInv, BufInv, MessagesInv

-----------------------------------------------------------------------------
(***************************************************************************)
(* The callback tells the truth.                                           *)
(***************************************************************************)

\* The client has left or has sent a close frame.
Told(c) == peer[c] = "gone" \/ \E i \in DOMAIN sent[c] : sent[c][i] = "close"
ToldInv(c) == fired[c] = 1 \/ Firing(c) => Told(c)

\* Once so, always so, but for a connection that is not there yet.
LEMMA ToldStays ==
    ASSUME TypeOK, [Next]_vars, NEW d \in Conns, Told(d)
    PROVE  Told(d)' \/ pc[d] = "out"
<1> USE DEF kernelVars
<1>0. ASSUME sent' = sent, peer' = peer PROVE Told(d)' BY <1>0 DEF Told
<1>1. CASE UNCHANGED vars BY <1>0, <1>1 DEF vars
<1>2. ASSUME NEW c \in Conns, Accept(c) \/ ClientSends(c) \/ ClientLeaves(c) \/ WorkerStep(c)
      PROVE  Told(d)' \/ pc[d] = "out"
  <2>1. CASE Accept(c)
    <3>1. pc[c] = "out" /\ sent' = sent /\ peer' = [peer EXCEPT ![c] = "here"]
      BY <2>1 DEF Accept
    <3> QED BY <3>1 DEF Told, TypeOK
  <2>2. CASE ClientSends(c)
    <3>1. PICK s \in Talk[c][kind[c]] :
             /\ Len(s) > Len(sent[c]) /\ SubSeq(s, 1, Len(sent[c])) = sent[c]
             /\ sent' = [sent EXCEPT ![c] = SubSeq(s, 1, Len(@) + 1)]
      BY <2>2 DEF ClientSends
    <3>2. peer' = peer BY <2>2 DEF ClientSends
    <3>3. CASE d # c
      <4>1. sent'[d] = sent[d] BY <3>1, <3>3 DEF TypeOK
      <4> QED BY <3>2, <4>1 DEF Told
    <3>4. CASE d = c /\ peer[d] # "gone"
      <4> DEFINE n == Len(sent[c])
      <4>1. PICK i \in DOMAIN sent[c] : sent[c][i] = "close" BY <3>4 DEF Told
      <4>2. n \in Nat /\ i \in 1 .. n BY <4>1 DEF TypeOK
      <4>3. SubSeq(s, 1, n) = [j \in 1 .. n |-> s[j]]
            /\ SubSeq(s, 1, n + 1) = [j \in 1 .. n + 1 |-> s[j]]
        BY <4>2
      <4>4. s[i] = "close" BY <3>1, <4>1, <4>2, <4>3
      <4>5. sent'[c] = SubSeq(s, 1, n + 1) BY <3>1 DEF TypeOK
      <4>6. i \in DOMAIN sent'[c] /\ sent'[c][i] = "close" BY <4>2, <4>3, <4>4, <4>5
      <4> QED BY <3>4, <4>6 DEF Told
    <3>5. CASE peer[d] = "gone" BY <3>2, <3>5 DEF Told
    <3> QED BY <3>3, <3>4, <3>5
  <2>3. CASE ClientLeaves(c)
    <3>1. sent' = sent /\ peer' = [peer EXCEPT ![c] = "gone"] BY <2>3 DEF ClientLeaves
    <3> QED BY <3>1 DEF Told, TypeOK
  <2>4. CASE WorkerStep(c)
    BY <1>0, <2>4 DEF WorkerStep, HandleConnection, ServeRequest, EndRequest, Upgrade, MapInsert,
       Register, Unmap, MoveSlot, AddClient, EpollAdd, ReleaseSlot
  <2> QED BY <1>2, <2>1, <2>2, <2>3, <2>4
<1>3. ASSUME NEW a \in Actors, BeginSend(a) \/ CloseConn(a) \/ ActorStep(a)
      PROVE  Told(d)'
  BY <1>0, <1>3 DEF BeginSend, CloseConn, ActorStep, SendLock, SendWrite, CloseFrame
<1>4. CASE LoopStep
  BY <1>0, <1>4 DEF LoopStep, EpollWait, TakeTasks, RunTask, NextEvent, ReadDone, CloseAgain,
     WsData, WsFrame, WsFramesDone, WsEof, CloseWs, DrainWs, SseData, SseEof, CloseSse, DrainSse,
     ReadSome
<1> QED BY <1>1, <1>2, <1>3, <1>4 DEF Next

\* Such a connection can only be accepted.
LEMMA OutSteps ==
    ASSUME TypeOK, [Next]_vars, NEW d \in Conns, pc[d] = "out"
    PROVE  pc'[d] \in {"out", "accepted"}
<1>1. CASE UNCHANGED pc BY <1>1
<1>2. ASSUME NEW c \in Conns, Accept(c) \/ ClientSends(c) \/ ClientLeaves(c) \/ WorkerStep(c)
      PROVE  pc'[d] \in {"out", "accepted"}
  <2>1. CASE Accept(c) BY <2>1 DEF Accept, TypeOK
  <2>2. CASE ~Accept(c)
    <3>1. UNCHANGED pc \/ (pc[c] # "out" /\ \E p : Goto(c, p))
      BY <1>2, <2>2 DEF ClientSends, ClientLeaves, WorkerStep, HandleConnection, ServeRequest,
         EndRequest, Upgrade, MapInsert, Register, Unmap, MoveSlot, AddClient, EpollAdd,
         ReleaseSlot
    <3> QED BY <1>1, <3>1 DEF Goto, TypeOK
  <2> QED BY <2>1, <2>2
<1>3. ASSUME NEW a \in Actors, BeginSend(a) \/ CloseConn(a) \/ ActorStep(a)
      PROVE  UNCHANGED pc
  BY <1>3 DEF BeginSend, CloseConn, ActorStep, SendLock, SendWrite, CloseFrame
<1>4. CASE LoopStep
  <2>1. UNCHANGED pc
    BY <1>4 DEF LoopStep, EpollWait, TakeTasks, RunTask, NextEvent, ReadDone, CloseAgain, WsData,
       WsFrame, WsFramesDone, WsEof, CloseWs, DrainWs, SseData, SseEof, CloseSse, DrainSse
  <2> QED BY <1>1, <2>1
<1> QED BY <1>1, <1>2, <1>3, <1>4 DEF Next, vars

\* A connection whose callback has run, or is about to, is not one of these.
LEMMA FiredIsIn ==
    ASSUME TypeOK, ConnInv, NEW d \in Conns, FiredInv(d), fired[d] = 1 \/ Firing(d)
    PROVE  pc[d] # "out"
<1>1. Up(d) BY DEF FiredInv, Firing, ConnInv, PlaceInv, DrainInv, Draining
<1> QED BY <1>1 DEF Up

\* close_sse finds a connection that is closed already, or one whose client has left.
LEMMA SseEnds ==
    ASSUME TypeOK, ConnInv, NEW c \in Conns, lp.at = "close_sse", lp.fd \in Fds,
           clients["sse"][lp.fd] = c
    PROVE  closed[c] \/ peer[c] = "gone"
<1> USE DEF ConnInv
<1>1. open[c] /\ num[c] = lp.fd /\ Mapped(c) BY DEF ClientsInv, Kinds
<1>2. pc[c] \notin Early BY <1>1 DEF Mapped, Up, Early
<1>3. CASE lp.entry # None
  <2>1. lp.entry = c BY <1>1, <1>2, <1>3 DEF CarryInv
  <2> QED BY <2>1 DEF EntryInv
<1>4. CASE lp.entry = None
  <2>1. num[c] \in Posted BY <1>1, <1>4 DEF Posted
  <2> QED BY <1>1, <1>2, <2>1 DEF CarryInv, Dying
<1> QED BY <1>3, <1>4

\* The first frame of the buffer is one the client has sent.
LEMMA HeadSent ==
    ASSUME TypeOK, ConnInv, NEW e \in Conns, ReadInv(e), WsFrame, lp.conn = e
    PROVE  Head(buf[lp.fd]) \in DOMAIN sent[e]
<1>1. lp.at = "frames" /\ buf[lp.fd] # <<>> BY DEF WsFrame, Decodable
<1>2. clients["ws"][lp.fd] = e /\ lp.fd \in Fds /\ ~Broken(e) /\ open[e]
  BY <1>1, FrameEntry DEF Broken
<1> DEFINE b == buf[lp.fd]
           q == Taken(e, b)
<1>3. b \in Seq(Nat) /\ inbox[e] \in Seq(Nat) /\ sent[e] \in Seq(FrameKinds) BY <1>2 DEF TypeOK
<1>4. q >= 0 /\ Consec(b, q) BY <1>2 DEF ReadInv, BufInv
<1>5. Len(b) \in Nat /\ Len(b) >= 1 /\ 1 \in DOMAIN b /\ Head(b) = b[1] BY <1>1, <1>3
<1>6. b[1] = q + 1 BY <1>4, <1>5 DEF Consec
<1>7. Len(inbox[e]) \in Nat /\ Len(sent[e]) \in Nat /\ q = Len(sent[e]) - Len(inbox[e]) - Len(b)
  BY <1>3 DEF Taken
<1>8. q + 1 \in 1 .. Len(sent[e])
  <2> HIDE DEF q, b
  <2>1. \A n, i, l \in Nat : \A t : t = n - i - l /\ t >= 0 /\ l >= 1 => t + 1 \in 1 .. n
    OBVIOUS
  <2> QED BY <1>4, <1>5, <1>7, <2>1
<1> QED BY <1>3, <1>5, <1>6, <1>8

\* The callback is run, or prepared, only for such a client.
LEMMA ToldNew ==
    ASSUME TypeOK, ConnInv, \A d \in Conns : FiredInv(d), \A d \in Conns : ReadInv(d),
           [Next]_vars, NEW d \in Conns, fired'[d] = 1 \/ Firing(d)'
    PROVE  fired[d] = 1 \/ Firing(d) \/ Told(d)
<1> USE DEF history
<1>0. ASSUME fired' = fired, lp' = lp PROVE fired[d] = 1 \/ Firing(d) BY <1>0 DEF Firing
<1>1. CASE UNCHANGED vars BY <1>0, <1>1 DEF vars, loopVars
<1>2. ASSUME NEW c \in Conns, Accept(c) \/ ClientSends(c) \/ ClientLeaves(c) \/ WorkerStep(c)
      PROVE  fired[d] = 1 \/ Firing(d)
  BY <1>0, <1>2 DEF Accept, ClientSends, ClientLeaves, WorkerStep, HandleConnection, ServeRequest,
     EndRequest, Upgrade, MapInsert, Register, Unmap, MoveSlot, AddClient, EpollAdd, ReleaseSlot,
     loopVars
<1>3. ASSUME NEW a \in Actors, BeginSend(a) \/ CloseConn(a) \/ ActorStep(a)
      PROVE  fired[d] = 1 \/ Firing(d)
  BY <1>0, <1>3 DEF BeginSend, CloseConn, ActorStep, SendLock, SendWrite, CloseFrame, loopVars
<1>4. CASE WsEof
  <2>1. lp.at = "read" /\ ~entryClosed[lp.entry] /\ kind[lp.entry] = "ws" /\ AtEnd
    BY <1>4 DEF WsEof, ReadEnd
  <2>2. PICK e \in Conns : clients["ws"][lp.fd] = e /\ peer[e] = "gone"
    BY <2>1, ReadEntry DEF AtEnd
  <2>3. fired' = fired \/ fired' = [fired EXCEPT ![e] = @ + 1] BY <1>4, <2>2 DEF WsEof
  <2>4. ~Firing(d)' BY <1>4 DEF WsEof, Firing, TypeOK, LoopType
  <2> QED BY <2>2, <2>3, <2>4 DEF Told, TypeOK
<1>5. CASE WsFrame
  <2>1. PICK e \in Conns : lp.conn = e BY <1>5, FrameEntry DEF WsFrame
  <2>2. lp.at = "frames" /\ ~lp.fire BY <1>5 DEF WsFrame, ConnInv, LoopInv
  <2>3. ~Firing(d)'
    <3>1. lp' = lp \/ lp' = [lp EXCEPT !.at = "after"] \/ lp' = [lp EXCEPT !.at = "close_ws"]
      BY <1>5, FrameIs
    <3> QED BY <2>2, <3>1 DEF Firing, TypeOK, LoopType
  <2>4. \/ fired' = fired
        \/ fired' = [fired EXCEPT ![e] = @ + 1] /\ sent[e][Head(buf[lp.fd])] = "close"
    BY <1>5, <2>1, FrameIs
  <2>5. Head(buf[lp.fd]) \in DOMAIN sent[e] BY <1>5, <2>1, HeadSent
  <2> QED BY <2>3, <2>4, <2>5 DEF Told, TypeOK
<1>6. CASE CloseSse
  <2>1. lp.at = "close_sse" /\ lp.fd \in Fds /\ UNCHANGED fired
    BY <1>6 DEF CloseSse, ConnInv, LoopInv, TypeOK, LoopType, FdOrNone
  <2>2. CASE clients["sse"][lp.fd] = None
    <3>1. lp' = Returned BY <1>6, <2>2 DEF CloseSse
    <3>2. lp'.at # "drain_sse" BY <3>1, LeaveIs, ReturnedIs DEF Returned, TypeOK, LoopType
    <3> QED BY <2>1, <3>2 DEF Firing
  <2>3. CASE clients["sse"][lp.fd] # None
    <3>1. PICK c \in Conns : clients["sse"][lp.fd] = c
      BY <2>1, <2>3 DEF TypeOK, Tables, ConnOrNone, Kinds
    <3>2. lp' = [lp EXCEPT !.at = "drain_sse", !.conn = c, !.fire = ~closed[c]]
      BY <1>6, <2>3, <3>1 DEF CloseSse
    <3>3. lp'.conn = c /\ lp'.fire = ~closed[c] BY <3>2 DEF TypeOK, LoopType
    <3>4. closed[c] \/ peer[c] = "gone" BY <2>1, <3>1, SseEnds
    <3> QED BY <2>1, <3>3, <3>4 DEF Firing, Told
  <2> QED BY <2>2, <2>3
<1>7. CASE DrainSse
  <2>1. PICK c \in Conns : lp.conn = c /\ lp.at = "drain_sse"
    BY <1>7 DEF DrainSse, ConnInv, LoopInv, TypeOK, LoopType, ConnOrNone
  <2>2. /\ lp' = Returned
        /\ fired' = IF lp.fire THEN [fired EXCEPT ![c] = @ + 1] ELSE fired
    BY <1>7, <2>1 DEF DrainSse
  <2>3. lp'.at # "drain_sse" BY <2>2, LeaveIs, ReturnedIs DEF Returned, TypeOK, LoopType
  <2> QED BY <2>1, <2>2, <2>3 DEF Firing, TypeOK
<1>8. CASE LoopStep /\ ~WsEof /\ ~WsFrame /\ ~CloseSse /\ ~DrainSse
  <2>1. UNCHANGED fired
    BY <1>8 DEF LoopStep, EpollWait, TakeTasks, RunTask, NextEvent, ReadDone, CloseAgain, WsData,
       WsFramesDone, CloseWs, DrainWs, SseData, SseEof
  <2>2. lp'.at # "drain_sse"
    <3>1. CASE ReadDone \/ CloseAgain BY <3>1, LeaveIs DEF ReadDone, CloseAgain
    <3>2. CASE DrainWs BY <3>2, LeaveIs, ReturnedIs DEF DrainWs, Returned, TypeOK, LoopType
    <3>3. CASE EpollWait
      <4>1. lp.at = "batch" BY <3>3 DEF EpollWait, LoopIdle
      <4> QED BY <3>3, <4>1 DEF EpollWait, TypeOK, LoopType
    <3>4. CASE TakeTasks \/ RunTask \/ NextEvent \/ SseEof \/ CloseWs
      BY <3>4 DEF TakeTasks, RunTask, NextEvent, SseEof, CloseWs, TypeOK, LoopType
    <3>5. CASE WsData \/ WsFramesDone \/ SseData
      <4>1. lp.at \in {"read", "frames", "after"} BY <3>5 DEF WsData, WsFramesDone, SseData
      <4>2. lp' = lp \/ lp' = [lp EXCEPT !.at = "close_sse", !.ret = "read"]
            \/ lp' = [lp EXCEPT !.at = "close_ws"] \/ lp' = [lp EXCEPT !.at = "read", !.conn = None]
            \/ \E p \in {"close_ws", "frames"} : \E c :
                 lp' = [lp EXCEPT !.at = p, !.conn = c, !.ret = "read"]
        BY <3>5 DEF WsData, WsFramesDone, SseData, To
      <4> QED BY <4>1, <4>2 DEF TypeOK, LoopType
    <3> QED BY <1>8, <3>1, <3>2, <3>3, <3>4, <3>5 DEF LoopStep
  <2> QED BY <2>1, <2>2 DEF Firing
<1> QED BY <1>1, <1>2, <1>3, <1>4, <1>5, <1>6, <1>7, <1>8 DEF Next

\* Every step.
LEMMA ToldStep ==
    ASSUME TypeOK, ConnInv, \A d \in Conns : FiredInv(d), \A d \in Conns : ReadInv(d),
           \A d \in Conns : ToldInv(d), TypeOK', ConnInv', \A d \in Conns : FiredInv(d)',
           [Next]_vars
    PROVE  \A d \in Conns : ToldInv(d)'
<1> SUFFICES ASSUME NEW d \in Conns, fired'[d] = 1 \/ Firing(d)'
             PROVE  Told(d)'
  BY DEF ToldInv
<1>1. Told(d) BY ToldNew DEF ToldInv
<1>2. CASE fired[d] = 1 \/ Firing(d) BY <1>1, <1>2, ToldStays, FiredIsIn
<1>3. CASE ~(fired[d] = 1 \/ Firing(d))
  <2>1. Up(d)' BY DEF FiredInv, Firing, ConnInv, PlaceInv, DrainInv, Draining
  <2>2. pc[d] = "out" => pc'[d] \in {"out", "accepted"} BY OutSteps
  <2> QED BY <1>1, <2>1, <2>2, ToldStays DEF Up
<1> QED BY <1>2, <1>3

\* on_message gets each message the client completes once, in order and whole, whatever the
\* reads cut and whoever closes meanwhile; the close callback runs at most once, only if the
\* client left or sent a close frame, and always if that is what closed the connection first.
\* All this until a number is raced for.
THEOREM ScriptsHearRight == Spec => []CallbacksRight
<1> DEFINE I == \A d \in Conns : ReadInv(d)
           F == \A d \in Conns : FiredInv(d)
           T == \A d \in Conns : ToldInv(d)
<1>1. Init => I BY InitRead
<1>2. TypeOK /\ ConnInv /\ I /\ TypeOK' /\ ConnInv' /\ [Next]_vars => I' BY ReadStep
<1>3. Init => F
  <2>1. ASSUME Init, NEW d \in Conns PROVE FiredInv(d)
    <3>1. /\ fired[d] = 0 /\ cause[d] = "none" /\ \A k \in Kinds, fd \in Fds : clients[k][fd] = None
      BY <2>1 DEF Init, Nowhere
    <3> QED BY <3>1 DEF FiredInv
  <2> QED BY <2>1
<1>4. TypeOK /\ ConnInv /\ F /\ [Next]_vars => F' BY FiredStep
<1>5. F /\ T => CloseReported
  BY DEF FiredInv, Firing, ToldInv, Told, CloseReported, Ended
<1>6. TypeOK /\ I => Reassembled
  <2>1. ASSUME TypeOK, I, NEW c \in Conns, NEW n \in DOMAIN delivered[c]
        PROVE  LET m == delivered[c][n]
                   i == m[Len(m)]
               IN  /\ i \in Completes(sent[c])
                   /\ n = Cardinality({j \in Completes(sent[c]) : j <= i})
                   /\ {m[j] : j \in DOMAIN m} = Parts(sent[c], i)
                   /\ \A j \in 1 .. Len(m) - 1 : m[j] < m[j + 1]
    <3> DEFINE m == delivered[c][n]
    <3>1. Message(sent[c], n, m) BY <2>1 DEF ReadInv, MessagesInv
    <3>2. m \in Seq(Nat) /\ Len(m) \in Nat /\ DOMAIN m = 1 .. Len(m) BY <2>1 DEF TypeOK
    <3>3. \A j \in 1 .. Len(m) - 1 : j \in DOMAIN m /\ j + 1 \in DOMAIN m /\ j < j + 1
      BY <3>2
    <3> QED BY <3>1, <3>3 DEF Message, Done, Elems, Increasing
  <2> QED BY <2>1 DEF Reassembled
<1>7. Init => T
  <2>1. ASSUME Init, NEW d \in Conns PROVE ToldInv(d)
    <3>1. fired[d] = 0 /\ lp.at = "batch" BY <2>1 DEF Init, LoopIdle
    <3> QED BY <3>1 DEF ToldInv, Firing
  <2> QED BY <2>1
<1>8. TypeOK /\ ConnInv /\ F /\ I /\ T /\ TypeOK' /\ ConnInv' /\ F' /\ [Next]_vars => T'
  BY ToldStep
<1> HIDE DEF I, F, T
<1>9. raced \/ (TypeOK /\ I /\ F /\ T) => CallbacksRight BY <1>5, <1>6 DEF CallbacksRight
<1>10. raced /\ [Next]_vars => raced' BY RacedStays
<1> QED BY <1>1, <1>2, <1>3, <1>4, <1>7, <1>8, <1>9, <1>10, HttpInvariant, PTL DEF Spec

=============================================================================
