-------------------------- MODULE HttpConnections --------------------------
(***************************************************************************)
(* The life of a connection in the HTTP server: accepted and served by a   *)
(* worker (http_server.cpp, handle_connection), upgraded to WebSocket or   *)
(* SSE, handed to the epoll loop (event_loop.cpp), used by scripts on      *)
(* other threads (websocket.cpp, sse.cpp) and closed by whoever comes      *)
(* first.                                                                  *)
(*                                                                         *)
(* Everything but the kernel and the scripts names a connection by its     *)
(* descriptor number, and a number is reused as soon as its socket is      *)
(* closed: num[c] is the number c was given, Owner(fd) the connection whose*)
(* socket has that number now.  A step is the code between two points      *)
(* where another thread can be noticed: a critical section, an atomic, a   *)
(* system call.                                                            *)
(***************************************************************************)
EXTENDS Naturals, Sequences, FiniteSets

CONSTANTS
    Conns,        \* the connections clients make, all from one address
    NumFds,       \* descriptor numbers free for connections
    Actors,       \* script threads that send, broadcast and close
    None,
    IpLimit,      \* LOOK_HTTP_MAX_CONNS_IP
    MaxConn,      \* LOOK_WS_MAX_CONN, LOOK_SSE_MAX_CONN
    MaxParts,     \* WS_MAX_MESSAGE, in frames
    Talk          \* bound: what each client may send, as a set of frame sequences

Fds == 1 .. NumFds
Kinds == {"ws", "sse"}
\* What a frame is to the frame loop; "huge" is one above WS_MAX_FRAME.
FrameKinds == {"text", "first", "cont", "last", "ping", "close", "bad", "huge"}

ASSUME HttpAssumption ==
    /\ IsFiniteSet(Conns) /\ None \notin Conns \cup Nat \cup Actors
    /\ NumFds \in Nat /\ IpLimit \in Nat \ {0} /\ MaxConn \in Nat \ {0}
    /\ MaxParts \in Nat \ {0}
    /\ Talk \in [Conns -> [Kinds -> SUBSET Seq(FrameKinds)]]

VARIABLES
    num, open,        \* kernel: the socket's number, and whether it is open
    peer,             \* kernel: the client is "away", "here" or "gone"
    sent,             \* frames the client has sent
    inbox,            \* kernel: indices in sent[c] of the frames not read yet
    inEpoll, edge,    \* kernel: registered, and with an event to report
    pc, kind,         \* where c's worker is; what c was upgraded to
    ipConns,          \* g_http_ip_conns of the address
    held,             \* held_ip of c is set
    clients,          \* ws_clients and sse_clients
    reg,              \* g_ws_registry and g_sse_registry
    buf, frag,        \* ws_bufs; frag_buf (<<>>: frag_active is false)
    closed, mutex,    \* closed and write_mutex of c
    table, entryClosed, \* fds of the loop, by connection added; FdEntry::closed
    tasks,            \* numbers in posted calls of close_sse
    lp,               \* the loop thread
    act,              \* the script threads
    cause,            \* why closed was set first: history
    stray,            \* <<from, to, what>>: written for one, received by another: history
    fired,            \* runs of the close callback: history
    delivered,        \* messages submitted to on_message: history
    raced             \* a connection took a number still carried for another: history

kernelVars == <<num, open, peer, sent, inbox, inEpoll, edge>>
connVars == <<clients, reg, buf, frag, closed, mutex>>
loopVars == <<table, entryClosed, tasks, lp>>
history == <<cause, stray, fired, delivered, raced>>
vars == <<kernelVars, pc, kind, ipConns, held, connVars, loopVars, act, history>>

\* The connection whose socket has the number fd.
Owner(fd) == IF \E c \in Conns : open[c] /\ num[c] = fd
             THEN CHOOSE c \in Conns : open[c] /\ num[c] = fd ELSE None

Nowhere == [fd \in Fds |-> None]
LoopIdle == [at |-> "batch", fd |-> None, entry |-> None, conn |-> None, ret |-> "batch",
             fire |-> FALSE, batch |-> {}, wake |-> FALSE, local |-> <<>>]
ActIdle == [at |-> "idle", todo |-> {}, conn |-> None]

Init ==
    /\ num = [c \in Conns |-> None] /\ open = [c \in Conns |-> FALSE]
    /\ peer = [c \in Conns |-> "away"]
    /\ sent = [c \in Conns |-> <<>>] /\ inbox = [c \in Conns |-> <<>>]
    /\ inEpoll = [c \in Conns |-> FALSE] /\ edge = [c \in Conns |-> FALSE]
    /\ pc = [c \in Conns |-> "out"] /\ kind = [c \in Conns |-> None]
    /\ ipConns = 0 /\ held = [c \in Conns |-> FALSE]
    /\ clients = [k \in Kinds |-> Nowhere] /\ reg = [k \in Kinds |-> Nowhere]
    /\ buf = [fd \in Fds |-> <<>>] /\ frag = [c \in Conns |-> <<>>]
    /\ closed = [c \in Conns |-> FALSE] /\ mutex = [c \in Conns |-> None]
    /\ table = Nowhere /\ entryClosed = [c \in Conns |-> FALSE]
    /\ tasks = <<>> /\ lp = LoopIdle
    /\ act = [a \in Actors |-> ActIdle]
    /\ cause = [c \in Conns |-> "none"] /\ stray = {}
    /\ fired = [c \in Conns |-> 0] /\ delivered = [c \in Conns |-> <<>>]
    /\ raced = FALSE

-----------------------------------------------------------------------------
(* Clients and the kernel *)

\* accept4 gives the lowest free number.
Accept(c) ==
    /\ pc[c] = "out"
    /\ \E fd \in Fds :
          /\ Owner(fd) = None /\ \A e \in Fds : Owner(e) = None => fd <= e
          /\ num' = [num EXCEPT ![c] = fd]
    /\ open' = [open EXCEPT ![c] = TRUE]
    /\ peer' = [peer EXCEPT ![c] = "here"]
    /\ pc' = [pc EXCEPT ![c] = "accepted"]
    /\ UNCHANGED <<sent, inbox, inEpoll, edge, kind, ipConns, held, connVars, loopVars, act,
                   history>>

\* A client sends frames once the upgrade has been answered.
ClientSends(c) ==
    /\ open[c] /\ peer[c] = "here"
    /\ pc[c] \in {"map", "register", "hold", "handler", "arm", "done"}
    /\ \E s \in Talk[c][kind[c]] :
          /\ Len(s) > Len(sent[c]) /\ SubSeq(s, 1, Len(sent[c])) = sent[c]
          /\ sent' = [sent EXCEPT ![c] = SubSeq(s, 1, Len(@) + 1)]
    /\ inbox' = [inbox EXCEPT ![c] = Append(@, Len(sent[c]) + 1)]
    /\ edge' = [edge EXCEPT ![c] = @ \/ inEpoll[c]]
    /\ UNCHANGED <<num, open, peer, inEpoll, pc, kind, ipConns, held, connVars, loopVars, act,
                   history>>

ClientLeaves(c) ==
    /\ peer[c] = "here"
    /\ peer' = [peer EXCEPT ![c] = "gone"]
    /\ edge' = [edge EXCEPT ![c] = @ \/ inEpoll[c]]
    /\ UNCHANGED <<num, open, sent, inbox, inEpoll, pc, kind, ipConns, held, connVars, loopVars,
                   act, history>>

Readable(c) == inbox[c] # <<>> \/ peer[c] = "gone"

\* ::close(fd): the socket with that number goes, and with it its epoll registration.
CloseNumber(fd) ==
    LET gone(f, v) == [c \in Conns |-> IF open[c] /\ num[c] = fd THEN v ELSE f[c]]
    IN  /\ open' = gone(open, FALSE) /\ inEpoll' = gone(inEpoll, FALSE)
        /\ edge' = gone(edge, FALSE) /\ inbox' = gone(inbox, <<>>)

\* A write of c's data or close frame to its number: who receives it.
WriteData(c, what) ==
    stray' = IF Owner(num[c]) \in {c, None} THEN stray
             ELSE stray \cup {<<c, Owner(num[c]), what>>}

-----------------------------------------------------------------------------
(* The worker: handle_connection, handle_ws_upgrade, handle_sse_upgrade *)

Goto(c, p) == pc' = [pc EXCEPT ![c] = p]

\* http_ip_release, for a connection whose held_ip may be empty.
IpRelease(has) == ipConns' = IF has /\ ipConns > 0 THEN ipConns - 1 ELSE ipConns

\* http_ip_acquire; a refused connection is told so and closed.
HandleConnection(c) ==
    /\ pc[c] = "accepted"
    /\ IF ipConns >= IpLimit
       THEN CloseNumber(num[c]) /\ Goto(c, "done") /\ UNCHANGED ipConns
       ELSE Goto(c, "request") /\ ipConns' = ipConns + 1
            /\ UNCHANGED <<open, inEpoll, edge, inbox>>
    /\ UNCHANGED <<num, peer, sent, kind, held, connVars, loopVars, act, history>>

\* One request of the keep-alive loop, answered.
ServeRequest(c) ==
    /\ pc[c] = "request" /\ peer[c] = "here"
    /\ WriteData(c, "data")
    /\ UNCHANGED <<kernelVars, pc, kind, ipConns, held, connVars, loopVars, act, cause, fired,
                   delivered, raced>>

\* End of stream, a time limit, a bad request, an answer that ends the connection, or an
\* upgrade request with a foreign Origin: ::close(fd); ~IpSlot comes after it.
EndRequest(c) ==
    /\ pc[c] = "request"
    /\ CloseNumber(num[c])
    /\ Goto(c, "release")
    /\ UNCHANGED <<num, peer, sent, kind, ipConns, held, connVars, loopVars, act, history>>

Full(k) == Cardinality({fd \in Fds : reg[k][fd] # None}) >= MaxConn

\* An upgrade request: refused if the registry is full, else answered 101 or 200.
Upgrade(c) ==
    /\ pc[c] = "request"
    /\ \E k \in Kinds :
          /\ kind' = [kind EXCEPT ![c] = k]
          /\ IF Full(k) THEN CloseNumber(num[c]) /\ Goto(c, "release")
             ELSE Goto(c, "map") /\ UNCHANGED <<open, inEpoll, edge, inbox>>
    /\ UNCHANGED <<num, peer, sent, ipConns, held, connVars, loopVars, act, history>>

\* Numbers of closed connections that the loop or a posted task still carries.
Carried ==
    {lp.fd} \cup {tasks[i] : i \in DOMAIN tasks} \cup {lp.local[i] : i \in DOMAIN lp.local}

\* Into ws_clients and ws_bufs, or sse_clients, whoever still carries the number.
MapInsert(c) ==
    /\ pc[c] = "map"
    /\ raced' = (raced \/ num[c] \in Carried)
    /\ clients' = [clients EXCEPT ![kind[c]][num[c]] = c]
    /\ buf' = IF kind[c] = "ws" THEN [buf EXCEPT ![num[c]] = <<>>] ELSE buf
    /\ Goto(c, "register")
    /\ UNCHANGED <<kernelVars, kind, ipConns, held, reg, frag, closed, mutex, loopVars, act, cause,
                   stray, fired, delivered>>

\* WsRegistry::add, SseRegistry::add: the limit is tested again.
Register(c) ==
    /\ pc[c] = "register"
    /\ IF Full(kind[c]) THEN Goto(c, "unmap") /\ UNCHANGED reg
       ELSE Goto(c, "hold") /\ reg' = [reg EXCEPT ![kind[c]][num[c]] = c]
    /\ UNCHANGED <<kernelVars, kind, ipConns, held, clients, buf, frag, closed, mutex, loopVars,
                   act, history>>

\* The limit was reached meanwhile: out of the map, and closed.
Unmap(c) ==
    /\ pc[c] = "unmap"
    /\ clients' = [clients EXCEPT ![kind[c]][num[c]] = None]
    /\ buf' = IF kind[c] = "ws" THEN [buf EXCEPT ![num[c]] = <<>>] ELSE buf
    /\ CloseNumber(num[c])
    /\ Goto(c, "release")
    /\ UNCHANGED <<num, peer, sent, kind, ipConns, held, reg, frag, closed, mutex, loopVars, act,
                   history>>

\* held_ip and IpSlot::moved: the connection takes the worker's slot along.
MoveSlot(c) ==
    /\ pc[c] = "hold"
    /\ held' = [held EXCEPT ![c] = TRUE]
    /\ Goto(c, "handler")
    /\ UNCHANGED <<kernelVars, kind, ipConns, connVars, loopVars, act, history>>

\* Variant: no entry in the table.
AddClientNoEntry(c) ==
    /\ pc[c] = "handler"
    /\ Goto(c, "arm")
    /\ UNCHANGED <<kernelVars, kind, ipConns, held, connVars, loopVars, act, history>>

\* ws_handler or sse_handler has returned (what the script does meanwhile is the actors'
\* part); add_client puts the number in the table, ...
AddClient(c) ==
    /\ pc[c] = "handler"
    /\ table' = [table EXCEPT ![num[c]] = c]
    /\ Goto(c, "arm")
    /\ UNCHANGED <<kernelVars, kind, ipConns, held, connVars, entryClosed, tasks, lp, act, history>>

\* Variant: the slot is not moved, ~IpSlot gives it back too.
EpollAddUnmoved(c) ==
    /\ pc[c] = "arm"
    /\ inEpoll' = [d \in Conns |-> inEpoll[d] \/ d = Owner(num[c])]
    /\ edge' = [d \in Conns |-> edge[d] \/ (d = Owner(num[c]) /\ Readable(d))]
    /\ Goto(c, "release")
    /\ UNCHANGED <<num, open, peer, sent, inbox, kind, ipConns, held, connVars, loopVars, act,
                   history>>

\* ... and then in epoll, which reports what is already there.
EpollAdd(c) ==
    /\ pc[c] = "arm"
    /\ inEpoll' = [d \in Conns |-> inEpoll[d] \/ d = Owner(num[c])]
    /\ edge' = [d \in Conns |-> edge[d] \/ (d = Owner(num[c]) /\ Readable(d))]
    /\ Goto(c, "done")
    /\ UNCHANGED <<num, open, peer, sent, inbox, kind, ipConns, held, connVars, loopVars, act,
                   history>>

\* ~IpSlot
ReleaseSlot(c) ==
    /\ pc[c] = "release"
    /\ IpRelease(TRUE)
    /\ Goto(c, "done")
    /\ UNCHANGED <<kernelVars, kind, held, connVars, loopVars, act, history>>

WorkerStep(c) ==
    \/ HandleConnection(c) \/ ServeRequest(c) \/ EndRequest(c) \/ Upgrade(c) \/ MapInsert(c)
    \/ Register(c) \/ Unmap(c) \/ MoveSlot(c) \/ AddClient(c) \/ EpollAdd(c) \/ ReleaseSlot(c)

-----------------------------------------------------------------------------
(* Scripts: ws::send, sse::send, ws::broadcast, ws::close, sse::close *)

\* The handler has been given the connection; callbacks and timers may keep it.
Known(c) == held[c]

Rest(todo) == IF todo = {} THEN ActIdle ELSE [at |-> "next", todo |-> todo, conn |-> None]

\* closed is set, and history keeps the first cause.
SetClosed(c, why) ==
    /\ closed' = [closed EXCEPT ![c] = TRUE]
    /\ cause' = IF closed[c] THEN cause ELSE [cause EXCEPT ![c] = why]

BeginSend(a) ==
    /\ act[a].at = "idle"
    /\ \/ \E c \in Conns : Known(c) /\ act' = [act EXCEPT ![a] = Rest({c})]
       \/ \* broadcast copies the registry and sends without its lock
          act' = [act EXCEPT ![a] = Rest({reg["ws"][fd] : fd \in Fds} \ {None})]
    /\ UNCHANGED <<kernelVars, pc, kind, ipConns, held, connVars, loopVars, history>>

\* send_text, SseConnection::send: nothing if closed, tested before and after the lock.
SendLock(a) ==
    /\ act[a].at = "next"
    /\ \E c \in act[a].todo :
          IF closed[c] THEN act' = [act EXCEPT ![a] = Rest(@.todo \ {c})] /\ UNCHANGED mutex
          ELSE /\ mutex[c] = None /\ mutex' = [mutex EXCEPT ![c] = a]
               /\ act' = [act EXCEPT ![a] = [at |-> "write", todo |-> @.todo \ {c}, conn |-> c]]
    /\ UNCHANGED <<kernelVars, pc, kind, ipConns, held, clients, reg, buf, frag, closed, loopVars,
                   history>>

SendWrite(a) ==
    LET c == act[a].conn IN
    /\ act[a].at = "write"
    /\ \/ Owner(num[c]) # None /\ WriteData(c, "data") /\ UNCHANGED <<closed, cause>>
       \/ SetClosed(c, "send") /\ UNCHANGED stray
    /\ mutex' = [mutex EXCEPT ![c] = None]
    /\ act' = [act EXCEPT ![a] = Rest(@.todo)]
    /\ UNCHANGED <<kernelVars, pc, kind, ipConns, held, clients, reg, buf, frag, loopVars, fired,
                   delivered, raced>>

\* WsConnection::close_conn goes on to write the close frame; SseConnection::close_conn
\* posts close_sse(fd) to the loop.
CloseConn(a) ==
    /\ act[a].at = "idle"
    /\ \E c \in Conns :
          /\ Known(c) /\ ~closed[c]
          /\ SetClosed(c, "server")
          /\ IF kind[c] = "sse" THEN tasks' = Append(tasks, num[c]) /\ UNCHANGED act
             ELSE act' = [act EXCEPT ![a] = [at |-> "bye", todo |-> {}, conn |-> c]]
                  /\ UNCHANGED tasks
    /\ UNCHANGED <<kernelVars, pc, kind, ipConns, held, clients, reg, buf, frag, mutex, table,
                   entryClosed, lp, stray, fired, delivered, raced>>

\* write_all of the close frame under the lock: closed is set already and not tested again.
CloseFrame(a) ==
    /\ act[a].at = "bye" /\ mutex[act[a].conn] = None
    /\ WriteData(act[a].conn, "bye") \/ UNCHANGED stray
    /\ act' = [act EXCEPT ![a] = ActIdle]
    /\ UNCHANGED <<kernelVars, pc, kind, ipConns, held, connVars, loopVars, cause, fired, delivered,
                   raced>>

ActorStep(a) == SendLock(a) \/ SendWrite(a) \/ CloseFrame(a)

-----------------------------------------------------------------------------
(* The event loop *)

To(p) == lp' = [lp EXCEPT !.at = p]

\* On to the next event of the batch: the number is let go.
Leave == [LoopIdle EXCEPT !.batch = lp.batch, !.wake = lp.wake, !.local = lp.local]

\* Back where close_ws or close_sse was called.
Returned ==
    IF lp.ret = "batch" THEN Leave ELSE [lp EXCEPT !.at = lp.ret, !.conn = None, !.fire = FALSE]

Reported == {c \in Conns : open[c] /\ inEpoll[c] /\ edge[c]}

\* epoll_wait; the eventfd is readable while tasks are posted.
EpollWait ==
    /\ lp = LoopIdle /\ (Reported # {} \/ tasks # <<>>)
    /\ lp' = [lp EXCEPT !.batch = {num[c] : c \in Reported}, !.wake = tasks # <<>>]
    /\ edge' = [c \in Conns |-> edge[c] /\ c \notin Reported]
    /\ UNCHANGED <<num, open, peer, sent, inbox, inEpoll, pc, kind, ipConns, held, connVars, table,
                   entryClosed, tasks, act, history>>

\* The event of the eventfd: the tasks posted so far are taken and run one by one.
TakeTasks ==
    /\ lp.at = "batch" /\ lp.wake
    /\ lp' = [lp EXCEPT !.wake = FALSE, !.local = tasks]
    /\ tasks' = <<>>
    /\ UNCHANGED <<kernelVars, pc, kind, ipConns, held, connVars, table, entryClosed, act, history>>

RunTask ==
    /\ lp.at = "batch" /\ lp.local # <<>>
    /\ lp' = [lp EXCEPT !.at = "close_sse", !.fd = Head(lp.local), !.local = Tail(@)]
    /\ UNCHANGED <<kernelVars, pc, kind, ipConns, held, connVars, table, entryClosed, tasks, act,
                   history>>

NextEvent ==
    /\ lp.at = "batch" /\ lp.local = <<>>
    /\ \E fd \in lp.batch :
          lp' = IF table[fd] = None THEN [lp EXCEPT !.batch = @ \ {fd}]
                ELSE [lp EXCEPT !.at = "read", !.batch = @ \ {fd}, !.fd = fd, !.entry = table[fd]]
    /\ UNCHANGED <<kernelVars, pc, kind, ipConns, held, connVars, table, entryClosed, tasks, act,
                   history>>

\* The read loop: what the socket with the loop's number holds.
Unread == IF Owner(lp.fd) = None THEN <<>> ELSE inbox[Owner(lp.fd)]
AtEnd == Unread = <<>> /\ (Owner(lp.fd) # None => peer[Owner(lp.fd)] = "gone")

\* The callback has closed the entry, or there is nothing to read yet.
ReadDone ==
    /\ lp.at = "read"
    /\ entryClosed[lp.entry] \/ (Unread = <<>> /\ ~AtEnd)
    /\ lp' = Leave
    /\ UNCHANGED <<kernelVars, pc, kind, ipConns, held, connVars, table, entryClosed, tasks, act,
                   history>>

\* read(fd) > 0: some of what is there.
ReadSome(n) ==
    /\ lp.at = "read" /\ ~entryClosed[lp.entry]
    /\ inbox' = [inbox EXCEPT ![Owner(lp.fd)] = SubSeq(@, n + 1, Len(@))]

\* read(fd) = 0, or an error.
ReadEnd == lp.at = "read" /\ ~entryClosed[lp.entry] /\ AtEnd

\* async_read: EPOLL_CTL_MOD reports what is readable again.
AsyncRead(fd) ==
    edge' = IF table[fd] = None THEN edge
            ELSE [c \in Conns |-> edge[c] \/ (c = Owner(fd) /\ inEpoll[c]
                                             /\ (inbox'[c] # <<>> \/ peer[c] = "gone"))]

\* Variant: the number is closed whether it is in the table or not.
CloseFdAlways(fd) ==
    /\ table' = [table EXCEPT ![fd] = None]
    /\ entryClosed' = [c \in Conns |-> entryClosed[c] \/ table[fd] = c]
    /\ CloseNumber(fd)

\* close_fd: nothing if the number is not in the table.
CloseFd(fd) ==
    IF table[fd] = None THEN UNCHANGED <<table, entryClosed, open, inEpoll, edge, inbox>>
    ELSE /\ entryClosed' = [entryClosed EXCEPT ![table[fd]] = TRUE]
         /\ table' = [table EXCEPT ![fd] = None]
         /\ CloseNumber(fd)

\* close_fd after the callback was told of the end.
CloseAgain ==
    /\ lp.at = "again"
    /\ CloseFd(lp.fd)
    /\ lp' = Leave
    /\ UNCHANGED <<num, peer, sent, pc, kind, ipConns, held, connVars, tasks, act, history>>

-----------------------------------------------------------------------------
(* on_ws_data, close_ws *)

WsData ==
    LET c == clients["ws"][lp.fd] IN
    /\ lp.at = "read" /\ kind[lp.entry] = "ws"
    /\ \E n \in DOMAIN Unread :
          /\ ReadSome(n)
          /\ IF c = None THEN UNCHANGED <<buf, lp>>
             ELSE /\ buf' = [buf EXCEPT ![lp.fd] = @ \o SubSeq(Unread, 1, n)]
                  /\ lp' = [lp EXCEPT !.at = IF closed[c] THEN "close_ws" ELSE "frames",
                                      !.conn = c, !.ret = "read"]
    /\ UNCHANGED <<num, open, peer, sent, inEpoll, edge, pc, kind, ipConns, held, clients, reg,
                   frag, closed, mutex, table, entryClosed, tasks, act, history>>

\* Variant: a new message may start inside an unfinished one.
AssembleLoose(c, i) ==
    LET f == sent[c][i]
        parts == Append(frag[c], i)
        bad == [ok |-> FALSE, msg |-> <<>>, frag |-> frag[c]]
    IN  IF \/ f \in {"cont", "last"} /\ frag[c] = <<>>
           \/ f # "text" /\ Len(parts) > MaxParts
        THEN bad
        ELSE CASE f = "text" -> [ok |-> TRUE, msg |-> <<i>>, frag |-> <<>>]
               [] f = "last" -> [ok |-> TRUE, msg |-> parts, frag |-> <<>>]
               [] OTHER -> [ok |-> TRUE, msg |-> <<>>, frag |-> parts]

\* What one frame does to a message under assembly: the message it completes (<<>>: none)
\* and the parts kept, or a violation of the protocol.
Assemble(c, i) ==
    LET f == sent[c][i]
        parts == Append(frag[c], i)
        bad == [ok |-> FALSE, msg |-> <<>>, frag |-> frag[c]]
    IN  IF \/ f \in {"text", "first"} /\ frag[c] # <<>>
           \/ f \in {"cont", "last"} /\ frag[c] = <<>>
           \/ f # "text" /\ Len(parts) > MaxParts
        THEN bad
        ELSE CASE f = "text" -> [ok |-> TRUE, msg |-> <<i>>, frag |-> <<>>]
               [] f = "last" -> [ok |-> TRUE, msg |-> parts, frag |-> <<>>]
               [] OTHER -> [ok |-> TRUE, msg |-> <<>>, frag |-> parts]

\* The loop's answer, a pong or (why # "none") a close frame after which closed is set: send_raw
\* under write_mutex, which writes nothing if closed and sets closed if the write fails.
Answer(c, why) ==
    /\ mutex[c] = None
    /\ \/ /\ ~closed[c] /\ WriteData(c, "data")
          /\ IF why = "none" THEN UNCHANGED <<closed, cause>> ELSE SetClosed(c, why)
       \/ SetClosed(c, "send") /\ UNCHANGED stray

\* The buffer has a frame the decoder gives back: one above WS_MAX_FRAME is never complete.
Decodable == buf[lp.fd] # <<>> /\ sent[lp.conn][Head(buf[lp.fd])] # "huge"

\* One turn of the frame loop.
WsFrame ==
    LET c == lp.conn
        i == Head(buf[lp.fd])
        f == sent[c][i]
        r == Assemble(c, i)
        break == Answer(c, "client") /\ To("after") /\ UNCHANGED <<frag, fired, delivered>>
    IN
    /\ lp.at = "frames" /\ Decodable
    /\ buf' = IF f = "bad" THEN buf ELSE [buf EXCEPT ![lp.fd] = Tail(@)]
    /\ CASE f = "bad" -> break
         [] f = "ping" -> Answer(c, "none") /\ UNCHANGED <<lp, frag, fired, delivered>>
         [] f = "close" ->
              /\ Answer(c, "bye") /\ To("close_ws")
              /\ fired' = [fired EXCEPT ![c] = @ + 1]
              /\ UNCHANGED <<frag, delivered>>
         [] OTHER ->
              IF ~r.ok THEN break
              ELSE /\ frag' = [frag EXCEPT ![c] = r.frag]
                   /\ delivered' = IF r.msg = <<>> THEN delivered
                                   ELSE [delivered EXCEPT ![c] = Append(@, r.msg)]
                   /\ UNCHANGED <<lp, closed, cause, stray, fired>>
    /\ UNCHANGED <<kernelVars, pc, kind, ipConns, held, clients, reg, mutex, table, entryClosed,
                   tasks, act, raced>>

\* No complete frame is left, or the loop was broken off.
WsFramesDone ==
    /\ \/ lp.at = "frames" /\ ~Decodable
       \/ lp.at = "after"
    /\ UNCHANGED inbox
    /\ IF closed[lp.conn] THEN To("close_ws") /\ UNCHANGED edge
       ELSE AsyncRead(lp.fd) /\ lp' = [lp EXCEPT !.at = "read", !.conn = None]
    /\ UNCHANGED <<num, open, peer, sent, inEpoll, pc, kind, ipConns, held, connVars, table,
                   entryClosed, tasks, act, history>>

\* The client left without a close frame.
WsEof ==
    LET c == clients["ws"][lp.fd] IN
    /\ ReadEnd /\ kind[lp.entry] = "ws"
    /\ IF c # None /\ ~closed[c]
       THEN /\ SetClosed(c, "gone")
            /\ fired' = [fired EXCEPT ![c] = @ + 1]
       ELSE UNCHANGED <<closed, cause, fired>>
    /\ lp' = [lp EXCEPT !.at = "close_ws", !.ret = "again"]
    /\ UNCHANGED <<kernelVars, pc, kind, ipConns, held, clients, reg, buf, frag, mutex, table,
                   entryClosed, tasks, act, stray, delivered, raced>>

\* close_ws, first part: forget the connection, release its slot, stop new sends.
CloseWs ==
    LET c == clients["ws"][lp.fd] IN
    /\ lp.at = "close_ws"
    /\ lp' = [lp EXCEPT !.at = "drain_ws", !.conn = c]
    /\ clients' = [clients EXCEPT !["ws"][lp.fd] = None]
    /\ buf' = [buf EXCEPT ![lp.fd] = <<>>]
    /\ IF c = None THEN UNCHANGED <<ipConns, closed, cause>>
       ELSE IpRelease(held[c]) /\ SetClosed(c, "stray")
    /\ UNCHANGED <<kernelVars, pc, kind, held, reg, frag, mutex, table, entryClosed, tasks, act,
                   stray, fired, delivered, raced>>

\* Variant: no wait for a send in flight.
DrainWsAtOnce ==
    /\ lp.at = "drain_ws"
    /\ reg' = [reg EXCEPT !["ws"][lp.fd] = None]
    /\ CloseFd(lp.fd)
    /\ lp' = Returned
    /\ UNCHANGED <<num, peer, sent, pc, kind, ipConns, held, clients, buf, frag, closed, mutex,
                   tasks, act, history>>

\* Second part: wait for a send in flight, then close the descriptor.
DrainWs ==
    /\ lp.at = "drain_ws" /\ (lp.conn # None => mutex[lp.conn] = None)
    /\ reg' = [reg EXCEPT !["ws"][lp.fd] = None]
    /\ CloseFd(lp.fd)
    /\ lp' = Returned
    /\ UNCHANGED <<num, peer, sent, pc, kind, ipConns, held, clients, buf, frag, closed, mutex,
                   tasks, act, history>>

-----------------------------------------------------------------------------
(* on_sse_data, close_sse *)

SseData ==
    LET c == clients["sse"][lp.fd] IN
    /\ lp.at = "read" /\ kind[lp.entry] = "sse"
    /\ \E n \in DOMAIN Unread : ReadSome(n)
    /\ IF c = None \/ closed[c]
       THEN lp' = [lp EXCEPT !.at = "close_sse", !.ret = "read"] /\ UNCHANGED edge
       ELSE AsyncRead(lp.fd) /\ UNCHANGED lp
    /\ UNCHANGED <<num, open, peer, sent, inEpoll, pc, kind, ipConns, held, connVars, table,
                   entryClosed, tasks, act, history>>

SseEof ==
    /\ ReadEnd /\ kind[lp.entry] = "sse"
    /\ lp' = [lp EXCEPT !.at = "close_sse", !.ret = "again"]
    /\ UNCHANGED <<kernelVars, pc, kind, ipConns, held, connVars, table, entryClosed, tasks, act,
                   history>>

\* The call that finds the connection in the map owns the cleaning up.
CloseSse ==
    LET c == clients["sse"][lp.fd] IN
    /\ lp.at = "close_sse"
    /\ IF c = None
       THEN /\ lp' = Returned
            /\ UNCHANGED <<clients, reg, ipConns, closed, cause>>
       ELSE /\ lp' = [lp EXCEPT !.at = "drain_sse", !.conn = c, !.fire = ~closed[c]]
            /\ clients' = [clients EXCEPT !["sse"][lp.fd] = None]
            /\ reg' = [reg EXCEPT !["sse"][lp.fd] = None]
            /\ IpRelease(held[c])
            /\ SetClosed(c, IF peer[c] = "gone" THEN "gone" ELSE "stray")
    /\ UNCHANGED <<kernelVars, pc, kind, held, buf, frag, mutex, table, entryClosed, tasks, act,
                   stray, fired, delivered, raced>>

DrainSse ==
    LET c == lp.conn IN
    /\ lp.at = "drain_sse" /\ mutex[c] = None
    /\ CloseFd(lp.fd)
    /\ fired' = IF lp.fire THEN [fired EXCEPT ![c] = @ + 1] ELSE fired
    /\ lp' = Returned
    /\ UNCHANGED <<num, peer, sent, pc, kind, ipConns, held, connVars, tasks, act, cause, stray,
                   delivered, raced>>

LoopStep ==
    \/ EpollWait \/ TakeTasks \/ RunTask \/ NextEvent \/ ReadDone \/ CloseAgain
    \/ WsData \/ WsFrame \/ WsFramesDone \/ WsEof \/ CloseWs \/ DrainWs
    \/ SseData \/ SseEof \/ CloseSse \/ DrainSse

-----------------------------------------------------------------------------
Next ==
    \/ \E c \in Conns : Accept(c) \/ ClientSends(c) \/ ClientLeaves(c) \/ WorkerStep(c)
    \/ \E a \in Actors : BeginSend(a) \/ CloseConn(a) \/ ActorStep(a)
    \/ LoopStep

Spec == Init /\ [][Next]_vars

-----------------------------------------------------------------------------
(***************************************************************************)
(* Properties.  The loop and posted calls of close_sse name connections by *)
(* number.  raced is the one event that undoes them all: a connection that *)
(* is entered in the maps under a number still carried for its previous    *)
(* owner is then taken for that owner.  OnlyOwnersClosed, which makes no   *)
(* exception for it, does not hold of the code; the others say what holds  *)
(* of every execution up to such an event.                                 *)
(***************************************************************************)
In(f, c) == \E fd \in Fds : f[fd] = c

\* g_http_ip_conns counts every connection once: while its worker has it, and after an upgrade
\* for as long as it is in the server's map; the slot is never given back twice nor kept.
SlotsExact ==
    ipConns = Cardinality({c \in Conns :
        \/ pc[c] \in {"request", "map", "register", "unmap", "hold", "release"}
        \/ held[c] /\ \E k \in Kinds : In(clients[k], c)})

\* A connection whose socket is closed is in no map, no registry and not in the loop's table:
\* nothing can be written to, read from or closed at its number on its behalf.
TablesClean ==
    \A c \in Conns : open[c] = FALSE =>
        ~In(table, c) /\ \A k \in Kinds : ~In(clients[k], c) /\ ~In(reg[k], c)

\* Together: unless a number was raced for, the address slots and every table agree with the
\* sockets that are open.
TablesExact == raced \/ (SlotsExact /\ TablesClean)

\* Unless a number was raced for, no answer, message or event meant for one client reaches
\* another: close_ws and close_sse wait for a send in flight before the number is free again.
\* The close frame of close_conn, which no closed flag stops, is the exception (WritesToOwn).
DataToOwn == raced \/ \A s \in stray : s[3] = "bye"

\* As DataToOwn, close frames included: what the comment of close_ws says of every write.
WritesToOwn == raced \/ stray = {}

\* The connection was handed to a script and has been cleaned up.
Ended(c) == held[c] /\ ~open[c] /\ lp.conn # c

\* The close callback runs at most once; never for a client that neither left nor sent a close
\* frame; and it has run once the connection is cleaned up if what closed it first was the
\* client's end of stream or close frame.  A connection that a failed send had marked closed
\* before is not promised a callback (LeaversReported).
CloseReported ==
    \A c \in Conns :
        /\ fired[c] <= 1
        /\ fired[c] = 1 => peer[c] = "gone" \/ \E i \in DOMAIN sent[c] : sent[c][i] = "close"
        /\ Ended(c) /\ cause[c] \in {"gone", "bye"} => fired[c] = 1

\* What the documentation says of on "close": the callback has run for every client that went
\* away, unless the server closed the connection itself (close(), a breach of the protocol).
LeaversReported ==
    raced \/ \A c \in Conns :
        Ended(c) /\ peer[c] = "gone" /\ cause[c] \notin {"server", "client"} => fired[c] = 1

\* What the decoder says of a frame above WS_MAX_FRAME: it is refused.  Between events no open
\* connection keeps such a frame at the head of its buffer.
OversizedRefused ==
    raced \/ \A fd \in Fds :
        LET c == clients["ws"][fd] IN
        lp.at = "batch" /\ c # None /\ buf[fd] # <<>> => sent[c][Head(buf[fd])] # "huge"

\* The reference for on_message: frame i of s breaks the protocol, or ends the connection, ...
Pending(s, i) == \E j \in 1 .. i - 1 : s[j] = "first" /\ \A k \in j + 1 .. i - 1 : s[k] # "last"
Parts(s, i) ==
    {j \in 1 .. i : /\ s[j] \in {"text", "first", "cont", "last"}
                    /\ \A k \in j + 1 .. i : s[k] \in {"cont", "last", "ping"}}
Breaks(s, i) ==
    \/ s[i] \in {"bad", "close", "huge"}
    \/ s[i] \in {"text", "first"} /\ Pending(s, i)
    \/ s[i] \in {"cont", "last"} /\ ~Pending(s, i)
    \/ s[i] # "text" /\ Cardinality(Parts(s, i)) > MaxParts
\* ... and it completes a message if nothing broke before.
Completes(s) == {i \in DOMAIN s : s[i] \in {"text", "last"} /\ \A j \in 1 .. i : ~Breaks(s, j)}

\* The n-th message handed to on_message is the n-th message the client completed, made of all
\* its parts in order, whatever the reads cut and whoever closes meanwhile.
Reassembled ==
    \A c \in Conns : \A n \in DOMAIN delivered[c] :
        LET m == delivered[c][n]
            i == m[Len(m)]
        IN  /\ i \in Completes(sent[c])
            /\ n = Cardinality({j \in Completes(sent[c]) : j <= i})
            /\ {m[j] : j \in DOMAIN m} = Parts(sent[c], i)
            /\ \A j \in 1 .. Len(m) - 1 : m[j] < m[j + 1]

\* Together: unless a number was raced for, the script hears each message once and whole, and
\* the end of the connection at most once and rightly.
CallbacksRight == raced \/ (Reassembled /\ CloseReported)

\* A socket closes because its own worker turned it away, its client has left, or something was
\* wrong with this very connection.
OwnClose(c) ==
    \/ pc[c] \in {"accepted", "request", "unmap"} /\ pc'[c] \in {"release", "done"}
    \/ peer[c] = "gone"
    \/ cause[c] \in {"server", "send", "client", "bye"}

\* The server closes no socket because of an earlier owner's number, unless a number was raced
\* for: the second close_fd and the late close_sse pass over a next owner of any other kind,
\* accepted, being served or being upgraded.
NoForeignClose == [][raced \/ \A c \in Conns : open[c] /\ ~open'[c] => OwnClose(c)]_vars

\* As NoForeignClose, for every next owner: what the comment of close_fd says.
OnlyOwnersClosed == [][\A c \in Conns : open[c] /\ ~open'[c] => OwnClose(c)]_vars

\* Unless a number was raced for: epoll reports a change once, and what a registered connection
\* has to be read, its end included, is still to be reported, in the batch at hand, or being
\* read: a client that has left is noticed, whatever the loop was doing.
Noticed ==
    raced \/ \A c \in Conns : open[c] /\ pc[c] = "done" /\ Readable(c) =>
        edge[c] \/ num[c] \in lp.batch \/ lp.entry = c

=============================================================================
