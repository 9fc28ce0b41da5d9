-------------------------------- MODULE Smtp --------------------------------
(***************************************************************************)
(* The SMTP server (smtp_server.cpp) on the event loop of event_loop.cpp:  *)
(* one loop thread that accepts, reads, writes and runs posted tasks, and  *)
(* a pool of worker threads that hand complete messages to the handler.    *)
(*                                                                         *)
(* A client sends the lines of its script in pieces of any size, when it   *)
(* likes, without waiting for replies (PIPELINING), and may close at any   *)
(* moment.  What it should see is what it would see if it sent one line    *)
(* at a time: Alone, below, plays a script that way.                       *)
(*                                                                         *)
(* Left out: TLS (STARTTLS is refused, and do_starttls is never called),   *)
(* lines that are too long, and what SPF and DKIM compute on the worker.   *)
(***************************************************************************)
EXTENDS Integers, Sequences, SequencesExt, FiniteSets

CONSTANTS
    Conns,         \* the connections, in the order they are made: 1 .. n
    Script,        \* Script[k]: the lines client k will send
    IpOf,          \* the address client k connects from
    Submission,    \* the connections made to the submission port
    Fds,           \* file descriptor numbers: 1 .. n
    MaxConn,       \* smtp_max_conn()
    MaxPerIp,      \* smtp_max_conns_per_ip()
    MaxErrors,     \* smtp_max_errors()
    MaxRcpt,       \* smtp_max_rcpt()
    MaxMsg,        \* smtp_max_msg(), in body lines
    MaxPending,    \* smtp_max_msg() + SMTP_PENDING_SLACK, in lines
    Workers,       \* number of worker threads
    Loopback,      \* the addresses of this machine
    StallAtBanner  \* the idle limit may pass before the greeting is written

ASSUME SmtpAssumption ==
    /\ IsFiniteSet(Conns) /\ Conns = 1 .. Cardinality(Conns)
    /\ IsFiniteSet(Fds) /\ Fds = 1 .. Cardinality(Fds)
    /\ \A k \in Conns : Script[k] \in Seq(STRING \X STRING)
    /\ {MaxConn, MaxPerIp, MaxErrors, MaxRcpt, MaxMsg, MaxPending, Workers} \subseteq Nat
    /\ Submission \subseteq Conns /\ StallAtBanner \in BOOLEAN

-----------------------------------------------------------------------------
(***************************************************************************)
(* The session's own state and what one line does to it.  A line is        *)
(* <<verb, argument>>: the argument is the sender, a recipient ("local",   *)
(* "remote"), a password ("good" or not) or a piece of the body.  "bad"    *)
(* and "huge" are the addresses and announced sizes that are refused.      *)
(***************************************************************************)
Fresh ==
    [state |-> "GREETING", from |-> "", rcpt |-> <<>>, data |-> <<>>,
     errors |-> 0, auth |-> FALSE]

ResetEnvelope(s) ==
    [s EXCEPT !.state = "READY", !.from = "", !.rcpt = <<>>, !.data = <<>>]

\* What dispatching a line comes to: the session, the reply it starts (""
\* for none) and what happens once the reply is written.
Answer(s, reply, then) == [s |-> s, reply |-> reply, then |-> then]

ErrorReply(s) ==
    LET t == [s EXCEPT !.errors = @ + 1]
    IN  IF t.errors >= MaxErrors THEN Answer(t, "421", "close") ELSE Answer(t, "5xx", "resume")

HandleEhlo(s, line) ==
    IF line[1] = "EHLO" THEN Answer([s EXCEPT !.state = "READY"], "250", "resume")
    ELSE ErrorReply(s)

MayLogIn(k, s, password) ==
    k \in Submission /\ ~s.auth /\ IpOf[k] \in Loopback /\ password = "good"

HandleReady(k, s, line) ==
    CASE line[1] = "AUTH" /\ MayLogIn(k, s, line[2]) ->
            Answer([s EXCEPT !.auth = TRUE], "235", "resume")
      [] line[1] = "MAIL" /\ line[2] \notin {"bad", "huge"} /\ (k \in Submission => s.auth) ->
            Answer([s EXCEPT !.from = line[2], !.state = "MAIL_FROM"], "250", "resume")
      [] line[1] = "EHLO" -> HandleEhlo(s, line)
      [] OTHER -> ErrorReply(s)

\* validate_rcpt: the limit, and no relaying for strangers.
ValidateRcpt(s, rcpt) ==
    rcpt # "bad" /\ Len(s.rcpt) < MaxRcpt /\ (s.auth \/ rcpt = "local")

HandleMailFrom(s, line) ==
    IF line[1] = "RCPT" /\ ValidateRcpt(s, line[2])
    THEN Answer([s EXCEPT !.rcpt = Append(@, line[2]), !.state = "RCPT_TO"], "250", "resume")
    ELSE ErrorReply(s)

HandleRcptTo(s, line) ==
    IF line[1] = "DATA" THEN Answer([s EXCEPT !.state = "DATA_INIT"], "354", "body")
    ELSE HandleMailFrom(s, line)

\* A body line that fits starts no reply; "." hands the message to a worker.
HandleDataBody(s, line) ==
    LET t == IF line[1] = "." THEN s ELSE [s EXCEPT !.data = Append(@, line[2])]
    IN  CASE Len(t.data) > MaxMsg -> Answer(t, "552", "reset")
          [] Len(t.data) <= MaxMsg /\ line[1] = "." -> Answer(t, "verdict", "reset")
          [] OTHER -> Answer(t, "", "go on")

DispatchLine(k, s, line) ==
    IF s.state = "DATA_BODY" THEN HandleDataBody(s, line)
    ELSE CASE line[1] = "QUIT" -> Answer(s, "221", "close")
           [] line[1] = "RSET" -> Answer(ResetEnvelope(s), "250", "resume")
           [] line[1] = "NOOP" -> Answer(s, "250", "resume")
           [] OTHER ->
                CASE s.state = "EHLO"      -> HandleEhlo(s, line)
                  [] s.state = "READY"     -> HandleReady(k, s, line)
                  [] s.state = "MAIL_FROM" -> HandleMailFrom(s, line)
                  [] s.state = "RCPT_TO"   -> HandleRcptTo(s, line)
                  [] s.state = "DATA_INIT" -> Answer(s, "", "go on")
                  [] OTHER                 -> ErrorReply(s)

\* What the continuation of a reply does to the session.
Continue(s, then) ==
    CASE then = "banner" -> [s EXCEPT !.state = "EHLO"]
      [] then = "body"   -> [s EXCEPT !.state = "DATA_BODY"]
      [] then = "reset"  -> ResetEnvelope(s)
      [] OTHER           -> s

Message(s) == [from |-> s.from, rcpt |-> s.rcpt, data |-> s.data]

(***************************************************************************)
(* The reference: what client k is told and what mail it hands in when it  *)
(* sends each line only after the one before has been answered.            *)
(***************************************************************************)
AfterLine(k, prev, i) ==
    LET a == DispatchLine(k, prev.s, Script[k][i])
    IN  IF prev.over THEN prev
        ELSE [s |-> Continue(a.s, a.then),
              over |-> a.then = "close",
              replies |-> IF a.reply = "" THEN prev.replies
                          ELSE Append(prev.replies, <<i, a.reply>>),
              mail |-> IF a.reply = "verdict" THEN Append(prev.mail, Message(a.s))
                       ELSE prev.mail]

\* Play(k)[i]: after i lines.
Play(k) ==
    LET at[i \in 0 .. Len(Script[k])] ==
            IF i = 0
            THEN [s |-> Continue(Fresh, "banner"), over |-> FALSE,
                  replies |-> <<<<0, "220">>>>, mail |-> <<>>]
            ELSE AfterLine(k, at[i - 1], i)
    IN  at

Alone == [k \in Conns |-> Play(k)[Len(Script[k])]]

-----------------------------------------------------------------------------
VARIABLES
    client,    \* client[k]: "new", "open", "fin" once it has closed, "refused"
    sent,      \* lines client k has sent
    got,       \* lines of client k the server has read
    fdOf,      \* the open descriptor of connection k, or 0
    fds,       \* EventLoop fds: per descriptor an entry, or NoEntry
    reading,   \* the descriptor whose read loop the loop thread is in, or 0
    sessions,  \* descriptor -> the connection of the session there, or 0
    sess,      \* the SmtpSession of connection k; `next' is the first line
               \* of its buf, which holds next .. got[k]
    count,     \* conn_count
    ips,       \* g_ip_conns
    queue,     \* SmtpWorkerPool::queue
    busy,      \* the items the workers are busy with
    tasks,     \* EventLoop tasks: the replies the workers have posted
    mail,      \* mail[k]: the messages of k the handler was given
    replies    \* replies[k]: what was written to connection k

clientVars  == <<client, sent>>
sessionVars == <<sessions, sess, count, ips>>
workVars    == <<queue, busy, tasks, mail>>
vars == <<clientVars, got, fdOf, fds, reading, sessionVars, workVars, replies>>

NoEntry == [conn |-> 0, in |-> FALSE, edge |-> FALSE, reader |-> 0, out |-> <<>>]

Init ==
    /\ client = [k \in Conns |-> "new"]
    /\ sent = [k \in Conns |-> 0]
    /\ got = [k \in Conns |-> 0]
    /\ fdOf = [k \in Conns |-> 0]
    /\ fds = [fd \in Fds |-> NoEntry]
    /\ reading = 0
    /\ sessions = [fd \in Fds |-> 0]
    /\ sess = [k \in Conns |-> [own |-> Fresh, next |-> 1, waiting |-> FALSE, closed |-> FALSE]]
    /\ count = 0
    /\ ips = [a \in {IpOf[k] : k \in Conns} |-> 0]
    /\ queue = <<>> /\ busy = {} /\ tasks = <<>>
    /\ mail = [k \in Conns |-> <<>>]
    /\ replies = [k \in Conns |-> <<>>]

-----------------------------------------------------------------------------
(***************************************************************************)
(* The clients and the kernel.                                             *)
(***************************************************************************)
\* There is something to read for one who has read g lines of k.
Readable(k, g) == g < sent[k] \/ client[k] = "fin"

\* Arriving bytes, or a FIN, make an edge where EPOLLIN is asked for.
Edge(k) == fds' = [fds EXCEPT ![fdOf[k]].edge = @ \/ fds[fdOf[k]].in]

Send(k) ==
    /\ client[k] = "open" /\ fdOf[k] # 0 /\ sent[k] < Len(Script[k])
    /\ sent' = [sent EXCEPT ![k] = @ + 1]
    /\ Edge(k)
    /\ UNCHANGED <<client, got, fdOf, reading, sessionVars, workVars, replies>>

Leave(k) ==
    /\ client[k] = "open" /\ fdOf[k] # 0
    /\ client' = [client EXCEPT ![k] = "fin"]
    /\ Edge(k)
    /\ UNCHANGED <<sent, got, fdOf, reading, sessionVars, workVars, replies>>

-----------------------------------------------------------------------------
(***************************************************************************)
(* The event loop's operations, as the server's callbacks use them.        *)
(***************************************************************************)
\* The loop thread is between two callbacks.
LoopFree == reading = 0

\* async_read: EPOLLIN|EPOLLET again, with an edge if there is something.
AsyncRead(e, k) ==
    [e EXCEPT !.in = TRUE, !.reader = k, !.edge = Readable(e.conn, got'[e.conn])]

\* async_write: the reply replaces what was pending; EPOLLOUT alone is asked.
AsyncWrite(e, k, line, reply, then) ==
    [e EXCEPT !.in = FALSE, !.edge = FALSE,
              !.out = <<[k |-> k, line |-> line, reply |-> reply, then |-> then]>>]

\* close_fd: nothing if the number is not in the map.
CloseFd(fd) ==
    /\ fds' = [fds EXCEPT ![fd] = NoEntry]
    /\ fdOf' = [k \in Conns |-> IF fdOf[k] = fd /\ fds[fd] # NoEntry THEN 0 ELSE fdOf[k]]

\* Variant: the address is not released.
CloseSessionKeepIp(fd) ==
    /\ sessions' = [sessions EXCEPT ![fd] = 0]
    /\ sess' = [sess EXCEPT ![sessions[fd]].closed = TRUE]
    /\ CloseFd(fd)
    /\ count' = count - 1
    /\ UNCHANGED ips

\* close_session; the count goes down whether or not there was a session.
CloseSession(fd) ==
    LET k == sessions[fd]
    IN  /\ sessions' = [sessions EXCEPT ![fd] = 0]
        /\ IF k # 0
           THEN /\ sess' = [sess EXCEPT ![k].closed = TRUE]
                /\ ips' = [ips EXCEPT ![IpOf[k]] = @ - 1]
           ELSE UNCHANGED <<sess, ips>>
        /\ CloseFd(fd)
        /\ count' = count - 1

-----------------------------------------------------------------------------
(***************************************************************************)
(* The session's input.                                                    *)
(***************************************************************************)
\* Session s of connection k before each of its buffered lines, up to line n,
\* when none of them starts a reply.
Before(k, s, n) ==
    LET at[i \in s.next .. n + 1] ==
            IF i = s.next THEN s.own ELSE DispatchLine(k, at[i - 1], Script[k][i - 1]).s
    IN  at

\* The buffered lines as pump() goes through them; `stop' is the first that
\* starts a reply, or n + 1.
Pumped(k, s, n) ==
    LET at == Before(k, s, n)
        Silent(i) == DispatchLine(k, at[i], Script[k][i]).then = "go on"
        stop == CHOOSE i \in s.next .. n + 1 :
                    /\ \A j \in s.next .. i - 1 : Silent(j)
                    /\ i <= n => ~Silent(i)
    IN  [own |-> at[stop], stop |-> stop]

\* pump(fd, session k), where the sessions are ss and the descriptors es.
Pump(k, fd, ss, es) ==
    LET p == Pumped(k, ss[k], got'[k])
        a == DispatchLine(k, p.own, Script[k][p.stop])
    IN  IF p.stop > got'[k]
        THEN /\ sess' = [ss EXCEPT ![k].own = p.own, ![k].next = p.stop, ![k].waiting = FALSE]
             /\ fds' = [es EXCEPT ![fd] = AsyncRead(@, k)]
             /\ UNCHANGED queue
        ELSE /\ sess' = [ss EXCEPT ![k].own = a.s, ![k].next = p.stop + 1, ![k].waiting = TRUE]
             /\ IF a.reply = "verdict"
                THEN /\ queue' = Append(queue, [k |-> k, fd |-> fd, line |-> p.stop,
                                                msg |-> Message(a.s)])
                     /\ fds' = es
                ELSE /\ fds' = [es EXCEPT ![fd] = AsyncWrite(@, k, p.stop, a.reply, a.then)]
                     /\ UNCHANGED queue

\* Variant: the lines in the buffer are left to the next arrival of data.
ResumeReading(k, fd, ss, es) ==
    /\ sess' = [ss EXCEPT ![k].waiting = FALSE]
    /\ fds' = [es EXCEPT ![fd] = AsyncRead(@, k)]
    /\ UNCHANGED queue

\* resume(fd, session k)
Resume(k, fd, ss, es) ==
    IF ss[k].closed THEN sess' = ss /\ fds' = es /\ UNCHANGED queue
    ELSE Pump(k, fd, ss, es)

\* on_data with the bytes up to line got'[k]; closes the session when more
\* is waiting than MaxPending.
OnData(k, fd) ==
    IF ~sess[k].waiting
    THEN Pump(k, fd, sess, fds) /\ UNCHANGED <<fdOf, reading, sessions, count, ips>>
    ELSE IF got'[k] - sess[k].next + 1 > MaxPending
         THEN CloseSession(fd) /\ reading' = 0 /\ UNCHANGED queue
         ELSE UNCHANGED <<fdOf, fds, reading, sessionVars, queue>>

-----------------------------------------------------------------------------
(***************************************************************************)
(* The loop thread.                                                        *)
(***************************************************************************)
FreeFds == Fds \ {fdOf[k] : k \in Conns}

\* accept4 gives the lowest free number, and run() puts an entry there
\* before on_accept decides; a refused connection is closed but its entry
\* stays in the map.
OnAccept(k) ==
    LET fd == CHOOSE f \in FreeFds : \A g \in FreeFds : f <= g
        entry == [NoEntry EXCEPT !.conn = k, !.in = TRUE]
    IN  /\ LoopFree /\ client[k] = "new" /\ \A j \in 1 .. k - 1 : client[j] # "new"
        /\ FreeFds # {}
        /\ IF ips[IpOf[k]] >= MaxPerIp \/ count >= MaxConn
           THEN /\ client' = [client EXCEPT ![k] = "refused"]
                /\ fds' = [fds EXCEPT ![fd] = entry]
                /\ UNCHANGED <<fdOf, sessionVars>>
           ELSE /\ client' = [client EXCEPT ![k] = "open"]
                /\ fdOf' = [fdOf EXCEPT ![k] = fd]
                /\ fds' = [fds EXCEPT ![fd] = AsyncWrite(entry, k, 0, "220", "banner")]
                /\ sessions' = [sessions EXCEPT ![fd] = k]
                /\ count' = count + 1
                /\ ips' = [ips EXCEPT ![IpOf[k]] = @ + 1]
                /\ UNCHANGED sess
        /\ UNCHANGED <<sent, got, reading, workVars, replies>>

\* An EPOLLIN event: the loop goes into its read loop.
EventIn(fd) ==
    /\ LoopFree /\ fds[fd].in /\ fds[fd].edge
    /\ reading' = fd
    /\ fds' = [fds EXCEPT ![fd].edge = FALSE]
    /\ UNCHANGED <<clientVars, got, fdOf, sessionVars, workVars, replies>>

\* One read(): everything that is there, the end of the stream, or EAGAIN.
ReadLoop ==
    /\ ~LoopFree
    /\ LET k == fds[reading].conn
       IN  \/ /\ got[k] < sent[k]
              /\ got' = [got EXCEPT ![k] = sent[k]]
              /\ OnData(fds[reading].reader, reading)
           \/ /\ got[k] = sent[k] /\ client[k] = "fin"
              /\ CloseSession(reading) /\ reading' = 0
              /\ UNCHANGED <<got, queue>>
           \/ /\ got[k] = sent[k] /\ client[k] # "fin"
              /\ reading' = 0
              /\ UNCHANGED <<got, fdOf, fds, sessionVars, queue>>
    /\ UNCHANGED <<clientVars, busy, tasks, mail, replies>>

\* EPOLLOUT and the last byte written: EPOLLIN again, then the callback.
WriteDone(fd) ==
    /\ LoopFree /\ fds[fd].out # <<>>
    /\ UNCHANGED got
    /\ LET w  == fds[fd].out[1]
           es == [fds EXCEPT ![fd] = [@ EXCEPT !.out = <<>>, !.in = TRUE,
                                               !.edge = Readable(fds[fd].conn, got[fds[fd].conn])]]
           ss == [sess EXCEPT ![w.k].own = Continue(@, w.then)]
       IN  /\ replies' = [replies EXCEPT ![fds[fd].conn] = Append(@, <<w.line, w.reply>>)]
           /\ CASE w.then = "banner" -> /\ sess' = ss
                                        /\ fds' = [es EXCEPT ![fd] = AsyncRead(@, w.k)]
                                        /\ UNCHANGED <<fdOf, sessions, count, ips, queue>>
                [] w.then = "close"  -> CloseSession(fd) /\ UNCHANGED queue
                [] OTHER             -> /\ Resume(w.k, fd, ss, es)
                                        /\ UNCHANGED <<fdOf, sessions, count, ips>>
    /\ UNCHANGED <<clientVars, reading, busy, tasks, mail>>

\* Variant: the descriptor number is taken for the connection.
TaskByNumber ==
    /\ LoopFree /\ tasks # <<>>
    /\ tasks' = Tail(tasks)
    /\ LET t == Head(tasks)
       IN  fds' = IF fds[t.fd] = NoEntry THEN fds
                  ELSE [fds EXCEPT ![t.fd] = AsyncWrite(@, t.k, t.line, "verdict", "reset")]
    /\ UNCHANGED <<clientVars, got, fdOf, reading, sessionVars, queue, busy, mail, replies>>

\* A posted verdict: nobody is there to hear it once the session is closed.
Task ==
    /\ LoopFree /\ tasks # <<>>
    /\ tasks' = Tail(tasks)
    /\ LET t == Head(tasks)
       IN  fds' = IF sess[t.k].closed THEN fds
                  ELSE [fds EXCEPT ![t.fd] = AsyncWrite(@, t.k, t.line, "verdict", "reset")]
    /\ UNCHANGED <<clientVars, got, fdOf, reading, sessionVars, queue, busy, mail, replies>>

\* The idle sweep finds fd silent for too long: the reader, if there is one
\* yet, is told of a disconnect, and the descriptor is closed.
Expire(fd) ==
    /\ LoopFree /\ \E k \in Conns : fdOf[k] = fd
    /\ IF fds[fd].reader # 0
       THEN CloseSession(fd)
       ELSE StallAtBanner /\ CloseFd(fd) /\ UNCHANGED sessionVars
    /\ UNCHANGED <<clientVars, got, reading, workVars, replies>>

-----------------------------------------------------------------------------
(***************************************************************************)
(* The worker threads.                                                     *)
(***************************************************************************)
Take ==
    /\ queue # <<>> /\ Cardinality(busy) < Workers
    /\ queue' = Tail(queue)
    /\ busy' = busy \cup {Head(queue)}
    /\ UNCHANGED <<clientVars, got, fdOf, fds, reading, sessionVars, tasks, mail, replies>>

\* The handler has been given the message; its verdict is posted.
Finish(item) ==
    /\ busy' = busy \ {item}
    /\ mail' = [mail EXCEPT ![item.k] = Append(@, item.msg)]
    /\ tasks' = Append(tasks, item)
    /\ UNCHANGED <<clientVars, got, fdOf, fds, reading, sessionVars, queue, replies>>

Next ==
    \/ \E k \in Conns : Send(k) \/ Leave(k) \/ OnAccept(k)
    \/ \E fd \in Fds : EventIn(fd) \/ WriteDone(fd) \/ Expire(fd)
    \/ ReadLoop \/ Task \/ Take
    \/ \E item \in busy : Finish(item)

Spec == Init /\ [][Next]_vars

-----------------------------------------------------------------------------
(***************************************************************************)
(* Properties.                                                             *)
(***************************************************************************)
\* The connections that are open: those whose client has a descriptor.
Open == {k \in Conns : fdOf[k] # 0}

(***************************************************************************)
(* conn_count, the per-address counts and the session table agree with the *)
(* descriptors that are really open, on every path that closes one (QUIT,  *)
(* too many errors, FIN, too much input, idle limit): nothing is counted   *)
(* twice and nothing is lost when a number is used again (on_accept,       *)
(* close_session, ip_acquire, ip_release).                                 *)
(***************************************************************************)
CountsExact ==
    /\ count = Cardinality(Open)
    /\ \A a \in DOMAIN ips : ips[a] = Cardinality({k \in Open : IpOf[k] = a})
    /\ \A fd \in Fds : sessions[fd] = IF \E k \in Open : fdOf[k] = fd
                                      THEN CHOOSE k \in Open : fdOf[k] = fd ELSE 0
    /\ \A k \in Open : ~sess[k].closed

(***************************************************************************)
(* However a client's lines arrive, in one piece or in many, while replies *)
(* are being written or the message is with a worker, the replies on its   *)
(* connection and the messages the handler is given are those of a client  *)
(* that waits for every answer: none is lost, repeated, mixed with another *)
(* message or written to another connection (on_data, pump, resume).       *)
(***************************************************************************)
SessionInOrder ==
    \A k \in Conns :
        /\ IsPrefix(replies[k], Alone[k].replies)
        /\ IsPrefix(mail[k], Alone[k].mail)

\* Somebody will come back to session k.
Underway(k) ==
    \/ fds[fdOf[k]].out # <<>>
    \/ \E item \in ToSet(queue) \cup busy \cup ToSet(tasks) : item.k = k

(***************************************************************************)
(* No open connection is forgotten: a session that waits has a reply being *)
(* written or a message with the workers; one that does not wait has no    *)
(* line left in its buffer, and what the kernel holds for it will be seen: *)
(* with edge-triggered events a missed edge is a client that hangs.        *)
(***************************************************************************)
NothingStuck ==
    \A k \in Open :
        /\ sess[k].waiting => Underway(k)
        /\ sess[k].next <= got[k] => sess[k].waiting
        /\ Readable(k, got[k]) =>
               fds[fdOf[k]].out # <<>> \/ fds[fdOf[k]].edge \/ reading = fdOf[k]
=============================================================================
