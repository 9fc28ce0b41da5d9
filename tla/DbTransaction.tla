--------------------------- MODULE DbTransaction ---------------------------
(***************************************************************************)
(* One pooled database connection from the script's call down to the       *)
(* server: db::begin, commit, rollback, exec and the nesting wrapper       *)
(* db::transaction (cpp/src/web_stdlib.cpp), the client that sends a       *)
(* statement, notices a lost connection and opens a new one                *)
(* (cpp/src/mysql_client.cpp, cpp/src/postgres_client.cpp; SQLite has no   *)
(* link to lose), and the server's session (external).                     *)
(*                                                                         *)
(* The connection belongs to one script at a time; scripts follow one      *)
(* another on it, and tx_depth and in_txn_ stay with the connection.  A    *)
(* statement is split at every point where the link can break.  A write is *)
(* an element of Writes, used once.                                        *)
(***************************************************************************)
EXTENDS Integers, Sequences, FiniteSets

CONSTANTS
    Drivers,       \* the databases: "sqlite", "mysql", "postgres"
    Writes,        \* the writes the scripts may issue
    MaxTx,         \* bound: calls of db::transaction
    MaxDepth,      \* bound: nesting of db::transaction
    MaxLosses,     \* bound: connections the server closes or the network loses
    FailOps,       \* statements the server may refuse for reasons of its own
    ManualOps,     \* which of db::begin, commit, rollback the scripts call
    Catching       \* the drivers whose scripts catch errors in a body and go on

ASSUME TxAssumption == /\ Drivers \subseteq {"sqlite", "mysql", "postgres"}
                       /\ IsFiniteSet(Writes)
                       /\ MaxTx \in Nat /\ MaxDepth \in Nat /\ MaxLosses \in Nat
                       /\ ManualOps \subseteq {"begin", "commit", "rollback"}
                       /\ Catching \subseteq Drivers

VARIABLES
    \* DbConnection and the client
    driver,     \* driver_name(), fixed when the pool is opened
    tx_depth,
    sock,       \* sock_ is a descriptor
    in_txn,     \* in_txn_
    \* the script
    frames,     \* the db::transaction calls under way, outermost first
    at,         \* where the script, or the innermost call, is
    ntx,        \* calls of db::transaction so far
    \* the statement under way
    op, arg,
    phase,      \* where it is; "ok", "error" and "unanswered" when it is over
    \* the server
    up,         \* its end of the link is open
    levels,     \* the open transaction and its savepoints, <<>> in autocommit
    aborted,    \* PostgreSQL: only a rollback is accepted
    committed,
    \* history
    runs,       \* how often the server has run each write
    inside,     \* the db::transaction calls each write was issued in
    acked,      \* writes whose db::exec returned
    outcome,    \* how each db::transaction call ended
    losses,
    flat,       \* a script has used a manual statement
    adrift      \* a body has caught an error after which its transaction was
                \* gone, or only waited for its rollback, and has gone on

client == <<driver, tx_depth, sock, in_txn>>
script == <<frames, at, ntx>>
statement == <<op, arg, phase>>
server == <<up, levels, aborted, committed>>
history == <<runs, inside, acked, outcome, losses, flat, adrift>>
vars == <<client, script, statement, server, history>>

Calls == 1 .. MaxTx
ControlOps == {"begin", "savepoint", "release", "rollback_to", "commit", "rollback"}
Over == {"ok", "error", "unanswered"}

Init ==
    /\ driver \in Drivers
    /\ tx_depth = 0 /\ sock = TRUE /\ in_txn = FALSE
    /\ frames = <<>> /\ at = "script" /\ ntx = 0
    /\ op = "none" /\ arg = 0 /\ phase = "none"
    /\ up = TRUE /\ levels = <<>> /\ aborted = FALSE /\ committed = {}
    /\ runs = [w \in Writes |-> 0]
    /\ inside = [w \in Writes |-> {}]
    /\ acked = {}
    /\ outcome = [i \in Calls |-> "none"]
    /\ losses = 0 /\ flat = FALSE /\ adrift = FALSE

Top == frames[Len(frames)]
Pop == SubSeq(frames, 1, Len(frames) - 1)

\* conn->query or conn->execute is called.
Issue(o, a) == op' = o /\ arg' = a /\ phase' = "probe"
Finished == op' = "none" /\ arg' = 0 /\ phase' = "none"

-----------------------------------------------------------------------------
(***************************************************************************)
(* The script: db::exec and the manual statements.                         *)
(***************************************************************************)
Exec(w) ==
    /\ at = "script" /\ phase = "none"
    /\ runs[w] = 0 /\ w \notin acked /\ inside[w] = {}
    /\ at' = "exec"
    /\ Issue("write", w)
    /\ inside' = [inside EXCEPT ![w] = {0} \cup {frames[i].id : i \in DOMAIN frames}]
    /\ UNCHANGED <<client, frames, ntx, server, runs, acked, outcome, losses, flat, adrift>>

\* Flat: used outside db::transaction.
Manual(o) ==
    /\ at = "script" /\ phase = "none" /\ frames = <<>>
    /\ at' = "exec"
    /\ Issue(o, 0)
    /\ flat' = TRUE
    /\ UNCHANGED <<client, frames, ntx, server, runs, inside, acked, outcome, losses, adrift>>

ExecReturns ==
    /\ at = "exec" /\ phase \in Over
    /\ at' = IF phase = "ok" THEN "script" ELSE "throwing"
    /\ acked' = IF phase = "ok" /\ op = "write" THEN acked \cup {arg} ELSE acked
    /\ Finished
    /\ UNCHANGED <<client, frames, ntx, server, runs, inside, outcome, losses, flat, adrift>>

\* The script throws for reasons of its own.
Throw ==
    /\ at = "script" /\ phase = "none" /\ frames # <<>>
    /\ at' = "throwing"
    /\ UNCHANGED <<client, frames, ntx, statement, server, history>>

\* An exception outside db::transaction, or caught in the body of one.
Caught ==
    /\ at = "throwing"
    /\ frames = <<>> \/ driver \in Catching
    /\ at' = "script"
    /\ adrift' = (adrift \/ (frames # <<>> /\ (levels = <<>> \/ aborted)))
    /\ UNCHANGED <<client, frames, ntx, statement, server, runs, inside, acked, outcome, losses,
                   flat>>

-----------------------------------------------------------------------------
(***************************************************************************)
(* db::transaction.                                                        *)
(***************************************************************************)
Transaction ==
    /\ at = "script" /\ phase = "none"
    /\ ntx < MaxTx /\ Len(frames) < MaxDepth
    /\ at' = "opening"
    /\ IF tx_depth > 0 THEN Issue("savepoint", tx_depth) ELSE Issue("begin", 0)
    /\ UNCHANGED <<client, frames, ntx, server, history>>

Opened ==
    /\ at = "opening" /\ phase = "ok"
    /\ tx_depth' = tx_depth + 1
    /\ ntx' = ntx + 1
    /\ frames' = Append(frames, [id |-> ntx + 1, nested |-> op = "savepoint", sp |-> arg])
    /\ outcome' = [outcome EXCEPT ![ntx + 1] = "open"]
    /\ at' = "script"
    /\ Finished
    /\ UNCHANGED <<driver, sock, in_txn, server, runs, inside, acked, losses, flat,
                   adrift>>

\* Before the try block: nothing to undo.
OpenFails ==
    /\ at = "opening" /\ phase \in Over \ {"ok"}
    /\ at' = "throwing"
    /\ Finished
    /\ UNCHANGED <<client, frames, ntx, server, history>>

\* Variant: the depth is lowered only when the body throws.
BodyReturnsKeepsDepth ==
    /\ at = "script" /\ phase = "none" /\ frames # <<>>
    /\ at' = "closing"
    /\ IF Top.nested THEN Issue("release", Top.sp) ELSE Issue("commit", 0)
    /\ UNCHANGED <<client, frames, ntx, server, history>>

BodyReturns ==
    /\ at = "script" /\ phase = "none" /\ frames # <<>>
    /\ tx_depth' = tx_depth - 1
    /\ at' = "closing"
    /\ IF Top.nested THEN Issue("release", Top.sp) ELSE Issue("commit", 0)
    /\ UNCHANGED <<driver, sock, in_txn, frames, ntx, server, history>>

Closed ==
    /\ at = "closing" /\ phase = "ok"
    /\ outcome' = [outcome EXCEPT ![Top.id] = "returned"]
    /\ frames' = Pop
    /\ at' = "script"
    /\ Finished
    /\ UNCHANGED <<client, ntx, server, runs, inside, acked, losses, flat,
                   adrift>>

\* Variant: a savepoint is released without rolling back to it.
UndoReleaseOnly ==
    /\ at' = "undoing"
    /\ IF Top.nested THEN Issue("release", Top.sp) ELSE Issue("rollback", 0)

\* The catch block: the depth goes down and the work is undone.
Undo ==
    /\ at' = "undoing"
    /\ IF Top.nested THEN Issue("rollback_to", Top.sp) ELSE Issue("rollback", 0)

BodyThrows ==
    /\ at = "throwing" /\ phase = "none" /\ frames # <<>>
    /\ tx_depth' = tx_depth - 1
    /\ Undo
    /\ outcome' = [outcome EXCEPT ![Top.id] = "threw"]
    /\ UNCHANGED <<driver, sock, in_txn, frames, ntx, server, runs, inside, acked, losses, flat,
                   adrift>>

\* COMMIT or RELEASE throws inside the same try block, tx_depth already
\* lowered.  The commit of an unanswered COMMIT may have taken place.
CloseFails ==
    /\ at = "closing" /\ phase \in Over \ {"ok"}
    /\ tx_depth' = tx_depth - 1
    /\ Undo
    /\ outcome' = [outcome EXCEPT ![Top.id] = IF phase = "unanswered" THEN "unsure" ELSE "threw"]
    /\ UNCHANGED <<driver, sock, in_txn, frames, ntx, server, runs, inside, acked, losses, flat,
                   adrift>>

\* ROLLBACK TO is followed by RELEASE; an error in either is swallowed.
ReleaseUndone ==
    /\ at = "undoing" /\ op = "rollback_to" /\ phase = "ok"
    /\ Issue("release", Top.sp)
    /\ UNCHANGED <<client, script, server, history>>

Undone ==
    /\ at = "undoing" /\ phase \in Over /\ ~(op = "rollback_to" /\ phase = "ok")
    /\ frames' = Pop
    /\ at' = "throwing"
    /\ Finished
    /\ UNCHANGED <<client, ntx, server, history>>

-----------------------------------------------------------------------------
(***************************************************************************)
(* The client: MySQLClient::ensure_connected, query and execute;           *)
(* PostgresClient::ready_to_send, query and execute.                       *)
(***************************************************************************)

\* do_connect: a fresh session in autocommit.
FreshSession ==
    /\ sock' = TRUE /\ in_txn' = FALSE
    /\ up' = TRUE /\ levels' = <<>> /\ aborted' = FALSE

Fail(how) == phase' = how /\ UNCHANGED <<op, arg>>

\* idle_socket_unusable sees a close only once it has arrived.
ProbeFine ==
    /\ phase = "probe" /\ sock
    /\ phase' = "send"
    /\ UNCHANGED <<client, script, op, arg, server, history>>

Unusable == ~sock \/ ~up

\* The connection is gone: inside a transaction that is an error ...
ProbeTxLost ==
    /\ phase = "probe" /\ Unusable /\ in_txn
    /\ sock' = FALSE /\ in_txn' = FALSE
    /\ Fail("error")
    /\ UNCHANGED <<driver, tx_depth, script, server, history>>

\* ... and outside one a new connection is opened, before anything is sent.
MayReplace == Unusable /\ ~in_txn

ProbeReconnect ==
    /\ phase = "probe" /\ MayReplace
    /\ FreshSession
    /\ phase' = "send"
    /\ UNCHANGED <<driver, tx_depth, script, op, arg, committed, history>>

ProbeNoServer ==
    /\ phase = "probe" /\ Unusable /\ ~in_txn
    /\ sock' = FALSE
    /\ Fail("error")
    /\ UNCHANGED <<driver, tx_depth, in_txn, script, server, history>>

\* The bytes leave; a server that is already gone never reads them.
Send ==
    /\ phase = "send" /\ sock
    /\ phase' = IF up THEN "server" ELSE "reply_ok"
    /\ UNCHANGED <<client, script, op, arg, server, history>>

SendBreaks == phase = "send" /\ sock /\ ~up

\* Variant: PostgresClient tries again inside a transaction too.
ResendsInTx == (driver = "mysql" /\ op \in ControlOps) \/ driver = "postgres"

\* A failed send is an error, or is tried once more on a new connection:
\* by MySQLClient::query always, by PostgresClient outside a transaction.
Resends == \/ driver = "mysql" /\ op \in ControlOps
           \/ driver = "postgres" /\ ~in_txn

\* No second try, or no server to connect to.
SendFails ==
    /\ SendBreaks
    /\ sock' = FALSE
    /\ in_txn' = (in_txn /\ driver = "mysql")
    /\ Fail("error")
    /\ UNCHANGED <<driver, tx_depth, script, server, history>>

\* A second failure is an error, as a lost answer is.
SendAgain ==
    /\ SendBreaks /\ Resends
    /\ FreshSession
    /\ phase' = "server"
    /\ UNCHANGED <<driver, tx_depth, script, op, arg, committed, history>>

\* The server's word on the transaction: MySQL's status flags, absent from
\* an error packet; PostgreSQL's ReadyForQuery, which follows an error too.
MySqlStatus == IF phase = "reply_error" THEN in_txn ELSE levels # <<>>
PgStatus    == levels # <<>>

Reply ==
    /\ phase \in {"reply_ok", "reply_error"} /\ up
    /\ in_txn' = CASE driver = "mysql"    -> MySqlStatus
                   [] driver = "postgres" -> PgStatus
                   [] OTHER               -> FALSE
    /\ phase' = IF phase = "reply_ok" THEN "ok" ELSE "error"
    /\ UNCHANGED <<driver, tx_depth, sock, script, op, arg, server, history>>

\* The link breaks while the answer is awaited: never sent again.
ReplyLost ==
    /\ phase \in {"reply_ok", "reply_error"} /\ ~up
    /\ sock' = FALSE
    /\ Fail("unanswered")
    /\ UNCHANGED <<driver, tx_depth, in_txn, script, server, history>>

-----------------------------------------------------------------------------
(***************************************************************************)
(* The server's session.                                                   *)
(***************************************************************************)
InTx == levels # <<>>
Pending == UNION {levels[i].ws : i \in DOMAIN levels}
Savepoint(i) == i > 1 /\ i \in DOMAIN levels /\ levels[i].sp = arg
Known == \E i \in DOMAIN levels : Savepoint(i)
Newest == CHOOSE i \in DOMAIN levels : Savepoint(i) /\ \A j \in DOMAIN levels : Savepoint(j) => j <= i
Level(n) == [sp |-> n, ws |-> {}]
Above(i) == UNION {levels[j].ws : j \in i .. Len(levels)}

Refused ==
    \/ op = "begin" /\ InTx /\ driver = "sqlite"
    \/ op = "savepoint" /\ ~InTx /\ driver = "postgres"
    \/ op \in {"release", "rollback_to"} /\ ~Known
    \/ op \in {"commit", "rollback"} /\ ~InTx /\ driver = "sqlite"
    \/ aborted /\ op \notin {"commit", "rollback", "rollback_to"}

\* Errors that undo more than their statement.  SQLite rolls the whole
\* transaction back when the disk is full, on an I/O error or for OR ROLLBACK,
\* MySQL after a deadlock; the session is in autocommit then.
RollsBack == op \in FailOps /\ driver # "postgres"

SrvRefuse ==
    /\ phase = "server" /\ up
    /\ Refused \/ op \in FailOps
    /\ phase' = "reply_error"
    /\ aborted' = (driver = "postgres" /\ InTx)
    /\ levels' = levels \/ (RollsBack /\ levels' = <<>>)
    /\ UNCHANGED <<client, script, op, arg, up, committed, history>>

SrvAccepts == phase = "server" /\ up /\ ~Refused
Answer(lv, com) ==
    /\ phase' = "reply_ok"
    /\ levels' = lv
    /\ committed' = com
    /\ aborted' = (aborted /\ op \notin {"commit", "rollback", "rollback_to"})
    /\ UNCHANGED <<client, script, op, arg, up, inside, acked, outcome, losses, flat, adrift>>

\* In a transaction MySQL commits first; PostgreSQL only warns.
SrvBegin ==
    /\ SrvAccepts /\ op = "begin"
    /\ IF InTx /\ driver = "postgres" THEN Answer(levels, committed)
       ELSE Answer(<<Level(0)>>, committed \cup Pending)
    /\ UNCHANGED runs

\* Outside a transaction MySQL does nothing; SQLite opens one, whose first
\* level carries the savepoint's name, ...
SrvSavepoint ==
    /\ SrvAccepts /\ op = "savepoint"
    /\ IF InTx THEN Answer(Append(levels, Level(arg)), committed)
       ELSE IF driver = "sqlite" THEN Answer(<<Level(arg), Level(arg)>>, committed)
       ELSE Answer(levels, committed)
    /\ UNCHANGED runs

\* ... and which ends with the release of that savepoint.
Began == Newest = 2 /\ levels[1].sp # 0

SrvRelease ==
    /\ SrvAccepts /\ op = "release"
    /\ LET k == Newest - 1
       IN  IF Began THEN Answer(<<>>, committed \cup Pending) ELSE
           Answer([SubSeq(levels, 1, k) EXCEPT ![k].ws = @ \cup Above(Newest)], committed)
    /\ UNCHANGED runs

SrvRollbackTo ==
    /\ SrvAccepts /\ op = "rollback_to"
    /\ Answer([SubSeq(levels, 1, Newest) EXCEPT ![Newest].ws = {}], committed)
    /\ UNCHANGED runs

\* An aborted PostgreSQL transaction answers COMMIT by rolling back.
SrvCommit ==
    /\ SrvAccepts /\ op = "commit"
    /\ Answer(<<>>, IF aborted THEN committed ELSE committed \cup Pending)
    /\ UNCHANGED runs

SrvRollback ==
    /\ SrvAccepts /\ op = "rollback"
    /\ Answer(<<>>, committed)
    /\ UNCHANGED runs

SrvWrite ==
    /\ SrvAccepts /\ op = "write"
    /\ runs' = [runs EXCEPT ![arg] = @ + 1]
    /\ IF InTx THEN Answer([levels EXCEPT ![Len(levels)].ws = @ \cup {arg}], committed)
       ELSE Answer(levels, committed \cup {arg})

\* The server closes the connection (idle timeout, restart, KILL) or the
\* network does; the server rolls the open transaction back.
Loss ==
    /\ losses < MaxLosses /\ up /\ driver # "sqlite"
    /\ losses' = losses + 1
    /\ up' = FALSE /\ levels' = <<>> /\ aborted' = FALSE
    /\ phase' = IF phase = "server" THEN "reply_ok" ELSE phase
    /\ UNCHANGED <<client, script, op, arg, committed, runs, inside, acked, outcome, flat,
                   adrift>>

-----------------------------------------------------------------------------
Script == \/ \E w \in Writes : Exec(w)
          \/ \E o \in ManualOps : Manual(o)
          \/ ExecReturns \/ Throw \/ Caught
Wrapper == \/ Transaction \/ Opened \/ OpenFails \/ BodyReturns \/ Closed
           \/ BodyThrows \/ CloseFails \/ ReleaseUndone \/ Undone
Client == \/ ProbeFine \/ ProbeTxLost \/ ProbeReconnect \/ ProbeNoServer
          \/ Send \/ SendFails \/ SendAgain \/ Reply \/ ReplyLost
Server == \/ SrvRefuse \/ SrvBegin \/ SrvSavepoint \/ SrvRelease
          \/ SrvRollbackTo \/ SrvCommit \/ SrvRollback \/ SrvWrite

Next == Script \/ Wrapper \/ Client \/ Server \/ Loss

Spec == Init /\ [][Next]_vars

-----------------------------------------------------------------------------
(***************************************************************************)
(* Properties.                                                             *)
(***************************************************************************)

\* Every variable keeps its type, and tx_depth its range.
TypeOK ==
    /\ driver \in Drivers
    /\ tx_depth \in (-MaxTx) .. MaxDepth /\ sock \in BOOLEAN /\ in_txn \in BOOLEAN
    /\ frames \in Seq([id : Calls, nested : BOOLEAN, sp : Nat])
    /\ at \in {"script", "exec", "opening", "closing", "undoing", "throwing"}
    /\ ntx \in 0 .. MaxTx
    /\ op \in ControlOps \cup {"none", "write"}
    /\ arg \in Nat \cup Writes
    /\ phase \in Over \cup {"none", "probe", "send", "server", "reply_ok", "reply_error"}
    /\ up \in BOOLEAN /\ aborted \in BOOLEAN
    /\ levels \in Seq([sp : Nat, ws : SUBSET Writes])
    /\ committed \subseteq Writes /\ acked \subseteq Writes
    /\ runs \in [Writes -> Nat]
    /\ inside \in [Writes -> SUBSET (0 .. MaxTx)]
    /\ outcome \in [Calls -> {"none", "open", "returned", "threw", "unsure"}]
    /\ losses \in 0 .. MaxLosses /\ flat \in BOOLEAN /\ adrift \in BOOLEAN

\* tx_depth, which decides between BEGIN and SAVEPOINT and which stays with
\* the pooled connection, is the number of db::transaction calls whose body
\* is running: 0 again when the last one has ended, however it ended.
DepthExact ==
    tx_depth = Len(frames) - (IF at \in {"closing", "undoing"} THEN 1 ELSE 0)

\* ... as long as no connection was lost and no body went on without its
\* transaction: COMMIT and RELEASE then do not fail.
DepthMatches == losses = 0 /\ ~adrift => DepthExact

\* Two things break what db::transaction promises, and what follows is said of
\* the time before either: a COMMIT or RELEASE that failed has left tx_depth
\* one too low for the calls that come after it on the connection, and a body
\* has gone on after an error that ended its transaction (see RollbackOnThrow,
\* CommitOnSuccess and NestedBySavepoint for what happens afterwards).
Intact == DepthExact /\ ~adrift

\* A db::transaction that throws leaves none of its writes in the database.
RollbackOnThrow ==
    \A w \in committed : \A i \in inside[w] \ {0} : outcome[i] # "threw"

\* A db::transaction that returns has kept every write its body was told had
\* been done.
CommitOnSuccess ==
    \A w \in acked :
        (inside[w] # {0} /\ \A i \in inside[w] \ {0} : outcome[i] = "returned")
            => w \in committed

\* A db::transaction inside the body of another opens a savepoint.
NestedBySavepoint == at = "opening" /\ frames # <<>> => op = "savepoint"

\* While intact, a db::transaction that throws leaves none of its writes in the
\* database, those of nested calls that had returned included, and a nested
\* one that throws takes back its own.
ThrownLeavesNothing == Intact => RollbackOnThrow

Outermost(w) == CHOOSE i \in inside[w] \ {0} : \A j \in inside[w] \ {0} : i <= j

\* While intact, a db::transaction that returns has kept every write its body
\* was told had been done, except those a nested call took back.
ReturnedKeepsAll == Intact => CommitOnSuccess

\* While intact (no COMMIT or RELEASE has failed on the connection, no body
\* went on without its transaction), no write of a db::transaction body is
\* permanent before its outermost COMMIT: after a lost connection or an error
\* that rolled everything back nothing of the body is written in autocommit.
NoEarlyCommit ==
    Intact =>
        \A w \in committed : inside[w] # {0} =>
            \/ outcome[Outermost(w)] # "open"
            \/ at = "closing" /\ Len(frames) = 1

\* A statement the server has run is never sent again: no write happens
\* twice, wherever the link breaks.
AtMostOnce == \A w \in Writes : runs[w] <= 1

\* The connection goes back to the pool without an open transaction when the
\* scripts use db::transaction only.
NothingLeftOpen ==
    (~flat /\ frames = <<>> /\ phase = "none") => levels = <<>>

\* Together: what the client counts as open is what is open as long as no
\* connection was lost and no body went on without its transaction, and
\* nothing is open when the last call has ended, whatever happened.
OpenMatches == DepthMatches /\ NothingLeftOpen

\* Together: on a connection on which no COMMIT or RELEASE has failed before
\* and no body went on without its transaction, a call that throws has done
\* nothing and one that returns has done everything its body was told of; and
\* nothing is ever done twice, on any connection.
AllOrNothing == ThrownLeavesNothing /\ ReturnedKeepsAll /\ AtMostOnce

=============================================================================
