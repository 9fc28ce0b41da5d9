---------------------------- MODULE AppDispatch ----------------------------
(***************************************************************************)
(* Set-up, hot reload and request dispatch of an application               *)
(* (cpp/src/http_main.cpp), for --mode http and for FastCGI, whose         *)
(* requests enter through look_http_engine_ensure.                         *)
(*                                                                         *)
(* One application, g_http_app, is shared by the workers.  A request       *)
(* checks the script's modification time, may set the application up again *)
(* under the exclusive lock, and then runs on one of three paths: the VM,  *)
(* the interpreter because the VM cannot run this route, or the            *)
(* interpreter because there is no VM.  Nothing of the application is      *)
(* locked while user code runs.  With fiber dispatch a worker runs several *)
(* requests in turn: user code may be suspended at any database call.      *)
(*                                                                         *)
(* A script is its version and a kind that says what set-up makes of it:   *)
(*   "vm"     compiled, every route on the VM                              *)
(*   "pinned" compiled, set-up finds that the route needs the interpreter  *)
(*   "interp" not compiled, or the VM's set-up pass failed                 *)
(*   "direct" no route: every request runs the whole script                *)
(*   "broken" does not parse, or its top level throws                      *)
(***************************************************************************)
EXTENDS Integers, FiniteSets

CONSTANTS
    Requests, Workers,
    WorkerOf,     \* the worker each request's connection belongs to
    MaxEdits,     \* bound on the number of times the script is edited
    Kinds,        \* the kinds of script that are tried
    Environments, \* the start-up settings that are tried
    DirectFibers, \* TRUE: scripts without routes are tried with fiber dispatch
    None

ASSUME AppAssumption ==
    /\ IsFiniteSet(Requests) /\ IsFiniteSet(Workers)
    /\ WorkerOf \in [Requests -> Workers]
    /\ MaxEdits \in Nat
    /\ Kinds \subseteq {"vm", "pinned", "interp", "direct", "broken"}
    /\ Environments \subseteq [entry : {"http", "fcgi"}, fiber : BOOLEAN]
    /\ DirectFibers \in BOOLEAN
    /\ None \notin Requests

VARIABLES
    env,      \* --mode, and whether LOOK_FIBER_DISPATCH is on
    file,     \* the script on disk: version (its mtime), kind, edited during a set-up
    app,      \* g_http_app, with g_http_ready
    writer,   \* who holds g_http_mutex exclusively
    readers,  \* who holds it shared across steps
    running,  \* the request each worker executes
    at,       \* where each request is
    seen,     \* FastCGI: the modification time the request has read
    src,      \* the script the set-up under way has read
    via,      \* which interpreter copy, or table of builtins, it goes through
    ran,      \* how often this request has started its handler
    copies    \* the thread_local interpreter copies of each worker

vars == <<env, file, app, writer, readers, running, at, seen, src, via, ran,
          copies>>

\* A worker has one copy for the VM path and its fallback, one for the
\* interpreter path, and without fibers a table of builtins for the VM.
CopyIds == Workers \X {"vm", "interp", "table"}
NoCopy == [gen |-> 0, ver |-> 0, web |-> None, wrote |-> {}]
NoScript == [ver |-> 0, kind |-> "broken", mid |-> FALSE]
UsesVM(kind) == kind \in {"vm", "pinned"}

Places == {"idle", "stat", "lock", "setup", "dispatch", "before", "route",
           "fallback", "interp", "handler", "relock", "direct"}

\* Places where user code runs, and a fiber may be suspended.
UserCode == {"before", "route", "interp", "handler", "direct"}

Init ==
    /\ env \in Environments
    /\ \E k \in Kinds \ {"broken"} :
          /\ k = "direct" /\ env.fiber => DirectFibers
          /\ file = [ver |-> 1, kind |-> k, mid |-> FALSE]
          /\ app = [ready |-> TRUE, gen |-> 1, ver |-> 1, kind |-> k, mtime |-> 1,
                    disabled |-> k = "pinned"]
    /\ writer = None /\ readers = {}
    /\ running = [w \in Workers |-> None]
    /\ at = [r \in Requests |-> "idle"]
    /\ seen = [r \in Requests |-> 0]
    /\ src = NoScript
    /\ via = [r \in Requests |-> <<"own">>]
    /\ ran = [r \in Requests |-> 0]
    /\ copies = [c \in CopyIds |-> NoCopy]

Executes(r) == running[WorkerOf[r]] = r
GoTo(r, place) == at' = [at EXCEPT ![r] = place]

\* The response is complete, the worker is free, and what the request held
\* on its stack is gone.
Answer(r) ==
    /\ GoTo(r, "idle")
    /\ running' = [running EXCEPT ![WorkerOf[r]] = None]
    /\ via' = [via EXCEPT ![r] = <<"own">>]
    /\ ran' = [ran EXCEPT ![r] = 0]

Continue(r, place) == GoTo(r, place) /\ UNCHANGED <<running, via>>

-----------------------------------------------------------------------------
(***************************************************************************)
(* The script on disk.                                                     *)
(***************************************************************************)

\* A script without routes keeps the shared lock while its code runs, also
\* where that code is suspended.
Edit(k) ==
    /\ file.ver <= MaxEdits
    /\ k = "direct" /\ env.fiber => DirectFibers
    /\ file' = [ver |-> file.ver + 1, kind |-> k, mid |-> writer # None]
    /\ UNCHANGED <<env, app, writer, readers, running, at, seen, src, via, ran, copies>>

-----------------------------------------------------------------------------
(***************************************************************************)
(* Arrival and hot reload.                                                 *)
(***************************************************************************)

\* http_handler: 503 when the application is not ready; otherwise the
\* throttle decides whether this request looks at the file.  FastCGI looks
\* every time, and reads the time before it takes any lock.
Arrive(r, check) ==
    /\ at[r] = "idle" /\ running[WorkerOf[r]] = None
    /\ env.entry = "http" => app.ready
    /\ env.entry = "fcgi" => check
    /\ running' = [running EXCEPT ![WorkerOf[r]] = r]
    /\ seen' = [seen EXCEPT ![r] = IF env.entry = "fcgi" THEN file.ver ELSE 0]
    /\ GoTo(r, IF check THEN "stat" ELSE "dispatch")
    /\ UNCHANGED <<env, file, app, writer, readers, src, via, ran, copies>>

\* The application is that of the time read: by http_handler under the lock.
UpToDate(r) ==
    IF env.entry = "http" THEN app.mtime = file.ver
                          ELSE app.mtime = seen[r] /\ app.ready

\* Under the shared lock, which is given back before the exclusive one is
\* asked for.
Stat(r) ==
    /\ at[r] = "stat" /\ writer = None
    /\ \/ /\ UpToDate(r)
          /\ GoTo(r, "dispatch")
          /\ seen' = [seen EXCEPT ![r] = 0]
       \/ ~UpToDate(r) /\ GoTo(r, "lock") /\ UNCHANGED seen
    /\ UNCHANGED <<env, file, app, writer, readers, running, src, via, ran, copies>>

SetUpByOther(r) == UpToDate(r)

\* Under the exclusive lock: another request has done it, or clear_db_pools
\* and read_file.
Lock(r) ==
    /\ at[r] = "lock" /\ writer = None /\ readers = {}
    /\ \/ SetUpByOther(r) /\ GoTo(r, "dispatch") /\ UNCHANGED <<writer, src>>
       \/ /\ ~SetUpByOther(r)
          /\ writer' = r
          /\ src' = file
          /\ GoTo(r, "setup")
    /\ seen' = [seen EXCEPT ![r] = 0]
    /\ UNCHANGED <<env, file, app, readers, running, via, ran, copies>>

\* Variant: a successful set-up leaves the generation alone.
BuiltSameGeneration(s) ==
    [ready |-> TRUE, gen |-> app.gen, ver |-> s.ver, kind |-> s.kind,
     mtime |-> file.ver, disabled |-> s.kind = "pinned"]

\* What a set-up that succeeds leaves: the interpreter pass, the compiler,
\* the VM's replay pass, and last the modification time of the file as it is
\* now, which need not be that of the text it read.
Built(s) ==
    [ready |-> TRUE, gen |-> app.gen + 1, ver |-> s.ver, kind |-> s.kind,
     mtime |-> file.ver, disabled |-> s.kind = "pinned"]

\* Variant: a set-up that fails records the time as well.
SetupKeepsTime(r) ==
    /\ at[r] = "setup"
    /\ writer' = None /\ src' = NoScript
    /\ app' = IF src.kind = "broken" THEN [app EXCEPT !.mtime = file.ver] ELSE Built(src)
    /\ Continue(r, "dispatch")
    /\ UNCHANGED <<env, file, seen, readers, ran, copies>>

\* The end of run_setup_http.  A text that does not parse, or throws, leaves
\* the application as it was: http_handler logs it and serves the old one,
\* look_http_engine_ensure answers 503 until a set-up succeeds.
Setup(r) ==
    /\ at[r] = "setup"
    /\ writer' = None /\ src' = NoScript
    /\ \/ /\ src.kind # "broken"
          /\ app' = Built(src)
          /\ Continue(r, "dispatch") /\ UNCHANGED ran
       \/ /\ src.kind = "broken" /\ env.entry = "http"
          /\ Continue(r, "dispatch") /\ UNCHANGED <<app, ran>>
       \/ /\ src.kind = "broken" /\ env.entry = "fcgi"
          /\ app' = [app EXCEPT !.ready = FALSE]
          /\ Answer(r)
    /\ UNCHANGED <<env, file, seen, readers, copies>>

-----------------------------------------------------------------------------
(***************************************************************************)
(* look_app_dispatch.                                                      *)
(***************************************************************************)

\* The rate limit (429) or the health path answers without the application.
AnswerEarly(r) ==
    /\ at[r] = "dispatch" /\ env.entry = "http"
    /\ Answer(r)
    /\ UNCHANGED <<env, file, seen, app, writer, readers, src, copies>>

\* make_dispatch_copy when the copy is of another generation, else the copy
\* as the worker's last request left it.
Refreshed(c) == IF copies[c].gen = app.gen THEN copies[c]
                ELSE [gen |-> app.gen, ver |-> app.ver, web |-> None, wrote |-> {}]

\* The VM path: the copy and the route list of this generation, bound to
\* this request.  The table of builtins is the request's own with fibers; else
\* it is the worker's, made anew for another generation or when the request's
\* context is at another address than the one the table is bound to.
DispatchVM(r) ==
    LET c == <<WorkerOf[r], "vm">>
        t == <<WorkerOf[r], "table">> IN
    /\ at[r] = "dispatch" /\ writer = None
    /\ UsesVM(app.kind)
    /\ copies' = [copies EXCEPT ![c] = [Refreshed(c) EXCEPT !.web = r],
                               ![t] = IF env.fiber THEN @
                                      ELSE [Refreshed(t) EXCEPT !.web = r, !.wrote = {}]]
    /\ via' = [via EXCEPT ![r] = IF env.fiber THEN <<"own">> ELSE t]
    /\ GoTo(r, "before")
    /\ UNCHANGED <<env, file, seen, app, writer, readers, running, src, ran>>

\* An interpreter copy for this request alone when fibers share the worker;
\* otherwise the worker's copy c, its globals set back.
TakeCopy(r, c) ==
    \/ /\ env.fiber
       /\ via' = [via EXCEPT ![r] = <<"own">>]
       /\ UNCHANGED copies
    \/ /\ ~env.fiber
       /\ via' = [via EXCEPT ![r] = c]
       /\ copies' = [copies EXCEPT ![c] = [Refreshed(c) EXCEPT !.web = r, !.wrote = {}]]

\* The interpreter path.  The lock is given back when the copy is taken.
DispatchInterp(r) ==
    /\ at[r] = "dispatch" /\ writer = None
    /\ ~UsesVM(app.kind)
    /\ TakeCopy(r, <<WorkerOf[r], "interp">>)
    /\ GoTo(r, IF app.kind = "direct" THEN "relock" ELSE "interp")
    /\ UNCHANGED <<env, file, seen, app, writer, readers, running, src, ran>>

\* A copy without routes runs the whole script, taken anew under the shared
\* lock: it may be a later one than the copy is of.
RunDirect(r) ==
    /\ at[r] = "relock" /\ writer = None
    /\ readers' = readers \cup {r}
    /\ ran' = [ran EXCEPT ![r] = @ + 1]
    /\ GoTo(r, "direct")
    /\ UNCHANGED <<env, file, seen, app, writer, running, src, via, copies>>

\* The before_route functions have run on the VM.  One of them may have
\* stopped the request or thrown; otherwise the route is matched and its
\* flag read.
BeforeEnds(r) ==
    /\ at[r] = "before" /\ Executes(r)
    /\ \/ Answer(r)
       \/ app.disabled /\ Continue(r, "fallback") /\ UNCHANGED ran
       \/ /\ ~app.disabled
          /\ ran' = [ran EXCEPT ![r] = @ + 1]
          /\ Continue(r, "route")
    /\ UNCHANGED <<env, file, seen, app, writer, readers, src, copies>>

\* Variant, the code before 1.0.8: an error on the VM is tried again on the
\* interpreter.
RouteEndsRetry(r, outcome) ==
    /\ at[r] = "route" /\ Executes(r)
    /\ app' = [app EXCEPT !.disabled = @ \/ outcome # "ok"]
    /\ \/ outcome # "ok" /\ Continue(r, "fallback") /\ UNCHANGED ran
       \/ outcome = "ok" /\ Answer(r)
    /\ UNCHANGED <<env, file, seen, writer, readers, src, copies>>

Outcomes == {"ok", "error", "unlinked"}

\* The handler returns, stops or exits, or throws: 500, and never a second
\* run.  One that reaches a builtin the VM lacks, through a variable set-up
\* could not see, also pins the route for later requests.
RouteEnds(r, outcome) ==
    /\ at[r] = "route" /\ Executes(r)
    /\ app' = [app EXCEPT !.disabled = @ \/ outcome = "unlinked"]
    /\ Answer(r)
    /\ UNCHANGED <<env, file, seen, writer, readers, src, copies>>

\* Variant: the fallback uses the worker's copy even with fibers.
FallbackShared(r) ==
    LET c == <<WorkerOf[r], "vm">> IN
    /\ at[r] = "fallback" /\ Executes(r)
    /\ via' = [via EXCEPT ![r] = c]
    /\ copies' = [copies EXCEPT ![c] = [@ EXCEPT !.web = r, !.wrote = {}]]
    /\ GoTo(r, "interp")
    /\ UNCHANGED <<env, file, seen, app, writer, readers, running, src, ran>>

\* The route is pinned to the interpreter: output and context start anew.
Fallback(r) ==
    /\ at[r] = "fallback" /\ Executes(r)
    /\ \/ /\ env.fiber /\ writer = None
          /\ via' = [via EXCEPT ![r] = <<"own">>]
          /\ UNCHANGED copies
       \/ LET c == <<WorkerOf[r], "vm">> IN
          /\ ~env.fiber
          /\ via' = [via EXCEPT ![r] = c]
          /\ copies' = [copies EXCEPT ![c].web = r, ![c].wrote = {}]
    /\ GoTo(r, "interp")
    /\ UNCHANGED <<env, file, seen, app, writer, readers, running, src, ran>>

\* User code on an interpreter copy may assign the copy's globals.
Writes(r) ==
    copies' = [c \in CopyIds |->
                 IF via[r] = c THEN [copies[c] EXCEPT !.wrote = @ \cup {r}] ELSE copies[c]]

\* Interpreter::dispatch_routes up to the handler.
InterpBefore(r) ==
    /\ at[r] = "interp" /\ Executes(r)
    /\ Writes(r)
    /\ \/ Answer(r)
       \/ /\ ran' = [ran EXCEPT ![r] = @ + 1]
          /\ Continue(r, "handler")
    /\ UNCHANGED <<env, file, seen, app, writer, readers, src>>

HandlerEnds(r) ==
    /\ at[r] = "handler" /\ Executes(r)
    /\ Writes(r)
    /\ Answer(r)
    /\ UNCHANGED <<env, file, seen, app, writer, readers, src>>

\* The whole script is the handler, under the shared lock.
DirectEnds(r) ==
    /\ at[r] = "direct" /\ Executes(r)
    /\ readers' = readers \ {r}
    /\ Writes(r)
    /\ Answer(r)
    /\ UNCHANGED <<env, file, seen, app, writer, src>>

\* User code waits for the database: another fiber of the worker runs.
Suspend(r) ==
    /\ at[r] \in UserCode /\ Executes(r)
    /\ env = [entry |-> "http", fiber |-> TRUE]
    /\ running' = [running EXCEPT ![WorkerOf[r]] = None]
    /\ UNCHANGED <<env, file, app, writer, readers, at, seen, src, via, ran, copies>>

Resume(r) ==
    /\ at[r] \in UserCode /\ running[WorkerOf[r]] = None
    /\ running' = [running EXCEPT ![WorkerOf[r]] = r]
    /\ UNCHANGED <<env, file, app, writer, readers, at, seen, src, via, ran, copies>>

Step(r) ==
    \/ Stat(r) \/ Lock(r) \/ Setup(r)
    \/ DispatchVM(r) \/ DispatchInterp(r) \/ RunDirect(r) \/ Fallback(r)
    \/ BeforeEnds(r) \/ InterpBefore(r) \/ HandlerEnds(r) \/ DirectEnds(r)
    \/ \E o \in Outcomes : RouteEnds(r, o)

Next ==
    \/ \E k \in Kinds : Edit(k)
    \/ \E r \in Requests :
          \/ \E check \in BOOLEAN : Arrive(r, check)
          \/ AnswerEarly(r) \/ Step(r) \/ Suspend(r) \/ Resume(r)

Spec == Init /\ [][Next]_vars

-----------------------------------------------------------------------------
(***************************************************************************)
(* Properties.                                                             *)
(***************************************************************************)

TypeOK ==
    /\ env \in Environments
    /\ file \in [ver : Nat, kind : Kinds, mid : BOOLEAN]
    /\ app \in [ready : BOOLEAN, gen : Nat, ver : Nat, kind : Kinds, mtime : Nat,
                disabled : BOOLEAN]
    /\ writer \in Requests \cup {None} /\ readers \subseteq Requests
    /\ running \in [Workers -> Requests \cup {None}]
    /\ at \in [Requests -> Places]
    /\ seen \in [Requests -> Nat]
    /\ src \in [ver : Nat, kind : Kinds \cup {"broken"}, mid : BOOLEAN]
    /\ via \in [Requests -> {<<"own">>} \cup CopyIds]
    /\ ran \in [Requests -> Nat]
    /\ copies \in [CopyIds -> [gen : Nat, ver : Nat, web : Requests \cup {None},
                               wrote : SUBSET Requests]]

\* request::, response:: and session:: called by a request work on that
\* request, and a request that runs on an interpreter copy sees no global
\* another request has assigned: whatever the other fibers of its worker did
\* while it was suspended, and whichever path and copy it was given.
OwnContext ==
    \A r \in Requests :
       at[r] \in UserCode /\ via[r] \in CopyIds =>
          copies[via[r]].web = r /\ copies[via[r]].wrote \subseteq {r}

\* SECURITY.md: "A run-time error is now answered with 500 once; the handler
\* is never run again".  No request starts its handler twice, on one engine
\* or on both.
HandlerOnce == \A r \in Requests : ran[r] <= 1

\* A copy kept by a worker that carries the current generation is a copy of
\* the current script: no request is dispatched to an older one because its
\* worker was busy, or idle, while the application was set up again.
NoStaleCopy ==
    \A c \in CopyIds : copies[c].gen = app.gen => copies[c].ver = app.ver

\* Two HTTP requests that notice one edit set the application up once: no
\* script that is already being served is read, compiled and run again.  A
\* FastCGI request compares the time it read before it waited for the lock,
\* and may set up again what another one has just set up.
SetUpOnce ==
    \A r \in Requests : at[r] = "setup" /\ env.entry = "http" => src.ver # app.ver

\* An edit is not overlooked: while the file is not the script that is
\* served, the next look at its time asks for a set-up, whether the last set-up
\* succeeded or failed.  The exception is an edit made while a set-up was
\* running: that set-up may have read the text before, and records the time
\* after.
EditNoticed == file.ver # app.ver /\ ~file.mid => app.mtime # file.ver

\* Together: every edit is set up, and once.
EditSetUpOnce == SetUpOnce /\ EditNoticed

=============================================================================
