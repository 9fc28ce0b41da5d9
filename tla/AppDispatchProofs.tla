------------------------- MODULE AppDispatchProofs -------------------------
(***************************************************************************)
(* TLAPS proofs about AppDispatch, for any requests, workers, scripts,     *)
(* settings and number of edits.                                           *)
(***************************************************************************)
EXTENDS AppDispatch, TLAPS

Own == <<"own">>

\* A request with an interpreter of its own goes through no worker's copy.
LEMMA OwnIsNoCopy == Own \notin CopyIds
  BY DEF Own, CopyIds

LEMMA TypeInit == Init => TypeOK
<1> SUFFICES ASSUME Init PROVE TypeOK
  OBVIOUS
<1>1. PICK k \in Kinds \ {"broken"} :
         /\ file = [ver |-> 1, kind |-> k, mid |-> FALSE]
         /\ app = [ready |-> TRUE, gen |-> 1, ver |-> 1, kind |-> k, mtime |-> 1,
                   disabled |-> k = "pinned"]
  BY Zenon DEF Init
<1>2. file \in [ver : Nat, kind : Kinds, mid : BOOLEAN]
  BY <1>1
<1>3. app \in [ready : BOOLEAN, gen : Nat, ver : Nat, kind : Kinds, mtime : Nat,
               disabled : BOOLEAN]
  BY <1>1
<1>4. copies \in [CopyIds -> [gen : Nat, ver : Nat, web : Requests \cup {None},
                              wrote : SUBSET Requests]]
  BY DEF Init, NoCopy
<1>5. src \in [ver : Nat, kind : Kinds \cup {"broken"}, mid : BOOLEAN]
  BY DEF Init, NoScript
<1>6. /\ env \in Environments /\ writer \in Requests \cup {None} /\ readers \subseteq Requests
      /\ running \in [Workers -> Requests \cup {None}] /\ at \in [Requests -> Places]
      /\ seen \in [Requests -> Nat] /\ via \in [Requests -> {<<"own">>} \cup CopyIds]
      /\ ran \in [Requests -> Nat]
  BY DEF Init, Places
<1> QED BY <1>2, <1>3, <1>4, <1>5, <1>6 DEF TypeOK

\* What a response leaves of its request.
LEMMA AnswerType ==
    ASSUME TypeOK, NEW r \in Requests, Answer(r)
    PROVE  /\ at' \in [Requests -> Places] /\ running' \in [Workers -> Requests \cup {None}]
           /\ via' \in [Requests -> {<<"own">>} \cup CopyIds] /\ ran' \in [Requests -> Nat]
  BY AppAssumption DEF TypeOK, Answer, GoTo, Places

LEMMA WritesType ==
    ASSUME TypeOK, NEW r \in Requests, Writes(r)
    PROVE  copies' \in [CopyIds -> [gen : Nat, ver : Nat, web : Requests \cup {None},
                                    wrote : SUBSET Requests]]
  BY DEF TypeOK, Writes

LEMMA TypeStep == TypeOK /\ [Next]_vars => TypeOK'
<1> SUFFICES ASSUME TypeOK, [Next]_vars PROVE TypeOK'
  OBVIOUS
<1> USE AppAssumption DEF Places, GoTo, Continue
<1>1. ASSUME NEW k \in Kinds, Edit(k) PROVE TypeOK'
  <2>1. file' \in [ver : Nat, kind : Kinds, mid : BOOLEAN]
    BY <1>1 DEF Edit, TypeOK
  <2> QED BY <1>1, <2>1 DEF Edit, TypeOK
<1>2. ASSUME NEW r \in Requests, NEW check \in BOOLEAN, Arrive(r, check) PROVE TypeOK'
  BY <1>2 DEF Arrive, TypeOK
<1>3. ASSUME NEW r \in Requests, AnswerEarly(r) PROVE TypeOK'
  BY <1>3, AnswerType DEF AnswerEarly, TypeOK
<1>4. ASSUME NEW r \in Requests, Stat(r) PROVE TypeOK'
  BY <1>4 DEF Stat, TypeOK
<1>5. ASSUME NEW r \in Requests, Lock(r) PROVE TypeOK'
  BY <1>5 DEF Lock, TypeOK
<1>6. ASSUME NEW r \in Requests, Setup(r) PROVE TypeOK'
  <2>1. /\ src' \in [ver : Nat, kind : Kinds \cup {"broken"}, mid : BOOLEAN]
        /\ writer' \in Requests \cup {None}
    BY <1>6 DEF Setup, NoScript, TypeOK
  <2>2. app' \in [ready : BOOLEAN, gen : Nat, ver : Nat, kind : Kinds, mtime : Nat,
                  disabled : BOOLEAN]
    <3>1. CASE app' = Built(src) /\ src.kind # "broken"
      BY <3>1 DEF Built, TypeOK
    <3>2. CASE app' = app
      BY <3>2 DEF TypeOK
    <3>3. CASE app' = [app EXCEPT !.ready = FALSE]
      BY <3>3 DEF TypeOK
    <3> QED BY <1>6, <3>1, <3>2, <3>3 DEF Setup
  <2>3. /\ at' \in [Requests -> Places] /\ running' \in [Workers -> Requests \cup {None}]
        /\ via' \in [Requests -> {<<"own">>} \cup CopyIds] /\ ran' \in [Requests -> Nat]
    BY <1>6, AnswerType DEF Setup, TypeOK
  <2> QED BY <1>6, <2>1, <2>2, <2>3 DEF Setup, TypeOK
<1>7. ASSUME NEW r \in Requests, DispatchVM(r) PROVE TypeOK'
  <2> DEFINE c == <<WorkerOf[r], "vm">>
             t == <<WorkerOf[r], "table">>
  <2>1. c \in CopyIds /\ t \in CopyIds BY AppAssumption DEF CopyIds
  <2>2. ASSUME NEW d \in CopyIds
        PROVE  Refreshed(d) \in [gen : Nat, ver : Nat, web : Requests \cup {None},
                                 wrote : SUBSET Requests]
    BY DEF Refreshed, TypeOK
  <2>3. copies' \in [CopyIds -> [gen : Nat, ver : Nat, web : Requests \cup {None},
                                 wrote : SUBSET Requests]]
    <3>1. /\ Refreshed(c) \in [gen : Nat, ver : Nat, web : Requests \cup {None},
                               wrote : SUBSET Requests]
          /\ Refreshed(t) \in [gen : Nat, ver : Nat, web : Requests \cup {None},
                               wrote : SUBSET Requests]
      BY <2>1, <2>2
    <3> QED BY <1>7, <2>1, <3>1 DEF DispatchVM, TypeOK
  <2>4. via' \in [Requests -> {<<"own">>} \cup CopyIds]
    BY <1>7, <2>1 DEF DispatchVM, TypeOK
  <2> QED BY <1>7, <2>3, <2>4 DEF DispatchVM, TypeOK
<1>8. ASSUME NEW r \in Requests, DispatchInterp(r) PROVE TypeOK'
  <2> DEFINE c == <<WorkerOf[r], "interp">>
  <2>1. c \in CopyIds BY DEF CopyIds
  <2>2. Refreshed(c) \in [gen : Nat, ver : Nat, web : Requests \cup {None},
                          wrote : SUBSET Requests]
    BY <2>1 DEF Refreshed, TypeOK
  <2>3. /\ via' \in [Requests -> {<<"own">>} \cup CopyIds]
        /\ copies' \in [CopyIds -> [gen : Nat, ver : Nat, web : Requests \cup {None},
                                    wrote : SUBSET Requests]]
    <3>1. CASE via' = [via EXCEPT ![r] = <<"own">>] /\ copies' = copies
      BY <3>1 DEF TypeOK
    <3>2. CASE /\ via' = [via EXCEPT ![r] = c]
               /\ copies' = [copies EXCEPT ![c] = [Refreshed(c) EXCEPT !.web = r, !.wrote = {}]]
      <4> HIDE DEF c
      <4>1. [Refreshed(c) EXCEPT !.web = r, !.wrote = {}] \in
                [gen : Nat, ver : Nat, web : Requests \cup {None}, wrote : SUBSET Requests]
        BY <2>2
      <4> QED BY <3>2, <2>1, <4>1 DEF TypeOK
    <3> QED BY <1>8, <3>1, <3>2 DEF DispatchInterp, TakeCopy
  <2>4. at' \in [Requests -> Places]
    BY <1>8 DEF DispatchInterp, TypeOK
  <2> QED BY <1>8, <2>3, <2>4 DEF DispatchInterp, TypeOK
<1>9. ASSUME NEW r \in Requests, RunDirect(r) PROVE TypeOK'
  BY <1>9 DEF RunDirect, TypeOK
<1>10. ASSUME NEW r \in Requests, Fallback(r) PROVE TypeOK'
  <2> DEFINE c == <<WorkerOf[r], "vm">>
  <2>1. c \in CopyIds BY DEF CopyIds
  <2>2. via' \in [Requests -> {<<"own">>} \cup CopyIds]
    BY <1>10, <2>1 DEF Fallback, TypeOK
  <2>3. copies' \in [CopyIds -> [gen : Nat, ver : Nat, web : Requests \cup {None},
                                 wrote : SUBSET Requests]]
    <3>1. CASE copies' = copies
      BY <3>1 DEF TypeOK
    <3>2. CASE copies' = [copies EXCEPT ![c].web = r, ![c].wrote = {}]
      <4> HIDE DEF c
      <4>1. [copies[c] EXCEPT !.web = r, !.wrote = {}] \in
                [gen : Nat, ver : Nat, web : Requests \cup {None}, wrote : SUBSET Requests]
        <5>1. copies[c] \in
                [gen : Nat, ver : Nat, web : Requests \cup {None}, wrote : SUBSET Requests]
          BY <2>1 DEF TypeOK
        <5> QED BY <5>1
      <4>2. copies' = [copies EXCEPT ![c] = [copies[c] EXCEPT !.web = r, !.wrote = {}]]
        BY <3>2, <2>1 DEF TypeOK
      <4> QED BY <2>1, <4>1, <4>2 DEF TypeOK
    <3> QED BY <1>10, <3>1, <3>2 DEF Fallback
  <2> QED BY <1>10, <2>2, <2>3 DEF Fallback, TypeOK
<1>11. ASSUME NEW r \in Requests, BeforeEnds(r) PROVE TypeOK'
  BY <1>11, AnswerType DEF BeforeEnds, TypeOK
<1>12. ASSUME NEW r \in Requests, InterpBefore(r) PROVE TypeOK'
  <2>1. /\ at' \in [Requests -> Places] /\ running' \in [Workers -> Requests \cup {None}]
        /\ via' \in [Requests -> {<<"own">>} \cup CopyIds] /\ ran' \in [Requests -> Nat]
    BY <1>12, AnswerType DEF InterpBefore, TypeOK
  <2> QED BY <1>12, <2>1, WritesType DEF InterpBefore, TypeOK
<1>13. ASSUME NEW r \in Requests, HandlerEnds(r) PROVE TypeOK'
  BY <1>13, AnswerType, WritesType DEF HandlerEnds, TypeOK
<1>14. ASSUME NEW r \in Requests, DirectEnds(r) PROVE TypeOK'
  BY <1>14, AnswerType, WritesType DEF DirectEnds, TypeOK
<1>15. ASSUME NEW r \in Requests, NEW o \in Outcomes, RouteEnds(r, o) PROVE TypeOK'
  BY <1>15, AnswerType DEF RouteEnds, TypeOK
<1>16. ASSUME NEW r \in Requests, Suspend(r) \/ Resume(r) PROVE TypeOK'
  BY <1>16 DEF Suspend, Resume, TypeOK
<1>17. CASE UNCHANGED vars
  BY <1>17 DEF vars, TypeOK
<1> QED BY <1>1, <1>2, <1>3, <1>4, <1>5, <1>6, <1>7, <1>8, <1>9, <1>10, <1>11, <1>12,
           <1>13, <1>14, <1>15, <1>16, <1>17 DEF Next, Step

\* Every variable keeps its type.
THEOREM AppTypeCorrect == Spec => []TypeOK
  BY TypeInit, TypeStep, PTL DEF Spec

-----------------------------------------------------------------------------
(***************************************************************************)
(* Edits and set-ups.                                                      *)
(***************************************************************************)

\* Times only grow, the request in set-up holds the exclusive lock, and what
\* it has read is the file unless that was edited meanwhile.
EditInv ==
    /\ app.ver <= app.mtime /\ app.mtime <= file.ver
    /\ \A r \in Requests : at[r] = "setup" <=> writer = r
    /\ writer # None => src.ver <= file.ver /\ (src.ver = file.ver \/ file.mid)
    /\ SetUpOnce /\ EditNoticed

\* A request moves outside set-up.
LEMMA EditQuiet ==
    ASSUME TypeOK, EditInv, NEW r \in Requests, NEW p, p # "setup", at[r] # "setup",
           at' = [at EXCEPT ![r] = p], UNCHANGED <<env, file, writer, src>>,
           app'.ver = app.ver, app'.mtime = app.mtime
    PROVE  EditInv'
  BY DEF TypeOK, EditInv, SetUpOnce, EditNoticed

LEMMA EditStep == TypeOK /\ EditInv /\ [Next]_vars => EditInv'
<1> SUFFICES ASSUME TypeOK, EditInv, [Next]_vars PROVE EditInv'
  OBVIOUS
<1> USE DEF GoTo, Continue, Answer
<1>1. ASSUME NEW k \in Kinds, Edit(k) PROVE EditInv'
  <2>1. /\ file'.ver = file.ver + 1 /\ (file'.mid <=> writer # None)
        /\ UNCHANGED <<env, app, writer, at, src>>
    BY <1>1 DEF Edit
  <2>2. /\ file.ver \in Nat /\ app.ver \in Nat /\ app.mtime \in Nat /\ src.ver \in Nat
    BY DEF TypeOK
  <2> QED BY <2>1, <2>2 DEF EditInv, SetUpOnce, EditNoticed
<1>2. ASSUME NEW r \in Requests, NEW check \in BOOLEAN, Arrive(r, check) PROVE EditInv'
  BY <1>2, EditQuiet DEF Arrive
<1>3. ASSUME NEW r \in Requests, AnswerEarly(r) PROVE EditInv'
  BY <1>3, EditQuiet DEF AnswerEarly
<1>4. ASSUME NEW r \in Requests, Stat(r) PROVE EditInv'
  BY <1>4, EditQuiet DEF Stat
<1>5. ASSUME NEW r \in Requests, Lock(r) PROVE EditInv'
  <2>1. CASE SetUpByOther(r)
    <3>1. /\ at[r] # "setup" /\ at' = [at EXCEPT ![r] = "dispatch"]
          /\ UNCHANGED <<env, file, app, writer, src>>
      BY <1>5, <2>1 DEF Lock
    <3> QED BY <3>1, EditQuiet
  <2>2. CASE ~SetUpByOther(r)
    <3>1. /\ at[r] # "setup" /\ at' = [at EXCEPT ![r] = "setup"] /\ writer = None
          /\ writer' = r /\ src' = file /\ UNCHANGED <<env, file, app>>
      BY <1>5, <2>2 DEF Lock
    <3>2. env.entry = "http" => file.ver # app.ver
      <4>1. env.entry = "http" => app.mtime # file.ver
        BY <2>2 DEF SetUpByOther, UpToDate
      <4>2. file.ver \in Nat /\ app.ver \in Nat /\ app.mtime \in Nat
        BY DEF TypeOK
      <4> QED BY <4>1, <4>2 DEF EditInv
    <3> QED BY <3>1, <3>2, AppAssumption DEF TypeOK, EditInv, SetUpOnce, EditNoticed
  <2> QED BY <2>1, <2>2
<1>6. ASSUME NEW r \in Requests, Setup(r) PROVE EditInv'
  <2>1. /\ at[r] = "setup" /\ writer = r /\ writer' = None /\ UNCHANGED <<env, file>>
        /\ \A q \in Requests \ {r} : at[q] # "setup"
    BY <1>6, AppAssumption DEF Setup, EditInv
  <2>2. \A q \in Requests : at'[q] # "setup"
    <3>1. PICK p \in {"dispatch", "idle"} : at' = [at EXCEPT ![r] = p]
      BY <1>6 DEF Setup
    <3> QED BY <2>1, <3>1 DEF TypeOK
  <2>3. \/ app'.ver = app.ver /\ app'.mtime = app.mtime
        \/ app'.ver = src.ver /\ app'.mtime = file.ver
    <3>1. CASE app' = Built(src) BY <3>1 DEF Built
    <3>2. CASE app' = app BY <3>2
    <3>3. CASE app' = [app EXCEPT !.ready = FALSE] BY <3>3 DEF TypeOK
    <3> QED BY <1>6, <3>1, <3>2, <3>3 DEF Setup
  <2> QED BY <2>1, <2>2, <2>3, AppAssumption DEF TypeOK, EditInv, SetUpOnce, EditNoticed
<1>7. ASSUME NEW r \in Requests, DispatchVM(r) PROVE EditInv'
  BY <1>7, EditQuiet DEF DispatchVM
<1>8. ASSUME NEW r \in Requests, DispatchInterp(r) PROVE EditInv'
  BY <1>8, EditQuiet DEF DispatchInterp
<1>9. ASSUME NEW r \in Requests, RunDirect(r) PROVE EditInv'
  BY <1>9, EditQuiet DEF RunDirect
<1>10. ASSUME NEW r \in Requests, Fallback(r) PROVE EditInv'
  BY <1>10, EditQuiet DEF Fallback
<1>11. ASSUME NEW r \in Requests, BeforeEnds(r) PROVE EditInv'
  BY <1>11, EditQuiet DEF BeforeEnds
<1>12. ASSUME NEW r \in Requests, InterpBefore(r) PROVE EditInv'
  BY <1>12, EditQuiet DEF InterpBefore
<1>13. ASSUME NEW r \in Requests, HandlerEnds(r) PROVE EditInv'
  BY <1>13, EditQuiet DEF HandlerEnds
<1>14. ASSUME NEW r \in Requests, DirectEnds(r) PROVE EditInv'
  BY <1>14, EditQuiet DEF DirectEnds
<1>15. ASSUME NEW r \in Requests, NEW o \in Outcomes, RouteEnds(r, o) PROVE EditInv'
  <2>1. app'.ver = app.ver /\ app'.mtime = app.mtime
    BY <1>15 DEF RouteEnds, TypeOK
  <2> QED BY <1>15, <2>1, EditQuiet DEF RouteEnds
<1>16. ASSUME UNCHANGED <<env, file, app, writer, src, at>> PROVE EditInv'
  BY <1>16 DEF EditInv, SetUpOnce, EditNoticed
<1> QED BY <1>1, <1>2, <1>3, <1>4, <1>5, <1>6, <1>7, <1>8, <1>9, <1>10, <1>11, <1>12,
           <1>13, <1>14, <1>15, <1>16 DEF Next, Step, Suspend, Resume, vars

\* Two HTTP requests that notice one edit set the application up once, and no
\* edit is overlooked unless it was made during a set-up.
THEOREM EditsSetUpOnce == Spec => []EditSetUpOnce
<1>1. Init => EditInv
  <2> SUFFICES ASSUME Init PROVE EditInv
    OBVIOUS
  <2>1. file.ver = 1 /\ app.ver = 1 /\ app.mtime = 1
    BY DEF Init
  <2>2. writer = None /\ at = [r \in Requests |-> "idle"]
    BY DEF Init
  <2> QED BY <2>1, <2>2, AppAssumption DEF EditInv, SetUpOnce, EditNoticed
<1>2. EditInv => EditSetUpOnce
  BY DEF EditInv, EditSetUpOnce
<1> QED BY <1>1, <1>2, AppTypeCorrect, EditStep, PTL DEF Spec

-----------------------------------------------------------------------------
(***************************************************************************)
(* Handlers.                                                               *)
(***************************************************************************)

\* A request has started its handler exactly where its handler runs.
RanInv == \A r \in Requests :
             ran[r] = IF at[r] \in {"route", "handler", "direct"} THEN 1 ELSE 0

LEMMA RanStep == TypeOK /\ RanInv /\ [Next]_vars => RanInv'
<1> SUFFICES ASSUME TypeOK, RanInv, [Next]_vars PROVE RanInv'
  OBVIOUS
<1> USE DEF GoTo, Continue, Answer
\* The three kinds of step: before the handler, into it, and the answer.
<1>1. ASSUME NEW r \in Requests, NEW p, at[r] \notin {"route", "handler", "direct"},
             p \notin {"route", "handler", "direct"},
             at' = [at EXCEPT ![r] = p], UNCHANGED ran
      PROVE  RanInv'
  BY <1>1 DEF RanInv, TypeOK
<1>2. ASSUME NEW r \in Requests, NEW p, at[r] \notin {"route", "handler", "direct"},
             p \in {"route", "handler", "direct"},
             at' = [at EXCEPT ![r] = p], ran' = [ran EXCEPT ![r] = @ + 1]
      PROVE  RanInv'
  BY <1>2 DEF RanInv, TypeOK
<1>3. ASSUME NEW r \in Requests, Answer(r)
      PROVE  RanInv'
  BY <1>3 DEF RanInv, TypeOK
<1>4. ASSUME NEW r \in Requests, Step(r) PROVE RanInv'
  <2>1. CASE Stat(r) BY <2>1, <1>1 DEF Stat
  <2>2. CASE Lock(r) BY <2>2, <1>1 DEF Lock
  <2>3. CASE Setup(r) BY <2>3, <1>1, <1>3 DEF Setup
  <2>4. CASE DispatchVM(r) BY <2>4, <1>1 DEF DispatchVM
  <2>5. CASE DispatchInterp(r)
    <3>1. PICK p \in {"relock", "interp"} : at' = [at EXCEPT ![r] = p]
      BY <2>5 DEF DispatchInterp
    <3> QED BY <2>5, <3>1, <1>1 DEF DispatchInterp
  <2>6. CASE RunDirect(r) BY <2>6, <1>2 DEF RunDirect
  <2>7. CASE Fallback(r) BY <2>7, <1>1 DEF Fallback
  <2>8. CASE BeforeEnds(r) BY <2>8, <1>1, <1>2, <1>3 DEF BeforeEnds
  <2>9. CASE InterpBefore(r) BY <2>9, <1>2, <1>3 DEF InterpBefore
  <2>10. CASE HandlerEnds(r) \/ DirectEnds(r) \/ \E o \in Outcomes : RouteEnds(r, o)
    BY <2>10, <1>3 DEF HandlerEnds, DirectEnds, RouteEnds
  <2> QED BY <1>4, <2>1, <2>2, <2>3, <2>4, <2>5, <2>6, <2>7, <2>8, <2>9, <2>10 DEF Step
<1>5. ASSUME NEW r \in Requests, NEW check \in BOOLEAN, Arrive(r, check) PROVE RanInv'
  <2>1. PICK p \in {"stat", "dispatch"} : at' = [at EXCEPT ![r] = p]
    BY <1>5 DEF Arrive
  <2> QED BY <1>5, <2>1, <1>1 DEF Arrive
<1>6. ASSUME NEW r \in Requests, AnswerEarly(r) PROVE RanInv'
  BY <1>6, <1>3 DEF AnswerEarly
<1>7. ASSUME UNCHANGED <<at, ran>> PROVE RanInv'
  BY <1>7 DEF RanInv
<1> QED BY <1>4, <1>5, <1>6, <1>7 DEF Next, Edit, Suspend, Resume, vars

\* No request starts its handler twice, on one engine or on both: a run-time
\* error is answered once and the handler is never run again.
THEOREM HandlerRunsOnce == Spec => []HandlerOnce
<1>1. Init => RanInv BY DEF Init, RanInv
<1>2. RanInv => HandlerOnce BY DEF RanInv, HandlerOnce
<1> QED BY <1>1, <1>2, AppTypeCorrect, RanStep, PTL DEF Spec

-----------------------------------------------------------------------------
(***************************************************************************)
(* The copies kept by the workers.                                         *)
(***************************************************************************)

\* No copy is ahead of the application, and one of its generation is of its
\* script.
CopyInv(c) == /\ copies[c].gen <= app.gen
              /\ copies[c].gen = app.gen => copies[c].ver = app.ver
AllCopyInv == \A c \in CopyIds : CopyInv(c)

\* Taking and using a copy changes at most what requests have done to it.
LEMMA CopyStep == TypeOK /\ AllCopyInv /\ [Next]_vars => AllCopyInv'
<1> SUFFICES ASSUME TypeOK, AllCopyInv, [Next]_vars PROVE AllCopyInv'
  OBVIOUS
<1>1. ASSUME app'.gen = app.gen, app'.ver = app.ver,
             \A c \in CopyIds : \/ copies'[c].gen = copies[c].gen /\ copies'[c].ver = copies[c].ver
                                \/ copies'[c].gen = app.gen /\ copies'[c].ver = app.ver
      PROVE  AllCopyInv'
  BY <1>1 DEF AllCopyInv, CopyInv, TypeOK
<1>2. ASSUME NEW r \in Requests, Writes(r), UNCHANGED app PROVE AllCopyInv'
  <2>1. ASSUME NEW c \in CopyIds
        PROVE  copies'[c].gen = copies[c].gen /\ copies'[c].ver = copies[c].ver
    BY <1>2 DEF Writes, TypeOK
  <2> QED BY <1>1, <1>2, <2>1
<1>3. ASSUME NEW r \in Requests, NEW d \in CopyIds, UNCHANGED app, NEW x,
             x.gen = Refreshed(d).gen, x.ver = Refreshed(d).ver,
             copies' = [copies EXCEPT ![d] = x]
      PROVE  AllCopyInv'
  <2>1. \/ Refreshed(d) = copies[d]
        \/ Refreshed(d).gen = app.gen /\ Refreshed(d).ver = app.ver
    BY DEF Refreshed
  <2>2. ASSUME NEW c \in CopyIds
        PROVE  \/ copies'[c].gen = copies[c].gen /\ copies'[c].ver = copies[c].ver
               \/ copies'[c].gen = app.gen /\ copies'[c].ver = app.ver
    BY <1>3, <2>1 DEF TypeOK
  <2> QED BY <1>1, <1>3, <2>2
<1>4. ASSUME UNCHANGED <<copies, app>> PROVE AllCopyInv'
  BY <1>4 DEF AllCopyInv, CopyInv
<1>5. ASSUME NEW d \in CopyIds
      PROVE  Refreshed(d) \in [gen : Nat, ver : Nat, web : Requests \cup {None},
                               wrote : SUBSET Requests]
  BY DEF Refreshed, TypeOK
<1>6. ASSUME NEW r \in Requests, Step(r) PROVE AllCopyInv'
  <2>1. WorkerOf[r] \in Workers
    BY AppAssumption
  <2>2. CASE Setup(r)
    <3>1. CASE app' = Built(src)
      <4>1. app'.gen = app.gen + 1 BY <3>1 DEF Built
      <4>2. app.gen \in Nat /\ copies' = copies BY <2>2 DEF Setup, TypeOK
      <4>3. \A c \in CopyIds : copies[c].gen \in Nat BY DEF TypeOK
      <4> QED BY <4>1, <4>2, <4>3 DEF AllCopyInv, CopyInv
    <3>2. CASE app' = app BY <2>2, <3>2, <1>4 DEF Setup
    <3>3. CASE app' = [app EXCEPT !.ready = FALSE]
      BY <2>2, <3>3, <1>1 DEF Setup, TypeOK
    <3> QED BY <2>2, <3>1, <3>2, <3>3 DEF Setup
  <2>3. CASE DispatchVM(r)
    <3> DEFINE c == <<WorkerOf[r], "vm">>
               t == <<WorkerOf[r], "table">>
               x == [Refreshed(c) EXCEPT !.web = r]
               y == [Refreshed(t) EXCEPT !.web = r, !.wrote = {}]
    <3>1. c \in CopyIds /\ t \in CopyIds BY <2>1 DEF CopyIds
    <3>2. /\ copies' = [copies EXCEPT ![c] = x, ![t] = IF env.fiber THEN @ ELSE y]
          /\ UNCHANGED app /\ c # t
      BY <2>3 DEF DispatchVM
    <3>3. x.gen = Refreshed(c).gen /\ x.ver = Refreshed(c).ver
      <4> HIDE DEF c
      <4> QED BY <3>1, <1>5
    <3>4. y.gen = Refreshed(t).gen /\ y.ver = Refreshed(t).ver
      <4> HIDE DEF t
      <4> QED BY <3>1, <1>5
    <3>5. ASSUME NEW d \in CopyIds
          PROVE  Refreshed(d) = copies[d] \/ (Refreshed(d).gen = app.gen /\ Refreshed(d).ver = app.ver)
      BY DEF Refreshed
    <3> HIDE DEF c, t, x, y
    <3>6. ASSUME NEW d \in CopyIds
          PROVE  \/ copies'[d].gen = copies[d].gen /\ copies'[d].ver = copies[d].ver
                 \/ copies'[d].gen = app.gen /\ copies'[d].ver = app.ver
      <4>1. copies'[c] = x /\ (copies'[t] = copies[t] \/ copies'[t] = y)
        BY <3>1, <3>2 DEF TypeOK
      <4>2. d # c /\ d # t => copies'[d] = copies[d]
        BY <3>1, <3>2 DEF TypeOK
      <4> QED BY <3>1, <3>3, <3>4, <3>5, <4>1, <4>2
    <3> QED BY <3>2, <3>6, <1>1
  <2>4. CASE DispatchInterp(r)
    <3> DEFINE c == <<WorkerOf[r], "interp">>
               x == [Refreshed(c) EXCEPT !.web = r, !.wrote = {}]
    <3>1. c \in CopyIds BY <2>1 DEF CopyIds
    <3>2. (copies' = copies \/ copies' = [copies EXCEPT ![c] = x]) /\ UNCHANGED app
      BY <2>4 DEF DispatchInterp, TakeCopy
    <3>3. x.gen = Refreshed(c).gen /\ x.ver = Refreshed(c).ver
      <4> HIDE DEF c
      <4> QED BY <3>1, <1>5
    <3> HIDE DEF c, x
    <3> QED BY <3>1, <3>2, <3>3, <1>3, <1>4
  <2>5. CASE Fallback(r)
    <3> DEFINE c == <<WorkerOf[r], "vm">>
    <3>1. c \in CopyIds BY <2>1 DEF CopyIds
    <3>2. CASE copies' = copies BY <2>5, <3>2, <1>4 DEF Fallback
    <3>3. CASE copies' = [copies EXCEPT ![c].web = r, ![c].wrote = {}]
      <4> HIDE DEF c
      <4>1. ASSUME NEW d \in CopyIds
            PROVE  copies'[d].gen = copies[d].gen /\ copies'[d].ver = copies[d].ver
        BY <3>1, <3>3 DEF TypeOK
      <4> QED BY <2>5, <4>1, <1>1 DEF Fallback
    <3> QED BY <2>5, <3>2, <3>3 DEF Fallback
  <2>6. CASE InterpBefore(r) \/ HandlerEnds(r) \/ DirectEnds(r)
    BY <2>6, <1>2 DEF InterpBefore, HandlerEnds, DirectEnds
  <2>7. CASE \E o \in Outcomes : RouteEnds(r, o)
    <3>1. copies' = copies /\ app'.gen = app.gen /\ app'.ver = app.ver
      BY <2>7 DEF RouteEnds, TypeOK
    <3> QED BY <3>1, <1>1
  <2> QED BY <1>6, <2>2, <2>3, <2>4, <2>5, <2>6, <2>7, <1>4
          DEF Step, Stat, Lock, RunDirect, BeforeEnds
<1> QED BY <1>4, <1>6 DEF Next, Edit, Arrive, AnswerEarly, Suspend, Resume, vars

\* A worker's copy that carries the current generation is of the script that
\* is served, whatever the worker did while the application was set up again.
THEOREM NoCopyIsStale == Spec => []NoStaleCopy
<1>1. Init => AllCopyInv
  <2> SUFFICES ASSUME Init PROVE AllCopyInv
    OBVIOUS
  <2>1. app.gen = 1 /\ \A c \in CopyIds : copies[c].gen = 0
    BY DEF Init, NoCopy
  <2> QED BY <2>1 DEF AllCopyInv, CopyInv
<1>2. AllCopyInv => NoStaleCopy BY DEF AllCopyInv, CopyInv, NoStaleCopy
<1> QED BY <1>1, <1>2, AppTypeCorrect, CopyStep, PTL DEF Spec

-----------------------------------------------------------------------------
(***************************************************************************)
(* Whose context a copy has.  Where fibers do not share workers a request  *)
(* keeps its worker until its response; where they do, no request goes     *)
(* through a worker's copy.                                                *)
(***************************************************************************)
Dispatched == {"before", "route", "fallback", "interp", "handler", "relock", "direct"}
ViaInv(r) ==
    /\ via[r] \in CopyIds =>
          /\ ~env.fiber /\ via[r][1] = WorkerOf[r]
          /\ at[r] \in Dispatched
          /\ copies[via[r]].web = r /\ copies[via[r]].wrote \subseteq {r}
    /\ ~env.fiber /\ at[r] # "idle" => running[WorkerOf[r]] = r
AllViaInv == \A r \in Requests : ViaInv(r)

\* A step of one request that touches the copies of its own worker only.
LEMMA ViaOfOthers ==
    ASSUME TypeOK, AllViaInv, NEW r \in Requests, UNCHANGED env,
           at[r] # "idle" \/ running[WorkerOf[r]] = None,
           \A q \in Requests \ {r} : at'[q] = at[q] /\ via'[q] = via[q],
           \A w \in Workers \ {WorkerOf[r]} : running'[w] = running[w],
           \A c \in CopyIds : c[1] # WorkerOf[r] => copies'[c] = copies[c],
           ViaInv(r)'
    PROVE  AllViaInv'
<1>1. ASSUME NEW q \in Requests \ {r} PROVE ViaInv(q)'
  <2>1. ViaInv(q) /\ ViaInv(r) /\ at'[q] = at[q] /\ via'[q] = via[q]
    BY DEF AllViaInv
  <2>2. WorkerOf[q] \in Workers /\ None \notin Requests
    BY AppAssumption
  <2>3. ~env.fiber /\ at[q] # "idle" => WorkerOf[q] # WorkerOf[r]
    BY <2>1, <2>2 DEF ViaInv
  <2>4. ~env.fiber /\ at[q] # "idle" => running'[WorkerOf[q]] = q
    BY <2>1, <2>2, <2>3 DEF ViaInv
  <2>5. ASSUME via[q] \in CopyIds
        PROVE  /\ ~env.fiber /\ via[q][1] = WorkerOf[q]
               /\ at[q] \in Dispatched
               /\ copies'[via[q]].web = q /\ copies'[via[q]].wrote \subseteq {q}
    <3>1. /\ ~env.fiber /\ via[q][1] = WorkerOf[q]
          /\ at[q] \in Dispatched
          /\ copies[via[q]].web = q /\ copies[via[q]].wrote \subseteq {q}
      BY <2>1, <2>5 DEF ViaInv
    <3>2. copies'[via[q]] = copies[via[q]]
      BY <2>3, <2>5, <3>1 DEF Dispatched
    <3> QED BY <3>1, <3>2
  <2> QED BY <2>1, <2>4, <2>5 DEF ViaInv
<1> QED BY <1>1 DEF AllViaInv

\* A request moves on and keeps its copy, or has none.
LEMMA ViaMove ==
    ASSUME TypeOK, AllViaInv, NEW r \in Requests, NEW p, at[r] # "idle",
           at' = [at EXCEPT ![r] = p], UNCHANGED <<env, via, running>>,
           at[r] \in Dispatched => p \in Dispatched,
           UNCHANGED copies \/ Writes(r)
    PROVE  AllViaInv'
<1>1. ViaInv(r) /\ at'[r] = p /\ \A q \in Requests \ {r} : at'[q] = at[q]
  BY DEF AllViaInv, TypeOK
<1>2. ASSUME NEW c \in CopyIds, via[r] # c PROVE copies'[c] = copies[c]
  BY <1>2 DEF Writes
<1>3. ASSUME via[r] \in CopyIds
      PROVE  copies'[via[r]].web = r /\ copies'[via[r]].wrote \subseteq {r}
  <2>1. copies[via[r]].web = r /\ copies[via[r]].wrote \subseteq {r}
    BY <1>1, <1>3 DEF ViaInv
  <2>2. copies[via[r]] \in [gen : Nat, ver : Nat, web : Requests \cup {None},
                            wrote : SUBSET Requests]
    BY <1>3 DEF TypeOK
  <2>3. \/ copies'[via[r]] = copies[via[r]]
        \/ copies'[via[r]] = [copies[via[r]] EXCEPT !.wrote = @ \cup {r}]
    BY <1>3 DEF Writes
  <2> QED BY <2>1, <2>2, <2>3
<1>4. ViaInv(r)'
  BY <1>1, <1>3 DEF ViaInv
<1>5. \A c \in CopyIds : c[1] # WorkerOf[r] => copies'[c] = copies[c]
  BY <1>1, <1>2 DEF ViaInv
<1> QED BY <1>1, <1>4, <1>5, ViaOfOthers

\* A request is answered.
LEMMA ViaAnswer ==
    ASSUME TypeOK, AllViaInv, NEW r \in Requests, at[r] # "idle", Answer(r),
           UNCHANGED env, UNCHANGED copies \/ Writes(r)
    PROVE  AllViaInv'
<1>1. /\ ViaInv(r) /\ at'[r] = "idle" /\ via'[r] = Own
      /\ \A q \in Requests \ {r} : at'[q] = at[q] /\ via'[q] = via[q]
      /\ \A w \in Workers \ {WorkerOf[r]} : running'[w] = running[w]
  BY DEF AllViaInv, TypeOK, Answer, GoTo, Own
<1>2. ASSUME NEW c \in CopyIds, via[r] # c PROVE copies'[c] = copies[c]
  BY <1>2 DEF Writes
<1>3. ViaInv(r)'
  BY <1>1, OwnIsNoCopy DEF ViaInv
<1>4. \A c \in CopyIds : c[1] # WorkerOf[r] => copies'[c] = copies[c]
  BY <1>1, <1>2 DEF ViaInv
<1> QED BY <1>1, <1>3, <1>4, ViaOfOthers

\* A request is given its own interpreter, or a copy of its worker with the
\* globals set back.
LEMMA ViaTaken ==
    ASSUME TypeOK, AllViaInv, NEW r \in Requests, at[r] # "idle",
           NEW p \in {"before", "interp", "relock"}, at' = [at EXCEPT ![r] = p],
           UNCHANGED <<env, running>>, NEW c \in CopyIds, c[1] = WorkerOf[r],
           \A d \in CopyIds : d[1] # WorkerOf[r] => copies'[d] = copies[d],
           \/ via' = [via EXCEPT ![r] = Own]
           \/ /\ ~env.fiber /\ via' = [via EXCEPT ![r] = c]
              /\ copies'[c].web = r /\ copies'[c].wrote = {}
    PROVE  AllViaInv'
<1>1. /\ ViaInv(r) /\ at'[r] = p
      /\ \A q \in Requests \ {r} : at'[q] = at[q] /\ via'[q] = via[q]
  BY DEF AllViaInv, TypeOK
<1>2. ViaInv(r)'
  <2>1. ~env.fiber => running'[WorkerOf[r]] = r
    BY <1>1 DEF ViaInv
  <2>2. CASE via' = [via EXCEPT ![r] = Own]
    <3>1. via'[r] = Own BY <2>2 DEF TypeOK
    <3> QED BY <1>1, <2>1, <3>1, OwnIsNoCopy DEF ViaInv
  <2>3. CASE /\ ~env.fiber /\ via' = [via EXCEPT ![r] = c]
             /\ copies'[c].web = r /\ copies'[c].wrote = {}
    <3>1. via'[r] = c BY <2>3 DEF TypeOK
    <3> QED BY <1>1, <2>1, <2>3, <3>1 DEF ViaInv, Dispatched
  <2> QED BY <2>2, <2>3
<1> QED BY <1>1, <1>2, ViaOfOthers

LEMMA ViaStep == TypeOK /\ AllViaInv /\ [Next]_vars => AllViaInv'
<1> SUFFICES ASSUME TypeOK, AllViaInv, [Next]_vars PROVE AllViaInv'
  OBVIOUS
<1> USE DEF GoTo, Continue, Dispatched
<1>1. ASSUME NEW r \in Requests, NEW check \in BOOLEAN, Arrive(r, check) PROVE AllViaInv'
  <2>1. PICK p \in {"stat", "dispatch"} : at' = [at EXCEPT ![r] = p]
    BY <1>1 DEF Arrive
  <2>2. /\ at[r] = "idle" /\ running[WorkerOf[r]] = None /\ UNCHANGED <<env, via, copies>>
        /\ running' = [running EXCEPT ![WorkerOf[r]] = r] /\ WorkerOf[r] \in Workers
    BY <1>1, AppAssumption DEF Arrive
  <2>3. /\ running'[WorkerOf[r]] = r /\ at'[r] = p
        /\ \A q \in Requests \ {r} : at'[q] = at[q]
        /\ \A w \in Workers \ {WorkerOf[r]} : running'[w] = running[w]
    BY <2>1, <2>2 DEF TypeOK
  <2>4. ViaInv(r) BY DEF AllViaInv
  <2>5. ViaInv(r)'
    BY <2>2, <2>3, <2>4 DEF ViaInv
  <2> QED BY <2>2, <2>3, <2>5, ViaOfOthers
<1>2. ASSUME NEW r \in Requests, AnswerEarly(r) PROVE AllViaInv'
  BY <1>2, ViaAnswer DEF AnswerEarly
<1>3. ASSUME NEW r \in Requests, Step(r) PROVE AllViaInv'
  <2>1. WorkerOf[r] \in Workers
    BY AppAssumption
  <2>2. CASE Stat(r) BY <2>2, ViaMove DEF Stat
  <2>3. CASE Lock(r) BY <2>3, ViaMove DEF Lock
  <2>4. CASE Setup(r) BY <2>4, ViaMove, ViaAnswer DEF Setup
  <2>5. CASE DispatchVM(r)
    <3> DEFINE c == <<WorkerOf[r], "vm">>
               t == <<WorkerOf[r], "table">>
               x == [Refreshed(c) EXCEPT !.web = r]
               y == [Refreshed(t) EXCEPT !.web = r, !.wrote = {}]
    <3>1. /\ c \in CopyIds /\ c[1] = WorkerOf[r]
          /\ t \in CopyIds /\ t[1] = WorkerOf[r]
      BY <2>1 DEF CopyIds
    <3>2. /\ at[r] # "idle" /\ at' = [at EXCEPT ![r] = "before"] /\ UNCHANGED <<env, running>>
          /\ via' = [via EXCEPT ![r] = IF env.fiber THEN Own ELSE t]
          /\ copies' = [copies EXCEPT ![c] = x, ![t] = IF env.fiber THEN @ ELSE y]
          /\ c # t
      BY <2>5 DEF DispatchVM, Own
    <3>3. y.web = r /\ y.wrote = {}
      <4>1. Refreshed(t) \in [gen : Nat, ver : Nat, web : Requests \cup {None},
                              wrote : SUBSET Requests]
        BY <3>1 DEF Refreshed, TypeOK
      <4> HIDE DEF t
      <4> QED BY <4>1
    <3> HIDE DEF c, t, x, y
    <3>4. \A d \in CopyIds : d[1] # WorkerOf[r] => copies'[d] = copies[d]
      BY <3>1, <3>2 DEF TypeOK
    <3>5. \/ via' = [via EXCEPT ![r] = Own]
          \/ /\ ~env.fiber /\ via' = [via EXCEPT ![r] = t]
             /\ copies'[t].web = r /\ copies'[t].wrote = {}
      BY <3>1, <3>2, <3>3 DEF TypeOK
    <3> QED BY <3>1, <3>2, <3>4, <3>5, ViaTaken
  <2>6. CASE DispatchInterp(r)
    <3> DEFINE c == <<WorkerOf[r], "interp">>
    <3>1. c \in CopyIds /\ c[1] = WorkerOf[r] BY <2>1 DEF CopyIds
    <3>2. PICK p \in {"relock", "interp"} : at' = [at EXCEPT ![r] = p]
      BY <2>6 DEF DispatchInterp
    <3>3. at[r] # "idle" /\ UNCHANGED <<env, running>> /\ TakeCopy(r, c)
      BY <2>6 DEF DispatchInterp
    <3>4. Refreshed(c) \in [gen : Nat, ver : Nat, web : Requests \cup {None},
                            wrote : SUBSET Requests]
      BY <3>1 DEF Refreshed, TypeOK
    <3> HIDE DEF c
    <3>5. \A d \in CopyIds : d[1] # WorkerOf[r] => copies'[d] = copies[d]
      BY <3>1, <3>3 DEF TakeCopy, TypeOK
    <3>6. \/ via' = [via EXCEPT ![r] = Own]
          \/ /\ ~env.fiber /\ via' = [via EXCEPT ![r] = c]
             /\ copies'[c].web = r /\ copies'[c].wrote = {}
      <4>1. CASE env.fiber BY <3>3, <4>1 DEF TakeCopy, Own
      <4>2. CASE ~env.fiber
        <5> DEFINE t == [Refreshed(c) EXCEPT !.web = r, !.wrote = {}]
        <5>1. t.web = r /\ t.wrote = {} BY <3>4
        <5>2. via' = [via EXCEPT ![r] = c] /\ copies' = [copies EXCEPT ![c] = t]
          BY <3>3, <4>2 DEF TakeCopy
        <5>3. copies \in [CopyIds -> [gen : Nat, ver : Nat, web : Requests \cup {None},
                                     wrote : SUBSET Requests]]
          BY DEF TypeOK
        <5> HIDE DEF t
        <5>4. copies'[c] = t BY <3>1, <5>2, <5>3
        <5> QED BY <4>2, <5>1, <5>2, <5>4
      <4> QED BY <4>1, <4>2
    <3> QED BY <3>1, <3>2, <3>3, <3>5, <3>6, ViaTaken
  <2>7. CASE RunDirect(r) BY <2>7, ViaMove DEF RunDirect
  <2>8. CASE Fallback(r)
    <3> DEFINE c == <<WorkerOf[r], "vm">>
    <3>1. c \in CopyIds /\ c[1] = WorkerOf[r] BY <2>1 DEF CopyIds
    <3>2. at[r] # "idle" /\ UNCHANGED <<env, running>> /\ at' = [at EXCEPT ![r] = "interp"]
      BY <2>8 DEF Fallback
    <3>3. \/ via' = [via EXCEPT ![r] = Own] /\ UNCHANGED copies
          \/ /\ ~env.fiber /\ via' = [via EXCEPT ![r] = c]
             /\ copies' = [copies EXCEPT ![c].web = r, ![c].wrote = {}]
      BY <2>8 DEF Fallback, Own
    <3>4. copies[c] \in [gen : Nat, ver : Nat, web : Requests \cup {None},
                         wrote : SUBSET Requests]
      BY <3>1 DEF TypeOK
    <3> HIDE DEF c
    <3>5. \A d \in CopyIds : d[1] # WorkerOf[r] => copies'[d] = copies[d]
      BY <3>1, <3>3 DEF TypeOK
    <3>6. \/ via' = [via EXCEPT ![r] = Own]
          \/ /\ ~env.fiber /\ via' = [via EXCEPT ![r] = c]
             /\ copies'[c].web = r /\ copies'[c].wrote = {}
      BY <3>1, <3>3, <3>4 DEF TypeOK
    <3> QED BY <3>1, <3>2, <3>5, <3>6, ViaTaken
  <2>9. CASE BeforeEnds(r) BY <2>9, ViaMove, ViaAnswer DEF BeforeEnds
  <2>10. CASE InterpBefore(r) BY <2>10, ViaMove, ViaAnswer DEF InterpBefore
  <2>11. CASE HandlerEnds(r) BY <2>11, ViaAnswer DEF HandlerEnds
  <2>12. CASE DirectEnds(r) BY <2>12, ViaAnswer DEF DirectEnds
  <2>13. CASE \E o \in Outcomes : RouteEnds(r, o)
    BY <2>13, ViaAnswer DEF RouteEnds
  <2> QED BY <1>3, <2>2, <2>3, <2>4, <2>5, <2>6, <2>7, <2>8, <2>9, <2>10, <2>11, <2>12,
             <2>13 DEF Step
<1>4. ASSUME NEW r \in Requests, Suspend(r) \/ Resume(r) PROVE AllViaInv'
  <2>1. env.fiber
    <3>1. CASE Suspend(r) BY <3>1 DEF Suspend
    <3>2. CASE Resume(r)
      <4>1. ViaInv(r) BY DEF AllViaInv
      <4> QED BY <3>2, <4>1, AppAssumption DEF Resume, ViaInv, UserCode
    <3> QED BY <1>4, <3>1, <3>2
  <2> QED BY <1>4, <2>1 DEF Suspend, Resume, AllViaInv, ViaInv
<1>5. ASSUME UNCHANGED <<env, via, at, copies, running>> PROVE AllViaInv'
  BY <1>5 DEF AllViaInv, ViaInv
<1> QED BY <1>1, <1>2, <1>3, <1>4, <1>5 DEF Next, Edit, vars

\* request::, response:: and session:: of a request work on that request, and
\* it sees no global another request has assigned, on every path and for any
\* interleaving of the fibers of a worker.
THEOREM ContextIsOwn == Spec => []OwnContext
<1>1. Init => AllViaInv
  <2> SUFFICES ASSUME Init, NEW r \in Requests PROVE ViaInv(r)
    BY DEF AllViaInv
  <2>1. via[r] = Own /\ at[r] = "idle" BY DEF Init, Own
  <2> QED BY <2>1, OwnIsNoCopy DEF ViaInv
<1>2. AllViaInv => OwnContext BY DEF AllViaInv, ViaInv, OwnContext
<1> QED BY <1>1, <1>2, AppTypeCorrect, ViaStep, PTL DEF Spec

=============================================================================
