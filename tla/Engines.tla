------------------------------ MODULE Engines ------------------------------
(***************************************************************************)
(* The two engines of LOOK on the statements that move control: the tree-  *)
(* walking interpreter (interpreter.cpp, the reference semantics) and the  *)
(* compiler with its register machine (compiler.cpp, vm.cpp).              *)
(*                                                                         *)
(* A program is a syntax tree.  Exec evaluates it the way                  *)
(* Interpreter::execute_statement does; CompStmt translates it the way     *)
(* FunctionCompiler::compile_stmt does, and the state machine of this      *)
(* module is VM::run on that code, one action per kind of instruction.     *)
(* When the machine stops, its output and its way of ending are compared   *)
(* with the interpreter's on the same program and the same inputs.         *)
(*                                                                         *)
(* Values are small numbers; a condition, or the subject of a switch, is   *)
(* an input of the program, chosen while the machine runs and replayed to  *)
(* the interpreter.  Kept: the order of every output, every jump, handler, *)
(* frame and register the statements use, and the scope of the variables   *)
(* they bind (caught values, items).  Left out: expressions, other         *)
(* variables, parameters, closures' captures, recursion and its limits     *)
(* (256 frames in one engine, 500 in the other).                           *)
(***************************************************************************)
EXTENDS Integers, Sequences, SequencesExt

CONSTANTS
    Programs,     \* set of programs: [main |-> block, f |-> block]
    MaxInputs     \* inputs that may be TRUE; every later one is FALSE

ASSUME InputBound == MaxInputs \in Nat

(***************************************************************************)
(* Statements.  A block is a sequence of statements; NoBlock stands for an *)
(* absent catch or finally.                                                *)
(***************************************************************************)
NoBlock == <<[k |-> "none"]>>

Null == 0            \* the null value
Failure == 5         \* the message of an error raised by C++ code
PostMark == 6        \* what the post expression of a for prints
Items == <<11, 12>>  \* the array a foreach goes through
Commit == 7          \* db::transaction committed
Rollback == 8        \* db::transaction rolled back

Say(v)          == [k |-> "print", v |-> v]     \* print a constant
SayVar(n)       == [k |-> "var", n |-> n]       \* print a catch or foreach variable
Throw(v)        == [k |-> "throw", v |-> v]
Fail            == [k |-> "fail"]               \* e.g. a division by zero
Return(v)       == [k |-> "return", v |-> v]
Break           == [k |-> "break"]
Continue        == [k |-> "continue"]
Call            == [k |-> "call"]               \* print(f())
Transaction     == [k |-> "transaction"]        \* print(db::transaction(f))
If(a)           == [k |-> "if", a |-> a]
While(a)        == [k |-> "while", a |-> a]
For(a)          == [k |-> "for", a |-> a]
Foreach(n, a)   == [k |-> "foreach", n |-> n, a |-> a]
Switch(a, b)    == [k |-> "switch", a |-> a, b |-> b]   \* one case, a default
Try(a, n, b, c) == [k |-> "try", a |-> a, n |-> n, b |-> b, c |-> c]  \* try a catch ($n) b finally c

-----------------------------------------------------------------------------
(***************************************************************************)
(* The interpreter.  A run of it is a record: the output so far, the       *)
(* inputs not read yet, the C++ exception that is under way, if any, and   *)
(* the chain of Environments from the outermost to current_, each with the *)
(* variables defined in it.  Break, continue and return are exceptions     *)
(* too.                                                                    *)
(***************************************************************************)
Normal == <<"normal">>

Going(x) == x.sig = Normal

Out(x, v) == [x EXCEPT !.out = Append(@, v)]

Raise(x, sig) == [x EXCEPT !.sig = sig]

NextInput(x) == x.ins # <<>> /\ Head(x.ins)

Read(x) == [x EXCEPT !.ins = IF @ = <<>> THEN @ ELSE Tail(@)]

(* Environment: a new scope, its end, define() in current_ and get(), which
   asks the scopes from the inside out. *)
NoVars == [n \in {} |-> Null]
Push(x) == [x EXCEPT !.env = Append(@, NoVars)]
Pop(x) == [x EXCEPT !.env = Front(@)]
Define(x, n, v) == [x EXCEPT !.env[Len(x.env)] = (n :> v) @@ @]
Get(x, n) == x.env[SelectLastInSeq(x.env, LAMBDA scope : n \in DOMAIN scope)][n]

RECURSIVE ExecStmts(_, _, _), Exec(_, _, _), Loop(_, _, _), Each(_, _, _, _)

(* The statements in order, in current_, until one raises. *)
ExecStmts(f, b, x) ==
    IF b = <<>> \/ ~Going(x) THEN x
    ELSE ExecStmts(f, Tail(b), Exec(f, Head(b), x))

(* execute_block: in a scope of its own. *)
ExecBlock(f, b, x) == Pop(ExecStmts(f, b, Push(x)))

(* while and for: BreakException ends the loop, ContinueException the turn;
   a for evaluates its post expression after either end of a turn. *)
Loop(f, s, x) ==
    LET turn  == ExecBlock(f, s.a, Read(x))
        after == Raise(turn, Normal)
    IN  IF ~NextInput(x) THEN Read(x)
        ELSE CASE turn.sig = <<"break">> -> after
               [] turn.sig[1] \in {"normal", "continue"} ->
                     Loop(f, s, IF s.k = "for" THEN Out(after, PostMark) ELSE after)
               [] OTHER                  -> turn

(* foreach: a turn for each item from number i on, in a scope that holds it. *)
Each(f, s, x, i) ==
    LET turn  == Pop(ExecStmts(f, s.a, Define(Push(x), s.n, Items[i])))
        after == Raise(turn, Normal)
    IN  IF i > Len(Items) THEN x
        ELSE CASE turn.sig = <<"break">> -> after
               [] turn.sig[1] \in {"normal", "continue"} -> Each(f, s, after, i + 1)
               [] OTHER                  -> turn

(* The finally block runs once the try or the catch has ended as x; what
   ended it goes on afterwards unless the finally raises itself. *)
Finally(f, s, x) ==
    LET y == ExecBlock(f, s.c, Raise(x, Normal))
    IN  IF s.c = NoBlock THEN x
        ELSE IF Going(y) THEN Raise(y, x.sig) ELSE y

(* A value thrown goes to the catch block; a throw out of the catch block
   leaves the statement at once, every other end runs the finally.  The
   catch variable is defined in the scope the try statement stands in. *)
ExecTry(f, s, x) ==
    LET t == ExecBlock(f, s.a, x)
        k == ExecBlock(f, s.b, Define(Raise(t, Normal), s.n, t.sig[2]))
    IN  IF t.sig[1] = "throw" /\ s.b # NoBlock
        THEN IF k.sig[1] = "throw" THEN k ELSE Finally(f, s, k)
        ELSE Finally(f, s, t)

(* call_function: scopes of its own; ReturnException is the result, falling
   off the end null. *)
CallFunction(f, x) ==
    LET y == [ExecBlock(f, f, [x EXCEPT !.env = <<NoVars>>]) EXCEPT !.env = x.env]
    IN  IF Going(y) THEN Raise(y, <<"return", Null>>) ELSE y

(* The result of a call is printed; db::transaction commits before that, or
   rolls back and lets the exception go on. *)
ExecCall(f, tx, x) ==
    LET y == CallFunction(f, x)
        z == IF tx THEN Out(y, IF y.sig[1] = "return" THEN Commit ELSE Rollback) ELSE y
    IN  IF y.sig[1] = "return" THEN Raise(Out(z, y.sig[2]), Normal) ELSE z

ExecSwitch(f, s, x) ==
    LET y == ExecBlock(f, IF NextInput(x) THEN s.a ELSE s.b, Read(x))
    IN  IF y.sig = <<"break">> THEN Raise(y, Normal) ELSE y

Exec(f, s, x) ==
    CASE s.k = "print"       -> Out(x, s.v)
      [] s.k = "var"         -> Out(x, Get(x, s.n))
      [] s.k = "throw"       -> Raise(x, <<"throw", s.v>>)
      [] s.k = "fail"        -> Raise(x, <<"throw", Failure>>)
      [] s.k = "return"      -> Raise(x, <<"return", s.v>>)
      [] s.k \in {"break", "continue"} -> Raise(x, <<s.k>>)
      [] s.k = "if"          -> IF NextInput(x) THEN ExecBlock(f, s.a, Read(x)) ELSE Read(x)
      [] s.k \in {"while", "for"} -> Loop(f, s, x)
      [] s.k = "foreach"     -> Each(f, s, x, 1)
      [] s.k = "switch"      -> ExecSwitch(f, s, x)
      [] s.k = "try"         -> ExecTry(f, s, x)
      [] s.k \in {"call", "transaction"} -> ExecCall(f, s.k = "transaction", x)

(* What the interpreter makes of program p on the given inputs. *)
Interpreted(p, inputs) ==
    ExecStmts(p.f, p.main, [out |-> <<>>, ins |-> inputs, sig |-> Normal, env |-> <<NoVars>>])

-----------------------------------------------------------------------------
(***************************************************************************)
(* The compiler.  A context c holds what FunctionCompiler keeps while it   *)
(* walks the tree: loop_stack_ (each entry with the address that names its *)
(* labels, whether it is a switch and its finally_floor), pending_finally_,*)
(* the registers of the catch and foreach variables in scope and the first *)
(* register not in use, which stands for whichever free one the allocator  *)
(* hands out.                                                              *)
(* `at' is current_ip().  A jump names a label; a label stands for the     *)
(* list of jumps patched once its place is known and takes a slot of its   *)
(* own in the code, which does nothing.                                    *)
(***************************************************************************)
Label(l) == <<"LABEL", l>>
Jump(l)  == <<"JUMP", l>>

RECURSIVE CompBlock(_, _, _), CompStmt(_, _, _), CompFinallys(_, _, _)

CompBlock(b, c, at) ==
    IF b = <<>> THEN <<>>
    ELSE LET h == CompStmt(Head(b), c, at)
         IN  h \o CompBlock(Tail(b), c, at + Len(h))

CompOptional(b, c, at) == IF b = NoBlock THEN <<>> ELSE CompBlock(b, c, at)

(* The blocks fins, innermost (last) first. *)
CompFinallys(fins, c, at) ==
    IF fins = <<>> THEN <<>>
    ELSE LET h == CompOptional(Last(fins), c, at)
         IN  h \o CompFinallys(Front(fins), c, at + Len(h))

\* Variant: outermost first.
EmitOutermostFirst(floor, c, at) ==
    CompFinallys(Reverse(SubSeq(c.pending, floor + 1, Len(c.pending))),
                 [c EXCEPT !.pending = SubSeq(@, 1, floor)], at)

(* emit_pending_finallys: everything pending above the floor is emitted
   here, innermost first, with the list cut down to the floor meanwhile. *)
EmitPendingFinallys(floor, c, at) ==
    CompFinallys(SubSeq(c.pending, floor + 1, Len(c.pending)),
                 [c EXCEPT !.pending = SubSeq(@, 1, floor)], at)

(* break leaves the nearest loop or switch, continue goes on with the
   nearest loop; both first run the finally blocks pending inside it. *)
CompJumpOut(label, target, c, at) ==
    EmitPendingFinallys(target.floor, c, at) \o <<Jump(<<label, target.at>>)>>

NearestLoop(c) == c.loops[SelectLastInSeq(c.loops, LAMBDA l : ~l.switch)]

(* The register of the value stays allocated while the finallys run. *)
CompReturn(s, c, at) ==
    <<<<"LOAD", c.regs, s.v>>>>
    \o EmitPendingFinallys(0, [c EXCEPT !.regs = @ + 1], at + 1)
    \o <<<<"RETURN", c.regs>>>>

(* The context of a loop's body or of a switch's cases. *)
Enter(c, at, switch) ==
    [c EXCEPT !.loops = Append(@, [at |-> at, switch |-> switch, floor |-> Len(c.pending)])]

CompIf(s, c, at) ==
    <<<<"UNLESS", <<"else", at>>>>>> \o CompBlock(s.a, c, at + 1) \o <<Label(<<"else", at>>)>>

(* continue goes to the condition of a while, to the post expression of a
   for; the end of a turn falls through to the same place. *)
CompLoop(s, c, at) ==
    LET head == <<Label(<<"start", at>>), <<"UNLESS", <<"after", at>>>>>>
        body == CompBlock(s.a, Enter(c, at, FALSE), at + 2)
        post == IF s.k = "for" THEN <<<<"SAY", PostMark>>>> ELSE <<>>
    IN  head \o body \o <<Label(<<"next", at>>)>> \o post
        \o <<Jump(<<"start", at>>), Label(<<"after", at>>)>>

(* The array is evaluated into a register of its own; the iterator takes the
   four behind it: the array, the index, the item and the key.  continue goes
   to the step. *)
CompForeach(s, c, at) ==
    LET iter == c.regs + 1
        in   == [Enter(c, at, FALSE) EXCEPT !.regs = iter + 4, !.vars = (s.n :> (iter + 2)) @@ @]
    IN  <<<<"FOR_PREP", iter>>, Label(<<"next", at>>), <<"FOR_STEP", <<"after", at>>, iter>>>>
        \o CompBlock(s.a, in, at + 3)
        \o <<Jump(<<"next", at>>), Label(<<"after", at>>)>>

(* The case, then the default; each ends with a jump behind the switch. *)
CompSwitch(s, c, at) ==
    LET in   == Enter(c, at, TRUE)
        case == CompBlock(s.a, in, at + 1)
        rest == CompBlock(s.b, in, at + Len(case) + 3)
    IN  <<<<"UNLESS", <<"default", at>>>>>> \o case
        \o <<Jump(<<"after", at>>), Label(<<"default", at>>)>> \o rest
        \o <<Jump(<<"after", at>>), Label(<<"after", at>>)>>

(* With a catch block the two ways meet before the finally; without one the
   handler keeps the exception, runs a copy of the finally and throws it
   again.  The catch variable is in scope in the catch block only. *)
CompTry(s, c, at) ==
    LET in   == IF s.c = NoBlock THEN c ELSE [c EXCEPT !.pending = Append(@, s.c)]
        body == <<<<"TRY_PUSH", <<"catch", at>>>>>> \o CompBlock(s.a, in, at + 1)
                \o <<<<"TRY_POP">>, Jump(<<"end", at>>), Label(<<"catch", at>>),
                     <<"LOAD_EXC", c.regs>>>>
        k    == at + Len(body)
        handler == IF s.b # NoBlock
                   THEN CompBlock(s.b, [in EXCEPT !.regs = @ + 1, !.vars = (s.n :> c.regs) @@ @], k)
                   ELSE CompOptional(s.c, [c EXCEPT !.regs = @ + 1], k) \o <<<<"THROW", c.regs>>>>
    IN  body \o handler \o <<Label(<<"end", at>>)>>
        \o CompOptional(s.c, c, k + Len(handler) + 1)

CompStmt(s, c, at) ==
    CASE s.k = "print"       -> <<<<"SAY", s.v>>>>
      [] s.k = "var"         -> <<<<"SAY_REG", c.vars[s.n]>>>>
      [] s.k = "throw"       -> <<<<"LOAD", c.regs, s.v>>, <<"THROW", c.regs>>>>
      [] s.k = "fail"        -> <<<<"FAIL">>>>
      [] s.k = "return"      -> CompReturn(s, c, at)
      [] s.k = "break"       -> CompJumpOut("after", Last(c.loops), c, at)
      [] s.k = "continue"    -> CompJumpOut("next", NearestLoop(c), c, at)
      [] s.k = "if"          -> CompIf(s, c, at)
      [] s.k \in {"while", "for"} -> CompLoop(s, c, at)
      [] s.k = "foreach"     -> CompForeach(s, c, at)
      [] s.k = "switch"      -> CompSwitch(s, c, at)
      [] s.k = "try"         -> CompTry(s, c, at)
      [] s.k = "call"        -> <<<<"CALL", c.regs>>, <<"SAY_REG", c.regs>>>>
      [] s.k = "transaction" -> <<<<"TRANSACTION", c.regs>>, <<"SAY_REG", c.regs>>>>

(* The jumps patched: a label replaced by the address it stands at. *)
Patch(code) ==
    [i \in 1..Len(code) |->
        IF code[i][1] \in {"JUMP", "UNLESS", "TRY_PUSH", "FOR_STEP"}
        THEN [code[i] EXCEPT ![2] = SelectInSeq(code, LAMBDA ins : ins = Label(code[i][2]))]
        ELSE code[i]]

(* The code of a function; RETURN_NULL closes it. *)
Compile(b) ==
    LET c == [loops |-> <<>>, pending |-> <<>>, regs |-> 1, vars |-> NoVars]
    IN  Patch(CompBlock(b, c, 1) \o <<<<"RETURN_NULL">>>>)

-----------------------------------------------------------------------------
(***************************************************************************)
(* Which programs.  break and continue need a loop or a switch around them *)
(* or the program is not compiled.  JumpsOf collects the jumps that leave  *)
(* a block; a program is Contained when none leaves the try part or the    *)
(* finally part of a try statement (leaving a catch block is allowed).  It *)
(* is Distinct when no try statement in a catch block has that block's own *)
(* variable for its catch variable.                                        *)
(***************************************************************************)
RECURSIVE JumpsOf(_), ContainedBlock(_), DistinctBlock(_)

JumpsOf(b) ==
    UNION {LET s == b[i] IN
           CASE s.k \in {"return", "break", "continue"} -> {s.k}
             [] s.k = "if"                -> JumpsOf(s.a)
             [] s.k \in {"while", "for", "foreach"} -> JumpsOf(s.a) \ {"break", "continue"}
             [] s.k = "switch"            -> (JumpsOf(s.a) \cup JumpsOf(s.b)) \ {"break"}
             [] s.k = "try"               -> JumpsOf(s.a) \cup JumpsOf(s.b) \cup JumpsOf(s.c)
             [] OTHER                     -> {} : i \in DOMAIN b}

ContainedBlock(b) ==
    \A i \in DOMAIN b :
        LET s == b[i] IN
        /\ s.k \in {"if", "while", "for", "foreach", "switch", "try"} => ContainedBlock(s.a)
        /\ s.k \in {"switch", "try"} => ContainedBlock(s.b)
        /\ s.k = "try" => ContainedBlock(s.c) /\ JumpsOf(s.a) = {} /\ JumpsOf(s.c) = {}

DistinctBlock(b) ==
    \A i \in DOMAIN b :
        LET s == b[i] IN
        /\ s.k \in {"if", "while", "for", "foreach", "switch", "try"} => DistinctBlock(s.a)
        /\ s.k \in {"switch", "try"} => DistinctBlock(s.b)
        /\ s.k = "try" =>
              /\ DistinctBlock(s.c)
              /\ \A j \in DOMAIN s.b :
                    s.b[j].k = "try" /\ s.b[j].b # NoBlock => s.b[j].n # s.n

Compilable(p) == JumpsOf(p.main) = {} /\ JumpsOf(p.f) \subseteq {"return"}

Contained(p) == ContainedBlock(p.main) /\ ContainedBlock(p.f)

-----------------------------------------------------------------------------
(***************************************************************************)
(* The machine: VM::run.                                                   *)
(***************************************************************************)
VARIABLES
    prog,      \* the program and the code of its two functions
    frames,    \* call_stack_: function, next instruction, registers, return register
    handlers,  \* try_stack_: catch address and frame depth
    floors,    \* one try_floor_ per run() on the C++ stack, the innermost last
    exc,       \* current_exception_
    flying,    \* a thrown value that is crossing C++ code, or Null
    inputs,    \* the inputs read so far
    out,       \* the output so far
    ended      \* "no", "returned" or "uncaught"

vars == <<prog, frames, handlers, floors, exc, flying, inputs, out, ended>>

Frame(fn, ret) == [fn |-> fn, ip |-> 1, regs |-> <<>>, ret |-> ret]

Init ==
    /\ \E p \in Programs :
          /\ Compilable(p)
          /\ prog = [src |-> p, main |-> Compile(p.main), f |-> Compile(p.f)]
    /\ frames = <<Frame("main", 0)>>
    /\ handlers = <<>>
    /\ floors = <<0>>
    /\ exc = Null /\ flying = Null
    /\ inputs = <<>> /\ out = <<>>
    /\ ended = "no"

Top == Len(frames)
Cur == frames[Top]

(* Behind the last instruction run() returns null by itself. *)
Ins == IF Cur.ip \in DOMAIN prog[Cur.fn] THEN prog[Cur.fn][Cur.ip] ELSE <<"RETURN_NULL">>

(* The machine fetches an instruction of kind op. *)
At(op) ==
    /\ ended = "no" /\ flying = Null
    /\ Ins[1] = op

(* A register never written holds null. *)
Reg(r) == IF r \in DOMAIN Cur.regs THEN Cur.regs[r] ELSE Null

SetReg(fr, r, v) ==
    [fr EXCEPT !.regs = [i \in DOMAIN @ \cup {r} |-> IF i = r THEN v ELSE @[i]]]

GoTo(ip) == frames' = [frames EXCEPT ![Top].ip = ip]
Step == GoTo(Cur.ip + 1)
StepSetting(r, v) == frames' = [frames EXCEPT ![Top] = [SetReg(@, r, v) EXCEPT !.ip = @ + 1]]

Load ==
    /\ At("LOAD") /\ StepSetting(Ins[2], Ins[3])
    /\ UNCHANGED <<prog, handlers, floors, exc, flying, inputs, out, ended>>

Output ==
    /\ \/ At("SAY") /\ out' = Append(out, Ins[2])
       \/ At("SAY_REG") /\ out' = Append(out, Reg(Ins[2]))
    /\ Step
    /\ UNCHANGED <<prog, handlers, floors, exc, flying, inputs, ended>>

Nop ==
    /\ At("LABEL") /\ Step
    /\ UNCHANGED <<prog, handlers, floors, exc, flying, inputs, out, ended>>

DoJump ==
    /\ At("JUMP") /\ GoTo(Ins[2])
    /\ UNCHANGED <<prog, handlers, floors, exc, flying, inputs, out, ended>>

(* A condition is evaluated and JUMP_IF_FALSE taken or not. *)
JumpIfFalse ==
    /\ At("UNLESS")
    /\ \E v \in BOOLEAN :
          /\ v => Len(inputs) < MaxInputs
          /\ inputs' = Append(inputs, v)
          /\ IF v THEN Step ELSE GoTo(Ins[2])
    /\ UNCHANGED <<prog, handlers, floors, exc, flying, out, ended>>

ForPrep ==
    /\ At("FOR_PREP") /\ StepSetting(Ins[2] + 1, 0)
    /\ UNCHANGED <<prog, handlers, floors, exc, flying, inputs, out, ended>>

ForStep ==
    LET r == Ins[3]
        i == Reg(r + 1) + 1
    IN  /\ At("FOR_STEP")
        /\ IF i > Len(Items) THEN GoTo(Ins[2])
           ELSE frames' = [frames EXCEPT ![Top] =
                    [SetReg(SetReg(@, r + 1, i), r + 2, Items[i]) EXCEPT !.ip = @ + 1]]
        /\ UNCHANGED <<prog, handlers, floors, exc, flying, inputs, out, ended>>

TryPush ==
    /\ At("TRY_PUSH") /\ Step
    /\ handlers' = Append(handlers, [ip |-> Ins[2], depth |-> Top])
    /\ UNCHANGED <<prog, floors, exc, flying, inputs, out, ended>>

TryPop ==
    /\ At("TRY_POP") /\ Step
    /\ handlers' = IF handlers = <<>> THEN handlers ELSE Front(handlers)
    /\ UNCHANGED <<prog, floors, exc, flying, inputs, out, ended>>

LoadExc ==
    /\ At("LOAD_EXC") /\ StepSetting(Ins[2], exc)
    /\ UNCHANGED <<prog, handlers, floors, exc, flying, inputs, out, ended>>

\* Variant: the handler stays on try_stack_.
HandleKept(v) ==
    LET h == Last(handlers)
        n == IF Top > h.depth THEN h.depth ELSE Top
    IN  /\ Len(handlers) > Last(floors)
        /\ frames' = [SubSeq(frames, 1, n) EXCEPT ![n].ip = h.ip]
        /\ exc' = v /\ flying' = Null
        /\ UNCHANGED <<handlers, floors, out, ended>>

(* The innermost handler of this run(): the frames above its own are
   dropped and that frame goes on at the catch address. *)
Handle(v) ==
    LET h == Last(handlers)
        n == IF Top > h.depth THEN h.depth ELSE Top
    IN  /\ Len(handlers) > Last(floors)
        /\ handlers' = Front(handlers)
        /\ frames' = [SubSeq(frames, 1, n) EXCEPT ![n].ip = h.ip]
        /\ exc' = v /\ flying' = Null
        /\ UNCHANGED <<floors, out, ended>>

(* No handler above the floor: the value leaves run() as a C++ exception.
   FloorGuard restores the outer floor; db::transaction, between the two
   run()s, rolls back; the outer run() takes the value up. *)
Escape(v) ==
    /\ Len(handlers) <= Last(floors)
    /\ exc' = v
    /\ IF Len(floors) = 1
       THEN /\ ended' = "uncaught" /\ flying' = Null
            /\ UNCHANGED <<floors, out>>
       ELSE /\ floors' = Front(floors)
            /\ out' = Append(out, Rollback)
            /\ flying' = v
            /\ UNCHANGED ended
    /\ UNCHANGED <<handlers, frames>>

DoThrow ==
    /\ At("THROW")
    /\ Handle(Reg(Ins[2])) \/ Escape(Reg(Ins[2]))
    /\ UNCHANGED <<prog, inputs>>

(* An operator or built-in throws a C++ exception inside run(). *)
DoFail ==
    /\ At("FAIL")
    /\ Handle(Failure) \/ Escape(Failure)
    /\ UNCHANGED <<prog, inputs>>

(* The catch clauses of the outer run(). *)
Bridge ==
    /\ ended = "no" /\ flying # Null
    /\ Handle(flying) \/ Escape(flying)
    /\ UNCHANGED <<prog, inputs>>

DoCall ==
    /\ At("CALL")
    /\ frames' = Append([frames EXCEPT ![Top].ip = @ + 1], Frame("f", Ins[2]))
    /\ UNCHANGED <<prog, handlers, floors, exc, flying, inputs, out, ended>>

(* db::transaction calls its function through call_closure: a run() of its
   own, whose floor is the handler stack as it stands. *)
CallClosure ==
    /\ At("TRANSACTION")
    /\ frames' = Append([frames EXCEPT ![Top].ip = @ + 1], Frame("f", 0))
    /\ floors' = Append(floors, Len(handlers))
    /\ UNCHANGED <<prog, handlers, exc, flying, inputs, out, ended>>

(* The frame is dropped; its handlers are not.  A frame entered by CALL hands
   its result to the caller's register; any other ends its run(), whose
   FloorGuard drops the handlers left above the floor. *)
ReturnValue(v) ==
    IF Cur.ret # 0
    THEN /\ frames' = [Front(frames) EXCEPT ![Top - 1] = SetReg(@, Cur.ret, v)]
         /\ UNCHANGED <<handlers, floors, out, ended>>
    ELSE /\ handlers' = SubSeq(handlers, 1, Last(floors))
         /\ IF Len(floors) = 1
            THEN ended' = "returned" /\ frames' = <<>> /\ UNCHANGED <<floors, out>>
            ELSE /\ floors' = Front(floors)
                 /\ out' = Append(out, Commit)
                 /\ frames' = [Front(frames) EXCEPT ![Top - 1] =
                                  SetReg(@, prog[@.fn][@.ip - 1][2], v)]
                 /\ UNCHANGED ended

DoReturn ==
    /\ \/ At("RETURN") /\ ReturnValue(Reg(Ins[2]))
       \/ At("RETURN_NULL") /\ ReturnValue(Null)
    /\ UNCHANGED <<prog, exc, flying, inputs>>

Stopped == ended # "no" /\ UNCHANGED vars

Next ==
    \/ Load \/ Output \/ Nop \/ DoJump \/ JumpIfFalse \/ ForPrep \/ ForStep
    \/ TryPush \/ TryPop \/ LoadExc \/ DoThrow \/ DoFail \/ Bridge
    \/ DoCall \/ CallClosure \/ DoReturn \/ Stopped

Spec == Init /\ [][Next]_vars

-----------------------------------------------------------------------------
(* Both engines print the same and end the same way (README.md:279 and
   cpp/tests/differential_test.sh:2): whatever the machine has printed when
   it stops is what the interpreter prints on the same inputs, and an
   exception is uncaught in both or in neither.  *)
EnginesAgree ==
    ended # "no" =>
        LET x == Interpreted(prog.src, inputs)
        IN  /\ out = x.out
            /\ (ended = "uncaught") = (x.sig[1] = "throw")
            /\ ended = "uncaught" => exc = x.sig[2]

(* A handler is that of a try statement being executed: its frame is still
   on the call stack and is between the TRY_PUSH that pushed it and the
   TRY_POP that will take it off, two places before the catch address.
   Handlers nest as frames and try parts do (the catch address of an inner
   try is below that of the outer one), and a floor is never above the
   stack: what a THROW finds on top of try_stack_ is the innermost try part
   the program is in. *)
InTryPart(h, fr) ==
    \E push \in 1 .. fr.ip - 1 :
        /\ prog[fr.fn][push] = <<"TRY_PUSH", h.ip>>
        /\ fr.ip <= h.ip - 2

HandlersLive ==
    /\ \A i \in DOMAIN handlers :
          /\ handlers[i].depth <= Top
          /\ InTryPart(handlers[i], frames[handlers[i].depth])
    /\ \A i \in 2 .. Len(handlers) :
          LET outer == handlers[i - 1]
              inner == handlers[i]
          IN  \/ outer.depth < inner.depth
              \/ outer.depth = inner.depth /\ inner.ip < outer.ip
    /\ \A i \in DOMAIN floors : floors[i] <= Len(handlers)
=============================================================================
