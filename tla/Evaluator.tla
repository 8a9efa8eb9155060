------------------------------ MODULE Evaluator ------------------------------
(* eval_frame of seval.c with the special forms of slang.c and the          *)
(* primitives of slib.c that evaluate, on the shadow stack.  The stack is   *)
(* a sequence that grows at its end: a frame pointer is the length of the   *)
(* stack, the slots above it (in the code) are the last ones.  The C stack  *)
(* is acts: the C functions that wait for an eval_frame to return, the      *)
(* innermost last, each with the place where it resumes, its frame pointer  *)
(* and the C locals that it reads then.                                     *)
EXTENDS Terms

CONSTANTS
  Programs,        \* [text: the expressions of the file that main runs,
                   \*  input: the lines that (read) is given]
  Files,           \* what sparse_do_file makes of the files, by name
  Expressions      \* the objects in them, with all their parts

\* What bison makes of a text: at least one expression, made of atoms and of
\* pairs.  (A malformed line is Error; vectors written in a text are left out.)
ASSUME TextAssumption ==
  LET S == Expressions
  IN  /\ \A v \in S :
           /\ v.t \in {"pair", "symbol", "fixnum", "string", "boolean", "nil"}
           /\ v.t = "pair" => /\ v.items \in Seq(S) \ {<<>>}
                              /\ v.end \in S /\ v.end.t # "pair"
           /\ v.t = "fixnum" => v.n \in Int
      /\ \A p \in Programs : /\ p.text \in Seq(S) \ {<<>>}
                             /\ p.input \in Seq(Seq(S \cup {Error}))
      /\ \A name \in DOMAIN Files : Files[name] \in Seq(S) \ {<<>>}

VARIABLES
  program,
  stack, acts,
  locals,          \* the C locals of the eval_frame that runs
  pc, val,         \* the place in the code; what the last C call returned
  envs,            \* the environments: outer (0 for nil) and table
  jmp,             \* econt->env: how deep the lib_call_ec lies, 0 for NULL
  store,           \* the vectors and hash tables
  input, output

machine == <<stack, acts, locals, pc, val>>
world == <<envs, jmp, store, input, output>>
vars == <<program, machine, world>>

Null == [t |-> "null"]
NoLocals == [orig |-> 0, argc |-> 0, i |-> 0, proc |-> Null, evals |-> 0, held |-> <<>>]

-----------------------------------------------------------------------------
\* Frames: the arguments, the previous frame pointer, the environment.
Fp(n) == [t |-> "frame", fp |-> n]
frame_env(s) == s[Len(s)]
frame_prev(s) == s[Len(s) - 1].fp
frame_ref(s, i) == s[Len(s) - 2 - i]

\* frame_extend(s, 1, FR_SAVE_PREV | FR_CONTINUE_ENV) with x in its slot.
Frame(s, x) == s \o <<x, Fp(Len(s)), frame_env(s)>>
SetSlot(s, x) == [s EXCEPT ![Len(s) - 2] = x]
Down(n) == SubSeq(stack, 1, n)

X == frame_ref(stack, 0)
Env == frame_env(stack).id

-----------------------------------------------------------------------------
\* How a C function goes on: the process exits; it returns v; a primitive
\* returns v; eval_frame goes to tailcall with x in its frame s; or it calls
\* eval_frame on the frame at the end of s, to resume at `at' with the frame
\* pointer h and its locals.
Fatal == pc' = "fatal" /\ UNCHANGED <<stack, acts, locals, val>>
Ret(v) == pc' = "return" /\ val' = v /\ UNCHANGED <<stack, acts, locals>>

Result(v) ==
  CASE v = Error -> Fatal
    [] v = Undefined -> pc' = "lost" /\ UNCHANGED <<stack, acts, locals, val>>
    [] OTHER -> Ret(v)

TailCall(s, x) ==
  /\ stack' = SetSlot(s, x)
  /\ locals' = [NoLocals EXCEPT !.evals = locals.evals]
  /\ pc' = "eval"
  /\ UNCHANGED <<acts, val>>

Call(at, h, held, s) ==
  /\ acts' = Append(acts, [at |-> at, height |-> h,
                           locals |-> [locals EXCEPT !.held = held]])
  /\ stack' = s
  /\ locals' = NoLocals
  /\ pc' = "eval"
  /\ UNCHANGED val

\* The frame of main, and below it the one of execute_expr_list and that of
\* the first expression.
Init ==
  /\ program \in Programs
  /\ LET base == <<Null, Environ(1)>>
         prog_frame == Frame(Frame(base, Null), List(program.text, Nil))
     IN  /\ stack = Frame(prog_frame, Head(program.text))
         /\ acts = <<[at |-> "load", height |-> Len(prog_frame),
                      locals |-> [NoLocals EXCEPT !.held = <<List(program.text, Nil)>>]]>>
  /\ locals = NoLocals
  /\ pc = "eval" /\ val = Null
  /\ envs = <<[outer |-> 0, table |-> Prelude]>>
  /\ jmp = <<>> /\ store = <<>>
  /\ input = program.input /\ output = <<>>

-----------------------------------------------------------------------------
\* environ_lookup: the innermost environment from e on that binds x, 0 if
\* there is none.
Scope(e, x) ==
  LET from[i \in 0 .. e] ==
        IF i = 0 \/ x \in DOMAIN envs[i].table THEN i ELSE from[envs[i].outer]
  IN  from[e]

\* (The slip: set! writes where define does.)
InnermostScope(e, x) == e
ScopeOfSet(e, x) == Scope(e, x)

Bind(e, x, v) == envs' = [envs EXCEPT ![e].table = With(@, x, v)]

IsSyntax(v) == v.t \in {"specform", "macro"}

EvalSelf ==
  /\ pc = "eval"
  /\ X.t \in {"fixnum", "string", "proc", "closure", "vector", "boolean",
              "unspecified", "econt", "eof"}
  /\ Ret(X)
  /\ UNCHANGED <<program, world>>

\* "empty application", and the types that the switch has no case for.
EvalRefused ==
  /\ pc = "eval"
  /\ X.t \in {"nil", "environ", "dict", "specform", "macro"}
  /\ Fatal
  /\ UNCHANGED <<program, world>>

EvalSymbol ==
  /\ pc = "eval" /\ X.t = "symbol"
  /\ LET e == Scope(Env, X.name)
     IN  IF e = 0 \/ IsSyntax(envs[e].table[X.name]) THEN Fatal
         ELSE Ret(envs[e].table[X.name])
  /\ UNCHANGED <<program, world>>

-----------------------------------------------------------------------------
\* A pair: what its car names, if that is a special form or a macro.
Syntax ==
  IF Car(X).t = "symbol" /\ Scope(Env, Car(X).name) # 0
  THEN envs[Scope(Env, Car(X).name)].table[Car(X).name]
  ELSE Null

IsForm(f) == pc = "eval" /\ X.t = "pair" /\ Syntax = SpecForm(f)

\* The frame of a special form has the rest of the expression in its slot.
Expr == Cdr(X)
ExFrame == Frame(stack, Expr)
EvalFrameOf(h) == Down(h - 3)

LangIf ==
  /\ IsForm("if")
  /\ IF IsList(Expr) /\ Len(Items(Expr)) \in 2 .. 3
     THEN Call("if", Len(ExFrame),
               <<Cadr(Expr), IF Len(Expr.items) = 3 THEN Expr.items[3] ELSE Unspec>>,
               Frame(ExFrame, Car(Expr)))
     ELSE Fatal
  /\ UNCHANGED <<program, world>>

IfDone ==
  /\ pc = "if"
  /\ TailCall(EvalFrameOf(Len(stack)), locals.held[IF val # Bool(FALSE) THEN 1 ELSE 2])
  /\ UNCHANGED <<program, world>>

LangQuote ==
  /\ IsForm("quote")
  /\ IF Expr.t = "pair" /\ Cdr(Expr) = Nil THEN Ret(Car(Expr)) ELSE Fatal
  /\ UNCHANGED <<program, world>>

LangLambda ==
  /\ IsForm("lambda")
  /\ IF Expr.t = "pair" THEN Ret(Closure(Env, Car(Expr), Cdr(Expr))) ELSE Fatal
  /\ UNCHANGED <<program, world>>

LangLambdaSyntax ==
  /\ IsForm("lambda-syntax")
  /\ IF Expr.t = "pair" THEN Ret(Macro(Closure(Env, Car(Expr), Cdr(Expr)))) ELSE Fatal
  /\ UNCHANGED <<program, world>>

\* (define x e ...) and (set! x e ...) evaluate e before they look for x.
LangAssign(form) ==
  /\ IsForm(form)
  /\ Expr.t = "pair" /\ Car(Expr).t = "symbol"
  /\ IF HasCadr(Expr)
     THEN Call(form, Len(ExFrame), <<Car(Expr)>>, Frame(ExFrame, Cadr(Expr)))
     ELSE Fatal
  /\ UNCHANGED <<program, world>>

\* (define (x . formals) . body).  Another type in the place of a symbol is
\* given a hash all the same, by symbol_hash.
LangDefineProcedure ==
  /\ IsForm("define")
  /\ Expr.t = "pair" /\ Car(Expr).t = "pair"
  /\ LET first == Car(Expr)
     IN  IF Car(first).t = "symbol"
         THEN /\ Bind(Env, Car(first).name, Closure(Env, Cdr(first), Cdr(Expr)))
              /\ Ret(Unspec)
         ELSE Result(Undefined) /\ UNCHANGED envs
  /\ UNCHANGED <<program, jmp, store, input, output>>

LangAssignRefused ==
  /\ IsForm("define") \/ IsForm("set!")
  /\ Expr.t = "pair" => Car(Expr).t \notin {"symbol"} \cup IF IsForm("define") THEN {"pair"} ELSE {}
  /\ Fatal
  /\ UNCHANGED <<program, world>>

DefineDone ==
  /\ pc = "define"
  /\ Bind(Env, locals.held[1].name, val)
  /\ Ret(Unspec)
  /\ UNCHANGED <<program, jmp, store, input, output>>

SetDone ==
  /\ pc = "set!"
  /\ LET e == ScopeOfSet(Env, locals.held[1].name)
     IN  IF e # 0 THEN Bind(e, locals.held[1].name, val) /\ Ret(Unspec)
         ELSE Fatal /\ UNCHANGED envs
  /\ UNCHANGED <<program, jmp, store, input, output>>

\* The loop of lang_begin, whose frame is at the end of the stack, from iter
\* on: the last expression is left to eval_frame.
LangBegin ==
  /\ IsForm("begin")
  /\ pc' = "begin"
  /\ stack' = ExFrame
  /\ locals' = [locals EXCEPT !.held = <<Expr>>]
  /\ UNCHANGED <<acts, val, program, world>>

BeginNext ==
  /\ pc = "begin"
  /\ LET iter == locals.held[1]
     IN  IF HasCadr(iter) THEN Call("begin", Len(stack), <<Cdr(iter)>>, Frame(stack, Car(iter)))
         ELSE IF iter = Nil THEN TailCall(EvalFrameOf(Len(stack)), Unspec)
         ELSE IF IsList(iter) THEN TailCall(EvalFrameOf(Len(stack)), Car(iter))
         ELSE Fatal
  /\ UNCHANGED <<program, world>>

\* macro_expand evaluates (apply rules (quote (args ...))) where the macro
\* is used.
EvalMacro ==
  /\ pc = "eval" /\ X.t = "pair" /\ Syntax.t = "macro"
  /\ LET quoted == List(<<Sym("quote"), Expr>>, Nil)
     IN  Call("macro", Len(stack), <<>>,
              Frame(stack, List(<<Sym("apply"), Syntax.rules, quoted>>, Nil)))
  /\ UNCHANGED <<program, world>>

MacroDone ==
  /\ pc = "macro"
  /\ TailCall(stack, val)
  /\ UNCHANGED <<program, world>>

-----------------------------------------------------------------------------
\* An application.  The operator is evaluated in a frame of its own, while
\* the frame of eval_frame keeps the expression.  (The slip: it does not.)
InPlace(s) == SetSlot(s, Car(X))
KeepsExpression(s) == s

EvalOperator ==
  /\ pc = "eval" /\ X.t = "pair" /\ ~ IsSyntax(Syntax)
  /\ Call("operator", Len(stack), <<Expr>>, Frame(KeepsExpression(stack), Car(X)))
  /\ UNCHANGED <<program, world>>

\* Below the frame: the callable.  (The slip: it is not pushed.)
WithoutCallable(orig, proc) == Down(orig)
Prepared(orig, proc) == Append(Down(orig), proc)

\* apply_reentry
PushCallable(orig, proc, args, args_need_eval) ==
  /\ stack' = Prepared(orig, proc)
  /\ locals' = [orig |-> orig, argc |-> 0, i |-> 0, proc |-> proc,
                evals |-> locals.evals, held |-> <<args, args_need_eval>>]
  /\ pc' = "push"
  /\ UNCHANGED <<acts, val>>

\* Then the arguments, the first one first.
PushArgument ==
  /\ pc = "push" /\ locals.held[1].t = "pair"
  /\ LET iter == locals.held[1]
     IN  /\ stack' = Append(stack, Car(iter))
         /\ locals' = [locals EXCEPT !.argc = @ + 1, !.held = <<Cdr(iter), @[2]>>]
  /\ UNCHANGED <<acts, pc, val, program, world>>

ArgumentsPushed ==
  /\ pc = "push" /\ locals.held[1].t # "pair"
  /\ IF locals.held[1] = Nil
     THEN /\ locals' = [locals EXCEPT !.i = IF locals.held[2] THEN 0 ELSE locals.argc, !.held = <<>>]
          /\ pc' = "arguments"
          /\ UNCHANGED <<stack, acts, val>>
     ELSE Fatal
  /\ UNCHANGED <<program, world>>

OperatorDone ==
  /\ pc = "operator"
  /\ IF val.t \in {"proc", "closure", "econt"}
     THEN PushCallable(Len(stack), val, locals.held[1], TRUE)
     ELSE Fatal
  /\ UNCHANGED <<program, world>>

\* From right to left; frame[i] is the i-th slot from the frame pointer up.
EvalArgument ==
  /\ pc = "arguments" /\ locals.i < locals.argc
  /\ Call("argument", Len(stack), <<>>,
          stack \o <<stack[Len(stack) - locals.i], Fp(locals.orig), stack[locals.orig]>>)
  /\ UNCHANGED <<program, world>>

\* (The slip: the loop does not advance.)
SameArgument(i) == i
NextArgument(i) == i + 1

ArgumentDone ==
  /\ pc = "argument"
  /\ stack' = [stack EXCEPT ![Len(stack) - locals.i] = val]
  /\ locals' = [locals EXCEPT !.i = NextArgument(@)]
  /\ pc' = "arguments"
  /\ UNCHANGED <<acts, val, program, world>>

\* The frame that a primitive finds its arguments by.
ArgumentsDone ==
  /\ pc = "arguments" /\ locals.i = locals.argc
  /\ stack' = stack \o <<Fp(locals.orig), stack[locals.orig]>>
  /\ pc' = "apply"
  /\ UNCHANGED <<acts, locals, val, program, world>>

\* The frame of eval_frame itself, where a tail call goes on.  (The slips: the
\* frame of the application is kept; the frame before it is taken.)
FrameKept == stack
FrameBefore == Down(stack[locals.orig - 1].fp)
OrigFrame == Down(locals.orig)

Applies(type) == pc = "apply" /\ locals.proc.t = type

\* (eval expr environ) extends the frame once more, for the environment.
ApplyEval ==
  /\ Applies("proc") /\ locals.proc.func = "eval"
  /\ IF locals.argc = 2 /\ frame_ref(stack, 0).t = "environ"
     THEN /\ stack' = OrigFrame \o <<frame_ref(stack, 1), Fp(locals.orig), frame_ref(stack, 0)>>
          /\ locals' = [NoLocals EXCEPT !.evals = locals.evals + 1]
          /\ pc' = "eval"
          /\ UNCHANGED <<acts, val>>
     ELSE Fatal
  /\ UNCHANGED <<program, world>>

ApplyApply ==
  /\ Applies("proc") /\ locals.proc.func = "apply"
  /\ IF locals.argc = 2
     THEN PushCallable(locals.orig, frame_ref(stack, 1), frame_ref(stack, 0), FALSE)
     ELSE Fatal
  /\ UNCHANGED <<program, world>>

\* The bindings of a closure's formals: names in order with their values.
Formals(f) == Items(f) \o (IF f.t = "pair" /\ f.end.t = "symbol" THEN <<f.end>>
                           ELSE IF f.t = "symbol" THEN <<f>> ELSE <<>>)
RestFormal(f) == IF f.t = "pair" THEN f.end ELSE f
Accepts(f, argc) ==
  \/ RestFormal(f) = Nil /\ argc = Len(Items(f))
  \/ RestFormal(f).t = "symbol" /\ argc >= Len(Items(f))

BoundTo(f, a, k) ==
  IF k <= Len(Items(f)) THEN a[k] ELSE List(SubSeq(a, k, Len(a)), Nil)

\* A formal that is named twice has the later value.
Table(f, a) ==
  LET n == Len(Formals(f))
  IN  [x \in {Formals(f)[k].name : k \in 1 .. n} |->
         BoundTo(f, a, Max({k \in 1 .. n : Formals(f)[k].name = x}))]

Args == [k \in 1 .. locals.argc |-> frame_ref(stack, locals.argc - k)]

\* The formals are bound one by one, so that one that is no symbol is hashed
\* before it is known that the number of arguments is wrong.
ApplyClosure ==
  /\ Applies("closure")
  /\ LET f == locals.proc.formals
         env == Environ(Len(envs) + 1)
         body == Pair(Sym("begin"), locals.proc.body)
     IN  IF \E k \in DOMAIN Items(f) : k <= locals.argc /\ Items(f)[k].t # "symbol"
         THEN Result(Undefined) /\ UNCHANGED envs
         ELSE IF ~ Accepts(f, locals.argc) THEN Fatal /\ UNCHANGED envs
         ELSE /\ envs' = Append(envs, [outer |-> locals.proc.env, table |-> Table(f, Args)])
              /\ stack' = [SetSlot(OrigFrame, body) EXCEPT ![Len(OrigFrame)] = env]
              /\ locals' = [NoLocals EXCEPT !.evals = locals.evals]
              /\ pc' = "eval"
              /\ UNCHANGED <<acts, val>>
  /\ UNCHANGED <<program, jmp, store, input, output>>

\* longjmp to the lib_call_ec of the continuation, if its C frame is there.
Throw ==
  /\ Applies("econt")
  /\ LET k == locals.proc.id
     IN  IF locals.argc # 1 \/ jmp[k] = 0 THEN Fatal
         ELSE IF /\ jmp[k] \in DOMAIN acts
                 /\ acts[jmp[k]].at = CallEcName
                 /\ acts[jmp[k]].locals.held = <<locals.proc>>
         THEN /\ acts' = SubSeq(acts, 1, jmp[k])
              /\ val' = frame_ref(stack, 0)
              /\ pc' = "return"
              /\ UNCHANGED <<stack, locals>>
         ELSE Result(Undefined)
  /\ UNCHANGED <<program, world>>

\* Only (apply x args) gets here with something that is not callable.
ApplyOther ==
  /\ pc = "apply" /\ locals.proc.t \notin {"proc", "closure", "econt"}
  /\ Fatal
  /\ UNCHANGED <<program, world>>

-----------------------------------------------------------------------------
\* apply_procedure: the callable is in the slot below the previous frame, and
\* LIB_PROC_HEADER counts the arguments between it and the frame.
Callee == stack[frame_prev(stack) + 1]
LibArgs == SubSeq(stack, frame_prev(stack) + 2, Len(stack) - 2)

IsPrimitive == Applies("proc") /\ locals.proc.func \notin {"eval", "apply"}
Applying(f) == IsPrimitive /\ Callee.func = f

ApplyLibrary ==
  /\ IsPrimitive /\ Callee.func \in LibraryProcs
  /\ LET r == Library(Callee.func, LibArgs, store)
     IN  Result(r.val) /\ store' = r.store
  /\ UNCHANGED <<program, envs, jmp, input, output>>

lib_display ==
  /\ Applying("display")
  /\ IF Len(LibArgs) = 1
     THEN Ret(Unspec) /\ output' = Append(output, LibArgs[1])
     ELSE Fatal /\ UNCHANGED output
  /\ UNCHANGED <<program, envs, jmp, store, input>>

lib_newline ==
  /\ Applying("newline")
  /\ IF LibArgs = <<>>
     THEN Ret(Unspec) /\ output' = Append(output, Str("newline"))
     ELSE Fatal /\ UNCHANGED output
  /\ UNCHANGED <<program, envs, jmp, store, input>>

\* The first line that is not empty.  A line is what the parser makes of it:
\* its expressions, all but the first of which are dropped, nothing for an
\* empty line, <<Error>> if malformed.
lib_read ==
  /\ Applying("read")
  /\ IF LibArgs # <<>> THEN Fatal /\ UNCHANGED input
     ELSE \/ /\ \A k \in DOMAIN input : input[k] = <<>>
             /\ Ret(EofObj) /\ input' = <<>>
          \/ \E k \in DOMAIN input :
               /\ input[k] # <<>> /\ \A j \in 1 .. k - 1 : input[j] = <<>>
               /\ Result(Head(input[k]))
               /\ input' = SubSeq(input, k + 1, Len(input))
  /\ UNCHANGED <<program, envs, jmp, store, output>>

IsReport == Len(LibArgs) = 1 /\ LibArgs[1] = Num(5)

\* The first frame is at the base of the stack.
lib_report_environ ==
  /\ Applying("scheme-report-environment")
  /\ IF IsReport THEN Ret(stack[2]) ELSE Fatal
  /\ UNCHANGED <<program, world>>

lib_null_environ ==
  /\ Applying("null-environment")
  /\ IF IsReport
     THEN /\ envs' = Append(envs, [outer |-> stack[2].id, table |-> <<>>])
          /\ Ret(Environ(Len(envs) + 1))
     ELSE Fatal /\ UNCHANGED envs
  /\ UNCHANGED <<program, jmp, store, input, output>>

\* (call/ec proc) evaluates (proc econt); the end clears the continuation.
lib_call_ec ==
  /\ Applying(CallEcName)
  /\ LET k == Econt(Len(jmp) + 1)
     IN  IF Len(LibArgs) = 1
         THEN /\ jmp' = Append(jmp, Len(acts) + 1)
              /\ Call(CallEcName, Len(stack), <<k>>,
                      Frame(stack, List(<<LibArgs[1], k>>, Nil)))
         ELSE Fatal /\ UNCHANGED jmp
  /\ UNCHANGED <<program, envs, store, input, output>>

CallEcDone ==
  /\ pc = CallEcName
  /\ jmp' = [jmp EXCEPT ![locals.held[1].id] = 0]
  /\ Ret(val)
  /\ UNCHANGED <<program, envs, store, input, output>>

\* The loop of execute_expr_list, whose frame prog_frame has the expressions
\* from expr on in its slot.
RunExpressions(prog_frame, expr) ==
  Call("load", Len(prog_frame), <<expr>>, Frame(SetSlot(prog_frame, expr), Car(expr)))

\* (load name) evaluates in the environment of the caller.
lib_load ==
  /\ Applying("load")
  /\ IF Len(LibArgs) # 1 THEN Fatal
     ELSE IF LibArgs[1].t # "string" THEN Result(Undefined)
     ELSE IF LibArgs[1].s \notin DOMAIN Files THEN Fatal
     ELSE RunExpressions(Frame(stack, Null), List(Files[LibArgs[1].s], Nil))
  /\ UNCHANGED <<program, world>>

\* The next expression, or the return to lib_load or to main.
LoadNext ==
  /\ pc = "load"
  /\ LET expr == Cdr(locals.held[1])
     IN  IF expr # Nil THEN RunExpressions(stack, expr)
         ELSE IF acts # <<>> THEN Ret(Unspec)
         ELSE pc' = "exit" /\ UNCHANGED <<stack, acts, locals, val>>
  /\ UNCHANGED <<program, world>>

-----------------------------------------------------------------------------
\* eval_frame returns to the C function that called it.
Return ==
  /\ pc = "return"
  /\ LET a == Last(acts)
     IN  /\ acts' = Front(acts)
         /\ stack' = Down(a.height)
         /\ locals' = a.locals
         /\ pc' = a.at
  /\ UNCHANGED <<val, program, world>>

\* The process has exited, or is beyond the language.
Stopped == pc \in {"exit", "fatal", "lost"} /\ UNCHANGED vars

Eval == EvalSelf \/ EvalRefused \/ EvalSymbol \/ EvalMacro \/ EvalOperator
Lang == \/ LangIf \/ LangQuote \/ LangLambda \/ LangLambdaSyntax \/ LangBegin
        \/ LangAssign("define") \/ LangAssign("set!")
        \/ LangDefineProcedure \/ LangAssignRefused
Resume == \/ IfDone \/ DefineDone \/ SetDone \/ BeginNext \/ MacroDone
          \/ OperatorDone \/ ArgumentDone \/ CallEcDone \/ LoadNext
Apply == \/ PushArgument \/ ArgumentsPushed \/ EvalArgument \/ ArgumentsDone \/ ApplyEval \/ ApplyApply
         \/ ApplyClosure \/ Throw \/ ApplyOther
Lib == \/ ApplyLibrary \/ lib_display \/ lib_newline \/ lib_read
       \/ lib_report_environ \/ lib_null_environ \/ lib_call_ec \/ lib_load

Next == Eval \/ Lang \/ Resume \/ Apply \/ Lib \/ Return \/ Stopped

Spec == Init /\ [][Next]_vars

\* It is sequential code: it goes on until it stops.
FairSpec == Spec /\ WF_vars(Next)
-----------------------------------------------------------------------------
(* Properties                                                               *)

\* While a C function waits for eval_frame, nobody writes to the slots at and
\* above (in the code) its frame pointer: not an application that unwinds to
\* orig_frame, nor one that pushes on it, nor a throw.
FramesIntact ==
  [][\A j \in 1 .. Len(acts) :
       (j <= Len(acts') /\ acts'[j] = acts[j])
         => SubSeq(stack', 1, acts[j].height) = SubSeq(stack, 1, acts[j].height)]_vars

\* What apply_procedure and LIB_PROC_HEADER rely on, from the evaluation of the
\* operator to the call, whatever has been evaluated between and on whichever
\* way through apply: the callable is in the slot below orig_frame, and
\* nothing but the arguments lies between it and the frame.
LaidOut(s, h, l) ==
  /\ h = l.orig + 1 + l.argc
  /\ s[l.orig + 1] = l.proc
  /\ l.i <= l.argc

ApplyLayout ==
  /\ pc \in {"push", "arguments", "argument"} => LaidOut(stack, Len(stack), locals)
  /\ pc = "apply" => LaidOut(stack, Len(stack) - 2, locals) /\ frame_prev(stack) = locals.orig
  /\ \A j \in 1 .. Len(acts) :
       acts[j].at = "argument" => LaidOut(stack, acts[j].height, acts[j].locals)

\* Tail calls take no stack (seval.c: "For tail's purpose, eval-related things
\* are all placed here"): an eval_frame about to evaluate has one frame of
\* three slots below its caller's, however many closures, forms and macros it
\* has gone through.  The calls through eval are the exception.
Below(ws, n) == IF n = 0 THEN 5 ELSE ws[n].height
Top(ws) == Below(ws, Len(ws))

TailCallsTakeNoStack ==
  pc = "eval" => Len(stack) = Top(acts) + 3 + 3 * locals.evals

\* The objects that a C local refers to when eval_frame returns are in slots
\* that the collector scans: the branches of an if, the arguments that wait for
\* the operator, the rest of a begin or of a file, the callable.  Left out is
\* cont in lib_call_ec, which is not (ClearsItsOwn in Escape).
Pieces(v) ==
  IF v.t # "pair" THEN {v}
  ELSE {v, v.end} \cup Range(v.items)
         \cup {List(SubSeq(v.items, k, Len(v.items)), v.end) : k \in DOMAIN v.items}
NeverFreed(v) == v.t \in {"nil", "unspecified", "boolean", "symbol", "null"}

LocalsRooted ==
  \A j \in 1 .. Len(acts) :
    acts[j].at # CallEcName =>
      \A v \in Range(acts[j].locals.held) \cup {acts[j].locals.proc} :
        NeverFreed(v) \/ \E n \in 1 .. acts[j].height : v \in Pieces(stack[n])

-----------------------------------------------------------------------------
(* The inductive invariant: where each C function has its frame.  below is  *)
(* the frame pointer of the function that called this one, h its own, s the *)
(* stack and l its locals.                                                  *)

IsSeq(s) == s \in Seq(Range(s))

IsLocals(l) ==
  /\ l = [orig |-> l.orig, argc |-> l.argc, i |-> l.i, proc |-> l.proc,
          evals |-> l.evals, held |-> l.held]
  /\ {l.orig, l.argc, l.i, l.evals} \subseteq Nat

Base(below, l) == below + 3 + 3 * l.evals

Placed(at, below, h, s, l) ==
  /\ at \in {"eval", "macro", "operator"} => h = Base(below, l)
  /\ at \in {"if", "define", "set!", "begin"} => h = Base(below, l) + 3
  /\ at \in {"push", "arguments", "argument", "apply"} => l.orig = Base(below, l)
  /\ at \in {"push", "arguments", "argument"} => LaidOut(s, h, l)
  /\ at = "argument" => l.i < l.argc
  /\ at = "apply" => LaidOut(s, h - 2, l) /\ s[h - 1] = Fp(l.orig)
  /\ at \in {"load", CallEcName} => h >= below + 3

Waiting == {"if", "define", "set!", "begin", "macro", "operator", "argument", "load", CallEcName}

IsAct(a) ==
  /\ a = [at |-> a.at, height |-> a.height, locals |-> a.locals]
  /\ a.at \in Waiting /\ a.height \in Nat /\ IsLocals(a.locals)

Frames(ws, s) ==
  /\ IsSeq(ws) /\ IsSeq(s)
  /\ Top(ws) <= Len(s)
  /\ ws # <<>> => ws[1].at = "load"
  /\ \A j \in 1 .. Len(ws) :
       /\ IsAct(ws[j])
       /\ Placed(ws[j].at, Below(ws, j - 1), ws[j].height, s, ws[j].locals)
  /\ \A i, j \in 1 .. Len(ws) : i < j => ws[i].height < ws[j].height

Running == Waiting \cup {"eval", "push", "arguments", "apply", "return"}

\* From the frames of the waiting functions and of the one that runs follow
\* the layout of applications, the room that tail calls take, and that nobody
\* writes into the frames of others.
IInv ==
  /\ Frames(acts, stack)
  /\ IsLocals(locals)
  /\ pc \in Running \cup {"exit", "fatal", "lost"}
  /\ Placed(pc, Top(acts), Len(stack), stack, locals)
  /\ acts = <<>> => pc \in {"load", "exit"}
=============================================================================
