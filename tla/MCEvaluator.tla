----------------------------- MODULE MCEvaluator -----------------------------
(* What a program means, without frames, continuations or a stack: a        *)
(* recursive evaluator in the direct style, and the programs to compare     *)
(* eval_frame with it on.                                                   *)
EXTENDS Evaluator

\* How an evaluation ends: with the value v, a fatal error, the unknown, or
\* a throw of v to the continuation `to'; and the world it leaves.  live says
\* of each continuation whether its call/ec lasts, has returned or was left.
Ok(v, w) == [k |-> "ok", v |-> v, w |-> w, to |-> 0]
Stops(how, w) == [k |-> how, v |-> Null, w |-> w, to |-> 0]
Thrown(v, to, w) == [k |-> "throw", v |-> v, w |-> w, to |-> to]
Then(r, Next1(_, _)) == IF r.k = "ok" THEN Next1(r.v, r.w) ELSE r
Primitive(v, w) ==
  CASE v = Error -> Stops("fatal", w)
    [] v = Undefined -> Stops("lost", w)
    [] OTHER -> Ok(v, w)

RECURSIVE Where(_, _, _)
Where(e, x, w) ==
  IF e = 0 THEN 0
  ELSE IF x \in DOMAIN w.envs[e].table THEN e ELSE Where(w.envs[e].outer, x, w)

Defines(e, x, v, w) == [w EXCEPT !.envs[e].table = (x :> v) @@ @]

\* The table of a call, or why there is none: a formal that has an argument is
\* no symbol, or there are too many or too few arguments.
Misfit(why) == "misfit" :> why
RECURSIVE Binds(_, _, _)
Binds(f, a, table) ==
  CASE f.t = "symbol" -> (f.name :> List(a, Nil)) @@ table
    [] f.t = "pair" /\ a # <<>> /\ Car(f).t # "symbol" -> Misfit(Undefined)
    [] f.t = "pair" /\ a # <<>> -> Binds(Cdr(f), Tail(a), (Car(f).name :> Head(a)) @@ table)
    [] f = Nil /\ a = <<>> -> table
    [] OTHER -> Misfit(Error)

RECURSIVE Ev(_, _, _), EvArgs(_, _, _), EvSeq(_, _, _), EvForm(_, _, _, _), Ap(_, _, _, _)

Ev(x, e, w) ==
  CASE x.t = "symbol" ->
         LET s == Where(e, x.name, w)
         IN  IF s = 0 \/ IsSyntax(w.envs[s].table[x.name]) THEN Stops("fatal", w)
             ELSE Ok(w.envs[s].table[x.name], w)
    [] x.t = "pair" ->
         LET s == IF Car(x).t = "symbol" THEN Where(e, Car(x).name, w) ELSE 0
             syntax == IF s = 0 THEN Null ELSE w.envs[s].table[Car(x).name]
         IN  CASE syntax.t = "specform" -> EvForm(syntax.call, Cdr(x), e, w)
               [] syntax.t = "macro" ->
                    Then(IF IsList(Cdr(x)) THEN Ap(syntax.rules, Items(Cdr(x)), e, w)
                         ELSE Stops("fatal", w),
                         LAMBDA expansion, w1 : Ev(expansion, e, w1))
               [] OTHER ->
                    Then(Ev(Car(x), e, w), LAMBDA f, w1 :
                      IF f.t \notin {"proc", "closure", "econt"} \/ ~ IsList(Cdr(x))
                      THEN Stops("fatal", w1)
                      ELSE Then(EvArgs(Items(Cdr(x)), e, w1), LAMBDA a, w2 : Ap(f, a, e, w2)))
    [] x.t \in {"nil", "environ", "dict", "specform", "macro"} -> Stops("fatal", w)
    [] OTHER -> Ok(x, w)

\* The arguments, the last one first.
EvArgs(s, e, w) ==
  IF s = <<>> THEN Ok(<<>>, w)
  ELSE Then(Ev(Last(s), e, w), LAMBDA v, w1 :
         Then(EvArgs(Front(s), e, w1), LAMBDA vs, w2 : Ok(Append(vs, v), w2)))

\* A body, and the expressions of a file.
EvSeq(l, e, w) ==
  IF l = Nil THEN Ok(Unspec, w)
  ELSE IF HasCadr(l) THEN Then(Ev(Car(l), e, w), LAMBDA v, w1 : EvSeq(Cdr(l), e, w1))
  ELSE IF IsList(l) THEN Ev(Car(l), e, w)
  ELSE Stops("fatal", w)

EvForm(form, l, e, w) ==
  LET n == IF IsList(l) THEN Len(Items(l)) ELSE -1
      Closes == Closure(e, Car(l), Cdr(l))
  IN  CASE form = "if" /\ n \in {2, 3} ->
             Then(Ev(Car(l), e, w), LAMBDA v, w1 :
               IF v # Bool(FALSE) THEN Ev(l.items[2], e, w1)
               ELSE IF n = 3 THEN Ev(l.items[3], e, w1) ELSE Ok(Unspec, w1))
        [] form = "quote" /\ n = 1 -> Ok(Car(l), w)
        [] form = "lambda" /\ l.t = "pair" -> Ok(Closes, w)
        [] form = "lambda-syntax" /\ l.t = "pair" -> Ok(Macro(Closes), w)
        [] form = "begin" -> EvSeq(l, e, w)
        [] form = "define" /\ l.t = "pair" /\ Car(l).t = "pair" ->
             Ok(Unspec, Defines(e, Car(Car(l)).name, Closure(e, Cdr(Car(l)), Cdr(l)), w))
        [] form \in {"define", "set!"} /\ HasCadr(l) /\ Car(l).t = "symbol" ->
             Then(Ev(Cadr(l), e, w), LAMBDA v, w1 :
               LET s == IF form = "define" THEN e ELSE Where(e, Car(l).name, w1)
               IN  IF s = 0 THEN Stops("fatal", w1)
                   ELSE Ok(Unspec, Defines(s, Car(l).name, v, w1)))
        [] OTHER -> Stops("fatal", w)

\* call/ec: its continuation lives until it returns; a throw to it is its value,
\* and one to another continuation leaves it behind.
CallEc(f, e, w) ==
  LET k == Len(w.live) + 1
      r == Ap(f, <<Econt(k)>>, e, [w EXCEPT !.live = Append(@, "live")])
      left(how) == [r.w EXCEPT !.live[k] = how]
  IN  CASE r.k = "ok" -> Ok(r.v, left("returned"))
        [] r.k = "throw" /\ r.to = k -> Ok(r.v, left("returned"))
        [] r.k = "throw" -> Thrown(r.v, r.to, left("left"))
        [] OTHER -> r

\* What a primitive that reads or prints, or makes environments, does.
Does(f, a, w) ==
  LET lines == SelectSeq(w.input, LAMBDA l : l # <<>>)
      n == Len(a)
  IN  CASE f = "display" /\ n = 1 -> Ok(Unspec, [w EXCEPT !.output = Append(@, a[1])])
        [] f = "newline" /\ n = 0 -> Ok(Unspec, [w EXCEPT !.output = Append(@, Str("newline"))])
        [] f = "read" /\ n = 0 ->
             IF lines = <<>> THEN Ok(EofObj, [w EXCEPT !.input = <<>>])
             ELSE Primitive(lines[1][1], [w EXCEPT !.input = Tail(lines)])
        [] f = "scheme-report-environment" /\ a = <<Num(5)>> -> Ok(Environ(1), w)
        [] f = "null-environment" /\ a = <<Num(5)>> ->
             Ok(Environ(Len(w.envs) + 1), [w EXCEPT !.envs = Append(@, [outer |-> 1, table |-> <<>>])])
        [] OTHER -> Stops("fatal", w)

Ap(f, a, e, w) ==
  CASE f.t = "closure" ->
         LET table == Binds(f.formals, a, <<>>)
             w1 == [w EXCEPT !.envs = Append(@, [outer |-> f.env, table |-> table])]
         IN  CASE table = Misfit(Error) -> Stops("fatal", w)
               [] table = Misfit(Undefined) -> Stops("lost", w)
               [] OTHER -> EvSeq(f.body, Len(w1.envs), w1)
    [] f.t = "econt" ->
         IF Len(a) # 1 \/ w.live[f.id] = "returned" THEN Stops("fatal", w)
         ELSE IF w.live[f.id] = "left" THEN Stops("lost", w) ELSE Thrown(a[1], f.id, w)
    [] f.t = "proc" /\ f.func \in LibraryProcs ->
         LET r == Library(f.func, a, w.store) IN Primitive(r.val, [w EXCEPT !.store = r.store])
    [] f = Proc("eval") ->
         IF Len(a) = 2 /\ a[2].t = "environ" THEN Ev(a[1], a[2].id, w) ELSE Stops("fatal", w)
    [] f = Proc("apply") ->
         IF Len(a) = 2 /\ IsList(a[2]) THEN Ap(a[1], Items(a[2]), e, w) ELSE Stops("fatal", w)
    [] f = Proc(CallEcName) -> IF Len(a) = 1 THEN CallEc(a[1], e, w) ELSE Stops("fatal", w)
    [] f = Proc("load") ->
         IF Len(a) = 1 /\ a[1].t = "string" /\ a[1].s \in DOMAIN Files
         THEN Then(EvSeq(List(Files[a[1].s], Nil), e, w), LAMBDA v, w1 : Ok(Unspec, w1))
         ELSE Stops(IF Len(a) = 1 /\ a[1].t # "string" THEN "lost" ELSE "fatal", w)
    [] f.t = "proc" -> Does(f.func, a, w)
    [] OTHER -> Stops("fatal", w)

Meaning ==
  EvSeq(List(program.text, Nil), 1,
        [envs |-> <<[outer |-> 0, table |-> Prelude]>>, store |-> <<>>, live |-> <<>>,
         input |-> program.input, output |-> <<>>])

\* eval_frame, its special forms and the primitives compute what the program
\* means: the process ends in the same way, having printed the same objects.
\* (Left to the eye of the reader are programs that bind begin, quote or
\* apply anew, which the code looks up where the user may have bound them.)
Computes ==
  pc \in {"exit", "fatal", "lost"} =>
    /\ pc = IF Meaning.k = "ok" THEN "exit" ELSE Meaning.k
    /\ pc # "lost" => output = Meaning.w.output

\* Every program of Programs has a meaning, so that its evaluation ends.
Halts == <>(pc \in {"exit", "fatal", "lost"})

-----------------------------------------------------------------------------
(* The programs                                                             *)

L(s) == List(s, Nil)
F(head, args) == L(<<Sym(head)>> \o args)
Q(v) == F("quote", <<v>>)
Lam(formals, body) == L(<<Sym("lambda"), formals>> \o body)
Def(v, e) == F("define", <<v, e>>)
Show(e) == F("display", <<e>>)
If(p, c, d) == F("if", <<p, c, d>>)
Run(text) == [text |-> text, input |-> <<>>]

x == Sym("x")
y == Sym("y")
n == Sym("n")
f == Sym("f")
k == Sym("k")
m == Sym("m")
One == Num(1)
Report == F("scheme-report-environment", <<Num(5)>>)
NullEnv == F("null-environment", <<Num(5)>>)
Less(v, w) == F("<", <<v, w>>)
Minus1(v) == F("-", <<v, One>>)
Both(v, w) == F("begin", <<v, w>>)
ShowAll(es) == [j \in DOMAIN es |-> Show(es[j])]

\* Loops: tail calls, mutual ones, through eval and through apply; recursion.
Loops == {
  <<Def(f, Lam(L(<<n, x>>), <<If(Less(n, One), x, F("f", <<Minus1(n), F("+", <<x, n>>)>>))>>)),
    Show(F("f", <<Num(3), Num(0)>>))>>,
  <<F("define", <<L(<<f, n>>), If(Less(n, One), Q(x), Both(Show(n), F("g", <<Minus1(n)>>)))>>),
    F("define", <<L(<<Sym("g"), n>>), F("begin", <<F("f", <<n>>)>>)>>),
    Show(F("f", <<Num(2)>>))>>,
  <<Def(y, Report),
    F("define", <<L(<<f, n>>),
      If(Less(n, One), n, F("eval", <<F("cons", <<Q(f), F("cons", <<Minus1(n), Q(Nil)>>)>>), y>>))>>),
    Show(F("f", <<Num(2)>>))>>,
  <<F("define", <<L(<<f, n>>),
      If(Less(n, One), n, F("apply", <<f, F("cons", <<Minus1(n), Q(Nil)>>)>>))>>),
    Show(F("f", <<Num(2)>>))>>,
  <<F("define", <<L(<<f, n>>), If(Less(n, One), n, F("+", <<n, F("f", <<Minus1(n)>>)>>))>>),
    Show(F("f", <<Num(3)>>))>> }

\* Scopes: closures that share a variable, rest arguments, what set! and
\* define reach, a special form and a primitive bound anew, the same formal twice.
Scopes == {
  <<F("define", <<L(<<f, n>>), Lam(Nil, <<F("set!", <<n, F("+", <<n, One>>)>>), n>>)>>),
    Def(x, F("f", <<One>>)), Def(y, F("f", <<Num(7)>>)),
    Show(L(<<x>>)), Show(L(<<x>>)), Show(L(<<y>>)), Show(n)>>,
  <<F("define", <<List(<<f, x>>, y), Show(x), Show(y), F("set!", <<x, y>>), Def(y, x), x>>),
    Show(F("f", <<One, Num(2), Num(3)>>)), Show(F("f", <<One>>)), F("f", <<>>)>>,
  <<Def(f, Lam(x, <<F("set!", <<x, F("car", <<x>>)>>), x>>)), Def(x, One),
    Show(F("f", <<Num(4)>>)), Show(x), F("set!", <<y, Show(x)>>)>>,
  <<F("define", <<L(<<f, Sym("if")>>), F("if", <<One, Num(2)>>)>>),
    Show(F("f", <<Lam(x, <<x>>)>>)), Def(Sym("car"), Sym("cdr")),
    Show(F("car", <<Q(L(<<One, y>>))>>))>>,
  <<Show(L(<<Lam(L(<<x, x>>), <<x>>), One, Num(2)>>)), Show(L(<<Lam(Nil, <<>>)>>)),
    L(<<Lam(L(<<x, y>>), <<x>>), One>>)>>,
  <<Def(y, NullEnv), F("eval", <<Q(Def(x, One)), y>>), Show(F("eval", <<x, y>>))>>,
  <<Def(y, NullEnv), F("eval", <<Q(Def(x, One)), y>>), Show(F("eval", <<Q(x), y>>)), Show(x)>> }

\* Macros: recursive ones, one that makes a definition, one of no list.
Macros == {
  <<Def(m, F("lambda-syntax", <<List(<<x>>, y), If(F("null?", <<y>>), x,
       F("cons", <<Q(Sym("if")), F("cons", <<x, F("cons", <<
         F("cons", <<Q(m), y>>), Q(L(<<Bool(FALSE)>>))>>)>>)>>))>>)),
    Show(F("m", <<One, Show(x), Num(3)>>))>>,
  <<Def(m, F("lambda-syntax", <<List(<<x>>, y), If(F("null?", <<y>>), x,
       F("cons", <<Q(Sym("if")), F("cons", <<x, F("cons", <<
         F("cons", <<Q(m), y>>), Q(L(<<Bool(FALSE)>>))>>)>>)>>))>>)),
    Show(F("m", <<One, Show(One), Num(3)>>)), Show(F("m", <<Bool(FALSE), y>>)), Show(m)>>,
  <<F("define", <<L(<<f, y>>), Def(m, F("lambda-syntax", <<L(<<x>>), Q(Def(y, Num(5)))>>)),
      F("m", <<x>>), y>>),
    Show(F("f", <<One>>)), F("m", <<One>>)>>,
  <<Def(m, F("lambda-syntax", <<x, One>>)), Show(F("m", <<>>)), List(<<m, One>>, x)>> }

\* Escaping continuations: not used, thrown to from within, out of two calls,
\* after the call has returned, and after it was left.
Ec(body) == F(CallEcName, <<Lam(L(<<k>>), body)>>)
Escapes == {
  <<Show(Ec(<<One>>)), Show(F("+", <<Num(2), Ec(<<F("+", <<Num(3), F("k", <<One>>)>>)>>)>>)),
    Ec(<<F("k", <<>>)>>)>>,
  <<Show(F("cons", <<Ec(<<Def(x, k), Show(Ec(<<Def(y, k), F("x", <<Show(One)>>)>>))>>), Q(Nil)>>))>>,
  <<Def(x, One), Ec(<<F("set!", <<x, k>>)>>), Show(One), F("x", <<One>>)>>,
  <<Def(y, One), Show(Ec(<<Def(x, k), Ec(<<F("set!", <<y, k>>), F("x", <<Num(2)>>)>>)>>)),
    Show(One), F("y", <<One>>)>>,
  <<F("define", <<L(<<f, n, x>>), If(Less(n, One), F("x", <<n>>),
       F("+", <<One, F("f", <<Minus1(n), x>>)>>))>>),
    Show(Ec(<<F("f", <<Num(2), k>>)>>)),
    Show(F("apply", <<Sym(CallEcName), F("cons", <<Lam(x, <<F("apply", <<F("car", <<x>>), x>>)>>), Q(Nil)>>)>>))>> }

\* apply of apply, of eval, of what is not callable and to what is no list.
Applications == {
  ShowAll(<<F("apply", <<Sym("apply"), F("cons", <<Sym("-"), Q(L(<<L(<<One, Num(2)>>)>>))>>)>>),
            F("apply", <<Sym("eval"), F("cons", <<Q(L(<<Sym("-"), One>>)),
                                                  F("cons", <<Report, Q(Nil)>>)>>)>>),
            F("apply", <<Lam(x, <<x>>), Q(L(<<x, y>>))>>),
            F("apply", <<One, Q(Nil)>>)>>),
  <<F("apply", <<Sym("+"), Q(List(<<One>>, x))>>)>>,
  <<F("apply", <<Sym("+")>>)>>, <<F("eval", <<One>>)>>, <<F("eval", <<One, One>>)>>,
  <<L(<<One, Show(One)>>)>>, <<List(<<Sym("+"), Show(One)>>, x)>>,
  <<F("+", <<Show(One), Show(Num(2))>>)>>, <<L(<<Show(One), Show(Num(2))>>)>> }

\* Special forms that are malformed, and the ends of their bodies.
Malformed == {
  <<F("if", <<>>)>>, <<F("if", <<x>>)>>, <<F("if", <<One, One, One, One>>)>>,
  <<F("define", <<>>)>>, <<F("define", <<x>>)>>, <<F("define", <<One, One>>)>>,
  <<F("set!", <<>>)>>, <<F("set!", <<x>>)>>, <<F("set!", <<L(<<x>>), One>>)>>,
  <<F("set!", <<x, One>>)>>, <<F("quote", <<>>)>>, <<F("quote", <<x, y>>)>>,
  <<F("lambda", <<>>)>>, <<F("lambda-syntax", <<>>)>>, <<Nil>>, <<Sym("if")>>,
  <<List(<<Sym("begin"), Show(One), One>>, x)>>, <<Show(F("begin", <<>>))>>,
  <<L(<<Lam(L(<<One, x>>), <<x>>), One>>)>>, <<L(<<Lam(L(<<x, One>>), <<x>>), One>>)>>,
  <<L(<<Lam(L(<<One>>), <<x>>), One, One>>)>>, <<L(<<Lam(List(<<x>>, One), <<x>>), One>>)>>,
  <<L(<<Lam(L(<<One>>), <<x>>), One>>)>>, <<L(<<Lam(One, <<x>>)>>)>>,
  <<Show(F("if", <<Bool(FALSE), One>>)), Show(List(<<Sym("lambda")>>, L(<<x>>))), y>> }

\* load: in the environment of its caller, a file that loads another.
MCFiles == "one" :> <<Def(x, One), Show(x), F("load", <<Str("two")>>), Show(x)>>
        @@ "two" :> <<F("set!", <<x, Num(2)>>)>>
        @@ "bad" :> <<Show(One), y, Show(One)>> @@ "throws" :> <<F("k", <<x>>), Show(x)>>
Loads == {
  <<F("define", <<L(<<f, y>>), F("load", <<y>>), x>>), Show(F("f", <<Str("one")>>)), Show(x)>>,
  <<Def(x, Num(3)), F("load", <<Str("one")>>), Show(x), F("load", <<Str("bad")>>)>>,
  <<F("load", <<Str("none")>>)>>, <<F("load", <<>>)>>, <<F("load", <<Q(x)>>)>> }

\* The program of repl in main.c.
Repl == <<
  Def(Sym("*env*"), NullEnv), F("readline-set-prompt", <<Str(">>> ")>>),
  F("define", <<L(<<Sym("repl")>>),
    Def(Sym("expr"), F("read", <<>>)),
    If(F("eof?", <<Sym("expr")>>),
       Both(Show(Str("received eof, bye.")), F("newline", <<>>)),
       F("begin", <<F("set-backtrace-base", <<>>),
         Def(Sym("result"), F("eval", <<Sym("expr"), Sym("*env*")>>)),
         Show(If(F("unspecified?", <<Sym("result")>>), Str("OK."), Sym("result"))),
         F("newline", <<>>), F("repl", <<>>)>>))>>),
  F("repl", <<>>)>>
Line == {<<>>, <<Def(x, One)>>, <<x, y>>, <<F("+", <<x, One>>)>>, <<Error>>,
         <<F("read", <<>>)>>, <<F("repl", <<>>)>>}
Sessions == {[text |-> Repl, input |-> lines] : lines \in SeqOf(Line, 2)}
            \cup {[text |-> Repl, input |-> <<<<Def(x, One)>>, <<x, y>>, <<>>, <<F("+", <<x, One>>)>>>>]}

\* Vectors and hash tables, which their holders share.
Objects == {
  <<Def(x, F("make-vector", <<Num(2), Num(7)>>)), Def(y, x),
    F("vector-set!", <<x, One, F("vector-length", <<y>>)>>), Show(F("vector->list", <<y>>)),
    Show(F("vector-ref", <<F("list->vector", <<F("vector->list", <<y>>)>>), One>>)),
    Show(F("vector-ref", <<x, Num(2)>>))>>,
  <<Def(x, F("make-hash", <<>>)), Def(y, x),
    F("hash-set!", <<x, Q(n), One>>), F("hash-set!", <<y, Q(n), Num(2)>>), F("hash-set!", <<y, Q(m), y>>),
    Show(F("hash-ref", <<F("hash-ref", <<x, Q(m)>>), Q(n)>>)), F("hash-delete!", <<x, Q(n)>>),
    Show(F("hash-exists?", <<y, Q(n)>>)), Show(F("hash-ref/default", <<y, Q(n), Num(3)>>)),
    Show(F("hash-ref", <<y, Q(n)>>))>>,
  <<Def(x, F("make-hash", <<>>)), F("eval", <<x, Report>>)>>, <<F("eval", <<NullEnv, Report>>)>>,
  <<F("make-vector", <<Num(-1)>>)>>,
  <<Def(x, F("make-hash", <<>>)), F("hash-ref", <<x, One>>)>>,
  <<F("error", <<>>)>>, <<F("display", <<>>)>>, <<F("newline", <<x>>)>>, <<F("newline", <<One>>)>>,
  <<F("read", <<One>>)>>, <<F("null-environment", <<One>>)>>, <<F(CallEcName, <<>>)>>,
  <<F("scheme-report-environment", <<>>)>> }

\* All expressions of a head and up to two of these operands.
Head1 == {"+", "-", "<", "cons", "car", "cdr", "null?", "procedure?", "if", "begin", "quote",
          "define", "apply", "f"}
Operand == {One, x, Bool(FALSE), Q(L(<<x, One>>)), Sym("car"), Show(y), F("f", <<x>>),
            F("set!", <<x, Num(2)>>), Lam(x, <<x>>), Nil}
Generated == {<<Def(x, Num(3)), Def(y, Num(4)), Def(f, Lam(L(<<y>>), <<Show(y), F("cons", <<x, y>>)>>)),
                Show(F(h, operands))>> : h \in Head1, operands \in SeqOf(Operand, 2)}

\* The same in a call/ec, with operands that throw, and then a throw to the
\* continuation that was noted last.
Inner(body) == F(CallEcName, <<Lam(L(<<Sym("j")>>), <<F("set!", <<y, Sym("j")>>), body>>)>>)
Thrower == {x, k, F("k", <<x>>), Inner(F("k", <<One>>)), Inner(F("j", <<x>>)),
            F("load", <<Str("throws")>>), F("eval", <<F("k", <<x>>), Report>>), F("m", <<>>)}
Throws == {<<Def(x, Num(3)), Def(y, Num(4)), Def(f, Lam(L(<<n>>), <<Show(n), n>>)),
             Show(Ec(<<Def(m, F("lambda-syntax", <<n, F("k", <<Num(5)>>)>>)), F(h, operands)>>)),
             F("y", <<One>>)>> :
             h \in {"k", "f", "+", "if", "begin", "define", "set!", "apply"},
             operands \in SeqOf(Thrower, 2)}

MCPrograms == Sessions \cup {Run(text) : text \in
  Loops \cup Scopes \cup Macros \cup Escapes \cup Applications \cup Malformed \cup Loads
  \cup Objects \cup Generated \cup Throws}

\* Every expression in these programs, their files and their lines.
RECURSIVE Parts(_)
Parts(v) == {v} \cup IF v.t = "pair" THEN Parts(v.end) \cup UNION {Parts(w) : w \in Range(v.items)} ELSE {}
MCExpressions ==
  LET texts == {p.text : p \in MCPrograms} \cup Range(MCFiles)
                 \cup UNION {Range(p.input) : p \in MCPrograms}
  IN  UNION {Parts(w) : w \in UNION {Range(s) : s \in texts} \ {Error}}
=============================================================================
