-------------------------------- MODULE Terms --------------------------------
(* The objects a program is made of and computes with, as values, and the   *)
(* primitive procedures of slib.c that look at nothing but their arguments  *)
(* and the vectors and hash tables.  A value is a record with its ob_type.  *)
(* Pairs are values, not addresses: what changes or compares their identity *)
(* (set-car!, set-cdr!, eq?, list-copy) is left out, and so are doubles.    *)
EXTENDS Integers, SequencesExt

Sym(x) == [t |-> "symbol", name |-> x]
Num(n) == [t |-> "fixnum", n |-> n]
Str(s) == [t |-> "string", s |-> s]
Bool(b) == [t |-> "boolean", b |-> b]
Nil == [t |-> "nil"]
Unspec == [t |-> "unspecified"]
EofObj == [t |-> "eof"]
Proc(f) == [t |-> "proc", func |-> f]
SpecForm(f) == [t |-> "specform", call |-> f]
Closure(e, formals, body) ==
  [t |-> "closure", env |-> e, formals |-> formals, body |-> body]
Macro(rules) == [t |-> "macro", rules |-> rules]
Environ(e) == [t |-> "environ", id |-> e]
Econt(k) == [t |-> "econt", id |-> k]
Vector(i) == [t |-> "vector", id |-> i]
HashTable(i) == [t |-> "dict", id |-> i]

\* A chain of pairs: the cars, and the last cdr.
List(s, end) ==
  IF s = <<>> THEN end
  ELSE IF end.t = "pair" THEN [t |-> "pair", items |-> s \o end.items, end |-> end.end]
  ELSE [t |-> "pair", items |-> s, end |-> end]

Pair(a, d) == List(<<a>>, d)
Car(p) == Head(p.items)
Cdr(p) == List(Tail(p.items), p.end)

\* f with v at x.
With(f, x, v) == [y \in DOMAIN f \cup {x} |-> IF y = x THEN v ELSE f[y]]

Items(l) == IF l.t = "pair" THEN l.items ELSE <<>>
IsList(l) == l = Nil \/ (l.t = "pair" /\ l.end = Nil)
Cadr(p) == p.items[2]
HasCadr(l) == l.t = "pair" /\ Len(l.items) >= 2

-----------------------------------------------------------------------------
\* What a primitive returns instead of a value: it has called fatal_error,
\* or C does not say what it has done.
Error == [t |-> "error"]
Undefined == [t |-> "undefined"]

AllNumbers(a) == \A k \in DOMAIN a : a[k].t = "fixnum"
Total(a) ==
  LET sum[k \in 0 .. Len(a)] == IF k = 0 THEN 0 ELSE sum[k - 1] + a[k].n
  IN  sum[Len(a)]

lib_add(a) == IF AllNumbers(a) THEN Num(Total(a)) ELSE Error

lib_minus(a) ==
  IF a = <<>> \/ ~ AllNumbers(a) THEN Error
  ELSE IF Len(a) = 1 THEN Num(-a[1].n)
  ELSE Num(a[1].n - Total(Tail(a)))

lib_lessthan(a) ==
  IF Len(a) = 2 /\ AllNumbers(a) THEN Bool(a[1].n < a[2].n) ELSE Error

lib_cons(a) == IF Len(a) = 2 THEN Pair(a[1], a[2]) ELSE Error
lib_car(a) == IF Len(a) = 1 /\ a[1].t = "pair" THEN Car(a[1]) ELSE Error
lib_cdr(a) == IF Len(a) = 1 /\ a[1].t = "pair" THEN Cdr(a[1]) ELSE Error

IsOfType(a, types) == IF Len(a) = 1 THEN Bool(a[1].t \in types) ELSE Error
lib_nullp(a) == IsOfType(a, {"nil"})
lib_pairp(a) == IsOfType(a, {"pair"})
lib_symbolp(a) == IsOfType(a, {"symbol"})
lib_integerp(a) == IsOfType(a, {"fixnum"})
lib_vectorp(a) == IsOfType(a, {"vector"})
lib_dictp(a) == IsOfType(a, {"dict"})
lib_booleanp(a) == IsOfType(a, {"boolean"})
lib_unspecp(a) == IsOfType(a, {"unspecified"})
lib_eofobjp(a) == IsOfType(a, {"eof"})
lib_procedurep(a) == IsOfType(a, {"proc", "closure"})

\* error always ends the process; the trace base and the prompt of readline
\* are not part of the model.
lib_error(a) == Error
lib_set_backtrace_base(a) == IF a = <<>> THEN Unspec ELSE Error
lib_rl_setprompt(a) ==
  IF Len(a) # 1 THEN Error ELSE IF a[1].t = "string" THEN Unspec ELSE Undefined

-----------------------------------------------------------------------------
\* Vectors and hash tables are objects with an identity: st[i] is what number
\* i holds, a function from 0 .. n - 1 or from the names of the symbols that
\* are its keys.  (That a hash table is such a function is what Dict shows;
\* one with keys of other types is left out.)
Keeps(st, v) == [val |-> v, store |-> st]
Makes(st, v, content) == [val |-> v, store |-> Append(st, content)]

lib_make_vector(a, st) ==
  IF Len(a) \notin 1 .. 2 \/ a[1].t # "fixnum" THEN Keeps(st, Error)
  ELSE IF a[1].n < 0 THEN Keeps(st, Undefined)
  ELSE Makes(st, Vector(Len(st) + 1),
             [i \in 0 .. a[1].n - 1 |-> IF Len(a) = 2 THEN a[2] ELSE Unspec])

lib_list2vector(a, st) ==
  IF Len(a) = 1 /\ IsList(a[1])
  THEN Makes(st, Vector(Len(st) + 1),
             [i \in 0 .. Len(Items(a[1])) - 1 |-> a[1].items[i + 1]])
  ELSE Keeps(st, Error)

Length(v, st) == Cardinality(DOMAIN st[v.id])

lib_vector_length(a, st) ==
  IF Len(a) # 1 THEN Error
  ELSE IF a[1].t = "vector" THEN Num(Length(a[1], st)) ELSE Undefined

lib_vector2list(a, st) ==
  IF Len(a) # 1 THEN Error
  ELSE IF a[1].t # "vector" THEN Undefined
  ELSE List([k \in 1 .. Length(a[1], st) |-> st[a[1].id][k - 1]], Nil)

\* No bound is checked: beyond the end is whatever lies there.
InBounds(v, k, st) == v.t = "vector" /\ k.n \in DOMAIN st[v.id]

lib_vector_ref(a, st) ==
  IF Len(a) # 2 \/ a[2].t # "fixnum" THEN Error
  ELSE IF InBounds(a[1], a[2], st) THEN st[a[1].id][a[2].n] ELSE Undefined

lib_vector_set(a, st) ==
  IF Len(a) # 3 \/ a[2].t # "fixnum" THEN Keeps(st, Error)
  ELSE IF InBounds(a[1], a[2], st)
  THEN [val |-> Unspec, store |-> [st EXCEPT ![a[1].id][a[2].n] = a[3]]]
  ELSE Keeps(st, Undefined)

lib_make_dict(a, st) ==
  IF a = <<>> THEN Makes(st, HashTable(Len(st) + 1), <<>>) ELSE Keeps(st, Error)

\* dict_lookup ends the process on what is not a hash table, and takes the
\* hash of any key for that of a symbol.
Lookup(a, n, st, result) ==
  IF Len(a) # n \/ a[1].t # "dict" THEN Error
  ELSE IF a[2].t # "symbol" THEN Undefined ELSE result

lib_dict_ref(a, st) ==
  Lookup(a, 2, st, IF a[2].name \in DOMAIN st[a[1].id] THEN st[a[1].id][a[2].name] ELSE Error)
lib_dict_ref_default(a, st) ==
  Lookup(a, 3, st, IF a[2].name \in DOMAIN st[a[1].id] THEN st[a[1].id][a[2].name] ELSE a[3])
lib_dict_exists(a, st) == Lookup(a, 2, st, Bool(a[2].name \in DOMAIN st[a[1].id]))

Update(a, n, st, content) ==
  LET v == Lookup(a, n, st, Unspec)
  IN  IF v = Unspec THEN [val |-> v, store |-> [st EXCEPT ![a[1].id] = content]]
      ELSE Keeps(st, v)

lib_dict_set(a, st) == Update(a, 3, st, With(st[a[1].id], a[2].name, a[3]))
lib_dict_delete(a, st) ==
  Update(a, 2, st, [x \in DOMAIN st[a[1].id] \ {a[2].name} |-> st[a[1].id][x]])

-----------------------------------------------------------------------------
\* The table `library' of slib.c: what the primitive f returns for the
\* arguments a, and what the vectors and hash tables are then.
Looks(f, a, st) ==
  CASE f = "+" -> lib_add(a)
    [] f = "-" -> lib_minus(a)
    [] f = "<" -> lib_lessthan(a)
    [] f = "cons" -> lib_cons(a)
    [] f = "car" -> lib_car(a)
    [] f = "cdr" -> lib_cdr(a)
    [] f = "null?" -> lib_nullp(a)
    [] f = "pair?" -> lib_pairp(a)
    [] f = "symbol?" -> lib_symbolp(a)
    [] f = "integer?" -> lib_integerp(a)
    [] f = "vector?" -> lib_vectorp(a)
    [] f = "hash-table?" -> lib_dictp(a)
    [] f = "boolean?" -> lib_booleanp(a)
    [] f = "unspecified?" -> lib_unspecp(a)
    [] f = "eof?" -> lib_eofobjp(a)
    [] f = "procedure?" -> lib_procedurep(a)
    [] f = "error" -> lib_error(a)
    [] f = "set-backtrace-base" -> lib_set_backtrace_base(a)
    [] f = "readline-set-prompt" -> lib_rl_setprompt(a)
    [] f = "vector-length" -> lib_vector_length(a, st)
    [] f = "vector->list" -> lib_vector2list(a, st)
    [] f = "vector-ref" -> lib_vector_ref(a, st)
    [] f = "hash-ref" -> lib_dict_ref(a, st)
    [] f = "hash-ref/default" -> lib_dict_ref_default(a, st)
    [] f = "hash-exists?" -> lib_dict_exists(a, st)

Library(f, a, st) ==
  CASE f = "make-vector" -> lib_make_vector(a, st)
    [] f = "list->vector" -> lib_list2vector(a, st)
    [] f = "vector-set!" -> lib_vector_set(a, st)
    [] f = "make-hash" -> lib_make_dict(a, st)
    [] f = "hash-set!" -> lib_dict_set(a, st)
    [] f = "hash-delete!" -> lib_dict_delete(a, st)
    [] OTHER -> Keeps(st, Looks(f, a, st))

\* The primitives that the evaluator runs as actions of their own.
CallEcName == "call-with-escaping-continuation"
ControlProcs == {"eval", "apply", CallEcName, "load", "read", "display", "newline",
                 "null-environment", "scheme-report-environment"}
LibraryProcs == {"+", "-", "<", "cons", "car", "cdr", "null?", "pair?", "symbol?",
  "integer?", "vector?", "hash-table?", "boolean?", "unspecified?", "eof?",
  "procedure?", "error", "set-backtrace-base", "readline-set-prompt",
  "vector-length", "vector->list", "vector-ref", "hash-ref", "hash-ref/default",
  "hash-exists?", "make-vector", "list->vector", "vector-set!", "make-hash",
  "hash-set!", "hash-delete!"}
SpecForms == {"if", "lambda", "define", "set!", "begin", "quote", "lambda-syntax"}

\* What slib_open and slang_open bind in the first environment.
Prelude == [x \in LibraryProcs \cup ControlProcs \cup SpecForms |->
              IF x \in SpecForms THEN SpecForm(x) ELSE Proc(x)]
=============================================================================
