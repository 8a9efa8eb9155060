------------------------------ MODULE Rooting ------------------------------
(* The functions of sobj.c, slang.c, slib.c and seval.c that allocate more  *)
(* than once.  Each is a sequence of steps over its C locals: allocations,  *)
(* any of which may collect, SGC_ROOTn, assignments to fields and reads of  *)
(* them.  A collection marks what the slots and the constructor's arguments *)
(* reach, a wave at a time, and frees the rest, which is what module Sgc    *)
(* shows of gc_collect; here a field may still be what malloc left in it.   *)
EXTENDS Integers, SequencesExt

CONSTANTS
  Null,           \* NULL
  Nil,            \* nil_wrap(), a static object
  Junk,           \* a field that was never assigned
  Program         \* for each function that is run: its steps (code), the C
                  \* locals it is called with (args), the slots and the heap

Atoms == {Null, Nil, Junk}

VARIABLES
  fn,             \* the function that runs
  pc,             \* the number of its next step
  local,          \* its C locals and those of the functions it calls
  stack,          \* the slots, the frame pointer's last
  saved,          \* the callers' frame pointers, as depths of the stack
  heap,           \* heap[a]: the pointer fields of a; addresses are not reused,
                  \* so that a freed object is told from a new one
  freed,          \* the addresses that were freed
  collecting,     \* the constructor at pc has called gc_collect
  marked,         \* what the collection has reached so far
  wild            \* a visitor has followed an unassigned field

vars == <<fn, pc, local, stack, saved, heap, freed, collecting, marked, wild>>

-----------------------------------------------------------------------------
(* The steps.                                                               *)

\* dst = X_wrap(frame, args ...): the constructor roots its arguments when it
\* has to collect.  It fills in fields, which are locals, or leaves them Junk.
New(dst, args, fields) == <<[do |-> "new", dst |-> dst, args |-> args, fields |-> fields]>>

\* SGC_ROOT1(frame, x)
Root(x) == <<[do |-> "root", x |-> x]>>

\* frame[i - 1] = x
Poke(i, x) == <<[do |-> "poke", i |-> i, x |-> x]>>

\* dst = x, dst = x->field, x->field = y
Copy(dst, x) == <<[do |-> "copy", dst |-> dst, x |-> x]>>
Get(dst, x, i) == <<[do |-> "get", dst |-> dst, x |-> x, i |-> i]>>
Put(x, i, y) == <<[do |-> "put", x |-> x, i |-> i, y |-> y]>>

\* A function has its own copy of the frame pointer.
Function(body) == <<[do |-> "enter"]>> \o body \o <<[do |-> "leave"]>>

\* Jumps are counted from the step after them.
Jump(n) == <<[do |-> "jump", over |-> n]>>

\* while (pairp(x)) body
While(x, body) ==
  <<[do |-> "if", x |-> x, over |-> Len(body) + 1]>> \o body \o Jump(-Len(body) - 2)

\* The last step of such a body.
Break == Jump(1)

\* if (pairp(x)) first else second
If(x, first, second) ==
  <<[do |-> "if", x |-> x, over |-> Len(first) + 1]>> \o first \o
  Jump(Len(second)) \o second

\* One of the two, as data decide that are not modelled.
Either(first, second) ==
  <<[do |-> "either", over |-> Len(first) + 1]>> \o first \o Jump(Len(second)) \o second

\* body[1] \o ... \o body[n]
Loop(n, body(_)) == FlattenSeq([i \in 1 .. n |-> body(i)])

Step ==
  [do : {"new"}, dst : STRING, args : Seq(STRING), fields : Seq(STRING)] \cup
  [do : {"root"}, x : STRING] \cup [do : {"poke"}, i : Nat, x : STRING] \cup
  [do : {"copy"}, dst : STRING, x : STRING] \cup
  [do : {"get"}, dst : STRING, x : STRING, i : Nat] \cup
  [do : {"put"}, x : STRING, i : Nat, y : STRING] \cup
  [do : {"enter", "leave"}] \cup [do : {"jump", "either"}, over : Int] \cup
  [do : {"if"}, x : STRING, over : Int]

-----------------------------------------------------------------------------
(* The functions.                                                           *)

\* The length of a hash table's vector.
Buckets == 2

symbol_wrap(dst) == New(dst, <<>>, <<>>)

\* (The slip: only the car is rooted.)
PairHalfRooted(dst, car, cdr) == New(dst, <<car>>, <<car, cdr>>)

pair_wrap(dst, car, cdr) == New(dst, <<car, cdr>>, <<car, cdr>>)
closure_wrap(dst, env, formals, body) == New(dst, <<env, formals, body>>, <<env, formals, body>>)
macro_wrap(dst, rule) == New(dst, <<rule>>, <<rule>>)
econt_wrap(dst) == New(dst, <<>>, <<"NULL">>)
vector_wrap(dst, n, fill) == New(dst, <<fill>>, [i \in 1 .. n |-> fill])

dict_wrap(dst) == Function(
  New(dst, <<>>, <<"junk">>) \o Root(dst) \o
  Put(dst, 1, "NULL") \o
  vector_wrap("vec", Buckets, "nil") \o Put(dst, 1, "vec"))

\* (The slip: the fields are left as they are until they are known.)
EnvironUncleared(dst, outer) == Function(
  New(dst, <<outer>>, <<"junk", "junk">>) \o Root(dst) \o Root(outer) \o
  dict_wrap("dict") \o Put(dst, 1, "dict") \o
  Put(dst, 2, outer))

environ_wrap(dst, outer) == Function(
  New(dst, <<outer>>, <<"junk", "junk">>) \o Root(dst) \o Root(outer) \o
  Put(dst, 1, "NULL") \o Put(dst, 2, "NULL") \o
  dict_wrap("dict") \o Put(dst, 1, "dict") \o
  Put(dst, 2, outer))

\* An entry is moved to the bucket b of the new vector.
dict_move(b) ==
  Get("head", "new_vec", b) \o pair_wrap("link", "moved", "head") \o
  Put("new_vec", b, "link")

\* Which bucket it is, the hash of its key decides.
dict_rehash(self) == Function(
  New("ndict", <<self>>, <<"junk">>) \o Root(self) \o Root("ndict") \o
  vector_wrap("target_vec", Buckets, "nil") \o Put("ndict", 1, "target_vec") \o
  Get("self_vec", self, 1) \o Get("new_vec", "ndict", 1) \o
  Loop(Buckets, LAMBDA b :
    Get("entry_list", "self_vec", b) \o
    While("entry_list",
      Get("moved", "entry_list", 1) \o Get("hashed", "moved", 1) \o
      Either(dict_move(1), dict_move(2)) \o
      Get("entry_list", "entry_list", 2))) \o
  Put(self, 1, "new_vec"))

\* dict_lookup with DL_CREATE_ON_ABSENT, the key being absent from its bucket,
\* the first.  The table may then be too full.
dict_create(self, key) == Function(
  Get("vec", self, 1) \o Root(key) \o Get("entry_list", "vec", 1) \o
  pair_wrap("entry", key, "nil") \o
  pair_wrap("link", "entry", "entry_list") \o Put("vec", 1, "link") \o
  Either(<<>>, dict_rehash(self)))

\* dict_lookup with DL_POP_IF_FOUND, the key being first in its bucket.  The
\* table may then be too sparse.
dict_pop(self) == Function(
  Get("vec", self, 1) \o Get("entry_list", "vec", 1) \o Get("entry", "entry_list", 1) \o
  Get("rest", "entry_list", 2) \o Put("vec", 1, "rest") \o
  Either(<<>>, dict_rehash(self)))

dict_get_keys(dst, self) == Function(
  Root(self) \o Get("vec", self, 1) \o Copy(dst, "nil") \o
  Loop(Buckets, LAMBDA b :
    Get("iter", "vec", b) \o
    While("iter",
      Get("kvpair", "iter", 1) \o Get("key", "kvpair", 1) \o
      pair_wrap(dst, "key", dst) \o Get("iter", "iter", 2))))

lib_dict_set == dict_create("dic", "key") \o Put("entry", 2, "val")

symbol_intern(dst) == Function(
  symbol_wrap("symb") \o dict_create("symbol_table", "symb") \o
  Get(dst, "entry", 1))

\* The symbol that is first in the bucket i of the symbol table.
interned(dst, i) ==
  Get("vec", "symbol_table", 1) \o Get("entry_list", "vec", i) \o
  Get("entry", "entry_list", 1) \o Get(dst, "entry", 1)

\* symbol_intern of such a symbol.
symbol_found(dst, i) == symbol_wrap("symb") \o interned(dst, i)

environ_bind(env, key, value) == Function(
  Root(value) \o Get("car", env, 1) \o dict_create("car", key) \o
  Put("entry", 2, value))

CopyLoop(dest) ==
  While("iter_src",
    Get("first", "iter_src", 1) \o pair_wrap("link", "first", "nil") \o
    Put(dest, 2, "link") \o Get("iter_dest", "iter_dest", 2) \o
    Get("iter_src", "iter_src", 2))

\* (The slips: the list is not rooted; every new pair is linked to the first
\* one.)
CopyUnrooted(dst, self) == Function(
  Get("first", self, 1) \o pair_wrap(dst, "first", "nil") \o Root(dst) \o
  Get("iter_src", self, 2) \o Copy("iter_dest", dst) \o CopyLoop("iter_dest"))

CopyToFirst(dst, self) == Function(
  Root(self) \o Get("first", self, 1) \o pair_wrap(dst, "first", "nil") \o Root(dst) \o
  Get("iter_src", self, 2) \o Copy("iter_dest", dst) \o CopyLoop(dst))

pair_copy_list(dst, self) == Function(
  Root(self) \o Get("first", self, 1) \o pair_wrap(dst, "first", "nil") \o Root(dst) \o
  Get("iter_src", self, 2) \o Copy("iter_dest", dst) \o CopyLoop("iter_dest"))

\* The list has n elements.
vector_from_list(dst, lis, n) == Function(
  Root(lis) \o vector_wrap(dst, n, "nil") \o
  Loop(n, LAMBDA i :
    Get("first", lis, 1) \o Put(dst, i, "first") \o Get(lis, lis, 2)))

\* The vector has n elements.
vector_to_list(dst, self, n) == Function(
  Root("nil") \o Copy(dst, "nil") \o
  Loop(n, LAMBDA i :
    Poke(1, dst) \o Get("item", self, n + 1 - i) \o pair_wrap(dst, "item", dst)))

\* frame_extend(frame, 1, FR_SAVE_PREV | FR_CONTINUE_ENV), with x in the slot.
\* A saved frame pointer is nothing to the collector.
frame_extend(x) == Root(x) \o Root("NULL") \o Root("env")

\* (apply rules (quote args)), up to its evaluation.
macro_expand(self, args) ==
  Function(
    Root(self) \o pair_wrap("args1", args, "nil") \o Root("args1") \o
    symbol_found("quote", 1) \o pair_wrap("args2", "quote", "args1") \o
    pair_wrap("args3", "args2", "nil") \o
    Get("rules", self, 1) \o pair_wrap("args4", "rules", "args3") \o Root("args4") \o
    symbol_found("apply", 2) \o pair_wrap("args5", "apply", "args4"))
  \o frame_extend("args5")

lang_lambda_syntax == Function(
  Get("formals", "expr", 1) \o Get("body", "expr", 2) \o
  closure_wrap("clos", "env", "formals", "body") \o Root("clos") \o
  macro_wrap("result", "clos"))

\* The application of a closure with formals (x . rest) to two arguments, the
\* first in slot 4 of the frame and the second in slot 3, up to the body.  The
\* static symbol_begin is a symbol that symbol_intern has made.
apply_closure ==
  Get("closure_env", "proc", 1) \o environ_wrap("new_env", "closure_env") \o
  Poke(1, "new_env") \o
  Get("formals", "proc", 2) \o
  Get("formal", "formals", 1) \o environ_bind("new_env", "formal", "arg1") \o
  Get("formals", "formals", 2) \o
  Function(Root("nil") \o pair_wrap("vararg", "arg2", "nil")) \o
  environ_bind("new_env", "formals", "vararg") \o
  interned("symbol_begin", 1) \o
  Get("body", "proc", 3) \o pair_wrap("result", "symbol_begin", "body")

\* Up to the evaluation of (proc cont).
lib_call_ec ==
  econt_wrap("cont") \o pair_wrap("arg", "cont", "nil") \o
  pair_wrap("expr", "proc", "arg") \o frame_extend("expr")

\* (define (name . formals) . body), the name not being bound in the scope.
lang_define ==
  Get("first", "expr", 1) \o Get("name", "first", 1) \o Get("formals", "first", 2) \o
  Get("body", "expr", 2) \o closure_wrap("result", "env", "formals", "body") \o
  environ_bind("env", "name", "result")

\* What an element is expanded to: eval_frame may collect, and what it returns
\* may be something new that is in no slot any more.
evaluated(dst) == pair_wrap(dst, "nil", "nil")

\* A list is spliced in behind iter, in the place of next.
splice ==
  pair_copy_list("last", "got") \o Put("iter", 2, "last") \o
  Get("rest", "last", 2) \o
  While("rest", Copy("last", "rest") \o Get("rest", "last", 2)) \o
  Get("rest", "next", 2) \o Put("last", 2, "rest") \o Copy("iter", "last")

\* So is the empty list, or next gets a new car.
unlink == Get("rest", "next", 2) \o Put("iter", 2, "rest") \o Get("iter", "iter", 2)
replace == Put("next", 1, "got") \o Get("iter", "iter", 2)

expand_quasiquote == Function(
  pair_copy_list("copy", "content") \o pair_wrap("expr", "nil", "copy") \o
  frame_extend("expr") \o
  Copy("iter", "expr") \o
  While("iter",
    Get("next", "iter", 2) \o
    If("next",
      evaluated("got") \o Either(splice, Either(unlink, replace)),
      Break)) \o
  Get("result", "expr", 2))

-----------------------------------------------------------------------------
\* What a local, a slot or a field of the heap h may hold.
Value(h) == DOMAIN h \cup Atoms

\* A heap whose fields have all been set.
IsHeap(h) ==
  /\ h \in Seq(Seq(Nat \cup Atoms))
  /\ \A a \in DOMAIN h : \A i \in DOMAIN h[a] : h[a][i] \in Value(h) \ {Junk}

\* NULL, nil_wrap() and a field that malloc returned are no objects of the
\* heap, and a function starts with locals and slots that have been assigned.
ASSUME ProgramAssumption ==
  /\ Atoms \cap Nat = {} /\ Null # Junk /\ Nil # Junk
  /\ \A f \in DOMAIN Program :
       /\ Program[f].code \in Seq(Step)
       /\ IsHeap(Program[f].heap)
       /\ Program[f].stack \in Seq(Value(Program[f].heap) \ {Junk})
       /\ Program[f].args \in
            [DOMAIN Program[f].args -> Value(Program[f].heap) \ {Junk}]
       /\ DOMAIN Program[f].args \subseteq STRING

Static == [NULL |-> Null, nil |-> Nil, junk |-> Junk]

Init == /\ fn \in DOMAIN Program
        /\ pc = 1
        /\ local = [x \in DOMAIN Static \cup DOMAIN Program[fn].args |->
                      IF x \in DOMAIN Static THEN Static[x] ELSE Program[fn].args[x]]
        /\ stack = Program[fn].stack
        /\ saved = <<>>
        /\ heap = Program[fn].heap
        /\ freed = {}
        /\ collecting = FALSE
        /\ marked = {}
        /\ wild = FALSE

-----------------------------------------------------------------------------
code == Program[fn].code
step == code[pc]

\* The function is at a step of this kind.
At(what) == ~wild /\ ~collecting /\ pc \in DOMAIN code /\ step.do = what

\* It does it and comes to the next one.
Do(what) == At(what) /\ pc' = pc + 1 /\ UNCHANGED <<fn, collecting, marked, wild>>

Fields(names) == [i \in DOMAIN names |-> local[names[i]]]
Assigned(loc, x, value) ==
  [y \in DOMAIN loc \cup {x} |-> IF y = x THEN value ELSE loc[y]]
Assign(x, value) == local' = Assigned(local, x, value)

\* The constructor fills in a new object and returns it.
Made == /\ heap' = Append(heap, Fields(step.fields))
        /\ Assign(step.dst, Len(heap) + 1)
        /\ pc' = pc + 1
        /\ UNCHANGED <<fn, stack, saved, wild>>

\* gc_malloc succeeds at once.
NewAtOnce == At("new") /\ Made /\ UNCHANGED <<freed, collecting, marked>>

\* It does not, and the constructor roots its arguments and collects.
Scanned(args) == (Range(stack) \cup Range(Fields(args))) \cap DOMAIN heap

Collect == /\ At("new")
           /\ collecting' = TRUE
           /\ marked' = Scanned(step.args)
           /\ UNCHANGED <<fn, pc, local, stack, saved, heap, freed, wild>>

\* What the visitors of the objects in S are called with.
Visited(S) == (UNION {Range(heap[a]) : a \in S}) \cap DOMAIN heap

Mark == /\ collecting /\ ~wild
        /\ ~(Visited(marked) \subseteq marked)
        /\ marked' = marked \cup Visited(marked)
        /\ UNCHANGED <<fn, pc, local, stack, saved, heap, freed, collecting, wild>>

\* A visitor follows an unassigned field: anything may happen.  (One that
\* happens to hold NULL does no harm, and the collection goes on.)
MarkWild == /\ collecting /\ ~wild
            /\ \E a \in marked : Junk \in Range(heap[a])
            /\ wild' = TRUE
            /\ UNCHANGED <<fn, pc, local, stack, saved, heap, freed, collecting, marked>>

\* What is not marked is freed, and the second gc_malloc succeeds.
Sweep == /\ collecting /\ ~wild
         /\ Visited(marked) \subseteq marked
         /\ freed' = freed \cup (DOMAIN heap \ marked)
         /\ collecting' = FALSE
         /\ marked' = {}
         /\ Made

RootStep == /\ Do("root")
            /\ stack' = Append(stack, local[step.x])
            /\ UNCHANGED <<local, saved, heap, freed>>

\* The slot i from the frame pointer on.
Slot(i) == Len(stack) + 1 - i

PokeStep == /\ Do("poke")
            /\ stack' = [stack EXCEPT ![Slot(step.i)] = local[step.x]]
            /\ UNCHANGED <<local, saved, heap, freed>>

CopyStep == /\ Do("copy")
            /\ Assign(step.dst, local[step.x])
            /\ UNCHANGED <<stack, saved, heap, freed>>

SetField(h, a, i, value) == [h EXCEPT ![a] = [@ EXCEPT ![i] = value]]

\* x is an object with a field i.
HasField(x, i) == local[x] \in DOMAIN heap /\ i \in DOMAIN heap[local[x]]

GetStep == /\ Do("get") /\ HasField(step.x, step.i)
           /\ Assign(step.dst, heap[local[step.x]][step.i])
           /\ UNCHANGED <<stack, saved, heap, freed>>

PutStep == /\ Do("put") /\ HasField(step.x, step.i)
           /\ heap' = SetField(heap, local[step.x], step.i, local[step.y])
           /\ UNCHANGED <<local, stack, saved, freed>>

Enter == /\ Do("enter")
         /\ saved' = Append(saved, Len(stack))
         /\ UNCHANGED <<local, stack, heap, freed>>

Leave == /\ Do("leave")
         /\ stack' = SubSeq(stack, 1, Last(saved))
         /\ saved' = Front(saved)
         /\ UNCHANGED <<local, heap, freed>>

\* The data decide whether a loop goes on, and which way a branch takes.
Branch == /\ \/ At("if") /\ pc' = IF local[step.x] # Nil THEN pc + 1 ELSE pc + 1 + step.over
             \/ At("either") /\ pc' \in {pc + 1, pc + 1 + step.over}
             \/ At("jump") /\ pc' = pc + 1 + step.over
          /\ UNCHANGED <<fn, local, stack, saved, heap, freed, collecting, marked, wild>>

\* The function has returned, or the process is beyond the language.
Done == (pc \notin DOMAIN code \/ wild) /\ UNCHANGED vars

Next == \/ NewAtOnce \/ Collect \/ Mark \/ MarkWild \/ Sweep
        \/ RootStep \/ PokeStep \/ CopyStep \/ GetStep \/ PutStep
        \/ Enter \/ Leave \/ Branch \/ Done

Spec == Init /\ [][Next]_vars

-----------------------------------------------------------------------------
(* No visitor is sent to a field that was never assigned.                   *)
NoWildVisit == ~wild

(* The only allocation at which a visitor is sent to one is that of the new *)
(* vector in dict_rehash.                                                   *)
WildOnlyInRehash == wild => step.do = "new" /\ step.dst = "target_vec"

\* The locals that a step reads.
Operands(s) == CASE s.do = "new" -> Range(s.args) \cup Range(s.fields)
                 [] s.do \in {"root", "poke", "copy", "get", "if"} -> {s.x}
                 [] s.do = "put" -> {s.x, s.y}
                 [] OTHER -> {}

(* No step reads a C local whose object a collection has freed.             *)
OperandsAlive ==
  ~wild /\ pc \in DOMAIN code => \A x \in Operands(step) : local[x] \notin freed

(* Neither a slot nor an object that is still allocated refers to one that  *)
(* a collection has freed.                                                  *)
NoDangling == /\ Range(stack) \cap freed = {}
              /\ \A a \in DOMAIN heap \ freed : Range(heap[a]) \cap freed = {}
=============================================================================
